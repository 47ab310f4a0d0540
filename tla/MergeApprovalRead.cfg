SPECIFICATION Spec
CONSTANTS
    j1 = j1  j2 = j2  h1 = h1  h2 = h2  ann = ann  bob = bob  pull1 = pull1
    Jobs = {j1, j2}  KeyOf <- OnePull  MaxAttempts = 2  MaxComments = 2
    Heads = {h1, h2}  Writers = {ann}  Others = {bob}  Self = Self  None = None
SYMMETRY Symmetry
INVARIANTS ApprovalIsRead
CHECK_DEADLOCK FALSE
