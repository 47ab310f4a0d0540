SPECIFICATION Spec
CONSTANTS
    r1 = r1  r2 = r2  e1 = e1  e2 = e2  e3 = e3  k1 = k1  k2 = k2
    j1 = j1  j2 = j2  j3 = j3
    Requests = {r1, r2}  Deliveries = {e1, e2, e3}  Keys = {k1, k2}
    KeyOf <- EventKey  JobIds = {j1, j2, j3}
    Windows = {0, 1}  Limit = 2  Tries = 3  None = None
SYMMETRY Symmetry
INVARIANTS InductiveInvariant AnswerIsRecorded OneJobPerDelivery OneLiveJobPerKey WindowCountsJobs
PROPERTIES DeliveryNeverMoves
