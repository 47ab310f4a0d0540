SPECIFICATION Spec
CONSTANTS
    j1 = j1  j2 = j2  b1 = b1  b2 = b2  p1 = p1  p2 = p2
    n1 = n1  n2 = n2  issue1 = issue1
    Jobs = {j1, j2}  KeyOf <- OneIssue  MaxAttempts = 3
    Shas = {b1, b2}  Patches = {p1, p2}  Numbers = {n1, n2}
    Foreign = Foreign  None = None
SYMMETRY Symmetry
INVARIANTS InductiveInvariant AtMostOnePR OnePublishedSolution RecordAgreesWithGitHub
    QuietWhenUnsure SuccessMeansSettled
PROPERTIES ForeignCommitsSurvive ImplementsPublication
