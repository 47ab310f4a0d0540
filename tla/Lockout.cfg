SPECIFICATION WebFairSpec
CONSTANTS
    p1 = p1  p2 = p2  s1 = s1  s2 = s2
    Procs = {p1, p2}  Salts = {s1, s2}  Texts = {"operator", "guess"}
    OldSalt = OldSalt  OldText = "old"  None = None
    EnvPasswords = {"operator", None}
    Limit = 2  MaxOpen = 1  MaxCount = 4
PROPERTIES LockoutEnds
