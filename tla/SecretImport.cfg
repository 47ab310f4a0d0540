SPECIFICATION Spec
CONSTANTS
    p1 = p1  p2 = p2  p3 = p3  s1 = s1  s2 = s2
    Procs = {p1, p2, p3}  Salts = {s1, s2}  Texts = {"new"}
    OldSalt = OldSalt  OldText = "old"  None = None
SYMMETRY Symmetry
PROPERTIES ImportReplacesNothing
