SPECIFICATION FairSpec
CONSTANTS
    f1 = f1  f2 = f2
    ModelCount = 2  Files = {f1, f2}
    MaxRetries = 3  QuotaTries = 3  MaxTurns = 6
INVARIANTS InductiveInvariant PatchSetIsGrounded EveryModelIsTried
PROPERTIES EveryStepGetsOn EveryCallReturns
