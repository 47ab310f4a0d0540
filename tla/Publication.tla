---------------------------- MODULE Publication ----------------------------
(***************************************************************************)
(* What DevInbox promises the maintainers of a repository about one issue: *)
(* it decides on one solution, shows that one and no other, opens at most  *)
(* one pull request, only once it has decided, and remembers no other      *)
(* pull request than that.  The maintainers may take away what is shown.   *)
(***************************************************************************)
CONSTANTS Repos, Solutions, Numbers, None

VARIABLES
    solution,   \* what it has decided on
    shown,      \* the repositories with the solution at the head of the branch
    opened,     \* pull requests it has opened
    known       \* the pull request it remembers

vars == <<solution, shown, opened, known>>

Init == solution = None /\ shown = {} /\ opened = {} /\ known = None

Decide(s) ==
    /\ solution = None
    /\ solution' = s
    /\ UNCHANGED <<shown, opened, known>>

Show(r) ==
    /\ solution # None
    /\ shown' = shown \cup {r}
    /\ UNCHANGED <<solution, opened, known>>

TakeAway(r) ==
    /\ shown' = shown \ {r}
    /\ UNCHANGED <<solution, opened, known>>

\* The answer may be lost: then it is not remembered yet.
Open(n) ==
    /\ solution # None /\ opened = {}
    /\ opened' = {n}
    /\ known' \in {known, n}
    /\ UNCHANGED <<solution, shown>>

Remember(n) ==
    /\ n \in opened
    /\ known' = n
    /\ UNCHANGED <<solution, shown, opened>>

Next ==
    \/ \E s \in Solutions : Decide(s)
    \/ \E r \in Repos : Show(r) \/ TakeAway(r)
    \/ \E n \in Numbers : Open(n) \/ Remember(n)

Spec == Init /\ [][Next]_vars
=============================================================================
