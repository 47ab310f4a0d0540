------------------------------- MODULE Merging -------------------------------
(***************************************************************************)
(* What DevInbox promises about a pull request it has opened: it is merged *)
(* at a head that is approved and tested, or not at all, nothing happens   *)
(* to it afterwards, and it is marked as merged only then.                 *)
(***************************************************************************)
CONSTANTS Heads

VARIABLES
    head,       \* what the pull request would merge
    fate,       \* "open", "closed" or "merged"
    approved,   \* heads that somebody entitled has approved
    tested,     \* heads whose checks have passed lately
    marked      \* whether DevInbox says that it is merged

vars == <<head, fate, approved, tested, marked>>

Init ==
    /\ head \in Heads
    /\ fate = "open"
    /\ approved = {}
    /\ tested = {}
    /\ marked = FALSE

Push(h) ==
    /\ fate = "open"
    /\ head' = h
    /\ UNCHANGED <<fate, approved, tested, marked>>

Close ==
    /\ fate = "open"
    /\ fate' = "closed"
    /\ UNCHANGED <<head, approved, tested, marked>>

Approve(h) ==
    /\ approved' = approved \cup {h}
    /\ UNCHANGED <<head, fate, tested, marked>>

\* Checks pass, or are to pass anew.
Test ==
    /\ tested' \in SUBSET Heads
    /\ UNCHANGED <<head, fate, approved, marked>>

Merge ==
    /\ fate = "open"
    /\ head \in approved \cap tested
    /\ fate' = "merged"
    /\ tested' \in SUBSET Heads
    /\ UNCHANGED <<head, approved, marked>>

Mark ==
    /\ fate = "merged"
    /\ marked' = TRUE
    /\ UNCHANGED <<head, fate, approved, tested>>

Next ==
    \/ \E h \in Heads : Push(h) \/ Approve(h)
    \/ Test
    \/ Close
    \/ Merge
    \/ Mark

Spec == Init /\ [][Next]_vars
=============================================================================
