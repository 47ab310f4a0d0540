------------------------------ MODULE JobLedger ------------------------------
(***************************************************************************)
(* What the job queue promises, with no dispatchers, notifications, tokens *)
(* or leases: an admitted job waits, is attempted at most MaxAttempts      *)
(* times, one attempt after the other and never beside another attempt for *)
(* the same resource, and ends once.  An attempt whose executor is lost    *)
(* goes back to waiting, or fails the job when it was the last one.        *)
(***************************************************************************)
EXTENDS Naturals

CONSTANTS Jobs, KeyOf, MaxAttempts

VARIABLES
    phase,      \* where each job stands
    attempts    \* how many times each job has been attempted

ledger == <<phase, attempts>>

Phases == {"absent", "waiting", "running", "failed", "succeeded"}
Unfinished == {"waiting", "running"}

LedgerInit ==
    /\ phase = [j \in Jobs |-> "absent"]
    /\ attempts = [j \in Jobs |-> 0]

\* One unfinished job per resource.
LedgerAdmit(j) ==
    /\ phase[j] = "absent"
    /\ \A i \in Jobs : phase[i] \in Unfinished => KeyOf[i] # KeyOf[j]
    /\ phase' = [phase EXCEPT ![j] = "waiting"]
    /\ UNCHANGED attempts

LedgerStart(j) ==
    /\ phase[j] = "waiting"
    /\ attempts[j] < MaxAttempts
    /\ phase' = [phase EXCEPT ![j] = "running"]
    /\ attempts' = [attempts EXCEPT ![j] = @ + 1]

\* The attempt ends with a verdict; a retry needs an attempt left.
LedgerEnd(j, p) ==
    /\ phase[j] = "running"
    /\ p \in {"waiting", "failed", "succeeded"}
    /\ p = "waiting" => attempts[j] < MaxAttempts
    /\ phase' = [phase EXCEPT ![j] = p]
    /\ UNCHANGED attempts

\* The executors of these jobs are lost.
LedgerLose(lost) ==
    /\ \A j \in lost : phase[j] = "running"
    /\ phase' = [j \in Jobs |->
                   IF j \notin lost THEN phase[j]
                   ELSE IF attempts[j] < MaxAttempts THEN "waiting" ELSE "failed"]
    /\ UNCHANGED attempts

LedgerNext ==
    \/ \E j \in Jobs : LedgerAdmit(j) \/ LedgerStart(j)
    \/ \E j \in Jobs, p \in Phases : LedgerEnd(j, p)
    \/ \E lost \in SUBSET Jobs : LedgerLose(lost)

LedgerSpec == LedgerInit /\ [][LedgerNext]_ledger
=============================================================================
