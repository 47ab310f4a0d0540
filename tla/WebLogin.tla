------------------------------ MODULE WebLogin ------------------------------
(***************************************************************************)
(* The web processes: each constructs its KeyManager, has the operator's   *)
(* administrator stored (bootstrap_admin, in the application's lifespan),  *)
(* and then serves logins, whose failures are counted in Redis or, when    *)
(* Redis fails, in the process.                                            *)
(*                                                                         *)
(* The secret of SecretStore is the administrator's record here, and every *)
(* step of a process at its KeyManager is a step of SecretStore.  A login  *)
(* awaits its form after the check of the limit; from there to its answer  *)
(* the handler does not give way, so that it meets other processes at      *)
(* every call of the store and of Redis, but no other login of its own.    *)
(*                                                                         *)
(* One client: the counters of different addresses have nothing in common. *)
(* Passwords have the length that is required of them.                     *)
(* A window is over at some time; how long it takes is left open.          *)
(***************************************************************************)
EXTENDS SecretStore, FiniteSets

CONSTANTS
    EnvPasswords,   \* what ADMIN_BOOTSTRAP_PASSWORD may be; None: not set
    Limit,          \* _LOGIN_RATE_LIMIT
    MaxOpen,        \* requests that await their form in a process
    MaxCount        \* bound: counters stop there

ASSUME LoginAssumption ==
    /\ EnvPasswords \subseteq Texts \cup {None}
    /\ None \notin Texts \cup Ciphers
    /\ Limit \in Nat \ {0} /\ MaxOpen \in Nat /\ MaxCount \in Nat
    /\ IsFiniteSet(Procs)

VARIABLES
    debug,          \* settings.DEBUG
    env,            \* settings.ADMIN_BOOTSTRAP_PASSWORD
    redis,          \* "works", "fails" (any call may), "none" (no REDIS_URL)
    counter,        \* the client's counter in Redis
    web             \* the lifespan or the handler of each process

settings == <<debug, env, redis>>

storeVars == vars

webVars == <<vars, debug, env, redis, counter, web>>

-----------------------------------------------------------------------------
NoCount == [count |-> 0, expires |-> FALSE]

\* A process before its start: typed is the password of the login being
\* handled, open the logins that await their form, local the limiter's own list.
Fresh == [at |-> "boot", typed |-> None, open |-> 0, local |-> 0]

WebInit ==
    /\ Init
    /\ debug \in BOOLEAN
    /\ env \in EnvPasswords
    /\ redis \in {"works", "fails", "none"}
    /\ counter = NoCount
    /\ web = [p \in Procs |-> Fresh]

\* The administrator's record, as a load of any process finds it in the end.
Administrator == IF secret.row # None THEN secret.row ELSE secret.file

Found == IF backend = "db" THEN secret.row ELSE secret.file

GoTo(p, at) == web' = [web EXCEPT ![p].at = at]

\* The handler returns.
Answered(p) == web' = [web EXCEPT ![p] = [@ EXCEPT !.at = "up", !.typed = None]]

More(n) == IF n < MaxCount THEN n + 1 ELSE n

-----------------------------------------------------------------------------
(***************************************************************************)
(* Slips that a change of the code could make, each a variant of the       *)
(* definition it is named after.                                           *)
(***************************************************************************)
LoadedOverwritten(p, text) ==
    IF web[p].at = "boot" /\ env # None THEN GoTo(p, "claim") ELSE Answered(p)

NothingLoadedMatters(p) ==
    IF web[p].at = "boot" /\ env # None THEN GoTo(p, "claim") ELSE Answered(p)

LoadedRefused(p, text) ==
    CASE web[p].at = "boot"      -> GoTo(p, "refused")
      [] web[p].typed = text     -> Answered(p)
      [] OTHER                   -> GoTo(p, "failure")

RaisesIgnored(p, as) == Answered(p)

WithinLimitUnchecked(p, asked) == TRUE

-----------------------------------------------------------------------------
(***************************************************************************)
(* lifespan: get_key_manager constructs the KeyManager.                    *)
(***************************************************************************)
Construct(p) ==
    /\ web[p].at = "boot"
    /\ \/ \E s \in Salts : OfferSalt(p, s) \/ NoSalt(p, s)
       \/ InsertSalt(p)
       \/ RereadSalt(p)
       \/ LockSalt(p)
       \/ FoundSalt(p)
       \/ WriteSalt(p)
    /\ UNCHANGED <<settings, counter, web>>

-----------------------------------------------------------------------------
(***************************************************************************)
(* get_admin_password_hash, in bootstrap_admin ("boot") and in a login.    *)
(***************************************************************************)
\* It returns a hash: there is an administrator already, or the password that
\* was typed is verified.
Loaded(p, text) ==
    IF web[p].at = "boot" \/ web[p].typed = text THEN Answered(p)
    ELSE GoTo(p, "failure")

\* It returns None: bootstrap_admin stores the operator's password; without one
\* the start fails, unless DEBUG leaves the choice to the first visitor.
MayClaim(p) ==
    IF web[p].at = "boot" THEN env # None ELSE debug

NothingLoaded(p) ==
    CASE MayClaim(p) -> GoTo(p, "claim")
      [] web[p].at = "boot" /\ ~ debug -> GoTo(p, "refused")
      [] OTHER -> Answered(p)

LoadFinds(p) ==
    /\ web[p].at \in {"boot", "login"} /\ proc[p].pc = "ready"
    /\ Found # None /\ Found.salt = proc[p].salt
    /\ Loaded(p, Found.text)
    /\ UNCHANGED <<storeVars, settings, counter>>

LoadsNothing(p) ==
    /\ web[p].at \in {"boot", "login"} /\ proc[p].pc = "ready"
    /\ backend = "files" /\ Found = None
    /\ NothingLoaded(p)
    /\ UNCHANGED <<storeVars, settings, counter>>

LooksForLegacy(p) ==
    /\ web[p].at \in {"boot", "login"}
    /\ LoadMisses(p)
    /\ UNCHANGED <<settings, counter, web>>

LoadsLegacy(p) ==
    /\ ReadLegacy(p)
    /\ IF secret.file = None THEN NothingLoaded(p) ELSE UNCHANGED web
    /\ UNCHANGED <<settings, counter>>

-----------------------------------------------------------------------------
(***************************************************************************)
(* save_admin_password_hash, in bootstrap_admin and in a first login, and  *)
(* the put of an import.                                                   *)
(***************************************************************************)
Chosen(p) == IF web[p].typed = None THEN env ELSE web[p].typed

Claim(p) ==
    /\ web[p].at = "claim"
    /\ \/ Save(p, Chosen(p)) /\ UNCHANGED web
       \/ SaveFile(p, Chosen(p)) /\ Answered(p)
    /\ UNCHANGED <<settings, counter>>

PutLooks(p) ==
    /\ PutReads(p)
    /\ UNCHANGED <<settings, counter, web>>

PutStores(p) ==
    /\ PutWrites(p)
    /\ IF web[p].at = "claim" THEN Answered(p) ELSE Loaded(p, proc[p].cipher.text)
    /\ UNCHANGED <<settings, counter>>

\* A load or a save fails: a start fails with it, a login answers that.
Raises(p, as) ==
    IF web[p].typed = None THEN GoTo(p, as) ELSE Answered(p)

\* The row is somebody else's by now.
PutFails(p) ==
    /\ PutConflicts(p)
    /\ Raises(p, "refused")
    /\ UNCHANGED <<settings, counter>>

\* The store fails, before or after the call had its effect.  A start it
\* fails is told from one that the program refuses: that is "broken".
StoreFails(p) ==
    /\ web[p].at \in {"boot", "login", "claim"}
    /\ StoreRaises(p) \/ PutWrites(p)
    /\ Raises(p, "broken")
    /\ UNCHANGED <<settings, counter>>

-----------------------------------------------------------------------------
(***************************************************************************)
(* api_login up to the load, and record_failure after it.                  *)
(***************************************************************************)
\* is_limited asks Redis, or the process's own list when Redis fails.
WithinLimit(p, asked) ==
    IF asked THEN counter.count < Limit ELSE web[p].local < Limit

Accept(p, asked) ==
    /\ web[p].at = "up" /\ web[p].open < MaxOpen
    /\ redis # (IF asked THEN "none" ELSE "works")
    /\ WithinLimit(p, asked)
    /\ web' = [web EXCEPT ![p].open = @ + 1]
    /\ UNCHANGED <<storeVars, settings, counter>>

FormArrives(p, t) ==
    /\ web[p].at = "up" /\ web[p].open > 0
    /\ web' = [web EXCEPT ![p].at = "login", ![p].typed = t, ![p].open = @ - 1]
    /\ UNCHANGED <<storeVars, settings, counter>>

\* The form cannot be read, or has no password.
BadForm(p) ==
    /\ web[p].at = "up" /\ web[p].open > 0
    /\ web' = [web EXCEPT ![p].open = @ - 1]
    /\ UNCHANGED <<storeVars, settings, counter>>

\* INCR; the first failure of a window goes on to EXPIRE.
Counted == [counter EXCEPT !.count = More(@)]

Increment(p) ==
    /\ web[p].at = "failure" /\ redis # "none"
    /\ counter' = Counted
    /\ IF counter.count = 0 THEN GoTo(p, "expire") ELSE Answered(p)
    /\ UNCHANGED <<storeVars, settings>>

Expire(p) ==
    /\ web[p].at = "expire"
    /\ counter' = [counter EXCEPT !.expires = TRUE]
    /\ Answered(p)
    /\ UNCHANGED <<storeVars, settings>>

\* Either call raises, before or after its effect: the process counts itself.
CountsItself(p) ==
    /\ web[p].at \in {"failure", "expire"} /\ redis # "works"
    /\ web' = [web EXCEPT ![p].at = "up", ![p].typed = None, ![p].local = More(@)]
    /\ \/ UNCHANGED counter
       \/ /\ redis = "fails"
          /\ counter' = IF web[p].at = "failure" THEN Counted
                        ELSE [counter EXCEPT !.expires = TRUE]
    /\ UNCHANGED <<storeVars, settings>>

Counts(p) == Increment(p) \/ Expire(p) \/ CountsItself(p)

-----------------------------------------------------------------------------
(***************************************************************************)
(* Time, and the ends of processes.                                        *)
(***************************************************************************)
WindowEnds ==
    /\ counter.expires
    /\ counter' = NoCount
    /\ UNCHANGED <<storeVars, settings, web>>

Forget(p) ==
    /\ web[p].local > 0
    /\ web' = [web EXCEPT ![p].local = @ - 1]
    /\ UNCHANGED <<storeVars, settings, counter>>

Ends(p) ==
    /\ Dies(p)
    /\ web' = [web EXCEPT ![p] = Fresh]
    /\ UNCHANGED <<settings, counter>>

\* The exception of a start that failed ends the process ...
StartFails(p) == web[p].at \in {"refused", "broken"} /\ Ends(p)

\* ... and any other is ended from outside.
Killed(p) == web[p].at \notin {"refused", "broken"} /\ Ends(p)

-----------------------------------------------------------------------------
Progress(p) ==
    \/ Construct(p)
    \/ LoadFinds(p)
    \/ LoadsNothing(p)
    \/ LooksForLegacy(p)
    \/ LoadsLegacy(p)
    \/ Claim(p)
    \/ PutLooks(p)
    \/ PutStores(p)
    \/ PutFails(p)
    \/ StartFails(p)

LoginStep(p) ==
    \/ \E asked \in BOOLEAN : Accept(p, asked)
    \/ \E t \in Texts : FormArrives(p, t)
    \/ BadForm(p)
    \/ Counts(p)

WebNext ==
    \/ \E p \in Procs : Progress(p) \/ LoginStep(p) \/ Forget(p)
    \/ \E p \in Procs : StoreFails(p) \/ Killed(p)
    \/ WindowEnds

WebSpec == WebInit /\ [][WebNext]_webVars

\* A process that ended is started again (docker-compose.yml:84), its calls return,
\* a failure that is being counted is counted (the handler does not give way), and
\* windows end.  Which answer a login gets, and whether there are any, is left open.
WebFairSpec ==
    /\ WebSpec
    /\ WF_webVars(WindowEnds)
    /\ \A p \in Procs : WF_webVars(Progress(p)) /\ WF_webVars(Counts(p))

-----------------------------------------------------------------------------
(***************************************************************************)
(* Safety.                                                                 *)
(***************************************************************************)
Handlers ==
    [at : {"boot", "claim", "refused", "broken", "up", "login", "failure", "expire"},
     typed : Texts \cup {None}, open : 0 .. MaxOpen, local : 0 .. MaxCount]

WebTypeOK ==
    /\ debug \in BOOLEAN /\ env \in EnvPasswords
    /\ redis \in {"works", "fails", "none"}
    /\ counter \in [count : 0 .. MaxCount, expires : BOOLEAN]
    /\ web \in [Procs -> Handlers]

Serving(p) == web[p].at \in {"up", "login", "failure", "expire"}

\* The operator has not left the choice to the first visitor.
Provisioned == env # None \/ ~ debug

\* A process that takes logins has an administrator to check them against
\* (bootstrap.py:9 "Close the first-run window"): no visitor is the first.
ServingHasAdmin ==
    Provisioned => \A p \in Procs : Serving(p) => Administrator # None

\* However many processes start together, die, import an older installation's
\* administrator and meet logins: nobody who is stored as administrator is ever
\* replaced (bootstrap.py:12).
AdminIsFinal ==
    [][Provisioned /\ Administrator # None =>
          Administrator'.text = Administrator.text]_webVars

\* As long as Redis answers, all processes together let a client fail no more
\* than Limit times in a window, the requests apart that were past the check
\* by then; without Redis each process does (dashboard.py:151).
FailuresBounded ==
    /\ redis = "works" =>
          counter.count =< Limit - 1 + MaxOpen * Cardinality(Procs)
    /\ redis = "none" =>
          \A p \in Procs : web[p].local =< Limit - 1 + MaxOpen

-----------------------------------------------------------------------------
(***************************************************************************)
(* What makes ServingHasAdmin and AdminIsFinal inductive: where a handler  *)
(* is, its KeyManager is; a put that belongs to a load brings the legacy   *)
(* record; and whoever is about to store an administrator finds none, or   *)
(* the one that the operator chose.                                        *)
(***************************************************************************)
Putting(p) == proc[p].pc \in {"put", "add", "update"}

HandlerAgrees(p) ==
    /\ web[p].at \in {"up", "failure", "expire", "refused", "broken"} =>
          proc[p].pc = "ready"
    /\ web[p].at = "claim" =>
          /\ proc[p].pc = "ready" \/ Putting(p)
          /\ Chosen(p) \in Texts
          /\ backend = "db" => secret.file = None
    /\ web[p].at = "login" =>
          /\ proc[p].pc \in {"ready", "legacy"} \/ Putting(p)
          /\ web[p].typed # None
    /\ web[p].at \in {"boot", "up", "refused", "broken"} => web[p].typed = None

PutAgrees(p) ==
    Putting(p) =>
        /\ proc[p].cipher \in Ciphers
        /\ web[p].at \in {"boot", "login"} => proc[p].cipher = secret.file
        /\ web[p].at = "claim" => proc[p].cipher.text = Chosen(p)

ClaimAgrees(p) ==
    /\ web[p].at = "claim" =>
          /\ web[p].typed = None
          /\ backend = "files" /\ secret.file # None => secret.file.text = env
    /\ web[p].at = "login" /\ proc[p].pc = "legacy" => secret.file # None

RowAgrees ==
    backend = "db" /\ secret.row # None =>
        secret.row.text = IF secret.file = None THEN env ELSE secret.file.text

WebInvariant ==
    /\ InductiveInvariant
    /\ WebTypeOK
    /\ \A p \in Procs : HandlerAgrees(p) /\ PutAgrees(p)
    /\ ServingHasAdmin
    /\ Provisioned => RowAgrees /\ \A p \in Procs : ClaimAgrees(p)

-----------------------------------------------------------------------------
(***************************************************************************)
(* What makes FailuresBounded inductive: requests that are past the check  *)
(* have their places below the bound, whether they will fail or not.       *)
(***************************************************************************)
PastCheck(p) == web[p].open + (IF web[p].at \in {"login", "failure"} THEN 1 ELSE 0)

Places == Procs \X (1 .. MaxOpen)

Taken == {s \in Places : s[2] =< PastCheck(s[1])}

RoomLeft ==
    /\ \A p \in Procs : PastCheck(p) =< MaxOpen
    /\ redis = "works" =>
          counter.count + Cardinality(Taken) =< Limit - 1 + MaxOpen * Cardinality(Procs)
    /\ redis = "none" =>
          \A p \in Procs :
              /\ web[p].at # "expire"
              /\ web[p].local + PastCheck(p) =< Limit - 1 + MaxOpen

LoginInvariant == WebInvariant /\ RoomLeft

-----------------------------------------------------------------------------
(***************************************************************************)
(* Liveness.                                                               *)
(***************************************************************************)
\* What comes from outside and undoes a start: the process is killed, or the store
\* fails a call of bootstrap_admin.  That a start is refused, or loses its put to
\* another process, is the program's own doing and no disturbance.
Disturbed ==
    \E p \in Procs : Killed(p) \/ (web[p].typed = None /\ StoreFails(p))

\* bootstrap_admin need not refuse every start.
MayStart == env # None \/ debug \/ Administrator # None

\* A first visitor's password is being stored.
ClaimsByLogin(p) == web[p].at = "claim" /\ web[p].typed # None

\* Once starts are disturbed no more, every process comes to serve for good: one
\* that lost the race to store the administrator, or to import it, was refused and
\* is started again, and is not refused for ever (bootstrap.py:24, :30).
EveryProcessServes ==
    (<>[][~ Disturbed]_webVars /\ []MayStart) =>
        \A p \in Procs : <>[](Serving(p) \/ ClaimsByLogin(p))

\* "Redis errors never lock people out" (rate_limiter.py:4): a client that is
\* refused is not refused for ever.
LockoutEnds == (counter.count >= Limit) ~> (counter.count < Limit)
=============================================================================
