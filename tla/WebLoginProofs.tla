--------------------------- MODULE WebLoginProofs ---------------------------
(***************************************************************************)
(* Theorems about WebLogin, for every number of web processes, passwords   *)
(* and salts: what is proved of SecretStore holds of it, a process that    *)
(* serves has an administrator, no administrator is replaced, and the      *)
(* failures of a client are bounded.                                       *)
(***************************************************************************)
EXTENDS WebLogin, SecretStoreProofs, FiniteSetTheorems

-----------------------------------------------------------------------------
(***************************************************************************)
(* A handler that moves, and the record that is stored.                    *)
(***************************************************************************)
LEMMA GoToType ==
    ASSUME WebTypeOK, NEW p \in Procs,
           NEW at \in {"boot", "claim", "refused", "broken", "up", "login", "failure",
                    "expire"},
           GoTo(p, at)
    PROVE  /\ web' \in [Procs -> Handlers]
           /\ \A q \in Procs \ {p} : web'[q] = web[q]
           /\ web'[p].at = at /\ web'[p].typed = web[p].typed
  BY DEF WebTypeOK, Handlers, GoTo

LEMMA AnsweredType ==
    ASSUME WebTypeOK, NEW p \in Procs, Answered(p)
    PROVE  /\ web' \in [Procs -> Handlers]
           /\ \A q \in Procs \ {p} : web'[q] = web[q]
           /\ web'[p].at = "up" /\ web'[p].typed = None
  BY DEF WebTypeOK, Handlers, Answered

LEMMA RestedType ==
    ASSUME TypeOK, NEW p \in Procs, Rested(p)
    PROVE  /\ \A q \in Procs \ {p} : proc'[q] = proc[q]
           /\ proc'[p].pc = "ready" /\ proc'[p].cipher = None
  BY DEF TypeOK, Rested

-----------------------------------------------------------------------------
LEMMA WebInitInvariant == WebInit => WebInvariant
<1> SUFFICES ASSUME WebInit PROVE WebInvariant
  OBVIOUS
<1>1. InductiveInvariant
  BY InitInvariant DEF WebInit
<1>2. WebTypeOK
  BY LoginAssumption DEF WebInit, WebTypeOK, Handlers, Fresh, NoCount
<1>3. \A p \in Procs :
          /\ web[p].at = "boot" /\ web[p].typed = None
          /\ proc[p].pc = "off"
  BY DEF WebInit, Fresh, Init, Off, At
<1>4. secret.row = None
  BY DEF WebInit, Init, Nowhere
<1>5. \A p \in Procs : HandlerAgrees(p) /\ PutAgrees(p) /\ ClaimAgrees(p)
  BY <1>3 DEF HandlerAgrees, PutAgrees, ClaimAgrees, Putting
<1>6. ServingHasAdmin
  BY <1>3 DEF ServingHasAdmin, Serving
<1>7. RowAgrees
  BY <1>4 DEF RowAgrees
<1> QED
  BY <1>1, <1>2, <1>5, <1>6, <1>7 DEF WebInvariant

-----------------------------------------------------------------------------
(***************************************************************************)
(* A step that stores nothing and moves one process has to be looked at in *)
(* that process alone.                                                     *)
(***************************************************************************)
LEMMA OneProcess ==
    ASSUME WebInvariant, InductiveInvariant', WebTypeOK', NEW p \in Procs,
           UNCHANGED <<backend, secret, debug, env>>,
           \A q \in Procs \ {p} : proc'[q] = proc[q] /\ web'[q] = web[q],
           HandlerAgrees(p)', PutAgrees(p)',
           Provisioned => (Serving(p)' => Administrator # None) /\ ClaimAgrees(p)'
    PROVE  WebInvariant'
<1>1. ASSUME NEW q \in Procs \ {p}
      PROVE  /\ HandlerAgrees(q) => HandlerAgrees(q)'
             /\ PutAgrees(q) => PutAgrees(q)'
             /\ ClaimAgrees(q) => ClaimAgrees(q)'
             /\ Serving(q)' => Serving(q)
  <2>1. proc'[q] = proc[q] /\ web'[q] = web[q]
    OBVIOUS
  <2> QED
    BY <2>1 DEF HandlerAgrees, PutAgrees, ClaimAgrees, Serving, Putting, Chosen
<1>2. Provisioned' = Provisioned /\ Administrator' = Administrator
  BY DEF Provisioned, Administrator
<1>3. \A q \in Procs : HandlerAgrees(q)' /\ PutAgrees(q)'
  BY <1>1 DEF WebInvariant
<1>4. ServingHasAdmin'
  BY <1>1, <1>2 DEF WebInvariant, ServingHasAdmin
<1>5. Provisioned => RowAgrees'
  BY DEF WebInvariant, RowAgrees
<1>6. Provisioned => \A q \in Procs : ClaimAgrees(q)'
  BY <1>1 DEF WebInvariant
<1> QED
  BY <1>2, <1>3, <1>4, <1>5, <1>6 DEF WebInvariant

-----------------------------------------------------------------------------
(***************************************************************************)
(* Every step of the web processes is one of SecretStore's, or none.       *)
(***************************************************************************)
LEMMA ClaimIsSave ==
    ASSUME WebInvariant, NEW p \in Procs, web[p].at = "claim"
    PROVE  Chosen(p) \in Texts
  BY DEF WebInvariant, HandlerAgrees

LEMMA StoreSteps ==
    ASSUME NEW p \in Procs,
           \/ \E s \in Salts : OfferSalt(p, s) \/ NoSalt(p, s)
           \/ InsertSalt(p) \/ RereadSalt(p)
           \/ LockSalt(p) \/ FoundSalt(p) \/ WriteSalt(p)
           \/ LoadMisses(p) \/ ReadLegacy(p)
           \/ \E t \in Texts : Save(p, t) \/ SaveFile(p, t)
           \/ PutReads(p) \/ PutWrites(p) \/ PutConflicts(p)
           \/ StoreRaises(p) \/ Dies(p)
    PROVE  Next
  BY DEF Next

LEMMA ProgressIsStoreStep ==
    ASSUME WebInvariant, NEW p \in Procs, Progress(p)
    PROVE  [Next]_vars
<1>1. CASE Construct(p)
  BY <1>1, StoreSteps DEF Construct
<1>2. CASE LoadFinds(p) \/ LoadsNothing(p)
  BY <1>2 DEF LoadFinds, LoadsNothing, storeVars
<1>3. CASE LooksForLegacy(p) \/ LoadsLegacy(p)
  BY <1>3, StoreSteps DEF LooksForLegacy, LoadsLegacy
<1>4. CASE Claim(p)
  BY <1>4, ClaimIsSave, StoreSteps DEF Claim
<1>5. CASE PutLooks(p) \/ PutStores(p) \/ PutFails(p) \/ StartFails(p)
  BY <1>5, StoreSteps DEF PutLooks, PutStores, PutFails, StartFails, Ends
<1> QED
  BY <1>1, <1>2, <1>3, <1>4, <1>5 DEF Progress

LEMMA WebStepIsStoreStep ==
    ASSUME WebInvariant, [WebNext]_webVars PROVE [Next]_vars
<1>1. CASE \E p \in Procs : Progress(p)
  BY <1>1, ProgressIsStoreStep
<1>2. CASE \E p \in Procs : LoginStep(p) \/ Forget(p)
  BY <1>2 DEF LoginStep, Counts, Accept, FormArrives, BadForm, Increment, Expire, CountsItself,
              Forget, storeVars
<1>3. CASE WindowEnds \/ UNCHANGED webVars
  BY <1>3 DEF WindowEnds, webVars, storeVars
<1>4. CASE \E p \in Procs : StoreFails(p) \/ Killed(p)
  BY <1>4, StoreSteps DEF StoreFails, Killed, Ends
<1> QED
  BY <1>1, <1>2, <1>3, <1>4 DEF WebNext

LEMMA StoreInvariantHolds ==
    ASSUME WebInvariant, [WebNext]_webVars PROVE InductiveInvariant'
  BY WebStepIsStoreStep, StepPreserves DEF WebInvariant

-----------------------------------------------------------------------------
(***************************************************************************)
(* One lemma per action.                                                   *)
(***************************************************************************)
LEMMA ConstructPreserves ==
    ASSUME WebInvariant, InductiveInvariant', NEW p \in Procs, Construct(p)
    PROVE  WebInvariant'
<1>1. /\ UNCHANGED <<backend, secret, settings, counter, web>>
      /\ \A q \in Procs \ {p} : proc'[q] = proc[q]
      /\ proc'[p].pc \in {"insert", "reread", "locked", "ready", "write"}
  BY DEF Construct, WebInvariant, InductiveInvariant, TypeOK, OfferSalt, NoSalt,
         InsertSalt, RereadSalt, LockSalt, FoundSalt, WriteSalt, At
<1>2. web[p].at = "boot" /\ HandlerAgrees(p)
  BY DEF Construct, WebInvariant
<1>3. WebTypeOK'
  BY <1>1 DEF WebInvariant, WebTypeOK, settings
<1>4. HandlerAgrees(p)' /\ PutAgrees(p)' /\ ClaimAgrees(p)' /\ ~ Serving(p)'
  BY <1>1, <1>2 DEF HandlerAgrees, PutAgrees, ClaimAgrees, Putting, Serving
<1> QED
  BY <1>1, <1>3, <1>4, OneProcess DEF settings

\* The handler goes on after a load that found a hash ...
LEMMA LoadedMoves ==
    ASSUME WebTypeOK, NEW p \in Procs, NEW text, web[p].at \in {"boot", "login"},
           Loaded(p, text)
    PROVE  /\ web' \in [Procs -> Handlers]
           /\ \A q \in Procs \ {p} : web'[q] = web[q]
           /\ \/ web'[p].at = "up" /\ web'[p].typed = None
              \/ web'[p].at = "failure"
  BY GoToType, AnsweredType DEF Loaded

\* ... or none, which makes it the one that stores the first, if it may.
LEMMA NothingLoadedMoves ==
    ASSUME WebTypeOK, NEW p \in Procs, HandlerAgrees(p), web[p].at \in {"boot", "login"},
           NothingLoaded(p)
    PROVE  /\ web' \in [Procs -> Handlers]
           /\ \A q \in Procs \ {p} : web'[q] = web[q]
           /\ web'[p].at \in {"claim", "refused", "up"}
           /\ web'[p].at = "claim" => web'[p].typed = web[p].typed
                                      /\ (web[p].typed = None => env # None)
           /\ web'[p].at # "claim" => web'[p].typed = None
           /\ web'[p].at = "up" => web[p].at = "login" \/ ~ Provisioned
<1>1. CASE MayClaim(p)
  BY <1>1, GoToType DEF NothingLoaded, MayClaim, HandlerAgrees
<1>2. CASE ~ MayClaim(p) /\ web[p].at = "boot" /\ ~ debug
  BY <1>2, GoToType DEF NothingLoaded, HandlerAgrees
<1>3. CASE ~ MayClaim(p) /\ ~ (web[p].at = "boot" /\ ~ debug)
  BY <1>3, AnsweredType DEF NothingLoaded, MayClaim, Provisioned
<1> QED
  BY <1>1, <1>2, <1>3

LEMMA RaisesMoves ==
    ASSUME WebTypeOK, NEW p \in Procs, NEW as \in {"refused", "broken"},
           Raises(p, as)
    PROVE  /\ web' \in [Procs -> Handlers]
           /\ \A q \in Procs \ {p} : web'[q] = web[q]
           /\ \/ web'[p].at \in {"refused", "broken"} /\ web[p].typed = None
              \/ web'[p].at = "up" /\ web[p].typed # None
           /\ web'[p].typed = None
  BY GoToType, AnsweredType DEF Raises

LEMMA LoadFindsPreserves ==
    ASSUME WebInvariant, InductiveInvariant', NEW p \in Procs, LoadFinds(p)
    PROVE  WebInvariant'
<1>1. /\ WebTypeOK /\ UNCHANGED <<vars, settings, counter>>
      /\ proc[p].pc = "ready"
      /\ secret.row # None \/ secret.file # None
  BY DEF LoadFinds, WebInvariant, storeVars, vars, Found
<1>2. /\ web' \in [Procs -> Handlers]
      /\ \A q \in Procs \ {p} : web'[q] = web[q]
      /\ \/ web'[p].at = "up" /\ web'[p].typed = None
         \/ web'[p].at = "failure"
  BY <1>1, LoadedMoves DEF LoadFinds
<1>3. WebTypeOK'
  BY <1>1, <1>2 DEF WebTypeOK, settings
<1>4. HandlerAgrees(p)' /\ PutAgrees(p)' /\ ClaimAgrees(p)' /\ Administrator # None
  BY <1>1, <1>2 DEF HandlerAgrees, PutAgrees, ClaimAgrees, Putting, Administrator, vars
<1> QED
  BY <1>1, <1>2, <1>3, <1>4, OneProcess DEF settings, vars

LEMMA LoadsNothingPreserves ==
    ASSUME WebInvariant, InductiveInvariant', NEW p \in Procs, LoadsNothing(p)
    PROVE  WebInvariant'
<1>1. /\ WebTypeOK /\ HandlerAgrees(p) /\ UNCHANGED <<vars, settings, counter>>
      /\ web[p].at \in {"boot", "login"}
      /\ proc[p].pc = "ready" /\ backend = "files" /\ secret.file = None
  BY DEF LoadsNothing, WebInvariant, storeVars, Found
<1>2. Administrator = None
  BY <1>1 DEF WebInvariant, InductiveInvariant, OldSaltKept, Administrator
<1>3. Provisioned => web[p].at = "boot" /\ web[p].typed = None
  BY <1>1, <1>2 DEF WebInvariant, ServingHasAdmin, Serving, HandlerAgrees
<1>4. /\ web' \in [Procs -> Handlers]
      /\ \A q \in Procs \ {p} : web'[q] = web[q]
      /\ web'[p].at \in {"claim", "refused", "up"}
      /\ web'[p].at = "claim" => web'[p].typed = web[p].typed
                                 /\ (web[p].typed = None => env # None)
      /\ web'[p].at # "claim" => web'[p].typed = None
      /\ web'[p].at = "up" => web[p].at = "login" \/ ~ Provisioned
  BY <1>1, NothingLoadedMoves DEF LoadsNothing
<1>5. WebTypeOK'
  BY <1>1, <1>4 DEF WebTypeOK, settings
<1>6. web'[p].at = "claim" => Chosen(p)' \in Texts
  BY <1>1, <1>4, LoginAssumption DEF Chosen, WebTypeOK, Handlers, settings
<1>7. HandlerAgrees(p)' /\ PutAgrees(p)'
  BY <1>1, <1>4, <1>6 DEF HandlerAgrees, PutAgrees, Putting, vars
<1>8. Provisioned => ClaimAgrees(p)' /\ ~ Serving(p)'
  BY <1>1, <1>3, <1>4 DEF ClaimAgrees, Serving, vars
<1> QED
  BY <1>1, <1>4, <1>5, <1>7, <1>8, OneProcess DEF settings, vars

LEMMA LooksForLegacyPreserves ==
    ASSUME WebInvariant, InductiveInvariant', NEW p \in Procs, LooksForLegacy(p)
    PROVE  WebInvariant'
<1>1. /\ UNCHANGED <<backend, secret, settings, counter, web>>
      /\ \A q \in Procs \ {p} : proc'[q] = proc[q]
      /\ proc'[p].pc = "legacy" /\ secret.row = None
  BY DEF LooksForLegacy, LoadMisses, WebInvariant, InductiveInvariant, TypeOK
<1>2. HandlerAgrees(p) /\ web[p].at \in {"boot", "login"}
  BY DEF LooksForLegacy, WebInvariant
<1>3. WebTypeOK'
  BY <1>1 DEF WebInvariant, WebTypeOK, settings
<1>4. HandlerAgrees(p)' /\ PutAgrees(p)'
  BY <1>1, <1>2 DEF HandlerAgrees, PutAgrees, Putting
<1>5. Provisioned => (Serving(p)' => Administrator # None)
  BY <1>1 DEF WebInvariant, ServingHasAdmin, Serving
<1>6. Provisioned => ClaimAgrees(p)'
  BY <1>1, <1>2, <1>5 DEF ClaimAgrees, Serving, Administrator
<1> QED
  BY <1>1, <1>3, <1>4, <1>5, <1>6, OneProcess DEF settings

LEMMA LoadsLegacyPreserves ==
    ASSUME WebInvariant, InductiveInvariant', NEW p \in Procs, LoadsLegacy(p)
    PROVE  WebInvariant'
<1>1. /\ WebTypeOK /\ HandlerAgrees(p) /\ UNCHANGED <<backend, secret, settings, counter>>
      /\ \A q \in Procs \ {p} : proc'[q] = proc[q]
      /\ proc[p].pc = "legacy" /\ backend = "db"
  BY DEF LoadsLegacy, ReadLegacy, WebInvariant, InductiveInvariant, SaltsAgree, TypeOK
<1>2. web[p].at \in {"boot", "login"}
  BY <1>1 DEF HandlerAgrees, Putting, WebTypeOK, Handlers
<1>3. CASE secret.file # None
  <2>1. /\ proc'[p].pc = "put" /\ proc'[p].cipher = secret.file
        /\ secret.file \in Ciphers /\ UNCHANGED web
    BY <1>3 DEF LoadsLegacy, ReadLegacy, WebInvariant, InductiveInvariant, TypeOK
  <2>2. WebTypeOK'
    BY <1>1, <2>1 DEF WebTypeOK, settings
  <2>3. HandlerAgrees(p)' /\ PutAgrees(p)' /\ ClaimAgrees(p)'
    BY <1>1, <1>2, <2>1 DEF HandlerAgrees, PutAgrees, ClaimAgrees, Putting
  <2>4. Administrator # None
    BY <1>3 DEF Administrator
  <2> QED
    BY <1>1, <2>1, <2>2, <2>3, <2>4, OneProcess DEF settings
<1>4. CASE secret.file = None
  <2>1. proc'[p].pc = "ready" /\ NothingLoaded(p)
    BY <1>4 DEF LoadsLegacy, ReadLegacy, WebInvariant, InductiveInvariant, TypeOK
  <2>2. Provisioned => web[p].at = "boot" /\ web[p].typed = None
    BY <1>1, <1>2, <1>4 DEF WebInvariant, ClaimAgrees, HandlerAgrees
  <2>3. /\ web' \in [Procs -> Handlers]
        /\ \A q \in Procs \ {p} : web'[q] = web[q]
        /\ web'[p].at \in {"claim", "refused", "up"}
        /\ web'[p].at = "claim" => web'[p].typed = web[p].typed
                                   /\ (web[p].typed = None => env # None)
        /\ web'[p].at # "claim" => web'[p].typed = None
        /\ web'[p].at = "up" => web[p].at = "login" \/ ~ Provisioned
    BY <1>1, <1>2, <2>1, NothingLoadedMoves
  <2>4. WebTypeOK'
    BY <1>1, <2>3 DEF WebTypeOK, settings
  <2>5. web'[p].at = "claim" => Chosen(p)' \in Texts
    BY <1>1, <2>3, LoginAssumption DEF Chosen, WebTypeOK, Handlers, settings
  <2>6. HandlerAgrees(p)' /\ PutAgrees(p)'
    BY <1>1, <1>4, <2>1, <2>3, <2>5 DEF HandlerAgrees, PutAgrees, Putting
  <2>7. Provisioned => ClaimAgrees(p)' /\ ~ Serving(p)'
    BY <1>1, <2>2, <2>3 DEF ClaimAgrees, Serving
  <2> QED
    BY <1>1, <2>3, <2>4, <2>6, <2>7, OneProcess DEF settings
<1> QED
  BY <1>3, <1>4

LEMMA PutLooksPreserves ==
    ASSUME WebInvariant, InductiveInvariant', NEW p \in Procs, PutLooks(p)
    PROVE  WebInvariant'
<1>1. /\ UNCHANGED <<backend, secret, settings, counter, web>>
      /\ \A q \in Procs \ {p} : proc'[q] = proc[q]
      /\ proc[p].pc = "put" /\ proc'[p].pc \in {"add", "update"}
      /\ proc'[p].cipher = proc[p].cipher
  BY DEF PutLooks, PutReads, WebInvariant, InductiveInvariant, TypeOK
<1>2. HandlerAgrees(p) /\ PutAgrees(p) /\ WebTypeOK
  BY DEF WebInvariant
<1>3. WebTypeOK'
  BY <1>1, <1>2 DEF WebTypeOK, settings
<1>4. HandlerAgrees(p)' /\ PutAgrees(p)'
  BY <1>1, <1>2 DEF HandlerAgrees, PutAgrees, Putting, Chosen, settings
<1>5. Provisioned => (Serving(p)' => Administrator # None) /\ ClaimAgrees(p)'
  BY <1>1 DEF WebInvariant, ServingHasAdmin, Serving, ClaimAgrees, settings
<1> QED
  BY <1>1, <1>3, <1>4, <1>5, OneProcess DEF settings

\* A call of the store that raises, before it had an effect.
LEMMA RaisedPreserves ==
    ASSUME WebInvariant, InductiveInvariant', NEW p \in Procs,
           web[p].at \in {"boot", "login", "claim"}, Rested(p),
           NEW as \in {"refused", "broken"}, Raises(p, as),
           UNCHANGED <<backend, secret, settings, counter>>
    PROVE  WebInvariant'
<1>1. /\ \A q \in Procs \ {p} : proc'[q] = proc[q]
      /\ proc'[p].pc = "ready" /\ proc'[p].cipher = None
  BY RestedType DEF WebInvariant, InductiveInvariant
<1>2. /\ web' \in [Procs -> Handlers]
      /\ \A q \in Procs \ {p} : web'[q] = web[q]
      /\ \/ web'[p].at \in {"refused", "broken"} /\ web[p].typed = None
         \/ web'[p].at = "up" /\ web[p].typed # None
      /\ web'[p].typed = None
  BY RaisesMoves DEF WebInvariant
<1>3. WebTypeOK'
  BY <1>2 DEF WebInvariant, WebTypeOK, settings
<1>4. HandlerAgrees(p)' /\ PutAgrees(p)' /\ ClaimAgrees(p)'
  BY <1>1, <1>2 DEF HandlerAgrees, PutAgrees, ClaimAgrees, Putting
<1>5. Provisioned => (Serving(p)' => Administrator # None)
  BY <1>2 DEF WebInvariant, ServingHasAdmin, Serving, ClaimAgrees, HandlerAgrees
<1> QED
  BY <1>1, <1>2, <1>3, <1>4, <1>5, OneProcess DEF settings

LEMMA PutFailsPreserves ==
    ASSUME WebInvariant, InductiveInvariant', NEW p \in Procs, PutFails(p)
    PROVE  WebInvariant'
<1>1. web[p].at \in {"boot", "login", "claim"}
  BY DEF PutFails, PutConflicts, WebInvariant, HandlerAgrees, WebTypeOK, Handlers
<1> QED
  BY <1>1, RaisedPreserves DEF PutFails, PutConflicts

\* A put that has its effect stores what the file or the operator says, so that
\* nothing any other handler relies on changes.
LEMMA StoredRow ==
    ASSUME WebInvariant, NEW p \in Procs, PutWrites(p),
           web[p].at \in {"boot", "login", "claim"}
    PROVE  /\ backend = "db" /\ backend' = backend
           /\ secret'.row = proc[p].cipher /\ secret'.file = secret.file
           /\ proc[p].cipher # None
           /\ Provisioned =>
                 proc[p].cipher.text = IF secret.file = None THEN env ELSE secret.file.text
<1>1. /\ Putting(p) /\ HandlerAgrees(p) /\ PutAgrees(p)
      /\ secret'.row = proc[p].cipher /\ secret'.file = secret.file
  BY DEF PutWrites, Putting, WebInvariant, InductiveInvariant, TypeOK
<1>2. backend = "db" /\ backend' = backend
  BY DEF PutWrites, WebInvariant, InductiveInvariant, SaltsAgree
<1>3. proc[p].cipher # None
  BY <1>1, LoginAssumption DEF PutAgrees
<1>4. CASE web[p].at \in {"boot", "login"}
  BY <1>1, <1>2, <1>3, <1>4 DEF PutAgrees
<1>5. CASE web[p].at = "claim"
  BY <1>1, <1>2, <1>3, <1>5 DEF PutAgrees, HandlerAgrees, WebInvariant, ClaimAgrees, Chosen
<1> QED
  BY <1>4, <1>5

LEMMA StoredPreserves ==
    ASSUME WebInvariant, InductiveInvariant', NEW p \in Procs, PutWrites(p),
           web[p].at \in {"boot", "login", "claim"},
           web' \in [Procs -> Handlers], UNCHANGED <<settings, counter>>,
           \A q \in Procs \ {p} : web'[q] = web[q],
           \/ web'[p].at \in {"up", "refused", "broken"} /\ web'[p].typed = None
           \/ web'[p].at = "failure"
    PROVE  WebInvariant'
<1>1. /\ backend = "db" /\ backend' = backend
      /\ secret'.row = proc[p].cipher /\ secret'.file = secret.file
      /\ proc[p].cipher # None
      /\ Provisioned =>
            proc[p].cipher.text = IF secret.file = None THEN env ELSE secret.file.text
  BY StoredRow
<1>2. /\ \A q \in Procs \ {p} : proc'[q] = proc[q]
      /\ proc'[p].pc = "ready"
  BY RestedType DEF PutWrites, WebInvariant, InductiveInvariant
<1>3. WebTypeOK'
  BY DEF WebInvariant, WebTypeOK, settings
<1>4. ASSUME NEW q \in Procs \ {p}
      PROVE  /\ HandlerAgrees(q)' /\ PutAgrees(q)'
             /\ Provisioned => ClaimAgrees(q)'
  <2>1. proc'[q] = proc[q] /\ web'[q] = web[q]
    BY <1>2
  <2>2. HandlerAgrees(q) /\ PutAgrees(q) /\ (Provisioned => ClaimAgrees(q))
    BY DEF WebInvariant
  <2> QED
    BY <1>1, <2>1, <2>2 DEF HandlerAgrees, PutAgrees, ClaimAgrees, Putting, Chosen, settings
<1>5. HandlerAgrees(p)' /\ PutAgrees(p)' /\ ClaimAgrees(p)'
  BY <1>2 DEF HandlerAgrees, PutAgrees, ClaimAgrees, Putting
<1>6. ServingHasAdmin'
  BY <1>1 DEF ServingHasAdmin, Administrator
<1>7. Provisioned' => RowAgrees' /\ \A q \in Procs : ClaimAgrees(q)'
  BY <1>1, <1>4, <1>5 DEF RowAgrees, Provisioned, settings
<1> QED
  BY <1>3, <1>4, <1>5, <1>6, <1>7 DEF WebInvariant

LEMMA PutStoresPreserves ==
    ASSUME WebInvariant, InductiveInvariant', NEW p \in Procs, PutStores(p)
    PROVE  WebInvariant'
<1>1. web[p].at \in {"boot", "login", "claim"}
  BY DEF PutStores, PutWrites, WebInvariant, HandlerAgrees, WebTypeOK, Handlers
<1>2. /\ web' \in [Procs -> Handlers]
      /\ \A q \in Procs \ {p} : web'[q] = web[q]
      /\ \/ web'[p].at = "up" /\ web'[p].typed = None
         \/ web'[p].at = "failure"
  <2>1. CASE web[p].at = "claim"
    BY <2>1, AnsweredType DEF PutStores, WebInvariant
  <2>2. CASE web[p].at # "claim"
    BY <1>1, <2>2, LoadedMoves DEF PutStores, WebInvariant
  <2> QED
    BY <2>1, <2>2
<1> QED
  BY <1>1, <1>2, StoredPreserves DEF PutStores

LEMMA StoreFailsPreserves ==
    ASSUME WebInvariant, InductiveInvariant', NEW p \in Procs, StoreFails(p)
    PROVE  WebInvariant'
<1>1. CASE StoreRaises(p)
  BY <1>1, RaisedPreserves DEF StoreFails, StoreRaises
<1>2. CASE PutWrites(p)
  <2>1. /\ web' \in [Procs -> Handlers]
        /\ \A q \in Procs \ {p} : web'[q] = web[q]
        /\ web'[p].at \in {"up", "refused", "broken"} /\ web'[p].typed = None
    BY RaisesMoves DEF StoreFails, WebInvariant
  <2> QED
    BY <1>2, <2>1, StoredPreserves DEF StoreFails
<1> QED
  BY <1>1, <1>2 DEF StoreFails

\* save_admin_password_hash begins: over files it is done at once.
LEMMA ClaimPreserves ==
    ASSUME WebInvariant, InductiveInvariant', NEW p \in Procs, Claim(p)
    PROVE  WebInvariant'
<1>1. /\ WebTypeOK /\ HandlerAgrees(p) /\ web[p].at = "claim"
      /\ Chosen(p) \in Texts /\ UNCHANGED <<settings, counter>>
  BY ClaimIsSave DEF Claim, WebInvariant
<1>2. CASE Save(p, Chosen(p)) /\ UNCHANGED web
  <2>1. /\ UNCHANGED <<backend, secret>> /\ backend = "db"
        /\ \A q \in Procs \ {p} : proc'[q] = proc[q]
        /\ proc'[p].pc = "put"
        /\ proc'[p].cipher = Encrypted(proc[p].salt, Chosen(p))
        /\ proc[p].salt \in AnySalt
    BY <1>2 DEF Save, WebInvariant, InductiveInvariant, SaltsAgree, TypeOK
  <2>2. /\ Encrypted(proc[p].salt, Chosen(p)) \in Ciphers
        /\ Encrypted(proc[p].salt, Chosen(p)).text = Chosen(p)
    BY <1>1, <2>1, EncryptedType DEF Encrypted
  <2>3. WebTypeOK'
    BY <1>1, <1>2 DEF WebTypeOK, settings
  <2>4. HandlerAgrees(p)' /\ PutAgrees(p)'
    BY <1>1, <1>2, <2>1, <2>2 DEF HandlerAgrees, PutAgrees, Putting, Chosen, settings
  <2>5. Provisioned => ClaimAgrees(p)' /\ ~ Serving(p)'
    BY <1>1, <1>2, <2>1 DEF WebInvariant, ClaimAgrees, Serving, settings
  <2> QED
    BY <1>1, <1>2, <2>1, <2>3, <2>4, <2>5, OneProcess DEF settings
<1>3. CASE SaveFile(p, Chosen(p)) /\ Answered(p)
  <2>1. /\ backend = "files" /\ UNCHANGED <<backend, proc>>
        /\ secret'.file = Encrypted(proc[p].salt, Chosen(p))
        /\ proc[p].pc = "ready" /\ proc[p].salt \in AnySalt
    BY <1>3 DEF SaveFile, WebInvariant, InductiveInvariant, SaltsAgree, TypeOK
  <2>2. /\ secret'.file \in Ciphers /\ secret'.file # None
        /\ secret'.file.text = Chosen(p)
    BY <1>1, <2>1, EncryptedType, LoginAssumption DEF Encrypted
  <2>3. /\ web' \in [Procs -> Handlers]
        /\ \A q \in Procs \ {p} : web'[q] = web[q]
        /\ web'[p].at = "up" /\ web'[p].typed = None
    BY <1>1, <1>3, AnsweredType
  <2>4. WebTypeOK'
    BY <1>1, <2>3 DEF WebTypeOK, settings
  <2>5. Provisioned => Chosen(p) = env
    BY <1>1 DEF WebInvariant, ClaimAgrees, Chosen
  <2>6. ASSUME NEW q \in Procs
        PROVE  /\ HandlerAgrees(q)' /\ PutAgrees(q)'
               /\ Provisioned => ClaimAgrees(q)'
    <3>1. /\ HandlerAgrees(q) /\ PutAgrees(q) /\ (Provisioned => ClaimAgrees(q))
          /\ ~ Putting(q)
      BY <2>1 DEF WebInvariant, InductiveInvariant, SaltsAgree, Putting
    <3>2. CASE q = p
      BY <2>1, <2>3, <3>1, <3>2 DEF HandlerAgrees, PutAgrees, ClaimAgrees, Putting
    <3>3. CASE q # p
      BY <1>1, <2>1, <2>2, <2>3, <2>5, <3>1, <3>3
         DEF HandlerAgrees, PutAgrees, ClaimAgrees, Putting, Chosen, settings
    <3> QED
      BY <3>2, <3>3
  <2>7. ServingHasAdmin'
    BY <2>2 DEF ServingHasAdmin, Administrator
  <2>8. Provisioned' => RowAgrees' /\ \A q \in Procs : ClaimAgrees(q)'
    BY <1>1, <2>1, <2>6 DEF RowAgrees, Provisioned, settings
  <2> QED
    BY <2>4, <2>6, <2>7, <2>8 DEF WebInvariant
<1> QED
  BY <1>2, <1>3 DEF Claim

\* A request comes in, or leaves before it reaches the store; a time passes.
LEMMA WaitingPreserves ==
    ASSUME WebInvariant, InductiveInvariant', NEW p \in Procs,
           \/ \E asked \in BOOLEAN : Accept(p, asked)
           \/ BadForm(p)
           \/ Forget(p)
    PROVE  WebInvariant'
<1>1. /\ UNCHANGED <<vars, settings, counter>>
      /\ web' \in [Procs -> Handlers]
      /\ \A q \in Procs : web'[q].at = web[q].at /\ web'[q].typed = web[q].typed
      /\ \A q \in Procs \ {p} : web'[q] = web[q]
  BY LoginAssumption DEF Accept, BadForm, Forget, storeVars, WebInvariant, WebTypeOK, Handlers
<1>2. WebTypeOK'
  BY <1>1 DEF WebInvariant, WebTypeOK, settings
<1>3. HandlerAgrees(p)' /\ PutAgrees(p)'
  BY <1>1 DEF WebInvariant, HandlerAgrees, PutAgrees, Putting, Chosen, settings, vars
<1>4. Provisioned => (Serving(p)' => Administrator # None) /\ ClaimAgrees(p)'
  BY <1>1 DEF WebInvariant, ServingHasAdmin, Serving, ClaimAgrees, settings, vars
<1> QED
  BY <1>1, <1>2, <1>3, <1>4, OneProcess DEF settings, vars

LEMMA FormArrivesPreserves ==
    ASSUME WebInvariant, InductiveInvariant', NEW p \in Procs, NEW t \in Texts,
           FormArrives(p, t)
    PROVE  WebInvariant'
<1>1. /\ UNCHANGED <<vars, settings, counter>> /\ web[p].at = "up"
      /\ proc[p].pc = "ready"
  BY DEF FormArrives, storeVars, WebInvariant, HandlerAgrees
<1>2. /\ web' \in [Procs -> Handlers]
      /\ web'[p].at = "login" /\ web'[p].typed = t /\ t # None
      /\ \A q \in Procs \ {p} : web'[q] = web[q]
  BY LoginAssumption DEF FormArrives, WebInvariant, WebTypeOK, Handlers
<1>3. WebTypeOK'
  BY <1>1, <1>2 DEF WebInvariant, WebTypeOK, settings
<1>4. HandlerAgrees(p)' /\ PutAgrees(p)' /\ ClaimAgrees(p)'
  BY <1>1, <1>2 DEF HandlerAgrees, PutAgrees, ClaimAgrees, Putting, vars
<1>5. Provisioned => Administrator # None
  BY <1>1 DEF WebInvariant, ServingHasAdmin, Serving
<1> QED
  BY <1>1, <1>2, <1>3, <1>4, <1>5, OneProcess DEF settings, vars

LEMMA CounterType ==
    ASSUME WebTypeOK
    PROVE  /\ Counted \in [count : 0 .. MaxCount, expires : BOOLEAN]
           /\ [counter EXCEPT !.expires = TRUE]
                  \in [count : 0 .. MaxCount, expires : BOOLEAN]
           /\ NoCount \in [count : 0 .. MaxCount, expires : BOOLEAN]
           /\ \A n \in 0 .. MaxCount : More(n) \in 0 .. MaxCount
<1>1. \A n \in 0 .. MaxCount : More(n) \in 0 .. MaxCount
  BY LoginAssumption DEF More
<1>2. NoCount \in [count : 0 .. MaxCount, expires : BOOLEAN]
  BY LoginAssumption DEF NoCount
<1>3. /\ Counted \in [count : 0 .. MaxCount, expires : BOOLEAN]
      /\ [counter EXCEPT !.expires = TRUE] \in [count : 0 .. MaxCount, expires : BOOLEAN]
  BY <1>1 DEF WebTypeOK, Counted
<1> QED
  BY <1>1, <1>2, <1>3

\* record_failure.
LEMMA FailurePreserves ==
    ASSUME WebInvariant, InductiveInvariant', NEW p \in Procs,
           Increment(p) \/ Expire(p) \/ CountsItself(p)
    PROVE  WebInvariant'
<1>1. /\ UNCHANGED <<vars, settings>> /\ web[p].at \in {"failure", "expire"}
      /\ proc[p].pc = "ready" /\ WebTypeOK
  BY DEF Increment, Expire, CountsItself, storeVars, WebInvariant, HandlerAgrees
<1>2. counter' \in [count : 0 .. MaxCount, expires : BOOLEAN]
  BY <1>1, CounterType DEF Increment, Expire, CountsItself, WebTypeOK
<1>3. /\ web' \in [Procs -> Handlers]
      /\ web'[p].at = "expire" \/ (web'[p].at = "up" /\ web'[p].typed = None)
      /\ \A q \in Procs \ {p} : web'[q] = web[q]
  <2>1. CASE Increment(p)
    BY <1>1, <2>1, GoToType, AnsweredType DEF Increment
  <2>2. CASE Expire(p)
    BY <1>1, <2>2, AnsweredType DEF Expire
  <2>3. CASE CountsItself(p)
    <3>1. web[p] \in Handlers /\ More(web[p].local) \in 0 .. MaxCount
      BY <1>1, CounterType DEF WebTypeOK, Handlers
    <3>2. web' = [web EXCEPT ![p].at = "up", ![p].typed = None,
                            ![p].local = More(web[p].local)]
      BY <2>3 DEF CountsItself
    <3> QED
      BY <1>1, <3>1, <3>2 DEF WebTypeOK, Handlers
  <2> QED
    BY <2>1, <2>2, <2>3
<1>4. WebTypeOK'
  BY <1>1, <1>2, <1>3 DEF WebTypeOK, settings
<1>5. HandlerAgrees(p)' /\ PutAgrees(p)' /\ ClaimAgrees(p)'
  BY <1>1, <1>3 DEF HandlerAgrees, PutAgrees, ClaimAgrees, Putting, vars
<1>6. Provisioned => Administrator # None
  BY <1>1 DEF WebInvariant, ServingHasAdmin, Serving
<1> QED
  BY <1>1, <1>3, <1>4, <1>5, <1>6, OneProcess DEF settings, vars

LEMMA EndsPreserves ==
    ASSUME WebInvariant, InductiveInvariant', NEW p \in Procs, Ends(p)
    PROVE  WebInvariant'
<1>1. /\ UNCHANGED <<backend, secret, settings, counter>>
      /\ \A q \in Procs \ {p} : proc'[q] = proc[q] /\ web'[q] = web[q]
      /\ proc'[p].pc = "off"
      /\ web' \in [Procs -> Handlers] /\ web'[p].at = "boot" /\ web'[p].typed = None
  BY LoginAssumption DEF Ends, Dies, Off, At, Fresh, WebInvariant, InductiveInvariant, TypeOK,
     WebTypeOK, Handlers
<1>2. WebTypeOK'
  BY <1>1 DEF WebInvariant, WebTypeOK, settings
<1>3. HandlerAgrees(p)' /\ PutAgrees(p)' /\ ClaimAgrees(p)' /\ ~ Serving(p)'
  BY <1>1 DEF HandlerAgrees, PutAgrees, ClaimAgrees, Putting, Serving
<1> QED
  BY <1>1, <1>2, <1>3, OneProcess DEF settings

LEMMA NoProcessMoves ==
    ASSUME WebInvariant, InductiveInvariant', WindowEnds \/ UNCHANGED webVars
    PROVE  WebInvariant'
<1>1. /\ UNCHANGED <<vars, settings, web>>
      /\ counter' \in [count : 0 .. MaxCount, expires : BOOLEAN]
  BY CounterType DEF WindowEnds, webVars, settings, storeVars, WebInvariant, WebTypeOK
<1>2. WebTypeOK'
  BY <1>1 DEF WebInvariant, WebTypeOK, settings
<1>3. \A q \in Procs :
          /\ HandlerAgrees(q)' <=> HandlerAgrees(q)
          /\ PutAgrees(q)' <=> PutAgrees(q)
          /\ ClaimAgrees(q)' <=> ClaimAgrees(q)
  BY <1>1 DEF HandlerAgrees, PutAgrees, ClaimAgrees, Putting, Chosen, vars, settings
<1>4. ServingHasAdmin' /\ (Provisioned' <=> Provisioned) /\ (RowAgrees' <=> RowAgrees)
  BY <1>1 DEF WebInvariant, ServingHasAdmin, Serving, Administrator, Provisioned, RowAgrees,
     vars, settings
<1> QED
  BY <1>2, <1>3, <1>4 DEF WebInvariant

-----------------------------------------------------------------------------
LEMMA WebStepPreserves == WebInvariant /\ [WebNext]_webVars => WebInvariant'
<1> SUFFICES ASSUME WebInvariant, [WebNext]_webVars PROVE WebInvariant'
  OBVIOUS
<1> InductiveInvariant'
  BY StoreInvariantHolds
<1>1. ASSUME NEW p \in Procs, Progress(p) PROVE WebInvariant'
  BY <1>1, ConstructPreserves, LoadFindsPreserves, LoadsNothingPreserves,
     LooksForLegacyPreserves, LoadsLegacyPreserves, ClaimPreserves, PutLooksPreserves,
     PutStoresPreserves, PutFailsPreserves, EndsPreserves DEF Progress, StartFails
<1>2. ASSUME NEW p \in Procs, LoginStep(p) \/ Forget(p) PROVE WebInvariant'
  BY <1>2, WaitingPreserves, FormArrivesPreserves, FailurePreserves DEF LoginStep,
     Counts
<1>3. CASE \E p \in Procs : StoreFails(p) \/ Killed(p)
  BY <1>3, StoreFailsPreserves, EndsPreserves DEF Killed
<1>4. CASE WindowEnds \/ UNCHANGED webVars
  BY <1>4, NoProcessMoves
<1> QED
  BY <1>1, <1>2, <1>3, <1>4 DEF WebNext

\* Wherever the web processes are in their starts and logins, their handlers, the
\* stored administrator and what they are about to store agree.
THEOREM WebInvariantHolds == WebSpec => []WebInvariant
  BY WebInitInvariant, WebStepPreserves, PTL DEF WebSpec

\* The web processes use the store as SecretStore says: what holds of it for any
\* processes with a KeyManager holds of them (key_manager.py:124).
THEOREM WebUsesStore == WebSpec => Spec
<1>1. WebInit => Init
  BY DEF WebInit
<1>2. WebInvariant /\ [WebNext]_webVars => [Next]_vars
  BY WebStepIsStoreStep
<1> QED
  BY <1>1, <1>2, WebInvariantHolds, PTL DEF WebSpec, Spec

\* No process takes logins without an administrator to check them against, unless
\* DEBUG leaves the choice to the first visitor (bootstrap.py:18-30).
THEOREM ServingHasAdministrator == WebSpec => []ServingHasAdmin
<1>1. WebInvariant => ServingHasAdmin
  BY DEF WebInvariant
<1> QED
  BY <1>1, WebInvariantHolds, PTL

-----------------------------------------------------------------------------
(***************************************************************************)
(* The administrator is final: only two actions store one.                 *)
(***************************************************************************)
LEMMA StoresOnly ==
    ASSUME WebInvariant, [WebNext]_webVars
    PROVE  \/ Administrator' = Administrator
           \/ \E p \in Procs : Claim(p) /\ SaveFile(p, Chosen(p))
           \/ \E p \in Procs : PutWrites(p) /\ web[p].at \in {"boot", "login", "claim"}
<1>1. \/ UNCHANGED secret
      \/ \E p \in Procs : Claim(p) \/ PutStores(p) \/ StoreFails(p)
  BY DEF WebNext, webVars, storeVars, vars, Progress, LoginStep, Counts,
     Construct, OfferSalt, NoSalt, InsertSalt, RereadSalt, LockSalt, FoundSalt, WriteSalt,
     LoadFinds, LoadsNothing, LooksForLegacy, LoadMisses, LoadsLegacy, ReadLegacy,
     PutLooks, PutReads, PutFails, PutConflicts, StartFails, Killed, Ends, Dies, Accept,
     FormArrives, BadForm, Increment, Expire, CountsItself, Forget, WindowEnds
<1>2. CASE UNCHANGED secret
  BY <1>2 DEF Administrator
<1>3. ASSUME NEW p \in Procs, Claim(p)
      PROVE  Administrator' = Administrator \/ SaveFile(p, Chosen(p))
  BY <1>3 DEF Claim, Save, Administrator
<1>4. ASSUME NEW p \in Procs, PutStores(p)
      PROVE  PutWrites(p) /\ web[p].at \in {"boot", "login", "claim"}
  BY <1>4 DEF PutStores, PutWrites, WebInvariant, HandlerAgrees, WebTypeOK, Handlers
<1>5. ASSUME NEW p \in Procs, StoreFails(p)
      PROVE  \/ Administrator' = Administrator
             \/ PutWrites(p) /\ web[p].at \in {"boot", "login", "claim"}
  BY <1>5 DEF StoreFails, StoreRaises, Administrator
<1> QED
  BY <1>1, <1>2, <1>3, <1>4, <1>5

\* bootstrap_admin stores the operator's password "only if no admin exists yet"
\* (bootstrap.py:13), and an import only what is the administrator already.
THEOREM AdministratorIsFinal == WebSpec => AdminIsFinal
<1>1. ASSUME WebInvariant, [WebNext]_webVars, Provisioned, Administrator # None
      PROVE  Administrator'.text = Administrator.text
  <2>1. ASSUME NEW p \in Procs, Claim(p), SaveFile(p, Chosen(p))
        PROVE  Administrator'.text = Administrator.text
    <3>1. /\ backend = "files" /\ web[p].at = "claim"
          /\ secret'.row = secret.row
          /\ secret'.file = Encrypted(proc[p].salt, Chosen(p))
      BY <2>1 DEF Claim, SaveFile, WebInvariant, InductiveInvariant, TypeOK
    <3>2. secret.row = None /\ secret.file # None
      BY <1>1, <3>1 DEF WebInvariant, InductiveInvariant, OldSaltKept, Administrator
    <3>3. secret.file.text = env /\ Chosen(p) = env
      BY <1>1, <3>1, <3>2 DEF WebInvariant, ClaimAgrees, Chosen
    <3> QED
      BY <3>1, <3>2, <3>3 DEF Administrator, Encrypted
  <2>2. ASSUME NEW p \in Procs, PutWrites(p), web[p].at \in {"boot", "login", "claim"}
        PROVE  Administrator'.text = Administrator.text
    BY <1>1, <2>2, StoredRow DEF Administrator, WebInvariant, RowAgrees
  <2> QED
    BY <1>1, <2>1, <2>2, StoresOnly
<1>2. WebInvariant /\ [WebNext]_webVars =>
          [Provisioned /\ Administrator # None =>
              Administrator'.text = Administrator.text]_webVars
  BY <1>1
<1> QED
  BY <1>2, WebInvariantHolds, PTL DEF WebSpec, AdminIsFinal

-----------------------------------------------------------------------------
(***************************************************************************)
(* The limit: a request that passes the check takes a place, and gives it  *)
(* back when its failure is counted, or when there is none to count.       *)
(***************************************************************************)
LEMMA PastCheckType ==
    ASSUME WebTypeOK, NEW p \in Procs
    PROVE  PastCheck(p) \in Nat
  BY LoginAssumption DEF WebTypeOK, Handlers, PastCheck

LEMMA PlacesType ==
    /\ IsFiniteSet(Places) /\ Cardinality(Procs) \in Nat /\ Cardinality(Places) \in Nat
    /\ Cardinality(Places) = MaxOpen * Cardinality(Procs)
<1>1. IsFiniteSet(1 .. MaxOpen) /\ Cardinality(1 .. MaxOpen) = MaxOpen
  BY LoginAssumption, FS_Interval
<1>2. Cardinality(Procs) \in Nat
  BY LoginAssumption, FS_CardinalityType
<1>3. IsFiniteSet(Places) /\ Cardinality(Places) = Cardinality(Procs) * MaxOpen
  BY <1>1, LoginAssumption, FS_Product DEF Places
<1>4. Cardinality(Procs) * MaxOpen = MaxOpen * Cardinality(Procs)
      /\ Cardinality(Procs) * MaxOpen \in Nat
  BY <1>2, LoginAssumption
<1> QED
  BY <1>2, <1>3, <1>4

LEMMA TakenType ==
    /\ IsFiniteSet(Taken) /\ Cardinality(Taken) \in Nat
    /\ Cardinality(Taken) =< MaxOpen * Cardinality(Procs)
<1>1. Taken \in SUBSET Places
  BY DEF Taken
<1> QED
  BY <1>1, PlacesType, FS_Subset, FS_CardinalityType

\* After any step the same holds of the places that are taken then.
LEMMA TakenTypeNext ==
    /\ IsFiniteSet(Taken') /\ Cardinality(Taken') \in Nat
    /\ Cardinality(Taken') =< MaxOpen * Cardinality(Procs)
<1>1. Taken' \in SUBSET Places
  BY DEF Taken, Places
<1> QED
  BY <1>1, PlacesType, FS_Subset, FS_CardinalityType

LEMMA CountType ==
    ASSUME WebTypeOK
    PROVE  counter.count \in Nat /\ \A p \in Procs : web[p].local \in Nat
  BY LoginAssumption DEF WebTypeOK, Handlers

LEMMA NextTypes ==
    ASSUME WebTypeOK'
    PROVE  /\ counter'.count \in Nat
           /\ \A p \in Procs : web'[p].local \in Nat /\ PastCheck(p)' \in Nat
<1>1. counter'.count \in Nat /\ \A p \in Procs : web'[p].local \in Nat
  BY LoginAssumption DEF WebTypeOK, Handlers
<1>2. \A p \in Procs : web'[p].open \in Nat
  BY LoginAssumption DEF WebTypeOK, Handlers
<1> QED
  BY <1>1, <1>2 DEF PastCheck

\* No place is taken, and nothing is counted.
LEMMA RoomStays ==
    ASSUME WebTypeOK, WebTypeOK', RoomLeft, UNCHANGED redis,
           \A p \in Procs : PastCheck(p)' =< PastCheck(p),
           counter'.count =< counter.count,
           redis = "none" =>
               \A p \in Procs : web'[p].at # "expire" /\ web'[p].local =< web[p].local
    PROVE  RoomLeft'
<1>1. \A p \in Procs : PastCheck(p) \in Nat /\ PastCheck(p)' \in Nat
  BY PastCheckType, NextTypes
<1>2. counter.count \in Nat /\ counter'.count \in Nat
      /\ \A p \in Procs : web[p].local \in Nat /\ web'[p].local \in Nat
  BY CountType, NextTypes
<1>3. \A p \in Procs : PastCheck(p)' =< MaxOpen
  BY <1>1, LoginAssumption DEF RoomLeft
<1>4. redis' = "works" => counter'.count + Cardinality(Taken')
                              =< Limit - 1 + MaxOpen * Cardinality(Procs)
  <2>1. Taken' \subseteq Taken
    BY <1>1, LoginAssumption DEF Taken, Places
  <2>2. Cardinality(Taken') =< Cardinality(Taken)
    BY <2>1, TakenType, FS_Subset
  <2>3. MaxOpen * Cardinality(Procs) \in Nat
    BY PlacesType
  <2> QED
    BY <1>2, <2>2, <2>3, TakenType, TakenTypeNext, LoginAssumption DEF RoomLeft
<1>5. redis' = "none" =>
          \A p \in Procs : /\ web'[p].at # "expire"
                           /\ web'[p].local + PastCheck(p)' =< Limit - 1 + MaxOpen
  BY <1>1, <1>2, LoginAssumption DEF RoomLeft
<1> QED
  BY <1>3, <1>4, <1>5 DEF RoomLeft

\* A handler that moves takes no place, except from a login to its failure, which has one.
LEMMA HandlerMoves ==
    ASSUME WebTypeOK, WebTypeOK', RoomLeft, UNCHANGED <<redis, counter>>, NEW p \in Procs,
           \/ UNCHANGED web
           \/ Answered(p)
           \/ GoTo(p, "claim")
           \/ GoTo(p, "refused")
           \/ GoTo(p, "broken")
           \/ web[p].at = "login" /\ GoTo(p, "failure")
    PROVE  RoomLeft'
<1>1. ASSUME NEW q \in Procs
      PROVE  /\ web'[q].open = web[q].open /\ web'[q].local = web[q].local
             /\ web'[q].at \in {"login", "failure"} => web[q].at \in {"login", "failure"}
             /\ web'[q].at = "expire" => web[q].at = "expire"
  <2>1. web[q] \in Handlers /\ web[p] \in Handlers
    BY DEF WebTypeOK
  <2>2. CASE UNCHANGED web
    BY <2>2
  <2>3. CASE Answered(p)
    BY <2>1, <2>3 DEF WebTypeOK, Handlers, Answered
  <2>4. CASE GoTo(p, "claim") \/ GoTo(p, "refused") \/ GoTo(p, "broken")
    BY <2>1, <2>4 DEF WebTypeOK, Handlers, GoTo
  <2>5. CASE web[p].at = "login" /\ GoTo(p, "failure")
    BY <2>1, <2>5 DEF WebTypeOK, Handlers, GoTo
  <2> QED
    BY <2>2, <2>3, <2>4, <2>5
<1>2. \A q \in Procs : web[q].open \in Nat /\ web[q].local \in Nat
  BY LoginAssumption DEF WebTypeOK, Handlers
<1>3. \A q \in Procs : PastCheck(q)' =< PastCheck(q)
  BY <1>1, <1>2 DEF PastCheck
<1>4. counter.count \in Nat
  BY CountType
<1> QED
  BY <1>1, <1>2, <1>3, <1>4, RoomStays DEF RoomLeft

\* The start, the load and the save.
LEMMA ProgressKeepsRoom ==
    ASSUME WebInvariant, WebTypeOK', RoomLeft, NEW p \in Procs,
           Progress(p) \/ StoreFails(p), ~ StartFails(p)
    PROVE  RoomLeft'
<1> WebTypeOK /\ HandlerAgrees(p)
  BY DEF WebInvariant
<1>1. UNCHANGED <<redis, counter>>
  BY DEF Progress, Construct, LoadFinds, LoadsNothing, LooksForLegacy, LoadsLegacy, Claim,
     PutLooks, PutStores, PutFails, StoreFails, settings
<1>2. ASSUME NEW text, Loaded(p, text), web[p].at \in {"boot", "login"}
      PROVE  RoomLeft'
  BY <1>1, <1>2, HandlerMoves DEF Loaded
<1>3. CASE NothingLoaded(p)
  BY <1>1, <1>3, HandlerMoves DEF NothingLoaded
<1>4. ASSUME NEW as \in {"refused", "broken"}, Raises(p, as) PROVE RoomLeft'
  <2>1. Answered(p) \/ GoTo(p, "refused") \/ GoTo(p, "broken")
    BY <1>4 DEF Raises
  <2> QED
    BY <1>1, <2>1, HandlerMoves
<1>5. CASE UNCHANGED web \/ Answered(p)
  BY <1>1, <1>5, HandlerMoves
<1>6. CASE LoadFinds(p)
  BY <1>2, <1>6 DEF LoadFinds
<1>7. CASE PutStores(p)
  <2>1. web[p].at \in {"boot", "login", "claim"}
    BY <1>7 DEF PutStores, PutWrites, HandlerAgrees, WebTypeOK, Handlers
  <2> QED
    BY <1>2, <1>5, <1>7, <2>1 DEF PutStores
<1>8. CASE Claim(p)
  BY <1>5, <1>8 DEF Claim
<1>9. CASE LoadsNothing(p) \/ LoadsLegacy(p)
  BY <1>3, <1>5, <1>9 DEF LoadsNothing, LoadsLegacy
<1>10. CASE PutFails(p) \/ StoreFails(p)
  BY <1>4, <1>10 DEF PutFails, StoreFails
<1>11. CASE Construct(p) \/ LooksForLegacy(p) \/ PutLooks(p)
  BY <1>5, <1>11 DEF Construct, LooksForLegacy, PutLooks
<1> QED
  BY <1>6, <1>7, <1>8, <1>9, <1>10, <1>11 DEF Progress

\* A process that ends gives back all its places.
LEMMA EndsKeepsRoom ==
    ASSUME WebInvariant, WebTypeOK', RoomLeft, NEW p \in Procs, Ends(p)
    PROVE  RoomLeft'
<1>1. /\ UNCHANGED <<redis, counter>>
      /\ web'[p] = Fresh /\ \A q \in Procs \ {p} : web'[q] = web[q]
  BY DEF Ends, settings, WebInvariant, WebTypeOK
<1>2. PastCheck(p)' = 0 /\ \A q \in Procs \ {p} : PastCheck(q)' = PastCheck(q)
  BY <1>1 DEF PastCheck, Fresh
<1>3. \A q \in Procs : PastCheck(q) \in Nat /\ web[q].local \in Nat
  BY PastCheckType, CountType DEF WebInvariant
<1>4. counter.count \in Nat
  BY CountType DEF WebInvariant
<1> QED
  BY <1>1, <1>2, <1>3, <1>4, RoomStays DEF Fresh, RoomLeft, WebInvariant

-----------------------------------------------------------------------------
\* The check finds fewer than Limit failures: there is a place, whoever has the others.
LEMMA AcceptKeepsRoom ==
    ASSUME WebInvariant, WebTypeOK', RoomLeft, NEW p \in Procs,
           NEW asked \in BOOLEAN, Accept(p, asked)
    PROVE  RoomLeft'
<1> WebTypeOK
  BY DEF WebInvariant
<1>1. /\ UNCHANGED <<redis, counter>>
      /\ web[p].at = "up" /\ web[p].open < MaxOpen
      /\ web'[p].at = "up" /\ web'[p].open = web[p].open + 1 /\ web'[p].local = web[p].local
      /\ \A q \in Procs \ {p} : web'[q] = web[q]
  BY DEF Accept, settings, WebTypeOK, Handlers
<1>2. /\ PastCheck(p)' = PastCheck(p) + 1 /\ PastCheck(p)' =< MaxOpen
      /\ \A q \in Procs \ {p} : PastCheck(q)' = PastCheck(q)
  BY <1>1, LoginAssumption DEF PastCheck, WebTypeOK, Handlers
<1>3. \A q \in Procs : PastCheck(q)' =< MaxOpen
  BY <1>2 DEF RoomLeft
<1>4. CASE redis = "works"
  <2>1. counter'.count =< Limit - 1 /\ counter'.count \in Nat
    BY <1>1, <1>4, CountType, LoginAssumption DEF Accept, WithinLimit
  <2>2. MaxOpen * Cardinality(Procs) \in Nat
    BY PlacesType
  <2>3. counter'.count + Cardinality(Taken') =< Limit - 1 + MaxOpen * Cardinality(Procs)
    BY <2>1, <2>2, TakenTypeNext, LoginAssumption
  <2> QED
    BY <1>1, <1>3, <1>4, <2>3 DEF RoomLeft
<1>5. CASE redis = "none"
  <2>1. web[p].local =< Limit - 1
    BY <1>5, CountType, LoginAssumption DEF Accept, WithinLimit
  <2>2. \A q \in Procs : PastCheck(q)' \in Nat /\ web[q].local \in Nat
    BY NextTypes, CountType
  <2>3. web'[p].local + PastCheck(p)' =< Limit - 1 + MaxOpen
    BY <1>1, <1>2, <2>1, <2>2, LoginAssumption
  <2>4. \A q \in Procs : /\ web'[q].at # "expire"
                         /\ web'[q].local + PastCheck(q)' =< Limit - 1 + MaxOpen
    BY <1>1, <1>2, <1>5, <2>3 DEF RoomLeft
  <2> QED
    BY <1>1, <1>3, <1>5, <2>4 DEF RoomLeft
<1> QED
  BY <1>1, <1>3, <1>4, <1>5 DEF RoomLeft

\* A form that arrives keeps its place; one that cannot be used gives it back.
LEMMA FormKeepsRoom ==
    ASSUME WebInvariant, WebTypeOK', RoomLeft, NEW p \in Procs,
           (\E t \in Texts : FormArrives(p, t)) \/ BadForm(p) \/ Forget(p)
    PROVE  RoomLeft'
<1> WebTypeOK
  BY DEF WebInvariant
<1>1. /\ UNCHANGED <<redis, counter>>
      /\ \A q \in Procs \ {p} : web'[q] = web[q]
      /\ web'[p].at = "expire" => web[p].at = "expire"
  <2>1. web[p] \in Handlers
    BY DEF WebTypeOK
  <2>2. ASSUME NEW t \in Texts, FormArrives(p, t)
        PROVE  /\ UNCHANGED <<redis, counter>>
               /\ \A q \in Procs \ {p} : web'[q] = web[q]
               /\ web'[p].at = "login"
    BY <2>1, <2>2 DEF FormArrives, settings, WebTypeOK, Handlers
  <2>3. CASE BadForm(p) \/ Forget(p)
    BY <2>1, <2>3 DEF BadForm, Forget, settings, WebTypeOK, Handlers
  <2> QED
    BY <2>2, <2>3
<1>2. \A q \in Procs : web[q].open \in Nat /\ web[q].local \in Nat
  BY LoginAssumption DEF WebTypeOK, Handlers
<1>3. PastCheck(p)' =< PastCheck(p) /\ web'[p].local =< web[p].local
  <2>1. ASSUME NEW t \in Texts, FormArrives(p, t)
        PROVE  PastCheck(p)' =< PastCheck(p) /\ web'[p].local =< web[p].local
    <3>1. /\ web'[p].at = "login" /\ web'[p].open = web[p].open - 1
          /\ web'[p].local = web[p].local /\ web[p].at = "up"
      BY <2>1 DEF FormArrives, WebTypeOK, Handlers
    <3> QED
      BY <1>2, <3>1 DEF PastCheck
  <2>2. CASE BadForm(p)
    BY <1>2, <2>2 DEF BadForm, PastCheck, WebTypeOK, Handlers
  <2>3. CASE Forget(p)
    BY <1>2, <2>3 DEF Forget, PastCheck, WebTypeOK, Handlers
  <2> QED
    BY <2>1, <2>2, <2>3
<1>4. \A q \in Procs : PastCheck(q) \in Nat
  BY PastCheckType
<1>5. \A q \in Procs : PastCheck(q)' =< PastCheck(q)
  BY <1>1, <1>3, <1>4 DEF PastCheck
<1>6. counter.count \in Nat
  BY CountType
<1> QED
  BY <1>1, <1>2, <1>3, <1>5, <1>6, RoomStays DEF RoomLeft

\* A failure that is counted gives its place back: that is where the count fits in.
LEMMA FailureKeepsRoom ==
    ASSUME WebInvariant, WebTypeOK', RoomLeft, NEW p \in Procs,
           Increment(p) \/ Expire(p) \/ CountsItself(p)
    PROVE  RoomLeft'
<1> WebTypeOK
  BY DEF WebInvariant
<1>1. \A n \in Nat : More(n) =< n + 1 /\ More(n) >= n
  BY DEF More
<1>2. /\ UNCHANGED redis /\ web'[p].at \in {"up", "expire"}
      /\ web'[p].open = web[p].open
      /\ \A q \in Procs \ {p} : web'[q] = web[q]
  <2>1. web[p] \in Handlers
    BY DEF WebTypeOK
  <2>2. CASE Increment(p)
    <3>1. CASE Answered(p)
      BY <2>1, <2>2, <3>1 DEF Increment, Answered, settings, WebTypeOK, Handlers
    <3>2. CASE GoTo(p, "expire")
      BY <2>1, <2>2, <3>2 DEF Increment, GoTo, settings, WebTypeOK, Handlers
    <3> QED
      BY <2>2, <3>1, <3>2 DEF Increment
  <2>3. CASE Expire(p)
    BY <2>1, <2>3 DEF Expire, Answered, settings, WebTypeOK, Handlers
  <2>4. CASE CountsItself(p)
    BY <2>1, <2>4 DEF CountsItself, settings, WebTypeOK, Handlers
  <2> QED
    BY <2>2, <2>3, <2>4
<1>3. \A q \in Procs : web[q].open \in Nat /\ PastCheck(q) \in Nat /\ PastCheck(q)' \in Nat
  <2>1. \A q \in Procs : web[q].open \in Nat
    BY LoginAssumption DEF WebTypeOK, Handlers
  <2> QED
    BY <2>1, PastCheckType, NextTypes
<1>4. /\ \A q \in Procs \ {p} : PastCheck(q)' = PastCheck(q)
      /\ PastCheck(p)' = web[p].open
      /\ PastCheck(p) = web[p].open + (IF web[p].at = "failure" THEN 1 ELSE 0)
  <2>1. web[p].at \in {"failure", "expire"}
    BY DEF Increment, Expire, CountsItself
  <2>2. PastCheck(p)' = web[p].open
    BY <1>2, <1>3 DEF PastCheck
  <2>3. PastCheck(p) = web[p].open + (IF web[p].at = "failure" THEN 1 ELSE 0)
    BY <2>1 DEF PastCheck
  <2> QED
    BY <1>2, <2>2, <2>3 DEF PastCheck
<1>5. \A q \in Procs : PastCheck(q)' =< PastCheck(q)
  BY <1>3, <1>4
<1>6. \A q \in Procs : PastCheck(q)' =< MaxOpen
  BY <1>3, <1>5, LoginAssumption DEF RoomLeft
<1>7. CASE redis = "works"
  <2>1. CASE web[p].at = "failure"
    <3>1. counter'.count =< counter.count + 1 /\ counter.count \in Nat
          /\ counter'.count \in Nat
      BY <1>1, <1>7, <2>1, CountType DEF Increment, Expire, CountsItself, Counted, WebTypeOK
    <3> DEFINE place == <<p, PastCheck(p)>>
    <3>2. place \in Taken /\ place \notin Taken'
      BY <1>3, <1>4, <2>1, LoginAssumption DEF Taken, Places, RoomLeft
    <3>3. Taken' \subseteq Taken
      BY <1>3, <1>5, LoginAssumption DEF Taken, Places
    <3>4. Taken' \in SUBSET (Taken \ {place})
      BY <3>2, <3>3
    <3>5. IsFiniteSet(Taken \ {place}) /\ Cardinality(Taken \ {place}) = Cardinality(Taken) - 1
      BY <3>2, TakenType, FS_RemoveElement
    <3>6. Cardinality(Taken') =< Cardinality(Taken) - 1
      BY <3>4, <3>5, FS_Subset
    <3>7. MaxOpen * Cardinality(Procs) \in Nat
      BY PlacesType
    <3>8. counter'.count + Cardinality(Taken') =< Limit - 1 + MaxOpen * Cardinality(Procs)
      BY <1>7, <3>1, <3>6, <3>7, TakenType, TakenTypeNext, LoginAssumption DEF RoomLeft
    <3> QED
      BY <1>2, <1>6, <1>7, <3>8 DEF RoomLeft
  <2>2. CASE web[p].at # "failure"
    <3>1. counter'.count = counter.count /\ counter.count \in Nat
      BY <1>7, <2>2, CountType DEF Increment, Expire, CountsItself, WebTypeOK
    <3> QED
      BY <1>2, <1>5, <1>7, <3>1, RoomStays
  <2> QED
    BY <2>1, <2>2
<1>8. CASE redis = "none"
  <2>1. CountsItself(p) /\ web[p].at = "failure"
    BY <1>8 DEF Increment, Expire, CountsItself, RoomLeft
  <2>2. web[p].local \in Nat /\ web'[p].local =< web[p].local + 1 /\ web'[p].local \in Nat
        /\ web'[p].at = "up"
    BY <1>1, <2>1, CountType DEF CountsItself, WebTypeOK, Handlers
  <2>3. web'[p].local + PastCheck(p)' =< Limit - 1 + MaxOpen
    BY <1>3, <1>4, <1>8, <2>1, <2>2, LoginAssumption DEF RoomLeft
  <2>4. \A q \in Procs : /\ web'[q].at # "expire"
                         /\ web'[q].local + PastCheck(q)' =< Limit - 1 + MaxOpen
    BY <1>2, <1>4, <1>8, <2>2, <2>3 DEF RoomLeft
  <2> QED
    BY <1>2, <1>6, <1>8, <2>4 DEF RoomLeft
<1> QED
  BY <1>2, <1>6, <1>7, <1>8 DEF RoomLeft

LEMMA TimeKeepsRoom ==
    ASSUME WebInvariant, WebTypeOK', RoomLeft, WindowEnds \/ UNCHANGED webVars
    PROVE  RoomLeft'
<1>1. UNCHANGED <<redis, web>> /\ (counter' = counter \/ counter'.count = 0)
  BY DEF WindowEnds, webVars, settings, NoCount
<1>2. \A q \in Procs : PastCheck(q) \in Nat /\ web[q].local \in Nat
  BY PastCheckType, CountType DEF WebInvariant
<1>3. counter.count \in Nat /\ \A q \in Procs : PastCheck(q)' = PastCheck(q)
  BY <1>1, CountType DEF WebInvariant, PastCheck
<1> QED
  BY <1>1, <1>2, <1>3, RoomStays DEF RoomLeft, WebInvariant

LEMMA RoomInitially == WebInit => RoomLeft
<1> SUFFICES ASSUME WebInit PROVE RoomLeft
  OBVIOUS
<1>1. \A p \in Procs : PastCheck(p) = 0 /\ web[p].local = 0 /\ web[p].at = "boot"
  <2>1. ASSUME NEW p \in Procs
        PROVE  web[p].open = 0 /\ web[p].local = 0 /\ web[p].at = "boot"
    BY DEF WebInit, Fresh
  <2>2. ASSUME NEW p \in Procs PROVE PastCheck(p) = 0
    <3>1. web[p].at \notin {"login", "failure"} /\ web[p].open = 0
      BY <2>1
    <3> QED
      BY <3>1 DEF PastCheck
  <2> QED
    BY <2>1, <2>2
<1>2. counter.count = 0
  BY DEF WebInit, NoCount
<1>3. MaxOpen * Cardinality(Procs) \in Nat
  BY PlacesType
<1> QED
  BY <1>1, <1>2, <1>3, TakenType, LoginAssumption DEF RoomLeft

LEMMA LoginStepPreserves == LoginInvariant /\ [WebNext]_webVars => LoginInvariant'
<1> SUFFICES ASSUME LoginInvariant, [WebNext]_webVars PROVE LoginInvariant'
  OBVIOUS
<1>1. WebInvariant /\ RoomLeft /\ WebInvariant'
  BY WebStepPreserves DEF LoginInvariant
<1>2. WebTypeOK'
  BY <1>1 DEF WebInvariant
<1>3. ASSUME NEW p \in Procs, Progress(p) \/ StoreFails(p) PROVE RoomLeft'
  BY <1>1, <1>2, <1>3, ProgressKeepsRoom, EndsKeepsRoom DEF StartFails
<1>4. ASSUME NEW p \in Procs, LoginStep(p) \/ Forget(p) PROVE RoomLeft'
  BY <1>1, <1>2, <1>4, AcceptKeepsRoom, FormKeepsRoom, FailureKeepsRoom DEF LoginStep,
     Counts
<1>5. ASSUME NEW p \in Procs, Killed(p) PROVE RoomLeft'
  BY <1>1, <1>2, <1>5, EndsKeepsRoom DEF Killed
<1>6. CASE WindowEnds \/ UNCHANGED webVars
  BY <1>1, <1>2, <1>6, TimeKeepsRoom DEF LoginInvariant
<1> QED
  BY <1>1, <1>3, <1>4, <1>5, <1>6 DEF WebNext, LoginInvariant

\* Handlers, store and administrator agree, and every request that is past the
\* check has a place below the bound.
THEOREM LoginInvariantHolds == WebSpec => []LoginInvariant
<1>1. WebInit => LoginInvariant
  BY WebInitInvariant, RoomInitially DEF LoginInvariant
<1> QED
  BY <1>1, LoginStepPreserves, PTL DEF WebSpec

\* However many processes serve and however their logins meet, a client fails no
\* more often than the limit and the requests past the check allow
\* (rate_limiter.py:33-50, dashboard.py:190).
THEOREM FailuresBoundedHolds == WebSpec => []FailuresBounded
<1>1. ASSUME LoginInvariant PROVE FailuresBounded
  <2>1. counter.count \in Nat /\ \A p \in Procs : web[p].local \in Nat /\ PastCheck(p) \in Nat
    BY <1>1, CountType, PastCheckType DEF LoginInvariant, WebInvariant
  <2>2. MaxOpen * Cardinality(Procs) \in Nat
    BY PlacesType
  <2>3. RoomLeft
    BY <1>1 DEF LoginInvariant
  <2>4. redis = "works" => counter.count =< Limit - 1 + MaxOpen * Cardinality(Procs)
    BY <2>1, <2>2, <2>3, TakenType, LoginAssumption DEF RoomLeft
  <2>5. ASSUME redis = "none", NEW p \in Procs PROVE web[p].local =< Limit - 1 + MaxOpen
    <3>1. web[p].local + PastCheck(p) =< Limit - 1 + MaxOpen
      BY <2>3, <2>5 DEF RoomLeft
    <3>2. web[p].local \in Nat /\ PastCheck(p) \in Nat
      BY <2>1
    <3> QED
      BY <3>1, <3>2, LoginAssumption
  <2> QED
    BY <2>4, <2>5 DEF FailuresBounded
<1> QED
  BY <1>1, LoginInvariantHolds, PTL
=============================================================================
