--------------------------- MODULE LLMClientProofs ---------------------------
(***************************************************************************)
(* Theorems about LLMClient, for any files, and any numbers of models,     *)
(* attempts, quota waits and turns.                                        *)
(***************************************************************************)
EXTENDS LLMClient, TLAPS

LEMMA Numbers ==
    /\ ModelCount \in Nat \ {0} /\ MaxRetries \in Nat \ {0}
    /\ QuotaTries \in Nat \ {0} /\ MaxTurns \in Nat \ {0}
  BY ClientAssumption

LEMMA NewCallType == NewCall \in Call
  BY Numbers DEF NewCall, Call, Models

LEMMA UnreadType == Unread \in [Files -> {"unread", "content", "none"}]
  BY DEF Unread

LEMMA RetriesBound ==
    ASSUME NEW strict \in BOOLEAN
    PROVE  Retries(strict) \in 1 .. MaxRetries
  BY Numbers DEF Retries

LEMMA InitInvariant == Init => InductiveInvariant
<1> SUFFICES ASSUME Init PROVE InductiveInvariant
  OBVIOUS
<1>1. TypeOK
  BY NewCallType, UnreadType DEF Init, TypeOK
<1>2. call.pc = "idle" /\ \A f \in Files : sources[f] = "unread"
  BY DEF Init, NewCall, Unread
<1> QED
  BY <1>1, <1>2 DEF InductiveInvariant, SourcesAreReal, SolutionHasSources, ModelsInTurn,
     EveryModelIsTried

-----------------------------------------------------------------------------
(***************************************************************************)
(* Calls for JSON: whatever is left behind was asked.                      *)
(***************************************************************************)
\* Where the next attempt leads, and what it has asked by then.
LEMMA AfterModelMoves ==
    ASSUME InductiveInvariant, call.pc = "json"
    PROVE  /\ AfterModel \in Call
           /\ \/ /\ AfterModel.pc = "json" /\ AfterModel.model = call.model + 1
              \/ /\ AfterModel.pc = "exhausted" /\ AfterModel.asked = Models
           /\ \A m \in Models : m < AfterModel.model => m \in AfterModel.asked
           /\ AfterModel.strict = call.strict
<1>1. /\ call \in Call /\ call.model \in Models /\ call.asked \subseteq Models
      /\ \A m \in Models : m < call.model => m \in call.asked
  BY DEF InductiveInvariant, TypeOK, Call, ModelsInTurn
<1>2. Asked \subseteq Models /\ \A m \in Models : m =< call.model => m \in Asked
  BY <1>1, Numbers DEF Asked, Models
<1>3. CASE call.model + 1 \in Models
  <2>1. AfterModel = [call EXCEPT !.model = @ + 1, !.attempt = 0, !.tries = 0, !.asked = Asked]
    BY <1>3 DEF AfterModel
  <2>2. AfterModel \in Call
    <3>1. 0 \in 0 .. MaxRetries - 1 /\ 0 \in 0 .. QuotaTries - 1
      BY Numbers
    <3> QED
      BY <1>1, <1>2, <1>3, <2>1, <3>1 DEF Call
  <2>3. /\ AfterModel.pc = "json" /\ AfterModel.model = call.model + 1
        /\ AfterModel.asked = Asked /\ AfterModel.strict = call.strict
    BY <1>1, <2>1 DEF Call
  <2> QED
    BY <1>1, <1>2, <2>2, <2>3, Numbers DEF Models
<1>4. CASE call.model + 1 \notin Models
  <2>1. AfterModel = [call EXCEPT !.pc = "exhausted", !.asked = Asked]
    BY <1>4 DEF AfterModel
  <2>2. \A m \in Models : m =< call.model
    BY <1>1, <1>4, Numbers DEF Models
  <2>3. Asked = Models
    BY <1>2, <2>2
  <2>4. /\ AfterModel \in Call /\ AfterModel.pc = "exhausted"
        /\ AfterModel.asked = Models /\ AfterModel.strict = call.strict
    BY <1>1, <2>1, <2>3 DEF Call
  <2> QED
    BY <2>4
<1> QED
  BY <1>3, <1>4

LEMMA AfterAttemptMoves ==
    ASSUME InductiveInvariant, call.pc = "json"
    PROVE  \/ AfterAttempt = AfterModel
           \/ /\ AfterAttempt \in Call /\ AfterAttempt.pc = "json"
              /\ AfterAttempt.model = call.model /\ AfterAttempt.strict = call.strict
              /\ AfterAttempt.attempt = call.attempt + 1
              /\ AfterAttempt.asked = Asked
<1>1. call \in Call /\ Asked \subseteq Models /\ Retries(call.strict) \in 1 .. MaxRetries
  BY RetriesBound DEF InductiveInvariant, TypeOK, Call, Asked
<1>2. CASE call.attempt + 1 < Retries(call.strict)
  <2>1. AfterAttempt = [call EXCEPT !.attempt = @ + 1, !.tries = 0, !.asked = Asked]
    BY <1>2 DEF AfterAttempt
  <2>2. call.attempt + 1 \in 0 .. MaxRetries - 1 /\ 0 \in 0 .. QuotaTries - 1
    BY <1>1, <1>2, Numbers DEF Call
  <2> QED
    BY <1>1, <2>1, <2>2 DEF Call
<1>3. CASE ~ (call.attempt + 1 < Retries(call.strict))
  BY <1>3 DEF AfterAttempt
<1> QED
  BY <1>2, <1>3

\* A step that leaves the sources alone and produces no solution.
LEMMA CallPreserves ==
    ASSUME InductiveInvariant, UNCHANGED <<provider, sources>>, jsonMode' \in BOOLEAN,
           call' \in Call, call'.pc \notin {"solved", "prepared"},
           ModelsInTurn', EveryModelIsTried'
    PROVE  InductiveInvariant'
<1> USE DEF InductiveInvariant, provider
<1>1. TypeOK'
  BY DEF TypeOK
<1>2. SourcesAreReal'
  BY DEF SourcesAreReal, Complete
<1>3. SolutionHasSources'
  BY DEF SolutionHasSources
<1> QED
  BY <1>1, <1>2, <1>3

LEMMA NextModelPreserves ==
    ASSUME InductiveInvariant, call.pc = "json", call' = AfterModel,
           UNCHANGED <<provider, sources>>, jsonMode' \in BOOLEAN
    PROVE  InductiveInvariant'
<1>1. /\ call' \in Call /\ call'.pc \in {"json", "exhausted"}
      /\ call'.pc = "exhausted" => call'.asked = Models
      /\ \A m \in Models : m < call'.model => m \in call'.asked
  BY AfterModelMoves
<1>2. ModelsInTurn' /\ EveryModelIsTried'
  BY <1>1 DEF ModelsInTurn, EveryModelIsTried, Models
<1> QED
  BY <1>1, <1>2, CallPreserves

LEMMA NextAttemptPreserves ==
    ASSUME InductiveInvariant, call.pc = "json", call' = AfterAttempt,
           UNCHANGED <<provider, sources>>, jsonMode' \in BOOLEAN
    PROVE  InductiveInvariant'
<1>1. CASE AfterAttempt = AfterModel
  BY <1>1, NextModelPreserves
<1>2. CASE AfterAttempt # AfterModel
  <2>1. /\ call' \in Call /\ call'.pc = "json"
        /\ call'.model = call.model /\ call'.asked = Asked
    BY <1>2, AfterAttemptMoves
  <2>2. ModelsInTurn' /\ EveryModelIsTried'
    BY <2>1 DEF InductiveInvariant, ModelsInTurn, EveryModelIsTried, Asked
  <2> QED
    BY <2>1, <2>2, CallPreserves
<1> QED
  BY <1>1, <1>2

LEMMA RejectionType ==
    ASSUME InductiveInvariant, RejectsJsonMode \/ Retryable \/ NotRetryable
    PROVE  jsonMode' \in BOOLEAN
  BY DEF RejectsJsonMode, Retryable, NotRetryable, InductiveInvariant, TypeOK

LEMMA JsonPreserves ==
    ASSUME InductiveInvariant, JsonStep
    PROVE  InductiveInvariant'
<1>1. CASE RejectsJsonMode \/ Retryable
  BY <1>1, RejectionType, NextAttemptPreserves DEF RejectsJsonMode, Retryable
<1>2. CASE NotRetryable
  BY <1>2, RejectionType, NextModelPreserves DEF NotRetryable
<1>3. CASE Denied \/ \E parses \in BOOLEAN : Answers(parses)
  <2>1. \/ \E pc \in {"denied", "ok", "unparsed"} : call' = [call EXCEPT !.pc = pc]
        \/ call' = StrictCall
    BY <1>3 DEF Denied, Answers
  <2>2. StrictCall \in Call /\ StrictCall.pc = "json" /\ StrictCall.model = 1
    BY NewCallType DEF StrictCall, NewCall, Call
  <2>3. ASSUME NEW pc \in {"denied", "ok", "unparsed"}
        PROVE  [call EXCEPT !.pc = pc] \in Call /\ [call EXCEPT !.pc = pc].pc = pc
    BY DEF InductiveInvariant, TypeOK, Call
  <2>4. /\ call' \in Call
        /\ call'.pc \in {"denied", "ok", "unparsed"} \/ (call'.pc = "json" /\ call'.model = 1)
    <3>1. ASSUME NEW pc \in {"denied", "ok", "unparsed"}, call' = [call EXCEPT !.pc = pc]
          PROVE  call' \in Call /\ call'.pc \in {"denied", "ok", "unparsed"}
      BY <2>3, <3>1
    <3>2. ASSUME call' = StrictCall
          PROVE  call' \in Call /\ call'.pc = "json" /\ call'.model = 1
      BY <2>2, <3>2
    <3> QED
      BY <2>1, <3>1, <3>2
  <2>5. ModelsInTurn' /\ EveryModelIsTried'
    BY <2>4, Numbers DEF ModelsInTurn, EveryModelIsTried, Models
  <2>6. UNCHANGED <<provider, sources>> /\ jsonMode' \in BOOLEAN
    BY <1>3 DEF Denied, Answers, InductiveInvariant, TypeOK
  <2> QED
    BY <2>4, <2>5, <2>6, CallPreserves
<1> QED
  BY <1>1, <1>2, <1>3 DEF JsonStep

LEMMA WaitPreserves ==
    ASSUME InductiveInvariant, WaitForQuota
    PROVE  InductiveInvariant'
<1> USE DEF WaitForQuota, InductiveInvariant
<1>1. /\ call' \in Call /\ call'.pc = call.pc
      /\ call'.model = call.model /\ call'.asked = call.asked
  BY Numbers DEF CanWait, TypeOK, Call
<1>2. ModelsInTurn' /\ EveryModelIsTried'
  BY <1>1 DEF ModelsInTurn, EveryModelIsTried
<1> QED
  BY <1>1, <1>2, CallPreserves DEF TypeOK

LEMMA CallJsonPreserves ==
    ASSUME InductiveInvariant, CallJson
    PROVE  InductiveInvariant'
<1> USE DEF CallJson, InductiveInvariant
<1>1. call' \in Call /\ call'.pc = "json" /\ call'.model = 1
  BY NewCallType DEF NewCall, Call
<1>2. ModelsInTurn' /\ EveryModelIsTried'
  BY <1>1, Numbers DEF ModelsInTurn, EveryModelIsTried, Models
<1> QED
  BY <1>1, <1>2, CallPreserves DEF TypeOK

-----------------------------------------------------------------------------
(***************************************************************************)
(* The tool loop: only what was read in full, or is not there, becomes a   *)
(* source, and no source is lost.                                          *)
(***************************************************************************)
\* What the loop was told of a set of files that it may read.
LEMMA WithReadIsReal ==
    ASSUME InductiveInvariant, NEW files \in SUBSET Files,
           \A f \in files : Readable(f), sources' = WithRead(files),
           UNCHANGED provider
    PROVE  /\ sources' \in [Files -> {"unread", "content", "none"}]
           /\ SourcesAreReal'
  BY DEF WithRead, Readable, Complete, SourcesAreReal, InductiveInvariant, TypeOK, provider

\* A step of the loop that finds no solution yet.
LEMMA TurnPreserves ==
    ASSUME InductiveInvariant, call.pc = "tools" \/ AtRest,
           NextTurn \/ call' = [call EXCEPT !.pc = "failed"] \/ call' = [NewCall EXCEPT !.pc = "tools"],
           sources' \in [Files -> {"unread", "content", "none"}], SourcesAreReal',
           UNCHANGED <<provider, jsonMode>>, AtRest => call' = [NewCall EXCEPT !.pc = "tools"]
    PROVE  InductiveInvariant'
<1> USE DEF InductiveInvariant, provider
<1>1. call' \in Call /\ call'.pc \in {"tools", "failed"}
  <2>1. CASE call' = [NewCall EXCEPT !.pc = "tools"]
    BY <2>1, NewCallType DEF Call, NewCall
  <2>2. CASE call' = [call EXCEPT !.pc = "failed"]
    BY <2>2 DEF TypeOK, Call
  <2>3. CASE NextTurn /\ call.pc = "tools"
    <3>1. 0 \in 0 .. QuotaTries - 1
      BY Numbers
    <3>2. call.turn + 1 < MaxTurns => call.turn + 1 \in 0 .. MaxTurns - 1
      BY Numbers DEF TypeOK, Call
    <3>3. \/ call' = [call EXCEPT !.pc = "failed"]
          \/ /\ call.turn + 1 < MaxTurns
             /\ call' = [call EXCEPT !.turn = call.turn + 1, !.tries = 0]
      BY <2>3 DEF NextTurn
    <3> QED
      BY <2>3, <3>1, <3>2, <3>3 DEF TypeOK, Call
  <2> QED
    BY <2>1, <2>2, <2>3
<1>2. TypeOK'
  BY <1>1 DEF TypeOK
<1>3. SolutionHasSources' /\ ModelsInTurn' /\ EveryModelIsTried'
  BY <1>1 DEF SolutionHasSources, ModelsInTurn, EveryModelIsTried
<1> QED
  BY <1>2, <1>3

LEMMA CallToolsPreserves ==
    ASSUME InductiveInvariant, CallTools
    PROVE  InductiveInvariant'
<1>1. sources' \in [Files -> {"unread", "content", "none"}] /\ SourcesAreReal'
  BY UnreadType DEF CallTools, Unread, SourcesAreReal
<1> QED
  BY <1>1, TurnPreserves DEF CallTools

LEMMA UsesToolsPreserves ==
    ASSUME InductiveInvariant, NEW files \in SUBSET Files, UsesTools(files)
    PROVE  InductiveInvariant'
<1>1. sources' \in [Files -> {"unread", "content", "none"}]
  BY DEF UsesTools, InductiveInvariant, TypeOK
<1>2. SourcesAreReal'
  BY DEF UsesTools, InductiveInvariant, SourcesAreReal, Complete, provider
<1> QED
  BY <1>1, <1>2, TurnPreserves DEF UsesTools, AtRest

LEMMA ReadsPreserve ==
    ASSUME InductiveInvariant, NEW files \in SUBSET Files,
           \/ ReadsSources(files) \/ CannotRead(files) \/ Corrects(files)
    PROVE  InductiveInvariant'
<1>1. PICK told \in SUBSET Files : sources' = WithRead(told) /\ \A f \in told : Readable(f)
  <2>1. CASE ReadsSources(files)
    BY <2>1 DEF ReadsSources, Missing
  <2>2. CASE CannotRead(files)
    BY <2>2 DEF CannotRead, Missing
  <2>3. CASE Corrects(files)
    BY <2>3 DEF Corrects
  <2> QED
    BY <2>1, <2>2, <2>3
<1>2. call.pc = "tools" /\ UNCHANGED <<provider, jsonMode>>
      /\ (NextTurn \/ call' = [call EXCEPT !.pc = "failed"])
  BY DEF ReadsSources, CannotRead, Corrects
<1>3. sources' \in [Files -> {"unread", "content", "none"}] /\ SourcesAreReal'
  BY <1>1, <1>2, WithReadIsReal
<1> QED
  BY <1>2, <1>3, TurnPreserves DEF AtRest

LEMMA GivesUpPreserves ==
    ASSUME InductiveInvariant, GivesUp
    PROVE  InductiveInvariant'
  BY TurnPreserves DEF GivesUp, AtRest, InductiveInvariant, TypeOK, SourcesAreReal,
     Complete, provider

\* The solution, until it is a patch set or is given up.
LEMMA SolutionPreserves ==
    ASSUME InductiveInvariant, UNCHANGED <<provider, jsonMode, sources>>,
           call' \in Call, call'.pc \notin {"json", "exhausted"}, SolutionHasSources'
    PROVE  InductiveInvariant'
<1> USE DEF InductiveInvariant, provider
<1>1. TypeOK'
  BY DEF TypeOK
<1>2. SourcesAreReal'
  BY DEF SourcesAreReal, Complete
<1>3. ModelsInTurn' /\ EveryModelIsTried'
  BY DEF ModelsInTurn, EveryModelIsTried
<1> QED
  BY <1>1, <1>2, <1>3

LEMMA ValidatesPreserves ==
    ASSUME InductiveInvariant, NEW changes \in SUBSET Files, NEW twice \in BOOLEAN,
           Validates(changes, twice)
    PROVE  InductiveInvariant'
<1>1. call' \in Call /\ call'.pc = "solved" /\ call'.changes = changes
  BY DEF Validates, InductiveInvariant, TypeOK, Call
<1>2. SolutionHasSources'
  BY <1>1 DEF Validates, SolutionHasSources, Missing
<1> QED
  BY <1>1, <1>2, SolutionPreserves DEF Validates

LEMMA SolutionStepPreserves ==
    ASSUME InductiveInvariant, SolutionStep
    PROVE  InductiveInvariant'
<1>1. PICK pc \in {"prepared", "invalid", "unsure", "failed"} :
         /\ call' = [call EXCEPT !.pc = pc]
         /\ pc = "prepared" => Preparable
  BY DEF SolutionStep, PreparePatchSet, NotPrepared, Concludes
<1>2. call.pc = "solved" /\ UNCHANGED <<provider, jsonMode, sources>>
  BY DEF SolutionStep, PreparePatchSet, NotPrepared
<1>3. /\ call' \in Call /\ call'.pc = pc
      /\ call'.changes = call.changes /\ call'.twice = call.twice
  BY <1>1 DEF InductiveInvariant, TypeOK, Call
<1>4. SolutionHasSources'
  BY <1>1, <1>2, <1>3 DEF InductiveInvariant, SolutionHasSources, Missing, Preparable,
     Regular, Decodes, provider
<1> QED
  BY <1>2, <1>3, <1>4, SolutionPreserves

-----------------------------------------------------------------------------
LEMMA ToolPreserves ==
    ASSUME InductiveInvariant, ToolStep
    PROVE  InductiveInvariant'
  BY UsesToolsPreserves, ReadsPreserve, ValidatesPreserves, GivesUpPreserves DEF ToolStep

LEMMA NextPreserves == InductiveInvariant /\ [Next]_vars => InductiveInvariant'
<1> SUFFICES ASSUME InductiveInvariant, [Next]_vars PROVE InductiveInvariant'
  OBVIOUS
<1>1. CASE UNCHANGED vars
  BY <1>1 DEF vars, InductiveInvariant, TypeOK, SourcesAreReal, Complete,
     SolutionHasSources, Missing, Preparable, Regular, Decodes, ModelsInTurn,
     EveryModelIsTried
<1>2. CASE Next
  BY <1>2, CallJsonPreserves, CallToolsPreserves, WaitPreserves, JsonPreserves,
     ToolPreserves, SolutionStepPreserves DEF Next, ClientStep
<1> QED
  BY <1>1, <1>2

\* What the client knows of its call, of the files and of the models is right in
\* every reachable state.
THEOREM InvariantHolds == Spec => []InductiveInvariant
  BY InitInvariant, NextPreserves, PTL DEF Spec

\* A patch set changes only what the model had in full and exactly, or what is not
\* there, and each file once (llm_service.py:472, github_service.py:258-280).
THEOREM PatchSetIsGroundedHolds == Spec => []PatchSetIsGrounded
<1>1. InductiveInvariant => PatchSetIsGrounded
  <2> SUFFICES ASSUME InductiveInvariant, call.pc = "prepared", NEW f \in call.changes
               PROVE  /\ ~ call.twice
                      /\ \/ tree[f] = "small" /\ sources[f] = "content"
                         \/ tree[f] = "absent" /\ sources[f] = "none"
    BY DEF InductiveInvariant, SolutionHasSources, Preparable, PatchSetIsGrounded
  <2>1. Preparable /\ f \in Files /\ sources[f] \in {"content", "none"}
    BY DEF InductiveInvariant, SolutionHasSources, Missing, TypeOK, Call
  <2> QED
    BY <2>1 DEF Preparable, Regular, Decodes, InductiveInvariant, SourcesAreReal, Complete
<1> QED
  BY <1>1, InvariantHolds, PTL

\* No model is passed over before a call is given up (llm_service.py:298, 340).
THEOREM EveryModelIsTriedHolds == Spec => []EveryModelIsTried
<1>1. InductiveInvariant => EveryModelIsTried
  BY DEF InductiveInvariant
<1> QED
  BY <1>1, InvariantHolds, PTL

-----------------------------------------------------------------------------
(***************************************************************************)
(* Every step gets on: the safety part of the promise that calls return.   *)
(***************************************************************************)
LEMMA JsonGetsOn ==
    ASSUME InductiveInvariant, JsonStep
    PROVE  GetsOn(call, call')
<1>1. call.pc = "json" /\ call \in Call
  BY DEF JsonStep, Denied, RejectsJsonMode, Retryable, NotRetryable, Answers,
     InductiveInvariant, TypeOK
<1>2. CASE call' = AfterModel
  BY <1>1, <1>2, AfterModelMoves, Numbers DEF GetsOn, Call, Models
<1>3. CASE call' = AfterAttempt /\ AfterAttempt # AfterModel
  BY <1>1, <1>3, AfterAttemptMoves DEF GetsOn, Call
<1>4. CASE \E pc \in {"denied", "ok", "unparsed"} : call' = [call EXCEPT !.pc = pc]
  BY <1>1, <1>4 DEF GetsOn, Call
<1>5. CASE call' = StrictCall /\ ~ AskedStrictly
  BY <1>1, <1>5 DEF StrictCall, NewCall, AskedStrictly, GetsOn, Call
<1> QED
  BY <1>2, <1>3, <1>4, <1>5
     DEF JsonStep, Denied, RejectsJsonMode, Retryable, NotRetryable, Answers

LEMMA ToolGetsOn ==
    ASSUME InductiveInvariant, ToolStep \/ SolutionStep \/ WaitForQuota
    PROVE  GetsOn(call, call')
<1>1. call \in Call
  BY DEF InductiveInvariant, TypeOK
<1>2. CASE NextTurn /\ call.pc = "tools"
  BY <1>1, <1>2 DEF NextTurn, GetsOn, Call
<1>3. CASE \E pc \in {"failed", "prepared", "invalid", "unsure"} : call' = [call EXCEPT !.pc = pc]
  BY <1>1, <1>3 DEF GetsOn, Call
<1>4. ASSUME NEW changes, NEW twice, Validates(changes, twice)
      PROVE  GetsOn(call, call')
  BY <1>1, <1>4 DEF Validates, GetsOn, Call
<1>5. CASE WaitForQuota
  BY <1>1, <1>5 DEF WaitForQuota, GetsOn, Call
<1> QED
  BY <1>2, <1>3, <1>4, <1>5 DEF ToolStep, UsesTools, Corrects, ReadsSources, CannotRead,
     GivesUp, SolutionStep, PreparePatchSet, NotPrepared, Concludes

\* No step of a call takes it back in its loops (llm_service.py:254-370, 442-526):
\* as TypeOK leaves only finitely many places to go, each call has an end.
THEOREM EveryStepGetsOnHolds == Spec => EveryStepGetsOn
<1>1. InductiveInvariant /\ [Next]_vars => [ClientStep => GetsOn(call, call')]_vars
  BY JsonGetsOn, ToolGetsOn DEF ClientStep
<1> QED
  BY <1>1, InvariantHolds, PTL DEF Spec, EveryStepGetsOn
=============================================================================
