------------------------------ MODULE LLMClient ------------------------------
(***************************************************************************)
(* The LLM client of one work horse: _create with its waits for quota,     *)
(* _call_with_retry over models and attempts, _call_and_parse_json with    *)
(* its stricter second prompt, and the tool loop of                        *)
(* generate_solution_with_tools, which reads files at the pinned commit;   *)
(* and what becomes of its solution until it is a patch set.               *)
(*                                                                         *)
(* An action is one answer of the provider (or its failure) with all that  *)
(* the client does about it.  The client is reused from call to call: what *)
(* it has learnt of JSON mode stays.                                       *)
(***************************************************************************)
EXTENDS Naturals, FiniteSets

CONSTANTS
    ModelCount,     \* the model and its fallbacks
    Files,          \* paths of the repository
    MaxRetries,     \* max_retries
    QuotaTries,     \* requests of one _create when the provider is Groq, else 1
    MaxTurns        \* max_tool_iterations

ASSUME ClientAssumption ==
    {ModelCount, MaxRetries, QuotaTries, MaxTurns} \subseteq Nat \ {0}

VARIABLES
    tree,       \* the pinned commit: what is at each path
    listed,     \* whether GitHub lists its tree in full
    noJson,     \* models that reject JSON mode
    jsonMode,   \* _json_mode_supported
    call,       \* the call being made, or the last one and its outcome
    sources     \* what the tool loop has of each file

vars == <<tree, listed, noJson, jsonMode, call, sources>>

provider == <<tree, listed, noJson>>

-----------------------------------------------------------------------------
Models == 1 .. ModelCount

\* A regular UTF-8 file that read_file serves whole or cuts at 8000 characters,
\* a file with other bytes, a link to a small file.
Kinds == {"absent", "small", "large", "binary", "link"}

\* "asked": models that were sent the present prompt; "changes": the files that
\* the returned solution patches; "twice": one of them in two changes.
NewCall == [pc |-> "idle", strict |-> FALSE, model |-> 1, attempt |-> 0,
            tries |-> 0, turn |-> 0, asked |-> {}, changes |-> {}, twice |-> FALSE]

Unread == [f \in Files |-> "unread"]

Init ==
    /\ tree \in [Files -> Kinds]
    /\ listed \in BOOLEAN
    /\ noJson \in SUBSET Models
    /\ jsonMode = TRUE
    /\ call = NewCall
    /\ sources = Unread

-----------------------------------------------------------------------------
(***************************************************************************)
(* Slips that a change of the code could make, each a variant of the       *)
(* definition it is named after.                                           *)
(***************************************************************************)
RetriesOneMore(strict) == IF strict THEN 1 ELSE MaxRetries + 1

CompleteAnyLength(f) == tree[f] # "absent"

DecodesReplacing(f) == TRUE

AskedStrictlyNever == FALSE

StrictCallSameModel ==
    [call EXCEPT !.strict = TRUE, !.attempt = 0, !.tries = 0, !.asked = {}]

-----------------------------------------------------------------------------
(***************************************************************************)
(* A call begins: classify_issue and generate_solution ask for JSON,       *)
(* generate_solution_with_tools runs the tool loop.                        *)
(***************************************************************************)
AtRest == call.pc \notin {"json", "tools", "solved"}

CallJson ==
    /\ AtRest
    /\ call' = [NewCall EXCEPT !.pc = "json"]
    /\ UNCHANGED <<provider, jsonMode, sources>>

CallTools ==
    /\ AtRest
    /\ call' = [NewCall EXCEPT !.pc = "tools"]
    /\ sources' = Unread
    /\ UNCHANGED <<provider, jsonMode>>

-----------------------------------------------------------------------------
(***************************************************************************)
(* _create: a 429 of Groq is waited for, a bounded number of times.  Any   *)
(* other exception leaves it, as does an answer that was cut off.          *)
(***************************************************************************)
CanWait == call.tries + 1 < QuotaTries

WaitForQuota ==
    /\ call.pc \in {"json", "tools"}
    /\ CanWait
    /\ call' = [call EXCEPT !.tries = @ + 1]
    /\ UNCHANGED <<provider, jsonMode, sources>>

-----------------------------------------------------------------------------
(***************************************************************************)
(* _call_with_retry: max_retries attempts of each model in turn.  The      *)
(* stricter prompt has one attempt of each.                                *)
(***************************************************************************)
Retries(strict) == IF strict THEN 1 ELSE MaxRetries

Asked == call.asked \cup {call.model}

AfterModel ==
    IF call.model + 1 \in Models
      THEN [call EXCEPT !.model = @ + 1, !.attempt = 0, !.tries = 0, !.asked = Asked]
      ELSE [call EXCEPT !.pc = "exhausted", !.asked = Asked]

AfterAttempt ==
    IF call.attempt + 1 < Retries(call.strict)
      THEN [call EXCEPT !.attempt = @ + 1, !.tries = 0, !.asked = Asked]
      ELSE AfterModel

\* 401 and 403: no other model will help.
Denied ==
    /\ call.pc = "json"
    /\ call' = [call EXCEPT !.pc = "denied"]
    /\ UNCHANGED <<provider, jsonMode, sources>>

\* The provider does not know "response_format": from now on it is left out.
RejectsJsonMode ==
    /\ call.pc = "json"
    /\ jsonMode /\ call.model \in noJson
    /\ jsonMode' = FALSE
    /\ call' = AfterAttempt
    /\ UNCHANGED <<provider, sources>>

\* Timeouts, connection errors, 429 and 5xx.
Retryable ==
    /\ call.pc = "json"
    /\ call' = AfterAttempt
    /\ UNCHANGED <<provider, jsonMode, sources>>

\* Other errors, quota exhausted and answers cut off included.
NotRetryable ==
    /\ call.pc = "json"
    /\ call' = AfterModel
    /\ UNCHANGED <<provider, jsonMode, sources>>

\* _call_and_parse_json: an answer that does not parse is asked for once more,
\* with a stricter prompt and from the first model on.
AskedStrictly == call.strict

StrictCall == [NewCall EXCEPT !.pc = "json", !.strict = TRUE]

Answers(parses) ==
    /\ call.pc = "json"
    /\ jsonMode => call.model \notin noJson
    /\ call' = IF parses THEN [call EXCEPT !.pc = "ok"]
               ELSE IF AskedStrictly THEN [call EXCEPT !.pc = "unparsed"]
               ELSE StrictCall
    /\ UNCHANGED <<provider, jsonMode, sources>>

-----------------------------------------------------------------------------
(***************************************************************************)
(* generate_solution_with_tools.                                           *)
(***************************************************************************)
\* The next turn, if there is one.
NextTurn ==
    call' = IF call.turn + 1 < MaxTurns
              THEN [call EXCEPT !.turn = @ + 1, !.tries = 0]
              ELSE [call EXCEPT !.pc = "failed"]

\* A read that is answered in full: nothing else counts as a source.  read_file
\* follows links, and replaces the bytes that are not UTF-8.
Complete(f) == tree[f] \in {"small", "binary", "link"}

\* The model searches, and reads some files; reads may fail.
UsesTools(files) ==
    /\ call.pc = "tools"
    /\ \E served \in SUBSET files :
          sources' = [f \in Files |-> IF f \in served /\ Complete(f)
                                        THEN "content" ELSE sources[f]]
    /\ NextTurn
    /\ UNCHANGED <<provider, jsonMode>>

Missing(changes) == {f \in changes : sources[f] = "unread"}

\* read_source: a file that is not there is a source too, a truncated one is none.
Readable(f) == Complete(f) \/ tree[f] = "absent"

WithRead(files) ==
    [f \in Files |-> IF f \notin files THEN sources[f]
                     ELSE IF Complete(f) THEN "content" ELSE "none"]

ReadsSources(changes) ==
    /\ call.pc = "tools"
    /\ Missing(changes) # {}
    /\ \A f \in Missing(changes) : Readable(f)
    /\ sources' = WithRead(Missing(changes))
    /\ NextTurn
    /\ UNCHANGED <<provider, jsonMode>>

\* One is truncated, or its read fails.
CannotRead(changes) ==
    /\ call.pc = "tools"
    /\ \E read \in SUBSET {f \in Missing(changes) : Readable(f)} :
          /\ read # Missing(changes)
          /\ sources' = WithRead(read)
    /\ call' = [call EXCEPT !.pc = "failed"]
    /\ UNCHANGED <<provider, jsonMode>>

\* Each patch applies to its source: this is the solution.
Validates(changes, twice) ==
    /\ call.pc = "tools"
    /\ Missing(changes) = {}
    /\ call' = [call EXCEPT !.pc = "solved", !.changes = changes, !.twice = twice]
    /\ UNCHANGED <<provider, jsonMode, sources>>

\* The schema, a path or a patch is refused, perhaps after some files were read:
\* the model is asked for a correction.
Corrects(read) ==
    /\ call.pc = "tools"
    /\ \A f \in read : sources[f] = "unread" /\ Readable(f)
    /\ sources' = WithRead(read)
    /\ NextTurn
    /\ UNCHANGED <<provider, jsonMode>>

\* _create raises, or the final answer is not JSON.
GivesUp ==
    /\ call.pc = "tools"
    /\ call' = [call EXCEPT !.pc = "failed"]
    /\ UNCHANGED <<provider, jsonMode, sources>>

-----------------------------------------------------------------------------
(***************************************************************************)
(* process_issue goes on with the solution: the confidence gate, and       *)
(* prepare_patch_set, which reads the pinned commit once more and applies  *)
(* the patches to what is really there.                                    *)
(***************************************************************************)
Regular(f) == tree[f] \notin {"link"}

Decodes(f) == tree[f] # "binary"

Preparable ==
    listed /\ ~ call.twice /\ \A f \in call.changes : Regular(f) /\ Decodes(f)

Concludes(pc) == call' = [call EXCEPT !.pc = pc]

\* PatchError and ValueError are not worth a retry.
PreparePatchSet ==
    /\ call.pc = "solved"
    /\ Concludes(IF Preparable THEN "prepared" ELSE "invalid")
    /\ UNCHANGED <<provider, jsonMode, sources>>

\* The model is not confident, or GitHub does not answer.
NotPrepared(why) ==
    /\ call.pc = "solved"
    /\ Concludes(why)
    /\ UNCHANGED <<provider, jsonMode, sources>>

-----------------------------------------------------------------------------
JsonStep ==
    \/ Denied
    \/ RejectsJsonMode
    \/ Retryable
    \/ NotRetryable
    \/ \E parses \in BOOLEAN : Answers(parses)

ToolStep ==
    \/ \E files \in SUBSET Files : UsesTools(files) \/ Corrects(files)
    \/ \E changes \in SUBSET Files \ {{}} :
          \/ ReadsSources(changes)
          \/ CannotRead(changes)
          \/ \E twice \in BOOLEAN : Validates(changes, twice)
    \/ GivesUp

SolutionStep ==
    PreparePatchSet \/ \E why \in {"unsure", "failed"} : NotPrepared(why)

ClientStep == WaitForQuota \/ JsonStep \/ ToolStep \/ SolutionStep

Next == CallJson \/ CallTools \/ ClientStep

Spec == Init /\ [][Next]_vars

\* Each request is answered, or times out: the client always gets on.
FairSpec == Spec /\ WF_vars(ClientStep)

-----------------------------------------------------------------------------
(***************************************************************************)
(* Properties.                                                             *)
(***************************************************************************)
Call ==
    [pc : {"idle", "json", "tools", "ok", "failed", "denied", "exhausted", "unparsed",
           "solved", "prepared", "invalid", "unsure"},
     strict : BOOLEAN, model : Models, attempt : 0 .. MaxRetries - 1,
     tries : 0 .. QuotaTries - 1, turn : 0 .. MaxTurns - 1,
     asked : SUBSET Models, changes : SUBSET Files, twice : BOOLEAN]

\* The state has the shape of the client's fields and of the calls' locals.
TypeOK ==
    /\ tree \in [Files -> Kinds] /\ listed \in BOOLEAN
    /\ noJson \subseteq Models
    /\ jsonMode \in BOOLEAN
    /\ call \in Call
    /\ sources \in [Files -> {"unread", "content", "none"}]

\* Over any sequence of tool calls, truncated reads, corrections and changes of
\* mind, what becomes a patch set changes only regular files whose exact content at
\* the pinned commit the client has read, and checked the diff against, or that do
\* not exist there, each of them once.  (That the model was sent each of them is not
\* so: a correction may end the turn in which others were read, llm_service.py:474-492.)
\* The tool loop alone does not see to that: it takes links, and files whose bytes
\* were replaced, for sources.
PatchSetIsGrounded ==
    call.pc = "prepared" =>
        /\ ~ call.twice
        /\ \A f \in call.changes :
              \/ tree[f] = "small" /\ sources[f] = "content"
              \/ tree[f] = "absent" /\ sources[f] = "none"

\* A call is given up only after its prompt, the stricter one included, was sent
\* to every model, or when the credentials are refused.
EveryModelIsTried == call.pc = "exhausted" => call.asked = Models

\* What an unfinished call has behind it: the first prompt, models, attempts, turns
\* and waits, each of which starts over when one that comes before it goes on.
GetsOn(c, d) ==
    \/ d.pc \notin {"json", "tools", "solved"}
    \/ c.pc = "tools" /\ d.pc = "solved"
    \/ /\ c.pc = d.pc
       /\ \/ ~ c.strict /\ d.strict
          \/ c.strict = d.strict /\ c.model < d.model
          \/ /\ c.strict = d.strict /\ c.model = d.model
             /\ \/ c.attempt < d.attempt
                \/ c.attempt = d.attempt /\ c.turn < d.turn
                \/ c.attempt = d.attempt /\ c.turn = d.turn /\ c.tries < d.tries

\* No answer, failure or wait takes a call back to where it was before: the nested
\* loops never start anew without a step of a loop around them.
EveryStepGetsOn == [][ClientStep => GetsOn(call, call')]_vars

\* Every call returns: quota waits, attempts, models, the stricter prompt and the
\* tool turns are bounded together.
EveryCallReturns == ~ AtRest ~> AtRest

-----------------------------------------------------------------------------
(***************************************************************************)
(* What makes the invariants inductive.                                    *)
(***************************************************************************)
\* What counts as a source is what the loop was told of the pinned commit.
SourcesAreReal ==
    \A f \in Files :
        /\ sources[f] = "content" => Complete(f)
        /\ sources[f] = "none" => tree[f] = "absent"

\* A solution has a source for each file it changes, and keeps it.
SolutionHasSources ==
    /\ call.pc \in {"solved", "prepared"} => Missing(call.changes) = {}
    /\ call.pc = "prepared" => Preparable

\* The models before the present one were sent the present prompt.
ModelsInTurn == call.pc = "json" => \A m \in Models : m < call.model => m \in call.asked

InductiveInvariant ==
    /\ TypeOK
    /\ SourcesAreReal
    /\ SolutionHasSources
    /\ ModelsInTurn
    /\ EveryModelIsTried
=============================================================================
