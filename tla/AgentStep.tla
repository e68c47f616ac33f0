------------------------------ MODULE AgentStep ------------------------------
(***************************************************************************)
(* One forward step in a worker: loading the tools of its MCP sources      *)
(* (workers/tools.py), then the ReAct loop with its tool batches, text     *)
(* recoveries and schema soft-retries (workers/adapters/react_loop.py,     *)
(* workers/adapters/langchain.py), the single structured completion of a   *)
(* simple step (workers/llm/structured.py), or the one tool call of a      *)
(* commit step.                                                            *)
(*                                                                         *)
(* The language model and the MCP servers are the environment: a response, *)
(* a tool's answer and a connection are choices.                           *)
(***************************************************************************)
EXTENDS ReactMemory

CONSTANTS
    Steps,          \* the steps considered
    MaxTries,       \* llm_retry_max_attempts
    MaxBatch,       \* bound: tool calls of one response
    MaxUse,         \* bound: tokens one response reports
    SourceFaults,   \* how a source may fail: "down", "midway"
    LlmFaults       \* how a model call may fail: "transient", "permanent"

Submit == "_submit"
ReadResource == "read_resource"
LoadSkill == "load_skill"
Virtual == {Submit, ReadResource, LoadSkill}
\* A tool call whose name is empty
Nameless == ""

\* kind: react, simple or commit; allow: tools.allow with what the skills add;
\* sources: the tools each MCP source lists; extract: the tools facts are taken
\* from; turns, recoveries, attempts, budget, limit: the limits of the step (0:
\* none for the last two); memory: compression is on.
StepFields == {"kind", "allow", "sources", "resources", "skills", "extract",
               "turns", "recoveries", "attempts", "budget", "limit", "memory"}

ASSUME StepAssumption ==
    \A s \in Steps : /\ DOMAIN s = StepFields
                     /\ s.kind \in {"react", "simple", "commit"}
                     /\ s.sources \in Seq({s.sources[i] : i \in DOMAIN s.sources})
                     /\ s.turns \in Nat \ {0} /\ s.attempts \in Nat \ {0}
                     /\ s.recoveries \in Nat /\ s.budget \in Nat /\ s.limit \in Nat
                     /\ s.kind = "commit" => Cardinality(s.allow) = 1
                     /\ s.allow \cap Virtual = {}
ASSUME BoundAssumption == MaxTries \in Nat \ {0} /\ MaxBatch \in Nat /\ MaxUse \in Nat
ASSUME FaultAssumption ==
    SourceFaults \subseteq {"down", "midway"} /\ LlmFaults \subseteq {"transient", "permanent"}

VARIABLES
    step,       \* the step at hand
    pc,         \* where the adapter is
    next,       \* the next source to connect to
    sessions,   \* connected sources
    loaded,     \* loaded_tool_names
    offered,    \* the tools given to the model
    msgs,       \* the transcript
    loop,       \* run_react_loop: max_turns, effective_max_turns, turns_used,
                \* recoveries left
    attempt,    \* schema attempts so far
    tries,      \* attempts of retry_async
    batch,      \* tool calls of the turn still to be run
    results,    \* tool_results of the loop, of the tools facts are taken from
    payload,    \* what _submit, or the completion, holds
    tokens,     \* usage_acc.total_tokens
    outcome,    \* the result of the step
    facts,      \* the tools whose facts are in the output
    asked,      \* history: model responses
    ran         \* history: tool calls that reached a server

vars == <<step, pc, next, sessions, loaded, offered, msgs, loop, attempt, tries,
          batch, results, payload, tokens, outcome, facts, asked, ran>>

loading == <<next, sessions, loaded, offered>>
talking == <<msgs, loop, attempt, batch, results>>
history == <<asked, ran>>

Opening == <<Message("system", 0, {}), Message("human", 0, {})>>

\* The start of run_react_loop
NewLoop(turns) == [max |-> turns, cap |-> turns, used |-> 0, recoveries |-> step.recoveries]

Init ==
    /\ step \in Steps
    /\ pc = IF step.kind = "simple" THEN "simple" ELSE "load"
    /\ next = 1 /\ sessions = 0 /\ loaded = {} /\ offered = {}
    /\ msgs = Opening
    /\ loop = NewLoop(step.turns)
    /\ attempt = 1 /\ tries = 0
    /\ batch = <<>> /\ results = <<>>
    /\ payload = "none" /\ tokens = 0
    /\ outcome = "none" /\ facts = {}
    /\ asked = 0 /\ ran = {}

\* An ExecutionStepError, with its code
Fail(code) == pc' = "done" /\ outcome' = code

-----------------------------------------------------------------------------
(* build_tools_for_worker *)

\* _load_tools_from_session: what a source adds
Wanted == (step.sources[next] \cap step.allow) \ loaded

\* _process_mcp_source
LoadSource ==
    /\ pc = "load" /\ next <= Len(step.sources)
    /\ next' = next + 1
    /\ \/ /\ sessions' = sessions + 1
          /\ loaded' = loaded \cup Wanted
          /\ offered' = offered \cup Wanted
       \/ \* no connection, or no list of tools
          /\ "down" \in SourceFaults
          /\ sessions' \in {sessions, sessions + 1}
          /\ UNCHANGED <<loaded, offered>>
       \/ \* a tool cannot be converted: the names of those before it stay
          /\ "midway" \in SourceFaults
          /\ \E before \in SUBSET Wanted :
                before # Wanted /\ loaded' = loaded \cup before
          /\ sessions' = sessions + 1
          /\ UNCHANGED offered
    /\ UNCHANGED <<step, pc, talking, tries, payload, tokens, outcome, facts, history>>

\* Mutant: a missing tool is tolerated while another one loaded.
MissingAll ==
    \/ Len(step.sources) > 0 /\ step.allow # {} /\ step.allow \cap loaded = {}
    \/ step.resources /\ sessions = 0

\* The checks after the sources, and the virtual tools.  Without any source
\* nothing is found missing (_handle_no_sources).
Missing ==
    \/ Len(step.sources) > 0 /\ ~ (step.allow \subseteq loaded)
    \/ step.resources /\ sessions = 0

FinishLoading ==
    /\ pc = "load" /\ next > Len(step.sources)
    /\ \/ Missing /\ Fail("MCP_UNAVAILABLE") /\ UNCHANGED offered
       \/ \* no source lists a resource the step requires
          /\ step.resources /\ sessions > 0
          /\ Fail("RESOURCE_UNAVAILABLE") /\ UNCHANGED offered
       \/ /\ ~ Missing
          /\ offered' = offered \cup (IF step.resources THEN {ReadResource} ELSE {})
                                \cup (IF step.skills THEN {LoadSkill} ELSE {})
          /\ pc' = IF step.kind = "commit" THEN "commit" ELSE "ask"
          /\ UNCHANGED outcome
    /\ UNCHANGED <<step, next, sessions, loaded, talking, tries, payload, tokens, facts, history>>

-----------------------------------------------------------------------------
(* run_react_loop *)

\* compress_if_needed, unless it is switched off: the parts of the transcript
\* and what is left of them after k rounds
Limit == EffectiveLimit(step.limit)
Rest(k) == IF k = 0 THEN msgs ELSE Reassemble(Folded(Partition(msgs), k))
Overflows(k) ==
    \E after \in {Folded(Partition(msgs), k)} :
        step.memory /\ after.groups # <<>> /\ IsOver(after, loop.max, Limit)
Folds == IF step.memory
         THEN {Rounds(parts, loop.max, Limit) : parts \in {Partition(msgs)}} ELSE {0}

\* The head of the loop and of _react_loop_turn: what is over its budget even
\* after compression fails the step.
Ask ==
    /\ pc = "ask"
    /\ \/ loop.used >= loop.cap /\ Fail("no_submit_call") /\ UNCHANGED <<msgs, loop, tries>>
       \/ /\ loop.used < loop.cap
          /\ \E k \in Folds : Overflows(k)
          /\ Fail("CONTEXT_OVERFLOW") /\ UNCHANGED <<msgs, loop, tries>>
       \/ /\ loop.used < loop.cap
          /\ \E k \in Folds : ~ Overflows(k) /\ msgs' = Rest(k)
          /\ loop' = [loop EXCEPT !.used = @ + 1]
          /\ tries' = 1
          /\ pc' = "llm" /\ UNCHANGED outcome
    /\ UNCHANGED <<step, loading, attempt, batch, results, payload, tokens, facts, history>>

\* mutant: attempts are counted anew after the last
LlmFailsForEver ==
    /\ pc = "llm" /\ "transient" \in LlmFaults
    /\ tries' = IF tries < MaxTries THEN tries + 1 ELSE 1
    /\ UNCHANGED <<step, pc, loading, talking, payload, tokens, outcome, facts, history>>

\* retry_async around ainvoke
LlmFails ==
    /\ pc = "llm"
    /\ \/ /\ "transient" \in LlmFaults /\ tries < MaxTries
          /\ tries' = tries + 1
          /\ UNCHANGED <<pc, outcome>>
       \/ /\ \/ "transient" \in LlmFaults /\ tries >= MaxTries
             \/ "permanent" \in LlmFaults
          /\ Fail("agent_invoke") /\ UNCHANGED tries
    /\ UNCHANGED <<step, loading, talking, payload, tokens, facts, history>>

\* mutant: the budget is checked against the turn alone
OverBudgetTurn(used) == step.budget > 0 /\ used > step.budget

\* enforce_step_token_budget
OverBudget(used) == step.budget > 0 /\ tokens + used > step.budget

\* The tokens of a response matter where there is a budget.
Uses == IF step.budget > 0 THEN 0 .. MaxUse ELSE {0}

\* The response is counted, and the step goes on only within its budget.
Responded(used) ==
    /\ asked' = asked + 1
    /\ tokens' = tokens + used

TooExpensive ==
    /\ pc = "llm"
    /\ \E used \in Uses : OverBudget(used) /\ Responded(used)
    /\ Fail("STEP_TOKEN_LIMIT_EXCEEDED")
    /\ UNCHANGED <<step, loading, talking, tries, payload, facts, ran>>

\* A response without tool calls: the nudge, and a bonus turn if it was the last
TextExit ==
    /\ pc = "llm"
    /\ \E used \in Uses : ~ OverBudget(used) /\ Responded(used)
    /\ \/ /\ loop.recoveries > 0
          /\ msgs' = msgs \o <<Message("assistant", asked', {}), Message("human", asked', {})>>
          /\ loop' = [loop EXCEPT !.recoveries = @ - 1,
                                  !.cap = IF loop.used >= @ THEN loop.used + 1 ELSE @]
          /\ pc' = "ask" /\ UNCHANGED outcome
       \/ /\ loop.recoveries = 0
          /\ Fail("no_submit_call") /\ UNCHANGED <<msgs, loop>>
    /\ UNCHANGED <<step, loading, attempt, tries, batch, results, payload, facts, ran>>

\* mutant: names are checked when their call is run
AllowedFirst(names) == names[1] \in offered \cup {Submit, Nameless}

\* _check_allowlist_tool_name for every call of the response, before any is run;
\* a call without a name passes, and is not found when it is its turn.
Allowed(names) == \A i \in 1 .. Len(names) : names[i] \in offered \cup {Submit, Nameless}

\* mutant: a batch that ends in _submit is accepted
EndsInSubmit(names) == Last(names) = Submit

\* _process_tool_calls accepts _submit only alone
IsSubmit(names) == names = <<Submit>>

Ids(turn, names) == {<<turn, i>> : i \in 1 .. Len(names)}

\* _process_tool_calls up to the batch
Call(names) ==
    /\ pc = "llm"
    /\ \E used \in Uses : ~ OverBudget(used) /\ Responded(used)
    /\ msgs' = Append(msgs, Message("assistant", asked', Ids(asked', names)))
    /\ \/ /\ ~ Allowed(names)
          /\ Fail("TOOL_NOT_ALLOWED") /\ UNCHANGED <<batch, payload>>
       \/ /\ Allowed(names) /\ IsSubmit(names)
          /\ payload' \in {"valid", "invalid", "empty"}
          /\ pc' = "check" /\ UNCHANGED <<batch, outcome>>
       \/ /\ Allowed(names) /\ ~ IsSubmit(names)
          /\ batch' = [i \in 1 .. Len(names) |-> [tool |-> names[i], id |-> <<asked', i>>]]
          /\ pc' = "batch" /\ UNCHANGED <<outcome, payload>>
    /\ UNCHANGED <<step, loading, loop, attempt, tries, results, facts, ran>>

Record(call, answer) ==
    /\ results' = IF call.tool \in step.extract
                  THEN Append(results, [tool |-> call.tool, answer |-> answer]) ELSE results
    /\ msgs' = Append(msgs, Message("tool", asked, {call.id}))
    /\ batch' = Tail(batch)
    /\ pc' = IF Len(batch) = 1 THEN "ask" ELSE "batch"

\* mutant: a rejected _submit leaves no message
RejectSilently(call) ==
    /\ batch' = Tail(batch)
    /\ pc' = IF Len(batch) = 1 THEN "ask" ELSE "batch"
    /\ UNCHANGED <<results, msgs>>

\* _record_submit_must_be_alone
RejectSubmit(call) == Record(call, "error")

DeferSubmit ==
    /\ pc = "batch" /\ Head(batch).tool = Submit
    /\ RejectSubmit(Head(batch))
    /\ UNCHANGED <<step, loading, loop, attempt, tries, payload, tokens, outcome, facts, history>>

\* The call reaches an MCP server unless its input is refused before.
Reaches(call) == ran' = IF call.tool \in Virtual \cup {Nameless} THEN ran ELSE ran \cup {call}

\* _run_one_mcp_tool_call: a usable answer, or a mismatch the model may repair
\* (tool_output_is_recoverable)
RunTool ==
    /\ pc = "batch" /\ Head(batch).tool \notin {Submit, Nameless}
    /\ \/ Record(Head(batch), "ok")
       \/ Head(batch).tool \notin Virtual /\ Record(Head(batch), "error")
    /\ Reaches(Head(batch))
    /\ UNCHANGED <<step, loading, loop, attempt, tries, payload, tokens, outcome, facts, asked>>

\* A call without a name, a refused input, a transport failure, an error that
\* cannot be repaired, a resource nobody serves, or a skill that is not allowed
ToolFails ==
    /\ pc = "batch" /\ Head(batch).tool # Submit
    /\ Reaches(Head(batch)) \/ UNCHANGED ran
    /\ Fail("TOOL_FAILED")
    /\ UNCHANGED <<step, loading, talking, tries, payload, tokens, facts, asked>>

-----------------------------------------------------------------------------
(* run_step after a loop *)

AssistantTurns == Cardinality({i \in 1 .. Len(msgs) : msgs[i].role = "assistant"})

\* mutant: every soft-retry has the whole budget
AllTurns == step.turns

\* The turns of the next loop; assistant turns are counted in the transcript,
\* where folded ones are gone.
RemainingTurns == AtLeast(1, step.turns - AssistantTurns)

\* The payload does not match the schema: the loop starts again with the error
\* in the transcript, and with no tool results.
SoftRetry ==
    /\ pc = "check"
    /\ payload = "invalid" /\ attempt < step.attempts
    /\ attempt' = attempt + 1
    /\ msgs' = Append(msgs, Message("tool", asked, {<<asked, 1>>}))
    /\ loop' = NewLoop(RemainingTurns)
    /\ results' = <<>>
    /\ pc' = "ask"
    /\ UNCHANGED <<step, loading, tries, batch, payload, tokens, outcome, facts, history>>

LoopEnds ==
    /\ pc = "check"
    /\ payload # "invalid" \/ attempt >= step.attempts
    /\ pc' = "final"
    /\ UNCHANGED <<step, loading, talking, tries, payload, tokens, outcome, facts, history>>

\* _tool_results_index: the last answer of a tool counts
LastAnswer(tool) ==
    results[CHOOSE i \in 1 .. Len(results) :
                /\ results[i].tool = tool
                /\ \A j \in i + 1 .. Len(results) : results[j].tool # tool].answer
CalledTools == {results[i].tool : i \in 1 .. Len(results)}

\* _validate_submit_payload, _validate_structured_payload
Admit == payload = "valid"

\* _finalize_reason_step, extract_step_facts
Finalize ==
    /\ pc = "final"
    /\ LET found == step.extract \cap CalledTools
       IN  \/ ~ Admit /\ Fail("OUTPUT_INVALID") /\ UNCHANGED facts
           \/ /\ Admit
              /\ \/ \E t \in found : LastAnswer(t) = "error"
                 \/ found # {}    \* no JSON object, or a path without a value
              /\ Fail("FACT_EXTRACTION_FAILED") /\ UNCHANGED facts
           \/ /\ Admit
              /\ \A t \in found : LastAnswer(t) = "ok"
              /\ facts' = found
              /\ pc' = "done" /\ outcome' = "ok"
    /\ UNCHANGED <<step, loading, talking, tries, payload, tokens, history>>

-----------------------------------------------------------------------------
(* Simple and commit steps *)

\* invoke_structured_output: the native completion, or JSON mode after it; the
\* usage of a native completion that failed is not counted.
Complete ==
    /\ pc = "simple"
    /\ \E used \in Uses : \E found \in {"none", "empty", "invalid", "valid"} :
          /\ Responded(used)
          /\ payload' = found
          /\ \/ OverBudget(used) /\ Fail("STEP_TOKEN_LIMIT_EXCEEDED") /\ UNCHANGED attempt
             \/ /\ ~ OverBudget(used)
                /\ \/ found \in {"none", "empty"} /\ Fail("STRUCTURED_FAILED") /\ UNCHANGED attempt
                   \/ /\ found = "invalid" /\ attempt < step.attempts
                      /\ attempt' = attempt + 1 /\ UNCHANGED <<pc, outcome>>
                   \/ /\ found = "invalid" /\ attempt >= step.attempts
                      /\ Fail("OUTPUT_INVALID") /\ UNCHANGED attempt
                   \/ /\ found = "valid"
                      /\ pc' = "final" /\ UNCHANGED <<attempt, outcome>>
    /\ UNCHANGED <<step, loading, msgs, loop, tries, batch, results, facts, ran>>

\* run_commit: one call of the one tool, if it was converted
RunCommit ==
    /\ pc = "commit"
    /\ LET call == [tool |-> CHOOSE t \in step.allow : TRUE, id |-> <<0, 1>>]
       IN  \/ ~ (step.allow \subseteq offered) /\ Fail("commit_tool_load") /\ UNCHANGED <<payload, ran>>
           \/ /\ step.allow \subseteq offered
              /\ Reaches(call) \/ UNCHANGED ran
              /\ Fail("TOOL_FAILED") /\ UNCHANGED payload
           \/ /\ step.allow \subseteq offered
              /\ Reaches(call)
              /\ payload' \in {"valid", "invalid"}
              /\ Fail(IF payload' = "valid" THEN "ok" ELSE "OUTPUT_INVALID")
    /\ UNCHANGED <<step, loading, talking, tries, tokens, facts, asked>>

-----------------------------------------------------------------------------

Names == offered \cup {Submit, Nameless, "unknown"}
Batches == UNION {[1 .. n -> Names] : n \in 1 .. MaxBatch}

Next ==
    \/ LoadSource \/ FinishLoading
    \/ Ask \/ LlmFails \/ TooExpensive \/ TextExit
    \/ \E names \in Batches : Call(names)
    \/ DeferSubmit \/ RunTool \/ ToolFails
    \/ SoftRetry \/ LoopEnds \/ Finalize
    \/ Complete \/ RunCommit

Spec == Init /\ [][Next]_vars

\* The task of the step is run by its event loop; every wait has a timeout.
FairSpec == Spec /\ WF_vars(Next)

-----------------------------------------------------------------------------
(* Properties *)

Answered == UNION {msgs[i].of : i \in {j \in 1 .. Len(msgs) : msgs[j].role = "tool"}}
CallIds == UNION {msgs[i].of : i \in {j \in 1 .. Len(msgs) : msgs[j].role = "assistant"}}
TurnsInTranscript ==
    {msgs[i].turn : i \in {j \in 1 .. Len(msgs) : msgs[j].role = "assistant"}}

\* The states of the adapter; a batch is only left while one is run, and the
\* counters stay within their limits.
TypeOK ==
    /\ step \in Steps
    /\ pc \in {"load", "ask", "llm", "batch", "check", "final", "simple", "commit", "done"}
    /\ next \in 1 .. Len(step.sources) + 1 /\ sessions \in 0 .. Len(step.sources)
    /\ loaded \subseteq step.allow /\ offered \subseteq step.allow \cup {ReadResource, LoadSkill}
    /\ \A i \in 1 .. Len(msgs) : msgs[i].role \in Roles
    /\ loop.used \in 0 .. loop.cap /\ loop.recoveries \in 0 .. step.recoveries
    /\ attempt \in 1 .. step.attempts /\ tries \in 0 .. MaxTries
    /\ pc = "batch" => batch # <<>>
    /\ payload \in {"none", "valid", "invalid", "empty"}
    /\ tokens \in Nat /\ asked \in Nat
    /\ (pc = "done") <=> (outcome # "none")

\* What is sent to the model is a transcript a provider accepts, however often
\* it was compressed: every tool call of an assistant message is answered once,
\* in its own turn, and every tool message answers such a call.
WellFormedTranscript ==
    pc = "llm" =>
        \A p \in {Partition(msgs)} :
            /\ \A i \in 1 .. Len(p.anchors) : p.anchors[i].role # "tool"
            /\ \A g \in 1 .. Len(p.groups) :
                  LET group == p.groups[g]
                      tool  == {i \in 2 .. Len(group) : group[i].role = "tool"}
                  IN  /\ UNION {group[i].of : i \in tool} = group[1].of
                      /\ Cardinality(tool) = Cardinality(group[1].of)

\* The model is never asked without the task, and no turn is lost: each one is
\* in the transcript or in the digest, the latest in the transcript.
NothingForgotten ==
    pc = "llm" =>
        /\ SubSeq(msgs, 1, 2) = Opening
        /\ TurnsInTranscript \cup DigestOf(msgs) = 1 .. asked
        /\ TurnsInTranscript \cap DigestOf(msgs) = {}
        /\ asked > 0 => asked \in TurnsInTranscript

\* Only tools of the allowlist reach a server, and none of a response that
\* names a tool outside it, wherever in the batch that name stands.
Governed ==
    /\ \A c \in ran : c.tool \in step.allow \cap offered
    /\ outcome = "TOOL_NOT_ALLOWED" => \A c \in ran : c.id[1] < asked
    /\ pc = "batch" => \A i \in 1 .. Len(batch) : batch[i].tool \in offered \cup {Submit, Nameless}

\* The result of a ReAct step is one the model gave after it had seen the
\* answers of all its calls: _submit is the only call without an answer.
SubmitSeesAll ==
    step.kind = "react" /\ (pc \in {"check", "final"} \/ outcome = "ok") =>
        CallIds \ Answered = {<<asked, 1>>}

\* The turn budget over all soft-retries: with compression off each retry costs
\* at most one turn beyond it, and each text recovery one.
TurnsBounded ==
    ~ step.memory =>
        asked <= step.turns + step.attempts - 1 + step.attempts * step.recoveries

\* Past its token budget a step asks nothing and runs nothing any more.
BudgetStops ==
    [][step.budget > 0 /\ tokens > step.budget => UNCHANGED <<asked, ran>>]_vars

\* The model is asked only with all the tools the step allows, although sources
\* fail (build_tools_for_worker raises MCP_UNAVAILABLE).
ToolsComplete ==
    pc = "llm" /\ step.sources # <<>> => step.allow \subseteq offered

\* Every step ends, with a result or an error.
Ends == <>(pc = "done")

\* "Extraction uses whatever the agent actually called during the step"
\* (docs/guides/manifests/saga-manifests.md).
FactsCoverCalls ==
    outcome = "ok" => step.extract \cap {c.tool : c \in ran} \subseteq facts

=============================================================================
