--------------------------- MODULE AgentStepProofs ---------------------------
\* Theorems about AgentStep, for every step, any number of sources, turns,
\* retries and tool calls, and every way the model and the tools may fail.
EXTENDS AgentStep, TLAPS, FiniteSetTheorems, SequenceTheorems

-----------------------------------------------------------------------------
\* The phases of a step.

\* Where each kind of step can be, and what is counted.
PhaseInv ==
    /\ step \in Steps
    /\ asked \in Nat /\ tokens \in Nat
    /\ pc \in {"ask", "llm", "batch", "check"} => step.kind = "react"
    /\ pc = "simple" => step.kind = "simple"
    /\ pc = "commit" => step.kind = "commit"
    /\ pc = "load" => step.kind # "simple"
    /\ pc = "done" <=> outcome # "none"

\* The phases follow each other, and nothing happens after the last.
LEMMA PhaseStep == PhaseInv /\ [Next]_vars => PhaseInv'
  <1> SUFFICES ASSUME PhaseInv, [Next]_vars PROVE PhaseInv'
    OBVIOUS
  <1>1. /\ step.kind \in {"react", "simple", "commit"}
        /\ step.turns \in Nat /\ step.attempts \in Nat /\ step.budget \in Nat
    BY StepAssumption DEF PhaseInv
  <1>2. \A used \in Uses : used \in Nat
    BY BoundAssumption DEF Uses
  <1> USE <1>1 DEF PhaseInv, Fail
  <1>3. CASE LoadSource
    BY <1>3 DEF LoadSource, history
  <1>4. CASE FinishLoading
    BY <1>4 DEF FinishLoading, history
  <1>5. CASE Ask
    BY <1>5 DEF Ask, history
  <1>6. CASE LlmFails
    BY <1>6 DEF LlmFails, history
  <1>7. CASE TooExpensive \/ TextExit
    BY <1>2, <1>7 DEF TooExpensive, TextExit, Responded
  <1>8. ASSUME NEW names \in Batches, Call(names) PROVE PhaseInv'
    BY <1>2, <1>8 DEF Call, Responded
  <1>9. CASE DeferSubmit
    BY <1>9 DEF DeferSubmit, RejectSubmit, Record, history
  <1>10. CASE RunTool
    BY <1>10 DEF RunTool, Record
  <1>11. CASE ToolFails
    BY <1>11 DEF ToolFails
  <1>12. CASE SoftRetry \/ LoopEnds
    BY <1>12 DEF SoftRetry, LoopEnds, history
  <1>13. CASE Finalize
    BY <1>13 DEF Finalize, history
  <1>14. CASE Complete
    BY <1>2, <1>14 DEF Complete, Responded
  <1>15. CASE RunCommit
    BY <1>15 DEF RunCommit
  <1>16. CASE UNCHANGED vars
    BY <1>16 DEF vars
  <1>17. QED
    BY <1>3, <1>4, <1>5, <1>6, <1>7, <1>8, <1>9, <1>10, <1>11, <1>12, <1>13, <1>14, <1>15,
       <1>16 DEF Next

\* A step starts with its tools, or with its one completion.
LEMMA PhaseInit == Init => PhaseInv
  BY StepAssumption DEF Init, PhaseInv

\* The phases are those of the kind of the step.
THEOREM Phases == Spec => []PhaseInv
  BY PhaseInit, PhaseStep, PTL DEF Spec
-----------------------------------------------------------------------------
\* The budget.

\* Past its budget a step is over.
BudgetInv == step.budget > 0 /\ tokens > step.budget => pc = "done"

\* A response that exceeds the budget ends the step.
LEMMA BudgetStep == PhaseInv /\ BudgetInv /\ [Next]_vars => BudgetInv'
  <1> SUFFICES ASSUME PhaseInv, BudgetInv, [Next]_vars PROVE BudgetInv'
    OBVIOUS
  <1>1. /\ step.turns \in Nat /\ step.attempts \in Nat /\ step.budget \in Nat
        /\ tokens \in Nat
    BY StepAssumption DEF PhaseInv
  <1>2. \A used \in Uses : used \in Nat
    BY BoundAssumption DEF Uses
  <1>3. CASE UNCHANGED <<step, tokens>> /\ pc # "done"
    BY <1>3 DEF BudgetInv
  <1>4. ASSUME UNCHANGED step, NEW used \in Uses, tokens' = tokens + used,
               OverBudget(used) => pc' = "done"
        PROVE  BudgetInv'
    BY <1>1, <1>2, <1>4 DEF BudgetInv, OverBudget
  <1>5. LoadSource \/ FinishLoading \/ Ask \/ LlmFails => UNCHANGED <<step, tokens>> /\ pc # "done"
    BY DEF LoadSource, FinishLoading, Ask, LlmFails
  <1>6. DeferSubmit \/ RunTool \/ ToolFails \/ SoftRetry \/ LoopEnds \/ Finalize \/ RunCommit
          => UNCHANGED <<step, tokens>> /\ pc # "done"
    BY DEF DeferSubmit, RunTool, ToolFails, SoftRetry, LoopEnds, Finalize, RunCommit
  <1>7. CASE TooExpensive \/ TextExit
    BY <1>4, <1>7 DEF TooExpensive, TextExit, Responded, Fail
  <1>8. ASSUME NEW names \in Batches, Call(names) PROVE BudgetInv'
    BY <1>4, <1>8 DEF Call, Responded
  <1>9. CASE Complete
    <2>1. PICK used \in Uses :
             /\ Responded(used) /\ UNCHANGED step
             /\ OverBudget(used) => pc' = "done"
      BY <1>9 DEF Complete, Fail
    <2>2. QED
      BY <1>4, <2>1 DEF Responded
  <1>10. CASE UNCHANGED vars
    BY <1>10 DEF BudgetInv, vars
  <1>11. QED
    BY <1>3, <1>5, <1>6, <1>7, <1>8, <1>9, <1>10 DEF Next

\* A step that is over asks nothing and runs nothing.
LEMMA DoneRests == [Next]_vars /\ pc = "done" => UNCHANGED <<asked, ran>>
  BY DEF Next, LoadSource, FinishLoading, Ask, LlmFails, TooExpensive, TextExit, Call,
         DeferSubmit, RunTool, ToolFails, SoftRetry, LoopEnds, Finalize, Complete, RunCommit,
         vars

\* Past its token budget a step asks nothing and runs nothing any more: the
\* calls of the response that exceeded it are not run either.
THEOREM BudgetIsKept == Spec => BudgetStops
  <1>1. Init => BudgetInv
    <2> SUFFICES ASSUME Init PROVE BudgetInv
      OBVIOUS
    <2>1. step.budget \in Nat /\ tokens = 0
      BY StepAssumption DEF Init
    <2>2. QED
      BY <2>1 DEF BudgetInv
  <1>2. BudgetInv /\ [Next]_vars =>
           [step.budget > 0 /\ tokens > step.budget => UNCHANGED <<asked, ran>>]_vars
    BY DoneRests DEF BudgetInv
  <1>3. QED
    BY <1>1, <1>2, BudgetStep, Phases, PTL DEF Spec, BudgetStops

-----------------------------------------------------------------------------
\* The allowlist.

Calls(turn, tools) == [tool : tools, id : {turn} \X Nat]

\* A call that was run was offered and belongs to a response; the calls of a
\* batch are those of the latest one.
GovernedInv ==
    /\ offered \subseteq step.allow \cup {ReadResource, LoadSkill}
    /\ \A c \in ran : c.tool \in step.allow \cap offered /\ c.id[1] \in 0 .. asked
    /\ pc = "batch" => batch \in Seq(Calls(asked, offered \cup {Submit, Nameless})) /\ batch # <<>>
    /\ outcome = "TOOL_NOT_ALLOWED" => \A c \in ran : c.id[1] < asked

\* The calls of a response, when each of them is allowed.
LEMMA BatchTyped ==
    ASSUME NEW names \in Batches, Allowed(names), NEW turn
    PROVE  LET calls == [i \in 1 .. Len(names) |-> [tool |-> names[i], id |-> <<turn, i>>]]
           IN  calls \in Seq(Calls(turn, offered \cup {Submit, Nameless})) /\ calls # <<>>
  <1>1. PICK n \in 1 .. MaxBatch : names \in [1 .. n -> Names]
    BY DEF Batches
  <1>2. n \in Nat /\ n > 0 /\ names \in Seq(Names) /\ Len(names) = n
    BY <1>1, BoundAssumption
  <1>3. PICK calls : calls = [i \in 1 .. n |-> [tool |-> names[i], id |-> <<turn, i>>]]
    OBVIOUS
  <1>4. PICK S : S = Calls(turn, offered \cup {Submit, Nameless})
    OBVIOUS
  <1>5. \A i \in 1 .. n : [tool |-> names[i], id |-> <<turn, i>>] \in S
    BY <1>2, <1>4 DEF Allowed, Calls
  <1>6. calls \in [1 .. n -> S]
    BY <1>3, <1>5
  <1>7. calls \in Seq(S) /\ Len(calls) = n
    BY <1>2, <1>6
  <1>8. [i \in 1 .. Len(names) |-> [tool |-> names[i], id |-> <<turn, i>>]] = calls
    BY <1>2, <1>3
  <1>9. calls # <<>>
    BY <1>2, <1>7
  <1>10. QED
    BY <1>4, <1>7, <1>8, <1>9

\* What is left of a batch after its first call.
LEMMA RestOfBatch ==
    ASSUME NEW S, NEW s \in Seq(S), s # <<>>
    PROVE  /\ Head(s) \in S /\ Tail(s) \in Seq(S)
           /\ Len(s) # 1 => Tail(s) # <<>>
  <1>1. Len(s) \in Nat /\ Len(s) # 0
    BY EmptySeq, LenProperties
  <1>2. Head(s) \in S /\ Tail(s) \in Seq(S) /\ Len(Tail(s)) = Len(s) - 1
    BY HeadTailProperties
  <1>3. QED
    BY <1>1, <1>2

\* A call that is run keeps to the allowlist, and the rest of the batch does.
LEMMA ReachesGoverned ==
    ASSUME PhaseInv, GovernedInv, pc = "batch", UNCHANGED <<step, offered, asked>>,
           Reaches(Head(batch)) \/ UNCHANGED ran
    PROVE  /\ \A c \in ran' : c.tool \in step.allow \cap offered /\ c.id[1] \in 0 .. asked
           /\ outcome # "TOOL_NOT_ALLOWED"
           /\ Len(batch) # 1 => /\ Tail(batch) \in Seq(Calls(asked, offered \cup {Submit, Nameless}))
                                /\ Tail(batch) # <<>>
  <1>1. PICK tools : tools = offered \cup {Submit, Nameless}
    OBVIOUS
  <1>2. batch \in Seq(Calls(asked, tools)) /\ batch # <<>> /\ asked \in Nat
    BY <1>1 DEF GovernedInv, PhaseInv
  <1>3. /\ Head(batch) \in Calls(asked, tools) /\ Tail(batch) \in Seq(Calls(asked, tools))
        /\ Len(batch) # 1 => Tail(batch) # <<>>
    BY <1>2, RestOfBatch
  <1>4. Head(batch).tool \in tools /\ Head(batch).id[1] = asked
    BY <1>3 DEF Calls
  <1>5. Head(batch).tool \notin Virtual \cup {Nameless} =>
           Head(batch).tool \in step.allow \cap offered
    BY <1>1, <1>4 DEF GovernedInv, Virtual
  <1>6. outcome # "TOOL_NOT_ALLOWED"
    BY DEF PhaseInv
  <1>7. \A c \in ran' : c.tool \in step.allow \cap offered /\ c.id[1] \in 0 .. asked
    BY <1>2, <1>4, <1>5 DEF GovernedInv, Reaches
  <1>8. QED
    BY <1>1, <1>3, <1>6, <1>7

\* Every step keeps to the allowlist.
LEMMA GovernedStep == PhaseInv /\ GovernedInv /\ [Next]_vars => GovernedInv'
  <1> SUFFICES ASSUME PhaseInv, GovernedInv, [Next]_vars PROVE GovernedInv'
    OBVIOUS
  <1>1. asked \in Nat /\ (pc = "done" <=> outcome # "none")
    BY DEF PhaseInv
  <1>2. ASSUME UNCHANGED <<step, offered, ran>>, asked' \in {asked, asked + 1},
               pc' # "batch", outcome' # "TOOL_NOT_ALLOWED"
        PROVE  GovernedInv'
    BY <1>1, <1>2 DEF GovernedInv
  <1>3. ASSUME Fail("MCP_UNAVAILABLE") \/ Fail("RESOURCE_UNAVAILABLE") \/ Fail("no_submit_call")
               \/ Fail("CONTEXT_OVERFLOW") \/ Fail("agent_invoke") \/ Fail("OUTPUT_INVALID")
               \/ Fail("STEP_TOKEN_LIMIT_EXCEEDED") \/ Fail("FACT_EXTRACTION_FAILED")
               \/ Fail("STRUCTURED_FAILED")
        PROVE  pc' # "batch" /\ outcome' # "TOOL_NOT_ALLOWED"
    BY <1>3 DEF Fail
  <1>4. CASE LoadSource
    <2>1. UNCHANGED <<step, ran, asked, pc, outcome>> /\ pc = "load"
      BY <1>4 DEF LoadSource, history
    <2>2. offered' = offered \/ offered' = offered \cup Wanted
      BY <1>4 DEF LoadSource
    <2>3. QED
      BY <1>1, <2>1, <2>2 DEF GovernedInv, Wanted
  <1>5. CASE FinishLoading
    <2>1. UNCHANGED <<step, ran, asked>> /\ pc' # "batch" /\ outcome' # "TOOL_NOT_ALLOWED"
      BY <1>1, <1>3, <1>5 DEF FinishLoading, history
    <2>2. offered \subseteq offered' /\ offered' \subseteq offered \cup {ReadResource, LoadSkill}
      BY <1>5 DEF FinishLoading
    <2>3. QED
      BY <1>1, <2>1, <2>2 DEF GovernedInv
  <1>6. CASE Ask
    BY <1>1, <1>2, <1>3, <1>6 DEF Ask, loading, history
  <1>7. CASE LlmFails
    BY <1>1, <1>2, <1>3, <1>7 DEF LlmFails, loading, history
  <1>8. CASE TooExpensive \/ TextExit
    BY <1>1, <1>2, <1>3, <1>8 DEF TooExpensive, TextExit, Responded, loading
  <1>9. ASSUME NEW names \in Batches, Call(names) PROVE GovernedInv'
    <2>1. UNCHANGED <<step, offered, ran>> /\ asked' = asked + 1 /\ outcome = "none"
      BY <1>1, <1>9 DEF Call, Responded, loading
    <2>2. CASE ~ Allowed(names) /\ Fail("TOOL_NOT_ALLOWED")
      BY <1>1, <2>1, <2>2 DEF GovernedInv, Fail
    <2>3. CASE pc' = "check" /\ outcome' = outcome
      BY <1>2, <2>1, <2>3
    <2>4. CASE /\ Allowed(names) /\ pc' = "batch" /\ outcome' = outcome
               /\ batch' = [i \in 1 .. Len(names) |-> [tool |-> names[i], id |-> <<asked', i>>]]
      <3>1. PICK turn : turn = asked'
        OBVIOUS
      <3>2. batch' = [i \in 1 .. Len(names) |-> [tool |-> names[i], id |-> <<turn, i>>]]
        BY <2>4, <3>1
      <3>3. batch' \in Seq(Calls(turn, offered \cup {Submit, Nameless})) /\ batch' # <<>>
        BY <2>4, <3>2, BatchTyped
      <3>4. QED
        BY <1>1, <2>1, <2>4, <3>1, <3>3 DEF GovernedInv, Calls
    <2>5. QED
      BY <1>9, <2>2, <2>3, <2>4 DEF Call
  <1>10. ASSUME pc = "batch", UNCHANGED <<step, offered, asked, outcome>>,
                Reaches(Head(batch)) \/ UNCHANGED ran,
                batch' = Tail(batch), pc' = IF Len(batch) = 1 THEN "ask" ELSE "batch"
         PROVE  GovernedInv'
    BY <1>10, ReachesGoverned DEF GovernedInv, Calls
  <1>11. CASE DeferSubmit
    BY <1>10, <1>11 DEF DeferSubmit, RejectSubmit, Record, loading, history
  <1>12. CASE RunTool
    BY <1>10, <1>12 DEF RunTool, Record, loading
  <1>13. CASE ToolFails
    <2>1. pc = "batch" /\ UNCHANGED <<step, offered, asked>> /\ pc' = "done"
          /\ outcome' = "TOOL_FAILED" /\ (Reaches(Head(batch)) \/ UNCHANGED ran)
      BY <1>13 DEF ToolFails, Fail, loading
    <2>2. \A c \in ran' : c.tool \in step.allow \cap offered /\ c.id[1] \in 0 .. asked
      BY <2>1, ReachesGoverned
    <2>3. QED
      BY <2>1, <2>2 DEF GovernedInv
  <1>14. CASE SoftRetry \/ LoopEnds
    BY <1>1, <1>2, <1>14 DEF SoftRetry, LoopEnds, loading, history
  <1>15. CASE Finalize
    BY <1>1, <1>2, <1>3, <1>15 DEF Finalize, Fail, loading, history
  <1>16. CASE Complete
    BY <1>1, <1>2, <1>3, <1>16 DEF Complete, Responded, loading
  <1>17. CASE RunCommit
    <2>1. PICK call : call = [tool |-> CHOOSE t \in step.allow : TRUE, id |-> <<0, 1>>]
      OBVIOUS
    <2>2. UNCHANGED <<step, offered, asked>> /\ pc' = "done" /\ outcome' # "TOOL_NOT_ALLOWED"
      BY <1>17 DEF RunCommit, Fail, loading
    <2>3. UNCHANGED ran \/ (step.allow \subseteq offered /\ ran' = ran \cup {call})
      BY <1>17, <2>1 DEF RunCommit, Reaches
    <2>4. step.kind = "commit" /\ Cardinality(step.allow) = 1
      BY <1>17, StepAssumption DEF RunCommit, PhaseInv
    <2>5. step.allow # {}
      BY <2>4, FS_EmptySet
    <2>6. call.tool \in step.allow /\ call.id[1] = 0
      BY <2>1, <2>5
    <2>7. QED
      BY <1>1, <2>2, <2>3, <2>6 DEF GovernedInv
  <1>18. CASE UNCHANGED vars
    BY <1>18 DEF GovernedInv, vars, Calls
  <1>19. QED
    BY <1>4, <1>5, <1>6, <1>7, <1>8, <1>9, <1>11, <1>12, <1>13, <1>14, <1>15, <1>16, <1>17,
       <1>18 DEF Next

\* What is true of the calls of every state.
LEMMA AlwaysGoverned == Spec => []GovernedInv
  <1>1. Init => GovernedInv
    BY DEF Init, GovernedInv
  <1>2. QED
    BY <1>1, GovernedStep, Phases, PTL DEF Spec

\* Only tools of the allowlist reach a server, and none of a response that names
\* a tool outside it, wherever in the batch that name stands.
THEOREM OnlyAllowedToolsRun == Spec => []Governed
  <1>1. GovernedInv => Governed
    <2> SUFFICES ASSUME GovernedInv PROVE Governed
      OBVIOUS
    <2>1. ASSUME pc = "batch", NEW i \in 1 .. Len(batch)
          PROVE  batch[i].tool \in offered \cup {Submit, Nameless}
      <3>1. batch \in Seq(Calls(asked, offered \cup {Submit, Nameless}))
        BY <2>1 DEF GovernedInv
      <3>2. batch[i] \in Calls(asked, offered \cup {Submit, Nameless})
        BY <2>1, <3>1
      <3>3. QED
        BY <3>2 DEF Calls
    <2>2. QED
      BY <2>1 DEF GovernedInv, Governed
  <1>2. QED
    BY <1>1, AlwaysGoverned, PTL
-----------------------------------------------------------------------------
\* The tools of the step.

\* When no source fails in the middle, what was loaded was offered, and a model
\* is asked with all of it.
LoadedInv ==
    "midway" \notin SourceFaults =>
       /\ loaded \subseteq offered
       /\ pc \in {"ask", "llm", "batch", "check"} /\ step.sources # <<>>
            => step.allow \subseteq offered

\* The loading ends with all tools of the allowlist, or the step ends.
LEMMA LoadedStep == PhaseInv /\ LoadedInv /\ [Next]_vars => LoadedInv'
  <1> SUFFICES ASSUME PhaseInv, LoadedInv, [Next]_vars, "midway" \notin SourceFaults
               PROVE  LoadedInv'
    BY DEF LoadedInv
  <1>1. step.sources # <<>> => Len(step.sources) > 0
    <2>1. step.sources \in Seq({step.sources[i] : i \in DOMAIN step.sources})
      BY StepAssumption DEF PhaseInv
    <2>2. ASSUME NEW S, NEW s \in Seq(S), s # <<>> PROVE Len(s) > 0
      BY <2>2, EmptySeq, LenProperties
    <2>3. QED
      BY <2>1, <2>2
  <1>2. ASSUME UNCHANGED <<step, loaded, offered>>,
               pc' \in {"ask", "llm", "batch", "check"} => pc \in {"ask", "llm", "batch", "check"}
        PROVE  LoadedInv'
    BY <1>2 DEF LoadedInv
  <1>3. CASE LoadSource
    <2>1. UNCHANGED <<step, pc>> /\ pc = "load"
      BY <1>3 DEF LoadSource
    <2>2. \/ loaded' = loaded \cup Wanted /\ offered' = offered \cup Wanted
          \/ UNCHANGED <<loaded, offered>>
      BY <1>3 DEF LoadSource
    <2>3. loaded' \subseteq offered'
      BY <2>2 DEF LoadedInv
    <2>4. QED
      BY <2>1, <2>3 DEF LoadedInv
  <1>4. CASE FinishLoading
    <2>1. UNCHANGED <<step, loaded>> /\ pc = "load" /\ offered \subseteq offered'
      BY <1>4 DEF FinishLoading
    <2>2. pc' = "done" \/ ~ Missing
      BY <1>4 DEF FinishLoading, Fail
    <2>3. ~ Missing /\ step.sources # <<>> => step.allow \subseteq loaded
      BY <1>1 DEF Missing
    <2>4. QED
      BY <2>1, <2>2, <2>3 DEF LoadedInv
  <1> USE DEF Fail, loading
  <1>5. CASE Ask \/ LlmFails \/ TooExpensive \/ TextExit
    BY <1>2, <1>5 DEF Ask, LlmFails, TooExpensive, TextExit
  <1>6. ASSUME NEW names \in Batches, Call(names) PROVE LoadedInv'
    BY <1>2, <1>6 DEF Call
  <1>7. CASE DeferSubmit \/ RunTool \/ ToolFails
    BY <1>2, <1>7 DEF DeferSubmit, RejectSubmit, RunTool, Record, ToolFails
  <1>8. CASE SoftRetry \/ LoopEnds \/ Finalize
    BY <1>2, <1>8 DEF SoftRetry, LoopEnds, Finalize
  <1>9. CASE Complete
    BY <1>2, <1>9 DEF Complete
  <1>10. CASE RunCommit
    BY <1>2, <1>10 DEF RunCommit
  <1>11. CASE UNCHANGED vars
    BY <1>2, <1>11 DEF vars
  <1>12. QED
    BY <1>3, <1>4, <1>5, <1>6, <1>7, <1>8, <1>9, <1>10, <1>11 DEF Next

\* The model is asked only with all the tools the step allows, whichever sources
\* are down; a tool that cannot be converted is outside of this theorem.
THEOREM AllToolsAreOffered ==
    ASSUME "midway" \notin SourceFaults
    PROVE  Spec => []ToolsComplete
  <1>1. Init => LoadedInv
    BY DEF Init, LoadedInv
  <1>2. LoadedInv => ToolsComplete
    BY DEF LoadedInv, ToolsComplete
  <1>3. QED
    BY <1>1, <1>2, LoadedStep, Phases, PTL DEF Spec

-----------------------------------------------------------------------------
\* The transcript of a step whose memory is not compressed.

Messages == [role : Roles, turn : Nat, of : SUBSET (Nat \X Nat)]

Indices(ms, role) == {i \in 1 .. Len(ms) : ms[i].role = role}

\* One more message is one more of its role.
LEMMA Said ==
    ASSUME NEW ms \in Seq(Messages), NEW m \in Messages, NEW role
    PROVE  /\ Append(ms, m) \in Seq(Messages)
           /\ Cardinality(Indices(Append(ms, m), role))
                = Cardinality(Indices(ms, role)) + (IF m.role = role THEN 1 ELSE 0)
           /\ Cardinality(Indices(ms, role)) \in Nat
  <1>1. PICK more : more = Append(ms, m)
    OBVIOUS
  <1>2. /\ more \in Seq(Messages) /\ Len(more) = Len(ms) + 1 /\ Len(ms) \in Nat
        /\ \A i \in 1 .. Len(ms) : more[i] = ms[i]
        /\ more[Len(ms) + 1] = m
    BY <1>1, AppendProperties, LenProperties
  <1>3. Indices(more, role)
          = Indices(ms, role) \cup (IF m.role = role THEN {Len(ms) + 1} ELSE {})
    BY <1>2 DEF Indices
  <1>4. Len(ms) + 1 \notin Indices(ms, role)
    BY <1>2 DEF Indices
  <1>5. IsFiniteSet(Indices(ms, role))
    <2>1. IsFiniteSet(1 .. Len(ms))
      BY <1>2, FS_Interval
    <2>2. QED
      BY <2>1, FS_Subset DEF Indices
  <1>6. Cardinality(Indices(more, role))
          = Cardinality(Indices(ms, role)) + (IF m.role = role THEN 1 ELSE 0)
    <2>1. CASE m.role = role
      <3>1. Indices(more, role) = Indices(ms, role) \cup {Len(ms) + 1}
        BY <1>3, <2>1
      <3>2. QED
        BY <1>4, <1>5, <2>1, <3>1, FS_AddElement
    <2>2. CASE m.role # role
      <3>1. Indices(more, role) = Indices(ms, role)
        BY <1>3, <2>2
      <3>2. Cardinality(Indices(ms, role)) \in Nat
        BY <1>5, FS_CardinalityType
      <3>3. QED
        BY <2>2, <3>1, <3>2
    <2>3. QED
      BY <2>1, <2>2
  <1>7. Cardinality(Indices(ms, role)) \in Nat
    BY <1>5, FS_CardinalityType
  <1>8. QED
    BY <1>1, <1>2, <1>6, <1>7

\* The same for a list of two.
LEMMA SaidTwice ==
    ASSUME NEW ms \in Seq(Messages), NEW m \in Messages, NEW n \in Messages
    PROVE  ms \o <<m, n>> = Append(Append(ms, m), n)
  <1>1. <<m, n>> \in Seq(Messages) /\ Len(<<m, n>>) = 2
    OBVIOUS
  <1>2. ms \o <<m, n>> = [i \in 1 .. Len(ms) + 2 |-> IF i <= Len(ms) THEN ms[i] ELSE <<m, n>>[i - Len(ms)]]
    BY <1>1
  <1>3. QED
    BY <1>1, <1>2

\* The turns a step may still ask for: those of this loop, and a turn with the
\* text recoveries for each soft-retry that is left.
Loops == [max : Nat, cap : Nat, used : Nat, recoveries : Nat]
Spent == asked + (IF pc = "llm" THEN 1 ELSE 0) + (loop.cap - loop.used) + loop.recoveries
Retries(a) == (step.attempts - a) * (step.recoveries + 1)
MostTurns == step.turns + step.attempts - 1 + step.attempts * step.recoveries

\* The transcript and the loop, the count of the answers, and the turns left.
TalkTyped == /\ msgs \in Seq(Messages) /\ attempt \in 1 .. step.attempts
             /\ loop \in Loops /\ loop.used <= loop.cap
Counted == Cardinality(Indices(msgs, "assistant")) = asked
TurnsLeft == Spent + Retries(attempt) <= MostTurns

TurnsInv ==
    ~ step.memory =>
       /\ TalkTyped
       /\ step.kind = "react" => TurnsLeft /\ (pc # "done" => Counted)
       /\ step.kind = "simple" => asked <= attempt /\ (pc = "simple" => asked < attempt)
       /\ step.kind = "commit" => asked = 0

\* What the soft-retries that are left may cost.
LEMMA RetryCosts ==
    ASSUME step.turns \in Nat, step.attempts \in Nat, step.recoveries \in Nat,
           NEW a \in 1 .. step.attempts
    PROVE  /\ Retries(a) \in Nat
           /\ a < step.attempts => Retries(a) = Retries(a + 1) + step.recoveries + 1
           /\ step.turns + step.recoveries + Retries(a) <= MostTurns
           /\ step.turns + step.recoveries + Retries(1) = MostTurns
           /\ MostTurns >= step.turns + step.attempts - 1
  <1>1. PICK A \in Nat, R \in Nat, T \in Nat :
           A = step.attempts /\ R = step.recoveries /\ T = step.turns
    OBVIOUS
  <1>2. /\ (A - a) * (R + 1) \in Nat
        /\ (A - a) * (R + 1) = (A - (a + 1)) * (R + 1) + R + 1
    BY <1>1
  <1>3. (A - 1) * (R + 1) = A * R + A - R - 1
    BY <1>1
  <1>4. (A - a) * (R + 1) + (a - 1) * (R + 1) = (A - 1) * (R + 1)
    BY <1>1
  <1>5. (a - 1) * (R + 1) \in Nat /\ A * R \in Nat
    BY <1>1
  <1>6. QED
    BY <1>1, <1>2, <1>3, <1>4, <1>5 DEF Retries, MostTurns

\* What the limits of a step are.
LEMMA Limits ==
    PhaseInv => /\ step.turns \in Nat \ {0} /\ step.attempts \in Nat \ {0}
                /\ step.recoveries \in Nat
                /\ step.kind \in {"react", "simple", "commit"}
  BY StepAssumption DEF PhaseInv

\* A turn that is asked for: it was left in the loop, and is spent.
LEMMA AskTurns ==
    ASSUME PhaseInv, TalkTyped, Counted, TurnsLeft, ~ step.memory, Ask
    PROVE  TalkTyped' /\ Counted' /\ TurnsLeft'
  <1>1. UNCHANGED <<step, attempt, asked>> /\ pc = "ask" /\ asked \in Nat
    BY DEF Ask, history, PhaseInv
  <1>2. CASE UNCHANGED <<msgs, loop>> /\ pc' = "done"
    BY <1>1, <1>2 DEF TalkTyped, Counted, TurnsLeft, Spent, Retries, MostTurns
  <1>3. CASE loop.used < loop.cap /\ pc' = "llm" /\ loop' = [loop EXCEPT !.used = @ + 1]
             /\ msgs' = msgs
    <2>1. loop' \in Loops /\ loop'.used <= loop'.cap
      BY <1>3 DEF TalkTyped, Loops
    <2>2. loop'.used = loop.used + 1 /\ loop'.cap = loop.cap
          /\ loop'.recoveries = loop.recoveries
      BY <1>3 DEF TalkTyped, Loops
    <2>3. Spent' = Spent
      BY <1>1, <1>3, <2>2 DEF Spent, TalkTyped, Loops
    <2>4. QED
      BY <1>1, <1>3, <2>1, <2>3 DEF TalkTyped, Counted, TurnsLeft, Retries, MostTurns
  <1>4. QED
    BY <1>2, <1>3 DEF Ask, Fail, Folds, Rest

\* A response of the model is counted where its turn was.
LEMMA RespondTurns ==
    ASSUME PhaseInv, TalkTyped, TurnsLeft, UNCHANGED <<step, attempt>>,
           pc = "llm", pc' # "llm", asked' = asked + 1, loop' \in Loops,
           loop'.cap - loop'.used + loop'.recoveries <= loop.cap - loop.used + loop.recoveries
    PROVE  TurnsLeft'
  <1>1. asked \in Nat /\ asked' \in Nat
    BY DEF PhaseInv
  <1>2. /\ loop.cap \in Nat /\ loop.used \in Nat /\ loop.recoveries \in Nat
        /\ loop'.cap \in Nat /\ loop'.used \in Nat /\ loop'.recoveries \in Nat
    BY DEF TalkTyped, Loops
  <1>3. Retries(attempt) \in Int /\ MostTurns \in Int
    <2>1. attempt \in Nat
      BY Limits DEF TalkTyped
    <2>2. QED
      BY <2>1, Limits DEF Retries, MostTurns
  <1>4. Spent \in Int /\ Spent' \in Int /\ Spent' <= Spent
    BY <1>1, <1>2 DEF Spent
  <1>5. Retries(attempt)' = Retries(attempt) /\ MostTurns' = MostTurns
    BY DEF Retries, MostTurns
  <1>6. QED
    BY <1>3, <1>4, <1>5 DEF TurnsLeft

\* The transcript more has the message m more than ms.
OneMore(ms, more, m) ==
    /\ more \in Seq(Messages)
    /\ Cardinality(Indices(more, m.role)) = Cardinality(Indices(ms, m.role)) + 1
    /\ \A role : role # m.role =>
          Cardinality(Indices(more, role)) = Cardinality(Indices(ms, role))

\* A message adds one to those of its role, and nothing to others.
LEMMA SaidAs ==
    ASSUME NEW ms \in Seq(Messages), NEW m \in Messages
    PROVE  OneMore(ms, Append(ms, m), m)
  <1> DEFINE more == Append(ms, m)
  <1>1. more \in Seq(Messages)
    OBVIOUS
  <1>2. PICK r : r = m.role
    OBVIOUS
  <1>3. Cardinality(Indices(Append(ms, m), r))
          = Cardinality(Indices(ms, r)) + (IF m.role = r THEN 1 ELSE 0)
    BY Said
  <1>4. Cardinality(Indices(more, r)) = Cardinality(Indices(ms, r)) + 1
    BY <1>2, <1>3
  <1>5. ASSUME NEW role, role # m.role
        PROVE  Cardinality(Indices(more, role)) = Cardinality(Indices(ms, role))
    <2>1. /\ Cardinality(Indices(Append(ms, m), role))
               = Cardinality(Indices(ms, role)) + (IF m.role = role THEN 1 ELSE 0)
          /\ Cardinality(Indices(ms, role)) \in Nat
      BY Said
    <2>2. QED
      BY <1>5, <2>1
  <1> HIDE DEF more
  <1>6. OneMore(ms, more, m)
    BY <1>1, <1>2, <1>4, <1>5 DEF OneMore
  <1>7. QED
    BY <1>6 DEF more

\* Two transcripts between which one assistant message was added.
OneAnswerMore(ms, more) ==
    /\ more \in Seq(Messages)
    /\ Cardinality(Indices(more, "assistant")) = Cardinality(Indices(ms, "assistant")) + 1

\* The messages of a response are one assistant message, and a nudge if need be.
LEMMA RespondSays ==
    ASSUME NEW ms \in Seq(Messages), NEW turn \in Nat, NEW of \in SUBSET (Nat \X Nat)
    PROVE  /\ OneAnswerMore(ms, Append(ms, Message("assistant", turn, of)))
           /\ OneAnswerMore(ms, ms \o <<Message("assistant", turn, of),
                                        Message("human", turn, {})>>)
  <1>1. PICK m : m = Message("assistant", turn, of)
    OBVIOUS
  <1>2. PICK n : n = Message("human", turn, {})
    OBVIOUS
  <1>3. m \in Messages /\ m.role = "assistant" /\ m.of = of
    BY <1>1 DEF Message, Messages, Roles
  <1>4. n \in Messages /\ n.role = "human"
    BY <1>2 DEF Message, Messages, Roles
  <1>5. PICK first : first = Append(ms, m)
    OBVIOUS
  <1>6. PICK more : more = Append(first, n)
    OBVIOUS
  <1>7. OneMore(ms, first, m)
    BY <1>3, <1>5, SaidAs
  <1>8. OneAnswerMore(ms, first)
    BY <1>3, <1>7 DEF OneMore, OneAnswerMore
  <1>9. OneMore(first, more, n)
    BY <1>4, <1>6, <1>7, SaidAs DEF OneMore
  <1>10. OneAnswerMore(ms, more)
    BY <1>4, <1>8, <1>9 DEF OneMore, OneAnswerMore
  <1>11. more = ms \o <<m, n>>
    BY <1>3, <1>4, <1>5, <1>6, SaidTwice
  <1>12. QED
    BY <1>1, <1>2, <1>5, <1>8, <1>10, <1>11

\* Two transcripts between which the answer to a call was added.
OneResultMore(ms, more) ==
    /\ more \in Seq(Messages)
    /\ Cardinality(Indices(more, "assistant")) = Cardinality(Indices(ms, "assistant"))

\* A tool message is no response.
LEMMA ResultSays ==
    ASSUME NEW ms \in Seq(Messages), NEW turn \in Nat, NEW id \in Nat \X Nat
    PROVE  OneResultMore(ms, Append(ms, Message("tool", turn, {id})))
  <1>1. PICK m : m = Message("tool", turn, {id})
    OBVIOUS
  <1>2. m \in Messages /\ m.role = "tool" /\ m.of = {id}
    BY <1>1 DEF Message, Messages, Roles
  <1>3. PICK more : more = Append(ms, m)
    OBVIOUS
  <1>4. OneMore(ms, more, m)
    BY <1>2, <1>3, SaidAs
  <1>5. OneResultMore(ms, more)
    BY <1>2, <1>4 DEF OneMore, OneResultMore
  <1>6. QED
    BY <1>1, <1>3, <1>5

\* What is the same for every step that neither asks nor answers.
LEMMA QuietTurns ==
    ASSUME PhaseInv, TalkTyped, TurnsLeft, UNCHANGED <<step, attempt, loop, asked>>,
           pc' = "llm" => pc = "llm"
    PROVE  TurnsLeft'
  <1>1. asked \in Nat
    BY DEF PhaseInv
  <1>2. loop.cap \in Nat /\ loop.used \in Nat /\ loop.recoveries \in Nat
    BY DEF TalkTyped, Loops
  <1>3. Retries(attempt) \in Int /\ MostTurns \in Int
    <2>1. attempt \in Nat
      BY Limits DEF TalkTyped
    <2>2. QED
      BY <2>1, Limits DEF Retries, MostTurns
  <1>4. Spent \in Int /\ Spent' \in Int /\ Spent' <= Spent
    BY <1>1, <1>2 DEF Spent
  <1>5. Retries(attempt)' = Retries(attempt) /\ MostTurns' = MostTurns
    BY DEF Retries, MostTurns
  <1>6. QED
    BY <1>3, <1>4, <1>5 DEF TurnsLeft

\* A soft-retry gets the turns that were not used, and one at least.
LEMMA RetryTurns ==
    ASSUME PhaseInv, TalkTyped, Counted, TurnsLeft, SoftRetry
    PROVE  TalkTyped' /\ Counted' /\ TurnsLeft'
  <1>1. /\ UNCHANGED <<step, asked>> /\ pc' = "ask" /\ pc = "check"
        /\ attempt < step.attempts /\ attempt' = attempt + 1
        /\ loop' = NewLoop(RemainingTurns)
        /\ msgs' = Append(msgs, Message("tool", asked, {<<asked, 1>>}))
    BY DEF SoftRetry, history
  <1>2. /\ asked \in Nat /\ step.turns \in Nat /\ step.attempts \in Nat
        /\ step.recoveries \in Nat /\ attempt \in 1 .. step.attempts
    BY Limits DEF PhaseInv, TalkTyped
  <1>3. RemainingTurns = IF step.turns - asked < 1 THEN 1 ELSE step.turns - asked
    BY DEF RemainingTurns, AssistantTurns, AtLeast, Counted, Indices
  <1>4. PICK left \in Nat : left = RemainingTurns
    BY <1>2, <1>3
  <1>5. (left >= 1 /\ asked + left <= step.turns) \/ left = 1
    BY <1>2, <1>3, <1>4
  <1>6. /\ loop' \in Loops /\ loop'.cap = left /\ loop'.used = 0
        /\ loop'.recoveries = step.recoveries
    BY <1>1, <1>2, <1>4 DEF NewLoop, Loops
  <1>7. msgs' \in Seq(Messages) /\ Counted'
    <2>1. <<asked, 1>> \in Nat \X Nat
      BY <1>2
    <2>2. OneResultMore(msgs, msgs')
      BY <1>1, <1>2, <2>1, ResultSays DEF TalkTyped
    <2>3. QED
      BY <1>1, <2>2 DEF OneResultMore, Counted
  <1>8. TurnsLeft'
    <2>1. PICK now, later \in Int : now = Retries(attempt) /\ later = Retries(attempt + 1)
      <3>1. Retries(attempt) \in Int /\ Retries(attempt + 1) \in Int
        BY <1>2 DEF Retries
      <3>2. QED
        BY <3>1
    <2>2. /\ now = later + step.recoveries + 1
          /\ step.turns + step.recoveries + now <= MostTurns
      BY <1>1, <1>2, <2>1, RetryCosts
    <2>3. asked + now <= MostTurns
      <3>1. loop.cap \in Nat /\ loop.used \in Nat /\ loop.recoveries \in Nat
            /\ loop.used <= loop.cap
        BY DEF TalkTyped, Loops
      <3>2. asked <= Spent /\ Spent \in Int
        BY <1>1, <1>2, <3>1 DEF Spent
      <3>3. Spent + now <= MostTurns
        BY <2>1 DEF TurnsLeft
      <3>4. MostTurns \in Int
        BY <1>2 DEF MostTurns
      <3>5. QED
        BY <1>2, <2>1, <3>2, <3>3, <3>4
    <2>4. Spent' = asked + left + step.recoveries
      BY <1>1, <1>2, <1>4, <1>6 DEF Spent
    <2>5. MostTurns \in Int /\ MostTurns' = MostTurns
      BY <1>1, <1>2 DEF MostTurns
    <2>6. Retries(attempt)' = later
      BY <1>1, <2>1 DEF Retries
    <2>7. asked + left + step.recoveries + later <= MostTurns
      BY <1>2, <1>5, <2>1, <2>2, <2>3, <2>5
    <2>8. QED
      BY <2>4, <2>5, <2>6, <2>7 DEF TurnsLeft
  <1>9. QED
    BY <1>1, <1>2, <1>6, <1>7, <1>8 DEF TalkTyped
\* The ids of a response are pairs of its turn and a place.
LEMMA IdsTyped ==
    ASSUME NEW names \in Batches, NEW turn \in Nat
    PROVE  Ids(turn, names) \in SUBSET (Nat \X Nat)
  <1>1. PICK n \in 1 .. MaxBatch : names \in [1 .. n -> Names]
    BY DEF Batches
  <1>2. Len(names) = n /\ n \in Nat
    BY <1>1, BoundAssumption
  <1>3. QED
    BY <1>2 DEF Ids

\* A nudge takes a recovery, and gives a turn if none is left.
LEMMA NudgedLoop ==
    ASSUME NEW l \in Loops, l.used <= l.cap, l.recoveries > 0, NEW nudged,
           nudged = [l EXCEPT !.recoveries = @ - 1,
                              !.cap = IF l.used >= @ THEN l.used + 1 ELSE @]
    PROVE  /\ nudged \in Loops /\ nudged.used <= nudged.cap
           /\ nudged.cap - nudged.used + nudged.recoveries <= l.cap - l.used + l.recoveries
  <1>1. /\ l.cap \in Nat /\ l.used \in Nat /\ l.recoveries \in Nat
        /\ l.max \in Nat
        /\ l = [max |-> l.max, cap |-> l.cap, used |-> l.used, recoveries |-> l.recoveries]
    BY DEF Loops
  <1>2. PICK cap \in Nat : cap = IF l.used >= l.cap THEN l.used + 1 ELSE l.cap
    BY <1>1
  <1>3. l \in Loops /\ DOMAIN l = {"max", "cap", "used", "recoveries"}
    BY DEF Loops
  <1>4. /\ nudged.cap = cap /\ nudged.used = l.used /\ nudged.recoveries = l.recoveries - 1
        /\ nudged.max = l.max
    BY <1>2, <1>3
  <1>5. nudged \in Loops
    <2>1. nudged = [l EXCEPT !.recoveries = nudged.recoveries, !.cap = nudged.cap]
      BY <1>2, <1>3, <1>4
    <2>2. nudged.recoveries \in Nat /\ nudged.cap \in Nat
      BY <1>1, <1>2, <1>4
    <2>3. QED
      BY <1>3, <2>1, <2>2 DEF Loops
  <1>6. QED
    BY <1>1, <1>2, <1>4, <1>5

\* Every step keeps to the turns of the budget.
LEMMA TurnsStep == PhaseInv /\ GovernedInv /\ TurnsInv /\ [Next]_vars => TurnsInv'
  <1> SUFFICES ASSUME PhaseInv, GovernedInv, TurnsInv, [Next]_vars PROVE TurnsInv'
    OBVIOUS
  <1>1. UNCHANGED step
    BY DEF Next, LoadSource, FinishLoading, Ask, LlmFails, TooExpensive, TextExit, Call,
           DeferSubmit, RunTool, ToolFails, SoftRetry, LoopEnds, Finalize, Complete, RunCommit,
           vars
  <1> SUFFICES ASSUME ~ step.memory PROVE TurnsInv'
    BY <1>1 DEF TurnsInv
  <1>2. /\ TalkTyped
        /\ step.kind = "react" => TurnsLeft /\ (pc # "done" => Counted)
        /\ step.kind = "simple" => asked <= attempt /\ (pc = "simple" => asked < attempt)
        /\ step.kind = "commit" => asked = 0
    BY DEF TurnsInv
  <1>3. asked \in Nat
    BY DEF PhaseInv
  <1>4. ASSUME UNCHANGED <<attempt, loop, asked>>, pc' = "llm" => pc = "llm",
               pc' = "simple" => pc = "simple", pc = "done" => pc' = "done",
               \/ UNCHANGED msgs
               \/ \E id \in Nat \X Nat : msgs' = Append(msgs, Message("tool", asked, {id}))
        PROVE  TurnsInv'
    <2>1. msgs' \in Seq(Messages) /\ (Counted => Counted')
      <3>1. CASE UNCHANGED msgs
        BY <1>2, <1>4, <3>1 DEF TalkTyped, Counted
      <3>2. ASSUME NEW id \in Nat \X Nat, msgs' = Append(msgs, Message("tool", asked, {id}))
            PROVE  msgs' \in Seq(Messages) /\ (Counted => Counted')
        <4>1. OneResultMore(msgs, msgs')
          BY <1>2, <1>3, <3>2, ResultSays DEF TalkTyped
        <4>2. QED
          BY <1>4, <4>1 DEF OneResultMore, Counted
      <3>3. QED
        BY <1>4, <3>1, <3>2
    <2>2. TalkTyped'
      BY <1>1, <1>2, <1>4, <2>1 DEF TalkTyped
    <2>3. TurnsLeft => TurnsLeft'
      BY <1>1, <1>2, <1>4, QuietTurns
    <2>4. QED
      BY <1>1, <1>2, <1>4, <2>1, <2>2, <2>3 DEF TurnsInv
  <1>5. ASSUME step.kind = "react", TalkTyped', Counted', TurnsLeft' PROVE TurnsInv'
    BY <1>1, <1>5 DEF TurnsInv
  <1>6. ASSUME pc = "batch" PROVE Head(batch).id \in Nat \X Nat
    <2>1. PICK tools : tools = offered \cup {Submit, Nameless}
      OBVIOUS
    <2>2. batch \in Seq(Calls(asked, tools)) /\ batch # <<>>
      BY <1>6, <2>1 DEF GovernedInv
    <2>3. Head(batch) \in Calls(asked, tools)
      BY <2>2, RestOfBatch
    <2>4. QED
      BY <1>3, <2>3 DEF Calls
  <1> USE DEF Fail, talking, history
  <1>7. CASE LoadSource \/ FinishLoading \/ LlmFails \/ ToolFails \/ LoopEnds \/ Finalize \/ RunCommit
    BY <1>4, <1>7 DEF LoadSource, FinishLoading, LlmFails, ToolFails, LoopEnds, Finalize, RunCommit
  <1>8. CASE Ask
    <2>1. step.kind = "react" /\ Counted
      BY <1>2, <1>8 DEF Ask, PhaseInv
    <2>2. QED
      BY <1>2, <1>5, <1>8, <2>1, AskTurns
  <1>9. CASE TooExpensive
    <2>1. /\ pc = "llm" /\ pc' = "done" /\ asked' = asked + 1
          /\ UNCHANGED <<msgs, loop, attempt>>
      BY <1>9 DEF TooExpensive, Responded
    <2>2. step.kind = "react"
      BY <2>1 DEF PhaseInv
    <2>3. loop' \in Loops /\ loop'.cap - loop'.used + loop'.recoveries
                              <= loop.cap - loop.used + loop.recoveries
      <3>1. loop \in Loops
        BY <1>2 DEF TalkTyped
      <3>2. loop.cap - loop.used + loop.recoveries \in Int
        BY <3>1 DEF Loops
      <3>3. QED
        BY <2>1, <3>1, <3>2
    <2>4. TurnsLeft'
      BY <1>1, <1>2, <2>1, <2>2, <2>3, RespondTurns
    <2>5. TalkTyped'
      BY <1>1, <1>2, <2>1 DEF TalkTyped
    <2>6. QED
      BY <1>1, <2>1, <2>2, <2>4, <2>5 DEF TurnsInv
  <1>10. CASE TextExit
    <2>1. /\ pc = "llm" /\ pc' \in {"ask", "done"} /\ asked' = asked + 1
          /\ UNCHANGED attempt
          /\ \/ /\ pc' = "done" /\ UNCHANGED <<msgs, loop>>
             \/ /\ pc' = "ask" /\ loop.recoveries > 0
                /\ msgs' = msgs \o <<Message("assistant", asked', {}), Message("human", asked', {})>>
                /\ loop' = [loop EXCEPT !.recoveries = @ - 1,
                                        !.cap = IF loop.used >= @ THEN loop.used + 1 ELSE @]
      BY <1>10 DEF TextExit, Responded
    <2>2. step.kind = "react" /\ Counted
      BY <1>2, <2>1 DEF PhaseInv
    <2>3. loop \in Loops /\ loop.used <= loop.cap
      BY <1>2 DEF TalkTyped
    <2>4. /\ loop' \in Loops /\ loop'.used <= loop'.cap
          /\ loop'.cap - loop'.used + loop'.recoveries <= loop.cap - loop.used + loop.recoveries
      <3>1. CASE UNCHANGED loop
        BY <2>3, <3>1 DEF Loops
      <3>2. CASE /\ loop.recoveries > 0
                 /\ loop' = [loop EXCEPT !.recoveries = @ - 1,
                                         !.cap = IF loop.used >= @ THEN loop.used + 1 ELSE @]
        BY <2>3, <3>2, NudgedLoop
      <3>3. QED
        BY <2>1, <3>1, <3>2
    <2>5. TurnsLeft'
      BY <1>1, <1>2, <2>1, <2>2, <2>4, RespondTurns
    <2>6. msgs' \in Seq(Messages) /\ (pc' # "done" => Counted')
      <3>1. CASE pc' = "done" /\ UNCHANGED msgs
        BY <1>2, <3>1 DEF TalkTyped
      <3>2. CASE msgs' = msgs \o <<Message("assistant", asked', {}), Message("human", asked', {})>>
        <4>1. PICK turn \in Nat : turn = asked'
          BY <1>3, <2>1
        <4>2. msgs \in Seq(Messages) /\ {} \in SUBSET (Nat \X Nat)
          BY <1>2 DEF TalkTyped
        <4>3. msgs' = msgs \o <<Message("assistant", turn, {}), Message("human", turn, {})>>
          BY <3>2, <4>1
        <4>4. OneAnswerMore(msgs, msgs')
          BY <4>2, <4>3, RespondSays
        <4>5. QED
          BY <2>1, <2>2, <4>4 DEF OneAnswerMore, Counted
      <3>3. QED
        BY <2>1, <3>1, <3>2
    <2>7. TalkTyped'
      BY <1>1, <1>2, <2>1, <2>4, <2>6 DEF TalkTyped
    <2>8. QED
      BY <1>1, <2>2, <2>5, <2>6, <2>7 DEF TurnsInv
  <1>11. ASSUME NEW names \in Batches, Call(names) PROVE TurnsInv'
    <2>1. /\ pc = "llm" /\ pc' # "llm" /\ asked' = asked + 1
          /\ UNCHANGED <<attempt, loop>>
          /\ msgs' = Append(msgs, Message("assistant", asked', Ids(asked', names)))
      BY <1>11 DEF Call, Responded
    <2>2. step.kind = "react" /\ Counted
      BY <1>2, <2>1 DEF PhaseInv
    <2>3. loop' \in Loops /\ loop'.cap - loop'.used + loop'.recoveries
                              <= loop.cap - loop.used + loop.recoveries
      <3>1. loop \in Loops
        BY <1>2 DEF TalkTyped
      <3>2. loop.cap - loop.used + loop.recoveries \in Int
        BY <3>1 DEF Loops
      <3>3. QED
        BY <2>1, <3>1, <3>2
    <2>4. TurnsLeft'
      BY <1>1, <1>2, <2>1, <2>2, <2>3, RespondTurns
    <2>5. OneAnswerMore(msgs, msgs')
      <3>1. PICK turn \in Nat : turn = asked'
        BY <1>3, <2>1
      <3>2. PICK of \in SUBSET (Nat \X Nat) : of = Ids(turn, names)
        BY IdsTyped
      <3>3. msgs' = Append(msgs, Message("assistant", turn, of)) /\ msgs \in Seq(Messages)
        BY <1>2, <2>1, <3>1, <3>2 DEF TalkTyped
      <3>4. OneAnswerMore(msgs, msgs')
        BY <3>3, RespondSays
      <3>5. QED
        BY <3>1, <3>2, <3>4
    <2>6. TalkTyped' /\ Counted'
      BY <1>1, <1>2, <2>1, <2>2, <2>5 DEF OneAnswerMore, TalkTyped, Counted
    <2>7. QED
      BY <1>1, <2>2, <2>4, <2>6 DEF TurnsInv
  <1>12. CASE DeferSubmit
    BY <1>4, <1>6, <1>12 DEF DeferSubmit, RejectSubmit, Record
  <1>13. CASE RunTool
    BY <1>4, <1>6, <1>13 DEF RunTool, Record
  <1>14. CASE SoftRetry
    <2>1. step.kind = "react" /\ Counted
      BY <1>2, <1>14 DEF SoftRetry, PhaseInv
    <2>2. QED
      BY <1>2, <1>5, <1>14, <2>1, RetryTurns
  <1>15. CASE Complete
    <2>1. /\ step.kind = "simple" /\ asked' = asked + 1 /\ UNCHANGED <<msgs, loop>>
          /\ asked < attempt
          /\ \/ attempt < step.attempts /\ attempt' = attempt + 1
             \/ pc' # "simple" /\ UNCHANGED attempt
      BY <1>2, <1>15 DEF Complete, Responded, PhaseInv
    <2>2. attempt \in 1 .. step.attempts /\ step.attempts \in Nat
      BY <1>2, Limits DEF TalkTyped
    <2>3. TalkTyped'
      BY <1>1, <1>2, <2>1, <2>2 DEF TalkTyped
    <2>4. asked' <= attempt' /\ (pc' = "simple" => asked' < attempt')
      BY <1>3, <2>1, <2>2
    <2>5. QED
      BY <1>1, <2>1, <2>3, <2>4 DEF TurnsInv
  <1>16. CASE UNCHANGED vars
    BY <1>4, <1>16 DEF vars
  <1>17. QED
    BY <1>7, <1>8, <1>9, <1>10, <1>11, <1>12, <1>13, <1>14, <1>15, <1>16 DEF Next

\* The two messages a step starts with.
LEMMA OpeningTyped ==
    /\ Opening \in Seq(Messages)
    /\ Indices(Opening, "assistant") = {}
  <1>1. /\ Message("system", 0, {}) \in Messages
        /\ Message("human", 0, {}) \in Messages
    BY DEF Message, Messages, Roles
  <1>2. Opening \in Seq(Messages)
    BY <1>1 DEF Opening
  <1>3. /\ Len(Opening) = 2 /\ Opening[1].role = "system" /\ Opening[2].role = "human"
    BY DEF Opening, Message
  <1>4. \A i \in 1 .. Len(Opening) : i = 1 \/ i = 2
    BY <1>3
  <1>5. QED
    BY <1>2, <1>3, <1>4 DEF Indices

\* The turns of every state.
LEMMA AlwaysTurns == Spec => []TurnsInv
  <1>1. Init => TurnsInv
    <2> SUFFICES ASSUME Init PROVE TurnsInv
      OBVIOUS
    <2>1. PhaseInv
      BY PhaseInit
    <2>2. /\ step.turns \in Nat \ {0} /\ step.attempts \in Nat \ {0} /\ step.recoveries \in Nat
          /\ step.kind \in {"react", "simple", "commit"}
      BY <2>1, Limits
    <2>3. loop \in Loops /\ loop.used = 0 /\ loop.cap = step.turns
          /\ loop.recoveries = step.recoveries
      BY <2>2 DEF Init, NewLoop, Loops
    <2>4. asked = 0 /\ attempt = 1 /\ pc # "llm" /\ msgs = Opening
      BY DEF Init
    <2>5. TalkTyped
      BY <2>2, <2>3, <2>4, OpeningTyped DEF TalkTyped
    <2>6. Counted
      BY <2>4, OpeningTyped, FS_EmptySet DEF Counted
    <2>7. TurnsLeft
      <3>1. Spent = step.turns + step.recoveries
        BY <2>2, <2>3, <2>4 DEF Spent
      <3>2. step.turns + step.recoveries + Retries(1) <= MostTurns
        BY <2>2, RetryCosts
      <3>3. QED
        BY <2>4, <3>1, <3>2 DEF TurnsLeft
    <2>8. QED
      BY <2>4, <2>5, <2>6, <2>7 DEF TurnsInv
  <1>2. QED
    BY <1>1, TurnsStep, AlwaysGoverned, Phases, PTL DEF Spec

\* The turn budget over all soft-retries: with compression off each retry costs
\* at most one turn beyond it, and each text recovery one.
THEOREM TurnsAreBounded == Spec => []TurnsBounded
  <1>1. PhaseInv /\ TurnsInv => TurnsBounded
    <2> SUFFICES ASSUME PhaseInv, TurnsInv, ~ step.memory PROVE asked <= MostTurns
      BY DEF TurnsBounded, MostTurns
    <2>1. /\ step.turns \in Nat \ {0} /\ step.attempts \in Nat \ {0} /\ step.recoveries \in Nat
          /\ step.kind \in {"react", "simple", "commit"} /\ asked \in Nat
          /\ attempt \in 1 .. step.attempts
      BY Limits DEF PhaseInv, TurnsInv, TalkTyped
    <2>2. MostTurns \in Int /\ MostTurns >= step.turns + step.attempts - 1
          /\ Retries(attempt) \in Nat
      BY <2>1, RetryCosts DEF MostTurns
    <2>3. CASE step.kind = "react"
      <3>1. loop.cap \in Nat /\ loop.used \in Nat /\ loop.recoveries \in Nat
            /\ loop.used <= loop.cap
        BY DEF TurnsInv, TalkTyped, Loops
      <3>2. asked <= Spent /\ Spent \in Int
        BY <2>1, <3>1 DEF Spent
      <3>3. Spent + Retries(attempt) <= MostTurns
        BY <2>3 DEF TurnsInv, TurnsLeft
      <3>4. QED
        BY <2>1, <2>2, <3>2, <3>3
    <2>4. CASE step.kind = "simple"
      BY <2>1, <2>2, <2>4 DEF TurnsInv
    <2>5. CASE step.kind = "commit"
      BY <2>1, <2>2, <2>5 DEF TurnsInv
    <2>6. QED
      BY <2>1, <2>3, <2>4, <2>5
  <1>2. QED
    BY <1>1, AlwaysTurns, Phases, PTL

-----------------------------------------------------------------------------
\* The answers of a response.

\* The ids of the calls of a batch.
IdsOf(calls) == {calls[i].id : i \in 1 .. Len(calls)}

\* No two calls of a batch have the same id.
Distinct(calls) == \A i, j \in 1 .. Len(calls) : calls[i].id = calls[j].id => i = j

\* The calls that are left when the first one was run.
LEMMA RestOfIds ==
    ASSUME NEW S, NEW calls \in Seq(S), calls # <<>>, Distinct(calls)
    PROVE  /\ IdsOf(Tail(calls)) = IdsOf(calls) \ {Head(calls).id}
           /\ Distinct(Tail(calls))
           /\ Len(calls) = 1 => IdsOf(calls) = {Head(calls).id}
  <1>1. /\ Len(calls) \in Nat /\ Len(calls) > 0 /\ Head(calls) = calls[1]
        /\ Len(Tail(calls)) = Len(calls) - 1
        /\ \A i \in 1 .. Len(Tail(calls)) : Tail(calls)[i] = calls[i + 1]
    BY EmptySeq, LenProperties, HeadTailProperties
  <1>2. PICK rest : rest = Tail(calls)
    OBVIOUS
  <1> DEFINE n == Len(calls)
  <1>3. IdsOf(rest) \subseteq IdsOf(calls) \ {calls[1].id}
    <2>1. ASSUME NEW i \in 1 .. Len(rest)
          PROVE  rest[i].id \in IdsOf(calls) /\ rest[i].id # calls[1].id
      <3>1. rest[i] = calls[i + 1] /\ i + 1 \in 1 .. n /\ i + 1 # 1 /\ 1 \in 1 .. n
        BY <1>1, <1>2, <2>1
      <3>2. QED
        BY <1>2, <3>1 DEF IdsOf, Distinct
    <2>2. QED
      BY <2>1 DEF IdsOf
  <1>4. IdsOf(calls) \ {calls[1].id} \subseteq IdsOf(rest)
    <2>1. ASSUME NEW i \in 1 .. n, calls[i].id # calls[1].id
          PROVE  calls[i].id \in IdsOf(rest)
      <3>1. i # 1
        BY <2>1
      <3>2. i - 1 \in 1 .. Len(rest) /\ rest[i - 1] = calls[(i - 1) + 1] /\ (i - 1) + 1 = i
        BY <1>1, <1>2, <3>1
      <3>3. QED
        BY <3>2 DEF IdsOf
    <2>2. QED
      BY <1>2, <2>1 DEF IdsOf
  <1>5. Distinct(rest)
    <2>1. ASSUME NEW i \in 1 .. Len(rest), NEW j \in 1 .. Len(rest), rest[i].id = rest[j].id
          PROVE  i = j
      <3>1. /\ rest[i] = calls[i + 1] /\ rest[j] = calls[j + 1]
            /\ i + 1 \in 1 .. n /\ j + 1 \in 1 .. n
        BY <1>1, <1>2
      <3>2. i + 1 = j + 1
        BY <1>2, <2>1, <3>1 DEF Distinct
      <3>3. QED
        BY <3>2
    <2>2. QED
      BY <2>1 DEF Distinct
  <1>6. n = 1 => IdsOf(calls) = {calls[1].id}
    BY <1>2 DEF IdsOf
  <1>7. QED
    BY <1>1, <1>2, <1>3, <1>4, <1>5, <1>6

\* The ids of a new batch: those of the response, each once.
LEMMA NewIds ==
    ASSUME NEW names \in Batches, NEW turn, NEW calls,
           calls = [i \in 1 .. Len(names) |-> [tool |-> names[i], id |-> <<turn, i>>]]
    PROVE  IdsOf(calls) = Ids(turn, names) /\ Distinct(calls)
  <1>1. PICK n \in 1 .. MaxBatch : names \in [1 .. n -> Names]
    BY DEF Batches
  <1>2. n \in Nat /\ Len(names) = n
    BY <1>1, BoundAssumption
  <1>3. calls = [i \in 1 .. n |-> [tool |-> names[i], id |-> <<turn, i>>]]
    BY <1>2
  <1>4. Len(calls) = n /\ \A i \in 1 .. n : calls[i].id = <<turn, i>>
    BY <1>2, <1>3
  <1>5. IdsOf(calls) = Ids(turn, names)
    BY <1>2, <1>4 DEF IdsOf, Ids
  <1>6. Distinct(calls)
    <2>1. ASSUME NEW i \in 1 .. n, NEW j \in 1 .. n, calls[i].id = calls[j].id PROVE i = j
      <3>1. <<turn, i>> = <<turn, j>>
        BY <1>4, <2>1
      <3>2. <<turn, i>>[2] = i /\ <<turn, j>>[2] = j
        OBVIOUS
      <3>3. QED
        BY <3>1, <3>2
    <2>2. QED
      BY <1>4, <2>1 DEF Distinct
  <1>7. QED
    BY <1>5, <1>6

\* A set of naturals that is not empty has a least member.
LEMMA LeastOf ==
    ASSUME NEW T \in SUBSET Nat, T # {}
    PROVE  \E x \in T : \A y \in T : x <= y
  <1> DEFINE D == {1 .. n : n \in T}
  <1>1. D \subseteq FiniteSubsetsOf(Nat) /\ D # {}
    <2>1. \A n \in T : 1 .. n \in SUBSET Nat /\ IsFiniteSet(1 .. n)
      BY FS_Interval
    <2> QED BY <2>1 DEF FiniteSubsetsOf
  <1>2. PICK x \in D : \A y \in D : <<y, x>> \notin StrictSubsetOrdering(Nat)
    <2>1. IsWellFoundedOn(StrictSubsetOrdering(Nat), FiniteSubsetsOf(Nat))
      BY FS_StrictSubsetOrderingWellFounded
    <2> HIDE DEF D
    <2> QED BY <1>1, <2>1, WFMin
  <1>3. PICK m \in T : x = 1 .. m
    OBVIOUS
  <1>4. ASSUME NEW k \in T PROVE m <= k
    <2> SUFFICES ASSUME k < m PROVE FALSE
      OBVIOUS
    <2>1. 1 .. k \subseteq 1 .. m /\ 1 .. k # 1 .. m
      <3>1. m \in 1 .. m /\ m \notin 1 .. k
        OBVIOUS
      <3> QED BY <3>1
    <2>2. <<1 .. k, 1 .. m>> \in StrictSubsetOrdering(Nat)
      BY <2>1 DEF StrictSubsetOrdering
    <2> QED BY <1>2, <1>3, <2>2
  <1> QED BY <1>4

\* A set with 0 that is closed under successor has every natural.
LEMMA Inductive ==
    ASSUME NEW T, 0 \in T, \A n \in Nat : n \in T => n + 1 \in T
    PROVE  \A n \in Nat : n \in T
  <1> SUFFICES ASSUME Nat \ T # {} PROVE FALSE
    OBVIOUS
  <1>1. PICK x \in Nat \ T : \A y \in Nat \ T : x <= y
    BY LeastOf
  <1>2. x # 0 /\ x - 1 \in Nat /\ x - 1 \in T
    BY <1>1
  <1> QED BY <1>1, <1>2

-----------------------------------------------------------------------------
\* The recursion of Partition.

\* The parts of the first k messages.
PlacedUpTo(f, ms, k) ==
    f = [i \in 0 .. k |-> IF i = 0 THEN NoParts ELSE Placed(f[i - 1], ms[i])]

\* There are parts for every number of messages.
LEMMA PlacedExist ==
    ASSUME NEW ms PROVE \A k \in Nat : \E f : PlacedUpTo(f, ms, k)
  <1> DEFINE T == {k \in Nat : \E f : PlacedUpTo(f, ms, k)}
  <1>1. 0 \in T
    <2>1. PlacedUpTo([i \in 0 .. 0 |-> NoParts], ms, 0)
      BY DEF PlacedUpTo
    <2> QED BY <2>1
  <1>2. ASSUME NEW k \in T PROVE k + 1 \in T
    <2>1. PICK f : PlacedUpTo(f, ms, k)
      OBVIOUS
    <2> DEFINE g == [i \in 0 .. k + 1 |-> IF i <= k THEN f[i] ELSE Placed(f[k], ms[k + 1])]
    <2>2. \A i \in 0 .. k + 1 : g[i] = IF i = 0 THEN NoParts ELSE Placed(g[i - 1], ms[i])
      BY <2>1 DEF PlacedUpTo
    <2>3. PlacedUpTo(g, ms, k + 1)
      BY <2>2 DEF PlacedUpTo
    <2> QED BY <2>3
  <1> QED
    <2> HIDE DEF T
    <2>1. \A k \in Nat : k \in T
      BY <1>1, <1>2, Inductive
    <2> QED BY <2>1 DEF T

\* The first k messages are the same.
Agree(ms, more, k) == \A i \in 1 .. k : ms[i] = more[i]

\* They depend on the messages placed so far only.
LEMMA PlacedUnique ==
    ASSUME NEW ms, NEW more, NEW k \in Nat, NEW m \in Nat, k <= m, Agree(ms, more, k),
           NEW f, NEW g, PlacedUpTo(f, ms, k), PlacedUpTo(g, more, m)
    PROVE  f[k] = g[k]
  <1> DEFINE T == {n \in Nat : n <= k => f[n] = g[n]}
  <1>1. 0 \in T
    BY DEF PlacedUpTo
  <1>2. ASSUME NEW n \in T, n + 1 <= k PROVE f[n + 1] = g[n + 1]
    <2>1. f[n + 1] = Placed(f[n], ms[n + 1]) /\ g[n + 1] = Placed(g[n], more[n + 1])
      BY <1>2 DEF PlacedUpTo
    <2>2. f[n] = g[n] /\ ms[n + 1] = more[n + 1]
      BY <1>2 DEF Agree
    <2> QED BY <2>1, <2>2
  <1>3. \A n \in Nat : n \in T
    <2>1. \A n \in T : n + 1 \in T
      BY <1>2
    <2> HIDE DEF T
    <2> QED BY <1>1, <2>1, Inductive
  <1> QED BY <1>3

\* Partition is what placing every message gives.
LEMMA PartitionIs ==
    ASSUME NEW S, NEW ms \in Seq(S)
    PROVE  \E f : PlacedUpTo(f, ms, Len(ms)) /\ Partition(ms) = f[Len(ms)]
  <1> DEFINE Rec(f) == f = [i \in 0 .. Len(ms) |->
                  IF i = 0 THEN NoParts
                  ELSE CHOOSE parts \in {Placed(before, ms[i]) : before \in {f[i - 1]}} : TRUE]
             f == CHOOSE f : Rec(f)
  <1>1. \A p, m : (CHOOSE parts \in {Placed(before, m) : before \in {p}} : TRUE) = Placed(p, m)
    OBVIOUS
  <1>2. \A g : Rec(g) <=> PlacedUpTo(g, ms, Len(ms))
    BY <1>1 DEF PlacedUpTo
  <1>3. Len(ms) \in Nat
    OBVIOUS
  <1>4. Rec(f)
    <2>1. \E g : Rec(g)
      <3> HIDE DEF Rec
      <3> QED BY <1>2, <1>3, PlacedExist
    <2> HIDE DEF Rec
    <2> QED BY <2>1
  <1>5. Partition(ms) = f[Len(ms)]
    BY DEF Partition
  <1> QED BY <1>2, <1>4, <1>5

\* partition_messages goes through the messages once.
LEMMA PartitionOfMore ==
    ASSUME NEW S, NEW ms \in Seq(S), NEW m \in S
    PROVE  Partition(Append(ms, m)) = Placed(Partition(ms), m)
  <1>1. PICK more : more = Append(ms, m)
    OBVIOUS
  <1>2. /\ more \in Seq(S) /\ Len(more) = Len(ms) + 1 /\ Len(ms) \in Nat
        /\ \A i \in 1 .. Len(ms) : more[i] = ms[i]
        /\ more[Len(ms) + 1] = m
    BY <1>1, AppendProperties, LenProperties
  <1>3. PICK f : PlacedUpTo(f, ms, Len(ms)) /\ Partition(ms) = f[Len(ms)]
    BY PartitionIs
  <1>4. PICK g : PlacedUpTo(g, more, Len(ms) + 1) /\ Partition(more) = g[Len(ms) + 1]
    BY <1>2, PartitionIs
  <1>5. f[Len(ms)] = g[Len(ms)]
    <2>1. PICK k \in Nat : k = Len(ms)
      BY <1>2
    <2>2. k + 1 \in Nat /\ k <= k + 1 /\ Agree(ms, more, k)
      BY <1>2, <2>1 DEF Agree
    <2>3. PlacedUpTo(f, ms, k) /\ PlacedUpTo(g, more, k + 1)
      BY <1>3, <1>4, <2>1
    <2>4. f[k] = g[k]
      BY ONLY <2>1, <2>2, <2>3, PlacedUnique
    <2> QED BY <2>1, <2>4
  <1>6. g[Len(ms) + 1] = Placed(g[Len(ms)], m)
    BY <1>2, <1>4 DEF PlacedUpTo
  <1> QED BY <1>1, <1>3, <1>4, <1>5, <1>6

\* An empty transcript has no parts.
LEMMA PartitionOfNone == Partition(<<>>) = NoParts
  <1>1. <<>> \in Seq({}) /\ Len(<<>>) = 0
    OBVIOUS
  <1>2. PICK f : PlacedUpTo(f, <<>>, 0) /\ Partition(<<>>) = f[0]
    BY <1>1, PartitionIs
  <1> QED BY <1>2 DEF PlacedUpTo

-----------------------------------------------------------------------------
\* The recursion of FlattenSeq.

\* The groups one after the other: a step, and the first k groups.
Joined(a, b) == a \o b

FlatUpTo(f, gs, k) ==
    f = [i \in 1 .. k |-> IF i = 1 THEN gs[i] ELSE Joined(f[i - 1], gs[i])]

\* There is such a list for every number of groups.
LEMMA FlatExist ==
    ASSUME NEW gs PROVE \A k \in Nat : \E f : FlatUpTo(f, gs, k)
  <1> DEFINE T == {k \in Nat : \E f : FlatUpTo(f, gs, k)}
  <1>1. 0 \in T
    <2>1. FlatUpTo([i \in 1 .. 0 |-> gs[i]], gs, 0)
      BY DEF FlatUpTo
    <2> QED BY <2>1
  <1>2. ASSUME NEW k \in T PROVE k + 1 \in T
    <2>1. PICK f : FlatUpTo(f, gs, k)
      OBVIOUS
    <2> DEFINE g == [i \in 1 .. k + 1 |-> IF i <= k THEN f[i]
                                          ELSE IF i = 1 THEN gs[i] ELSE Joined(f[k], gs[k + 1])]
    <2>2. \A i \in 1 .. k + 1 : g[i] = IF i = 1 THEN gs[i] ELSE Joined(g[i - 1], gs[i])
      BY <2>1 DEF FlatUpTo
    <2>3. FlatUpTo(g, gs, k + 1)
      BY <2>2 DEF FlatUpTo
    <2> QED BY <2>3
  <1> QED
    <2> HIDE DEF T
    <2>1. \A k \in Nat : k \in T
      BY <1>1, <1>2, Inductive
    <2> QED BY <2>1 DEF T

\* It depends on the groups joined so far only.
LEMMA FlatUnique ==
    ASSUME NEW gs, NEW more, NEW k \in Nat, NEW m \in Nat, k <= m, Agree(gs, more, k),
           NEW f, NEW g, FlatUpTo(f, gs, k), FlatUpTo(g, more, m), k # 0
    PROVE  f[k] = g[k]
  <1> DEFINE T == {n \in Nat : 1 <= n /\ n <= k => f[n] = g[n]}
  <1>1. 0 \in T
    OBVIOUS
  <1>2. ASSUME NEW n \in T, n + 1 <= k PROVE f[n + 1] = g[n + 1]
    <2>1. CASE n = 0
      <3>1. f[1] = gs[1] /\ g[1] = more[1] /\ gs[1] = more[1]
        BY <1>2, <2>1 DEF FlatUpTo, Agree
      <3> QED BY <2>1, <3>1
    <2>2. CASE n # 0
      <3>1. f[n + 1] = Joined(f[n], gs[n + 1]) /\ g[n + 1] = Joined(g[n], more[n + 1])
        BY <1>2, <2>2 DEF FlatUpTo
      <3>2. f[n] = g[n] /\ gs[n + 1] = more[n + 1]
        BY <1>2, <2>2 DEF Agree
      <3> QED BY <3>1, <3>2
    <2> QED BY <2>1, <2>2
  <1>3. \A n \in Nat : n \in T
    <2>1. \A n \in T : n + 1 \in T
      BY <1>2
    <2> HIDE DEF T
    <2> QED BY <1>1, <2>1, Inductive
  <1> QED BY <1>3

\* FlattenSeq is what joining every group gives.
LEMMA FlattenIs ==
    ASSUME NEW S, NEW gs \in Seq(S), gs # <<>>
    PROVE  \E f : FlatUpTo(f, gs, Len(gs)) /\ FlattenSeq(gs) = f[Len(gs)]
  <1> DEFINE Rec(f) == f = [i \in 1 .. Len(gs) |-> IF i = 1 THEN gs[i] ELSE f[i - 1] \o gs[i]]
             f == CHOOSE f : Rec(f)
  <1>1. \A g : Rec(g) <=> FlatUpTo(g, gs, Len(gs))
    BY DEF FlatUpTo, Joined
  <1>2. Len(gs) \in Nat /\ Len(gs) # 0
    OBVIOUS
  <1>3. Rec(f)
    <2>1. \E g : Rec(g)
      <3> HIDE DEF Rec
      <3> QED BY <1>1, <1>2, FlatExist
    <2> HIDE DEF Rec
    <2> QED BY <2>1
  <1>4. FlattenSeq(gs) = f[Len(gs)]
    BY <1>2 DEF FlattenSeq
  <1> QED BY <1>1, <1>3, <1>4

\* No group gives no message.
LEMMA FlattenNone == FlattenSeq(<<>>) = <<>>
  BY DEF FlattenSeq

\* One more group is appended.
LEMMA FlattenMore ==
    ASSUME NEW S, NEW gs \in Seq(Seq(S)), NEW g \in Seq(S)
    PROVE  FlattenSeq(Append(gs, g)) = FlattenSeq(gs) \o g
  <1>1. PICK more : more = Append(gs, g)
    OBVIOUS
  <1>2. /\ more \in Seq(Seq(S)) /\ Len(more) = Len(gs) + 1 /\ Len(gs) \in Nat /\ more # <<>>
        /\ \A i \in 1 .. Len(gs) : more[i] = gs[i]
        /\ more[Len(gs) + 1] = g
    BY <1>1, AppendProperties, LenProperties
  <1>3. PICK f : FlatUpTo(f, more, Len(gs) + 1) /\ FlattenSeq(more) = f[Len(gs) + 1]
    BY <1>2, FlattenIs
  <1>4. CASE gs = <<>>
    <2>1. Len(gs) = 0
      BY <1>4
    <2>2. FlattenSeq(more) = g
      BY <1>2, <1>3, <2>1 DEF FlatUpTo
    <2> QED BY <1>1, <1>4, <2>2, FlattenNone
  <1>5. CASE gs # <<>>
    <2>1. PICK h : FlatUpTo(h, gs, Len(gs)) /\ FlattenSeq(gs) = h[Len(gs)]
      BY <1>5, FlattenIs
    <2>2. PICK k \in Nat : k = Len(gs) /\ k # 0
      BY <1>2, <1>5, EmptySeq
    <2>3. k + 1 \in Nat /\ k <= k + 1 /\ Agree(gs, more, k)
      BY <1>2, <2>2 DEF Agree
    <2>4. FlatUpTo(h, gs, k) /\ FlatUpTo(f, more, k + 1)
      BY <1>3, <2>1, <2>2
    <2>5. h[k] = f[k]
      BY ONLY <2>2, <2>3, <2>4, FlatUnique
    <2>6. f[k + 1] = Joined(f[k], g)
      <3>1. f[k + 1] = Joined(f[k], more[k + 1])
        <4>1. FlatUpTo(f, more, k + 1)
          BY <2>4
        <4>2. k + 1 \in 1 .. k + 1 /\ k + 1 # 1 /\ (k + 1) - 1 = k
          BY <2>2
        <4> QED BY ONLY <4>1, <4>2 DEF FlatUpTo
      <3> QED BY <1>2, <2>2, <3>1
    <2> QED BY <1>1, <1>3, <2>1, <2>2, <2>5, <2>6 DEF Joined
  <1> QED BY <1>4, <1>5

-----------------------------------------------------------------------------
\* The messages of a transcript, in any order.

\* The members of a list.
Elements(s) == {s[i] : i \in 1 .. Len(s)}

\* The members when one is appended.
LEMMA ElementsMore ==
    ASSUME NEW S, NEW s \in Seq(S), NEW m \in S
    PROVE  Elements(Append(s, m)) = Elements(s) \cup {m}
  <1>1. PICK more : more = Append(s, m)
    OBVIOUS
  <1>2. /\ Len(more) = Len(s) + 1 /\ Len(s) \in Nat
        /\ \A i \in 1 .. Len(s) : more[i] = s[i]
        /\ more[Len(s) + 1] = m
    BY <1>1, AppendProperties, LenProperties
  <1>3. 1 .. Len(s) + 1 = (1 .. Len(s)) \cup {Len(s) + 1}
    BY <1>2
  <1>4. Elements(more) = {more[i] : i \in 1 .. Len(s)} \cup {m}
    BY <1>2, <1>3 DEF Elements
  <1>5. {more[i] : i \in 1 .. Len(s)} = Elements(s)
    BY <1>2 DEF Elements
  <1> QED BY <1>1, <1>4, <1>5

\* The members of two lists, one after the other.
LEMMA ElementsJoined ==
    ASSUME NEW S, NEW s \in Seq(S), NEW t \in Seq(S)
    PROVE  Elements(s \o t) = Elements(s) \cup Elements(t)
  <1>1. PICK all : all = s \o t
    OBVIOUS
  <1>2. PICK a \in Nat, b \in Nat : a = Len(s) /\ b = Len(t)
    BY LenProperties
  <1>3. /\ Len(all) = a + b
        /\ \A i \in 1 .. a : all[i] = s[i]
        /\ \A i \in 1 .. b : all[a + i] = t[i]
    BY <1>1, <1>2, ConcatProperties
  <1>4. ASSUME NEW i \in 1 .. a + b PROVE all[i] \in Elements(s) \cup Elements(t)
    <2>1. CASE i <= a
      BY <1>2, <1>3, <2>1 DEF Elements
    <2>2. CASE i > a
      <3>1. i - a \in 1 .. b /\ all[a + (i - a)] = t[i - a] /\ a + (i - a) = i
        BY <1>3, <2>2
      <3> QED BY <1>2, <3>1 DEF Elements
    <2> QED BY <2>1, <2>2
  <1>5. ASSUME NEW i \in 1 .. a PROVE s[i] \in Elements(all)
    BY <1>3 DEF Elements
  <1>6. ASSUME NEW i \in 1 .. b PROVE t[i] \in Elements(all)
    <2>1. a + i \in 1 .. a + b /\ all[a + i] = t[i]
      BY <1>3
    <2> QED BY <1>3, <2>1 DEF Elements
  <1>7. Elements(all) \subseteq Elements(s) \cup Elements(t)
    BY <1>3, <1>4 DEF Elements
  <1>8. Elements(s) \subseteq Elements(all)
    BY <1>2, <1>5 DEF Elements
  <1>9. Elements(t) \subseteq Elements(all)
    BY <1>2, <1>6 DEF Elements
  <1> QED BY <1>1, <1>7, <1>8, <1>9

\* A list that is not empty has a last member.
LEMMA LastMember ==
    ASSUME NEW S, NEW s \in Seq(S), s # <<>>
    PROVE  \E f \in Seq(S), l \in S : s = Append(f, l) /\ Len(s) = Len(f) + 1
  <1>1. Len(s) \in Nat /\ Len(s) # 0 /\ \A i \in 1 .. Len(s) : s[i] \in S
    BY EmptySeq, LenProperties, ElementOfSeq
  <1>2. PICK n \in Nat : n = Len(s) - 1
    BY <1>1
  <1>3. PICK f : f = [i \in 1 .. n |-> s[i]]
    OBVIOUS
  <1>4. f \in Seq(S) /\ Len(f) = n /\ \A i \in 1 .. n : f[i] = s[i]
    BY <1>1, <1>2, <1>3
  <1>5. s[n + 1] \in S
    BY <1>1, <1>2
  <1>6. PICK t : t = Append(f, s[n + 1])
    OBVIOUS
  <1>7. t \in Seq(S) /\ Len(t) = n + 1 /\ (\A i \in 1 .. n : t[i] = s[i]) /\ t[n + 1] = s[n + 1]
    BY <1>4, <1>5, <1>6, AppendProperties
  <1>8. t = s
    <2>1. Len(t) = Len(s) /\ \A i \in 1 .. Len(t) : t[i] = s[i]
      BY <1>2, <1>7
    <2> QED BY <1>7, <2>1, SeqEqual
  <1> QED BY <1>2, <1>4, <1>5, <1>6, <1>8

\* The messages of the groups are those of the flat list.
LEMMA FlattenElements ==
    ASSUME NEW S
    PROVE  \A gs \in Seq(Seq(S)) :
              /\ FlattenSeq(gs) \in Seq(S)
              /\ Elements(FlattenSeq(gs)) = UNION {Elements(g) : g \in Elements(gs)}
  <1> DEFINE Fine(gs) == /\ FlattenSeq(gs) \in Seq(S)
                         /\ Elements(FlattenSeq(gs)) = UNION {Elements(g) : g \in Elements(gs)}
             T == {n \in Nat : \A gs \in Seq(Seq(S)) : Len(gs) = n => Fine(gs)}
  <1>1. 0 \in T
    <2>1. Fine(<<>>)
      <3>1. Elements(<<>>) = {}
        BY DEF Elements
      <3>2. <<>> \in Seq(S)
        OBVIOUS
      <3> QED BY <3>1, <3>2, FlattenNone
    <2> HIDE DEF Fine
    <2> QED BY <2>1, EmptySeq
  <1>2. ASSUME NEW n \in Nat, n \in T PROVE n + 1 \in T
    <2> SUFFICES ASSUME NEW gs \in Seq(Seq(S)), Len(gs) = n + 1 PROVE Fine(gs)
      OBVIOUS
    <2>1. gs # <<>>
      OBVIOUS
    <2>2. PICK f \in Seq(Seq(S)), g \in Seq(S) : gs = Append(f, g) /\ Len(gs) = Len(f) + 1
      BY <2>1, LastMember
    <2>3. Len(f) = n
      BY <2>2, LenProperties
    <2>4. Fine(f)
      <3> HIDE DEF Fine
      <3> QED BY <1>2, <2>3
    <2>5. FlattenSeq(gs) = FlattenSeq(f) \o g
      BY <2>2, FlattenMore
    <2>6. PICK a \in Seq(S) : a = FlattenSeq(f)
      BY <2>4
    <2>7. a \o g \in Seq(S) /\ Elements(a \o g) = Elements(a) \cup Elements(g)
      BY ElementsJoined, ConcatProperties
    <2>8. Elements(gs) = Elements(f) \cup {g}
      BY <2>2, ElementsMore
    <2>9. UNION {Elements(h) : h \in Elements(gs)}
            = (UNION {Elements(h) : h \in Elements(f)}) \cup Elements(g)
      BY ONLY <2>8
    <2> QED BY <2>4, <2>5, <2>6, <2>7, <2>9
  <1> HIDE DEF Fine
  <1>3. \A n \in Nat : n \in T
    <2> HIDE DEF T
    <2> QED BY <1>1, <1>2, Inductive
  <1>4. \A gs \in Seq(Seq(S)) : Fine(gs)
    BY <1>3, LenProperties
  <1> QED BY <1>4 DEF Fine

-----------------------------------------------------------------------------
\* Anchors and groups as partition_messages makes them.

\* Messages of any turn, also those of a digest, and the roles within a turn.
Notes == [role : Roles, turn : Nat, of : SUBSET (Nat \cup (Nat \X Nat))]
Inside == {"human", "tool"}

\* What partition_messages returns.
Parts == [anchors : Seq(Notes), groups : Seq(Seq(Notes))]

\* A group is opened by a response, and only by one.
IsGroup(g) ==
    g # <<>> /\ g[1].role = "assistant" /\ \A i \in 2 .. Len(g) : g[i].role \in Inside

\* Parts with the messages where partition_messages puts them.
GoodParts(q) ==
    /\ q \in Parts
    /\ \A m \in Elements(q.anchors) : m.role # "assistant"
    /\ \A g \in Elements(q.groups) : IsGroup(g)

\* A list of one message.
LEMMA ListOfOne ==
    ASSUME NEW S, NEW m \in S
    PROVE  /\ <<m>> \in Seq(S) /\ Append(<<>>, m) = <<m>>
           /\ Elements(<<m>>) = {m} /\ Len(<<m>>) = 1 /\ <<m>>[1] = m /\ <<m>> # <<>>
  <1>1. <<m>> \in Seq(S) /\ Append(<<>>, m) = <<m>> /\ Len(<<m>>) = 1 /\ <<m>>[1] = m /\ <<m>> # <<>>
    OBVIOUS
  <1>2. Elements(<<m>>) = {m}
    BY <1>1 DEF Elements
  <1> QED BY <1>1, <1>2

\* Joining and appending.
LEMMA AppendJoined ==
    ASSUME NEW S, NEW s \in Seq(S), NEW t \in Seq(S), NEW m \in S
    PROVE  /\ s \o Append(t, m) = Append(s \o t, m)
           /\ s \o <<m>> = Append(s, m)
  OBVIOUS

\* A response opens a group, at the end of the transcript.
LEMMA PlacedOpens ==
    ASSUME NEW p, GoodParts(p), NEW m \in Notes, m.role = "assistant"
    PROVE  /\ GoodParts(Placed(p, m))
           /\ Placed(p, m) = [anchors |-> p.anchors, groups |-> Append(p.groups, <<m>>)]
           /\ Reassemble(Placed(p, m)) = Append(Reassemble(p), m)
  <1>1. PICK a \in Seq(Notes), gs \in Seq(Seq(Notes)) : p = [anchors |-> a, groups |-> gs]
    BY DEF GoodParts, Parts
  <1>2. <<m>> \in Seq(Notes) /\ IsGroup(<<m>>)
    BY ListOfOne DEF IsGroup
  <1>3. PICK more : more = Append(gs, <<m>>)
    OBVIOUS
  <1>4. Placed(p, m) = [anchors |-> a, groups |-> more]
    BY <1>1, <1>3 DEF Placed
  <1>5. more \in Seq(Seq(Notes)) /\ Elements(more) = Elements(gs) \cup {<<m>>}
    BY <1>2, <1>3, ElementsMore, AppendProperties
  <1>6. GoodParts([anchors |-> a, groups |-> more])
    BY <1>1, <1>2, <1>5 DEF GoodParts, Parts
  <1>7. FlattenSeq(more) = FlattenSeq(gs) \o <<m>>
    BY <1>2, <1>3, FlattenMore
  <1>8. PICK f \in Seq(Notes) : f = FlattenSeq(gs)
    BY FlattenElements
  <1>9. f \o <<m>> = Append(f, m) /\ a \o Append(f, m) = Append(a \o f, m)
    BY AppendJoined
  <1>10. Reassemble([anchors |-> a, groups |-> more]) = Append(Reassemble(p), m)
    BY <1>1, <1>7, <1>8, <1>9 DEF Reassemble
  <1> QED BY <1>1, <1>3, <1>4, <1>6, <1>10

\* Before the first response all messages are anchors.
LEMMA PlacedFirst ==
    ASSUME NEW p, GoodParts(p), NEW m \in Notes, m.role # "assistant", p.groups = <<>>
    PROVE  /\ GoodParts(Placed(p, m))
           /\ Placed(p, m) = [anchors |-> Append(p.anchors, m), groups |-> <<>>]
           /\ Reassemble(Placed(p, m)) = Append(Reassemble(p), m)
  <1>1. PICK a \in Seq(Notes) : p = [anchors |-> a, groups |-> <<>>]
    BY DEF GoodParts, Parts
  <1>2. PICK more : more = Append(a, m)
    OBVIOUS
  <1>3. Placed(p, m) = [anchors |-> more, groups |-> <<>>]
    BY <1>1, <1>2 DEF Placed
  <1>4. more \in Seq(Notes) /\ Elements(more) = Elements(a) \cup {m}
    BY <1>2, ElementsMore, AppendProperties
  <1>5. GoodParts([anchors |-> more, groups |-> <<>>])
    BY <1>1, <1>4 DEF GoodParts, Parts
  <1>6. \A s \in Seq(Notes) : s \o <<>> = s
    OBVIOUS
  <1>7. Reassemble([anchors |-> more, groups |-> <<>>]) = Append(Reassemble(p), m)
    BY <1>1, <1>2, <1>4, <1>6, FlattenNone DEF Reassemble
  <1> QED BY <1>1, <1>2, <1>3, <1>5, <1>7

\* Other messages go to the last group.
LEMMA PlacedIs ==
    ASSUME NEW a, NEW all, NEW m, NEW n, n = Len(all), n # 0,
           ~ IsAnchor(m), m.role # "assistant"
    PROVE  Placed([anchors |-> a, groups |-> all], m)
             = [anchors |-> a, groups |-> [all EXCEPT ![n] = Append(all[n], m)]]
  <1>1. PICK p : p = [anchors |-> a, groups |-> all]
    OBVIOUS
  <1>2. /\ p.groups = all /\ p.anchors = a
        /\ \A x : [p EXCEPT !.groups = x] = [anchors |-> a, groups |-> x]
    BY <1>1
  <1>3. Placed(p, m) = [p EXCEPT !.groups = [p.groups EXCEPT ![n] = Append(p.groups[n], m)]]
    BY <1>2 DEF Placed
  <1> QED BY <1>1, <1>2, <1>3

\* Parts whose last group is g.
EndingIn(a, gs, g) == [anchors |-> a, groups |-> Append(gs, g)]

\* They come at the end of the transcript, too.
LEMMA PlacedInside ==
    ASSUME NEW a \in Seq(Notes), NEW gs \in Seq(Seq(Notes)), NEW g \in Seq(Notes),
           NEW m \in Notes, m.role \in Inside, GoodParts(EndingIn(a, gs, g))
    PROVE  /\ GoodParts(EndingIn(a, gs, Append(g, m)))
           /\ Placed(EndingIn(a, gs, g), m) = EndingIn(a, gs, Append(g, m))
           /\ Reassemble(EndingIn(a, gs, Append(g, m))) = Append(Reassemble(EndingIn(a, gs, g)), m)
  <1>0. PICK p : p = EndingIn(a, gs, g) /\ p = [anchors |-> a, groups |-> Append(gs, g)]
    BY DEF EndingIn
  <1>1. PICK all, longer, more : all = Append(gs, g) /\ longer = Append(g, m) /\ more = Append(gs, longer)
    OBVIOUS
  <1>2. /\ longer \in Seq(Notes) /\ all \in Seq(Seq(Notes)) /\ more \in Seq(Seq(Notes))
        /\ Elements(all) = Elements(gs) \cup {g} /\ Elements(more) = Elements(gs) \cup {longer}
    <2>1. longer \in Seq(Notes)
      BY <1>1, AppendProperties
    <2>2. all \in Seq(Seq(Notes)) /\ Elements(all) = Elements(gs) \cup {g}
      BY <1>1, ElementsMore, AppendProperties
    <2>3. more \in Seq(Seq(Notes)) /\ Elements(more) = Elements(gs) \cup {longer}
      <3>1. gs \in Seq(Seq(Notes)) /\ more = Append(gs, longer)
        BY <1>1
      <3>2. more \in Seq(Seq(Notes))
        BY ONLY <2>1, <3>1, AppendProperties
      <3>3. Elements(more) = Elements(gs) \cup {longer}
        BY ONLY <2>1, <3>1, ElementsMore
      <3> QED BY <3>2, <3>3
    <2> QED BY <2>1, <2>2, <2>3
  <1>3. PICK n \in Nat : n = Len(gs) + 1
    BY LenProperties
  <1>4. Len(all) = n /\ all[n] = g /\ n # 0
    BY <1>1, <1>3, AppendProperties, LenProperties
  <1>5. [all EXCEPT ![n] = longer] = more
    <2>1. PICK x : x = [all EXCEPT ![n] = longer]
      OBVIOUS
    <2>2. x \in Seq(Seq(Notes)) /\ Len(x) = n /\ x[n] = longer
          /\ \A i \in 1 .. n : i # n => x[i] = all[i]
      BY <1>2, <1>3, <1>4, <2>1
    <2>3. Len(more) = n /\ more[n] = longer /\ \A i \in 1 .. n - 1 : more[i] = gs[i] /\ all[i] = gs[i]
      BY <1>1, <1>2, <1>3, AppendProperties, LenProperties
    <2>4. ASSUME NEW i \in 1 .. Len(x) PROVE x[i] = more[i]
      <3>1. CASE i = n
        BY <2>2, <2>3, <3>1
      <3>2. CASE i # n
        <4>1. i \in 1 .. n - 1 /\ i \in 1 .. n
          BY <2>2, <3>2
        <4>2. x[i] = all[i] /\ all[i] = gs[i] /\ more[i] = gs[i]
          BY ONLY <2>2, <2>3, <3>2, <4>1
        <4> QED BY <4>2
      <3> QED BY <3>1, <3>2
    <2> QED BY <1>2, <2>1, <2>2, <2>3, <2>4, SeqEqual
  <1>6. Placed(p, m) = [anchors |-> a, groups |-> more]
    <2>1. ~ IsAnchor(m) /\ m.role # "assistant"
      BY DEF IsAnchor, Inside
    <2>2. p = [anchors |-> a, groups |-> all]
      BY <1>0, <1>1
    <2>3. n = Len(all) /\ n # 0 /\ Append(all[n], m) = longer
      BY <1>1, <1>4
    <2>4. Placed([anchors |-> a, groups |-> all], m)
            = [anchors |-> a, groups |-> [all EXCEPT ![n] = Append(all[n], m)]]
      BY ONLY <2>1, <2>3, PlacedIs
    <2> QED BY ONLY <1>5, <2>2, <2>3, <2>4
  <1>7. IsGroup(g)
    BY <1>0, <1>1, <1>2 DEF GoodParts
  <1>8. IsGroup(longer)
    <2>1. /\ Len(longer) = Len(g) + 1 /\ longer[Len(g) + 1] = m /\ Len(g) \in Nat /\ Len(g) # 0
          /\ \A i \in 1 .. Len(g) : longer[i] = g[i]
      BY <1>1, <1>7, AppendProperties, LenProperties, EmptySeq DEF IsGroup
    <2>2. longer[1] = g[1]
      BY <2>1
    <2>3. ASSUME NEW i \in 2 .. Len(longer) PROVE longer[i].role \in Inside
      <3>1. CASE i = Len(g) + 1
        BY <2>1, <3>1
      <3>2. CASE i # Len(g) + 1
        <4>1. i \in 2 .. Len(g) /\ i \in 1 .. Len(g)
          BY <2>1, <3>2
        <4> QED BY <1>7, <2>1, <4>1 DEF IsGroup
      <3> QED BY <3>1, <3>2
    <2>4. longer # <<>>
      BY <1>2, <2>1, EmptySeq
    <2> QED BY <1>7, <2>2, <2>3, <2>4 DEF IsGroup
  <1>9. GoodParts([anchors |-> a, groups |-> more])
    <2>1. p.anchors = a /\ p.groups = all /\ GoodParts(p)
      BY <1>0, <1>1
    <2>2. /\ \A x \in Elements(a) : x.role # "assistant"
          /\ \A h \in Elements(more) : IsGroup(h)
      BY <1>2, <1>8, <2>1 DEF GoodParts
    <2>3. PICK q : q = [anchors |-> a, groups |-> more]
      OBVIOUS
    <2>4. q \in Parts /\ q.anchors = a /\ q.groups = more
      BY <1>2, <2>3 DEF Parts
    <2> QED BY <2>2, <2>3, <2>4 DEF GoodParts
  <1>10. FlattenSeq(all) = FlattenSeq(gs) \o g /\ FlattenSeq(more) = FlattenSeq(gs) \o longer
    BY <1>1, <1>2, FlattenMore
  <1>11. PICK f \in Seq(Notes) : f = FlattenSeq(gs)
    BY FlattenElements
  <1>12. f \o longer = Append(f \o g, m) /\ f \o g \in Seq(Notes)
    <2>1. f \o Append(g, m) = Append(f \o g, m)
      BY AppendJoined
    <2> QED BY <1>1, <2>1, ConcatProperties
  <1>13. a \o Append(f \o g, m) = Append(a \o (f \o g), m)
    BY <1>12, AppendJoined
  <1>14. Reassemble([anchors |-> a, groups |-> more]) = Append(Reassemble(p), m)
    <2>1. p = [anchors |-> a, groups |-> all]
      BY <1>0, <1>1
    <2>2. /\ Reassemble(p) = a \o FlattenSeq(all)
          /\ Reassemble([anchors |-> a, groups |-> more]) = a \o FlattenSeq(more)
      BY <2>1 DEF Reassemble
    <2> QED BY <1>10, <1>11, <1>12, <1>13, <2>2
  <1>15. [anchors |-> a, groups |-> more] = EndingIn(a, gs, Append(g, m))
    BY <1>1 DEF EndingIn
  <1> QED BY <1>0, <1>6, <1>9, <1>14, <1>15

\* A transcript has the messages of its parts.
LEMMA ReassembledTyped ==
    ASSUME NEW q, GoodParts(q)
    PROVE  /\ Reassemble(q) \in Seq(Notes)
           /\ Elements(Reassemble(q))
                = Elements(q.anchors) \cup UNION {Elements(g) : g \in Elements(q.groups)}
  <1>1. q.anchors \in Seq(Notes) /\ q.groups \in Seq(Seq(Notes))
    BY DEF GoodParts, Parts
  <1>2. PICK a \in Seq(Notes), f \in Seq(Notes) : a = q.anchors /\ f = FlattenSeq(q.groups)
    BY <1>1, FlattenElements
  <1>3. Elements(f) = UNION {Elements(g) : g \in Elements(q.groups)}
    BY <1>1, <1>2, FlattenElements
  <1>4. a \o f \in Seq(Notes) /\ Elements(a \o f) = Elements(a) \cup Elements(f)
    BY ElementsJoined, ConcatProperties
  <1> QED BY <1>2, <1>3, <1>4 DEF Reassemble

\* The last message of a transcript was placed last.
LEMMA LastPlaced ==
    ASSUME NEW q, GoodParts(q), q # NoParts
    PROVE  \E p, m : /\ GoodParts(p) /\ m \in Notes
                     /\ q = Placed(p, m) /\ Reassemble(q) = Append(Reassemble(p), m)
  <1>1. PICK a \in Seq(Notes), all \in Seq(Seq(Notes)) : q = [anchors |-> a, groups |-> all]
    BY DEF GoodParts, Parts
  <1>2. CASE all = <<>>
    <2>1. a # <<>>
      BY <1>1, <1>2 DEF NoParts
    <2>2. PICK f \in Seq(Notes), m \in Notes : a = Append(f, m)
      BY <2>1, LastMember
    <2>3. Elements(a) = Elements(f) \cup {m}
      BY <2>2, ElementsMore
    <2>4. PICK p : p = [anchors |-> f, groups |-> <<>>]
      OBVIOUS
    <2>5. GoodParts(p) /\ p.groups = <<>> /\ p.anchors = f
      BY <1>1, <1>2, <2>3, <2>4 DEF GoodParts, Parts
    <2>6. m.role # "assistant"
      BY <1>1, <2>3 DEF GoodParts
    <2>7. /\ Placed(p, m) = [anchors |-> Append(f, m), groups |-> <<>>]
          /\ Reassemble(Placed(p, m)) = Append(Reassemble(p), m)
      BY <2>5, <2>6, PlacedFirst
    <2>8. q = Placed(p, m)
      BY <1>1, <1>2, <2>2, <2>7
    <2> QED BY <2>5, <2>7, <2>8
  <1>3. CASE all # <<>>
    <2>1. PICK gs \in Seq(Seq(Notes)), g \in Seq(Notes) : all = Append(gs, g)
      BY <1>3, LastMember
    <2>2. Elements(all) = Elements(gs) \cup {g}
      BY <2>1, ElementsMore
    <2>3. IsGroup(g) /\ g # <<>> /\ \A h \in Elements(gs) : IsGroup(h)
      BY <1>1, <2>2 DEF GoodParts, IsGroup
    <2>4. PICK h \in Seq(Notes), m \in Notes : g = Append(h, m)
      BY <2>3, LastMember
    <2>5. CASE h = <<>>
      <3>1. g = <<m>> /\ m.role = "assistant"
        <4>1. g = <<m>>
          BY <2>4, <2>5, ListOfOne
        <4> QED BY <2>3, <4>1 DEF IsGroup
      <3>2. PICK p : p = [anchors |-> a, groups |-> gs]
        OBVIOUS
      <3>3. GoodParts(p) /\ p.anchors = a /\ p.groups = gs
        BY <1>1, <2>3, <3>2 DEF GoodParts, Parts
      <3>4. /\ Placed(p, m) = [anchors |-> a, groups |-> Append(gs, <<m>>)]
            /\ Reassemble(Placed(p, m)) = Append(Reassemble(p), m)
        BY <3>1, <3>3, PlacedOpens
      <3>5. q = Placed(p, m)
        BY <1>1, <2>1, <3>1, <3>4
      <3> QED BY <3>3, <3>4, <3>5
    <2>6. CASE h # <<>>
      <3>1. PICK n \in Nat : n = Len(h) /\ n # 0
        BY <2>6, EmptySeq, LenProperties
      <3>2. /\ Len(g) = n + 1 /\ g[n + 1] = m /\ \A i \in 1 .. n : g[i] = h[i]
        BY <2>4, <3>1, AppendProperties
      <3>3. m.role \in Inside
        BY <2>3, <3>1, <3>2 DEF IsGroup
      <3>4. IsGroup(h)
        BY <2>3, <2>6, <3>1, <3>2 DEF IsGroup
      <3>5. PICK less : less = Append(gs, h)
        OBVIOUS
      <3>6. less \in Seq(Seq(Notes)) /\ Elements(less) = Elements(gs) \cup {h}
        BY <3>5, ElementsMore, AppendProperties
      <3>7. PICK p : p = [anchors |-> a, groups |-> less]
        OBVIOUS
      <3>8. GoodParts(p)
        BY <1>1, <2>3, <3>4, <3>6, <3>7 DEF GoodParts, Parts
      <3>9. p = EndingIn(a, gs, h) /\ q = EndingIn(a, gs, Append(h, m))
        BY <1>1, <2>1, <2>4, <3>5, <3>7 DEF EndingIn
      <3>10. /\ Placed(p, m) = EndingIn(a, gs, Append(h, m))
             /\ Reassemble(EndingIn(a, gs, Append(h, m))) = Append(Reassemble(p), m)
        BY <3>3, <3>8, <3>9, PlacedInside
      <3>11. q = Placed(p, m)
        BY <3>9, <3>10
      <3> QED BY <3>8, <3>9, <3>10, <3>11
    <2> QED BY <2>5, <2>6
  <1> QED BY <1>2, <1>3

\* What is put together again has the same parts.
LEMMA Repartitioned == \A q : GoodParts(q) => Partition(Reassemble(q)) = q
  <1> DEFINE T == {n \in Nat : \A q : GoodParts(q) /\ Len(Reassemble(q)) = n
                                        => Partition(Reassemble(q)) = q}
  <1>1. Partition(Reassemble(NoParts)) = NoParts
    <2>1. Reassemble(NoParts) = <<>>
      BY FlattenNone DEF Reassemble, NoParts
    <2> QED BY <2>1, PartitionOfNone
  <1>2. ASSUME NEW q, GoodParts(q), q # NoParts
        PROVE  \E p, m : /\ GoodParts(p) /\ m \in Notes /\ q = Placed(p, m)
                         /\ Reassemble(q) = Append(Reassemble(p), m)
                         /\ Reassemble(p) \in Seq(Notes)
                         /\ Len(Reassemble(q)) = Len(Reassemble(p)) + 1
                         /\ Len(Reassemble(p)) \in Nat
    <2>1. PICK p, m : /\ GoodParts(p) /\ m \in Notes /\ q = Placed(p, m)
                      /\ Reassemble(q) = Append(Reassemble(p), m)
      BY <1>2, LastPlaced
    <2>2. PICK s \in Seq(Notes) : s = Reassemble(p)
      BY <2>1, ReassembledTyped
    <2>3. Len(Append(s, m)) = Len(s) + 1 /\ Len(s) \in Nat
      BY <2>1, AppendProperties, LenProperties
    <2> QED BY <2>1, <2>2, <2>3
  <1>3. 0 \in T
    <2> SUFFICES ASSUME NEW q, GoodParts(q), Len(Reassemble(q)) = 0, q # NoParts PROVE FALSE
      BY <1>1
    <2> QED BY <1>2
  <1>4. ASSUME NEW n \in Nat, n \in T PROVE n + 1 \in T
    <2> SUFFICES ASSUME NEW q, GoodParts(q), Len(Reassemble(q)) = n + 1
                 PROVE  Partition(Reassemble(q)) = q
      OBVIOUS
    <2>1. CASE q = NoParts
      BY <1>1, <2>1
    <2>2. CASE q # NoParts
      <3>1. PICK p, m : /\ GoodParts(p) /\ m \in Notes /\ q = Placed(p, m)
                        /\ Reassemble(q) = Append(Reassemble(p), m)
                        /\ Reassemble(p) \in Seq(Notes)
                        /\ Len(Reassemble(q)) = Len(Reassemble(p)) + 1
                        /\ Len(Reassemble(p)) \in Nat
        BY <1>2, <2>2
      <3>2. Partition(Reassemble(p)) = p
        BY <1>4, <3>1
      <3>3. Partition(Append(Reassemble(p), m)) = Placed(Partition(Reassemble(p)), m)
        BY <3>1, PartitionOfMore
      <3> QED BY <3>1, <3>2, <3>3
    <2> QED BY <2>1, <2>2
  <1>5. \A n \in Nat : n \in T
    <2> HIDE DEF T
    <2> QED BY <1>3, <1>4, Inductive
  <1> QED
    <2> SUFFICES ASSUME NEW q, GoodParts(q) PROVE Partition(Reassemble(q)) = q
      OBVIOUS
    <2>1. Len(Reassemble(q)) \in Nat
      BY ReassembledTyped, LenProperties
    <2> QED BY <1>5, <2>1

-----------------------------------------------------------------------------
\* The answers to the calls of one turn.

\* The places of the answers in a group, and the calls they answer.
Results(g) == {i \in 2 .. Len(g) : g[i].role = "tool"}
AnsweredIn(g) == UNION {g[i].of : i \in Results(g)}

\* All calls of a group but those that wait are answered, each once.
Settled(g, waiting) ==
    /\ IsFiniteSet(g[1].of) /\ waiting \subseteq g[1].of
    /\ AnsweredIn(g) = g[1].of \ waiting
    /\ Cardinality(Results(g)) = Cardinality(g[1].of \ waiting)

\* A response has no answers yet.
LEMMA SettledOpen ==
    ASSUME NEW m \in Notes, IsFiniteSet(m.of)
    PROVE  Settled(<<m>>, m.of)
  <1>1. PICK g : g = <<m>>
    OBVIOUS
  <1>2. Len(g) = 1 /\ g[1] = m
    BY <1>1
  <1>3. Results(g) = {}
    BY <1>2 DEF Results
  <1>4. AnsweredIn(g) = {} /\ m.of \ m.of = {} /\ Cardinality({}) = 0
    BY <1>3, FS_EmptySet DEF AnsweredIn
  <1> QED BY <1>1, <1>2, <1>3, <1>4 DEF Settled

\* What one more message adds to the answers.
LEMMA ResultsMore ==
    ASSUME NEW g \in Seq(Notes), g # <<>>, NEW m \in Notes, NEW more, more = Append(g, m)
    PROVE  /\ more[1] = g[1] /\ IsFiniteSet(Results(g))
           /\ m.role # "tool" => Results(more) = Results(g) /\ AnsweredIn(more) = AnsweredIn(g)
           /\ m.role = "tool" => /\ AnsweredIn(more) = AnsweredIn(g) \cup m.of
                                 /\ Cardinality(Results(more)) = Cardinality(Results(g)) + 1
  <1>1. PICK n \in Nat : n = Len(g) /\ n # 0
    BY EmptySeq, LenProperties
  <1>2. Len(more) = n + 1 /\ more[n + 1] = m /\ \A i \in 1 .. n : more[i] = g[i]
    BY <1>1, AppendProperties
  <1>3. IsFiniteSet(Results(g)) /\ n + 1 \notin Results(g)
    <2>1. IsFiniteSet(2 .. n) /\ Results(g) \subseteq 2 .. n
      BY <1>1, FS_Interval DEF Results
    <2> QED BY <2>1, FS_Subset
  <1>4. \A i \in Results(g) : more[i] = g[i]
    BY <1>1, <1>2 DEF Results
  <1>5. 2 .. n + 1 = (2 .. n) \cup {n + 1}
    BY <1>1
  <1>6. Results(more) = Results(g) \cup (IF m.role = "tool" THEN {n + 1} ELSE {})
    <2>1. \A i \in 2 .. n : more[i] = g[i]
      BY <1>2
    <2> QED BY <1>1, <1>2, <1>5, <2>1 DEF Results
  <1>7. CASE m.role # "tool"
    <2>1. Results(more) = Results(g)
      BY <1>6, <1>7
    <2>2. AnsweredIn(more) = AnsweredIn(g)
      BY <1>4, <2>1 DEF AnsweredIn
    <2> QED BY <1>1, <1>2, <1>3, <1>7, <2>1, <2>2
  <1>8. CASE m.role = "tool"
    <2>1. Results(more) = Results(g) \cup {n + 1}
      BY <1>6, <1>8
    <2>2. Cardinality(Results(more)) = Cardinality(Results(g)) + 1
      BY <1>3, <2>1, FS_AddElement
    <2>3. AnsweredIn(more) = AnsweredIn(g) \cup m.of
      <3>1. PICK R : R = Results(g)
        OBVIOUS
      <3>2. Results(more) = R \cup {n + 1} /\ (\A i \in R : more[i].of = g[i].of) /\ more[n + 1].of = m.of
        BY <1>2, <1>4, <2>1, <3>1
      <3>3. UNION {more[i].of : i \in R \cup {n + 1}} = (UNION {g[i].of : i \in R}) \cup m.of
        BY ONLY <3>2
      <3> QED BY <3>1, <3>2, <3>3 DEF AnsweredIn
    <2> QED BY <1>1, <1>2, <1>3, <1>8, <2>2, <2>3
  <1> QED BY <1>7, <1>8

\* A message that is no answer changes nothing, an answer settles its call.
LEMMA SettledMore ==
    ASSUME NEW g \in Seq(Notes), g # <<>>, NEW waiting, Settled(g, waiting),
           NEW m \in Notes, NEW left,
           \/ m.role # "tool" /\ left = waiting
           \/ m.role = "tool" /\ \E id \in waiting : m.of = {id} /\ left = waiting \ {id}
    PROVE  Settled(Append(g, m), left)
  <1>1. PICK more : more = Append(g, m)
    OBVIOUS
  <1>2. more[1] = g[1] /\ IsFiniteSet(Results(g))
    BY <1>1, ResultsMore
  <1>3. CASE m.role # "tool" /\ left = waiting
    <2>1. Results(more) = Results(g) /\ AnsweredIn(more) = AnsweredIn(g)
      BY <1>1, <1>3, ResultsMore
    <2> QED BY <1>1, <1>2, <1>3, <2>1 DEF Settled
  <1>4. CASE m.role = "tool" /\ \E id \in waiting : m.of = {id} /\ left = waiting \ {id}
    <2>1. PICK id \in waiting : m.of = {id} /\ left = waiting \ {id}
      BY <1>4
    <2>2. /\ AnsweredIn(more) = AnsweredIn(g) \cup {id}
          /\ Cardinality(Results(more)) = Cardinality(Results(g)) + 1
      <3>1. m.role = "tool" /\ g \in Seq(Notes) /\ g # <<>>
        BY <1>4
      <3>2. /\ AnsweredIn(more) = AnsweredIn(g) \cup m.of
            /\ Cardinality(Results(more)) = Cardinality(Results(g)) + 1
        BY ONLY m \in Notes, <1>1, <3>1, ResultsMore
      <3> QED BY <2>1, <3>2
    <2>3. PICK calls : calls = g[1].of
      OBVIOUS
    <2>4. /\ IsFiniteSet(calls) /\ waiting \subseteq calls
          /\ AnsweredIn(g) = calls \ waiting
          /\ Cardinality(Results(g)) = Cardinality(calls \ waiting)
      BY <2>3 DEF Settled
    <2>5. calls \ left = (calls \ waiting) \cup {id} /\ id \notin calls \ waiting
      BY <2>1, <2>4
    <2>6. IsFiniteSet(calls \ waiting)
      BY <2>4, FS_Subset
    <2>7. Cardinality(calls \ left) = Cardinality(calls \ waiting) + 1
      BY <2>5, <2>6, FS_AddElement
    <2>8. left \subseteq calls
      BY <2>1, <2>4
    <2>9. more[1].of = calls
      BY <1>2, <2>3
    <2>10. AnsweredIn(more) = calls \ left
      BY <2>2, <2>4, <2>5
    <2>11. Cardinality(Results(more)) = Cardinality(calls \ left)
      BY <2>2, <2>4, <2>7
    <2> QED BY <1>1, <2>4, <2>8, <2>9, <2>10, <2>11 DEF Settled
  <1> QED BY <1>3, <1>4

-----------------------------------------------------------------------------
\* What a transcript tells.

\* The anchors when the first turns are folded.
Anchors(folded) ==
    IF folded = 0 THEN Opening ELSE Append(Opening, Message("digest", 0, 1 .. folded))

\* The group of a turn.
Tells(g, turn, waiting) ==
    /\ g[1].turn = turn /\ \A id \in g[1].of : id[1] = turn
    /\ Settled(g, waiting)

\* The groups are those of the latest turns, the other turns are in the digest,
\* and only calls of the last turn wait for their answers.
Told(q, turns, waiting) ==
    /\ GoodParts(q)
    /\ Len(q.groups) <= turns
    /\ q.anchors = Anchors(turns - Len(q.groups))
    /\ q.groups = <<>> => turns = 0 /\ waiting = {}
    /\ \A i \in 1 .. Len(q.groups) :
          Tells(q.groups[i], turns - Len(q.groups) + i, IF i = Len(q.groups) THEN waiting ELSE {})

\* The opening is the system message and the task.
LEMMA OpeningNoted ==
    /\ Opening \in Seq(Notes) /\ Len(Opening) = 2
    /\ Opening[1] = Message("system", 0, {}) /\ Opening[2] = Message("human", 0, {})
    /\ Elements(Opening) = {Message("system", 0, {}), Message("human", 0, {})}
  <1>1. PICK a \in Notes, b \in Notes : a = Message("system", 0, {}) /\ b = Message("human", 0, {})
    BY DEF Message, Notes, Roles
  <1>2. Opening = <<a, b>>
    BY <1>1 DEF Opening
  <1>3. Opening \in Seq(Notes) /\ Len(Opening) = 2 /\ Opening[1] = a /\ Opening[2] = b
    BY <1>2
  <1>4. Elements(Opening) = {a, b}
    <2>1. 1 .. 2 = {1, 2}
      OBVIOUS
    <2> QED BY <1>3, <2>1 DEF Elements
  <1> QED BY <1>1, <1>3, <1>4

\* A step starts with its task.
LEMMA ToldFirst ==
    \E q : Opening = Reassemble(q) /\ Told(q, 0, {})
  <1>1. PICK q : q = [anchors |-> Opening, groups |-> <<>>]
    OBVIOUS
  <1>2. q.anchors = Opening /\ q.groups = <<>> /\ q \in Parts /\ Len(q.groups) = 0
    BY <1>1, OpeningNoted DEF Parts
  <1>3. \A m \in Elements(Opening) : m.role # "assistant"
    BY OpeningNoted DEF Message
  <1>4. Elements(<<>>) = {}
    BY DEF Elements
  <1>5. GoodParts(q)
    BY <1>2, <1>3, <1>4 DEF GoodParts
  <1>6. Told(q, 0, {})
    <2>1. 0 - Len(q.groups) = 0 /\ Len(q.groups) <= 0 /\ 1 .. Len(q.groups) = {}
      <3>1. Len(q.groups) = 0
        BY <1>2
      <3>2. 0 - 0 = 0 /\ 0 <= 0 /\ 1 .. 0 = {}
        OBVIOUS
      <3> QED BY ONLY <3>1, <3>2
    <2>2. q.anchors = Anchors(0)
      BY <1>2 DEF Anchors
    <2> QED BY ONLY <1>2, <1>5, <2>1, <2>2 DEF Told
  <1>7. Reassemble(q) = Opening
    <2>1. \A s \in Seq(Notes) : s \o <<>> = s
      OBVIOUS
    <2> QED BY <1>2, <2>1, FlattenNone, OpeningNoted DEF Reassemble
  <1> QED BY <1>6, <1>7

\* A response starts a group, with all its calls waiting.
LEMMA ToldResponse ==
    ASSUME NEW q, NEW turns \in Nat, Told(q, turns, {}),
           NEW m \in Notes, m.role = "assistant", m.turn = turns + 1,
           IsFiniteSet(m.of), \A id \in m.of : id[1] = turns + 1
    PROVE  \E p : Append(Reassemble(q), m) = Reassemble(p) /\ Told(p, turns + 1, m.of)
  <1>1. PICK a \in Seq(Notes), gs \in Seq(Seq(Notes)) : q = [anchors |-> a, groups |-> gs]
    BY DEF Told, GoodParts, Parts
  <1>2. PICK n \in Nat : n = Len(gs)
    BY LenProperties
  <1>3. PICK more, g : g = <<m>> /\ more = Append(gs, g)
    OBVIOUS
  <1>4. g \in Seq(Notes) /\ g[1] = m
    BY <1>3, ListOfOne
  <1>5. /\ more \in Seq(Seq(Notes)) /\ Len(more) = n + 1 /\ more[n + 1] = g
        /\ \A i \in 1 .. n : more[i] = gs[i]
    BY <1>2, <1>3, <1>4, AppendProperties
  <1>6. PICK p : p = [anchors |-> a, groups |-> more]
    OBVIOUS
  <1>7. /\ GoodParts(p) /\ Reassemble(p) = Append(Reassemble(q), m)
    <2>1. GoodParts(q) /\ q.anchors = a /\ q.groups = gs
      BY <1>1 DEF Told
    <2>2. p = Placed(q, m)
      BY <1>3, <1>6, <2>1, PlacedOpens
    <2> QED BY <2>1, <2>2, PlacedOpens
  <1>8. /\ n <= turns /\ a = Anchors(turns - n)
        /\ \A i \in 1 .. n : Tells(gs[i], turns - n + i, IF i = n THEN {} ELSE {})
    BY <1>1, <1>2 DEF Told
  <1>9. Tells(g, turns + 1, m.of)
    BY <1>3, <1>4, SettledOpen DEF Tells
  <1>10. ASSUME NEW i \in 1 .. n + 1
         PROVE  Tells(more[i], (turns + 1) - (n + 1) + i, IF i = n + 1 THEN m.of ELSE {})
    <2>1. CASE i = n + 1
      <3>1. (turns + 1) - (n + 1) + i = turns + 1
        BY <2>1
      <3> QED BY <1>5, <1>9, <2>1, <3>1
    <2>2. CASE i # n + 1
      <3>1. i \in 1 .. n /\ (turns + 1) - (n + 1) + i = turns - n + i
        BY <2>2
      <3>2. more[i] = gs[i]
        BY <1>5, <3>1
      <3>3. Tells(gs[i], turns - n + i, {})
        BY <1>8, <3>1
      <3> QED BY <2>2, <3>1, <3>2, <3>3
    <2> QED BY <2>1, <2>2
  <1>11. p.anchors = a /\ p.groups = more /\ (turns + 1) - (n + 1) = turns - n /\ more # <<>>
    BY <1>5, <1>6, EmptySeq
  <1>12. Told(p, turns + 1, m.of)
    <2>1. Len(p.groups) = n + 1 /\ n + 1 <= turns + 1
      BY <1>5, <1>8, <1>11
    <2>2. p.anchors = Anchors((turns + 1) - (n + 1))
      BY <1>8, <1>11
    <2>3. \A i \in 1 .. n + 1 : Tells(p.groups[i], (turns + 1) - (n + 1) + i, IF i = n + 1 THEN m.of ELSE {})
      BY <1>10, <1>11
    <2>4. p.groups # <<>>
      BY <1>11
    <2> QED BY ONLY <1>7, <2>1, <2>2, <2>3, <2>4 DEF Told
  <1> QED BY <1>7, <1>12

\* The calls that wait for their answer after m: one less, when m answers one.
Leaves(m, waiting, left) ==
    \/ m.role = "human" /\ left = waiting
    \/ m.role = "tool" /\ \E id \in waiting : m.of = {id} /\ left = waiting \ {id}

\* A message within the last turn: a nudge, or the answer to a call.
LEMMA ToldInside ==
    ASSUME NEW q, NEW turns \in Nat, NEW waiting, Told(q, turns, waiting), q.groups # <<>>,
           NEW m \in Notes, NEW left, Leaves(m, waiting, left)
    PROVE  \E p : /\ Append(Reassemble(q), m) = Reassemble(p)
                  /\ Told(p, turns, left) /\ p.groups # <<>>
  <1>1. PICK a \in Seq(Notes), all \in Seq(Seq(Notes)) : q = [anchors |-> a, groups |-> all]
    BY DEF Told, GoodParts, Parts
  <1>2. PICK gs \in Seq(Seq(Notes)), g \in Seq(Notes) : all = Append(gs, g) /\ Len(all) = Len(gs) + 1
    BY <1>1, LastMember
  <1>3. PICK n \in Nat : n = Len(all) /\ n # 0 /\ n = Len(gs) + 1
    BY <1>2, LenProperties
  <1>4. all[n] = g /\ \A i \in 1 .. n - 1 : all[i] = gs[i]
    BY <1>2, <1>3, AppendProperties
  <1>5. PICK longer : longer = Append(g, m)
    OBVIOUS
  <1>6. longer \in Seq(Notes)
    BY <1>5, AppendProperties
  <1>7. PICK more : more = Append(gs, longer)
    OBVIOUS
  <1>8. Len(more) = n /\ more[n] = longer /\ (\A i \in 1 .. n - 1 : more[i] = gs[i]) /\ more # <<>>
    <2>1. more \in Seq(Seq(Notes)) /\ Len(more) = n /\ more[n] = longer /\ \A i \in 1 .. n - 1 : more[i] = gs[i]
      BY ONLY <1>3, <1>6, <1>7, gs \in Seq(Seq(Notes)), AppendProperties, LenProperties
    <2> QED BY <1>3, <2>1, EmptySeq
  <1>9. /\ GoodParts(q) /\ n <= turns /\ a = Anchors(turns - n)
        /\ \A i \in 1 .. n : Tells(all[i], turns - n + i, IF i = n THEN waiting ELSE {})
    BY <1>1, <1>3 DEF Told
  <1>10. PICK p : p = EndingIn(a, gs, longer) /\ p.anchors = a /\ p.groups = more
    <2>1. EndingIn(a, gs, longer) = [anchors |-> a, groups |-> more]
      BY ONLY <1>7 DEF EndingIn
    <2>2. PICK p : p = [anchors |-> a, groups |-> more]
      OBVIOUS
    <2>3. p.anchors = a /\ p.groups = more
      BY <2>2
    <2> QED BY ONLY <2>1, <2>2, <2>3
  <1>11. GoodParts(p) /\ Reassemble(p) = Append(Reassemble(q), m)
    <2>1. q = EndingIn(a, gs, g) /\ m.role \in Inside
      BY <1>1, <1>2 DEF EndingIn, Inside, Leaves
    <2> QED BY <1>5, <1>9, <1>10, <2>1, PlacedInside
  <1>12. Tells(longer, turns - n + n, left)
    <2>1. Tells(g, turns - n + n, waiting)
      <3>1. n \in 1 .. n
        BY <1>3
      <3>2. Tells(all[n], turns - n + n, IF n = n THEN waiting ELSE {})
        BY ONLY <1>9, <3>1
      <3> QED BY <1>4, <3>2
    <2>2. g # <<>>
      <3>1. g \in Elements(all)
        BY <1>3, <1>4 DEF Elements
      <3> QED BY <1>1, <1>9, <3>1 DEF GoodParts, IsGroup
    <2>3. longer[1] = g[1]
      BY <1>5, <2>2, ResultsMore
    <2>4. Settled(longer, left)
      <3>1. \/ m.role # "tool" /\ left = waiting
            \/ m.role = "tool" /\ \E id \in waiting : m.of = {id} /\ left = waiting \ {id}
        BY DEF Leaves
      <3>2. Settled(g, waiting)
        BY <2>1 DEF Tells
      <3> QED BY ONLY g \in Seq(Notes), m \in Notes, <1>5, <2>2, <3>1, <3>2, SettledMore
    <2> QED BY <2>1, <2>3, <2>4 DEF Tells
  <1>13. ASSUME NEW i \in 1 .. n
         PROVE  Tells(more[i], turns - n + i, IF i = n THEN left ELSE {})
    <2>1. CASE i = n
      BY <1>8, <1>12, <2>1
    <2>2. CASE i # n
      <3>1. i \in 1 .. n - 1
        BY <2>2
      <3>2. more[i] = gs[i] /\ all[i] = gs[i]
        BY <1>4, <1>8, <3>1
      <3>3. Tells(all[i], turns - n + i, {})
        BY <1>9, <2>2
      <3> QED BY <2>2, <3>2, <3>3
    <2> QED BY <2>1, <2>2
  <1>14. Told(p, turns, left)
    <2>1. Len(p.groups) = n /\ p.groups # <<>>
      BY <1>8, <1>10
    <2>2. \A i \in 1 .. n : Tells(p.groups[i], turns - n + i, IF i = n THEN left ELSE {})
      BY <1>10, <1>13
    <2>3. p.anchors = Anchors(turns - n)
      BY <1>9, <1>10
    <2> QED BY ONLY <1>9, <1>11, <2>1, <2>2, <2>3 DEF Told
  <1> QED BY <1>8, <1>10, <1>11, <1>14

-----------------------------------------------------------------------------
\* Folding turns into the digest.

\* The anchors: the task, and a digest of the turns that are folded.
LEMMA AnchorsAre ==
    ASSUME NEW folded \in Nat
    PROVE  /\ Anchors(folded) \in Seq(Notes)
           /\ Len(Anchors(folded)) = IF folded = 0 THEN 2 ELSE 3
           /\ Anchors(folded)[1] = Message("system", 0, {})
           /\ Anchors(folded)[2] = Message("human", 0, {})
           /\ folded # 0 => Anchors(folded)[3] = Message("digest", 0, 1 .. folded)
           /\ Elements(Anchors(folded))
                = {Message("system", 0, {}), Message("human", 0, {})}
                  \cup (IF folded = 0 THEN {} ELSE {Message("digest", 0, 1 .. folded)})
  <1>1. CASE folded = 0
    BY <1>1, OpeningNoted DEF Anchors
  <1>2. CASE folded # 0
    <2>1. PICK d \in Notes : d = Message("digest", 0, 1 .. folded)
      <3>1. 1 .. folded \in SUBSET (Nat \cup (Nat \X Nat))
        OBVIOUS
      <3> QED BY <3>1 DEF Message, Notes, Roles
    <2>2. PICK s : s = Append(Opening, d) /\ s = Anchors(folded)
      BY <1>2, <2>1 DEF Anchors
    <2>3. /\ s \in Seq(Notes) /\ Len(s) = 3 /\ s[3] = d /\ s[1] = Opening[1] /\ s[2] = Opening[2]
          /\ Elements(s) = Elements(Opening) \cup {d}
      <3>1. PICK o \in Seq(Notes) : o = Opening /\ Len(o) = 2
        BY OpeningNoted
      <3>2. s = Append(o, d)
        BY <2>2, <3>1
      <3>3. s \in Seq(Notes) /\ Len(s) = 3 /\ s[3] = d /\ s[1] = o[1] /\ s[2] = o[2]
        <4>1. /\ s \in Seq(Notes) /\ Len(s) = Len(o) + 1 /\ s[Len(o) + 1] = d
              /\ \A i \in 1 .. Len(o) : s[i] = o[i]
          BY <3>2, AppendProperties
        <4>2. 2 + 1 = 3 /\ 1 \in 1 .. 2 /\ 2 \in 1 .. 2
          OBVIOUS
        <4> QED BY ONLY <3>1, <4>1, <4>2
      <3>4. Elements(s) = Elements(o) \cup {d}
        BY ONLY o \in Seq(Notes), d \in Notes, <3>2, ElementsMore
      <3> QED BY <3>1, <3>3, <3>4
    <2> QED BY <1>2, <2>1, <2>2, <2>3, OpeningNoted
  <1> QED BY <1>1, <1>2

\* More turns in the digest.
LEMMA AnchorsFolded ==
    ASSUME NEW folded \in Nat, NEW k \in Nat, k # 0
    PROVE  AddToDigest(Anchors(folded), folded + 1 .. folded + k) = Anchors(folded + k)
  <1>1. PICK turns : turns = folded + 1 .. folded + k
    OBVIOUS
  <1>2. PICK s, t : s = Anchors(folded) /\ t = Anchors(folded + k)
    OBVIOUS
  <1>3. PICK system, human : system = Message("system", 0, {}) /\ human = Message("human", 0, {})
    OBVIOUS
  <1>4. system.role # "digest" /\ human.role # "digest"
    BY <1>3 DEF Message
  <1>5. folded + k \in Nat /\ folded + k # 0
    OBVIOUS
  <1>6. PICK d : d = Message("digest", 0, 1 .. folded + k)
    OBVIOUS
  <1>7. t \in Seq(Notes) /\ Len(t) = 3 /\ t[1] = system /\ t[2] = human /\ t[3] = d
    BY <1>2, <1>3, <1>5, <1>6, AnchorsAre
  <1>8. CASE folded = 0
    <2>1. s = Opening /\ s[1] = system /\ s[2] = human /\ Len(s) = 2
      BY <1>2, <1>3, <1>8, OpeningNoted DEF Anchors
    <2>2. ~ \E i \in 1 .. Len(s) : s[i].role = "digest"
      <3>1. \A i \in 1 .. 2 : i = 1 \/ i = 2
        OBVIOUS
      <3> QED BY <1>4, <2>1, <3>1
    <2>3. AddToDigest(s, turns) = Append(s, Message("digest", 0, turns))
      BY <2>2 DEF AddToDigest
    <2>4. turns = 1 .. folded + k
      BY <1>1, <1>8
    <2> QED BY <1>1, <1>2, <1>5, <2>1, <2>3, <2>4 DEF Anchors
  <1>9. CASE folded # 0
    <2>1. PICK old : old = Message("digest", 0, 1 .. folded)
      OBVIOUS
    <2>2. s \in Seq(Notes) /\ Len(s) = 3 /\ s[1] = system /\ s[2] = human /\ s[3] = old
      BY <1>2, <1>3, <1>9, <2>1, AnchorsAre
    <2>3. old.role = "digest" /\ [old EXCEPT !.of = @ \cup turns] = d
      <3>1. (1 .. folded) \cup turns = 1 .. folded + k
        BY <1>1
      <3>2. PICK before, after : before = 1 .. folded /\ after = 1 .. folded + k
        OBVIOUS
      <3>3. /\ old = [role |-> "digest", turn |-> 0, of |-> before]
            /\ d = [role |-> "digest", turn |-> 0, of |-> after]
        BY <1>6, <2>1, <3>2 DEF Message
      <3>4. before \cup turns = after
        BY <3>1, <3>2
      <3>5. /\ old.role = "digest" /\ old.of = before
            /\ \A x : [old EXCEPT !.of = x] = [role |-> "digest", turn |-> 0, of |-> x]
        BY ONLY <3>3
      <3> QED BY <3>3, <3>4, <3>5
    <2>4. PICK r : r = [i \in 1 .. 3 |-> IF s[i].role = "digest" THEN [s[i] EXCEPT !.of = @ \cup turns]
                                         ELSE s[i]]
      OBVIOUS
    <2>5. AddToDigest(s, turns) = r
      <3>1. \E i \in 1 .. Len(s) : s[i].role = "digest"
        BY <2>2, <2>3
      <3> QED BY <2>2, <2>4, <3>1 DEF AddToDigest
    <2>6. r[1] = system /\ r[2] = human /\ r[3] = d
      BY <1>4, <2>2, <2>3, <2>4
    <2>7. t = [i \in 1 .. 3 |-> t[i]]
      BY <1>7
    <2>8. \A i \in 1 .. 3 : r[i] = t[i]
      <3>1. \A i \in 1 .. 3 : i = 1 \/ i = 2 \/ i = 3
        OBVIOUS
      <3> QED BY <1>7, <2>6, <3>1
    <2>9. r = [i \in 1 .. 3 |-> r[i]]
      BY <2>4
    <2>10. r = t
      BY ONLY <2>7, <2>8, <2>9
    <2> QED BY <1>1, <1>2, <2>5, <2>10
  <1> QED BY <1>8, <1>9

\* A function on the numbers up to l is a list.
LEMMA ListOver ==
    ASSUME NEW S, NEW l \in Nat, NEW h, h = [i \in 1 .. l |-> h[i]], \A i \in 1 .. l : h[i] \in S
    PROVE  h \in Seq(S) /\ Len(h) = l
  OBVIOUS

\* The oldest turns of a transcript are folded.
LEMMA ToldFolded ==
    ASSUME NEW q, NEW turns \in Nat, NEW waiting, Told(q, turns, waiting),
           NEW k \in Nat, k # 0, k < Len(q.groups)
    PROVE  Told(Folded(q, k), turns, waiting)
  <1>1. PICK a \in Seq(Notes), gs \in Seq(Seq(Notes)) : q = [anchors |-> a, groups |-> gs]
    BY DEF Told, GoodParts, Parts
  <1>2. PICK n \in Nat : n = Len(gs) /\ k < n
    BY <1>1, LenProperties
  <1>3. PICK f \in Nat : f = turns - n
    <2>1. n <= turns
      BY <1>1, <1>2 DEF Told
    <2>2. turns - n \in Nat
      BY <2>1
    <2> QED BY <2>2
  <1>4. /\ GoodParts(q) /\ n <= turns /\ a = Anchors(f)
        /\ \A i \in 1 .. n : Tells(gs[i], f + i, IF i = n THEN waiting ELSE {})
    BY <1>1, <1>2, <1>3 DEF Told
  <1>5. {gs[i][1].turn : i \in 1 .. k} = f + 1 .. f + k
    <2>1. \A i \in 1 .. k : gs[i][1].turn = f + i
      BY <1>2, <1>4 DEF Tells
    <2>2. f + 1 .. f + k = {f + i : i \in 1 .. k}
      <3>1. \A x \in f + 1 .. f + k : x - f \in 1 .. k /\ x = f + (x - f)
        OBVIOUS
      <3>2. \A i \in 1 .. k : f + i \in f + 1 .. f + k
        OBVIOUS
      <3> QED BY <3>1, <3>2
    <2> QED BY <2>1, <2>2
  <1>6. PICK rest : rest = SubSeq(gs, k + 1, n)
    OBVIOUS
  <1>7. PICK l \in Nat : l = n - k /\ l # 0
    <2>1. n - k \in Nat /\ n - k # 0
      BY <1>2
    <2> QED BY <2>1
  <1>8. /\ rest \in Seq(Seq(Notes)) /\ Len(rest) = l
        /\ \A i \in 1 .. l : rest[i] = gs[k + i]
    <2>1. rest = [i \in 1 .. l |-> gs[k + i]]
      BY <1>2, <1>6, <1>7
    <2>2. \A i \in 1 .. l : k + i \in 1 .. n /\ gs[k + i] \in Seq(Notes)
      BY <1>2, <1>7
    <2>3. /\ \A i \in 1 .. l : rest[i] = gs[k + i]
          /\ rest = [i \in 1 .. l |-> rest[i]]
      BY ONLY <2>1
    <2>4. \A i \in 1 .. l : rest[i] \in Seq(Notes)
      BY <2>2, <2>3
    <2> QED BY <2>3, <2>4, ListOver
  <1>9. Folded(q, k) = [anchors |-> Anchors(f + k), groups |-> rest]
    <2>1. q.anchors = a /\ q.groups = gs
      BY <1>1
    <2>2. AddToDigest(a, f + 1 .. f + k) = Anchors(f + k)
      BY <1>4, AnchorsFolded
    <2> QED BY <1>2, <1>5, <1>6, <2>1, <2>2 DEF Folded
  <1>10. PICK p : p = [anchors |-> Anchors(f + k), groups |-> rest]
    OBVIOUS
  <1>11. p.anchors = Anchors(f + k) /\ p.groups = rest
    BY <1>10
  <1>12. GoodParts(p)
    <2>1. Anchors(f + k) \in Seq(Notes)
      BY AnchorsAre
    <2>2. \A m \in Elements(Anchors(f + k)) : m.role # "assistant"
      <3>1. \A x : \A o \in {"system", "human", "digest"} : Message(o, 0, x).role # "assistant"
        BY DEF Message
      <3>2. \A m \in Elements(Anchors(f + k)) :
               \E x : \E o \in {"system", "human", "digest"} : m = Message(o, 0, x)
        BY f + k \in Nat, AnchorsAre
      <3> QED BY <3>1, <3>2
    <2>3. \A g \in Elements(rest) : IsGroup(g)
      <3>1. \A g \in Elements(gs) : IsGroup(g)
        BY <1>1, <1>4 DEF GoodParts
      <3>2. \A i \in 1 .. l : k + i \in 1 .. n
        BY <1>2, <1>7
      <3> QED BY <1>2, <1>8, <3>1, <3>2 DEF Elements
    <2>4. p \in Parts
      BY <1>8, <1>10, <2>1 DEF Parts
    <2> QED BY <1>11, <2>2, <2>3, <2>4 DEF GoodParts
  <1>13. turns - l = f + k
    BY <1>3, <1>7
  <1>14. ASSUME NEW i \in 1 .. l
         PROVE  Tells(rest[i], turns - l + i, IF i = l THEN waiting ELSE {})
    <2>1. PICK j \in 1 .. n : j = k + i
      BY <1>2, <1>7
    <2>2. turns - l + i = f + j /\ (i = l <=> j = n)
      <3>1. l = n - k /\ turns - l = f + k
        BY <1>7, <1>13
      <3> QED BY ONLY n \in Nat, k \in Nat, f \in Nat, turns \in Nat, l \in Nat, i \in 1 .. l, <2>1, <3>1
    <2>3. rest[i] = gs[j]
      BY <1>8, <2>1
    <2>4. Tells(gs[j], f + j, IF j = n THEN waiting ELSE {})
      BY <1>4
    <2> QED BY <2>2, <2>3, <2>4
  <1>15. Told(p, turns, waiting)
    <2>1. Len(p.groups) = l /\ p.groups # <<>> /\ l <= turns
      <3>1. l <= turns
        BY <1>2, <1>4, <1>7
      <3>2. Len(rest) = l /\ rest # <<>>
        BY <1>7, <1>8, EmptySeq
      <3> QED BY <1>11, <3>1, <3>2
    <2>2. p.anchors = Anchors(turns - l)
      BY <1>11, <1>13
    <2>3. \A i \in 1 .. l : Tells(p.groups[i], turns - l + i, IF i = l THEN waiting ELSE {})
      BY <1>11, <1>14
    <2> QED BY ONLY <1>12, <2>1, <2>2, <2>3 DEF Told
  <1> QED BY <1>9, <1>10, <1>15

\* The rounds end before the last group.
LEMMA RoundsEnd ==
    ASSUME NEW parts, NEW n \in Nat, n = Len(parts.groups), NEW maxTurns, NEW limit
    PROVE  Rounds(parts, maxTurns, limit) \in 0 .. AtLeast(0, n - 1)
  <1> DEFINE Over(k) == \E after \in {Folded(parts, k)} : IsOver(after, maxTurns, limit)
  <1>1. PICK last \in Nat : last = AtLeast(0, n - 1)
    <2>1. AtLeast(0, n - 1) \in Nat
      BY DEF AtLeast
    <2> QED BY <2>1
  <1> DEFINE Stops(k) == /\ k = last \/ ~ Over(k)
                         /\ \A j \in 0 .. k - 1 : Over(j)
             T == {k \in 0 .. last : k = last \/ ~ Over(k)}
  <1>2. Rounds(parts, maxTurns, limit) = CHOOSE k \in 0 .. last : Stops(k)
    BY <1>1 DEF Rounds
  <1> HIDE DEF Over
  <1>3. T \in SUBSET Nat /\ last \in T
    OBVIOUS
  <1>4. PICK k \in T : \A j \in T : k <= j
    <2> HIDE DEF T
    <2> QED BY <1>3, LeastOf
  <1>5. \A j \in 0 .. k - 1 : Over(j)
    <2>1. \A j \in 0 .. k - 1 : j \notin T /\ j \in 0 .. last
      BY <1>4
    <2> QED BY <2>1
  <1>6. k \in 0 .. last /\ Stops(k)
    BY <1>4, <1>5
  <1>7. (CHOOSE x \in 0 .. last : Stops(x)) \in 0 .. last
    <2> HIDE DEF Stops
    <2> QED BY <1>6
  <1> QED BY <1>1, <1>2, <1>7

\* Whatever is folded, the transcript tells the same.
LEMMA ToldRest ==
    ASSUME NEW q, NEW turns \in Nat, NEW waiting, Told(q, turns, waiting), msgs = Reassemble(q),
           NEW k \in Folds
    PROVE  \E p : Rest(k) = Reassemble(p) /\ Told(p, turns, waiting)
  <1>1. CASE k = 0
    BY <1>1 DEF Rest
  <1>2. CASE k # 0
    <2>1. Partition(msgs) = q
      BY Repartitioned DEF Told
    <2>2. PICK n \in Nat : n = Len(q.groups)
      <3>1. q.groups \in Seq(Seq(Notes))
        BY DEF Told, GoodParts, Parts
      <3> QED BY <3>1, LenProperties
    <2>3. k = Rounds(q, loop.max, Limit)
      BY <1>2, <2>1 DEF Folds
    <2>4. k \in 0 .. AtLeast(0, n - 1)
      BY <2>2, <2>3, RoundsEnd
    <2>5. k \in Nat /\ k < n
      BY <1>2, <2>4 DEF AtLeast
    <2>6. Rest(k) = Reassemble(Folded(q, k))
      BY <1>2, <2>1 DEF Rest
    <2>7. Told(Folded(q, k), turns, waiting)
      BY <1>2, <2>2, <2>5, ToldFolded
    <2> QED BY <2>6, <2>7
  <1> QED BY <1>1, <1>2

\* The answers of a group.
Answers(g) == {g[j] : j \in Results(g)}

\* The answered calls of the groups, and their turns.
LEMMA ToldSays ==
    ASSUME NEW q, NEW turns \in Nat, NEW waiting, Told(q, turns, waiting)
    PROVE  LET all == Elements(Reassemble(q))
               Having(role) == {m \in all : m.role = role}
           IN  /\ (UNION {m.of : m \in Having("assistant")})
                    \ (UNION {m.of : m \in Having("tool")}) = waiting
               /\ {m.turn : m \in Having("assistant")} = turns - Len(q.groups) + 1 .. turns
               /\ UNION {m.of : m \in Having("digest")} = 1 .. turns - Len(q.groups)
               /\ Reassemble(q) \in Seq(Notes)
               /\ SubSeq(Reassemble(q), 1, 2) = Opening
  <1>1. PICK a \in Seq(Notes), gs \in Seq(Seq(Notes)) : q = [anchors |-> a, groups |-> gs]
    BY DEF Told, GoodParts, Parts
  <1>2. PICK n \in Nat : n = Len(gs)
    BY LenProperties
  <1>3. n <= turns
    BY <1>1, <1>2 DEF Told
  <1>4. PICK f \in Nat : f = turns - n
    <2>1. turns - n \in Nat
      BY <1>3
    <2> QED BY <2>1
  <1>5. /\ GoodParts(q) /\ a = Anchors(f) /\ (gs = <<>> => waiting = {})
        /\ \A i \in 1 .. n : Tells(gs[i], f + i, IF i = n THEN waiting ELSE {})
    BY <1>1, <1>2, <1>4 DEF Told
  <1> DEFINE all == Elements(Reassemble(q))
             Having(role) == {m \in all : m.role = role}
  <1>6. all = Elements(a) \cup UNION {Elements(g) : g \in Elements(gs)}
    BY <1>1, <1>5, ReassembledTyped
  <1>7. /\ \A i \in 1 .. n : gs[i][1].role = "assistant" /\ gs[i] \in Seq(Notes) /\ Len(gs[i]) \in Nat \ {0}
        /\ \A i \in 1 .. n : \A j \in 2 .. Len(gs[i]) : gs[i][j].role \in Inside
    <2> SUFFICES ASSUME NEW i \in 1 .. n
                 PROVE  /\ gs[i][1].role = "assistant" /\ gs[i] \in Seq(Notes)
                        /\ Len(gs[i]) \in Nat \ {0}
                        /\ \A j \in 2 .. Len(gs[i]) : gs[i][j].role \in Inside
      OBVIOUS
    <2>1. PICK g : g = gs[i]
      OBVIOUS
    <2>2. g \in Seq(Notes) /\ g \in Elements(gs)
      BY <1>2, <2>1 DEF Elements
    <2>3. IsGroup(g)
      BY <1>1, <1>5, <2>2 DEF GoodParts
    <2>4. g # <<>> /\ Len(g) \in Nat \ {0}
      BY <2>2, <2>3, EmptySeq, LenProperties DEF IsGroup
    <2> QED BY <2>1, <2>2, <2>3, <2>4 DEF IsGroup
  <1> HIDE DEF all
  <1>8. all = Elements(a) \cup UNION {Elements(gs[i]) : i \in 1 .. n}
    <2>1. Elements(gs) = {gs[i] : i \in 1 .. n}
      BY <1>2 DEF Elements
    <2> QED BY <1>6, <2>1
  <1>9. \A i \in 1 .. n : Elements(gs[i]) = {gs[i][j] : j \in 1 .. Len(gs[i])}
    BY DEF Elements
  <1>10. \A m \in Elements(a) : m.role \in {"system", "human", "digest"}
    <2>1. \A x : \A o \in {"system", "human", "digest"} : Message(o, 0, x).role = o
      BY DEF Message
    <2>2. \A m \in Elements(Anchors(f)) :
             \E x : \E o \in {"system", "human", "digest"} : m = Message(o, 0, x)
      BY AnchorsAre
    <2>3. a = Anchors(f)
      BY <1>5
    <2> QED BY ONLY <2>1, <2>2, <2>3
  <1>11. Having("assistant") = {gs[i][1] : i \in 1 .. n}
    <2>1. ASSUME NEW m \in all, m.role = "assistant" PROVE m \in {gs[i][1] : i \in 1 .. n}
      <3>0. PICK i \in 1 .. n : m \in Elements(gs[i])
        <4>1. m \notin Elements(a)
          BY <1>10, <2>1
        <4> QED BY ONLY m \in all, <1>8, <4>1
      <3>1. PICK j \in 1 .. Len(gs[i]) : m = gs[i][j]
        BY <3>0 DEF Elements
      <3>2. j = 1
        <4>1. j \notin 2 .. Len(gs[i])
          BY <1>7, <2>1, <3>1 DEF Inside
        <4> QED BY <1>7, <4>1
      <3> QED BY <3>1, <3>2
    <2>2. ASSUME NEW i \in 1 .. n PROVE gs[i][1] \in all /\ gs[i][1].role = "assistant"
      <3>1. 1 \in 1 .. Len(gs[i])
        BY <1>7
      <3>2. gs[i][1] \in all
        BY ONLY <1>8, <1>9, <3>1, i \in 1 .. n
      <3> QED BY <1>7, <3>2
    <2> QED BY <2>1, <2>2
  <1>12. Having("tool") = UNION {Answers(gs[i]) : i \in 1 .. n}
    <2>1. ASSUME NEW m \in all, m.role = "tool"
          PROVE  \E i \in 1 .. n : \E j \in Results(gs[i]) : m = gs[i][j]
      <3>0. PICK i \in 1 .. n : m \in Elements(gs[i])
        <4>1. m \notin Elements(a)
          BY <1>10, <2>1
        <4> QED BY ONLY m \in all, <1>8, <4>1
      <3>1. PICK j \in 1 .. Len(gs[i]) : m = gs[i][j]
        BY <3>0 DEF Elements
      <3>2. j # 1
        BY <1>7, <2>1, <3>1
      <3>3. j \in Results(gs[i])
        BY <1>7, <2>1, <3>1, <3>2 DEF Results
      <3> QED BY <3>1, <3>3
    <2>2. ASSUME NEW i \in 1 .. n, NEW j \in Results(gs[i])
          PROVE  gs[i][j] \in all /\ gs[i][j].role = "tool"
      <3>1. j \in 1 .. Len(gs[i]) /\ gs[i][j].role = "tool"
        BY <1>7 DEF Results
      <3>2. gs[i][j] \in all
        BY ONLY <1>8, <1>9, <3>1, i \in 1 .. n
      <3> QED BY <3>1, <3>2
    <2> QED BY <2>1, <2>2 DEF Answers
  <1>13. Having("digest") = IF f = 0 THEN {} ELSE {Message("digest", 0, 1 .. f)}
    <2>1. \A m \in all : m.role = "digest" => m \in Elements(a)
      <3>1. \A i \in 1 .. n : \A j \in 1 .. Len(gs[i]) : gs[i][j].role # "digest"
        <4> SUFFICES ASSUME NEW i \in 1 .. n, NEW j \in 1 .. Len(gs[i]) PROVE gs[i][j].role # "digest"
          OBVIOUS
        <4>1. CASE j = 1
          BY <1>7, <4>1
        <4>2. CASE j # 1
          <5>1. j \in 2 .. Len(gs[i])
            BY <1>7, <4>2
          <5> QED BY <1>7, <5>1 DEF Inside
        <4> QED BY <4>1, <4>2
      <3>2. \A i \in 1 .. n : \A m \in Elements(gs[i]) : m.role # "digest"
        BY <3>1 DEF Elements
      <3> QED BY ONLY <1>8, <3>2
    <2>2. PICK s, h, d : /\ s = Message("system", 0, {}) /\ h = Message("human", 0, {})
                         /\ d = Message("digest", 0, 1 .. f)
      OBVIOUS
    <2>3. s.role # "digest" /\ h.role # "digest" /\ d.role = "digest"
      BY <2>2 DEF Message
    <2>4. Elements(a) = {s, h} \cup (IF f = 0 THEN {} ELSE {d})
      BY <1>5, <2>2, AnchorsAre
    <2> QED BY <1>8, <2>1, <2>2, <2>3, <2>4
  <1>14. UNION {m.of : m \in Having("digest")} = 1 .. f
    <2>1. Message("digest", 0, 1 .. f).of = 1 .. f
      BY DEF Message
    <2>2. f = 0 => 1 .. f = {}
      OBVIOUS
    <2> HIDE DEF Having
    <2> QED BY <1>13, <2>1, <2>2
  <1>15. {m.turn : m \in Having("assistant")} = f + 1 .. turns
    <2>1. \A i \in 1 .. n : gs[i][1].turn = f + i
      BY <1>5 DEF Tells
    <2>2. {m.turn : m \in Having("assistant")} = {gs[i][1].turn : i \in 1 .. n}
      <3> HIDE DEF Having
      <3> QED BY <1>11
    <2>3. {f + i : i \in 1 .. n} = f + 1 .. turns
      <3>1. \A x \in f + 1 .. turns : x - f \in 1 .. n /\ x = f + (x - f)
        BY <1>4
      <3>2. \A i \in 1 .. n : f + i \in f + 1 .. turns
        BY <1>4
      <3> QED BY <3>1, <3>2
    <2> QED BY <2>1, <2>2, <2>3
  <1>16. (UNION {m.of : m \in Having("assistant")}) \ (UNION {m.of : m \in Having("tool")}) = waiting
    <2> DEFINE calls == UNION {gs[i][1].of : i \in 1 .. n}
               answers == UNION {AnsweredIn(gs[i]) : i \in 1 .. n}
    <2>1. UNION {m.of : m \in Having("assistant")} = calls
      <3> HIDE DEF Having
      <3> QED BY <1>11
    <2>2. UNION {m.of : m \in Having("tool")} = answers
      <3>1. \A i \in 1 .. n : AnsweredIn(gs[i]) = UNION {m.of : m \in Answers(gs[i])}
        BY DEF AnsweredIn, Answers
      <3> HIDE DEF Having
      <3> QED BY <1>12, <3>1
    <2>3. \A i \in 1 .. n : /\ \A id \in gs[i][1].of : id[1] = f + i
                            /\ AnsweredIn(gs[i]) = gs[i][1].of \ (IF i = n THEN waiting ELSE {})
      BY <1>5 DEF Tells, Settled
    <2>4. ASSUME NEW id \in calls, id \notin answers PROVE id \in waiting
      <3>1. PICK i \in 1 .. n : id \in gs[i][1].of
        OBVIOUS
      <3>2. id \notin AnsweredIn(gs[i])
        BY <2>4
      <3> QED BY <2>3, <3>1, <3>2
    <2>5. ASSUME NEW id \in waiting PROVE id \in calls /\ id \notin answers
      <3>1. n \in 1 .. n
        <4>1. gs # <<>>
          BY <1>5, <2>5
        <4> QED BY <1>2, <4>1, EmptySeq
      <3>2. waiting \subseteq gs[n][1].of
        BY <1>5, <3>1 DEF Tells, Settled
      <3>3. id \in gs[n][1].of /\ id[1] = f + n
        BY <2>3, <3>1, <3>2
      <3>4. ASSUME NEW i \in 1 .. n, id \in AnsweredIn(gs[i]) PROVE FALSE
        <4>1. id \in gs[i][1].of
          BY <2>3, <3>4
        <4>2. id[1] = f + i
          BY <2>3, <4>1
        <4>3. i = n
          BY <3>3, <4>2
        <4> QED BY <2>3, <2>5, <3>4, <4>3
      <3> QED BY <3>1, <3>3, <3>4
    <2> HIDE DEF calls, answers, Having
    <2> QED BY <2>1, <2>2, <2>4, <2>5
  <1>17. Reassemble(q) \in Seq(Notes)
    BY <1>5, ReassembledTyped
  <1>18. SubSeq(Reassemble(q), 1, 2) = Opening
    <2>1. PICK o \in Seq(Notes) : o = Opening /\ Len(o) = 2
      BY OpeningNoted
    <2>2. Len(a) \in Nat /\ Len(a) >= 2 /\ a[1] = o[1] /\ a[2] = o[2]
      <3>1. a = Anchors(f)
        BY <1>5
      <3>2. /\ Len(Anchors(f)) = IF f = 0 THEN 2 ELSE 3
            /\ Anchors(f)[1] = Opening[1] /\ Anchors(f)[2] = Opening[2]
        BY AnchorsAre, OpeningNoted
      <3> QED BY <2>1, <3>1, <3>2
    <2>3. PICK t \in Seq(Notes) : t = FlattenSeq(gs)
      BY FlattenElements
    <2>4. PICK s : s = a \o t
      OBVIOUS
    <2>5. Reassemble(q) = s
      BY <1>1, <2>3, <2>4 DEF Reassemble
    <2>6. s \in Seq(Notes) /\ Len(s) = Len(a) + Len(t) /\ \A i \in 1 .. Len(a) : s[i] = a[i]
      BY <2>4, ConcatProperties
    <2>7. 1 \in 1 .. Len(a) /\ 2 \in 1 .. Len(a)
      BY <2>2
    <2>8. s[1] = o[1] /\ s[2] = o[2] /\ Len(s) >= 2
      <3>1. s[1] = a[1] /\ s[2] = a[2]
        BY <2>6, <2>7
      <3>2. Len(t) \in Nat
        BY LenProperties
      <3> QED BY <2>2, <2>6, <3>1, <3>2
    <2>9. SubSeq(s, 1, 2) = [i \in 1 .. 2 |-> s[i]]
      BY <2>6, <2>8
    <2>10. o = [i \in 1 .. 2 |-> o[i]]
      BY <2>1
    <2>11. \A i \in 1 .. 2 : s[i] = o[i]
      <3>1. \A i \in 1 .. 2 : i = 1 \/ i = 2
        OBVIOUS
      <3> QED BY <2>8, <3>1
    <2>12. SubSeq(s, 1, 2) = o
      BY ONLY <2>9, <2>10, <2>11
    <2> QED BY <2>1, <2>5, <2>12
  <1> HIDE DEF Having
  <1>19. q.groups = gs /\ turns - n = f
    BY <1>1, <1>4
  <1> QED BY <1>2, <1>14, <1>15, <1>16, <1>17, <1>18, <1>19 DEF Having, all

-----------------------------------------------------------------------------
\* The transcript of every state.

\* The calls whose answers are still to come: those of the batch, or the
\* _submit the loop ended with.
Pending ==
    IF pc = "batch" THEN IdsOf(batch)
    ELSE IF pc \in {"check", "final", "done"} THEN {<<asked, 1>>} ELSE {}

\* Until a step fails, its transcript tells all turns, and only pending calls
\* have no answer.
TalkInv ==
    step.kind = "react" /\ (pc = "done" => outcome = "ok") =>
       /\ \E q : msgs = Reassemble(q) /\ Told(q, asked, Pending)
       /\ pc = "batch" => Distinct(batch)

\* The ids of a response are finitely many.
LEMMA IdsFinite ==
    ASSUME NEW names \in Batches, NEW turn \in Nat
    PROVE  /\ Ids(turn, names) \in SUBSET (Nat \X Nat) /\ IsFiniteSet(Ids(turn, names))
           /\ \A id \in Ids(turn, names) : id[1] = turn
  <1>1. PICK n \in 1 .. MaxBatch : names \in [1 .. n -> Names]
    BY DEF Batches
  <1>2. Len(names) = n /\ n \in Nat
    BY <1>1, BoundAssumption
  <1>3. Ids(turn, names) = {<<turn, i>> : i \in 1 .. n}
    BY <1>2 DEF Ids
  <1>4. IsFiniteSet({<<turn, i>> : i \in 1 .. n})
    <2>1. PICK f : f = [i \in 1 .. n |-> <<turn, i>>]
      OBVIOUS
    <2>2. IsFiniteSet(1 .. n)
      BY <1>2, FS_Interval
    <2>3. {<<turn, i>> : i \in 1 .. n} = {f[i] : i \in 1 .. n}
      BY <2>1
    <2>4. f \in [1 .. n -> {<<turn, i>> : i \in 1 .. n}]
      BY <2>1
    <2>5. f \in Surjection(1 .. n, {<<turn, i>> : i \in 1 .. n})
      BY <2>3, <2>4 DEF Surjection
    <2> QED
      BY <2>2, <2>5, FS_Surjection
  <1> QED
    BY <1>3, <1>4, IdsTyped

\* Every step leaves a transcript that tells all turns.
LEMMA TalkStep == PhaseInv /\ GovernedInv /\ TalkInv /\ [Next]_vars => TalkInv'
  <1> SUFFICES ASSUME PhaseInv, GovernedInv, TalkInv, [Next]_vars PROVE TalkInv'
    OBVIOUS
  <1>1. UNCHANGED step
    BY DEF Next, LoadSource, FinishLoading, Ask, LlmFails, TooExpensive, TextExit, Call,
           DeferSubmit, RunTool, ToolFails, SoftRetry, LoopEnds, Finalize, Complete, RunCommit,
           vars
  <1> SUFFICES ASSUME step.kind = "react" PROVE TalkInv'
    BY <1>1 DEF TalkInv
  <1>2. /\ asked \in Nat /\ (pc = "done" <=> outcome # "none")
        /\ pc \notin {"simple", "commit"}
    BY DEF PhaseInv
  <1>4. ASSUME pc' = "done" /\ outcome' # "ok" PROVE TalkInv'
    BY <1>4 DEF TalkInv
  <1>5. ASSUME UNCHANGED <<msgs, asked, batch, outcome>>,
               \/ UNCHANGED pc
               \/ pc \in {"load", "ask", "llm"} /\ pc' \in {"load", "ask", "llm"}
        PROVE  TalkInv'
    <2>1. UNCHANGED Pending /\ (pc' = "batch" <=> pc = "batch") /\ (pc' = "done" <=> pc = "done")
      BY <1>5 DEF Pending, IdsOf
    <2>2. Distinct(batch)' <=> Distinct(batch)
      BY <1>5 DEF Distinct
    <2> QED
      BY <1>1, <1>5, <2>1, <2>2 DEF TalkInv
  <1>6. ASSUME UNCHANGED <<msgs, asked>>, pc \in {"check", "final"}, pc' \in {"final", "done"}
        PROVE  TalkInv'
    <2>1. UNCHANGED Pending
      BY <1>6 DEF Pending
    <2>2. \E q : msgs = Reassemble(q) /\ Told(q, asked, Pending)
      BY <1>6 DEF TalkInv
    <2> QED
      BY <1>6, <2>1, <2>2 DEF TalkInv
  <1> USE DEF Fail, talking, history
  <1>7. CASE LoadSource \/ FinishLoading \/ LlmFails \/ ToolFails
    BY <1>2, <1>4, <1>5, <1>7 DEF LoadSource, FinishLoading, LlmFails, ToolFails
  <1>8. CASE LoopEnds \/ Finalize \/ TooExpensive
    BY <1>4, <1>6, <1>8 DEF LoopEnds, Finalize, TooExpensive
  <1>9. CASE Ask
    <2>1. CASE pc' = "done" /\ outcome' # "ok"
      BY <1>4, <2>1
    <2>2. CASE pc' = "llm" /\ UNCHANGED outcome /\ \E k \in Folds : msgs' = Rest(k)
      <3>1. pc = "ask" /\ UNCHANGED asked /\ Pending = {} /\ Pending' = {}
        BY <1>9, <2>2 DEF Ask, Pending
      <3>2. PICK k \in Folds : msgs' = Rest(k)
        BY <2>2
      <3>3. PICK q : msgs = Reassemble(q) /\ Told(q, asked, {})
        BY <3>1 DEF TalkInv
      <3>4. \E p : Rest(k) = Reassemble(p) /\ Told(p, asked, {})
        BY <1>2, <3>3, ToldRest
      <3> QED
        BY <2>2, <3>1, <3>2, <3>4 DEF TalkInv
    <2> QED
      BY <1>9, <2>1, <2>2 DEF Ask
  <1>10. ASSUME pc = "llm", asked' = asked + 1, NEW of \in SUBSET (Nat \X Nat), IsFiniteSet(of),
                \A id \in of : id[1] = asked + 1
         PROVE  \E p : /\ Append(msgs, Message("assistant", asked', of)) = Reassemble(p)
                       /\ Told(p, asked', of)
    <2>1. Pending = {}
      BY <1>10 DEF Pending
    <2>2. PICK q : msgs = Reassemble(q) /\ Told(q, asked, {})
      BY <1>10, <2>1 DEF TalkInv
    <2>3. PICK turn \in Nat : turn = asked + 1
      BY <1>2
    <2>4. PICK m \in Notes : m = Message("assistant", turn, of)
      BY <2>3 DEF Notes, Message, Roles
    <2>5. m.role = "assistant" /\ m.turn = asked + 1 /\ m.of = of
      BY <2>3, <2>4 DEF Message
    <2>6. \E p : Append(Reassemble(q), m) = Reassemble(p) /\ Told(p, asked + 1, m.of)
      BY <1>2, <1>10, <2>2, <2>5, ToldResponse
    <2> QED
      BY <1>10, <2>2, <2>3, <2>4, <2>5, <2>6
  <1>11. CASE TextExit
    <2>1. /\ pc = "llm" /\ asked' = asked + 1 /\ outcome = "none"
          /\ \/ pc' = "done" /\ outcome' # "ok"
             \/ /\ pc' = "ask" /\ outcome' = outcome
                /\ msgs' = msgs \o <<Message("assistant", asked', {}), Message("human", asked', {})>>
      BY <1>2, <1>11 DEF TextExit, Responded
    <2>2. CASE /\ pc' = "ask"
               /\ msgs' = msgs \o <<Message("assistant", asked', {}), Message("human", asked', {})>>
      <3>1. PICK turn \in Nat : turn = asked'
        BY <1>2, <2>1
      <3>2. PICK m \in Notes, h \in Notes : m = Message("assistant", turn, {}) /\ h = Message("human", turn, {})
        BY DEF Notes, Message, Roles
      <3>3. {} \in SUBSET (Nat \X Nat) /\ IsFiniteSet({}) /\ \A id \in {} : id[1] = asked + 1
        BY FS_EmptySet
      <3>4. PICK p : Append(msgs, m) = Reassemble(p) /\ Told(p, turn, {})
        BY <1>10, <2>1, <3>1, <3>2, <3>3
      <3>5. p.groups # <<>>
        BY <1>2, <2>1, <3>1, <3>4 DEF Told
      <3>6. h.role = "human"
        BY <3>2 DEF Message
      <3>7. PICK r : Append(Reassemble(p), h) = Reassemble(r) /\ Told(r, turn, {})
        <4>1. Leaves(h, {}, {})
          BY <3>6 DEF Leaves
        <4> QED
          BY ONLY turn \in Nat, h \in Notes, <3>4, <3>5, <4>1, ToldInside
      <3>8. msgs' = Append(Append(msgs, m), h)
        <4>1. PICK s \in Seq(Notes) : s = msgs
          <5>1. PICK q : msgs = Reassemble(q) /\ Told(q, asked, Pending)
            BY <2>1 DEF TalkInv
          <5> QED
            BY <5>1, ReassembledTyped DEF Told
        <4>2. s \o <<m, h>> = Append(Append(s, m), h)
          OBVIOUS
        <4> QED
          BY <2>2, <3>1, <3>2, <4>1, <4>2
      <3>9. Pending' = {}
        BY <2>2 DEF Pending
      <3> QED
        BY <2>2, <3>1, <3>4, <3>7, <3>8, <3>9 DEF TalkInv
    <2> QED
      BY <1>4, <2>1, <2>2
  <1>12. ASSUME NEW names \in Batches, Call(names) PROVE TalkInv'
    <2>1. /\ pc = "llm" /\ asked' = asked + 1 /\ outcome = "none"
          /\ msgs' = Append(msgs, Message("assistant", asked', Ids(asked', names)))
      BY <1>2, <1>12 DEF Call, Responded
    <2>2. PICK turn \in Nat : turn = asked'
      BY <1>2, <2>1
    <2>3. PICK of \in SUBSET (Nat \X Nat) : /\ of = Ids(turn, names) /\ IsFiniteSet(of)
                                            /\ \A id \in of : id[1] = asked + 1
      BY <2>1, <2>2, IdsFinite
    <2>4. PICK p : msgs' = Reassemble(p) /\ Told(p, asked', of)
      BY <1>10, <2>1, <2>2, <2>3
    <2>5. CASE pc' = "done" /\ outcome' = "TOOL_NOT_ALLOWED"
      BY <1>4, <2>5
    <2>6. CASE pc' = "check" /\ IsSubmit(names)
      <3>1. of = {<<turn, 1>>}
        BY <2>3, <2>6 DEF IsSubmit, Ids
      <3>2. Pending' = of
        BY <2>2, <2>6, <3>1 DEF Pending
      <3> QED
        BY <2>4, <2>6, <3>2 DEF TalkInv
    <2>7. CASE /\ pc' = "batch"
               /\ batch' = [i \in 1 .. Len(names) |-> [tool |-> names[i], id |-> <<asked', i>>]]
      <3>1. PICK calls : calls = batch'
        OBVIOUS
      <3>2. calls = [i \in 1 .. Len(names) |-> [tool |-> names[i], id |-> <<turn, i>>]]
        BY <2>2, <2>7, <3>1
      <3>3. IdsOf(calls) = of /\ Distinct(calls)
        BY <2>3, <3>2, NewIds
      <3>4. IdsOf(batch)' = of /\ Distinct(batch)'
        BY <3>1, <3>3 DEF IdsOf, Distinct
      <3>5. Pending' = of
        BY <2>7, <3>4 DEF Pending
      <3> QED
        BY <2>4, <3>4, <3>5 DEF TalkInv
    <2> QED
      BY <1>12, <2>5, <2>6, <2>7 DEF Call
  <1>13. ASSUME pc # "done", NEW id \in Pending, id \in Nat \X Nat, UNCHANGED asked
         PROVE  \E p : /\ Append(msgs, Message("tool", asked, {id})) = Reassemble(p)
                       /\ Told(p, asked, Pending \ {id})
    <2>1. PICK q : msgs = Reassemble(q) /\ Told(q, asked, Pending)
      BY <1>13 DEF TalkInv
    <2>2. q.groups # <<>>
      BY <1>13, <2>1 DEF Told
    <2>3. PICK m \in Notes : m = Message("tool", asked, {id})
      BY <1>2, <1>13 DEF Notes, Message, Roles
    <2>4. m.role = "tool" /\ m.of = {id}
      BY <2>3 DEF Message
    <2>5. PICK waiting, left : waiting = Pending /\ left = waiting \ {id}
      OBVIOUS
    <2>6. \E p : Append(Reassemble(q), m) = Reassemble(p) /\ Told(p, asked, left)
      <3>1. Told(q, asked, waiting) /\ id \in waiting
        BY <1>13, <2>1, <2>5
      <3>2. PICK turn \in Nat : turn = asked
        BY <1>2
      <3>3. Leaves(m, waiting, left)
        BY <2>4, <2>5, <3>1 DEF Leaves
      <3>4. Told(q, turn, waiting)
        BY <3>1, <3>2
      <3>5. \E p : /\ Append(Reassemble(q), m) = Reassemble(p)
                   /\ Told(p, turn, left) /\ p.groups # <<>>
        BY ONLY m \in Notes, turn \in Nat, <2>2, <3>3, <3>4, ToldInside
      <3> QED
        BY <3>2, <3>5
    <2> QED
      BY <2>1, <2>3, <2>5, <2>6
  <1>14. ASSUME pc = "batch", UNCHANGED <<asked, outcome>>, batch' = Tail(batch),
                msgs' = Append(msgs, Message("tool", asked, {Head(batch).id})),
                pc' = IF Len(batch) = 1 THEN "ask" ELSE "batch"
         PROVE  TalkInv'
    <2>1. PICK S : batch \in Seq(S) /\ S = Calls(asked, offered \cup {Submit, Nameless})
      BY <1>14 DEF GovernedInv
    <2>2. batch # <<>> /\ Distinct(batch) /\ Pending = IdsOf(batch)
      BY <1>14 DEF GovernedInv, TalkInv, Pending
    <2>3. PICK call : call = Head(batch) /\ call \in S
      BY <2>1, <2>2, RestOfBatch
    <2>4. PICK id \in Nat \X Nat : id = call.id
      BY <1>2, <2>1, <2>3 DEF Calls
    <2>5. /\ IdsOf(Tail(batch)) = IdsOf(batch) \ {id}
          /\ Distinct(Tail(batch))
          /\ Len(batch) = 1 => IdsOf(batch) = {id}
      BY <2>1, <2>2, <2>3, <2>4, RestOfIds
    <2>6. id \in Pending
      <3>1. Len(batch) \in Nat /\ Len(batch) # 0 /\ Head(batch) = batch[1]
        BY <2>1, <2>2, EmptySeq, LenProperties
      <3> QED
        BY <2>2, <2>3, <2>4, <3>1 DEF IdsOf
    <2>7. PICK p : msgs' = Reassemble(p) /\ Told(p, asked, Pending \ {id})
      BY <1>13, <1>14, <2>3, <2>4, <2>6
    <2>8. IdsOf(batch)' = IdsOf(Tail(batch)) /\ (Distinct(batch)' <=> Distinct(Tail(batch)))
      BY <1>14 DEF IdsOf, Distinct
    <2>9. Pending' = Pending \ {id}
      <3>1. CASE Len(batch) = 1
        BY <1>14, <2>2, <2>5, <3>1 DEF Pending
      <3>2. CASE Len(batch) # 1
        BY <1>14, <2>2, <2>5, <2>8, <3>2 DEF Pending
      <3> QED
        BY <3>1, <3>2
    <2> QED
      BY <1>14, <2>5, <2>7, <2>8, <2>9 DEF TalkInv
  <1>15. CASE DeferSubmit
    BY <1>14, <1>15 DEF DeferSubmit, RejectSubmit, Record
  <1>16. CASE RunTool
    BY <1>14, <1>16 DEF RunTool, Record
  <1>17. CASE SoftRetry
    <2>1. /\ pc = "check" /\ pc' = "ask" /\ UNCHANGED asked
          /\ msgs' = Append(msgs, Message("tool", asked, {<<asked, 1>>}))
      BY <1>17 DEF SoftRetry
    <2>2. PICK id \in Nat \X Nat : id = <<asked, 1>>
      BY <1>2
    <2>3. Pending = {id} /\ Pending' = {} /\ Pending \ {id} = {}
      BY <2>1, <2>2 DEF Pending
    <2>4. PICK p : msgs' = Reassemble(p) /\ Told(p, asked, {})
      BY <1>13, <2>1, <2>2, <2>3
    <2> QED
      BY <2>1, <2>3, <2>4 DEF TalkInv
  <1>18. CASE Complete \/ RunCommit
    BY <1>2, <1>18 DEF Complete, RunCommit
  <1>19. CASE UNCHANGED vars
    BY <1>5, <1>19 DEF vars
  <1> QED
    BY <1>7, <1>8, <1>9, <1>11, <1>12, <1>15, <1>16, <1>17, <1>18, <1>19 DEF Next

\* The transcript of every state.
LEMMA AlwaysTalk == Spec => []TalkInv
  <1>1. Init => TalkInv
    <2> SUFFICES ASSUME Init PROVE TalkInv
      OBVIOUS
    <2>1. msgs = Opening /\ asked = 0 /\ pc \in {"load", "simple"}
      BY DEF Init
    <2>2. Pending = {}
      BY <2>1 DEF Pending
    <2> QED
      BY <2>1, <2>2, ToldFirst DEF TalkInv
  <1> QED
    BY <1>1, TalkStep, AlwaysGoverned, Phases, PTL DEF Spec

\* What is sent to the model is a transcript a provider accepts, however often
\* compress_if_needed folded it: every call is answered once, in its own turn.
THEOREM TranscriptsAreWellFormed == Spec => []WellFormedTranscript
  <1>1. PhaseInv /\ TalkInv => WellFormedTranscript
    <2> SUFFICES ASSUME PhaseInv, TalkInv, pc = "llm",
                        NEW p, p = Partition(msgs)
                 PROVE  /\ \A i \in 1 .. Len(p.anchors) : p.anchors[i].role # "tool"
                        /\ \A g \in 1 .. Len(p.groups) :
                              LET group == p.groups[g]
                                  tool  == {i \in 2 .. Len(group) : group[i].role = "tool"}
                              IN  /\ UNION {group[i].of : i \in tool} = group[1].of
                                  /\ Cardinality(tool) = Cardinality(group[1].of)
      BY DEF WellFormedTranscript
    <2>1. PICK q : msgs = Reassemble(q) /\ Told(q, asked, {})
      BY DEF PhaseInv, TalkInv, Pending
    <2>2. p = q
      BY <2>1, Repartitioned DEF Told
    <2>3. ASSUME NEW i \in 1 .. Len(p.anchors) PROVE p.anchors[i].role # "tool"
      <3>1. PICK f \in Nat : p.anchors = Anchors(f)
        <4>1. asked - Len(q.groups) \in Nat
          <5>1. q.groups \in Seq(Seq(Notes)) /\ Len(q.groups) <= asked /\ asked \in Nat
            BY <2>1 DEF Told, GoodParts, Parts, PhaseInv
          <5>2. Len(q.groups) \in Nat
            BY <5>1, LenProperties
          <5> QED
            BY <5>1, <5>2
        <4> QED
          BY <2>1, <2>2, <4>1 DEF Told
      <3>2. p.anchors[i] \in Elements(Anchors(f))
        BY <3>1 DEF Elements
      <3>3. \A x : \A o \in {"system", "human", "digest"} : Message(o, 0, x).role = o
        BY DEF Message
      <3>4. \A m \in Elements(Anchors(f)) :
               \E x : \E o \in {"system", "human", "digest"} : m = Message(o, 0, x)
        BY AnchorsAre
      <3> QED
        BY ONLY <3>2, <3>3, <3>4
    <2>4. ASSUME NEW g \in 1 .. Len(p.groups)
          PROVE  LET group == p.groups[g]
                     tool  == {i \in 2 .. Len(group) : group[i].role = "tool"}
                 IN  /\ UNION {group[i].of : i \in tool} = group[1].of
                     /\ Cardinality(tool) = Cardinality(group[1].of)
      <3>1. PICK group : group = p.groups[g]
        OBVIOUS
      <3>2. Settled(group, {})
        BY <2>1, <2>2, <3>1 DEF Told, Tells
      <3>3. group[1].of \ {} = group[1].of
        OBVIOUS
      <3>4. AnsweredIn(group) = group[1].of /\ Cardinality(Results(group)) = Cardinality(group[1].of)
        BY <3>2, <3>3 DEF Settled
      <3> QED
        BY <3>1, <3>4 DEF AnsweredIn, Results
    <2> QED
      BY <2>3, <2>4
  <1> QED
    BY <1>1, AlwaysTalk, Phases, PTL

\* The model is never asked without the task, and no turn is lost by
\* compress_if_needed: each is in the transcript or in the digest, the latest in
\* the transcript.
THEOREM NoTurnIsForgotten == Spec => []NothingForgotten
  <1>1. PhaseInv /\ TalkInv => NothingForgotten
    <2> SUFFICES ASSUME PhaseInv, TalkInv, pc = "llm" PROVE NothingForgotten
      BY DEF NothingForgotten
    <2>1. PICK q : msgs = Reassemble(q) /\ Told(q, asked, {})
      BY DEF PhaseInv, TalkInv, Pending
    <2> DEFINE Having(role) == {m \in Elements(msgs) : m.role = role}
    <2>2. PICK n \in Nat : n = Len(q.groups) /\ n <= asked /\ asked \in Nat /\ (asked > 0 => n > 0)
      <3>1. q.groups \in Seq(Seq(Notes)) /\ Len(q.groups) <= asked /\ asked \in Nat
            /\ (q.groups = <<>> => asked = 0)
        BY <2>1 DEF Told, GoodParts, Parts, PhaseInv
      <3>2. Len(q.groups) \in Nat /\ (Len(q.groups) = 0 => q.groups = <<>>)
        BY <3>1, EmptySeq, LenProperties
      <3> QED
        BY <3>1, <3>2
    <2>3. /\ {m.turn : m \in Having("assistant")} = asked - n + 1 .. asked
          /\ UNION {m.of : m \in Having("digest")} = 1 .. asked - n
          /\ SubSeq(msgs, 1, 2) = Opening
      BY <2>1, <2>2, ToldSays
    <2>4. TurnsInTranscript = {m.turn : m \in Having("assistant")}
      BY DEF TurnsInTranscript, Elements
    <2>5. DigestOf(msgs) = UNION {m.of : m \in Having("digest")}
      BY DEF DigestOf, Elements
    <2> HIDE DEF Having
    <2>6. TurnsInTranscript = asked - n + 1 .. asked /\ DigestOf(msgs) = 1 .. asked - n
      BY <2>3, <2>4, <2>5
    <2>7. PICK f \in Nat, a \in Nat : f = asked - n /\ a = asked /\ f <= a /\ (a > 0 => f < a)
      <3>1. asked - n \in Nat /\ asked - n <= asked /\ (asked > 0 => asked - n < asked)
        BY <2>2
      <3> QED
        BY <2>2, <3>1
    <2>8. /\ (f + 1 .. a) \cup (1 .. f) = 1 .. a
          /\ (f + 1 .. a) \cap (1 .. f) = {}
          /\ a > 0 => a \in f + 1 .. a
      BY ONLY f \in Nat, a \in Nat, <2>7
    <2>9. TurnsInTranscript = f + 1 .. a /\ DigestOf(msgs) = 1 .. f
      BY <2>6, <2>7
    <2> QED
      BY <2>3, <2>7, <2>8, <2>9 DEF NothingForgotten
  <1> QED
    BY <1>1, AlwaysTalk, Phases, PTL

\* The result of a ReAct step is one the model gave after it had seen the
\* answers of all its calls: _submit is the only call without an answer.
THEOREM SubmitsSeeAll == Spec => []SubmitSeesAll
  <1>1. PhaseInv /\ TalkInv => SubmitSeesAll
    <2> SUFFICES ASSUME PhaseInv, TalkInv, step.kind = "react",
                        pc \in {"check", "final"} \/ outcome = "ok"
                 PROVE  CallIds \ Answered = {<<asked, 1>>}
      BY DEF SubmitSeesAll
    <2>1. Pending = {<<asked, 1>>} /\ (pc = "done" => outcome = "ok") /\ asked \in Nat
      BY DEF PhaseInv, Pending
    <2>2. PICK q : msgs = Reassemble(q) /\ Told(q, asked, Pending)
      BY <2>1 DEF TalkInv
    <2> DEFINE Having(role) == {m \in Elements(msgs) : m.role = role}
    <2>3. (UNION {m.of : m \in Having("assistant")}) \ (UNION {m.of : m \in Having("tool")}) = Pending
      BY <2>1, <2>2, ToldSays
    <2>4. CallIds = UNION {m.of : m \in Having("assistant")}
      BY DEF CallIds, Elements
    <2>5. Answered = UNION {m.of : m \in Having("tool")}
      BY DEF Answered, Elements
    <2> QED
      BY <2>1, <2>3, <2>4, <2>5
  <1> QED
    BY <1>1, AlwaysTalk, Phases, PTL

-----------------------------------------------------------------------------
\* The types.

\* What TypeOK says and the invariants above do not, with a transcript of
\* messages, and no more sessions than sources connected to so far.
TypedInv ==
    /\ pc \in {"load", "ask", "llm", "batch", "check", "final", "simple", "commit", "done"}
    /\ next \in 1 .. Len(step.sources) + 1 /\ sessions \in 0 .. next - 1
    /\ loaded \subseteq step.allow
    /\ msgs \in Seq(Notes)
    /\ loop \in Loops /\ loop.used <= loop.cap /\ loop.recoveries <= step.recoveries
    /\ attempt \in 1 .. step.attempts /\ tries \in 0 .. MaxTries
    /\ payload \in {"none", "valid", "invalid", "empty"}

\* The turns of the next loop, as far as a transcript goes.
LEMMA RemainingTyped ==
    ASSUME msgs \in Seq(Notes), step.turns \in Nat
    PROVE  RemainingTurns \in Nat
  <1>1. PICK n \in Nat : n = Len(msgs)
    BY LenProperties
  <1>2. PICK turns \in SUBSET (1 .. n) : turns = {i \in 1 .. n : msgs[i].role = "assistant"}
    OBVIOUS
  <1>3. AssistantTurns \in Nat
    <2>1. IsFiniteSet(1 .. n)
      BY FS_Interval
    <2>2. Cardinality(turns) \in Nat
      BY <2>1, FS_Subset, FS_CardinalityType
    <2> QED
      BY <1>1, <1>2, <2>2 DEF AssistantTurns
  <1> QED
    BY <1>3 DEF RemainingTurns, AtLeast

\* The messages a step writes, and the transcripts with one or two of them.
LEMMA NoteTyped ==
    ASSUME NEW turn \in Nat, NEW of \in SUBSET (Nat \X Nat), NEW ms \in Seq(Notes)
    PROVE  /\ Append(ms, Message("assistant", turn, of)) \in Seq(Notes)
           /\ Append(ms, Message("tool", turn, of)) \in Seq(Notes)
           /\ ms \o <<Message("assistant", turn, of), Message("human", turn, of)>> \in Seq(Notes)
  <1>1. PICK a \in Notes, b \in Notes, c \in Notes :
           /\ a = Message("assistant", turn, of) /\ b = Message("tool", turn, of)
           /\ c = Message("human", turn, of)
    BY DEF Notes, Message, Roles
  <1>2. <<a, c>> \in Seq(Notes)
    OBVIOUS
  <1>3. Append(ms, a) \in Seq(Notes) /\ Append(ms, b) \in Seq(Notes) /\ ms \o <<a, c>> \in Seq(Notes)
    BY <1>2, AppendProperties, ConcatProperties
  <1> QED
    BY <1>1, <1>3

\* Every step keeps the types.
LEMMA TypedStep ==
    PhaseInv /\ GovernedInv /\ TalkInv /\ TypedInv /\ [Next]_vars => TypedInv'
  <1> SUFFICES ASSUME PhaseInv, GovernedInv, TalkInv, TypedInv, [Next]_vars PROVE TypedInv'
    OBVIOUS
  <1>1. UNCHANGED step
    BY DEF Next, LoadSource, FinishLoading, Ask, LlmFails, TooExpensive, TextExit, Call,
           DeferSubmit, RunTool, ToolFails, SoftRetry, LoopEnds, Finalize, Complete, RunCommit,
           vars
  <1>2. /\ asked \in Nat /\ step.turns \in Nat /\ step.attempts \in Nat
        /\ step.recoveries \in Nat /\ MaxTries \in Nat /\ MaxTries # 0
    BY Limits, BoundAssumption DEF PhaseInv
  <1> DEFINE Places == {"load", "ask", "llm", "batch", "check", "final", "simple", "commit", "done"}
             Loads == /\ next \in 1 .. Len(step.sources) + 1 /\ sessions \in 0 .. next - 1
                      /\ loaded \subseteq step.allow
             LoopOk(l) == l \in Loops /\ l.used <= l.cap /\ l.recoveries <= step.recoveries
  <1>3. pc \in Places /\ Loads /\ msgs \in Seq(Notes) /\ LoopOk(loop)
        /\ attempt \in 1 .. step.attempts /\ tries \in 0 .. MaxTries
        /\ payload \in {"none", "valid", "invalid", "empty"}
    BY DEF TypedInv
  <1>4. ASSUME pc' \in Places, Loads', msgs' \in Seq(Notes), LoopOk(loop'),
               attempt' \in 1 .. step.attempts, tries' \in 0 .. MaxTries,
               payload' \in {"none", "valid", "invalid", "empty"}
        PROVE  TypedInv'
    BY <1>1, <1>4 DEF TypedInv
  <1>5. ASSUME UNCHANGED <<next, sessions, loaded>> PROVE Loads'
    BY <1>1, <1>3, <1>5
  <1>6. CASE LoadSource
    <2>1. /\ pc' = pc /\ next \in 1 .. Len(step.sources) + 1 /\ next <= Len(step.sources)
          /\ next' = next + 1 /\ sessions' \in {sessions, sessions + 1}
          /\ UNCHANGED <<msgs, loop, attempt, tries, payload>>
      BY <1>3, <1>6 DEF LoadSource, talking
    <2>2. PICK n \in Nat : n = Len(step.sources)
      <3>1. step.sources \in Seq({step.sources[i] : i \in DOMAIN step.sources})
        BY StepAssumption DEF PhaseInv
      <3> QED
        BY <3>1, LenProperties
    <2>3. next' \in 1 .. n + 1 /\ sessions' \in 0 .. next' - 1
      BY <1>3, <2>1, <2>2
    <2>4. loaded' \subseteq step.allow
      BY <1>3, <1>6 DEF LoadSource, Wanted
    <2>5. Loads'
      BY <1>1, <2>2, <2>3, <2>4
    <2> HIDE DEF Places, Loads, LoopOk
    <2> QED
      BY <1>3, <1>4, <2>1, <2>5
  <1> HIDE DEF Loads, LoopOk
  <1>7. CASE FinishLoading
    BY <1>3, <1>4, <1>5, <1>7 DEF FinishLoading, Fail, talking
  <1> USE DEF loading, talking, Fail
  <1>8. CASE Ask
    <2>1. CASE pc' = "done" /\ UNCHANGED <<msgs, loop, tries>>
      BY <1>3, <1>4, <1>5, <1>8, <2>1 DEF Ask
    <2>2. CASE /\ loop.used < loop.cap /\ loop' = [loop EXCEPT !.used = @ + 1]
               /\ tries' = 1 /\ pc' = "llm" /\ UNCHANGED outcome
               /\ \E k \in Folds : msgs' = Rest(k)
      <3>1. PICK l \in Loops : l = loop /\ l.used < l.cap /\ l.recoveries <= step.recoveries
        BY <1>3, <2>2 DEF LoopOk
      <3>2. LoopOk([l EXCEPT !.used = @ + 1])
        BY <3>1 DEF LoopOk, Loops
      <3>3. msgs' \in Seq(Notes)
        <4>1. pc = "ask" /\ step.kind = "react" /\ Pending = {}
          BY <1>8 DEF Ask, PhaseInv, Pending
        <4>2. PICK q : msgs = Reassemble(q) /\ Told(q, asked, {})
          BY <4>1 DEF TalkInv
        <4>3. PICK k \in Folds : msgs' = Rest(k)
          BY <2>2
        <4>4. PICK p : Rest(k) = Reassemble(p) /\ Told(p, asked, {})
          BY <1>2, <4>2, ToldRest
        <4> QED
          BY <4>3, <4>4, ReassembledTyped DEF Told
      <3>4. 1 \in 0 .. MaxTries
        BY <1>2
      <3> QED
        BY <1>3, <1>4, <1>5, <1>8, <2>2, <3>1, <3>2, <3>3, <3>4 DEF Ask
    <2> QED
      BY <1>8, <2>1, <2>2 DEF Ask
  <1>9. CASE LlmFails
    <2>1. tries' \in 0 .. MaxTries
      BY <1>2, <1>3, <1>9 DEF LlmFails
    <2> QED
      BY <1>3, <1>4, <1>5, <1>9, <2>1 DEF LlmFails
  <1>10. CASE TooExpensive
    BY <1>3, <1>4, <1>5, <1>10 DEF TooExpensive
  <1>11. CASE TextExit
    <2>1. asked' \in Nat
      BY <1>2, <1>11 DEF TextExit, Responded
    <2>2. CASE pc' = "done" /\ UNCHANGED <<msgs, loop>>
      BY <1>3, <1>4, <1>5, <1>11, <2>2 DEF TextExit
    <2>3. CASE /\ loop.recoveries > 0 /\ pc' = "ask"
               /\ msgs' = msgs \o <<Message("assistant", asked', {}), Message("human", asked', {})>>
               /\ loop' = [loop EXCEPT !.recoveries = @ - 1,
                                       !.cap = IF loop.used >= @ THEN loop.used + 1 ELSE @]
      <3>1. PICK l \in Loops : l = loop /\ l.used <= l.cap /\ l.recoveries <= step.recoveries
        BY <1>3 DEF LoopOk
      <3>2. PICK nudged : nudged = [l EXCEPT !.recoveries = @ - 1,
                                             !.cap = IF l.used >= @ THEN l.used + 1 ELSE @]
        OBVIOUS
      <3>3. nudged \in Loops /\ nudged.used <= nudged.cap
        BY <2>3, <3>1, <3>2, NudgedLoop
      <3>4. nudged.recoveries <= step.recoveries
        BY <1>2, <3>1, <3>2 DEF Loops
      <3>5. LoopOk(loop')
        BY <2>3, <3>1, <3>2, <3>3, <3>4 DEF LoopOk
      <3>6. msgs' \in Seq(Notes)
        BY <1>3, <2>1, <2>3, NoteTyped
      <3> QED
        BY <1>3, <1>4, <1>5, <1>11, <2>3, <3>5, <3>6 DEF TextExit
    <2> QED
      BY <1>11, <2>2, <2>3 DEF TextExit
  <1>12. ASSUME NEW names \in Batches, Call(names) PROVE TypedInv'
    <2>1. asked' \in Nat
      BY <1>2, <1>12 DEF Call, Responded
    <2>2. msgs' \in Seq(Notes)
      <3>1. PICK turn \in Nat : turn = asked'
        BY <2>1
      <3>2. Ids(turn, names) \in SUBSET (Nat \X Nat)
        BY IdsTyped
      <3>3. Append(msgs, Message("assistant", turn, Ids(turn, names))) \in Seq(Notes)
        BY <1>3, <3>2, NoteTyped
      <3> QED
        BY <1>12, <3>1, <3>3 DEF Call
    <2> QED
      BY <1>3, <1>4, <1>5, <1>12, <2>2 DEF Call
  <1>13. ASSUME pc = "batch", msgs' = Append(msgs, Message("tool", asked, {Head(batch).id}))
         PROVE  msgs' \in Seq(Notes)
    <2>1. PICK S : batch \in Seq(S) /\ S = Calls(asked, offered \cup {Submit, Nameless})
      BY <1>13 DEF GovernedInv
    <2>2. Head(batch) \in S
      BY <1>13, <2>1, RestOfBatch DEF GovernedInv
    <2>3. PICK id \in Nat \X Nat : id = Head(batch).id
      BY <1>2, <2>1, <2>2 DEF Calls
    <2> QED
      BY <1>2, <1>3, <1>13, <2>3, NoteTyped
  <1>14. CASE DeferSubmit \/ RunTool
    <2>1. /\ pc = "batch" /\ pc' \in {"ask", "batch"}
          /\ msgs' = Append(msgs, Message("tool", asked, {Head(batch).id}))
          /\ UNCHANGED <<next, sessions, loaded, loop, attempt, tries, payload>>
      BY <1>14 DEF DeferSubmit, RunTool, RejectSubmit, Record
    <2> QED
      BY <1>3, <1>4, <1>5, <1>13, <2>1
  <1>15. CASE ToolFails
    BY <1>3, <1>4, <1>5, <1>15 DEF ToolFails
  <1>16. CASE SoftRetry
    <2>1. /\ attempt < step.attempts /\ attempt' = attempt + 1 /\ pc' = "ask"
          /\ msgs' = Append(msgs, Message("tool", asked, {<<asked, 1>>}))
          /\ loop' = NewLoop(RemainingTurns)
          /\ UNCHANGED <<next, sessions, loaded, tries, payload>>
      BY <1>16 DEF SoftRetry
    <2>2. PICK left \in Nat : left = RemainingTurns
      BY <1>2, <1>3, RemainingTyped
    <2>3. LoopOk(loop')
      BY <1>2, <2>1, <2>2 DEF LoopOk, NewLoop, Loops
    <2>4. msgs' \in Seq(Notes)
      <3>1. {<<asked, 1>>} \in SUBSET (Nat \X Nat)
        BY <1>2
      <3> QED
        BY <1>2, <1>3, <2>1, <3>1, NoteTyped
    <2>5. attempt' \in 1 .. step.attempts
      BY <1>2, <1>3, <2>1
    <2> QED
      BY <1>3, <1>4, <1>5, <2>1, <2>3, <2>4, <2>5
  <1>17. CASE LoopEnds \/ Finalize
    BY <1>3, <1>4, <1>5, <1>17 DEF LoopEnds, Finalize
  <1>18. CASE Complete
    <2>1. attempt' \in 1 .. step.attempts
      BY <1>2, <1>3, <1>18 DEF Complete
    <2>2. pc' \in {"simple", "done", "final"} /\ payload' \in {"none", "empty", "invalid", "valid"}
          /\ UNCHANGED <<next, sessions, loaded, msgs, loop, tries>>
      BY <1>18 DEF Complete
    <2> QED
      BY <1>3, <1>4, <1>5, <2>1, <2>2
  <1>19. CASE RunCommit
    BY <1>3, <1>4, <1>5, <1>19 DEF RunCommit
  <1>20. CASE UNCHANGED vars
    BY <1>3, <1>4, <1>5, <1>20 DEF vars
  <1> QED
    BY <1>6, <1>7, <1>8, <1>9, <1>10, <1>11, <1>12, <1>14, <1>15, <1>16, <1>17, <1>18, <1>19,
       <1>20 DEF Next

\* The states of the adapter, whatever the model and the tools do: the loop and
\* the retries stay within their limits, and a transcript is made of messages,
\* also when compress_if_needed has put it together again.
THEOREM TypeCorrect == Spec => []TypeOK
  <1>1. Init => TypedInv
    <2> SUFFICES ASSUME Init PROVE TypedInv
      OBVIOUS
    <2>1. /\ step.turns \in Nat /\ step.attempts \in Nat \ {0} /\ step.recoveries \in Nat
          /\ MaxTries \in Nat
      BY Limits, PhaseInit, BoundAssumption
    <2>2. loop \in Loops /\ loop.used <= loop.cap /\ loop.recoveries <= step.recoveries
      BY <2>1 DEF Init, NewLoop, Loops
    <2>3. 1 \in 1 .. Len(step.sources) + 1
      <3>1. step.sources \in Seq({step.sources[i] : i \in DOMAIN step.sources})
        BY StepAssumption DEF Init
      <3>2. Len(step.sources) \in Nat
        BY <3>1, LenProperties
      <3> QED
        BY <3>2
    <2>4. /\ pc \in {"simple", "load"} /\ next = 1 /\ sessions = 0 /\ loaded = {}
          /\ msgs = Opening /\ attempt = 1 /\ tries = 0 /\ payload = "none"
      BY DEF Init
    <2> QED
      BY <2>1, <2>2, <2>3, <2>4, OpeningNoted DEF TypedInv
  <1>2. PhaseInv /\ GovernedInv /\ TypedInv => TypeOK
    <2> SUFFICES ASSUME PhaseInv, GovernedInv, TypedInv PROVE TypeOK
      OBVIOUS
    <2>1. \A i \in 1 .. Len(msgs) : msgs[i].role \in Roles
      <3>1. PICK ms \in Seq(Notes) : ms = msgs
        BY DEF TypedInv
      <3>2. \A i \in 1 .. Len(ms) : ms[i] \in Notes
        BY ElementOfSeq
      <3> QED
        BY <3>1, <3>2 DEF Notes
    <2>2. sessions \in 0 .. Len(step.sources)
      <3>1. PICK n \in Nat : n = Len(step.sources)
        <4>1. step.sources \in Seq({step.sources[i] : i \in DOMAIN step.sources})
          BY StepAssumption DEF PhaseInv
        <4> QED
          BY <4>1, LenProperties
      <3> QED
        BY <3>1 DEF TypedInv
    <2>3. loop.used \in 0 .. loop.cap /\ loop.recoveries \in 0 .. step.recoveries
      BY Limits DEF TypedInv, Loops
    <2> QED
      BY <2>1, <2>2, <2>3 DEF TypeOK, PhaseInv, GovernedInv, TypedInv
  <1> QED
    BY <1>1, <1>2, TypedStep, AlwaysTalk, AlwaysGoverned, Phases, PTL DEF Spec

=============================================================================
