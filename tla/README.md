# Warden in TLA+

A model of the Warden runtime: a durable saga engine over Postgres that runs
AI steps (`reason`) and tool calls (`commit`) through workers, holds steps for
human review, undoes completed steps in LIFO order when a later one fails, and
lets an operator recover a saga that is stuck. All references are to files
under `src/`.

## 1. The system

| Part | State it keeps | Operations | Talks to |
|---|---|---|---|
| Saga state machine, `engine/logic.py` | `saga_instances`, `saga_step_instances`, `processed_ingest_events` | one handler per ingest event, forward scheduling with `when.cel`, failure lifecycle, compensation | publishes commands and notices to the outbox |
| Human review, `engine/hitl_decisions.py` | decision rows in the outbox | approve, reject, retry with guidance | publishes HUMAN_* to `engine-events` |
| Operator recovery, `engine/recovery.py` | resets the tables above | retry-step, retry-forward, start-compensation, retry-compensation | requeues or republishes commands |
| Recovery idempotency, `engine/recovery_idempotency.py` | stored responses per token | replay, store, race on insert | wraps operator recovery |
| Outbox consumer, `common/messaging/postgres.py`, `common/outbox*.py` | `outbox_events` and its own in-memory tasks | publish under a unique key, poll with SKIP LOCKED, acknowledge, reap stale rows, LISTEN/NOTIFY wake-up | calls the engine's or the worker's handler |
| Worker command handling, `workers/logic.py`, `common/processed_command_*.py` | `processed_commands` | claim, run the adapter, report, reap stale claims | publishes results to `engine-events` |
| Child sagas, `engine/child_sagas.py` | child links, parked join steps | spawn, join, terminal notices, child compensation | the state machine of the parent |
| Loops, `engine/loop_control.py` | rows of the loop's iterations | boundary, next iteration, exit | forward scheduling |
| Start and hydration, `engine/api/saga_start.py`, `engine/saga_hydrate.py`, `engine/step_materialize.py` | the frozen manifest, initial rows | idempotent start | publishes SAGA_STARTED |
| Registry, `engine/registry`, `engine/api/routes` | versioned definitions | deploy workers, steps and sagas, switch definitions on and off | read at deployment and at saga start |
| Policy gates, `common/policy_gate.py` | none | evaluate CEL | called by the state machine |
| ReAct loop and retries, `workers/adapters`, `workers/tools.py`, `common/retry.py` | transcript, turn and token budgets, loaded tools | load tools, call the model, call tools, compress, retry | inside one worker command |
| API reads, CLI, MCP server, plugins, telemetry | none the engine decides on | transport and observation | the parts above |

Three kinds of process touch the tables. Engine processes and worker processes
each run an outbox consumer: it takes a PENDING row of its topic
(`IN_PROGRESS`), calls the handler, and marks the row `COMPLETED`, or `FAILED`
if the handler raised. API processes execute the requests of reviewers and
operators. Every handler and request is one database transaction that locks
the saga row first, so two of them never interleave on one saga; what does
interleave are the transactions themselves, and the three moments of a
delivery: read the row, commit the handler, acknowledge the row. A process may
stop between any two of these. Reapers put rows that stay `IN_PROGRESS` too
long back to PENDING and drop stale claims, so that everything is delivered at
least once.

What is hard here, and what makes each part correct:

* **Duplicate and late results.** A command may run twice; its two results
  differ and arrive in either order. The state machine must apply one of them
  and let a finished step be. (`CompletedIsFinal`, `NewUndoOnlyAfterFailure`,
  `UndoneOnce`; on the worker's side `SucceedsOnce`.)
* **Stuck sagas.** Exactly-once publishing is by a unique key: publishing an
  existing key does nothing, whatever became of its row. Any path that
  re-sends work under an old key strands the saga. (`RunningHasWork`,
  `CompensatingHasWork`, `Settles`.)
* **The approval gate.** Retries and recoveries re-enter the code that sends
  commands; none may bypass the reviewer, and decisions must have an effect.
  (`ApprovalGate`, `DecisionTakesEffect`.)
* **Unwinding.** LIFO, no second undo of a step unless the first is known to have
  failed, nothing forward still running, and "state restored" announced only when
  it is true, through loops and fan-outs too. (`UndoOrder`,
  `NewUndoOnlyAfterFailure`, `UnwindIsQuiet`, `RestoredMeansUndone`.)
* **Forward order** with conditional steps, loops whose rows are created while
  the saga runs, and what COMPLETED means. (`ForwardOrder`,
  `CompletedMeansDone`, `LoopDiscipline`, `ExhaustedAfterAllPasses`,
  `CompletedCoversBlueprint`.)
* **Waiting for children.** The last children of a join end together, or while
  the parent parks or unwinds. (`JoinFollowsChildren`, `NothingIsStuck`.)
* **Recovery** leaves and re-enters holds without reopening outcomes or sending
  a step twice, also when requests are repeated or race. (`HoldIsRecoverable`,
  `OutcomeIsFinal`, `SingleDelivery`, `RecoveredOnce`.)
* **Delivery.** Missed notifications, two ages of reaping, workers thought
  dead, a full semaphore, shutdown in the middle of a batch. (`Answered`,
  `KeepsContract`, `SucceedsOnce`.)
* **The agent.** Whatever the model answers: a transcript that a provider
  accepts, the allowlist, the budgets, an end. (`WellFormedTranscript`,
  `NothingForgotten`, `Governed`, `SubmitSeesAll`, `TurnsBounded`,
  `BudgetStops`, `ToolsComplete`, `Ends`.)
* **Requests.** Deployments, switches and starts interleave between their reads
  and their writes. (`CatalogClosed`, `StartsLinked`, `TightenOnly`,
  `StartedOnce`, `SeparateWrites`, `ActiveAtStart`.)

`PROJECT.json` lists these hazards at the lines where they bite.

## 2. Modules

| Module | What it is |
|---|---|
| `SagaEngine` | one saga of reason and commit steps: the engine's handlers, reviewers, operator, workers as far as the tables show them, and the faults |
| `SagaEngineProofs` | theorems about `SagaEngine`: types, the approval gate, when a step may be undone again |
| `SagaOrderProofs` | theorems about `SagaEngine`: what a saga may be doing in each of its statuses |
| `SagaProgressProofs` | theorems about `SagaEngine`: what keeps a saga going, and which steps stay completed |
| `SagaFlow` | one saga with loops, fan-outs and joins, composed with its child sagas |
| `SagaFlowProofs` | theorems about `SagaFlow`: loops, joins, and the order of undos |
| `SagaFlowStallProofs` | a theorem about `SagaFlow`: no saga stops half-way |
| `CommandDelivery` | commands on their way through outbox, consumers, claims and reapers |
| `CommandDeliveryProofs` | theorems about `CommandDelivery`, with the refinement |
| `CommandContract` | what the outbox promises; implemented by `CommandDelivery` |
| `ReactMemory` | the transcript of an agent and its compression: operators only |
| `AgentStep` | one forward step inside a worker |
| `AgentStepProofs` | theorems about `AgentStep` |
| `Blueprint` | manifests: validation, hydration, tighten-only overrides: operators only |
| `Requests` | concurrent deployments, switches, starts and recoveries over the catalogue |
| `RequestsProofs` | theorems about `Requests` |
| `MC...` | the instances for TLC; `MCSagaHistory` is `MCSagaEngine` with a history variable |

The parts meet at the tables. `SagaEngine` sees a worker as claims and results;
`CommandDelivery` is the detail of that, and `AgentStep` is what happens inside
a claimed command. `SagaFlow` sees a child as the saga statuses that
`SagaEngine` produces. `Requests` creates the frozen steps that the other two
run, and calls recovery, whose effect on the saga is in `SagaEngine`.

### How `SagaEngine` corresponds to the code

The variables are tables or what processes hold in memory:

| Variable | Code |
|---|---|
| `manifest` | the frozen step configurations: kind, `hitl`, compensation, `on_failure.strategy: await_operator` (`hold`), `when.cel`, `hitl_max_retries` |
| `saga`, `step`, `err`, `key`, `retried` | columns of `saga_instances` and of the forward rows; `key` numbers the idempotency keys a row goes through |
| `undo` | the undo rows of a forward row, in the order they were created |
| `row`, `event` | `outbox_events` of `worker-commands` and `engine-events`, by idempotency key |
| `claim` | `processed_commands`: `held` (claimed) or `emitted` (result published) |
| `seen` | `processed_ingest_events` |
| `handling`, `taken`, `superseded` | rows an engine consumer has read; commands a worker has read but not claimed; commands a worker still runs although its claim was taken away |
| `judged`, `approved` | history variables: the draft a decision was made on, the approvals that were applied |

`Db` is the record of the current contents of the tables. A handler is an operator from
contents to the *set* of contents its transaction may commit; the alternatives
are outcomes of data the model leaves out (schema validation, policy, CEL,
templates that fail to build). So `OnStepCompleted(tx, i)` is
`handle_step_completed` with everything it calls: schema check, policy, hold,
finalisation, scheduling of the next step or completion of the saga, the
failure lifecycle if any of them fails. The action `HandleStepCompleted`
adds `process_saga_event` around it: the dedup row, the transaction, the
acknowledgement (`Ingest` has both the case where the row is acknowledged and
the one where the process stops before it is, if `engine_crash` is allowed).

| Action | Code |
|---|---|
| `PollEvent`, `HandleDuplicate`, `HandlerRaises`, `EngineCrash`, `ReapEvent` | the outbox consumer and reaper on `engine-events` |
| `HandleSagaStarted` ... `HandleNotice` | `process_saga_event` with each of its handlers |
| `Decide`, `DecideAgain`, `AskRetry` | `enqueue_human_decision`, `enqueue_hitl_retry` |
| `RetryStep`, `RetryForward`, `StartCompensation`, `RetryCompensation` | the four commands of `engine/recovery.py`, with and without `force` |
| `WorkerTakes` ... `WorkerHasNoAdapter` | poll, claim, skip, and each kind of report of `workers/logic.py` |
| `SupersededReturns`, `WorkerRaises`, `WorkerCrash`, `ReapCommand`, `ReapClaim` | a worker that lost its claim, an exception, a stop, and the two reapers |

The operators marked `mutant` each stand in front of the definition they
change: a plausible mistake at that place, which the named property detects.

### `SagaFlow`

A row of `rows` is a forward row in the order of `forward_seq`, with the node of
the blueprint, the position in a loop's body and the iteration it was created
for, and the status of its undo row. `cursor` and `loops` are
`loop_state` and `context.loops`; `child` holds the committed status of the
children and `ending` the status that a child's open transaction has saved.
As in `SagaEngine`, handlers map contents to sets of contents. Inside a handler
the engine's functions call each other from row to row: a finished row
schedules the next one, a fan-out that is undone goes on below it. `Step` maps a
call to the calls it may end with (`ThenSchedule`, `ThenUnwind`, or `Over`), and
`Returned` is what the transaction may commit once all have returned.

| Action | Code |
|---|---|
| `Start`, `StepCompleted`, `StepFailed` | `handle_saga_started`, `handle_step_completed`, `handle_step_failed` with `_schedule_next_forward_step`, `handle_possible_loop_boundary`, `execute_spawn_sagas`, `park_or_complete_join` |
| `StepCompensated`, `CompensationFailed` | the same handlers as in `SagaEngine`, with `compensate_spawn_sagas_forward` |
| `RetryJoin` | the operator's retry of a parked join |
| `ChildUnwinds`, `ChildEnds`, `ChildCommits`, `ChildRollsBack`, `ChildReopened` | a child's last handler: its saga row is saved, then the parent's row is locked and `on_child_saga_terminal` runs, then the transaction commits or is lost; retry-compensation reopens a failed child |

That a child's status is visible to its own transaction, and to no other,
before it commits is what makes the join interesting.

### `CommandDelivery` and `CommandContract`

`row`, `claim` and `result` are the tables; `task[<<c, k>>]` is the task of the
k-th delivery of command c and k stands for its claim token; `loop` and
`notify` are the consumer loop of a process and its event. Success is one
transaction with the claim's mark (`Succeed`); failure is verified first and
written afterwards (`VerifyFailure`, `EmitFailure`), as in the code.
`CommandContract` has two sets, the commands that are owed and those that are
reported: a command leaves the first only once it is in the second. The
refinement mapping calls a command owed while its row is to be taken or
some delivery holds, or may still get, its key.

### `AgentStep` and `ReactMemory`

`pc` follows `run_step`: sources are loaded (`LoadSource`, `FinishLoading`), the
model is asked (`Ask`, `LlmFails`), its answer is text (`TextExit`) or a batch
of calls (`Call`), the calls are run in order (`RunTool`, `ToolFails`,
`DeferSubmit`), a `_submit` is checked and the loop ends, retries or gives up
(`SoftRetry`, `LoopEnds`, `Finalize`). `Complete` is a simple step and
`RunCommit` a commit step. Sizes of messages are abstracted to one per message
and one per folded turn; the golden-ratio shares and the headroom are computed
as in `react_memory.py`. A call without a name passes the allow-list and fails only
when its turn comes (`Nameless`). The model, the tools and the servers are choices.

### `Requests` and `Blueprint`

A request is a client with a program counter: every committed read and every
transaction is one step, since PostgreSQL at READ COMMITTED lets others in
between. A unique index decides at the insert. `Crash` forgets all requests
under way. `Blueprint` has the validators that relate two parts of a manifest and the
hydration of a graph into frozen steps.

## 3. Runs

`tlc -config X.cfg MCModule`. Deadlock checking is off everywhere, because a
saga that has ended, a worker with nothing to do or a saga that waits for people
really stops.

| Run | Instance | Distinct states | Checks |
|---|---|---|---|
| `saga_unwind` | three steps, 32 manifests, two keys and two undo rows each; handlers raise, adapters are missing; retry-forward, start-compensation | 1.1 million | `ForwardOrder`, `CompletedMeansDone`, `UnwindIsQuiet`, `UndoOrder`, `RestoredMeansUndone`, `HoldIsRecoverable`, `OutcomeIsFinal` |
| `saga_redelivery` | two steps; engine processes stop three times; start-compensation | 347 thousand | `RunningHasWork`, `CompensatingHasWork` |
| `saga_crash` | two steps; two worker stops or reapings; start-compensation | 1.7 million | `NewUndoOnlyAfterFailure` |
| `saga_operator` | one reviewed commit step under all five commands, raising handlers, missing adapters | 552 thousand | `TypeOK`, `ApprovalGate` |
| `saga_review` | two reviewed steps, retries, operator; fair | 40 thousand | `SingleDelivery`, `Settles`, `DecisionTakesEffect` |
| `flow` | four blueprints: two loops in a row, a joined fan-out, one behind a loop, one without a join; two children | 37 thousand | `LoopDiscipline`, `ExhaustedAfterAllPasses`, `CompletedCoversBlueprint`, `JoinFollowsChildren`, `UndoOrder`, `RestoredMeansUndone`, `NothingIsStuck` |
| `delivery` | two commands, two workers with one handler at a time, two deliveries each; fair | 313 thousand | `SucceedsOnce`, `Answered`, `KeepsContract` |
| `agent_step` | eight steps of all kinds, batches of two calls; fair | 222 thousand | `WellFormedTranscript`, `NothingForgotten`, `Governed`, `SubmitSeesAll`, `TurnsBounded`, `ToolsComplete`, `BudgetStops`, `Ends` |
| `requests` | three requests of which two run at a time, one crash, over four kinds of catalogue | 239 thousand | `CatalogClosed`, `StartsLinked`, `TightenOnly`, `StartedOnce`, `RecoveredOnce`, `SeparateWrites`, `ActiveAtStart` |

The runs `late_failure`, `stalled_undo` and `overtaken_undo` each show that a
statement of the documentation does not hold of the code; section 5 explains
them and names more configurations of this kind.

**Bounds.** Of `SagaEngine`: `N` steps: the scheduler and the unwinding look at a
step, its predecessors and its successors; three give a middle, and two are
enough where order plays no part. `MaxKeys`: keys a step goes through, one more
than the retries a run performs. `MaxUndo`: a second undo row is what
`NewUndoOnlyAfterFailure` and `UndoneOnce` are about, so 2 where a step can get one.
`MaxAsks`: retry requests with different tokens; 2 are needed for one to be
dropped. `MaxFaults`, `MaxCommands`: how many faults and operator commands a
behaviour has. A redelivery that matters takes two (a stop, then the reaper);
the third lets the redelivered copy be lost too. Bounds are guards of the
actions they limit; past `MaxUndo` undo rows of a step, only the outcome that no
undo command can be built is left.

Of `SagaFlow`: two children are the fewest that can end together; loops have a
body of two steps and up to three passes, so there is a first, a middle and a
last one; `MaxReopen` and `MaxRollback` let both children be reopened and one
transaction be lost; `MaxCalls` is above the longest chain of calls there is in
the instances (a saga has at most ten rows, and each call moves by one row).
Of `CommandDelivery`: a second delivery is what a reaper
causes, and two commands with one handler per worker fill the semaphore and a
batch; one mishap per behaviour (`MaxMishaps`), each of its kind. Of
`AgentStep`: four turns are enough to fold some, keep some and fold again. Of
`Requests`: a race takes two requests, and the third changes the catalogue
before or after it.

The saga runs are separate because their properties hold under different
assumptions: `NewUndoOnlyAfterFailure` without retry-compensation, `RunningHasWork` and
`CompensatingHasWork` without lost worker claims and without handlers that raise
(section 5), `SingleDelivery` without retry-step.

**What the instances leave out on purpose.** In `flow` no step with an undo
stands between a fan-out and its join (`overtaken_undo` is about that), fan-outs
have no `when.cel`, and a failure of a spawn step does not read like a timeout
(section 5). `TurnsBounded` is about steps without compression. In `agent_step`
a source that fails is down from the start. Each saga run has the faults its row
names and no others: results arrive once in `saga_unwind` (`late_failure` has them
twice), every adapter is found in `saga_redelivery`, and no handler raises in
`saga_review`, so `DecideAgain` is for `saga_operator`.

**Fairness.** `FairBudgetSpec` (`MCSagaEngine`) assumes weak fairness of the
engine and of the workers: both poll for as long as they run, sleep a bounded
time between empty polls (`common/messaging/postgres.py`) and are restarted by
their supervisor. Nothing is assumed of reviewers, operators and faults;
`Settles` therefore treats a hold as a place where a saga may rest. `FairSpec`
of `CommandDelivery` assumes that every process polls, every task goes on (an
adapter has a timeout) and the paired reaper of the workers' maintenance tick
runs; nothing of notifications. `FairSpec` of `AgentStep` assumes that calls
return: they have timeouts. `Answered` is stated for behaviours in which tasks are faster than the
reapers' timeouts and no handler raises (`InTime`), which is what the
configuration guide asks for.

**Refinement.** `KeepsContract` is `CommandDelivery => CommandContract` under the
mapping above. It says something when workers only stop; with stalls and
exceptions the mapping keeps every command owed, because there commands can be
lost (`NotLost`, section 5).

## 4. Proofs

Eight modules hold theorems. Each follows one plan: an invariant that is
inductive together with what was proved before it, one lemma per action (or, in
`SagaEngine`, per operator an action is made of), and a temporal step at the
end. The named assumptions stand in the modules that declare the constants, and TLC evaluates
them in every run.

### The saga: `SagaEngineProofs`

For every number of steps, every manifest, every set of commands and faults:

* `TypeCorrect`: `Spec => []TypeOK`;
* `ApprovalGateHolds`: `Spec => []ApprovalGate`. A command of a reviewed commit
  step exists only under a key whose approval was applied;
* `NewUndoOnlyAfterFailureHolds`: `Spec => []NewUndoOnlyAfterFailure`, if
  retry-compensation is not among the commands: it reopens the failed row of an
  undo. A later undo row of a step exists only when COMPENSATION_FAILED of every
  earlier one was handled, and the earlier rows are and stay FAILED. That the
  step was not undone all the same does not follow, and is not so: `DoubleUndo.cfg`
  (section 5).

Assumptions: `N`, `MaxKeys` and `MaxUndo` are positive (`NAssumption`,
`BoundsAssumption`), manifests have the right shape (`ManifestAssumption`), and
`Ops` and `Faults` are among the known ones (`SwitchAssumption`).

Neither property is inductive on its own for a reason of form only: a handler
computes several intermediate contents before it commits. So the two are
generalised to contents that need not be the current ones, `Gated(tx, A)` and
`UndoTrail(tx)`, and `Sound(tx, A)` joins them with the type. There is one
lemma per operator (`TriggerSound`, `FailSound`, `UnwindSound`,
`OnStepCompletedSound`...): sound contents in, sound contents out. Writes that
touch neither commands nor undo rows are covered at once by `Keeps`. The
inductive invariant is `Inv == TypeOK /\ Sound(Db, approved)`; `CommitSound`
carries a handler's result over to it, and one lemma per group of actions
completes `NextInv`. The interesting cases are `TriggerSound` (a reviewed
commit step is parked, never published), `OnHumanApprovedSound` (the command
goes out under the very key the approval names), `RequeueSound` (recovery
re-sends a command only if it existed, or if the step needs no review) and
`ScheduleUndoSound` (a step with a live or successful undo row gets no other, so
the rows before a new one are all FAILED). `UndoTrail` says more than the property:
every FAILED undo row has left its COMPENSATION_FAILED in the ingest log, the first
undo row too. It is inductive because nothing takes that entry out again
(`Remembers`), other than retry-compensation, which makes room for a new report.

### The order of a saga: `SagaOrderProofs`

From the same assumptions and `Orderly`, for any number of steps and any
manifest: `ForwardOrder`, `UndoOrder`, `RestoredMeansUndone`,
`CompletedMeansDone`, `UnwindIsQuiet`, `HoldIsRecoverable`, `SingleDelivery`
and `OutcomeIsFinal`.

`OrderInv == Shape(Db) /\ Flight(Db, handling, taken)` is why they hold.
`Shape` says for each status of the saga where its steps can be: RUNNING means
everything before one step is COMPLETED or SKIPPED, that step is IN_PROGRESS,
everything after it is untouched; an unwinding saga has undone, or owes no undo
of, everything behind the one step it is undoing. `Shape` alone is not
inductive: a second result of the same step would advance the saga twice.
`Flight` adds that at most one command is open (`OpenUnique`), that whatever
is with a worker is that command, that at most one result of it is due, and
that nothing else that is on its way to the engine can act. The two must be
proved together, since the handlers keep `Shape` because the event they handle
was due, and keep `Flight` because `Shape` tells which step they may publish
for. A handler is followed from `Idle` contents (its event was just consumed,
nothing is open) to contents that are `Reached`.

`Orderly` is what the proofs assume of `Ops` and `Faults`. It leaves out:

* retry-step and retry-compensation. They send a command beside one that may
  still run, and `SingleDelivery` and `CompensatingHasWork` are false with them
  (`DoubleDelivery.cfg`, `stalled_undo`);
* a claim taken from a live worker (`worker_crash`): two results of one command
  arrive, and a late failure undoes a finished step (`late_failure`);
* engine processes that stop (`engine_crash`) together with a retry of a failed
  or held step: the retry forgets the ingested results of its step, so that an
  event redelivered afterwards acts again. Each of the two alone is covered.

Handlers that raise, missing adapters, and every redelivery that a stopped
engine process causes are within `Orderly`; `saga_unwind`, where TLC checks seven
of the eight, is an `Orderly` instance.

### What keeps a saga going: `SagaProgressProofs`

`RunningSagaHasWork` and `UnwindingSagaHasWork` are `RunningHasWork` and
`CompensatingHasWork` for `Steady` sagas: `Orderly`, without handlers that raise
(their row is FAILED, and nothing redelivers it) and without undo commands that
have no adapter (reported under a type that their handler ignores). Engine processes
that stop at any point are within `Steady`; `saga_redelivery` is an instance.
`CompletedStepsStay` proves `CompletedIsFinal` for every `Orderly` saga;
`late_failure` refutes it where a worker's claim may be lost.

`OrderInv` says that nothing but the open command is on its way, not that it is.
`ProgressInv == Progress(Db, handling, taken) /\ superseded = {}` adds that, in
four parts:

* `Stock`: what has yet to be sent has an outbox key that was never used and
  results that were never published. `Dispatch` and `Publish` do nothing for a
  key that exists, so without it a command or a result could vanish (it does in
  `stalled_undo`);
* `Busy`: a saga that unwinds has an undo in COMPENSATING;
* `Tidy`: a claim that is held, or a command that a worker has read, goes with
  a row IN_PROGRESS, and a result that was not ingested with a row that the consumer or its
  reaper will find;
* `Pursued`: the open command is with a worker and unanswered, or an answer of
  it is to be handled.

A handler keeps it because it `Supplies` contents with what they need: whatever it
opens, it takes from the stock (`Fed`). `StockKept` and `SuppliesFrom`
carry that through the writes of a handler, from `UnwindSupplies` and
`TriggerSupplies` up to one lemma per handler. `Goes` is what is then proved of
every step: completed steps last, and `ProgressInv` is kept under `Steady`.

### Loops, fan-outs and joins: `SagaFlowProofs`

For every set of deployable blueprints, any items, and any way a spawn step may
fail (`BlueprintAssumption`, `ErrorAssumption`, `BoundAssumption`), and whatever
`MaxCalls` is: `FlowTypes`, `LoopsUnfoldInOrder`, `GivenUpAfterAllPasses`,
`CompletionIsWhole` and `JoinsAreWoken`, which prove `TypeOK`, `LoopDiscipline`,
`ExhaustedAfterAllPasses`, `CompletedCoversBlueprint` and `JoinFollowsChildren`.

`UndoneInOrder` (`UndoOrder`) and `CompensatedMeansUndone`
(`RestoredMeansUndone`) assume `NoneBehind` of every blueprint: no worker step
behind a fan-out has an undo. The blueprints of `flow` are such; one that is not
is the counterexample of `overtaken_undo` (section 5).

The invariant is `FlowInv`. `Layout` relates the rows to the blueprint: they are
sorted by step, pass and place in the body, cover every step below the cursor, end
where a body or the blueprint ends, every pass is whole, the counter in
`context.loops` is ahead of the passes, and what stands behind a loop stands behind a loop
that was left. `Phase` says what a saga is doing in each status: `Fresh`,
`Busy` with one row (all before it done, all behind it untouched), `Finished`, or
on its way `Back`. `Born`, `JoinsDone`, `Waits` and `EndingOk` are about the
children, committed or not.

None of these is inductive along a handler alone, which goes through contents
that are in no phase: a row marked done whose successor was not found
yet. `GoodCall` says what holds of a call that is still to return: the
search for the next row has come to a row (`Reached`), the unwinding to a row
above which nothing is owed (`Unwinds`), or the contents are in a phase.
`Step` keeps it, one lemma per function of the engine
(`Boundary`, `TryJoin`, `SpawnChildren`, `Unwind`...), and `ReturnedFrom` carries that over all
calls of a transaction by induction on their number. Then there is one
lemma per action, and `AlwaysFlow`. The step that earns the join's theorem is the one
in which a child commits: it looks at its own status as saved and at those of its
siblings as committed, and another child is still to come unless the join goes on.

Induction over the naturals is done through least elements of sets of naturals
(`LeastOf`, `Inductive`, `GreatestOf`), as the induction theorems of the
library cannot be used.

### No saga stops half-way: `SagaFlowStallProofs`

`NeverStuck` proves `NothingIsStuck`: when no worker has a step or an undo and no
child is under way, the saga has ended. It assumes `OneFan` of every blueprint
(one fan-out at most, not conditional, before the join that waits for it) and
that the failure of a spawn step does not read like a timeout (`SpawnErrors` is
within `{"clean"}`). The blueprints of `flow` are such. Each of these assumptions
excludes one way in which the engine does strand a parent; section 5 lists them.

The theorem takes `FlowInv` and adds `StallInv`, of two parts. `Peopled`: a spawn
step that completed has children, is not skipped while the saga runs, and one
that failed stands behind every row that has an undo. `Hangs`: a saga that unwinds has
an undo that is out, or a completed fan-out, not undone yet, with a child that
has not committed its end. The join's side is `Waits` of `FlowInv`, together with
`Peopled`: by the order of the rows the fan-out of a join that runs has completed, so
there are children to wait for.

`Hangs` is what a child that commits breaks: the child was perhaps the one that the
parent waited for. `Halts` says what is left, an undo that is out or a fan-out
to be waited for, and `ResumeSpawnLive` that `maybe_resume_spawn_compensation`
makes `Hangs` of it again: as there is one fan-out, the row it looks at is the row
that holds the saga up. `LiveCall` carries `StallInv` through the calls of a
handler as `GoodCall` does `FlowInv`, with one more part: the walk down from a row
passes no spawn step that failed (`Clear`), which would have no children to wait
for.

### Delivery: `CommandDeliveryProofs`

For any number of commands, workers and deliveries and every set of faults
(`SizeAssumption`, `FaultAssumption`, `ConsumerAssumption`: no process is
called `Nobody`):

* `TypeCorrect`;
* `SuccessIsUnique`: `Spec => []SucceedsOnce`. `WrittenInv` adds that a success
  in the outbox goes with a claim that has its result, and that such a claim is cleared
  neither by a reaper nor by a delivery that gives the key back;
* `EveryCommandServed` and `NothingLostInTime`: while tasks are faster than the
  reapers and no handler raises (`InTime`), a live delivery is alone on its row,
  has the claim unless the key is free or answered, and no row is settled
  without a result. Beyond `InTime` it is false (`LostCommand.cfg`);
* `ProtocolKeepsContract`: `Spec => KeepsContract`, the refinement. Each step
  maps to a step of `CommandContract` or to a stutter: what stops being owed is
  reported, by `ServedInv`.

### Requests: `RequestsProofs`

For every set of worlds that the validators let pass (`RequestsAssumption`,
`WorldFits`): `TypeCorrect`, and each property of the run `requests`. `LinkInv`
(theorem `Linkage`) is the base: what a request has read of the catalogue is
still true when its transaction commits. It is inductive because the catalogue
only grows (`Grows`): rows are added and switched, never removed, and their
contents stay. On it rest `CatalogIsClosed`, `StartsAreLinked` and
`FrozenStepsAreTight` (`FrozenInv`: an override that `Narrows` accepts gives a
step that is `NoLooser`). `StartsAreUnique` needs `KeyedInv` (every answer names an
instance that exists and carries the request's key), `RecoveriesAreUnique`
needs `TokensInv` (one answer is stored per token, and it is the answer of every
request accepted under it),
`StartsAreActive` needs `SwitchedInv` (what a client remembers as off is off now).
`WritesAreSeparate` is proved of each action.

### The agent: `AgentStepProofs`

For every set of steps of the right form (`StepAssumption`) and whatever the
model, the tools and the servers do (`BoundAssumption`, `FaultAssumption`):
`Phases` (which `pc` a kind of step visits), `BudgetIsKept` (`BudgetStops`),
`OnlyAllowedToolsRun` (`Governed`; a batch is checked as a whole before its
first call runs, so the invariant is about the whole of it) and
`TurnsAreBounded` (`TurnsBounded`; `TurnsInv` relates the turns of the loop to
those in the transcript, over soft-retries and text recoveries).
`AllToolsAreOffered` proves `ToolsComplete` for sources that do not fail midway;
one that does leaves its tools marked as loaded (section 5).

`TranscriptsAreWellFormed`, `NoTurnIsForgotten` and `SubmitsSeeAll` prove
`WellFormedTranscript`, `NothingForgotten` and `SubmitSeesAll`, for steps whose
memory is compressed and for those where it is not, whatever the size of the
context and the length of the transcript. Their invariant is `TalkInv`: the transcript
is the reassembly of parts that tell all turns (`Told`): the groups are those of the latest
turns, the digest has exactly the turns before them, every call is answered once and in
its group, and only calls of the last group wait, those that `Pending` names. It is
about parts and not about messages because `compress_if_needed` takes a
transcript apart, folds its oldest group and puts it together again.
`Repartitioned` makes this possible: partitioning what was reassembled
gives back the same parts. It is shown by induction on the length of the
transcript, one message at a time (`PlacedOpens`, `PlacedFirst`, `PlacedInside`), for
parts as `partition_messages` makes them (`GoodParts`); `Partition` is written as the
loop over the messages that it is in the source. `ToldFolded` is one fold and
`RoundsEnd` any number of them. Then there is one lemma for each way in which a
message is added: a response (`ToldResponse`), a nudge or an answer (`ToldInside`).
`TypeCorrect` rests on it, too: what is left of a compressed transcript is a list of
messages only because it is the reassembly of parts.

### What stays with TLC

* Liveness: `Settles`, `DecisionTakesEffect`, `Answered`, `Ends`. Fairness and
  `ENABLED` are beyond the prover used here.
* `NothingIsStuck` beyond `OneFan`: where section 5 shows a parent that waits for
  ever it is false, and in between (a second fan-out that no saga reaches, say)
  nothing is claimed.
* What a saga does beyond `Orderly` or `Steady`, where `late_failure` and
  `stalled_undo` refute `CompletedIsFinal` and `CompensatingHasWork`.

## 5. Where the documentation and the code disagree

Three are runs that TLC refutes; the trace is the scenario.

* `late_failure` (`CompletedIsFinal`). A worker stops, its command is
  redelivered, both copies report. `handle_step_failed` ignores duplicates for
  FAILED, COMPENSATING and COMPENSATED rows, not for COMPLETED ones: a late
  failure fails a completed step while its successor runs.
* `stalled_undo` (`CompensatingHasWork`). retry-compensation after
  COMPENSATION_FAILED republishes a key whose outbox row is COMPLETED; nothing
  is sent and the saga stays COMPENSATING. A missing adapter of an undo
  command strands a saga in the same way: it is reported as STEP_FAILED, which
  is ignored for an undo row (action `WorkerHasNoAdapter`).
* `overtaken_undo` (`UndoOrder` of `SagaFlow`). `maybe_resume_spawn_compensation`
  (`engine/child_sagas.py:605`) runs whenever a child of a COMPENSATING parent
  ends. It undoes the last fan-out and goes on below it even if a step after
  the fan-out is still being undone. `docs/guides/manifests/child-sagas.md:108`:
  "`spawn_sagas` **blocks** until all of its children are terminal, then
  continues LIFO". A child that is reopened and ends again has the same effect.

The same kind of scenario comes out of these configurations:

| Configuration | Module, property | What happens |
|---|---|---|
| `DoubleUndo.cfg` | `MCSagaHistory`, `UndoneOnce` | `handle_compensation_failed` makes an undo row FAILED whatever it says, COMPENSATED included (`engine/logic.py:1826`), and the step is undone again. `docs/guides/manifests/compensation.md:121`: "The engine deduplicates compensation rows that are already running or finished" |
| `LostRetry.cfg` | `MCSagaEngine`, `RetryIsHonoured` | The ingest key of HUMAN_RETRY (`engine/logic.py:487`) lacks the request's token: a step is retried once, whatever `hitl_max_retries` says. `engine/hitl_decisions.py:60`: "not a cap on retry count" |
| `StuckReview.cfg` | `MCSagaEngine`, `HeldIsDecidable` | A step held a second time, after retry-forward, cannot be decided: the key of the first decision is used up (`engine/hitl_decisions.py:204`) |
| `DoubleDelivery.cfg` | `MCSagaEngine`, `SingleDelivery` | retry-step without `force` does not see a worker that has read a command and not claimed it yet (`engine/recovery.py:115`). `docs/guides/cli/saga-recovery.md:27` |
| `StaleApproval.cfg` | `MCSagaEngine`, `ApprovalIsForDraft` | An approval queued before a retry is handled releases the arguments built after it (`engine/logic.py:1093`). `docs/guides/api/hitl.md:50` |
| `LostCommand.cfg` | `MCCommandDelivery`, `NotLost` | A task is slower than the reapers: its claim is dropped, the next delivery finds the key taken and its row is acknowledged, or the slow task acknowledges the redelivered row (`common/messaging/postgres.py:386`). No result is ever written. `docs/advanced/architecture.md:125`: "claim and outbox reap eventually make the command redeliverable" |
| `LostFacts.cfg` | `MCAgentStep`, `FactsCoverCalls` | A schema soft-retry (`workers/adapters/langchain.py:660`) starts a new loop with no tool results: facts of calls made before it are missing. `docs/guides/manifests/saga-manifests.md:594`: "Extraction uses whatever the agent actually called during the step" |
| `SharedKey.cfg` | `MCRequests`, `KeyNamesOneSaga` | Two starts with one key and different definitions both pass the lookup; the unique index (`common/models.py:341`) includes the definition. `docs/guides/api/start-and-monitor.md:57`: "Reusing a key for a different definition in the same namespace returns **409**" |

The trace of `DoubleUndo.cfg`: two commands are reaped and redelivered, a forward
one and the undo of its step. The forward command's STEP_FAILED, a timeout, stays
queued. The undo's first copy fails, its second succeeds, and the success is
handled first: the undo row is COMPENSATED. Then the late COMPENSATION_FAILED makes
it FAILED, the late STEP_FAILED starts the unwinding again,
`_undo_row_status_exists` finds no undo of the step, and a second one is sent under
a fresh key. Once the late report is handled no table tells that the step was
undone, so `MCSagaHistory` adds a history variable, `undone`, that remembers it.

Visible in the models, without a configuration of their own:

* A decision row that FAILED is requeued as it is (`DecideAgain`), so a
  rejection may requeue an approval.
* With two fan-outs in one saga, only the later one is looked at when a child
  ends: a parent that waits for children of the earlier one is not woken. A
  join whose fan-out was skipped parks for ever, and a spawn step whose failure
  text reads like a timeout leaves a parent that waits for children that do
  not exist. Deployment does not require a fan-out to stand before its join.
* A handler that raises leaves its row FAILED, which nothing redelivers.
* A superseded worker's failure can follow another worker's success:
  `verify_claim_before_emit` locks nothing.
* After compression the assistant turns that were folded no longer count
  against the turn budget of the next soft-retry
  (`workers/adapters/langchain.py:704`;
  `docs/getting-started/configuration.md:347` counts "assistant turns already
  used"). A source that fails midway leaves its tools marked as loaded
  although they are discarded. A simple step does not count the usage of a native
  completion that failed.
* A concurrent duplicate of a start, or of a recovery with a token, has no
  second effect but is answered with an error instead of the first answer. The
  update that follows a lost insert in `_upsert_saga_definition`
  (`engine/registry/service.py:120`) runs in a transaction that is already
  aborted. retry-compensation with a live claim and without `force` is answered
  with an internal error.

## 6. Not modelled

Within the modelled parts: the contents of payloads (schemas, templates, CEL,
JSONPath, policy: their outcomes are choices), timing columns, audit hooks, and
files on disk (readable or not is a choice). In `SagaEngine` a worker's report and
the acknowledgement of its row are one step, or, when workers may stop, the
report alone; the detail is in `CommandDelivery`. In `SagaFlow` results are
delivered once (duplicates are `SagaEngine`'s subject), there is no review and no
hold, children have no children, and the workers' steps have no crash other than
the error they report. `CommandDelivery` leaves out commands that cannot be
parsed. `Requests` leaves out validators that look at one field alone; its recovery target is
one saga and step, of which it counts the recoveries carried out (what they do to the
outbox row is `Requeue` of `SagaEngine`), and a compensation file is taken not to change
once a step that names it is deployed. Recovery
of a spawn step is in no module: retry-step never finds one IN_PROGRESS, since a
spawn runs in one transaction, and holds are left out of `SagaFlow`. Row locks and unique constraints are taken from
PostgreSQL as documented.

Not at all: the HTTP API's read side, the CLI, the MCP server, policy evaluation
and telemetry (they change nothing the engine decides on, or are an evaluation whose
outcome is a choice), and model and tool calls (external).

## 7. Plan

The modules are complete as far as section 6 says, and most of what the runs
check of them is proved. What is left is `SagaEngine` beyond `Orderly`: what
retry-step with `force` and a claim taken from a worker leave of `UnwindIsQuiet` and
`HoldIsRecoverable`.
