------------------------------ MODULE SagaEngine ------------------------------
(***************************************************************************)
(* The Warden engine: the state machine of one saga (engine/logic.py), its *)
(* human reviews (engine/hitl_decisions.py) and the operator's recovery    *)
(* commands (engine/recovery.py), over the Postgres tables they share.     *)
(*                                                                         *)
(* Every handler of the engine is one database transaction that starts by  *)
(* locking the saga row.  The tables are the variables of this module; Db  *)
(* is the record of their current contents, and a handler is written as    *)
(* the set of contents its transaction may commit, each alternative an     *)
(* outcome of the data this model leaves out (a schema that does or does   *)
(* not validate, a CEL condition that is true, false or in error).         *)
(*                                                                         *)
(* Workers are modelled by what the engine's tables see of them: a command *)
(* row is taken, claimed and reported on, possibly more than once.         *)
(***************************************************************************)
EXTENDS Integers, FiniteSets

CONSTANTS
    N,          \* number of forward steps of the saga
    MaxKeys,    \* bound: idempotency keys a forward step goes through
    MaxUndo,    \* bound: undo rows created for one forward step
    MaxAsks,    \* bound: HUMAN_RETRY requests queued for one step
    Manifests,  \* the step configurations a behaviour may start from
    Ops,        \* the operator commands that may be issued
    Faults      \* the delivery faults that may happen

Steps == 0 .. N - 1
Keys == 1 .. MaxKeys
Undos == 1 .. MaxUndo
Asks == 1 .. MaxAsks

OpNames == {"retry_step", "retry_forward", "start_compensation",
            "retry_compensation", "hitl_retry"}

\* "engine_crash", "worker_crash": an engine or a worker process stops or
\* stalls between two transactions, and the reapers redeliver what it held;
\* "raise": a handler ends with an exception; "adapter": the adapter of an
\* undo command cannot be resolved.
FaultNames == {"engine_crash", "worker_crash", "raise", "adapter"}

\* What the engine reads of a step's manifest: its kind, whether a human
\* reviews it, whether it declares a compensation, whether its failure holds
\* the saga (on_failure.strategy: await_operator), whether it has a when.cel
\* condition, and hitl_max_retries.
Config == [kind : {"reason", "commit"}, hitl : BOOLEAN, comp : BOOLEAN,
           hold : BOOLEAN, when : BOOLEAN, limit : Nat]

ASSUME NAssumption == N \in Nat \ {0}
ASSUME BoundsAssumption ==
    MaxKeys \in Nat \ {0} /\ MaxUndo \in Nat \ {0} /\ MaxAsks \in Nat
ASSUME ManifestAssumption == Manifests \subseteq [Steps -> Config]
ASSUME SwitchAssumption == Ops \subseteq OpNames /\ Faults \subseteq FaultNames

SagaStatus == {"PENDING", "RUNNING", "AWAITING_HUMAN", "AWAITING_RECOVERY",
               "COMPENSATING", "COMPLETED", "FAILED", "COMPENSATED"}
StepStatus == {"PENDING", "IN_PROGRESS", "AWAITING_HUMAN", "COMPLETED",
               "FAILED", "TIMED_OUT", "SKIPPED"}
UndoStatus == {"none", "COMPENSATING", "COMPENSATED", "FAILED"}
OutboxStatus == {"none", "PENDING", "IN_PROGRESS", "COMPLETED", "FAILED"}
ClaimStatus == {"none", "held", "emitted"}

\* What error_details say about a failure: nothing the engine looks at, a
\* timeout, or code SYSTEM_CRASH.
Errors == {"clean", "timeout", "crash"}
\* The errors the engine itself writes: their text may read as a timeout
\* (_error_text_indicates_timeout), their code is never SYSTEM_CRASH.
EngineErrors == {"clean", "timeout"}

Decisions == {"HUMAN_APPROVED", "HUMAN_REJECTED"}

\* A command row is known by its idempotency key: the k-th key of a forward
\* step, or the key of an undo row.
Commands == ({"fwd"} \X Steps \X Keys) \cup ({"undo"} \X Steps \X Undos)

\* An event row is known by its type and span: <<type, step, 0>> for the
\* forward row of a step, <<type, step, u>> for an undo row, and the token of
\* the request for a HUMAN_RETRY.
ForwardEvents == {"STEP_COMPLETED", "STEP_FAILED", "HUMAN_APPROVED",
                  "HUMAN_REJECTED"} \X Steps \X {0}
UndoEvents == {"STEP_COMPENSATED", "COMPENSATION_FAILED", "STEP_FAILED"}
                  \X Steps \X Undos
RetryEvents == {"HUMAN_RETRY"} \X Steps \X Asks
SagaEvents == {"SAGA_STARTED", "SAGA_COMPLETED", "SAGA_FAILED",
               "SAGA_COMPENSATED"} \X {0} \X {0}
Events == ForwardEvents \cup UndoEvents \cup RetryEvents \cup SagaEvents

\* The key of processed_ingest_events is {trace}:{event_type}:{span}: the
\* token of a HUMAN_RETRY request is not part of it.
DedupKeyWithoutSpan(e) == <<e[1], 0, 0>>  \* mutant: one key for every step
DedupKey(e) == IF e[1] = "HUMAN_RETRY" THEN <<e[1], e[2], 0>> ELSE e
DedupKeys == Events \cup ({"HUMAN_RETRY"} \X Steps \X {0})

VARIABLES
    manifest,   \* the frozen step configurations of the saga
    saga,       \* saga_instances.status
    step,       \* saga_step_instances.status of the forward rows
    err,        \* error_details of the forward rows
    key,        \* idempotency_key of the forward rows, by its number
    retried,    \* hitl_retry_count of the forward rows
    undo,       \* status of the undo rows of each forward row
    row,        \* outbox_events on worker-commands
    claim,      \* processed_commands
    event,      \* outbox_events on engine-events
    seen,       \* processed_ingest_events
    handling,   \* events read from their rows by engine consumers
    taken,      \* commands read from their rows by workers, not yet claimed
    superseded, \* commands some worker still runs after losing its claim
    judged,     \* history: the key a step had when a decision was queued
    approved    \* history: the approvals that were applied

tables == <<saga, step, err, key, retried, undo, row, claim, event, seen>>
workers == <<taken, superseded>>
history == <<judged, approved>>
vars == <<manifest, tables, handling, workers, history>>

Db == [saga |-> saga, step |-> step, err |-> err, key |-> key,
       retried |-> retried, undo |-> undo, row |-> row, claim |-> claim,
       event |-> event, seen |-> seen]

DbType ==
    [saga : SagaStatus,
     step : [Steps -> StepStatus],
     err : [Steps -> Errors \cup {"none"}],
     key : [Steps -> Keys],
     retried : [Steps -> Nat],
     undo : [Steps -> [Undos -> UndoStatus]],
     row : [Commands -> OutboxStatus],
     claim : [Commands -> ClaimStatus],
     event : [Events -> OutboxStatus],
     seen : SUBSET DedupKeys]

\* An approval that took effect: the key of the held step, and the key it had
\* when the decision was queued.
Approval == [step : Steps, key : Keys, judged : Keys]

\* The transaction that reached the contents tx commits.
Commit(tx) ==
    /\ saga' = tx.saga
    /\ step' = tx.step
    /\ err' = tx.err
    /\ key' = tx.key
    /\ retried' = tx.retried
    /\ undo' = tx.undo
    /\ row' = tx.row
    /\ claim' = tx.claim
    /\ event' = tx.event
    /\ seen' = tx.seen

-----------------------------------------------------------------------------
(* Writes shared by the handlers *)

\* One value for every row of a set (an UPDATE with a WHERE clause).
Overwrite(f, S, v) == [x \in DOMAIN f |-> IF x \in S THEN v ELSE f[x]]

\* Outbox rows are unique per idempotency key; publishing an existing key is
\* a no-op, whatever the status of the row that holds it.
Publish(tx, e) ==
    IF tx.event[e] = "none"
    THEN [tx EXCEPT !.event = Overwrite(@, {e}, "PENDING")] ELSE tx

Dispatch(tx, c) ==
    IF tx.row[c] = "none" THEN [tx EXCEPT !.row[c] = "PENDING"] ELSE tx

\* A forward row gets a new status.
Mark(tx, i, status) == [tx EXCEPT !.step = Overwrite(@, {i}, status)]

\* _mark_unreachable_forward_steps_skipped
SkipPending(tx) ==
    [tx EXCEPT !.step =
        Overwrite(@, {s \in Steps : tx.step[s] = "PENDING"}, "SKIPPED")]

\* The saga ends: its status, the steps it will not reach, the notice.
Close(tx, status, notice) ==
    Publish(SkipPending([tx EXCEPT !.saga = status]), <<notice, 0, 0>>)

\* _enter_hitl_hold
Hold(tx, i) ==
    [Mark(tx, i, "AWAITING_HUMAN") EXCEPT !.saga = "AWAITING_HUMAN"]

\* mutant: the saga gets the status of the step
ResumedAsStep(status) ==
    IF status = "AWAITING_HUMAN" THEN "IN_PROGRESS" ELSE status

\* _resume_saga_running_from_hitl
Resumed(status) == IF status = "AWAITING_HUMAN" THEN "RUNNING" ELSE status

\* _clear_worker_result_ingest_dedup: forget the results of the forward row,
\* both the ingest keys and the rows on engine-events.
Results(i) == {<<"STEP_COMPLETED", i, 0>>, <<"STEP_FAILED", i, 0>>}
ClearResults(tx, i) ==
    [tx EXCEPT !.seen = @ \ Results(i),
               !.event = Overwrite(@, Results(i), "none")]

-----------------------------------------------------------------------------
(* Compensation *)

\* mutant: a step that timed out is taken for one that did nothing
EligibleIfKnown == {"COMPLETED", "FAILED", "IN_PROGRESS"}

\* forward_eligible_for_compensation
Eligible == {"COMPLETED", "FAILED", "TIMED_OUT", "IN_PROGRESS"}

HasUndo(tx, s, status) == \E u \in Undos : tx.undo[s][u] = status

\* The next free undo row of a forward row.
NewUndo(tx, s) ==
    {u \in Undos : /\ tx.undo[s][u] = "none"
                   /\ \A v \in 1 .. u - 1 : tx.undo[s][v] # "none"}

\* _schedule_compensation_for_forward: an undo row and its command, or a
\* command that cannot be built.
ScheduleUndo(tx, s) ==
    {Dispatch([tx EXCEPT !.undo[s][u] = "COMPENSATING"], <<"undo", s, u>>) :
        u \in NewUndo(tx, s)}
    \cup {Close([Mark(tx, s, "FAILED") EXCEPT !.err[s] = "clean"],
                "FAILED", "SAGA_FAILED")}

\* The forward rows at or below a cursor that still have to be undone.
ToUndo(tx, from) ==
    {s \in Steps : /\ s <= from
                   /\ manifest[s].comp
                   /\ tx.step[s] \in Eligible
                   /\ ~HasUndo(tx, s, "COMPENSATED")}

First(S) == {s \in S : \A t \in S : s <= t}  \* mutant of Last: FIFO
Last(S) == {s \in S : \A t \in S : t <= s}

\* mutant: an undo that is under way does not count
UnwindAgain(tx, from) ==
    IF ToUndo(tx, from) = {}
    THEN {Close(tx, "COMPENSATED", "SAGA_COMPENSATED")}
    ELSE UNION {ScheduleUndo(tx, s) : s \in Last(ToUndo(tx, from))}

\* _advance_lifo_compensation
Unwind(tx, from) ==
    IF ToUndo(tx, from) = {}
    THEN {Close(tx, "COMPENSATED", "SAGA_COMPENSATED")}
    ELSE UNION {IF HasUndo(tx, s, "COMPENSATING") THEN {tx}
                ELSE ScheduleUndo(tx, s) : s \in Last(ToUndo(tx, from))}

\* _apply_step_failure_lifecycle
FailedAs(tx, i, error) ==
    IF tx.step[i] = "TIMED_OUT" \/ error = "timeout"
    THEN "TIMED_OUT" ELSE "FAILED"

Fail(tx, i, error) ==
    LET to == FailedAs(tx, i, error)
        failed == [Mark(tx, i, to) EXCEPT
                      !.err[i] = IF @ = "none" THEN error ELSE @]
        from == IF to = "TIMED_OUT" \/ error = "crash" THEN i ELSE i - 1
    IN  IF manifest[i].hold
        THEN {[failed EXCEPT !.saga = "AWAITING_RECOVERY"]}
        ELSE IF from < 0
        THEN {Close(failed, "FAILED", "SAGA_FAILED")}
        ELSE Unwind([failed EXCEPT !.saga = "COMPENSATING"], from)

FailByEngine(tx, i) == UNION {Fail(tx, i, error) : error \in EngineErrors}

-----------------------------------------------------------------------------
(* Scheduling forward steps *)

\* mutant: the command is published before it is validated
TriggerPublishesFirst(tx, i, allowed) ==
    IF tx.step[i] \in {"COMPLETED", "IN_PROGRESS", "AWAITING_HUMAN"} \ allowed
    THEN {tx}
    ELSE LET sent == Dispatch(Mark(tx, i, "IN_PROGRESS"), <<"fwd", i, tx.key[i]>>)
         IN  FailByEngine(sent, i) \cup {sent}

\* mutant: a retry goes straight to the worker
TriggerRetryUnreviewed(tx, i, allowed) ==
    LET started == Mark(tx, i, "IN_PROGRESS")
    IN  {IF allowed = {} THEN Hold(started, i)
         ELSE Dispatch(started, <<"fwd", i, started.key[i]>>)}

\* trigger_step.  The step is IN_PROGRESS while its command is built; the
\* build fails (parameters, ports, prompt, policy), parks a commit step for
\* review, or yields the command.
Trigger(tx, i, allowed) ==
    IF tx.step[i] \in {"COMPLETED", "IN_PROGRESS", "AWAITING_HUMAN"} \ allowed
    THEN {tx}
    ELSE LET started == Mark(tx, i, "IN_PROGRESS")
         IN  FailByEngine(started, i) \cup
             {IF manifest[i].kind = "commit" /\ manifest[i].hitl
              THEN Hold(started, i)
              ELSE Dispatch(started, <<"fwd", i, started.key[i]>>)}

\* handle_saga_completion
CompleteSaga(tx) ==
    IF tx.saga = "COMPLETED" THEN tx
    ELSE Close(tx, "COMPLETED", "SAGA_COMPLETED")

\* Where the scan after a row may stop: every row it passes has a when.cel
\* that came out false.
Stops(after) ==
    {n \in 0 .. N : /\ after < n
                    /\ \A s \in Steps : after < s /\ s < n => manifest[s].when}

\* mutant: the rows that were passed over are not saved
SkipUnsaved(tx, after, n) == tx

Skip(tx, after, n) ==
    [tx EXCEPT !.step =
        Overwrite(@, {s \in Steps : after < s /\ s < n}, "SKIPPED")]

\* _schedule_next_forward_step
Schedule(tx, after) ==
    UNION {IF n = N THEN {CompleteSaga(Skip(tx, after, n))}
           ELSE Trigger(Skip(tx, after, n), n, {}) \cup
                (IF manifest[n].when
                 THEN FailByEngine(Skip(tx, after, n), n) ELSE {})
           : n \in Stops(after)}

\* mutant: the row is not marked
AdvanceUnmarked(tx, i) == Schedule([tx EXCEPT !.saga = Resumed(@)], i)

\* _finalize_step_output_and_advance
Advance(tx, i) ==
    Schedule([Mark(tx, i, "COMPLETED") EXCEPT !.saga = Resumed(@)], i)

-----------------------------------------------------------------------------
(* The handlers of ingested events: what their transaction may commit *)

OnSagaStarted(tx) ==
    IF tx.saga = "PENDING" THEN Schedule([tx EXCEPT !.saga = "RUNNING"], -1)
    ELSE {tx}

OnStepCompleted(tx, i) ==
    IF tx.saga = "AWAITING_RECOVERY" \/ tx.step[i] # "IN_PROGRESS" THEN {tx}
    ELSE FailByEngine(tx, i) \cup
         (IF manifest[i].kind = "reason" /\ manifest[i].hitl
          THEN {Hold(tx, i)} ELSE Advance(tx, i))

\* A forward row is never COMPENSATING or COMPENSATED, so those two cases of
\* the guard concern undo rows only: see HandleUndoReportedAsStep.
OnStepFailed(tx, i, error) ==
    IF \/ tx.saga = "AWAITING_RECOVERY"
       \/ tx.step[i] = "FAILED"
       \/ /\ tx.step[i] = "TIMED_OUT"
          /\ tx.saga \in {"COMPENSATING", "COMPENSATED", "FAILED"}
    THEN {tx}
    ELSE Fail(tx, i, error)

OnStepCompensated(tx, s, u) ==
    IF tx.undo[s][u] # "COMPENSATING" THEN {tx}
    ELSE Unwind([tx EXCEPT !.undo[s][u] = "COMPENSATED"], s - 1)

\* mutant: the undo row fails, the saga does not
OnCompensationFailedRowOnly(tx, s, u) ==
    {[tx EXCEPT !.undo[s][u] = "FAILED"]}

\* The report is taken whatever the row says by now, COMPENSATED included; one
\* that names no row closes the saga all the same.
OnCompensationFailed(tx, s, u) ==
    LET failed == IF tx.undo[s][u] = "none" THEN tx
                  ELSE [tx EXCEPT !.undo[s][u] = "FAILED"]
    IN  {Close(failed, "FAILED", "SAGA_FAILED")}

\* mutant: only the first draft of a step can be approved
OnHumanApprovedFirstKey(tx, i) ==
    IF tx.step[i] # "AWAITING_HUMAN" \/ tx.key[i] # 1 THEN {tx}
    ELSE IF manifest[i].kind = "commit"
    THEN {Dispatch([Mark(tx, i, "IN_PROGRESS") EXCEPT !.saga = Resumed(@)],
                   <<"fwd", i, tx.key[i]>>)}
    ELSE FailByEngine(tx, i) \cup Advance(tx, i)

\* A held commit step has its one tool and a held reason step the output it is
\* held with, so the handler's two branches for a step without are left out.
OnHumanApproved(tx, i) ==
    IF tx.step[i] # "AWAITING_HUMAN" THEN {tx}
    ELSE IF manifest[i].kind = "commit"
    THEN {Dispatch([Mark(tx, i, "IN_PROGRESS") EXCEPT !.saga = Resumed(@)],
                   <<"fwd", i, tx.key[i]>>)}
    ELSE FailByEngine(tx, i) \cup Advance(tx, i)

OnHumanRejected(tx, i, error) ==
    IF tx.step[i] # "AWAITING_HUMAN" THEN {tx} ELSE Fail(tx, i, error)

RetryAllowed(tx, i) ==
    /\ tx.step[i] = "AWAITING_HUMAN"
    /\ tx.saga \in {"AWAITING_HUMAN", "RUNNING"}
    /\ tx.retried[i] < manifest[i].limit

\* The held draft is dropped: a new key, no claim on the old one, no results.
OnHumanRetry(tx, i) ==
    IF ~RetryAllowed(tx, i) THEN {tx}
    ELSE Trigger(ClearResults([tx EXCEPT !.key[i] = @ + 1,
                                         !.err[i] = "none",
                                         !.retried[i] = @ + 1,
                                         !.claim[<<"fwd", i, tx.key[i]>>] = "none",
                                         !.saga = Resumed(@)], i),
                 i, {"IN_PROGRESS", "AWAITING_HUMAN"})

-----------------------------------------------------------------------------
(* The engine's consumer of engine-events *)

\* mutant: the row is acknowledged before its event is handled
PollEventAcks(e) ==
    /\ event[e] = "PENDING"
    /\ e \notin handling
    /\ event' = [event EXCEPT ![e] = "COMPLETED"]
    /\ handling' = handling \cup {e}
    /\ UNCHANGED <<manifest, saga, step, err, key, retried, undo, row, claim,
                   seen, workers, history>>

\* _poll_and_dispatch.  Two copies of one event are handled one after the
\* other, since both transactions insert the same ingest key.
PollEvent(e) ==
    /\ event[e] = "PENDING"
    /\ e \notin handling
    /\ event' = [event EXCEPT ![e] = "IN_PROGRESS"]
    /\ handling' = handling \cup {e}
    /\ UNCHANGED <<manifest, saga, step, err, key, retried, undo, row, claim,
                   seen, workers, history>>

\* _process_row marks the row COMPLETED after the transaction of the handler,
\* if it is still IN_PROGRESS; a crash in between leaves it to the reaper.
Settled(e) ==
    IF event[e] = "IN_PROGRESS"
    THEN {"COMPLETED"} \cup (IF "engine_crash" \in Faults THEN {"IN_PROGRESS"} ELSE {})
    ELSE {event[e]}

\* process_saga_event: the ingest key is inserted before the event is looked
\* at, in the transaction of its handler.
Record(tx, e, s) == [tx EXCEPT !.seen = @ \cup {DedupKey(e)}, !.event[e] = s]
Ingest(e) == {Record(Db, e, s) : s \in Settled(e)}

\* The claim of c is taken away; the worker that held it may still be running.
Supersede(c) ==
    superseded' = IF claim[c] = "held" THEN superseded \cup {c} ELSE superseded

Fresh(e) ==
    /\ e \in handling
    /\ DedupKey(e) \notin seen
    /\ handling' = handling \ {e}
    /\ UNCHANGED <<manifest, taken>>

HandleDuplicate(e) ==
    /\ e \in handling
    /\ DedupKey(e) \in seen
    /\ handling' = handling \ {e}
    /\ \E tx \in Ingest(e) : Commit(tx)
    /\ UNCHANGED <<manifest, workers, history>>

HandleSagaStarted ==
    /\ Fresh(<<"SAGA_STARTED", 0, 0>>)
    /\ \E tx \in Ingest(<<"SAGA_STARTED", 0, 0>>) :
         \E t \in OnSagaStarted(tx) : Commit(t)
    /\ UNCHANGED <<superseded, history>>

HandleStepCompleted(i) ==
    /\ Fresh(<<"STEP_COMPLETED", i, 0>>)
    /\ \E tx \in Ingest(<<"STEP_COMPLETED", i, 0>>) :
         \E t \in OnStepCompleted(tx, i) : Commit(t)
    /\ UNCHANGED <<superseded, history>>

HandleStepFailed(i) ==
    /\ Fresh(<<"STEP_FAILED", i, 0>>)
    /\ \E tx \in Ingest(<<"STEP_FAILED", i, 0>>), error \in Errors :
         \E t \in OnStepFailed(tx, i, error) : Commit(t)
    /\ UNCHANGED <<superseded, history>>

\* STEP_FAILED for an undo row: its status is COMPENSATING, COMPENSATED or
\* FAILED, and each of them makes handle_step_failed return.
HandleUndoReportedAsStep(s, u) ==
    /\ Fresh(<<"STEP_FAILED", s, u>>)
    /\ \E tx \in Ingest(<<"STEP_FAILED", s, u>>) : Commit(tx)
    /\ UNCHANGED <<superseded, history>>

HandleStepCompensated(s, u) ==
    /\ Fresh(<<"STEP_COMPENSATED", s, u>>)
    /\ \E tx \in Ingest(<<"STEP_COMPENSATED", s, u>>) :
         \E t \in OnStepCompensated(tx, s, u) : Commit(t)
    /\ UNCHANGED <<superseded, history>>

HandleCompensationFailed(s, u) ==
    /\ Fresh(<<"COMPENSATION_FAILED", s, u>>)
    /\ \E tx \in Ingest(<<"COMPENSATION_FAILED", s, u>>) :
         \E t \in OnCompensationFailed(tx, s, u) : Commit(t)
    /\ UNCHANGED <<superseded, history>>

HandleHumanApproved(i) ==
    /\ Fresh(<<"HUMAN_APPROVED", i, 0>>)
    /\ \E tx \in Ingest(<<"HUMAN_APPROVED", i, 0>>) :
         \E t \in OnHumanApproved(tx, i) : Commit(t)
    /\ approved' = IF step[i] # "AWAITING_HUMAN" THEN approved
                   ELSE approved \cup {[step |-> i, key |-> key[i],
                                       judged |-> judged[i]]}
    /\ UNCHANGED <<superseded, judged>>

HandleHumanRejected(i) ==
    /\ Fresh(<<"HUMAN_REJECTED", i, 0>>)
    /\ \E tx \in Ingest(<<"HUMAN_REJECTED", i, 0>>), error \in Errors :
         \E t \in OnHumanRejected(tx, i, error) : Commit(t)
    /\ UNCHANGED <<superseded, history>>

HandleHumanRetry(i, a) ==
    /\ Fresh(<<"HUMAN_RETRY", i, a>>)
    /\ RetryAllowed(Db, i) => key[i] < MaxKeys
    /\ \E tx \in Ingest(<<"HUMAN_RETRY", i, a>>) :
         \E t \in OnHumanRetry(tx, i) : Commit(t)
    /\ IF RetryAllowed(Db, i) THEN Supersede(<<"fwd", i, key[i]>>)
       ELSE UNCHANGED superseded
    /\ UNCHANGED history

\* SAGA_COMPLETED comes back to the engine that emitted it.
HandleSagaCompleted ==
    /\ Fresh(<<"SAGA_COMPLETED", 0, 0>>)
    /\ \E tx \in Ingest(<<"SAGA_COMPLETED", 0, 0>>) : Commit(CompleteSaga(tx))
    /\ UNCHANGED <<superseded, history>>

\* SAGA_FAILED and SAGA_COMPENSATED come back too, to no effect.
HandleNotice(type) ==
    /\ Fresh(<<type, 0, 0>>)
    /\ \E tx \in Ingest(<<type, 0, 0>>) : Commit(tx)
    /\ UNCHANGED <<superseded, history>>

\* The handler raises: its transaction is rolled back and the row is FAILED,
\* which no reaper looks at.
HandlerRaises(e) ==
    /\ "raise" \in Faults
    /\ e \in handling
    /\ handling' = handling \ {e}
    /\ event' = IF event[e] = "IN_PROGRESS"
                THEN [event EXCEPT ![e] = "FAILED"] ELSE event
    /\ UNCHANGED <<manifest, saga, step, err, key, retried, undo, row, claim,
                   seen, workers, history>>

\* The engine process stops: what it had read is forgotten.
EngineCrash ==
    /\ "engine_crash" \in Faults
    /\ handling # {}
    /\ handling' = {}
    /\ UNCHANGED <<manifest, tables, workers, history>>

\* reap_stale_in_progress_outbox_rows
ReapEvent(e) ==
    /\ "engine_crash" \in Faults
    /\ event[e] = "IN_PROGRESS"
    /\ event' = [event EXCEPT ![e] = "PENDING"]
    /\ UNCHANGED <<manifest, saga, step, err, key, retried, undo, row, claim,
                   seen, handling, workers, history>>

-----------------------------------------------------------------------------
(* Requests of human reviewers *)

\* enqueue_human_decision.  The two decisions on a step share one outbox key:
\* a row that was queued before answers for any later decision.
Decide(i, decision) ==
    /\ \A d \in Decisions : event[<<d, i, 0>>] = "none"
    /\ step[i] = "AWAITING_HUMAN"
    /\ event' = [event EXCEPT ![<<decision, i, 0>>] = "PENDING"]
    /\ judged' = [judged EXCEPT ![i] = key[i]]
    /\ UNCHANGED <<manifest, saga, step, err, key, retried, undo, row, claim,
                   seen, handling, workers, approved>>

\* A row that FAILED is requeued as it is, whatever the new decision says.
DecideAgain(i, queued) ==
    /\ event[<<queued, i, 0>>] = "FAILED"
    /\ event' = [event EXCEPT ![<<queued, i, 0>>] = "PENDING"]
    /\ judged' = [judged EXCEPT ![i] = key[i]]
    /\ UNCHANGED <<manifest, saga, step, err, key, retried, undo, row, claim,
                   seen, handling, workers, approved>>

\* enqueue_hitl_retry, with the token a
AskRetry(i, a) ==
    /\ "hitl_retry" \in Ops
    /\ \/ event[<<"HUMAN_RETRY", i, a>>] = "FAILED"
       \/ /\ event[<<"HUMAN_RETRY", i, a>>] = "none"
          /\ step[i] = "AWAITING_HUMAN"
          /\ retried[i] < manifest[i].limit
    /\ event' = [event EXCEPT ![<<"HUMAN_RETRY", i, a>>] = "PENDING"]
    /\ UNCHANGED <<manifest, saga, step, err, key, retried, undo, row, claim,
                   seen, handling, workers, history>>

-----------------------------------------------------------------------------
(* The operator's recovery commands.  force stands for the flag of the      *)
(* request, and for a claim or a row that is past its stale threshold.      *)

\* _handle_active_claim
ClaimFree(c, force) == claim[c] = "held" => force

Unclaim(tx, c) ==
    IF tx.claim[c] = "held" THEN [tx EXCEPT !.claim[c] = "none"] ELSE tx

\* _requeue_worker_outbox: whether the row of c goes back to PENDING
Requeueable(c, force) ==
    \/ row[c] \in {"PENDING", "FAILED"}
    \/ row[c] = "IN_PROGRESS" /\ force

Requeue(tx, c) == [tx EXCEPT !.row[c] = "PENDING"]

\* _reset_step_for_worker_retry
Reset(tx, i) ==
    ClearResults([tx EXCEPT !.key[i] = @ + 1, !.err[i] = "none"], i)

\* _execute_step_retry
RetryStep(i, force) ==
    LET c == <<"fwd", i, key[i]>>
    IN  /\ "retry_step" \in Ops
        /\ saga = "RUNNING"
        /\ step[i] = "IN_PROGRESS"
        /\ ClaimFree(c, force)
        /\ IF Requeueable(c, force)
           THEN Commit(ClearResults(
                    Requeue([Unclaim(Db, c) EXCEPT !.err[i] = "none"], c), i))
           ELSE /\ key[i] < MaxKeys
                /\ \E t \in Trigger(Reset(Unclaim(Db, c), i), i, {"IN_PROGRESS"}) :
                     Commit(t)
        /\ Supersede(c)
        /\ UNCHANGED <<manifest, handling, taken, history>>

\* mutant: the status of the saga is not checked
AwaitingAny(i) == step[i] \in {"FAILED", "TIMED_OUT"}

\* _assert_awaiting_recovery_forward
AwaitingOperator(i) ==
    saga = "AWAITING_RECOVERY" /\ step[i] \in {"FAILED", "TIMED_OUT"}

\* mutant: the saga stays AWAITING_RECOVERY
RetryForwardHeld(i, force) ==
    LET c == <<"fwd", i, key[i]>>
    IN  /\ "retry_forward" \in Ops
        /\ AwaitingOperator(i)
        /\ ClaimFree(c, force)
        /\ key[i] < MaxKeys
        /\ \E t \in Trigger(Reset(Unclaim(Db, c), i), i, {"IN_PROGRESS"}) : Commit(t)
        /\ Supersede(c)
        /\ UNCHANGED <<manifest, handling, taken, history>>

\* _execute_retry_forward
RetryForward(i, force) ==
    LET c == <<"fwd", i, key[i]>>
    IN  /\ "retry_forward" \in Ops
        /\ AwaitingOperator(i)
        /\ ClaimFree(c, force)
        /\ key[i] < MaxKeys
        /\ \E t \in Trigger([Reset(Unclaim(Db, c), i) EXCEPT !.saga = "RUNNING"],
                            i, {"IN_PROGRESS"}) : Commit(t)
        /\ Supersede(c)
        /\ UNCHANGED <<manifest, handling, taken, history>>

\* is_dirty_forward_step
Dirty(i) == step[i] = "TIMED_OUT" \/ err[i] = "crash"

\* _execute_start_compensation
StartCompensation(i) ==
    LET from == IF Dirty(i) THEN i ELSE i - 1
    IN  /\ "start_compensation" \in Ops
        /\ AwaitingOperator(i)
        /\ IF from < 0
           THEN Commit(Close(Db, "FAILED", "SAGA_FAILED"))
           ELSE \E t \in Unwind([Db EXCEPT !.saga = "COMPENSATING"], from) :
                  Commit(t)
        /\ UNCHANGED <<manifest, handling, workers, history>>

\* _execute_compensation_retry.  A row that cannot be requeued is emitted
\* again under the key it already has.
RetryCompensation(s, u, force) ==
    LET c == <<"undo", s, u>>
        reset == [Unclaim(Db, c) EXCEPT
                    !.saga = "COMPENSATING",
                    !.undo[s][u] = "COMPENSATING",
                    !.seen = @ \ {<<"STEP_COMPENSATED", s, u>>,
                                  <<"COMPENSATION_FAILED", s, u>>}]
    IN  /\ "retry_compensation" \in Ops
        /\ saga \in {"COMPENSATING", "FAILED"}
        /\ undo[s][u] \in {"FAILED", "COMPENSATING"}
        /\ ClaimFree(c, force)
        /\ Commit(IF Requeueable(c, force) THEN Requeue(reset, c)
                                           ELSE Dispatch(reset, c))
        /\ Supersede(c)
        /\ UNCHANGED <<manifest, handling, taken, history>>

-----------------------------------------------------------------------------
(* Workers, by what the tables see of them *)

\* The row of a command after its handler returned; a crash in between
\* leaves it IN_PROGRESS.
Acked(c) ==
    IF row[c] = "IN_PROGRESS"
    THEN {"COMPLETED"} \cup (IF "worker_crash" \in Faults THEN {"IN_PROGRESS"} ELSE {})
    ELSE {row[c]}

WorkerTakes(c) ==
    /\ row[c] = "PENDING"
    /\ c \notin taken
    /\ row' = [row EXCEPT ![c] = "IN_PROGRESS"]
    /\ taken' = taken \cup {c}
    /\ UNCHANGED <<manifest, saga, step, err, key, retried, undo, claim, event,
                   seen, handling, superseded, history>>

\* _claim_idempotency_key
WorkerClaims(c) ==
    /\ c \in taken
    /\ claim[c] = "none"
    /\ taken' = taken \ {c}
    /\ claim' = [claim EXCEPT ![c] = "held"]
    /\ UNCHANGED <<manifest, saga, step, err, key, retried, undo, row, event,
                   seen, handling, superseded, history>>

\* A key that is claimed already: the delivery is dropped.
WorkerSkips(c) ==
    /\ c \in taken
    /\ claim[c] # "none"
    /\ taken' = taken \ {c}
    /\ \E s \in Acked(c) : row' = [row EXCEPT ![c] = s]
    /\ UNCHANGED <<manifest, saga, step, err, key, retried, undo, claim, event,
                   seen, handling, superseded, history>>

\* mutant: the row is not acknowledged
ReportUnacked(c, e, mark) ==
    /\ claim[c] = "held"
    /\ Commit(Publish([Db EXCEPT !.claim[c] = mark], e))
    /\ UNCHANGED <<manifest, handling, workers, history>>

\* _finalize_success and _finalize_failure: the result and the claim in one
\* transaction, then the row.
Report(c, e, mark) ==
    /\ claim[c] = "held"
    /\ \E s \in Acked(c) :
         Commit(Publish([Db EXCEPT !.claim[c] = mark, !.row[c] = s], e))
    /\ UNCHANGED <<manifest, handling, workers, history>>

WorkerCompletes(i, k) ==
    Report(<<"fwd", i, k>>, <<"STEP_COMPLETED", i, 0>>, "emitted")

WorkerFails(i, k) ==
    Report(<<"fwd", i, k>>, <<"STEP_FAILED", i, 0>>, "none")

WorkerUndoes(s, u) ==
    Report(<<"undo", s, u>>, <<"STEP_COMPENSATED", s, u>>, "emitted")

WorkerFailsToUndo(s, u) ==
    Report(<<"undo", s, u>>, <<"COMPENSATION_FAILED", s, u>>, "none")

\* _finalize_adapter_resolution_failure reports STEP_FAILED for any command.
WorkerHasNoAdapter(s, u) ==
    /\ "adapter" \in Faults
    /\ Report(<<"undo", s, u>>, <<"STEP_FAILED", s, u>>, "none")

\* handle_worker_command raises: the claim stays.
WorkerRaises(c) ==
    /\ "raise" \in Faults
    /\ claim[c] = "held"
    /\ row[c] = "IN_PROGRESS"
    /\ row' = [row EXCEPT ![c] = "FAILED"]
    /\ UNCHANGED <<manifest, saga, step, err, key, retried, undo, claim, event,
                   seen, handling, workers, history>>

\* A worker that lost its claim reports nothing and returns.
SupersededReturns(c) ==
    /\ c \in superseded
    /\ superseded' = superseded \ {c}
    /\ \E s \in Acked(c) : row' = [row EXCEPT ![c] = s]
    /\ UNCHANGED <<manifest, saga, step, err, key, retried, undo, claim, event,
                   seen, handling, taken, history>>

\* reap_paired_worker_commands_outbox
ReapCommand(c) ==
    /\ "worker_crash" \in Faults
    /\ row[c] = "IN_PROGRESS"
    /\ Commit(Requeue(Unclaim(Db, c), c))
    /\ Supersede(c)
    /\ UNCHANGED <<manifest, handling, taken, history>>

\* reap_stale_processed_commands
ReapClaim(c) ==
    /\ "worker_crash" \in Faults
    /\ claim[c] = "held"
    /\ Commit(Unclaim(Db, c))
    /\ Supersede(c)
    /\ UNCHANGED <<manifest, handling, taken, history>>

\* A worker process stops between taking a row and claiming its command.
WorkerCrash(c) ==
    /\ "worker_crash" \in Faults
    /\ c \in taken
    /\ taken' = taken \ {c}
    /\ UNCHANGED <<manifest, tables, handling, superseded, history>>

-----------------------------------------------------------------------------

Init ==
    /\ manifest \in Manifests
    /\ saga = "PENDING"
    /\ step = [s \in Steps |-> "PENDING"]
    /\ err = [s \in Steps |-> "none"]
    /\ key = [s \in Steps |-> 1]
    /\ retried = [s \in Steps |-> 0]
    /\ undo = [s \in Steps |-> [u \in Undos |-> "none"]]
    /\ row = [c \in Commands |-> "none"]
    /\ claim = [c \in Commands |-> "none"]
    /\ event = [e \in Events |-> IF e = <<"SAGA_STARTED", 0, 0>>
                                  THEN "PENDING" ELSE "none"]
    /\ seen = {}
    /\ handling = {}
    /\ taken = {}
    /\ superseded = {}
    /\ judged = [s \in Steps |-> 1]
    /\ approved = {}

\* The engine handles an event it has read.
HandleStep(i) ==
    \/ HandleStepCompleted(i)
    \/ HandleStepFailed(i)
    \/ HandleHumanApproved(i)
    \/ HandleHumanRejected(i)
    \/ \E a \in Asks : HandleHumanRetry(i, a)

HandleUndo(s, u) ==
    \/ HandleStepCompensated(s, u)
    \/ HandleCompensationFailed(s, u)
    \/ HandleUndoReportedAsStep(s, u)

Engine ==
    \/ \E e \in Events : PollEvent(e) \/ HandleDuplicate(e)
    \/ HandleSagaStarted
    \/ HandleSagaCompleted
    \/ \E type \in {"SAGA_FAILED", "SAGA_COMPENSATED"} : HandleNotice(type)
    \/ \E i \in Steps : HandleStep(i)
    \/ \E s \in Steps, u \in Undos : HandleUndo(s, u)

Worker ==
    \/ \E c \in Commands : \/ WorkerTakes(c) \/ WorkerClaims(c) \/ WorkerSkips(c)
                           \/ SupersededReturns(c)
    \/ \E i \in Steps, k \in Keys : WorkerCompletes(i, k) \/ WorkerFails(i, k)
    \/ \E s \in Steps, u \in Undos :
          WorkerUndoes(s, u) \/ WorkerFailsToUndo(s, u) \/ WorkerHasNoAdapter(s, u)

Reviewer ==
    \E i \in Steps :
        \/ \E d \in Decisions : Decide(i, d) \/ DecideAgain(i, d)
        \/ \E a \in Asks : AskRetry(i, a)

Operator ==
    \/ \E i \in Steps, force \in BOOLEAN :
          RetryStep(i, force) \/ RetryForward(i, force)
    \/ \E i \in Steps : StartCompensation(i)
    \/ \E s \in Steps, u \in Undos, force \in BOOLEAN :
          RetryCompensation(s, u, force)

Fault ==
    \/ \E e \in Events : HandlerRaises(e) \/ ReapEvent(e)
    \/ EngineCrash
    \/ \E c \in Commands :
          \/ WorkerRaises(c) \/ WorkerCrash(c) \/ ReapCommand(c) \/ ReapClaim(c)

Next == Engine \/ Worker \/ Reviewer \/ Operator \/ Fault

Spec == Init /\ [][Next]_vars

-----------------------------------------------------------------------------
(* Properties *)

\* The tables, the processes and the history variables have their types.
TypeOK ==
    /\ manifest \in [Steps -> Config]
    /\ Db \in DbType
    /\ handling \subseteq Events
    /\ taken \subseteq Commands
    /\ superseded \subseteq Commands
    /\ judged \in [Steps -> Keys]
    /\ approved \subseteq Approval

Started(i) == step[i] \notin {"PENDING", "SKIPPED"}
Active(i) == step[i] \in {"IN_PROGRESS", "AWAITING_HUMAN"}
Ended == saga \in {"COMPLETED", "FAILED", "COMPENSATED"}
Queued(e) == event[e] \in {"PENDING", "IN_PROGRESS"} \/ e \in handling
Live(c) == row[c] \in {"PENDING", "IN_PROGRESS"}
InFlight(c) == Live(c) \/ claim[c] = "held"
UnderWay(c) == Live(c) \/ c \in taken \/ (claim[c] = "held" /\ row[c] # "FAILED")

\* Forward rows run one at a time and in order (_schedule_next_forward_step):
\* whatever comes before a row that was started has completed or was skipped,
\* unless the undo command of it could not be built, which fails the saga.
ForwardOrder ==
    \A i, j \in Steps :
        i < j /\ Started(j) => \/ step[i] \in {"COMPLETED", "SKIPPED"}
                               \/ step[i] = "FAILED" /\ saga = "FAILED"

\* Compensation is LIFO (_advance_lifo_compensation): a step is undone only
\* when every later step that completed and declares a compensation is undone.
UndoOrder ==
    \A s, t \in Steps, u \in Undos :
        /\ s < t
        /\ undo[s][u] # "none"
        /\ manifest[t].comp
        /\ step[t] = "COMPLETED"
        => HasUndo(Db, t, "COMPENSATED")

\* COMPENSATED ("STATE_RESTORED") is only announced when every completed step
\* that declares a compensation has been undone, and the ones that failed
\* dirty as well.
RestoredMeansUndone ==
    saga = "COMPENSATED" =>
        \A s \in Steps :
            manifest[s].comp /\ (step[s] = "COMPLETED" \/ Dirty(s))
                => HasUndo(Db, s, "COMPENSATED")

\* COMPLETED means that every step ran or was skipped, and nothing was undone.
CompletedMeansDone ==
    saga = "COMPLETED" =>
        \A s \in Steps : /\ step[s] \in {"COMPLETED", "SKIPPED"}
                         /\ undo[s] = [u \in Undos |-> "none"]

\* No undo runs while a forward command may still run: once a saga unwinds,
\* no forward command is queued, taken or claimed.
UnwindIsQuiet ==
    saga \in {"COMPENSATING", "COMPENSATED"} =>
        \A i \in Steps, k \in Keys : ~InFlight(<<"fwd", i, k>>)

\* A further undo row of a step is made (_schedule_compensation_for_forward)
\* only when the engine has handled COMPENSATION_FAILED for every earlier one,
\* so a step has one undo in flight at most, however late and however often the
\* results of its commands arrive.  That no row is made once an undo has
\* succeeded is more than this, and is not so: see UndoneOnce of MCSagaHistory.
NewUndoOnlyAfterFailure ==
    \A s \in Steps, u, v \in Undos :
        u < v /\ undo[s][v] # "none" =>
            /\ undo[s][u] = "FAILED"
            /\ <<"COMPENSATION_FAILED", s, u>> \in seen

\* A running saga is not stuck: a step of it is under way, with a command
\* that a worker will take, has taken or works on, or a result on its way.
RunningHasWork ==
    saga = "RUNNING" =>
        \E i \in Steps :
            /\ step[i] = "IN_PROGRESS"
            /\ \/ UnderWay(<<"fwd", i, key[i]>>)
               \/ \E e \in Results(i) : Queued(e) /\ e \notin seen

\* A compensating saga is not stuck: an undo of it is under way.
CompensatingHasWork ==
    saga = "COMPENSATING" =>
        \E s \in Steps, u \in Undos :
            /\ undo[s][u] = "COMPENSATING"
            /\ \/ UnderWay(<<"undo", s, u>>)
               \/ \E type \in {"STEP_COMPENSATED", "COMPENSATION_FAILED"} :
                    Queued(<<type, s, u>>) /\ <<type, s, u>> \notin seen

\* A held saga can be decided: a step is held, and a decision on it can still
\* be queued or is about to be handled.
HeldIsDecidable ==
    saga = "AWAITING_HUMAN" =>
        \E i \in Steps :
            /\ step[i] = "AWAITING_HUMAN"
            /\ \/ \A d \in Decisions : event[<<d, i, 0>>] = "none"
               \/ \E d \in Decisions :
                    /\ Queued(<<d, i, 0>>) \/ event[<<d, i, 0>>] = "FAILED"
                    /\ <<d, i, 0>> \notin seen

\* A saga that waits for its operator has a failed step that declares
\* await_operator, which the operator's commands can name.
HoldIsRecoverable ==
    saga = "AWAITING_RECOVERY" =>
        \E i \in Steps : manifest[i].hold /\ step[i] \in {"FAILED", "TIMED_OUT"}

\* A commit step under review is never sent to a worker before an approval of
\* it was applied, whatever is retried, redelivered or lost: each of its
\* commands carries a key for which HUMAN_APPROVED was handled.
ApprovalGate ==
    \A i \in Steps, k \in Keys :
        /\ manifest[i].kind = "commit" /\ manifest[i].hitl
        /\ row[<<"fwd", i, k>>] # "none"
        => \E a \in approved : a.step = i /\ a.key = k

\* An approval applies to the draft the reviewer saw: the step still has the
\* key it had when the decision was queued.
ApprovalIsForDraft == \A a \in approved : a.judged = a.key

\* A step has one command in the hands of workers at a time: a new key is sent
\* out only when nothing of the step is queued, taken or claimed.
SingleDelivery ==
    \A i \in Steps, k, l \in Keys :
        InFlight(<<"fwd", i, k>>) /\ InFlight(<<"fwd", i, l>>) => k = l

\* An outcome, once reached, is final; only retry-compensation reopens a
\* FAILED saga.
OutcomeIsFinal ==
    [][Ended => saga' = saga \/ (saga = "FAILED" /\ saga' = "COMPENSATING"
                                   /\ "retry_compensation" \in Ops)]_vars

\* A completed step stays completed: what a later step read of its output
\* stays true.  Only an undo that cannot be built marks it FAILED, as the saga
\* fails.
CompletedIsFinal ==
    [][\A i \in Steps :
          step[i] = "COMPLETED" =>
              \/ step'[i] = "COMPLETED"
              \/ step'[i] = "FAILED" /\ saga' = "FAILED" /\ saga # "COMPLETED"]_vars

\* A request to retry a held step that its limits allow takes effect: handling
\* it gives the step a new key.
RetryIsHonoured ==
    [][\A i \in Steps, a \in Asks :
          LET e == <<"HUMAN_RETRY", i, a>>
          IN  e \in handling /\ e \notin handling' /\ RetryAllowed(Db, i)
                => key'[i] # key[i]]_vars

\* A saga that is running or unwinding comes to an end or to a hold.
Settles ==
    saga \in {"RUNNING", "COMPENSATING"} ~>
        (Ended \/ saga \in {"AWAITING_HUMAN", "AWAITING_RECOVERY"})

\* A decision that was queued on a held step takes the step out of its hold.
DecisionTakesEffect ==
    \A i \in Steps, d \in Decisions :
        (event[<<d, i, 0>>] = "PENDING" /\ step[i] = "AWAITING_HUMAN")
            ~> step[i] # "AWAITING_HUMAN"

=============================================================================
