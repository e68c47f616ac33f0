------------------------------- MODULE SagaFlow -------------------------------
(***************************************************************************)
(* Loops and child sagas: how the engine unfolds the frozen blueprint of a *)
(* saga into step rows (engine/step_materialize.py, common/loops.py,       *)
(* engine/loop_control.py), starts child sagas and waits for them          *)
(* (engine/child_sagas.py), and unwinds both (engine/logic.py).            *)
(*                                                                         *)
(* The model has one parent saga and the children it spawns.  A parent's   *)
(* handler is one transaction under the lock of the parent's row.  A child *)
(* that ends is two steps: its transaction saves the terminal status, and  *)
(* then waits for the lock of the parent's row, which it updates before it *)
(* commits.  In between, nobody else sees that the child has ended.        *)
(*                                                                         *)
(* As in SagaEngine a handler is the set of contents its transaction may   *)
(* commit.  The functions a handler calls walk along the rows: each is the *)
(* set of calls it may end with, and Returned follows them to their end.   *)
(* A child is its own SagaEngine, and reviews, delivery and the recovery   *)
(* of worker steps are modelled there: here a step of a worker completes   *)
(* or fails, and a child ends.                                             *)
(***************************************************************************)
EXTENDS Integers, Sequences, FiniteSets, FiniteSetsExt

CONSTANTS
    Blueprints,   \* the frozen_steps a behaviour may start from
    Items,        \* the items a spawn may find in the saga's context
    SpawnErrors,  \* how the failures of a spawn step may read
    MaxReopen,    \* bound: retry-compensation requests on children
    MaxRollback,  \* bound: child transactions cut off before they commit
    MaxCalls      \* bound: calls along the rows in one transaction

StepErrors == {"clean", "timeout", "crash"}
EngineErrors == {"clean", "timeout"}

Worker == [kind : {"worker"}, comp : BOOLEAN, when : BOOLEAN]
Spawn == [kind : {"spawn"}, when : BOOLEAN]
Join == [kind : {"join"}, when : BOOLEAN, of : Nat, zero : BOOLEAN]
Loop == [kind : {"loop"}, body : Seq(Worker), max : Nat \ {0}]

\* What deployment accepts: loops have a body of worker steps, a join names a
\* spawn step of the blueprint, and no spawn step is joined twice.
WellFormed(b) ==
    /\ b \in Seq(Worker \cup Spawn \cup Join \cup Loop)
    /\ \A n \in DOMAIN b : b[n].kind = "loop" => b[n].body # << >>
    /\ \A n \in DOMAIN b : b[n].kind = "join" =>
        /\ b[n].of \in DOMAIN b
        /\ b[b[n].of].kind = "spawn"
        /\ \A m \in DOMAIN b : b[m].kind = "join" /\ b[m].of = b[n].of => m = n

ASSUME BlueprintAssumption == \A b \in Blueprints : b # << >> /\ WellFormed(b)
ASSUME ErrorAssumption == SpawnErrors \subseteq EngineErrors
ASSUME BoundAssumption ==
    MaxReopen \in Nat /\ MaxRollback \in Nat /\ MaxCalls \in Nat

Terminal == {"COMPLETED", "FAILED", "FAILED_AT_START", "COMPENSATED"}
SagaStatus == {"PENDING", "RUNNING", "COMPENSATING"} \cup Terminal

Nodes == UNION {DOMAIN b : b \in Blueprints}
\* A child is known by its idempotency key: the spawn step and the item.
Children == Nodes \X Items

VARIABLES
    blueprint,  \* saga_instances.frozen_steps of the parent
    parent,     \* saga_instances.status of the parent
    rows,       \* the forward rows in the order of forward_seq, each with the
                \* status of its undo row
    cursor,     \* loop_state.next_blueprint_index
    loops,      \* context.loops
    child,      \* saga_instances.status of the children, as committed
    ending,     \* the status a child's open transaction has saved
    reopened, rolledBack

vars == <<blueprint, parent, rows, cursor, loops, child, ending, reopened,
          rolledBack>>

Db == [parent |-> parent, rows |-> rows, cursor |-> cursor, loops |-> loops,
       child |-> child]

Commit(tx) ==
    /\ parent' = tx.parent
    /\ rows' = tx.rows
    /\ cursor' = tx.cursor
    /\ loops' = tx.loops
    /\ child' = tx.child

-----------------------------------------------------------------------------
(* Rows of the blueprint *)

\* _step_create_fields: a row of a node, or of a step of a loop's body
NewRow(n, pos, iter) ==
    [node |-> n, pos |-> pos, iter |-> iter, status |-> "PENDING",
     error |-> "none", undo |-> "none"]

\* mint_loop_iteration_body
Body(b, n, iter) == [p \in DOMAIN b[n].body |-> NewRow(n, p, iter)]

\* The manifest of a row.
Manifest(r) ==
    IF blueprint[r.node].kind = "loop" THEN blueprint[r.node].body[r.pos]
    ELSE blueprint[r.node]

\* is_last_body_step
EndsBody(r) ==
    /\ blueprint[r.node].kind = "loop"
    /\ r.pos = Len(blueprint[r.node].body)

\* The first loop at or after a node, else the end of the blueprint.
SegmentEnd(b, from) ==
    Min({n \in from .. Len(b) : b[n].kind = "loop"} \cup {Len(b)})

\* take_initial_materialization_segment and take_next_materialization_segment:
\* the rows up to the next loop, and the first iteration of its body
Segment(b, from) ==
    IF from > Len(b) THEN << >>
    ELSE LET end == SegmentEnd(b, from)
             plain == IF b[end].kind = "loop" THEN end - 1 ELSE end
         IN  [i \in 1 .. plain - from + 1 |-> NewRow(from + i - 1, 0, 0)]
             \o (IF b[end].kind = "loop" THEN Body(b, end, 1) ELSE << >>)

CursorAfter(b, from) == IF from > Len(b) THEN from ELSE SegmentEnd(b, from) + 1

\* initial_loops_context
InitialLoops(b) ==
    [n \in {m \in DOMAIN b : b[m].kind = "loop"} |->
        [iter |-> 1, status |-> "running"]]

-----------------------------------------------------------------------------
(* Writes shared by the handlers *)

Mark(tx, i, status) == [tx EXCEPT !.rows[i].status = status]

\* The parent ends; rows it will not reach are skipped.
Close(tx, status) ==
    [tx EXCEPT !.parent = status,
               !.rows = [i \in DOMAIN @ |->
                   IF @[i].status = "PENDING"
                   THEN [@[i] EXCEPT !.status = "SKIPPED"] ELSE @[i]]]

\* load_spawn_children
Kids(tx, n) == {c \in Children : c[1] = n /\ tx.child[c] # "none"}

\* _all_children_terminal
AllTerminal(tx, n) ==
    /\ Kids(tx, n) # {}
    /\ \A c \in Kids(tx, n) : tx.child[c] \in Terminal

\* What is left to do in a transaction: the search for the next row from
\* at upwards, the unwinding from at downwards, or nothing.
Call(todo, tx, at) == [todo |-> todo, tx |-> tx, at |-> at]
ThenSchedule(tx, i) == Call("schedule", tx, i)
ThenUnwind(tx, i) == Call("unwind", tx, i)
Over(tx) == Call("return", tx, 0)

-----------------------------------------------------------------------------
(* Unwinding *)

\* forward_step_has_compensation
HasCompensation(r) ==
    \/ Manifest(r).kind = "spawn"
    \/ Manifest(r).kind = "worker" /\ Manifest(r).comp

\* forward_eligible_for_compensation
Eligible(r) == r.status \in {"COMPLETED", "FAILED", "TIMED_OUT", "IN_PROGRESS"}

\* _schedule_compensation_for_forward: the undo command is sent, or it cannot
\* be built and the saga fails
ScheduleUndo(tx, i) ==
    {Over([tx EXCEPT !.rows[i].undo = "COMPENSATING"]),
     Over(Close([Mark(tx, i, "FAILED") EXCEPT !.rows[i].error = "clean"], "FAILED"))}

\* compensate_spawn_sagas_forward: wait for the children, then continue below
CompensateSpawn(tx, i) ==
    IF AllTerminal(tx, tx.rows[i].node)
    THEN ThenUnwind([tx EXCEPT !.rows[i].undo = "COMPENSATED"], i - 1)
    ELSE Over(tx)

\* mutant: the walk starts at the oldest row
ToUndoFirst(tx, from) ==
    LET due == {i \in 1 .. from : /\ HasCompensation(tx.rows[i])
                                  /\ Eligible(tx.rows[i])
                                  /\ tx.rows[i].undo # "COMPENSATED"}
    IN  {i \in due : \A j \in due : i <= j}

\* The row the walk of _advance_lifo_compensation stops at, if any.
ToUndo(tx, from) ==
    LET due == {i \in 1 .. from : /\ HasCompensation(tx.rows[i])
                                  /\ Eligible(tx.rows[i])
                                  /\ tx.rows[i].undo # "COMPENSATED"}
    IN  {i \in due : \A j \in due : j <= i}

\* _advance_lifo_compensation
Unwind(tx, from) ==
    IF ToUndo(tx, from) = {} THEN {Over(Close(tx, "COMPENSATED"))}
    ELSE LET i == CHOOSE s \in ToUndo(tx, from) : TRUE
         IN  IF tx.rows[i].undo = "COMPENSATING" THEN {Over(tx)}
             ELSE IF Manifest(tx.rows[i]).kind = "spawn" THEN {CompensateSpawn(tx, i)}
             ELSE ScheduleUndo(tx, i)

\* _apply_step_failure_lifecycle with the default strategy: a timeout or a
\* crash may have had effects, so the walk then includes the step itself.
Fail(tx, i, e) ==
    LET failed == [tx EXCEPT !.rows[i].error = IF @ = "none" THEN e ELSE @,
                             !.rows[i].status = IF e = "timeout" THEN "TIMED_OUT"
                                                ELSE "FAILED"]
        from == IF e = "clean" THEN i - 1 ELSE i
    IN  IF from < 1 THEN Over(Close(failed, "FAILED"))
        ELSE ThenUnwind([failed EXCEPT !.parent = "COMPENSATING"], from)

-----------------------------------------------------------------------------
(* Forward scheduling *)

\* _mint_and_schedule
Mint(tx, new) ==
    ThenSchedule([tx EXCEPT !.rows = @ \o new], Len(tx.rows) + 1)

\* mutant: the walk starts below the last step of the body
FailLoopBelow(tx, i, code) ==
    ThenUnwind([tx EXCEPT !.loops[tx.rows[i].node] =
                              [iter |-> tx.rows[i].iter, status |-> "exhausted"],
                          !.parent = "COMPENSATING"], i - 1)

\* _fail_saga_after_successful_body
FailLoop(tx, i, code) ==
    ThenUnwind([tx EXCEPT !.loops[tx.rows[i].node] =
                              [iter |-> tx.rows[i].iter, status |-> "exhausted"],
                          !.parent = "COMPENSATING",
                          !.rows[i].error = IF @ = "none" THEN code ELSE @],
               i)

\* mutant: the rows minted with the loop are taken for the rest
ExitLoopToEnd(tx, i) == Over(Close(tx, "COMPLETED"))

\* _exit_loop: materialise up to the next loop; with nothing left, the search
\* for the next row completes the saga
ExitLoop(tx, i) ==
    LET n == tx.rows[i].node
        left == [tx EXCEPT !.loops[n] = [iter |-> tx.rows[i].iter,
                                         status |-> "exited"],
                           !.cursor = CursorAfter(blueprint, @)]
        new == Segment(blueprint, tx.cursor)
    IN  IF new = << >> THEN ThenSchedule(left, i + 1) ELSE Mint(left, new)

\* mutant: the counter in the context stays
ContinueUncounted(tx, i) ==
    Mint(tx, Body(blueprint, tx.rows[i].node, tx.rows[i].iter + 1))

\* _continue_loop
ContinueLoop(tx, i) ==
    LET n == tx.rows[i].node
        next == tx.rows[i].iter + 1
    IN  Mint([tx EXCEPT !.loops[n] = [iter |-> next, status |-> "running"]],
             Body(blueprint, n, next))

\* mutant: off by one
ExhaustedEarly(r) == r.iter + 1 >= blueprint[r.node].max

Exhausted(r) == r.iter >= blueprint[r.node].max

\* handle_possible_loop_boundary: until.cel is in error, true or false
Boundary(tx, i) ==
    {FailLoop(tx, i, "UNTIL_EVALUATION_FAILED"),
     ExitLoop(tx, i),
     IF Exhausted(tx.rows[i]) THEN FailLoop(tx, i, "LOOP_EXHAUSTED")
     ELSE ContinueLoop(tx, i)}

\* A row is done, COMPLETED or SKIPPED: it ends a body, or the next row is due.
Continue(tx, i) ==
    IF EndsBody(tx.rows[i]) THEN Boundary(tx, i) ELSE {ThenSchedule(tx, i + 1)}

\* _finalize_step_output_and_advance
Finalize(tx, i) == Continue(Mark(tx, i, "COMPLETED"), i)

\* try_complete_join
TryJoin(tx, i) ==
    LET join == Manifest(tx.rows[i])
    IN  IF ~ AllTerminal(tx, join.of) THEN {Over(tx)}
        ELSE IF /\ ~ join.zero
                /\ \A c \in Kids(tx, join.of) : tx.child[c] # "COMPLETED"
        THEN {Fail(tx, i, "clean")}
        ELSE Finalize(tx, i)

\* execute_spawn_sagas: one child per item, in a savepoint that leaves none
\* behind when the items or the child's definition are not usable
SpawnChildren(tx, i) ==
    (UNION {Finalize([tx EXCEPT !.child = [c \in Children |->
                        IF c \in {tx.rows[i].node} \X S THEN "RUNNING"
                        ELSE @[c]]], i)
            : S \in (SUBSET Items) \ {{}}})
    \cup {Fail(tx, i, e) : e \in SpawnErrors}

\* trigger_step: worker steps are sent out or fail to be built, the others
\* run in the engine
Trigger(tx, i) ==
    LET started == Mark(tx, i, "IN_PROGRESS")
        kind == Manifest(tx.rows[i]).kind
    IN  CASE kind = "spawn" -> SpawnChildren(started, i)
          [] kind = "join" -> TryJoin(started, i)
          [] kind = "worker" ->
                {Over(started)} \cup {Fail(started, i, e) : e \in EngineErrors}

\* _schedule_next_forward_step: when.cel is absent or true, false or in error
Schedule(tx, i) ==
    IF i > Len(tx.rows) THEN {Over(Close(tx, "COMPLETED"))}
    ELSE Trigger(tx, i)
         \cup (IF ~ Manifest(tx.rows[i]).when THEN {}
               ELSE Continue(Mark(tx, i, "SKIPPED"), i)
                    \cup {Fail(tx, i, e) : e \in EngineErrors})

\* The calls a call may end with.
Step(c) ==
    CASE c.todo = "schedule" -> Schedule(c.tx, c.at)
      [] c.todo = "unwind" -> Unwind(c.tx, c.at)
      [] c.todo = "return" -> {c}

\* The contents the transaction may commit once the calls have returned.
Returned(calls) ==
    LET after[n \in Nat] ==
            IF n = 0 THEN calls ELSE UNION {Step(c) : c \in after[n - 1]}
    IN  {c.tx : c \in {d \in after[MaxCalls] : d.todo = "return"}}

-----------------------------------------------------------------------------
(* Handlers of the parent *)

Init ==
    /\ blueprint \in Blueprints
    /\ parent = "PENDING"
    /\ rows = Segment(blueprint, 1)
    /\ cursor = CursorAfter(blueprint, 1)
    /\ loops = InitialLoops(blueprint)
    /\ child = [c \in Children |-> "none"]
    /\ ending = [c \in Children |-> "none"]
    /\ reopened = 0
    /\ rolledBack = 0

\* handle_saga_started
Start ==
    /\ parent = "PENDING"
    /\ \E t \in Returned({ThenSchedule([Db EXCEPT !.parent = "RUNNING"], 1)}) : Commit(t)
    /\ UNCHANGED <<blueprint, ending, reopened, rolledBack>>

\* handle_step_completed
StepCompleted(i) ==
    /\ rows[i].status = "IN_PROGRESS"
    /\ Manifest(rows[i]).kind = "worker"
    /\ \E t \in Returned(Finalize(Db, i)) : Commit(t)
    /\ UNCHANGED <<blueprint, ending, reopened, rolledBack>>

\* handle_step_failed
StepFailed(i) ==
    /\ rows[i].status = "IN_PROGRESS"
    /\ Manifest(rows[i]).kind = "worker"
    /\ \E e \in StepErrors : \E t \in Returned({Fail(Db, i, e)}) : Commit(t)
    /\ UNCHANGED <<blueprint, ending, reopened, rolledBack>>

\* handle_compensation_completed
StepCompensated(i) ==
    /\ rows[i].undo = "COMPENSATING"
    /\ \E t \in Returned({ThenUnwind([Db EXCEPT !.rows[i].undo = "COMPENSATED"], i - 1)}) :
          Commit(t)
    /\ UNCHANGED <<blueprint, ending, reopened, rolledBack>>

\* handle_compensation_failed
CompensationFailed(i) ==
    /\ rows[i].undo = "COMPENSATING"
    /\ Commit(Close([Db EXCEPT !.rows[i].undo = "FAILED"], "FAILED"))
    /\ UNCHANGED <<blueprint, ending, reopened, rolledBack>>

\* _execute_retry_step on a join: try again what the last child should have
\* done
RetryJoin(i) ==
    /\ parent = "RUNNING"
    /\ rows[i].status = "IN_PROGRESS"
    /\ Manifest(rows[i]).kind = "join"
    /\ \E t \in Returned(TryJoin(Db, i)) : Commit(t)
    /\ UNCHANGED <<blueprint, ending, reopened, rolledBack>>

-----------------------------------------------------------------------------
(* The children *)

\* A step of the child fails after others have completed.
ChildUnwinds(c) ==
    /\ child[c] = "RUNNING"
    /\ ending[c] = "none"
    /\ child' = [child EXCEPT ![c] = "COMPENSATING"]
    /\ UNCHANGED <<blueprint, parent, rows, cursor, loops, ending, reopened,
                   rolledBack>>

\* The outcomes of a child: handle_saga_completion and
\* _fail_saga_no_compensation_window while it runs,
\* _finalize_saga_compensated and _emit_saga_failed_from_compensation while it
\* unwinds.
Outcomes(status) ==
    CASE status = "RUNNING" -> {"COMPLETED", "FAILED_AT_START"}
      [] status = "COMPENSATING" -> {"COMPENSATED", "FAILED"}
      [] OTHER -> {}

\* The child's transaction has saved its terminal status.
ChildEnds(c) ==
    /\ ending[c] = "none"
    /\ \E o \in Outcomes(child[c]) : ending' = [ending EXCEPT ![c] = o]
    /\ UNCHANGED <<blueprint, parent, rows, cursor, loops, child, reopened,
                   rolledBack>>

\* mutant: the resumed walk takes the parent's spawn steps for undone
ResumeSpawnNever(tx) == Over(tx)

\* maybe_resume_spawn_compensation: of the spawn steps that ran, the last
ResumeSpawn(tx) ==
    LET ran == {i \in DOMAIN tx.rows : /\ Manifest(tx.rows[i]).kind = "spawn"
                                       /\ Eligible(tx.rows[i])}
    IN  IF \/ ran = {}
           \/ tx.rows[Max(ran)].undo = "COMPENSATED" THEN Over(tx)
        ELSE CompensateSpawn(tx, Max(ran))

\* The join that waits, at most one row: steps run one after the other.
Parked(tx) ==
    {i \in DOMAIN tx.rows : /\ Manifest(tx.rows[i]).kind = "join"
                            /\ tx.rows[i].status = "IN_PROGRESS"}

\* mutant: the join looks at the children before the child's status is saved
OnChildTerminalStale(tx, c) ==
    LET stale == [tx EXCEPT !.child[c] = child[c]]
        tried == IF Parked(tx) = {} THEN {stale}
                 ELSE Returned(TryJoin(stale, Min(Parked(tx))))
        saved == {[t EXCEPT !.child[c] = tx.child[c]] : t \in tried}
    IN  Returned({IF t.parent = "COMPENSATING" THEN ResumeSpawn(t) ELSE Over(t) : t \in saved})

\* on_child_saga_terminal, under the lock of the parent's row
OnChildTerminal(tx, c) ==
    LET tried == IF Parked(tx) = {} THEN {tx}
                 ELSE Returned(TryJoin(tx, Min(Parked(tx))))
    IN  Returned({IF t.parent = "COMPENSATING" THEN ResumeSpawn(t) ELSE Over(t) : t \in tried})

\* The child's transaction gets the lock, wakes the parent and commits.
ChildCommits(c) ==
    /\ ending[c] # "none"
    /\ \E t \in OnChildTerminal([Db EXCEPT !.child[c] = ending[c]], c) : Commit(t)
    /\ ending' = [ending EXCEPT ![c] = "none"]
    /\ UNCHANGED <<blueprint, reopened, rolledBack>>

\* The engine process that runs the child's transaction stops; the event is
\* redelivered later.
ChildRollsBack(c) ==
    /\ ending[c] # "none"
    /\ rolledBack < MaxRollback
    /\ rolledBack' = rolledBack + 1
    /\ ending' = [ending EXCEPT ![c] = "none"]
    /\ UNCHANGED <<blueprint, parent, rows, cursor, loops, child, reopened>>

\* _execute_retry_compensation on a child whose undo failed
ChildReopened(c) ==
    /\ child[c] = "FAILED"
    /\ reopened < MaxReopen
    /\ reopened' = reopened + 1
    /\ child' = [child EXCEPT ![c] = "COMPENSATING"]
    /\ UNCHANGED <<blueprint, parent, rows, cursor, loops, ending, rolledBack>>

Next ==
    \/ Start
    \/ \E i \in DOMAIN rows : \/ StepCompleted(i)
                              \/ StepFailed(i)
                              \/ StepCompensated(i)
                              \/ CompensationFailed(i)
                              \/ RetryJoin(i)
    \/ \E c \in Children : \/ ChildUnwinds(c)
                           \/ ChildEnds(c)
                           \/ ChildCommits(c)
                           \/ ChildRollsBack(c)
                           \/ ChildReopened(c)

Spec == Init /\ [][Next]_vars

-----------------------------------------------------------------------------
(* Properties *)

Row == [node : Nodes, pos : Nat, iter : Nat,
        status : {"PENDING", "IN_PROGRESS", "COMPLETED", "FAILED", "TIMED_OUT",
                  "SKIPPED"},
        error : StepErrors \cup {"none", "LOOP_EXHAUSTED",
                                 "UNTIL_EVALUATION_FAILED"},
        undo : {"none", "COMPENSATING", "COMPENSATED", "FAILED"}]

\* The types of the tables.
TypeOK ==
    /\ blueprint \in Blueprints
    /\ parent \in SagaStatus
    /\ rows \in Seq(Row)
    /\ cursor \in 1 .. Len(blueprint) + 1
    /\ DOMAIN loops = {n \in DOMAIN blueprint : blueprint[n].kind = "loop"}
    /\ child \in [Children -> SagaStatus \cup {"none"}]
    /\ ending \in [Children -> Terminal \cup {"none"}]
    /\ reopened \in 0 .. MaxReopen
    /\ rolledBack \in 0 .. MaxRollback

Done(r) == r.status \in {"COMPLETED", "SKIPPED"}

\* The delay-tail of common/loops.py: while a saga runs, rows after a loop
\* exist only when it has exited and its last body is done; an iteration
\* starts only when the one before is done, and is the one context.loops
\* reports to until.cel.  No two rows share a step and an iteration, so that no
\* two commands share their forward_idempotency_key.
LoopDiscipline ==
    /\ \A i, j \in DOMAIN rows :
          /\ rows[i].node = rows[j].node
          /\ rows[i].pos = rows[j].pos
          /\ rows[i].iter = rows[j].iter
          => i = j
    /\ parent = "RUNNING" =>
        \A i \in DOMAIN rows : blueprint[rows[i].node].kind = "loop" =>
            /\ rows[i].iter <= loops[rows[i].node].iter
            /\ loops[rows[i].node].iter <= blueprint[rows[i].node].max
            /\ \A j \in i + 1 .. Len(rows) :
                  \/ rows[j].node = rows[i].node /\ rows[j].iter = rows[i].iter
                  \/ /\ Done(rows[i])
                     /\ \/ rows[j].node = rows[i].node
                        \/ loops[rows[i].node].status = "exited"

\* A loop is given up for LOOP_EXHAUSTED (loop_control.py) only after exactly
\* max_iterations passes of its body, each of them done.
ExhaustedAfterAllPasses ==
    \A i \in DOMAIN rows : rows[i].error = "LOOP_EXHAUSTED" =>
        LET n == rows[i].node
            passes == {j \in DOMAIN rows : rows[j].node = n}
        IN  /\ Cardinality(passes) = blueprint[n].max * Len(blueprint[n].body)
            /\ \A j \in passes : Done(rows[j]) \/ rows[j].error = "clean"

\* A saga that COMPLETED has run or skipped every step of its blueprint, the
\* steps behind its loops too.
CompletedCoversBlueprint ==
    parent = "COMPLETED" =>
        /\ \A i \in DOMAIN rows : Done(rows[i])
        /\ {rows[i].node : i \in DOMAIN rows} = DOMAIN blueprint

\* A join waits exactly for its children.  No wake-up is lost: when every child
\* has committed a terminal status and none has an open transaction, the join
\* is not parked any more; and a join that completed left no child in its
\* forward run (on_child_saga_terminal against park_or_complete_join).
JoinFollowsChildren ==
    \A i \in DOMAIN rows : Manifest(rows[i]).kind = "join" =>
        LET kids == Kids(Db, Manifest(rows[i]).of)
        IN  /\ rows[i].status = "IN_PROGRESS" /\ kids # {}
               => \E c \in kids : child[c] \notin Terminal \/ ending[c] # "none"
            /\ rows[i].status = "COMPLETED"
               => \A c \in kids : child[c] # "RUNNING"

\* LIFO through loops and spawns: when the undo of a row has begun, every
\* later completed row that has an undo has been undone.
UndoOrder ==
    \A i \in DOMAIN rows : rows[i].undo # "none" =>
        \A j \in i + 1 .. Len(rows) :
            HasCompensation(rows[j]) /\ rows[j].status = "COMPLETED"
                => rows[j].undo = "COMPENSATED"

\* COMPENSATED means that every row that may have had effects and declares an
\* undo was undone, in every iteration, and that no spawned child is left in
\* its forward run.
RestoredMeansUndone ==
    parent = "COMPENSATED" =>
        \A i \in DOMAIN rows :
            /\ /\ HasCompensation(rows[i])
               /\ rows[i].status \in {"COMPLETED", "TIMED_OUT", "IN_PROGRESS"}
               => rows[i].undo = "COMPENSATED"
            /\ Manifest(rows[i]).kind = "spawn"
               => \A c \in Kids(Db, rows[i].node) : child[c] # "RUNNING"

\* A saga never stops half-way: when no worker has a step or an undo of it, and
\* no child is under way, the saga has ended.  Every step of the model but
\* RetryJoin uses up something finite, so that this is also why a saga ends.
NothingIsStuck ==
    /\ parent # "PENDING"
    /\ \A i \in DOMAIN rows :
          /\ rows[i].undo # "COMPENSATING"
          /\ rows[i].status = "IN_PROGRESS" => Manifest(rows[i]).kind # "worker"
    /\ \A c \in Children : child[c] \in Terminal \cup {"none"} /\ ending[c] = "none"
    => parent \in Terminal

=============================================================================
