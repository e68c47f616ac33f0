-------------------------- MODULE SagaOrderProofs --------------------------
(***************************************************************************)
(* Theorems about the order in which the engine of SagaEngine works: steps *)
(* forward one at a time, steps back from the last to the first, and no    *)
(* command out while the saga is somewhere else.  They hold for any number *)
(* of steps, any manifest and the constants that Orderly admits.           *)
(***************************************************************************)
EXTENDS SagaEngineProofs

\* What the theorems of this module assume.  A worker that is taken for dead,
\* and an operator who sends a command again beside one that may still run,
\* let a result arrive when its step is done: the run late_failure shows what
\* follows.  A new attempt at a step forgets the results of the last one, so an
\* engine that handles one of them twice is not combined with such a retry.
Orderly ==
    /\ {"retry_step", "retry_compensation"} \cap Ops = {}
    /\ "worker_crash" \notin Faults
    /\ "engine_crash" \in Faults => {"retry_forward", "hitl_retry"} \cap Ops = {}

-----------------------------------------------------------------------------
(* The shape of a saga: where it is, for each of its statuses *)

NoUndo(tx) == \A s \in Steps, u \in Undos : tx.undo[s][u] = "none"

\* The saga goes forward and has come to the step i.
Front(tx, i) ==
    /\ \A s \in Steps : s < i => tx.step[s] \in {"COMPLETED", "SKIPPED"}
    /\ \A s \in Steps : s > i => tx.step[s] \in {"PENDING", "SKIPPED"}
    /\ \A s \in Steps : s # i => tx.err[s] = "none"
    /\ NoUndo(tx)

At(tx, i, S) == Front(tx, i) /\ tx.step[i] \in S

\* A step that took effect, or may have, and has to be undone.
Owed(tx, s) ==
    /\ manifest[s].comp
    /\ tx.step[s] \in {"COMPLETED", "TIMED_OUT"} \/ tx.err[s] = "crash"

Undone(tx, s) == HasUndo(tx, s, "COMPENSATED")

InOrder(tx) ==
    \A i, j \in Steps :
        i < j /\ tx.step[j] \notin {"PENDING", "SKIPPED"} =>
            \/ tx.step[i] \in {"COMPLETED", "SKIPPED"}
            \/ tx.step[i] = "FAILED" /\ tx.saga = "FAILED"

\* Where an undo was made, every later step that owes one has had it.
Above(tx) ==
    \A s, t \in Steps, u \in Undos :
        s < t /\ tx.undo[s][u] # "none" /\ Owed(tx, t) => Undone(tx, t)

\* No step is active, and failures are recorded where they happened.
AtRest(tx) ==
    \A s \in Steps :
        /\ tx.step[s] \notin {"IN_PROGRESS", "AWAITING_HUMAN"}
        /\ tx.err[s] # "none" => tx.step[s] \in {"FAILED", "TIMED_OUT"}

NoneRuns(tx) == \A s \in Steps, u \in Undos : tx.undo[s][u] # "COMPENSATING"

OneRuns(tx) ==
    \A s, r \in Steps, u, v \in Undos :
        tx.undo[s][u] = "COMPENSATING" /\ tx.undo[r][v] = "COMPENSATING"
            => r = s /\ v = u

Unwound(tx) ==
    /\ AtRest(tx)
    /\ InOrder(tx)
    /\ Above(tx)
    /\ OneRuns(tx)
    /\ tx.saga # "COMPENSATING" => NoneRuns(tx)
    /\ tx.saga = "COMPENSATED" =>
          \A s \in Steps : Owed(tx, s) => Undone(tx, s)

Completion == <<"SAGA_COMPLETED", 0, 0>>

\* The saga as it was created.
Fallow(tx) ==
    /\ NoUndo(tx)
    /\ \A s \in Steps : tx.step[s] = "PENDING" /\ tx.err[s] = "none"

Finished(tx) ==
    /\ NoUndo(tx)
    /\ \A s \in Steps : tx.step[s] \in {"COMPLETED", "SKIPPED"}

Forward(tx, S) == \E i \in Steps : At(tx, i, S) /\ tx.err[i] = "none"

Held(tx) ==
    \E i \in Steps : At(tx, i, {"FAILED", "TIMED_OUT"}) /\ manifest[i].hold

Shape(tx) ==
    /\ tx.saga = "PENDING" => Fallow(tx)
    /\ tx.saga = "RUNNING" => Forward(tx, {"IN_PROGRESS"})
    /\ tx.saga = "AWAITING_HUMAN" => Forward(tx, {"AWAITING_HUMAN"})
    /\ tx.saga = "AWAITING_RECOVERY" => Held(tx)
    /\ tx.saga = "COMPLETED" => Finished(tx)
    /\ tx.saga \in {"COMPENSATING", "COMPENSATED", "FAILED"} => Unwound(tx)
    /\ tx.event[Completion] # "none" => tx.saga = "COMPLETED"

-----------------------------------------------------------------------------
(* Commands and results on their way, for the contents tx, the events H that *)
(* engines hold and the commands T that workers hold                         *)

\* The command whose result the saga waits for.
Open(tx, c) ==
    IF c[1] = "fwd"
    THEN tx.step[c[2]] = "IN_PROGRESS" /\ c[3] = tx.key[c[2]]
    ELSE tx.undo[c[2]][c[3]] = "COMPENSATING"

AtWork(tx, T, c) ==
    tx.row[c] \in {"PENDING", "IN_PROGRESS"} \/ tx.claim[c] = "held" \/ c \in T

ResultEvents ==
    ({"STEP_COMPLETED", "STEP_FAILED"} \X Steps \X {0})
    \cup ({"STEP_COMPENSATED", "COMPENSATION_FAILED"} \X Steps \X Undos)

\* The command that a result answers.
Source(tx, e) ==
    IF e[3] = 0 THEN <<"fwd", e[2], tx.key[e[2]]>> ELSE <<"undo", e[2], e[3]>>

Due(tx, H, e) ==
    (tx.event[e] \in {"PENDING", "IN_PROGRESS"} \/ e \in H) /\ e \notin tx.seen

NoWork(tx, T) == \A c \in Commands : ~AtWork(tx, T, c)
NoResult(tx, H) == \A e \in ResultEvents : ~Due(tx, H, e)
Idle(tx, H, T) == NoWork(tx, T) /\ NoResult(tx, H)

\* Only the open command is at work.
WorkIsOpen(tx, T) ==
    \A c \in Commands :
        /\ AtWork(tx, T, c) => Open(tx, c)
        /\ tx.claim[c] = "held" \/ c \in T => tx.row[c] # "PENDING"
        /\ tx.claim[c] = "held" => c \notin T

\* One result at most is to be handled: of the open command, whose work is done.
ResultIsOpen(tx, H, T) ==
    /\ \A e \in ResultEvents :
          Due(tx, H, e) => Open(tx, Source(tx, e)) /\ NoWork(tx, T)
    /\ \A e, f \in ResultEvents : Due(tx, H, e) /\ Due(tx, H, f) => e = f

\* Unless engines crash, an event is held once and handled once.
HeldOnce(tx, H) ==
    "engine_crash" \notin Faults =>
        \A e \in ResultEvents : /\ e \in H => tx.event[e] = "IN_PROGRESS"
                                /\ e \in tx.seen => tx.event[e] = "COMPLETED"

\* A HUMAN_RETRY comes from an operator who may ask for one.
RetryIsAsked(tx, H) ==
    "hitl_retry" \notin Ops =>
        \A e \in RetryEvents : tx.event[e] = "none" /\ e \notin H

Flight(tx, H, T) ==
    /\ WorkIsOpen(tx, T)
    /\ ResultIsOpen(tx, H, T)
    /\ HeldOnce(tx, H)
    /\ RetryIsAsked(tx, H)
    /\ Completion \in H => tx.event[Completion] # "none"

OrderInv == Shape(Db) /\ Flight(Db, handling, taken)

-----------------------------------------------------------------------------
(* What each shared write does, field by field *)

\* Nothing a worker or a consumer of events sees is written.
SameFlight(tx, t) ==
    /\ t.key = tx.key
    /\ t.row = tx.row
    /\ t.claim = tx.claim
    /\ t.event = tx.event
    /\ t.seen = tx.seen

\* The single-column writes the shared ones are made of.
SetSteps(tx, S, status) == [tx EXCEPT !.step = Overwrite(@, S, status)]
SetSaga(tx, status) == [tx EXCEPT !.saga = status]
SetErr(tx, i, e) == [tx EXCEPT !.err[i] = e]
SetUndo(tx, s, u, status) == [tx EXCEPT !.undo[s][u] = status]

\* An UPDATE of a status column sets it for the chosen rows.
LEMMA StepFields ==
    ASSUME NEW tx \in DbType, NEW S, NEW status \in StepStatus
    PROVE  LET t == SetSteps(tx, S, status)
           IN  /\ t \in DbType
               /\ SameFlight(tx, t)
               /\ t.saga = tx.saga /\ t.err = tx.err /\ t.undo = tx.undo
               /\ \A s \in Steps :
                     t.step[s] = IF s \in S THEN status ELSE tx.step[s]
  <1> DEFINE f == Overwrite(tx.step, S, status)
             t == [tx EXCEPT !.step = f]
  <1>1. tx.step \in [Steps -> StepStatus]
    BY DEF DbType
  <1>2. f \in [Steps -> StepStatus]
    BY <1>1, OverwriteType
  <1>3. \A s \in Steps : f[s] = IF s \in S THEN status ELSE tx.step[s]
    BY <1>1 DEF Overwrite
  <1> HIDE DEF f
  <1>4. /\ t \in DbType /\ t.step = f
        /\ t.saga = tx.saga /\ t.err = tx.err /\ t.undo = tx.undo
        /\ SameFlight(tx, t)
    BY <1>2 DEF DbType, SameFlight
  <1>5. t = SetSteps(tx, S, status)
    BY DEF f, SetSteps
  <1> HIDE DEF t
  <1>6. QED
    BY <1>3, <1>4, <1>5

\* A status given to one forward row.
LEMMA MarkFields ==
    ASSUME NEW tx \in DbType, NEW i \in Steps, NEW status \in StepStatus
    PROVE  LET t == Mark(tx, i, status)
           IN  /\ t \in DbType
               /\ SameFlight(tx, t)
               /\ t.saga = tx.saga /\ t.err = tx.err /\ t.undo = tx.undo
               /\ t.step[i] = status
               /\ \A s \in Steps : s # i => t.step[s] = tx.step[s]
  <1>1. Mark(tx, i, status) = SetSteps(tx, {i}, status)
    BY DEF Mark, SetSteps
  <1>2. QED
    BY <1>1, StepFields

\* A status given to the saga.
LEMMA SagaFields ==
    ASSUME NEW tx \in DbType, NEW status \in SagaStatus
    PROVE  LET t == SetSaga(tx, status)
           IN  /\ t \in DbType
               /\ SameFlight(tx, t)
               /\ t.saga = status
               /\ t.step = tx.step /\ t.err = tx.err /\ t.undo = tx.undo
  BY DEF DbType, SameFlight, SetSaga

\* The error of one forward row.
LEMMA ErrFields ==
    ASSUME NEW tx \in DbType, NEW i \in Steps, NEW e \in Errors \cup {"none"}
    PROVE  LET t == SetErr(tx, i, e)
           IN  /\ t \in DbType
               /\ SameFlight(tx, t)
               /\ t.saga = tx.saga /\ t.step = tx.step /\ t.undo = tx.undo
               /\ t.err[i] = e
               /\ \A s \in Steps : s # i => t.err[s] = tx.err[s]
  BY DEF DbType, SameFlight, SetErr

\* The status of one undo row.
LEMMA UndoFields ==
    ASSUME NEW tx \in DbType, NEW s \in Steps, NEW u \in Undos,
           NEW status \in UndoStatus
    PROVE  LET t == SetUndo(tx, s, u, status)
           IN  /\ t \in DbType
               /\ SameFlight(tx, t)
               /\ t.saga = tx.saga /\ t.step = tx.step /\ t.err = tx.err
               /\ \A r \in Steps, v \in Undos :
                     t.undo[r][v] = IF r = s /\ v = u THEN status
                                    ELSE tx.undo[r][v]
  BY DEF DbType, SameFlight, SetUndo

\* A command is published unless its key was used.
LEMMA DispatchFields ==
    ASSUME NEW tx \in DbType, NEW c \in Commands
    PROVE  LET t == Dispatch(tx, c)
           IN  /\ t \in DbType
               /\ t.saga = tx.saga /\ t.step = tx.step /\ t.err = tx.err
               /\ t.undo = tx.undo /\ t.key = tx.key /\ t.claim = tx.claim
               /\ t.event = tx.event /\ t.seen = tx.seen
               /\ \A d \in Commands :
                     t.row[d] = IF d = c /\ tx.row[c] = "none" THEN "PENDING"
                                ELSE tx.row[d]
  BY DEF DbType, Dispatch, OutboxStatus

\* An event is published unless its key was used.
LEMMA PublishFields ==
    ASSUME NEW tx \in DbType, NEW e \in Events
    PROVE  LET t == Publish(tx, e)
           IN  /\ t \in DbType
               /\ t.saga = tx.saga /\ t.step = tx.step /\ t.err = tx.err
               /\ t.undo = tx.undo /\ t.key = tx.key /\ t.claim = tx.claim
               /\ t.row = tx.row /\ t.seen = tx.seen
               /\ \A f \in Events :
                     t.event[f] = IF f = e /\ tx.event[e] = "none"
                                  THEN "PENDING" ELSE tx.event[f]
  <1> DEFINE g == Overwrite(tx.event, {e}, "PENDING")
             t == [tx EXCEPT !.event = g]
  <1>1. tx.event \in [Events -> OutboxStatus]
    BY DEF DbType
  <1>2. g \in [Events -> OutboxStatus]
    BY <1>1, OverwriteType DEF OutboxStatus
  <1>3. \A f \in Events : g[f] = IF f = e THEN "PENDING" ELSE tx.event[f]
    BY <1>1 DEF Overwrite
  <1>4. Publish(tx, e) = IF tx.event[e] = "none" THEN t ELSE tx
    BY DEF Publish
  <1> HIDE DEF g
  <1>5. /\ t \in DbType /\ t.event = g
        /\ t.saga = tx.saga /\ t.step = tx.step /\ t.err = tx.err
        /\ t.undo = tx.undo /\ t.key = tx.key /\ t.claim = tx.claim
        /\ t.row = tx.row /\ t.seen = tx.seen
    BY <1>2 DEF DbType
  <1> HIDE DEF t
  <1>6. CASE tx.event[e] = "none"
    BY <1>3, <1>4, <1>5, <1>6
  <1>7. CASE tx.event[e] # "none"
    BY <1>4, <1>7
  <1>8. QED
    BY <1>6, <1>7

\* The end of a saga: its status, the steps it will not reach, one notice.
ClosedAs(tx, t, status, notice) ==
    /\ t \in DbType
    /\ t.saga = status /\ t.err = tx.err /\ t.undo = tx.undo
    /\ t.key = tx.key /\ t.claim = tx.claim
    /\ t.row = tx.row /\ t.seen = tx.seen
    /\ \A s \in Steps :
          t.step[s] = IF tx.step[s] = "PENDING" THEN "SKIPPED" ELSE tx.step[s]
    /\ \A f \in Events : f[1] # notice => t.event[f] = tx.event[f]

\* Close writes that, and nothing else.
LEMMA CloseFields ==
    ASSUME NEW tx \in DbType, NEW status \in SagaStatus,
           NEW notice \in {"SAGA_COMPLETED", "SAGA_FAILED", "SAGA_COMPENSATED"}
    PROVE  ClosedAs(tx, Close(tx, status, notice), status, notice)
  <1> DEFINE a == SetSaga(tx, status)
             b == SkipPending(a)
             e == <<notice, 0, 0>>
             S == {s \in Steps : a.step[s] = "PENDING"}
  <1>1. /\ a \in DbType /\ SameFlight(tx, a) /\ a.saga = status
        /\ a.step = tx.step /\ a.err = tx.err /\ a.undo = tx.undo
    BY SagaFields
  <1> HIDE DEF a
  <1>2. b = SetSteps(a, S, "SKIPPED")
    BY DEF SkipPending, SetSteps
  <1> HIDE DEF S, b
  <1>3. "SKIPPED" \in StepStatus
    BY DEF StepStatus
  <1>4. /\ b \in DbType /\ SameFlight(a, b)
        /\ b.saga = a.saga /\ b.err = a.err /\ b.undo = a.undo
        /\ \A s \in Steps : b.step[s] = IF s \in S THEN "SKIPPED" ELSE a.step[s]
    BY <1>1, <1>2, <1>3, StepFields
  <1>5. e \in Events
    BY StatusSets
  <1>6. Close(tx, status, notice) = Publish(b, e)
    BY DEF Close, SetSaga, a, b
  <1> HIDE DEF e
  <1>7. LET t == Publish(b, e)
        IN  /\ t \in DbType
            /\ t.saga = b.saga /\ t.step = b.step /\ t.err = b.err
            /\ t.undo = b.undo /\ t.key = b.key /\ t.claim = b.claim
            /\ t.row = b.row /\ t.seen = b.seen
            /\ \A f \in Events :
                  t.event[f] = IF f = e /\ b.event[e] = "none"
                               THEN "PENDING" ELSE b.event[f]
    BY <1>4, <1>5, PublishFields
  <1>8. \A s \in Steps : s \in S <=> tx.step[s] = "PENDING"
    BY <1>1 DEF S
  <1>9. b.event = tx.event /\ b.key = tx.key /\ b.claim = tx.claim
        /\ b.row = tx.row /\ b.seen = tx.seen
    BY <1>1, <1>4 DEF SameFlight
  <1>10. \A f \in Events : f[1] # notice => f # e
    BY DEF e
  <1>11. QED
    BY <1>1, <1>4, <1>6, <1>7, <1>8, <1>9, <1>10 DEF ClosedAs

\* A hold: the step and the saga wait for a human.
LEMMA HoldFields ==
    ASSUME NEW tx \in DbType, NEW i \in Steps
    PROVE  LET t == Hold(tx, i)
           IN  /\ t \in DbType
               /\ SameFlight(tx, t)
               /\ t.saga = "AWAITING_HUMAN" /\ t.err = tx.err /\ t.undo = tx.undo
               /\ t.step[i] = "AWAITING_HUMAN"
               /\ \A s \in Steps : s # i => t.step[s] = tx.step[s]
  <1> DEFINE m == Mark(tx, i, "AWAITING_HUMAN")
  <1>1. "AWAITING_HUMAN" \in StepStatus /\ "AWAITING_HUMAN" \in SagaStatus
    BY DEF StepStatus, SagaStatus
  <1>2. /\ m \in DbType /\ SameFlight(tx, m)
        /\ m.saga = tx.saga /\ m.err = tx.err /\ m.undo = tx.undo
        /\ m.step[i] = "AWAITING_HUMAN"
        /\ \A s \in Steps : s # i => m.step[s] = tx.step[s]
    BY <1>1, MarkFields
  <1>3. Hold(tx, i) = SetSaga(m, "AWAITING_HUMAN")
    BY DEF Hold, SetSaga
  <1> HIDE DEF m
  <1>4. QED
    BY <1>1, <1>2, <1>3, SagaFields DEF SameFlight

-----------------------------------------------------------------------------
(* What a handler starts from, and what it reaches *)

\* No command is out, and the saga has not announced its completion.
Calm(tx) ==
    /\ tx \in DbType
    /\ \A c \in Commands : /\ tx.row[c] \notin {"PENDING", "IN_PROGRESS"}
                           /\ tx.claim[c] # "held"
    /\ tx.event[Completion] = "none"

\* A write that leaves claims, keys, results and requests alone.
Framed(tx, t) ==
    /\ t \in DbType
    /\ t.key = tx.key /\ t.claim = tx.claim /\ t.seen = tx.seen
    /\ \A e \in ResultEvents \cup RetryEvents : t.event[e] = tx.event[e]

\* What was sent out is the open command.
Sent(t) ==
    \A c \in Commands :
        t.row[c] \in {"PENDING", "IN_PROGRESS"} => Open(t, c)

Reached(tx, t) == Framed(tx, t) /\ Sent(t) /\ Shape(t)

\* The notices of the engine are not results of workers.
LEMMA NoticeIsNoResult ==
    ASSUME NEW type \in {"SAGA_STARTED", "SAGA_COMPLETED", "SAGA_FAILED",
                         "SAGA_COMPENSATED"}
    PROVE  <<type, 0, 0>> \in Events \ ResultEvents
  BY EventTypes DEF ResultEvents

\* Results are events.
LEMMA ResultTypes == ResultEvents \subseteq Events
  BY DEF ResultEvents, Events, ForwardEvents, UndoEvents

\* A write of the other columns is framed and keeps the calm.
LEMMA SameFlightCalm ==
    ASSUME NEW tx, Calm(tx), NEW t \in DbType, SameFlight(tx, t)
    PROVE  Calm(t) /\ Framed(tx, t)
  BY DEF Calm, Framed, SameFlight

\* Writes compose.
LEMMA FramedTrans ==
    ASSUME NEW a, NEW b, NEW c, Framed(a, b), Framed(b, c)
    PROVE  Framed(a, c)
  BY DEF Framed

\* A handler that starts with other writes.
LEMMA ReachedFrom ==
    ASSUME NEW a, NEW b, NEW c, Framed(a, b), Reached(b, c)
    PROVE  Reached(a, c)
  BY FramedTrans DEF Reached

\* Where nothing is out, nothing was sent.
LEMMA CalmSent ==
    ASSUME NEW tx, Calm(tx)
    PROVE  Sent(tx)
  BY DEF Calm, Sent

\* Ending the saga in another way than COMPLETED sends nothing.
LEMMA CloseFramed ==
    ASSUME NEW tx, Calm(tx), NEW status \in SagaStatus,
           NEW notice \in {"SAGA_COMPLETED", "SAGA_FAILED", "SAGA_COMPENSATED"}
    PROVE  LET t == Close(tx, status, notice)
           IN  /\ Framed(tx, t)
               /\ Sent(t)
               /\ notice # "SAGA_COMPLETED" => t.event[Completion] = "none"
  <1>1. tx \in DbType
    BY DEF Calm
  <1>2. PICK t : t = Close(tx, status, notice)
    OBVIOUS
  <1>3. ClosedAs(tx, t, status, notice)
    BY <1>1, <1>2, CloseFields
  <1>4. \A f \in ResultEvents \cup RetryEvents : f \in Events /\ f[1] # notice
    BY ResultTypes DEF ResultEvents, RetryEvents, Events
  <1>5. Completion \in Events /\ Completion[1] = "SAGA_COMPLETED"
    BY EventTypes DEF Completion
  <1>6. notice # "SAGA_COMPLETED" => t.event[Completion] = "none"
    BY <1>3, <1>5 DEF Calm, ClosedAs
  <1>7. Framed(tx, t)
    BY <1>3, <1>4 DEF Framed, ClosedAs
  <1>8. Sent(t)
    BY <1>3 DEF Sent, Calm, ClosedAs
  <1>9. QED
    BY <1>2, <1>6, <1>7, <1>8

-----------------------------------------------------------------------------
(* Compensation *)

\* Before an undo is scheduled: the saga unwinds and no undo runs.
Unwinding(tx) ==
    /\ Calm(tx)
    /\ tx.saga = "COMPENSATING"
    /\ AtRest(tx)
    /\ InOrder(tx)
    /\ Above(tx)
    /\ NoneRuns(tx)

\* Everything later than the cursor has been undone.
Clear(tx, from) == \A s \in Steps : from < s /\ Owed(tx, s) => Undone(tx, s)

\* When nothing is left to undo, nothing is owed.
LEMMA AllUndone ==
    ASSUME NEW tx, Unwinding(tx), NEW from \in Int, Clear(tx, from),
           ToUndo(tx, from) = {}, NEW s \in Steps, Owed(tx, s)
    PROVE  Undone(tx, s)
  <1>1. tx.step[s] \in Eligible /\ manifest[s].comp
    BY DEF Unwinding, AtRest, Owed, Eligible
  <1>2. CASE s <= from
    BY <1>1, <1>2 DEF ToUndo, Undone
  <1>3. CASE ~(s <= from)
    BY <1>3 DEF Clear, Steps
  <1>4. QED
    BY <1>2, <1>3

\* Skipping what never ran changes nothing that the order is about.
LEMMA CloseShape ==
    ASSUME NEW tx, Calm(tx), NEW status \in {"COMPENSATED", "FAILED"},
           NEW notice \in {"SAGA_FAILED", "SAGA_COMPENSATED"},
           AtRest(tx), InOrder([tx EXCEPT !.saga = status]), Above(tx),
           NoneRuns(tx),
           status = "COMPENSATED" =>
               \A s \in Steps : Owed(tx, s) => Undone(tx, s)
    PROVE  Reached(tx, Close(tx, status, notice))
  <1>1. tx \in DbType /\ status \in SagaStatus
    BY DEF Calm, SagaStatus
  <1>t. PICK t : t = Close(tx, status, notice)
    OBVIOUS
  <1>2. /\ t.saga = status /\ t.err = tx.err /\ t.undo = tx.undo
        /\ \A s \in Steps :
              t.step[s] = IF tx.step[s] = "PENDING" THEN "SKIPPED"
                          ELSE tx.step[s]
    <2>1. ClosedAs(tx, t, status, notice)
      BY <1>1, <1>t, CloseFields
    <2>2. QED
      BY <2>1 DEF ClosedAs
  <1>3. Framed(tx, t) /\ Sent(t) /\ t.event[Completion] = "none"
    BY <1>1, <1>t, CloseFramed
  <1>4. \A s \in Steps : /\ Owed(t, s) <=> Owed(tx, s)
                         /\ Undone(t, s) <=> Undone(tx, s)
    BY <1>2 DEF Owed, Undone, HasUndo
  <1>5. AtRest(t)
    BY <1>2 DEF AtRest
  <1>6. InOrder(t)
    <2> DEFINE a == SetSaga(tx, status)
    <2>1. a.saga = status /\ a.step = tx.step /\ InOrder(a)
      BY <1>1, SagaFields DEF SetSaga
    <2> HIDE DEF a
    <2>2. QED
      BY <1>2, <2>1 DEF InOrder
  <1>7. Above(t) /\ OneRuns(t) /\ NoneRuns(t)
    BY <1>2, <1>4 DEF Above, OneRuns, NoneRuns
  <1>8. Unwound(t)
    BY <1>2, <1>4, <1>5, <1>6, <1>7 DEF Unwound
  <1>9. Shape(t)
    BY <1>2, <1>3, <1>8 DEF Shape
  <1>10. QED
    BY <1>t, <1>3, <1>9 DEF Reached

\* What scheduling the undo u of the step s writes to the undo rows: the undo
\* is the only one that runs, and every later step that owes one has had it.
LEMMA NewUndoAbove ==
    ASSUME NEW tx, Unwinding(tx), NEW from \in Int, Clear(tx, from),
           NEW s \in Last(ToUndo(tx, from)), NEW u \in NewUndo(tx, s),
           NEW t, t.step = tx.step, t.err = tx.err,
           \A r \in Steps, v \in Undos :
              t.undo[r][v] = IF r = s /\ v = u THEN "COMPENSATING"
                             ELSE tx.undo[r][v]
    PROVE  Above(t) /\ OneRuns(t)
  <1>1. tx.undo[s][u] = "none" /\ u \in Undos
    BY DEF NewUndo
  <1>2. s \in Steps /\ s <= from
    BY DEF Last, ToUndo
  <1>3. \A r \in Steps : /\ Owed(t, r) <=> Owed(tx, r)
                         /\ Undone(tx, r) => Undone(t, r)
    BY <1>1 DEF Owed, Undone, HasUndo
  <1>4. ASSUME NEW r \in Steps, s < r, Owed(tx, r)
        PROVE  Undone(tx, r)
    <2>1. CASE from < r
      BY <1>4, <2>1 DEF Clear
    <2>2. CASE ~(from < r)
      <3>1. tx.step[r] \in Eligible /\ manifest[r].comp
        BY <1>4 DEF Unwinding, AtRest, Owed, Eligible
      <3>2. r <= from
        BY <2>2 DEF Steps
      <3>3. r \notin ToUndo(tx, from)
        BY <1>2, <1>4 DEF Last, Steps
      <3>4. QED
        BY <3>1, <3>2, <3>3 DEF ToUndo, Undone
    <2>3. QED
      BY <2>1, <2>2
  <1>5. Above(t)
    <2> SUFFICES ASSUME NEW q \in Steps, NEW r \in Steps, NEW v \in Undos,
                        q < r, t.undo[q][v] # "none", Owed(t, r)
                 PROVE  Undone(t, r)
      BY DEF Above
    <2>1. CASE q = s /\ v = u
      BY <1>3, <1>4, <2>1
    <2>2. CASE ~(q = s /\ v = u)
      BY <1>3, <2>2 DEF Unwinding, Above
    <2>3. QED
      BY <2>1, <2>2
  <1>6. OneRuns(t)
    BY DEF OneRuns, Unwinding, NoneRuns
  <1>7. QED
    BY <1>5, <1>6

\* The next undo is scheduled: the latest step that still has to be undone.
LEMMA ScheduleUndoReaches ==
    ASSUME NEW tx, Unwinding(tx), NEW from \in Int, Clear(tx, from),
           NEW s \in Last(ToUndo(tx, from)), NEW u \in NewUndo(tx, s)
    PROVE  Reached(tx, Dispatch([tx EXCEPT !.undo[s][u] = "COMPENSATING"],
                                <<"undo", s, u>>))
  <1> DEFINE c == <<"undo", s, u>>
  <1>1. tx \in DbType /\ s \in Steps /\ u \in Undos /\ c \in Commands
    BY UndoCommand DEF Unwinding, Calm, Last, ToUndo, NewUndo
  <1>2. PICK a : a = SetUndo(tx, s, u, "COMPENSATING")
    OBVIOUS
  <1>3. /\ a \in DbType
        /\ SameFlight(tx, a)
        /\ a.saga = tx.saga /\ a.step = tx.step /\ a.err = tx.err
        /\ \A r \in Steps, v \in Undos :
              a.undo[r][v] = IF r = s /\ v = u THEN "COMPENSATING"
                             ELSE tx.undo[r][v]
    BY <1>1, <1>2, UndoFields, StatusSets
  <1>4. Calm(a) /\ Framed(tx, a)
    BY <1>3, SameFlightCalm DEF Unwinding
  <1>5. PICK t : t = Dispatch(a, c)
    OBVIOUS
  <1>6. /\ t \in DbType
        /\ t.saga = a.saga /\ t.step = a.step /\ t.err = a.err
        /\ t.undo = a.undo /\ t.key = a.key /\ t.claim = a.claim
        /\ t.event = a.event /\ t.seen = a.seen
        /\ \A d \in Commands :
              t.row[d] = IF d = c /\ a.row[c] = "none" THEN "PENDING"
                         ELSE a.row[d]
    <2> HIDE DEF c
    <2> QED BY <1>1, <1>3, <1>5, DispatchFields
  <1>7. Framed(tx, t)
    BY <1>4, <1>6 DEF Framed
  <1>8. Sent(t)
    <2>1. t.undo[s][u] = "COMPENSATING"
      BY <1>1, <1>3, <1>6
    <2>2. Open(t, c)
      BY <2>1 DEF Open
    <2> HIDE DEF c
    <2>3. QED
      BY <1>4, <1>6, <2>2 DEF Sent, Calm
  <1>9. Above(t) /\ OneRuns(t)
    BY <1>3, <1>6, NewUndoAbove
  <1>10. t.saga = "COMPENSATING" /\ t.event[Completion] = "none"
    BY <1>3, <1>4, <1>6 DEF Unwinding, Calm
  <1>11. AtRest(t) /\ InOrder(t)
    BY <1>3, <1>6 DEF Unwinding, AtRest, InOrder
  <1>12. Shape(t)
    BY <1>9, <1>10, <1>11 DEF Shape, Unwound
  <1>13. QED
    BY <1>2, <1>5, <1>7, <1>8, <1>12 DEF Reached, SetUndo

\* An undo whose command cannot be built fails its step, and the saga.
LEMMA UnbuiltUndoReaches ==
    ASSUME NEW tx, Unwinding(tx), NEW from, NEW s \in ToUndo(tx, from)
    PROVE  Reached(tx, Close([Mark(tx, s, "FAILED") EXCEPT !.err[s] = "clean"],
                             "FAILED", "SAGA_FAILED"))
  <1>1. /\ tx \in DbType /\ s \in Steps /\ "FAILED" \in StepStatus
        /\ "clean" \in Errors
    BY StatusSets DEF Unwinding, Calm, ToUndo, Errors
  <1>2. PICK m : m = Mark(tx, s, "FAILED")
    OBVIOUS
  <1>3. /\ m \in DbType
        /\ SameFlight(tx, m)
        /\ m.saga = tx.saga /\ m.err = tx.err /\ m.undo = tx.undo
        /\ m.step[s] = "FAILED"
        /\ \A r \in Steps : r # s => m.step[r] = tx.step[r]
    BY <1>1, <1>2, MarkFields
  <1>4. PICK a : a = SetErr(m, s, "clean")
    OBVIOUS
  <1>5. /\ a \in DbType
        /\ SameFlight(m, a)
        /\ a.saga = m.saga /\ a.step = m.step /\ a.undo = m.undo
        /\ a.err[s] = "clean"
        /\ \A r \in Steps : r # s => a.err[r] = m.err[r]
    BY <1>1, <1>3, <1>4, ErrFields
  <1>6. Calm(m) /\ Framed(tx, m)
    BY <1>3, SameFlightCalm DEF Unwinding
  <1>7. Calm(a) /\ Framed(m, a)
    BY <1>5, <1>6, SameFlightCalm
  <1>8. AtRest(a)
    BY <1>3, <1>5 DEF Unwinding, AtRest
  <1>9. \A r \in Steps : /\ Owed(a, r) => Owed(tx, r)
                         /\ Undone(tx, r) <=> Undone(a, r)
    BY <1>3, <1>5 DEF Owed, Undone, HasUndo
  <1>10. Above(a) /\ NoneRuns(a)
    BY <1>3, <1>5, <1>9 DEF Unwinding, Above, NoneRuns
  <1>11. PICK b : b = SetSaga(a, "FAILED")
    OBVIOUS
  <1>12. b.saga = "FAILED" /\ b.step = a.step
    BY <1>5, <1>11, SagaFields, StatusSets
  <1>13. tx.step[s] \notin {"PENDING", "SKIPPED"}
    BY DEF ToUndo, Eligible
  <1>14. InOrder(b)
    <2> SUFFICES ASSUME NEW i \in Steps, NEW j \in Steps, i < j,
                        b.step[j] \notin {"PENDING", "SKIPPED"}
                 PROVE  b.step[i] \in {"COMPLETED", "SKIPPED", "FAILED"}
      BY <1>12 DEF InOrder
    <2>1. CASE i = s
      BY <1>3, <1>5, <1>12, <2>1
    <2>2. CASE i # s
      <3>1. tx.step[j] \notin {"PENDING", "SKIPPED"}
        BY <1>3, <1>5, <1>12, <1>13
      <3>2. tx.step[i] \in {"COMPLETED", "SKIPPED"}
        BY <3>1 DEF Unwinding, InOrder
      <3>3. QED
        BY <1>3, <1>5, <1>12, <2>2, <3>2
    <2>3. QED
      BY <2>1, <2>2
  <1>15. Reached(a, Close(a, "FAILED", "SAGA_FAILED"))
    BY <1>7, <1>8, <1>10, <1>11, <1>14, CloseShape DEF SetSaga
  <1>16. Framed(tx, a)
    BY <1>6, <1>7, FramedTrans
  <1>17. QED
    BY <1>2, <1>4, <1>15, <1>16, ReachedFrom DEF SetErr

\* _advance_lifo_compensation keeps the order.
LEMMA UnwindReaches ==
    ASSUME NEW tx, Unwinding(tx), NEW from \in Int, Clear(tx, from),
           NEW t \in Unwind(tx, from)
    PROVE  Reached(tx, t)
  <1>1. CASE ToUndo(tx, from) = {}
    <2>1. PICK b : b = SetSaga(tx, "COMPENSATED")
      OBVIOUS
    <2>2. tx \in DbType
      BY DEF Unwinding, Calm
    <2>3. b.saga = "COMPENSATED" /\ b.step = tx.step
      BY <2>1, <2>2, SagaFields, StatusSets
    <2>4. InOrder(b)
      BY <2>3 DEF Unwinding, InOrder
    <2>5. \A s \in Steps : Owed(tx, s) => Undone(tx, s)
      BY <1>1, AllUndone
    <2>6. Reached(tx, Close(tx, "COMPENSATED", "SAGA_COMPENSATED"))
      BY <2>1, <2>4, <2>5, CloseShape DEF Unwinding, SetSaga
    <2>7. QED
      BY <1>1, <2>6 DEF Unwind
  <1>2. CASE ToUndo(tx, from) # {}
    <2>1. PICK s \in Last(ToUndo(tx, from)) :
            t \in (IF HasUndo(tx, s, "COMPENSATING") THEN {tx}
                   ELSE ScheduleUndo(tx, s))
      BY <1>2 DEF Unwind
    <2>2. s \in Steps /\ s \in ToUndo(tx, from)
      BY DEF Last, ToUndo
    <2>3. t \in ScheduleUndo(tx, s)
      BY <2>1, <2>2 DEF Unwinding, NoneRuns, HasUndo
    <2>4. QED
      BY <2>2, <2>3, ScheduleUndoReaches, UnbuiltUndoReaches DEF ScheduleUndo
  <1>3. QED
    BY <1>1, <1>2

-----------------------------------------------------------------------------
(* Failure and scheduling *)

\* A step that fails at the front, as the saga starts to unwind: the steps
\* before it are done, and the ones after it never ran.
LEMMA FailedFront ==
    ASSUME NEW a, NEW i \in Steps, At(a, i, {"FAILED", "TIMED_OUT"})
    PROVE  /\ AtRest(a)
           /\ InOrder(a)
           /\ Above(a)
           /\ NoneRuns(a)
           /\ Clear(a, i)
           /\ a.step[i] = "FAILED" /\ a.err[i] # "crash" => Clear(a, i - 1)
  <1>1. \A s \in Steps : s < i \/ s = i \/ s > i
    BY DEF Steps
  <1>2. AtRest(a)
    BY <1>1 DEF At, Front, AtRest
  <1>3. InOrder(a)
    <2> SUFFICES ASSUME NEW r \in Steps, NEW s \in Steps, r < s,
                        a.step[s] \notin {"PENDING", "SKIPPED"}
                 PROVE  a.step[r] \in {"COMPLETED", "SKIPPED"}
      BY DEF InOrder
    <2>1. ~(s > i)
      BY DEF At, Front
    <2>2. r < i
      BY <2>1 DEF Steps
    <2>3. QED
      BY <2>2 DEF At, Front
  <1>4. Above(a) /\ NoneRuns(a)
    BY DEF At, Front, NoUndo, Above, NoneRuns
  <1>5. \A s \in Steps : s > i => ~Owed(a, s)
    BY DEF At, Front, Owed, Steps
  <1>6. Clear(a, i)
    BY <1>5 DEF Clear, Steps
  <1>7. ASSUME a.step[i] = "FAILED", a.err[i] # "crash"
        PROVE  Clear(a, i - 1)
    <2>1. ~Owed(a, i)
      BY <1>7 DEF Owed
    <2>2. \A s \in Steps : i - 1 < s => s = i \/ s > i
      BY DEF Steps
    <2>3. QED
      BY <1>5, <2>1, <2>2 DEF Clear
  <1>8. QED
    BY <1>2, <1>3, <1>4, <1>6, <1>7

\* What _apply_step_failure_lifecycle writes to the row that failed.
FailedRow(tx, i, to, error) ==
    [Mark(tx, i, to) EXCEPT !.err[i] = IF @ = "none" THEN error ELSE @]

\* The step at the front gets the status of its failure.
LEMMA FailMarks ==
    ASSUME NEW tx, Calm(tx), NEW i \in Steps, Front(tx, i), tx.err[i] = "none",
           NEW error \in Errors, NEW to \in {"FAILED", "TIMED_OUT"},
           NEW a, a = FailedRow(tx, i, to, error)
    PROVE  /\ Calm(a)
           /\ Framed(tx, a)
           /\ At(a, i, {"FAILED", "TIMED_OUT"})
           /\ a.step[i] = to /\ a.err[i] = error
           /\ a.row = tx.row /\ a.undo = tx.undo
           /\ \A s \in Steps : s # i => a.step[s] = tx.step[s]
  <1>1. tx \in DbType /\ to \in StepStatus /\ error \in Errors \cup {"none"}
    BY StatusSets DEF Calm
  <1>2. PICK m : m = Mark(tx, i, to)
    OBVIOUS
  <1>3. /\ m \in DbType
        /\ SameFlight(tx, m)
        /\ m.saga = tx.saga /\ m.err = tx.err /\ m.undo = tx.undo
        /\ m.step[i] = to
        /\ \A s \in Steps : s # i => m.step[s] = tx.step[s]
    BY <1>1, <1>2, MarkFields
  <1>4. a = SetErr(m, i, error)
    <2>1. a = [m EXCEPT !.err[i] = IF m.err[i] = "none" THEN error ELSE m.err[i]]
      BY <1>2 DEF FailedRow
    <2>2. (IF m.err[i] = "none" THEN error ELSE m.err[i]) = error
      BY <1>3
    <2>3. QED
      BY <2>1, <2>2, Zenon DEF SetErr
  <1>5. /\ a \in DbType
        /\ SameFlight(m, a)
        /\ a.saga = m.saga /\ a.step = m.step /\ a.undo = m.undo
        /\ a.err[i] = error
        /\ \A s \in Steps : s # i => a.err[s] = m.err[s]
    BY <1>1, <1>3, <1>4, ErrFields
  <1>6. Calm(m) /\ Framed(tx, m)
    BY <1>3, SameFlightCalm
  <1>7. Calm(a) /\ Framed(m, a)
    BY <1>5, <1>6, SameFlightCalm
  <1>8. Framed(tx, a)
    BY <1>6, <1>7, FramedTrans
  <1>9. \A s \in Steps : s < i \/ s > i => s # i
    BY DEF Steps
  <1>10. Front(a, i)
    BY <1>3, <1>5, <1>9 DEF Front, NoUndo
  <1>11. QED
    BY <1>3, <1>5, <1>7, <1>8, <1>10 DEF At, SameFlight

\* A saga that starts to unwind, from the step that failed.
LEMMA FailUnwinds ==
    ASSUME NEW a, Calm(a), NEW i \in Steps, At(a, i, {"FAILED", "TIMED_OUT"}),
           NEW from \in Int, Clear(a, from),
           NEW b, b = SetSaga(a, "COMPENSATING")
    PROVE  /\ Unwinding(b) /\ Clear(b, from)
           /\ Framed(a, b)
           /\ b.step = a.step /\ b.row = a.row /\ b.undo = a.undo
  <1>1. a \in DbType
    BY DEF Calm
  <1>2. /\ b \in DbType
        /\ SameFlight(a, b)
        /\ b.saga = "COMPENSATING"
        /\ b.step = a.step /\ b.err = a.err /\ b.undo = a.undo
    BY <1>1, SagaFields, StatusSets
  <1>3. Calm(b) /\ Framed(a, b)
    BY <1>2, SameFlightCalm
  <1>4. AtRest(a) /\ Above(a) /\ NoneRuns(a)
    BY FailedFront
  <1>5. InOrder(b)
    <2>1. \A r, s \in Steps : r < s /\ a.step[s] \notin {"PENDING", "SKIPPED"}
              => a.step[r] \in {"COMPLETED", "SKIPPED"}
      <3> SUFFICES ASSUME NEW r \in Steps, NEW s \in Steps, r < s,
                          a.step[s] \notin {"PENDING", "SKIPPED"}
                   PROVE  a.step[r] \in {"COMPLETED", "SKIPPED"}
        OBVIOUS
      <3>1. ~(s > i)
        BY DEF At, Front
      <3>2. r < i
        BY <3>1 DEF Steps
      <3>3. QED
        BY <3>2 DEF At, Front
    <2>2. QED
      BY <1>2, <2>1 DEF InOrder
  <1>6. Unwinding(b)
    BY <1>2, <1>3, <1>4, <1>5
       DEF Unwinding, AtRest, Above, NoneRuns, Owed, Undone, HasUndo
  <1>7. Clear(b, from)
    BY <1>2 DEF Clear, Owed, Undone, HasUndo
  <1>8. QED
    BY <1>2, <1>3, <1>6, <1>7 DEF SameFlight

\* _apply_step_failure_lifecycle, for the step at the front.
LEMMA FailReaches ==
    ASSUME NEW tx, Calm(tx), NEW i \in Steps, Front(tx, i), tx.err[i] = "none",
           NEW error \in Errors, NEW t \in Fail(tx, i, error)
    PROVE  Reached(tx, t)
  <1>1. PICK to : to = FailedAs(tx, i, error)
    OBVIOUS
  <1>2. to \in {"FAILED", "TIMED_OUT"}
    BY <1>1 DEF FailedAs
  <1>3. PICK a : a = FailedRow(tx, i, to, error)
    OBVIOUS
  <1>4. /\ Calm(a)
        /\ Framed(tx, a)
        /\ At(a, i, {"FAILED", "TIMED_OUT"})
        /\ a.step[i] = to /\ a.err[i] = error
    BY <1>2, <1>3, FailMarks
  <1>5. PICK from :
          from = IF to = "TIMED_OUT" \/ error = "crash" THEN i ELSE i - 1
    OBVIOUS
  <1>6. \/ manifest[i].hold /\ t = SetSaga(a, "AWAITING_RECOVERY")
        \/ from < 0 /\ t = Close(a, "FAILED", "SAGA_FAILED")
        \/ t \in Unwind(SetSaga(a, "COMPENSATING"), from)
    BY <1>1, <1>3, <1>5 DEF Fail, FailedRow, SetSaga
  <1>7. a \in DbType
    BY <1>4 DEF Calm
  <1>8. /\ AtRest(a) /\ InOrder(a) /\ Above(a) /\ NoneRuns(a)
        /\ Clear(a, i)
        /\ a.step[i] = "FAILED" /\ a.err[i] # "crash" => Clear(a, i - 1)
    BY <1>4, FailedFront
  <1>9. Clear(a, from) /\ from \in Int
    BY <1>2, <1>4, <1>5, <1>8 DEF Steps
  <1>10. ASSUME NEW status \in SagaStatus, NEW b, b = SetSaga(a, status)
         PROVE  /\ b \in DbType
                /\ SameFlight(a, b)
                /\ b.saga = status
                /\ b.step = a.step /\ b.err = a.err /\ b.undo = a.undo
                /\ Calm(b) /\ Framed(a, b)
    <2>1. /\ b \in DbType
          /\ SameFlight(a, b)
          /\ b.saga = status
          /\ b.step = a.step /\ b.err = a.err /\ b.undo = a.undo
      BY <1>7, <1>10, SagaFields
    <2>2. QED
      BY <1>4, <2>1, SameFlightCalm
  <1>11. CASE manifest[i].hold /\ t = SetSaga(a, "AWAITING_RECOVERY")
    <2>1. /\ t.saga = "AWAITING_RECOVERY"
          /\ t.step = a.step /\ t.err = a.err /\ t.undo = a.undo
          /\ Calm(t) /\ Framed(a, t)
      BY <1>10, <1>11, StatusSets
    <2>2. At(t, i, {"FAILED", "TIMED_OUT"})
      BY <1>4, <2>1 DEF At, Front, NoUndo
    <2>3. Shape(t)
      BY <1>11, <2>1, <2>2 DEF Shape, Held, Calm
    <2>4. QED
      BY <1>4, <2>1, <2>3, CalmSent, FramedTrans DEF Reached
  <1>12. CASE from < 0 /\ t = Close(a, "FAILED", "SAGA_FAILED")
    <2>1. PICK b : b = SetSaga(a, "FAILED")
      OBVIOUS
    <2>2. b.saga = "FAILED" /\ b.step = a.step
      BY <1>10, <2>1, StatusSets
    <2>3. InOrder(b)
      BY <1>8, <2>2 DEF InOrder
    <2>4. Reached(a, t)
      BY <1>4, <1>8, <1>12, <2>1, <2>3, CloseShape DEF SetSaga
    <2>5. QED
      BY <1>4, <2>4, ReachedFrom
  <1>13. CASE t \in Unwind(SetSaga(a, "COMPENSATING"), from)
    <2>1. PICK b : b = SetSaga(a, "COMPENSATING")
      OBVIOUS
    <2>2. Unwinding(b) /\ Clear(b, from) /\ Framed(a, b)
      BY <1>4, <1>9, <2>1, FailUnwinds
    <2>3. Reached(b, t)
      BY <1>9, <1>13, <2>1, <2>2, UnwindReaches
    <2>4. QED
      BY <1>4, <2>2, <2>3, ReachedFrom
  <1>14. QED
    BY <1>6, <1>11, <1>12, <1>13

\* A failure that the engine itself finds.
LEMMA FailByEngineReaches ==
    ASSUME NEW tx, Calm(tx), NEW i \in Steps, Front(tx, i), tx.err[i] = "none",
           NEW t \in FailByEngine(tx, i)
    PROVE  Reached(tx, t)
  BY FailReaches DEF FailByEngine, EngineErrors, Errors

\* Holding the step at the front for a human.
LEMMA HoldReaches ==
    ASSUME NEW tx, Calm(tx), NEW i \in Steps, Front(tx, i), tx.err[i] = "none"
    PROVE  Reached(tx, Hold(tx, i))
  <1>1. tx \in DbType
    BY DEF Calm
  <1>2. PICK t : t = Hold(tx, i)
    OBVIOUS
  <1>3. /\ t \in DbType
        /\ SameFlight(tx, t)
        /\ t.saga = "AWAITING_HUMAN" /\ t.err = tx.err /\ t.undo = tx.undo
        /\ t.step[i] = "AWAITING_HUMAN"
        /\ \A s \in Steps : s # i => t.step[s] = tx.step[s]
    BY <1>1, <1>2, HoldFields
  <1>4. Calm(t) /\ Framed(tx, t)
    BY <1>3, SameFlightCalm
  <1>5. \A s \in Steps : s < i \/ s > i => s # i
    BY DEF Steps
  <1>6. Front(t, i)
    BY <1>3, <1>5 DEF Front, NoUndo
  <1>7. Forward(t, {"AWAITING_HUMAN"})
    BY <1>3, <1>6 DEF Forward, At
  <1>8. Shape(t)
    BY <1>3, <1>4, <1>7 DEF Shape, Calm
  <1>9. QED
    BY <1>2, <1>4, <1>8, CalmSent DEF Reached

\* Sending out the step at the front.
LEMMA SendReaches ==
    ASSUME NEW tx, Calm(tx), NEW i \in Steps, Front(tx, i), tx.err[i] = "none",
           tx.saga = "RUNNING", tx.step[i] = "IN_PROGRESS"
    PROVE  Reached(tx, Dispatch(tx, <<"fwd", i, tx.key[i]>>))
  <1> DEFINE c == <<"fwd", i, tx.key[i]>>
  <1>1. tx \in DbType /\ c \in Commands
    BY DEF Calm, DbType, Commands
  <1>2. PICK t : t = Dispatch(tx, c)
    OBVIOUS
  <1>3. /\ t \in DbType
        /\ t.saga = tx.saga /\ t.step = tx.step /\ t.err = tx.err
        /\ t.undo = tx.undo /\ t.key = tx.key /\ t.claim = tx.claim
        /\ t.event = tx.event /\ t.seen = tx.seen
        /\ \A d \in Commands :
              t.row[d] = IF d = c /\ tx.row[c] = "none" THEN "PENDING"
                         ELSE tx.row[d]
    <2> HIDE DEF c
    <2> QED BY <1>1, <1>2, DispatchFields
  <1>4. Framed(tx, t)
    BY <1>3 DEF Framed
  <1>5. Open(t, c)
    BY <1>3 DEF Open
  <1>6. Sent(t)
    <2> HIDE DEF c
    <2> QED BY <1>3, <1>5 DEF Sent, Calm
  <1>7. At(t, i, {"IN_PROGRESS"}) /\ t.err[i] = "none"
    BY <1>3 DEF At, Front, NoUndo
  <1>8. Shape(t)
    BY <1>3, <1>7 DEF Shape, Forward, Calm
  <1>9. QED
    BY <1>2, <1>4, <1>6, <1>8 DEF Reached

\* trigger_step, for the step at the front of a running saga.
LEMMA TriggerReaches ==
    ASSUME NEW tx, Calm(tx), NEW i \in Steps, Front(tx, i), tx.err[i] = "none",
           tx.saga = "RUNNING", NEW allowed,
           tx.step[i] \notin {"COMPLETED", "IN_PROGRESS", "AWAITING_HUMAN"} \ allowed,
           NEW t \in Trigger(tx, i, allowed)
    PROVE  Reached(tx, t)
  <1>1. tx \in DbType /\ "IN_PROGRESS" \in StepStatus
    BY DEF Calm, StepStatus
  <1>2. PICK a : a = Mark(tx, i, "IN_PROGRESS")
    OBVIOUS
  <1>3. /\ a \in DbType
        /\ SameFlight(tx, a)
        /\ a.saga = tx.saga /\ a.err = tx.err /\ a.undo = tx.undo
        /\ a.step[i] = "IN_PROGRESS"
        /\ \A s \in Steps : s # i => a.step[s] = tx.step[s]
    BY <1>1, <1>2, MarkFields
  <1>4. Calm(a) /\ Framed(tx, a)
    BY <1>3, SameFlightCalm
  <1>5. \A s \in Steps : s < i \/ s > i => s # i
    BY DEF Steps
  <1>6. Front(a, i) /\ a.err[i] = "none"
    BY <1>3, <1>5 DEF Front, NoUndo
  <1>7. \/ t \in FailByEngine(a, i)
        \/ t = Hold(a, i)
        \/ t = Dispatch(a, <<"fwd", i, a.key[i]>>)
    BY <1>2 DEF Trigger
  <1>8. Reached(a, t)
    BY <1>3, <1>4, <1>6, <1>7, FailByEngineReaches, HoldReaches, SendReaches
  <1>9. QED
    BY <1>4, <1>8, ReachedFrom

\* A running saga that has passed the row after, and no later one.
Passed(tx, after) ==
    /\ Calm(tx)
    /\ tx.saga = "RUNNING"
    /\ \A s \in Steps : s <= after => tx.step[s] \in {"COMPLETED", "SKIPPED"}
    /\ \A s \in Steps : s > after => tx.step[s] \in {"PENDING", "SKIPPED"}
    /\ \A s \in Steps : tx.err[s] = "none"
    /\ NoUndo(tx)

\* The rows whose condition is false are passed over.
LEMMA SkipPasses ==
    ASSUME NEW tx, NEW after \in Int, Passed(tx, after),
           NEW n \in Stops(after), NEW a, a = Skip(tx, after, n)
    PROVE  /\ Calm(a) /\ Framed(tx, a)
           /\ a.saga = "RUNNING"
           /\ \A s \in Steps : a.err[s] = "none"
           /\ NoUndo(a)
           /\ \A s \in Steps : s < n => a.step[s] \in {"COMPLETED", "SKIPPED"}
           /\ \A s \in Steps : n <= s => a.step[s] \in {"PENDING", "SKIPPED"}
           /\ a.row = tx.row /\ a.undo = tx.undo
           /\ \A s \in Steps : \/ a.step[s] = tx.step[s]
                                \/ tx.step[s] \in {"PENDING", "SKIPPED"}
  <1> DEFINE S == {s \in Steps : after < s /\ s < n}
  <1>1. tx \in DbType /\ "SKIPPED" \in StepStatus
    BY DEF Passed, Calm, StepStatus
  <1>2. a = SetSteps(tx, S, "SKIPPED")
    BY DEF Skip, SetSteps
  <1>3. /\ a \in DbType
        /\ SameFlight(tx, a)
        /\ a.saga = tx.saga /\ a.err = tx.err /\ a.undo = tx.undo
        /\ \A s \in Steps :
              a.step[s] = IF s \in S THEN "SKIPPED" ELSE tx.step[s]
    <2> HIDE DEF S
    <2> QED BY <1>1, <1>2, StepFields
  <1>4. Calm(a) /\ Framed(tx, a)
    BY <1>3, SameFlightCalm DEF Passed
  <1>5. n \in Int /\ after < n
    BY DEF Stops
  <1>6. \A s \in Steps : s <= after \/ s > after
    BY DEF Steps
  <1>7. \A s \in Steps : s < n => s \in S \/ s <= after
    BY DEF Steps
  <1>8. \A s \in Steps : n <= s => s \notin S /\ s > after
    BY <1>5 DEF Steps
  <1>9. \A s \in Steps : s \in S => s > after
    BY DEF Steps
  <1> HIDE DEF S
  <1>10. \A s \in Steps : s \in S => tx.step[s] \in {"PENDING", "SKIPPED"}
    BY <1>9 DEF Passed
  <1>11. \A s \in Steps : s < n => a.step[s] \in {"COMPLETED", "SKIPPED"}
    BY <1>3, <1>7 DEF Passed
  <1>12. \A s \in Steps : n <= s => a.step[s] \in {"PENDING", "SKIPPED"}
    BY <1>3, <1>8 DEF Passed
  <1>13. QED
    BY <1>3, <1>4, <1>11, <1>12, <1>10 DEF Passed, NoUndo, SameFlight

\* handle_saga_completion, when every row was passed.
LEMMA CompleteSagaReaches ==
    ASSUME NEW a, Calm(a), a.saga = "RUNNING", NoUndo(a),
           \A s \in Steps : a.step[s] \in {"COMPLETED", "SKIPPED"}
    PROVE  Reached(a, CompleteSaga(a))
  <1>1. a \in DbType /\ "COMPLETED" \in SagaStatus
    BY DEF Calm, SagaStatus
  <1>2. PICK t : t = Close(a, "COMPLETED", "SAGA_COMPLETED")
    OBVIOUS
  <1>3. ClosedAs(a, t, "COMPLETED", "SAGA_COMPLETED")
    BY <1>1, <1>2, CloseFields
  <1>4. Framed(a, t) /\ Sent(t)
    BY <1>1, <1>2, CloseFramed
  <1>5. t.saga = "COMPLETED" /\ Finished(t)
    BY <1>3 DEF ClosedAs, Finished, NoUndo
  <1>6. Shape(t)
    BY <1>5 DEF Shape
  <1>7. QED
    BY <1>2, <1>4, <1>6 DEF CompleteSaga, Reached

\* _schedule_next_forward_step keeps the order.
LEMMA ScheduleReaches ==
    ASSUME NEW tx, NEW after \in Int, Passed(tx, after),
           NEW t \in Schedule(tx, after)
    PROVE  Reached(tx, t)
  <1>1. PICK n \in Stops(after) :
          t \in (IF n = N THEN {CompleteSaga(Skip(tx, after, n))}
                 ELSE Trigger(Skip(tx, after, n), n, {}) \cup
                      (IF manifest[n].when
                       THEN FailByEngine(Skip(tx, after, n), n) ELSE {}))
    BY DEF Schedule
  <1>2. n \in 0 .. N
    BY DEF Stops
  <1>3. PICK a : a = Skip(tx, after, n)
    OBVIOUS
  <1>4. /\ Calm(a) /\ Framed(tx, a)
        /\ a.saga = "RUNNING"
        /\ \A s \in Steps : a.err[s] = "none"
        /\ NoUndo(a)
        /\ \A s \in Steps : s < n => a.step[s] \in {"COMPLETED", "SKIPPED"}
        /\ \A s \in Steps : n <= s => a.step[s] \in {"PENDING", "SKIPPED"}
    BY <1>3, SkipPasses
  <1>5. CASE n = N
    <2>1. \A s \in Steps : s < n
      BY <1>5, NAssumption DEF Steps
    <2>2. Reached(a, t)
      BY <1>1, <1>3, <1>4, <1>5, <2>1, CompleteSagaReaches
    <2>3. QED
      BY <1>4, <2>2, ReachedFrom
  <1>6. CASE n # N
    <2>1. n \in Steps
      BY <1>2, <1>6, NAssumption DEF Steps
    <2>2. \A s \in Steps : s > n => n <= s
      BY <2>1 DEF Steps
    <2>3. Front(a, n)
      BY <1>4, <2>2 DEF Front
    <2>4. a.step[n] \in {"PENDING", "SKIPPED"}
      BY <1>4, <2>1 DEF Steps
    <2>5. t \in Trigger(a, n, {}) \/ t \in FailByEngine(a, n)
      BY <1>1, <1>3, <1>6
    <2>6. Reached(a, t)
      BY <1>4, <2>1, <2>3, <2>4, <2>5, TriggerReaches, FailByEngineReaches
    <2>7. QED
      BY <1>4, <2>6, ReachedFrom
  <1>7. QED
    BY <1>5, <1>6

\* What _finalize_step_output_and_advance writes before it schedules.
Advanced(tx, i) == SetSaga(Mark(tx, i, "COMPLETED"), "RUNNING")

\* The step at the front is completed and passed.
LEMMA AdvancePasses ==
    ASSUME NEW tx, Calm(tx), NEW i \in Steps, Front(tx, i), tx.err[i] = "none",
           tx.saga \in {"RUNNING", "AWAITING_HUMAN"}, NEW a, a = Advanced(tx, i)
    PROVE  /\ Passed(a, i) /\ Framed(tx, a)
           /\ Advance(tx, i) = Schedule(a, i)
           /\ a.row = tx.row /\ a.undo = tx.undo
           /\ a.step[i] = "COMPLETED"
           /\ \A s \in Steps : s # i => a.step[s] = tx.step[s]
  <1>1. tx \in DbType /\ "COMPLETED" \in StepStatus /\ "RUNNING" \in SagaStatus
    BY DEF Calm, StepStatus, SagaStatus
  <1>2. PICK m : m = Mark(tx, i, "COMPLETED")
    OBVIOUS
  <1>3. /\ m \in DbType
        /\ SameFlight(tx, m)
        /\ m.saga = tx.saga /\ m.err = tx.err /\ m.undo = tx.undo
        /\ m.step[i] = "COMPLETED"
        /\ \A s \in Steps : s # i => m.step[s] = tx.step[s]
    BY <1>1, <1>2, MarkFields
  <1>4. Resumed(m.saga) = "RUNNING"
    BY <1>3 DEF Resumed
  <1>5. a = SetSaga(m, "RUNNING")
    BY <1>2 DEF Advanced
  <1>6. /\ a \in DbType
        /\ SameFlight(m, a)
        /\ a.saga = "RUNNING"
        /\ a.step = m.step /\ a.err = m.err /\ a.undo = m.undo
    BY <1>1, <1>3, <1>5, SagaFields
  <1>7. Calm(m) /\ Framed(tx, m)
    BY <1>3, SameFlightCalm
  <1>8. Calm(a) /\ Framed(m, a)
    BY <1>6, <1>7, SameFlightCalm
  <1>9. Advance(tx, i) = Schedule(a, i)
    BY <1>2, <1>4, <1>5 DEF Advance, SetSaga
  <1>10. \A s \in Steps : /\ s <= i => s = i \/ s < i
                          /\ s > i => s # i
                          /\ s < i => s # i
    BY DEF Steps
  <1>11. Passed(a, i)
    BY <1>3, <1>6, <1>8, <1>10 DEF Passed, Front, NoUndo
  <1>12. Framed(tx, a)
    BY <1>7, <1>8, FramedTrans
  <1>13. QED
    BY <1>3, <1>6, <1>9, <1>11, <1>12 DEF SameFlight

\* The step at the front is completed, and the next one scheduled.
LEMMA AdvanceReaches ==
    ASSUME NEW tx, Calm(tx), NEW i \in Steps, Front(tx, i), tx.err[i] = "none",
           tx.saga \in {"RUNNING", "AWAITING_HUMAN"}, NEW t \in Advance(tx, i)
    PROVE  Reached(tx, t)
  <1>1. PICK a : a = Advanced(tx, i)
    OBVIOUS
  <1>2. Passed(a, i) /\ Framed(tx, a) /\ t \in Schedule(a, i)
    BY <1>1, AdvancePasses
  <1>3. i \in Int
    BY DEF Steps
  <1>4. Reached(a, t)
    BY <1>2, <1>3, ScheduleReaches
  <1>5. QED
    BY <1>2, <1>4, ReachedFrom

-----------------------------------------------------------------------------
(* The handlers, when their event changes something *)

\* Where the step i is, the saga has come to it.
LEMMA WhereActive ==
    ASSUME NEW tx \in DbType, Shape(tx), NEW i \in Steps,
           NEW status \in {"IN_PROGRESS", "AWAITING_HUMAN"},
           tx.step[i] = status
    PROVE  /\ Front(tx, i) /\ tx.err[i] = "none"
           /\ tx.event[Completion] = "none"
           /\ status = "IN_PROGRESS" => tx.saga = "RUNNING"
           /\ status = "AWAITING_HUMAN" => tx.saga = "AWAITING_HUMAN"
  <1>1. tx.saga \in SagaStatus
    BY DEF DbType
  <1>2. tx.saga \notin {"PENDING", "COMPLETED"}
    BY DEF Shape, Fallow, Finished
  <1>3. tx.saga \notin {"COMPENSATING", "COMPENSATED", "FAILED"}
    BY DEF Shape, Unwound, AtRest
  <1>4. \A s \in Steps : s < i \/ s = i \/ s > i
    BY DEF Steps
  <1>5. ASSUME NEW S, NEW j \in Steps, At(tx, j, S)
        PROVE  i = j
    <2>1. i < j \/ i = j \/ i > j
      BY DEF Steps
    <2>2. QED
      BY <1>5, <2>1 DEF At, Front
  <1>6. tx.saga # "AWAITING_RECOVERY"
    <2> SUFFICES ASSUME tx.saga = "AWAITING_RECOVERY" PROVE FALSE
      OBVIOUS
    <2>1. PICK j \in Steps : At(tx, j, {"FAILED", "TIMED_OUT"})
      BY DEF Shape, Held
    <2>2. QED
      BY <1>5, <2>1 DEF At
  <1>7. CASE tx.saga = "RUNNING"
    <2>1. PICK j \in Steps : At(tx, j, {"IN_PROGRESS"}) /\ tx.err[j] = "none"
      BY <1>7 DEF Shape, Forward
    <2>2. QED
      BY <1>2, <1>5, <1>7, <2>1 DEF At, Shape
  <1>8. CASE tx.saga = "AWAITING_HUMAN"
    <2>1. PICK j \in Steps : At(tx, j, {"AWAITING_HUMAN"}) /\ tx.err[j] = "none"
      BY <1>8 DEF Shape, Forward
    <2>2. QED
      BY <1>2, <1>5, <1>8, <2>1 DEF At, Shape
  <1>9. QED
    BY <1>1, <1>2, <1>3, <1>6, <1>7, <1>8 DEF SagaStatus

\* What is open tells the status of the saga.
LEMMA OpenSaga ==
    ASSUME NEW tx \in DbType, Shape(tx), NEW c \in Commands, Open(tx, c)
    PROVE  /\ c[1] = "fwd" => tx.saga = "RUNNING"
           /\ c[1] # "fwd" => tx.saga = "COMPENSATING"
  <1>1. CASE c[1] = "fwd"
    <2>1. c[2] \in Steps /\ tx.step[c[2]] = "IN_PROGRESS"
      BY <1>1 DEF Commands, Open
    <2>2. QED
      BY <1>1, <2>1, WhereActive
  <1>2. CASE c[1] # "fwd"
    <2>1. c[2] \in Steps /\ c[3] \in Undos /\ tx.undo[c[2]][c[3]] = "COMPENSATING"
      BY <1>2 DEF Commands, Open
    <2>2. ~NoUndo(tx) /\ ~NoneRuns(tx)
      BY <2>1 DEF NoUndo, NoneRuns
    <2>3. tx.saga \notin {"PENDING", "RUNNING", "AWAITING_HUMAN",
                          "AWAITING_RECOVERY", "COMPLETED"}
      BY <2>2 DEF Shape, Fallow, Forward, Held, At, Front, Finished
    <2>4. tx.saga \notin {"COMPENSATED", "FAILED"}
      BY <2>2 DEF Shape, Unwound
    <2>5. tx.saga \in SagaStatus
      BY DEF DbType
    <2>6. QED
      BY <1>2, <2>3, <2>4, <2>5 DEF SagaStatus
  <1>3. QED
    BY <1>1, <1>2

\* One command is open at a time.
LEMMA OpenUnique ==
    ASSUME NEW tx \in DbType, Shape(tx), NEW c \in Commands, NEW d \in Commands,
           Open(tx, c), Open(tx, d)
    PROVE  c = d
  <1>1. c[1] = "fwd" <=> d[1] = "fwd"
    BY OpenSaga
  <1>2. CASE c[1] = "fwd"
    <2>1. /\ c[2] \in Steps /\ c = <<"fwd", c[2], tx.key[c[2]]>>
          /\ d[2] \in Steps /\ d = <<"fwd", d[2], tx.key[d[2]]>>
          /\ tx.step[c[2]] = "IN_PROGRESS" /\ tx.step[d[2]] = "IN_PROGRESS"
      BY <1>1, <1>2 DEF Commands, Open
    <2>2. Front(tx, c[2])
      BY <2>1, WhereActive
    <2>3. c[2] = d[2]
      <3>1. d[2] < c[2] \/ d[2] = c[2] \/ d[2] > c[2]
        BY <2>1 DEF Steps
      <3>2. QED
        BY <2>1, <2>2, <3>1 DEF Front
    <2>4. QED
      BY <2>1, <2>3
  <1>3. CASE c[1] # "fwd"
    <2>1. /\ c[2] \in Steps /\ c[3] \in Undos /\ c = <<"undo", c[2], c[3]>>
          /\ d[2] \in Steps /\ d[3] \in Undos /\ d = <<"undo", d[2], d[3]>>
          /\ tx.undo[c[2]][c[3]] = "COMPENSATING"
          /\ tx.undo[d[2]][d[3]] = "COMPENSATING"
      BY <1>1, <1>3 DEF Commands, Open
    <2>2. tx.saga = "COMPENSATING"
      BY <1>3, OpenSaga
    <2>3. OneRuns(tx)
      BY <2>2 DEF Shape, Unwound
    <2>4. d[2] = c[2] /\ d[3] = c[3]
      BY <2>1, <2>3 DEF OneRuns
    <2>5. QED
      BY <2>1, <2>4
  <1>4. QED
    BY <1>2, <1>3

\* A saga that did not complete, with nothing at work, is calm.
LEMMA IdleCalm ==
    ASSUME NEW tx \in DbType, Shape(tx), tx.saga # "COMPLETED",
           NEW T, NoWork(tx, T)
    PROVE  Calm(tx)
  BY DEF Shape, Calm, NoWork, AtWork

\* handle_saga_started
LEMMA OnSagaStartedReaches ==
    ASSUME NEW tx, Calm(tx), Shape(tx), tx.saga = "PENDING",
           NEW t \in OnSagaStarted(tx)
    PROVE  Reached(tx, t)
  <1>1. tx \in DbType /\ "RUNNING" \in SagaStatus
    BY DEF Calm, SagaStatus
  <1>2. PICK a : a = SetSaga(tx, "RUNNING")
    OBVIOUS
  <1>3. /\ a \in DbType
        /\ SameFlight(tx, a)
        /\ a.saga = "RUNNING"
        /\ a.step = tx.step /\ a.err = tx.err /\ a.undo = tx.undo
    BY <1>1, <1>2, SagaFields
  <1>4. Calm(a) /\ Framed(tx, a)
    BY <1>3, SameFlightCalm
  <1>5. t \in Schedule(a, -1)
    BY <1>2 DEF OnSagaStarted, SetSaga
  <1>6. \A s \in Steps : ~(s <= -1)
    BY DEF Steps
  <1>7. Passed(a, -1)
    BY <1>3, <1>4, <1>6 DEF Passed, Shape, Fallow, NoUndo
  <1>8. -1 \in Int
    OBVIOUS
  <1>9. Reached(a, t)
    BY <1>5, <1>7, <1>8, ScheduleReaches
  <1>10. QED
    BY <1>4, <1>9, ReachedFrom

\* handle_step_completed
LEMMA OnStepCompletedReaches ==
    ASSUME NEW tx, Calm(tx), Shape(tx), NEW i \in Steps,
           tx.step[i] = "IN_PROGRESS", NEW t \in OnStepCompleted(tx, i)
    PROVE  Reached(tx, t)
  <1>1. Front(tx, i) /\ tx.err[i] = "none" /\ tx.saga = "RUNNING"
    BY WhereActive DEF Calm
  <1>2. \/ t \in FailByEngine(tx, i)
        \/ t = Hold(tx, i)
        \/ t \in Advance(tx, i)
    BY <1>1 DEF OnStepCompleted
  <1>3. QED
    BY <1>1, <1>2, FailByEngineReaches, HoldReaches, AdvanceReaches

\* handle_step_failed
LEMMA OnStepFailedReaches ==
    ASSUME NEW tx, Calm(tx), Shape(tx), NEW i \in Steps,
           tx.step[i] = "IN_PROGRESS", NEW error \in Errors,
           NEW t \in OnStepFailed(tx, i, error)
    PROVE  Reached(tx, t)
  <1>1. Front(tx, i) /\ tx.err[i] = "none" /\ tx.saga = "RUNNING"
    BY WhereActive DEF Calm
  <1>2. t \in Fail(tx, i, error)
    BY <1>1 DEF OnStepFailed
  <1>3. QED
    BY <1>1, <1>2, FailReaches

\* An undo that ran, in whatever way it ended: no other one runs, and every
\* later step that owes one has had it.
LEMMA UndoEnds ==
    ASSUME NEW tx, Calm(tx), Shape(tx), NEW s \in Steps, NEW u \in Undos,
           tx.undo[s][u] = "COMPENSATING",
           NEW status \in {"COMPENSATED", "FAILED"},
           NEW a, a = SetUndo(tx, s, u, status)
    PROVE  /\ Calm(a) /\ Framed(tx, a)
           /\ tx.saga = "COMPENSATING" /\ a.saga = "COMPENSATING"
           /\ a.step = tx.step
           /\ AtRest(a) /\ InOrder(a) /\ Above(a) /\ NoneRuns(a)
           /\ status = "COMPENSATED" => Clear(a, s - 1)
  <1>1. tx \in DbType /\ status \in UndoStatus
    BY StatusSets DEF Calm
  <1>2. /\ a \in DbType
        /\ SameFlight(tx, a)
        /\ a.saga = tx.saga /\ a.step = tx.step /\ a.err = tx.err
        /\ \A r \in Steps, v \in Undos :
              a.undo[r][v] = IF r = s /\ v = u THEN status ELSE tx.undo[r][v]
    BY <1>1, UndoFields
  <1>3. Calm(a) /\ Framed(tx, a)
    BY <1>2, SameFlightCalm
  <1>4. tx.saga = "COMPENSATING"
    <2> DEFINE c == <<"undo", s, u>>
    <2>1. c \in Commands /\ Open(tx, c) /\ c[1] # "fwd"
      BY UndoCommand DEF Open
    <2> HIDE DEF c
    <2>2. QED
      BY <1>1, <2>1, OpenSaga
  <1>5. AtRest(tx) /\ InOrder(tx) /\ Above(tx) /\ OneRuns(tx)
    BY <1>4 DEF Shape, Unwound
  <1>6. \A r \in Steps : /\ Owed(a, r) <=> Owed(tx, r)
                         /\ Undone(tx, r) => Undone(a, r)
    BY <1>2 DEF Owed, Undone, HasUndo
  <1>7. AtRest(a) /\ InOrder(a)
    BY <1>2, <1>5 DEF AtRest, InOrder
  <1>8. Above(a)
    BY <1>2, <1>5, <1>6 DEF Above
  <1>9. NoneRuns(a)
    BY <1>2, <1>5 DEF NoneRuns, OneRuns
  <1>10. ASSUME status = "COMPENSATED"
         PROVE  Clear(a, s - 1)
    <2> SUFFICES ASSUME NEW r \in Steps, s - 1 < r, Owed(a, r)
                 PROVE  Undone(a, r)
      BY DEF Clear
    <2>1. r = s \/ s < r
      BY DEF Steps
    <2>2. CASE r = s
      BY <1>2, <1>10, <2>2 DEF Undone, HasUndo
    <2>3. CASE s < r
      BY <1>5, <1>6, <2>3 DEF Above
    <2>4. QED
      BY <2>1, <2>2, <2>3
  <1>11. QED
    BY <1>2, <1>3, <1>4, <1>7, <1>8, <1>9, <1>10

\* handle_step_compensated
LEMMA OnStepCompensatedReaches ==
    ASSUME NEW tx, Calm(tx), Shape(tx), NEW s \in Steps, NEW u \in Undos,
           tx.undo[s][u] = "COMPENSATING", NEW t \in OnStepCompensated(tx, s, u)
    PROVE  Reached(tx, t)
  <1>1. PICK a : a = SetUndo(tx, s, u, "COMPENSATED")
    OBVIOUS
  <1>2. /\ Calm(a) /\ Framed(tx, a)
        /\ a.saga = "COMPENSATING"
        /\ AtRest(a) /\ InOrder(a) /\ Above(a) /\ NoneRuns(a)
        /\ Clear(a, s - 1)
    BY <1>1, UndoEnds
  <1>3. Unwinding(a)
    BY <1>2 DEF Unwinding
  <1>4. t \in Unwind(a, s - 1)
    BY <1>1 DEF OnStepCompensated, SetUndo
  <1>5. s - 1 \in Int
    BY DEF Steps
  <1>6. Reached(a, t)
    BY <1>2, <1>3, <1>4, <1>5, UnwindReaches
  <1>7. QED
    BY <1>2, <1>6, ReachedFrom

\* handle_compensation_failed
LEMMA OnCompensationFailedReaches ==
    ASSUME NEW tx, Calm(tx), Shape(tx), NEW s \in Steps, NEW u \in Undos,
           tx.undo[s][u] = "COMPENSATING",
           NEW t \in OnCompensationFailed(tx, s, u)
    PROVE  Reached(tx, t)
  <1>1. PICK a : a = SetUndo(tx, s, u, "FAILED")
    OBVIOUS
  <1>2. /\ Calm(a) /\ Framed(tx, a)
        /\ a.saga = "COMPENSATING"
        /\ AtRest(a) /\ InOrder(a) /\ Above(a) /\ NoneRuns(a)
    BY <1>1, UndoEnds
  <1>3. PICK b : b = SetSaga(a, "FAILED")
    OBVIOUS
  <1>4. b.step = a.step
    BY <1>2, <1>3, SagaFields, StatusSets DEF Calm
  <1>5. InOrder(b)
    BY <1>2, <1>4 DEF InOrder
  <1>6. Reached(a, Close(a, "FAILED", "SAGA_FAILED"))
    BY <1>2, <1>3, <1>5, CloseShape DEF SetSaga
  <1>7. t = Close(a, "FAILED", "SAGA_FAILED")
    BY <1>1 DEF OnCompensationFailed, SetUndo
  <1>8. QED
    BY <1>2, <1>6, <1>7, ReachedFrom

\* handle_hitl_approved
LEMMA OnHumanApprovedReaches ==
    ASSUME NEW tx, Calm(tx), Shape(tx), NEW i \in Steps,
           tx.step[i] = "AWAITING_HUMAN", NEW t \in OnHumanApproved(tx, i)
    PROVE  Reached(tx, t)
  <1>1. /\ tx \in DbType
        /\ "IN_PROGRESS" \in StepStatus /\ "RUNNING" \in SagaStatus
    BY DEF Calm, StepStatus, SagaStatus
  <1>2. Front(tx, i) /\ tx.err[i] = "none" /\ tx.saga = "AWAITING_HUMAN"
    BY WhereActive DEF Calm
  <1>3. PICK m : m = Mark(tx, i, "IN_PROGRESS")
    OBVIOUS
  <1>4. /\ m \in DbType
        /\ SameFlight(tx, m)
        /\ m.saga = tx.saga /\ m.err = tx.err /\ m.undo = tx.undo
        /\ m.step[i] = "IN_PROGRESS"
        /\ \A s \in Steps : s # i => m.step[s] = tx.step[s]
    BY <1>1, <1>3, MarkFields
  <1>5. PICK a : a = SetSaga(m, "RUNNING")
    OBVIOUS
  <1>6. /\ a \in DbType
        /\ SameFlight(m, a)
        /\ a.saga = "RUNNING"
        /\ a.step = m.step /\ a.err = m.err /\ a.undo = m.undo
    BY <1>1, <1>4, <1>5, SagaFields
  <1>7. Calm(m) /\ Framed(tx, m)
    BY <1>4, SameFlightCalm
  <1>8. Calm(a) /\ Framed(m, a)
    BY <1>6, <1>7, SameFlightCalm
  <1>9. \A s \in Steps : s < i \/ s > i => s # i
    BY DEF Steps
  <1>10. Front(a, i)
    BY <1>2, <1>4, <1>6, <1>9 DEF Front, NoUndo
  <1>11. Framed(tx, a) /\ a.key = tx.key
    BY <1>7, <1>8, FramedTrans DEF Framed
  <1>12. Resumed(m.saga) = "RUNNING"
    BY <1>2, <1>4 DEF Resumed
  <1>13. \/ t = Dispatch(a, <<"fwd", i, a.key[i]>>)
         \/ t \in FailByEngine(tx, i)
         \/ t \in Advance(tx, i)
    BY <1>3, <1>5, <1>11, <1>12 DEF OnHumanApproved, SetSaga
  <1>14. CASE t = Dispatch(a, <<"fwd", i, a.key[i]>>)
    <2>1. Reached(a, t)
      BY <1>2, <1>4, <1>6, <1>8, <1>10, <1>14, SendReaches
    <2>2. QED
      BY <1>11, <2>1, ReachedFrom
  <1>15. QED
    BY <1>2, <1>13, <1>14, FailByEngineReaches, AdvanceReaches

\* handle_hitl_rejected
LEMMA OnHumanRejectedReaches ==
    ASSUME NEW tx, Calm(tx), Shape(tx), NEW i \in Steps,
           tx.step[i] = "AWAITING_HUMAN", NEW error \in Errors,
           NEW t \in OnHumanRejected(tx, i, error)
    PROVE  Reached(tx, t)
  <1>1. Front(tx, i) /\ tx.err[i] = "none"
    BY WhereActive DEF Calm
  <1>2. t \in Fail(tx, i, error)
    BY DEF OnHumanRejected
  <1>3. QED
    BY <1>1, <1>2, FailReaches

-----------------------------------------------------------------------------
(* Commands and results, when an event is recorded and when it is handled *)

\* Recording an event in the transaction that starts from d.
RecordedAs(d, tx, e, s) ==
    /\ tx \in DbType
    /\ tx.saga = d.saga /\ tx.step = d.step /\ tx.err = d.err
    /\ tx.key = d.key /\ tx.retried = d.retried /\ tx.undo = d.undo
    /\ tx.row = d.row /\ tx.claim = d.claim
    /\ tx.seen = d.seen \cup {DedupKey(e)}
    /\ tx.event[e] = s
    /\ \A f \in Events : f # e => tx.event[f] = d.event[f]

\* Record writes that, and nothing else.
LEMMA RecordFields ==
    ASSUME NEW d \in DbType, NEW e \in Events, NEW s \in OutboxStatus
    PROVE  RecordedAs(d, Record(d, e, s), e, s)
  <1> DEFINE S == d.seen \cup {DedupKey(e)}
             f == [d.event EXCEPT ![e] = s]
             t == [d EXCEPT !.seen = S, !.event = f]
  <1>1. DedupKey(e) \in DedupKeys
    BY DEF DedupKey, DedupKeys, Events, ForwardEvents, UndoEvents, RetryEvents,
           SagaEvents
  <1>2. S \in SUBSET DedupKeys
    BY <1>1 DEF DbType
  <1>3. /\ f \in [Events -> OutboxStatus]
        /\ f[e] = s
        /\ \A g \in Events : g # e => f[g] = d.event[g]
    BY DEF DbType
  <1>4. t = Record(d, e, s)
    BY DEF Record, DbType
  <1>5. S = d.seen \cup {DedupKey(e)}
    OBVIOUS
  <1> HIDE DEF S, f
  <1>6. /\ t \in DbType
        /\ t.seen = S /\ t.event = f
        /\ t.saga = d.saga /\ t.step = d.step /\ t.err = d.err
        /\ t.key = d.key /\ t.retried = d.retried /\ t.undo = d.undo
        /\ t.row = d.row /\ t.claim = d.claim
    BY <1>2, <1>3 DEF DbType
  <1> HIDE DEF t
  <1>7. QED
    BY <1>3, <1>4, <1>5, <1>6 DEF RecordedAs

\* The ingest key of a result, or of a notice, is its own.
LEMMA ResultKey ==
    /\ \A e \in ResultEvents : DedupKey(e) = e
    /\ \A e \in Events, f \in ResultEvents : DedupKey(e) = f => e = f
  <1>1. \A e \in ResultEvents : e[1] # "HUMAN_RETRY"
    BY DEF ResultEvents
  <1>2. ASSUME NEW e \in Events, NEW f \in ResultEvents, DedupKey(e) = f
        PROVE  e = f
    <2>1. CASE e[1] = "HUMAN_RETRY"
      <3>1. f = <<e[1], e[2], 0>>
        BY <1>2, <2>1 DEF DedupKey
      <3>2. f[1] = "HUMAN_RETRY"
        BY <2>1, <3>1
      <3>3. QED
        BY <1>1, <3>2
    <2>2. CASE e[1] # "HUMAN_RETRY"
      BY <1>2, <2>2 DEF DedupKey
    <2>3. QED
      BY <2>1, <2>2
  <1>3. QED
    BY <1>1, <1>2 DEF DedupKey

\* A write of anything but the saga's own columns keeps its shape.
LEMMA SameShape ==
    ASSUME NEW d, NEW t, Shape(d),
           t.saga = d.saga, t.step = d.step, t.err = d.err, t.undo = d.undo,
           t.event[Completion] # "none" => d.event[Completion] # "none"
    PROVE  Shape(t)
  <1>1. \A S : \A i \in Steps : At(d, i, S) => At(t, i, S)
    BY DEF At, Front, NoUndo
  <1>2. t.saga = "RUNNING" => Forward(t, {"IN_PROGRESS"})
    BY <1>1 DEF Shape, Forward
  <1>3. t.saga = "AWAITING_HUMAN" => Forward(t, {"AWAITING_HUMAN"})
    BY <1>1 DEF Shape, Forward
  <1>4. t.saga = "AWAITING_RECOVERY" => Held(t)
    BY <1>1 DEF Shape, Held
  <1>5. t.saga = "PENDING" => Fallow(t)
    BY DEF Shape, Fallow, NoUndo
  <1>6. t.saga = "COMPLETED" => Finished(t)
    BY DEF Shape, Finished, NoUndo
  <1>7. Unwound(d) => Unwound(t)
    BY DEF Unwound, AtRest, InOrder, Above, OneRuns, NoneRuns, Owed, Undone,
           HasUndo
  <1>8. t.saga \in {"COMPENSATING", "COMPENSATED", "FAILED"} => Unwound(t)
    BY <1>7 DEF Shape
  <1>9. t.event[Completion] # "none" => t.saga = "COMPLETED"
    BY DEF Shape
  <1>10. QED
    BY <1>2, <1>3, <1>4, <1>5, <1>6, <1>8, <1>9 DEF Shape

\* Recording leaves the shape of the saga alone.
LEMMA RecordShape ==
    ASSUME NEW d \in DbType, NEW tx, NEW e, NEW s, RecordedAs(d, tx, e, s),
           Shape(d), s # "none" => d.event[e] # "none"
    PROVE  Shape(tx)
  <1>1. tx.event[Completion] # "none" => d.event[Completion] # "none"
    BY EventTypes DEF RecordedAs, Completion
  <1>2. QED
    BY <1>1, SameShape DEF RecordedAs

\* Recording an event brings out no command and no result.
LEMMA RecordFlight ==
    ASSUME NEW d \in DbType, NEW e \in Events, NEW s \in OutboxStatus, NEW tx,
           RecordedAs(d, tx, e, s), NEW H, NEW T, Flight(d, H, T), e \in H,
           \/ s = d.event[e]
           \/ d.event[e] = "IN_PROGRESS" /\ s = "COMPLETED",
           /\ "engine_crash" \notin Faults
           /\ d.event[e] = "IN_PROGRESS"
           => s = "COMPLETED"
    PROVE  Flight(tx, H \ {e}, T)
  <1>1. \A c \in Commands : /\ AtWork(tx, T, c) <=> AtWork(d, T, c)
                            /\ Open(tx, c) <=> Open(d, c)
    BY DEF AtWork, Open, RecordedAs
  <1>2. WorkIsOpen(tx, T)
    BY <1>1 DEF Flight, WorkIsOpen, RecordedAs
  <1>3. \A f \in ResultEvents : Due(tx, H \ {e}, f) => Due(d, H, f)
    <2> SUFFICES ASSUME NEW f \in ResultEvents, Due(tx, H \ {e}, f)
                 PROVE  Due(d, H, f)
      OBVIOUS
    <2>1. f \in Events /\ f \notin d.seen
      BY ResultTypes DEF Due, RecordedAs
    <2>2. CASE f = e
      BY <2>1, <2>2 DEF Due
    <2>3. CASE f # e
      BY <2>1, <2>3 DEF Due, RecordedAs
    <2>4. QED
      BY <2>2, <2>3
  <1>4. \A f \in ResultEvents : /\ Source(tx, f) = Source(d, f)
                                /\ Open(tx, Source(tx, f)) <=> Open(d, Source(d, f))
    BY DEF Source, Open, RecordedAs
  <1>5. NoWork(d, T) => NoWork(tx, T)
    BY <1>1 DEF NoWork
  <1>6. ResultIsOpen(tx, H \ {e}, T)
    BY <1>3, <1>4, <1>5 DEF Flight, ResultIsOpen
  <1>7. HeldOnce(tx, H \ {e})
    <2> SUFFICES ASSUME "engine_crash" \notin Faults, NEW f \in ResultEvents
                 PROVE  /\ f \in H \ {e} => tx.event[f] = "IN_PROGRESS"
                        /\ f \in tx.seen => tx.event[f] = "COMPLETED"
      BY DEF HeldOnce
    <2>1. f \in Events
      BY ResultTypes
    <2>2. /\ f \in H => d.event[f] = "IN_PROGRESS"
          /\ f \in d.seen => d.event[f] = "COMPLETED"
      BY DEF Flight, HeldOnce
    <2>3. f \in H \ {e} => tx.event[f] = "IN_PROGRESS"
      BY <2>1, <2>2 DEF RecordedAs
    <2>4. f \in tx.seen => f \in d.seen \/ f = e
      BY ResultKey DEF RecordedAs
    <2>5. CASE f = e
      BY <2>2, <2>3, <2>5 DEF RecordedAs
    <2>6. CASE f # e
      BY <2>1, <2>2, <2>3, <2>4, <2>6 DEF RecordedAs
    <2>7. QED
      BY <2>5, <2>6
  <1>8. Completion \in H \ {e} => tx.event[Completion] # "none"
    BY EventTypes DEF Flight, RecordedAs, Completion
  <1>9. RetryIsAsked(tx, H \ {e})
    <2>1. RetryEvents \subseteq Events
      BY DEF Events
    <2>2. QED
      BY <2>1 DEF Flight, RetryIsAsked, RecordedAs
  <1>10. QED
    BY <1>2, <1>6, <1>7, <1>8, <1>9 DEF Flight

\* Where no command is open, nothing is at work and no result is due.
LEMMA ClosedIdle ==
    ASSUME NEW tx \in DbType, NEW H, NEW T, Flight(tx, H, T),
           \A c \in Commands : ~Open(tx, c)
    PROVE  Idle(tx, H, T)
  <1>1. \A e \in ResultEvents : Source(tx, e) \in Commands
    <2> SUFFICES ASSUME NEW e \in ResultEvents
                 PROVE  Source(tx, e) \in Commands
      OBVIOUS
    <2>1. CASE e[3] = 0
      <3>1. e[2] \in Steps /\ tx.key[e[2]] \in Keys
        BY DEF ResultEvents, DbType
      <3>2. QED
        BY <2>1, <3>1 DEF Source, Commands
    <2>2. CASE e[3] # 0
      <3>1. e[2] \in Steps /\ e[3] \in Undos
        BY <2>2 DEF ResultEvents
      <3>2. QED
        BY <2>2, <3>1 DEF Source, Commands
    <2>3. QED
      BY <2>1, <2>2
  <1>2. NoWork(tx, T)
    BY DEF Flight, WorkIsOpen, NoWork
  <1>3. NoResult(tx, H)
    BY <1>1 DEF Flight, ResultIsOpen, NoResult
  <1>4. QED
    BY <1>2, <1>3 DEF Idle

\* What a transaction reached, from contents with nothing on the way.
LEMMA ReachedFlight ==
    ASSUME NEW tx, NEW t, NEW H, NEW T, Idle(tx, H, T), HeldOnce(tx, H),
           RetryIsAsked(tx, H), Completion \notin H, Reached(tx, t)
    PROVE  Flight(t, H, T)
  <1>1. \A c \in Commands : /\ t.claim[c] # "held" /\ c \notin T
    BY DEF Idle, NoWork, AtWork, Reached, Framed
  <1>2. WorkIsOpen(t, T)
    BY <1>1 DEF WorkIsOpen, AtWork, Reached, Sent
  <1>3. \A e \in ResultEvents : ~Due(t, H, e)
    BY DEF Idle, NoResult, Due, Reached, Framed
  <1>4. ResultIsOpen(t, H, T)
    BY <1>3 DEF ResultIsOpen
  <1>5. HeldOnce(t, H)
    BY DEF HeldOnce, Reached, Framed
  <1>6. RetryIsAsked(t, H)
    BY DEF RetryIsAsked, Reached, Framed
  <1>7. QED
    BY <1>2, <1>4, <1>5, <1>6 DEF Flight

-----------------------------------------------------------------------------
(* The steps of the engine's consumer *)

\* Committing contents in order establishes the invariant.
LEMMA CommitOrder ==
    ASSUME NEW t \in DbType, Commit(t), manifest' = manifest, Shape(t),
           NEW H, NEW T, Flight(t, H, T), handling' = H, taken' = T
    PROVE  OrderInv'
  <1>1. Db' = t
    BY DEF Commit, Db, DbType
  <1>2. \A i \in Steps : Owed(t, i) <=> Owed(Db, i)'
    BY <1>1 DEF Owed
  <1>3. \A status : \A i \in Steps : HasUndo(t, i, status) <=> HasUndo(Db, i, status)'
    BY <1>1 DEF HasUndo
  <1>4. \A S : \A i \in Steps : At(t, i, S) <=> At(Db, i, S)'
    BY <1>1 DEF At, Front, NoUndo
  <1>5. Held(t) <=> Held(Db)'
    BY <1>1 DEF Held, At, Front, NoUndo
  <1>6. Unwound(t) <=> Unwound(Db)'
    BY <1>1 DEF Unwound, AtRest, InOrder, Above, OneRuns, NoneRuns,
                Owed, Undone, HasUndo
  <1>7. Shape(Db)'
    BY <1>1, <1>5, <1>6
       DEF Shape, Fallow, NoUndo, Forward, At, Front, Finished
  <1>8. Flight(Db, handling, taken)'
    BY <1>1 DEF Flight, WorkIsOpen, ResultIsOpen, HeldOnce, RetryIsAsked, AtWork,
                Open, NoWork, Due, Source
  <1>9. QED
    BY <1>7, <1>8 DEF OrderInv

\* The contents in which the handler of the event e starts.
LEMMA IngestOrder ==
    ASSUME Inv, OrderInv, NEW e \in Events, e \in handling, NEW tx \in Ingest(e)
    PROVE  /\ tx \in DbType
           /\ Shape(tx)
           /\ Flight(tx, handling \ {e}, taken)
           /\ \E s : RecordedAs(Db, tx, e, s)
           /\ tx.saga = saga /\ tx.step = step /\ tx.undo = undo /\ tx.key = key
           /\ tx.event[Completion] # "none" => event[Completion] # "none"
  <1>1. PICK s \in Settled(e) : tx = Record(Db, e, s)
    BY DEF Ingest
  <1>2. Db \in DbType /\ Db.event = event
    BY InvParts DEF Db
  <1>3. /\ s \in OutboxStatus
        /\ \/ s = event[e]
           \/ event[e] = "IN_PROGRESS" /\ s = "COMPLETED"
        /\ "engine_crash" \notin Faults /\ event[e] = "IN_PROGRESS"
              => s = "COMPLETED"
    BY InvParts DEF Settled, OutboxStatus
  <1>4. RecordedAs(Db, tx, e, s)
    BY <1>1, <1>2, <1>3, RecordFields
  <1>5. Shape(tx)
    BY <1>2, <1>3, <1>4, RecordShape DEF OrderInv
  <1>6. Flight(tx, handling \ {e}, taken)
    BY <1>2, <1>3, <1>4, RecordFlight DEF OrderInv
  <1>7. /\ Db.saga = saga /\ Db.step = step /\ Db.undo = undo /\ Db.key = key
    BY DEF Db
  <1>8. tx.event[Completion] # "none" => event[Completion] # "none"
    BY <1>2, <1>3, <1>4, EventTypes DEF RecordedAs, Completion
  <1>9. QED
    BY <1>4, <1>5, <1>6, <1>7, <1>8 DEF RecordedAs

\* The contents a fresh result is handled in: its command is open, and
\* nothing else is on the way.
LEMMA ResultOrder ==
    ASSUME Inv, OrderInv, NEW e \in ResultEvents, Fresh(e), NEW tx \in Ingest(e)
    PROVE  /\ Idle(tx, handling \ {e}, taken)
           /\ Open(tx, Source(tx, e))
           /\ Completion \notin handling \ {e}
           /\ Calm(tx)
  <1>1. e \in handling /\ e \notin seen /\ e \in Events
    BY ResultKey, ResultTypes DEF Fresh
  <1>2. PICK s : RecordedAs(Db, tx, e, s)
    BY <1>1, IngestOrder
  <1>3. Shape(tx) /\ tx \in DbType
    BY <1>1, IngestOrder
  <1>4. Due(Db, handling, e)
    BY <1>1 DEF Due, Db
  <1>5. /\ Open(Db, Source(Db, e))
        /\ NoWork(Db, taken)
        /\ \A f \in ResultEvents : Due(Db, handling, f) => f = e
    BY <1>4 DEF OrderInv, Flight, ResultIsOpen
  <1>6. Open(tx, Source(tx, e)) /\ NoWork(tx, taken)
    BY <1>2, <1>5 DEF Open, Source, NoWork, AtWork, RecordedAs
  <1>7. \A f \in ResultEvents : ~Due(tx, handling \ {e}, f)
    <2> SUFFICES ASSUME NEW f \in ResultEvents, Due(tx, handling \ {e}, f)
                 PROVE  FALSE
      OBVIOUS
    <2>1. f # e
      BY <1>2, ResultKey DEF Due, RecordedAs
    <2>2. f \in Events
      BY ResultTypes
    <2>3. Due(Db, handling, f)
      BY <1>2, <2>1, <2>2 DEF Due, RecordedAs
    <2>4. QED
      BY <1>5, <2>1, <2>3
  <1>8. Idle(tx, handling \ {e}, taken)
    BY <1>6, <1>7 DEF Idle, NoResult
  <1>9. tx.saga # "COMPLETED"
    <2>1. CASE e[3] = 0
      <3>1. e[2] \in Steps /\ tx.step[e[2]] = "IN_PROGRESS"
        BY <1>6, <2>1 DEF ResultEvents, Open, Source
      <3>2. QED
        BY <1>3, <3>1, WhereActive
    <2>2. CASE e[3] # 0
      <3>1. e[2] \in Steps /\ e[3] \in Undos
        BY <2>2 DEF ResultEvents
      <3>2. tx.undo[e[2]][e[3]] = "COMPENSATING"
        BY <1>6, <2>2 DEF Open, Source
      <3>3. ~NoUndo(tx)
        BY <3>1, <3>2 DEF NoUndo
      <3>4. QED
        BY <1>3, <3>3 DEF Shape, Finished
    <2>3. QED
      BY <2>1, <2>2
  <1>10. Calm(tx)
    BY <1>3, <1>6, <1>9, IdleCalm
  <1>11. Completion \notin handling
    <2>1. Db.saga # "COMPLETED"
      BY <1>2, <1>9 DEF RecordedAs
    <2>2. Db.event[Completion] = "none"
      BY <2>1 DEF OrderInv, Shape
    <2>3. QED
      BY <2>2 DEF OrderInv, Flight
  <1>12. QED
    BY <1>6, <1>8, <1>10, <1>11

\* The contents any other event is handled in, when no command is open.
LEMMA QuietOrder ==
    ASSUME Inv, OrderInv, NEW e \in Events, e \in handling, NEW tx \in Ingest(e),
           saga \notin {"RUNNING", "COMPENSATING", "COMPLETED"}
    PROVE  /\ Idle(tx, handling \ {e}, taken)
           /\ Completion \notin handling \ {e}
           /\ Calm(tx)
  <1>1. /\ tx \in DbType /\ Shape(tx) /\ Flight(tx, handling \ {e}, taken)
        /\ tx.saga = saga
    BY IngestOrder
  <1>2. \A c \in Commands : ~Open(tx, c)
    BY <1>1, OpenSaga
  <1>3. Idle(tx, handling \ {e}, taken)
    BY <1>1, <1>2, ClosedIdle
  <1>4. Calm(tx)
    BY <1>1, <1>3, IdleCalm DEF Idle
  <1>5. Completion \notin handling \ {e}
    BY <1>1, <1>4 DEF Flight, Calm
  <1>6. QED
    BY <1>3, <1>4, <1>5

\* A handler that changes nothing besides the event it records.
LEMMA IgnoredStep ==
    ASSUME Inv, OrderInv, NEW e \in Events, e \in handling, NEW tx \in Ingest(e),
           Commit(tx), handling' = handling \ {e}, UNCHANGED <<manifest, taken>>
    PROVE  OrderInv'
  <1>1. tx \in DbType /\ Shape(tx) /\ Flight(tx, handling \ {e}, taken)
    BY IngestOrder
  <1>2. QED
    BY <1>1, CommitOrder

\* A handler that moves the saga on.
LEMMA ReachedStep ==
    ASSUME Inv, OrderInv, NEW e \in Events, e \in handling, NEW tx \in Ingest(e),
           Idle(tx, handling \ {e}, taken), Completion \notin handling \ {e},
           NEW t, Reached(tx, t), Commit(t), handling' = handling \ {e},
           UNCHANGED <<manifest, taken>>
    PROVE  OrderInv'
  <1>1. HeldOnce(tx, handling \ {e}) /\ RetryIsAsked(tx, handling \ {e})
    BY IngestOrder DEF Flight
  <1>2. Flight(t, handling \ {e}, taken)
    BY <1>1, ReachedFlight
  <1>3. t \in DbType /\ Shape(t)
    BY DEF Reached, Framed
  <1>4. QED
    BY <1>2, <1>3, CommitOrder

-----------------------------------------------------------------------------
(* A new attempt at a step *)

\* _clear_worker_result_ingest_dedup
ClearedAs(r, a, i) ==
    /\ a \in DbType
    /\ a.saga = r.saga /\ a.step = r.step /\ a.err = r.err /\ a.undo = r.undo
    /\ a.key = r.key /\ a.row = r.row /\ a.claim = r.claim
    /\ a.seen = r.seen \ Results(i)
    /\ \A e \in Events :
          a.event[e] = IF e \in Results(i) THEN "none" ELSE r.event[e]

\* ClearResults writes that, and nothing else.
LEMMA ClearFields ==
    ASSUME NEW r \in DbType, NEW i
    PROVE  ClearedAs(r, ClearResults(r, i), i)
  <1> DEFINE S == r.seen \ Results(i)
             f == Overwrite(r.event, Results(i), "none")
             t == [r EXCEPT !.seen = S, !.event = f]
  <1>1. r.event \in [Events -> OutboxStatus] /\ S \in SUBSET DedupKeys
    BY DEF DbType
  <1>2. f \in [Events -> OutboxStatus]
    BY <1>1, OverwriteType DEF OutboxStatus
  <1>3. \A e \in Events : f[e] = IF e \in Results(i) THEN "none" ELSE r.event[e]
    BY <1>1 DEF Overwrite
  <1>4. t = ClearResults(r, i)
    BY DEF ClearResults
  <1>5. S = r.seen \ Results(i)
    OBVIOUS
  <1> HIDE DEF S, f
  <1>6. /\ t \in DbType
        /\ t.seen = S /\ t.event = f
        /\ t.saga = r.saga /\ t.step = r.step /\ t.err = r.err
        /\ t.undo = r.undo /\ t.key = r.key /\ t.row = r.row
        /\ t.claim = r.claim
    BY <1>1, <1>2 DEF DbType
  <1> HIDE DEF t
  <1>7. QED
    BY <1>3, <1>4, <1>5, <1>6 DEF ClearedAs

\* A step starts again under a new key: its saga runs, its error and its
\* results are gone.
Renewed(tx, a, i) ==
    /\ a \in DbType
    /\ a.saga = "RUNNING"
    /\ a.step = tx.step /\ a.undo = tx.undo
    /\ a.err[i] = "none"
    /\ \A s \in Steps : s # i => a.err[s] = tx.err[s] /\ a.key[s] = tx.key[s]
    /\ a.key[i] = tx.key[i] + 1
    /\ a.row = tx.row
    /\ \A c \in Commands : a.claim[c] \in {tx.claim[c], "none"}
    /\ a.seen = tx.seen \ Results(i)
    /\ \A e \in Events :
          a.event[e] = IF e \in Results(i) THEN "none" ELSE tx.event[e]

\* Unless engines crash, forgetting the results of a step brings none back.
LEMMA RenewedIdle ==
    ASSUME NEW tx, Calm(tx), NEW H, NEW T, Idle(tx, H, T), HeldOnce(tx, H),
           RetryIsAsked(tx, H), "engine_crash" \notin Faults,
           NEW i \in Steps, Front(tx, i), NEW a, Renewed(tx, a, i)
    PROVE  /\ Calm(a) /\ Idle(a, H, T) /\ HeldOnce(a, H) /\ RetryIsAsked(a, H)
           /\ Front(a, i) /\ a.err[i] = "none"
  <1>1. Results(i) \subseteq ResultEvents
    BY DEF Results, ResultEvents
  <1>2. \A e \in ResultEvents : e \in H => e \notin Results(i)
    <2> SUFFICES ASSUME NEW e \in ResultEvents, e \in H, e \in Results(i)
                 PROVE  FALSE
      OBVIOUS
    <2>1. e \in tx.seen
      BY DEF Idle, NoResult, Due
    <2>2. QED
      BY <2>1 DEF HeldOnce
  <1>3. \A e \in ResultEvents : ~Due(a, H, e)
    <2> SUFFICES ASSUME NEW e \in ResultEvents, Due(a, H, e)
                 PROVE  FALSE
      OBVIOUS
    <2>1. e \in Events
      BY ResultTypes
    <2>2. CASE e \in Results(i)
      BY <1>2, <2>1, <2>2 DEF Due, Renewed
    <2>3. CASE e \notin Results(i)
      BY <2>1, <2>3 DEF Due, Renewed, Idle, NoResult
    <2>4. QED
      BY <2>2, <2>3
  <1>4. NoWork(a, T)
    BY DEF Idle, NoWork, AtWork, Renewed
  <1>5. HeldOnce(a, H)
    <2> SUFFICES ASSUME NEW e \in ResultEvents
                 PROVE  /\ e \in H => a.event[e] = "IN_PROGRESS"
                        /\ e \in a.seen => a.event[e] = "COMPLETED"
      BY DEF HeldOnce
    <2>1. e \in Events
      BY ResultTypes
    <2>2. CASE e \in Results(i)
      BY <1>2, <2>2 DEF Renewed
    <2>3. CASE e \notin Results(i)
      BY <2>1, <2>3 DEF Renewed, HeldOnce
    <2>4. QED
      BY <2>2, <2>3
  <1>6. RetryIsAsked(a, H)
    <2>1. \A e \in RetryEvents : e \in Events /\ e \notin Results(i)
      BY DEF RetryEvents, Results, Events
    <2>2. QED
      BY <2>1 DEF RetryIsAsked, Renewed
  <1>7. a.event[Completion] = "none"
    <2>1. Completion \in Events
      BY EventTypes DEF Completion
    <2>2. QED
      BY <2>1 DEF Renewed, Calm
  <1>8. Calm(a)
    BY <1>4, <1>7 DEF Calm, NoWork, AtWork, Renewed
  <1>9. Front(a, i) /\ a.err[i] = "none"
    BY DEF Front, NoUndo, Renewed
  <1>10. QED
    BY <1>3, <1>4, <1>5, <1>6, <1>8, <1>9 DEF Idle, NoResult

\* handle_hitl_retry gives the held step a new key.
RetryWrites(tx, i) ==
    [tx EXCEPT !.key[i] = @ + 1,
               !.err[i] = "none",
               !.retried[i] = @ + 1,
               !.claim[<<"fwd", i, tx.key[i]>>] = "none",
               !.saga = Resumed(@)]

\* It renews the step.
LEMMA HumanRetryRenews ==
    ASSUME NEW tx \in DbType, NEW i \in Steps, tx.key[i] < MaxKeys,
           tx.saga \in {"AWAITING_HUMAN", "RUNNING"}
    PROVE  Renewed(tx, ClearResults(RetryWrites(tx, i), i), i)
  <1> DEFINE c == <<"fwd", i, tx.key[i]>>
             fk == [tx.key EXCEPT ![i] = @ + 1]
             fe == [tx.err EXCEPT ![i] = "none"]
             fr == [tx.retried EXCEPT ![i] = @ + 1]
             fc == [tx.claim EXCEPT ![c] = "none"]
             r == [tx EXCEPT !.key = fk, !.err = fe, !.retried = fr,
                             !.claim = fc, !.saga = "RUNNING"]
  <1>1. tx.key[i] + 1 \in Keys
    BY BoundsAssumption DEF Keys, DbType
  <1>2. /\ fk \in [Steps -> Keys]
        /\ fk[i] = tx.key[i] + 1
        /\ \A s \in Steps : s # i => fk[s] = tx.key[s]
    BY <1>1 DEF DbType
  <1>3. /\ fe \in [Steps -> Errors \cup {"none"}]
        /\ fe[i] = "none"
        /\ \A s \in Steps : s # i => fe[s] = tx.err[s]
    BY DEF DbType
  <1>4. fr \in [Steps -> Nat]
    BY DEF DbType
  <1>5. c \in Commands
    BY DEF DbType, Commands
  <1>6. /\ fc \in [Commands -> ClaimStatus]
        /\ \A d \in Commands : fc[d] \in {tx.claim[d], "none"}
    <2> HIDE DEF c
    <2> QED BY <1>5 DEF DbType, ClaimStatus
  <1>7. Resumed(tx.saga) = "RUNNING"
    BY DEF Resumed
  <1>8. RetryWrites(tx, i) = r
    BY <1>7 DEF RetryWrites
  <1> HIDE DEF fk, fe, fr, fc
  <1>9. /\ r \in DbType
        /\ r.saga = "RUNNING" /\ r.step = tx.step /\ r.undo = tx.undo
        /\ r.err = fe /\ r.key = fk /\ r.claim = fc /\ r.row = tx.row
        /\ r.seen = tx.seen /\ r.event = tx.event
    BY <1>2, <1>3, <1>4, <1>6 DEF DbType, SagaStatus
  <1> HIDE DEF r
  <1>10. PICK a : a = ClearResults(r, i)
    OBVIOUS
  <1>11. ClearedAs(r, a, i)
    BY <1>9, <1>10, ClearFields
  <1>12. Renewed(tx, a, i)
    BY <1>2, <1>3, <1>6, <1>9, <1>11 DEF ClearedAs, Renewed
  <1>13. QED
    BY <1>8, <1>10, <1>12

\* So does retry-forward.
LEMMA RetryForwardRenews ==
    ASSUME NEW tx \in DbType, NEW i \in Steps, tx.key[i] < MaxKeys
    PROVE  Renewed(tx, SetSaga(Reset(tx, i), "RUNNING"), i)
  <1> DEFINE fk == [tx.key EXCEPT ![i] = @ + 1]
             fe == [tx.err EXCEPT ![i] = "none"]
             r == [tx EXCEPT !.key = fk, !.err = fe]
  <1>1. tx.key[i] + 1 \in Keys
    BY BoundsAssumption DEF Keys, DbType
  <1>2. /\ fk \in [Steps -> Keys]
        /\ fk[i] = tx.key[i] + 1
        /\ \A s \in Steps : s # i => fk[s] = tx.key[s]
    BY <1>1 DEF DbType
  <1>3. /\ fe \in [Steps -> Errors \cup {"none"}]
        /\ fe[i] = "none"
        /\ \A s \in Steps : s # i => fe[s] = tx.err[s]
    BY DEF DbType
  <1>4. Reset(tx, i) = ClearResults(r, i)
    BY DEF Reset
  <1> HIDE DEF fk, fe
  <1>5. /\ r \in DbType
        /\ r.step = tx.step /\ r.undo = tx.undo
        /\ r.err = fe /\ r.key = fk /\ r.claim = tx.claim /\ r.row = tx.row
        /\ r.seen = tx.seen /\ r.event = tx.event
    BY <1>2, <1>3 DEF DbType
  <1> HIDE DEF r
  <1>6. PICK b : b = ClearResults(r, i)
    OBVIOUS
  <1>7. ClearedAs(r, b, i)
    BY <1>5, <1>6, ClearFields
  <1>8. PICK a : a = SetSaga(b, "RUNNING")
    OBVIOUS
  <1>9. /\ a \in DbType
        /\ SameFlight(b, a)
        /\ a.saga = "RUNNING"
        /\ a.step = b.step /\ a.err = b.err /\ a.undo = b.undo
    BY <1>7, <1>8, SagaFields, StatusSets DEF ClearedAs
  <1>10. Renewed(tx, a, i)
    BY <1>2, <1>3, <1>5, <1>7, <1>9 DEF ClearedAs, Renewed, SameFlight
  <1>11. QED
    BY <1>4, <1>6, <1>8, <1>10

-----------------------------------------------------------------------------
(* The handlers preserve the invariant *)

\* handle_step_completed
LEMMA StepCompletedOrder ==
    ASSUME Inv, OrderInv, NEW i \in Steps, HandleStepCompleted(i)
    PROVE  OrderInv'
  <1> DEFINE e == <<"STEP_COMPLETED", i, 0>>
  <1>1. PICK tx \in Ingest(e) : \E t \in OnStepCompleted(tx, i) : Commit(t)
    BY DEF HandleStepCompleted
  <1>2. PICK t \in OnStepCompleted(tx, i) : Commit(t)
    BY <1>1
  <1>3. e \in ResultEvents /\ e \in Events /\ e[1] = "STEP_COMPLETED"
        /\ e[2] = i /\ e[3] = 0
    BY EventTypes DEF ResultEvents
  <1>4. /\ Fresh(e) /\ e \in handling /\ handling' = handling \ {e}
        /\ UNCHANGED <<manifest, taken>>
    BY DEF HandleStepCompleted, Fresh
  <1> HIDE DEF e
  <1>5. /\ Idle(tx, handling \ {e}, taken)
        /\ Open(tx, Source(tx, e))
        /\ Completion \notin handling \ {e}
        /\ Calm(tx)
    BY <1>3, <1>4, ResultOrder
  <1>6. tx.step[i] = "IN_PROGRESS"
    BY <1>3, <1>5 DEF Open, Source
  <1>7. Shape(tx)
    BY <1>3, <1>4, IngestOrder
  <1>8. Reached(tx, t)
    BY <1>5, <1>6, <1>7, OnStepCompletedReaches
  <1>9. QED
    BY <1>2, <1>3, <1>4, <1>5, <1>8, ReachedStep

\* handle_step_failed
LEMMA StepFailedOrder ==
    ASSUME Inv, OrderInv, NEW i \in Steps, HandleStepFailed(i)
    PROVE  OrderInv'
  <1> DEFINE e == <<"STEP_FAILED", i, 0>>
  <1>1. PICK tx \in Ingest(e), error \in Errors :
          \E t \in OnStepFailed(tx, i, error) : Commit(t)
    BY DEF HandleStepFailed
  <1>2. PICK t \in OnStepFailed(tx, i, error) : Commit(t)
    BY <1>1
  <1>3. e \in ResultEvents /\ e \in Events /\ e[2] = i /\ e[3] = 0
    BY EventTypes DEF ResultEvents
  <1>4. /\ Fresh(e) /\ e \in handling /\ handling' = handling \ {e}
        /\ UNCHANGED <<manifest, taken>>
    BY DEF HandleStepFailed, Fresh
  <1> HIDE DEF e
  <1>5. /\ Idle(tx, handling \ {e}, taken)
        /\ Open(tx, Source(tx, e))
        /\ Completion \notin handling \ {e}
        /\ Calm(tx)
    BY <1>3, <1>4, ResultOrder
  <1>6. tx.step[i] = "IN_PROGRESS"
    BY <1>3, <1>5 DEF Open, Source
  <1>7. Shape(tx)
    BY <1>3, <1>4, IngestOrder
  <1>8. Reached(tx, t)
    BY <1>5, <1>6, <1>7, OnStepFailedReaches
  <1>9. QED
    BY <1>2, <1>3, <1>4, <1>5, <1>8, ReachedStep

\* The undo that a fresh result of an undo row is about.
LEMMA UndoResult ==
    ASSUME Inv, OrderInv, NEW s \in Steps, NEW u \in Undos,
           NEW type \in {"STEP_COMPENSATED", "COMPENSATION_FAILED"},
           NEW e, e = <<type, s, u>>, Fresh(e), NEW tx \in Ingest(e)
    PROVE  /\ e \in Events /\ e \in handling
           /\ Idle(tx, handling \ {e}, taken)
           /\ Completion \notin handling \ {e}
           /\ Calm(tx) /\ Shape(tx)
           /\ tx.undo[s][u] = "COMPENSATING"
  <1>1. e \in ResultEvents /\ e \in Events /\ e[2] = s /\ e[3] = u /\ u # 0
    <2>1. u # 0
      BY BoundsAssumption DEF Undos
    <2>2. e \in {"STEP_COMPENSATED", "COMPENSATION_FAILED"} \X Steps \X Undos
      OBVIOUS
    <2>3. e \in Events
      BY <2>2 DEF Events, UndoEvents
    <2>4. e[2] = s /\ e[3] = u
      OBVIOUS
    <2>5. QED
      BY <2>1, <2>2, <2>3, <2>4 DEF ResultEvents
  <1>2. e \in handling
    BY DEF Fresh
  <1>3. /\ Idle(tx, handling \ {e}, taken)
        /\ Open(tx, Source(tx, e))
        /\ Completion \notin handling \ {e}
        /\ Calm(tx)
    BY <1>1, ResultOrder
  <1>4. tx.undo[s][u] = "COMPENSATING"
    BY <1>1, <1>3 DEF Open, Source
  <1>5. Shape(tx)
    BY <1>1, <1>2, IngestOrder
  <1>6. QED
    BY <1>1, <1>2, <1>3, <1>4, <1>5

\* handle_step_compensated, handle_compensation_failed, and the result of an
\* undo that is taken for the result of a step
LEMMA HandleUndoOrder ==
    ASSUME Inv, OrderInv, NEW s \in Steps, NEW u \in Undos, HandleUndo(s, u)
    PROVE  OrderInv'
  <1>1. CASE HandleStepCompensated(s, u)
    <2>1. PICK e : e = <<"STEP_COMPENSATED", s, u>>
      OBVIOUS
    <2>2. PICK tx \in Ingest(e) : \E t \in OnStepCompensated(tx, s, u) : Commit(t)
      BY <1>1, <2>1 DEF HandleStepCompensated
    <2>3. PICK t \in OnStepCompensated(tx, s, u) : Commit(t)
      BY <2>2
    <2>4. /\ Fresh(e) /\ handling' = handling \ {e}
          /\ UNCHANGED <<manifest, taken>>
      BY <1>1, <2>1 DEF HandleStepCompensated, Fresh
    <2>5. /\ e \in Events /\ e \in handling
          /\ Idle(tx, handling \ {e}, taken)
          /\ Completion \notin handling \ {e}
          /\ Calm(tx) /\ Shape(tx)
          /\ tx.undo[s][u] = "COMPENSATING"
      BY <2>1, <2>4, UndoResult
    <2>6. Reached(tx, t)
      BY <2>3, <2>5, OnStepCompensatedReaches
    <2>7. QED
      BY <2>3, <2>4, <2>5, <2>6, ReachedStep
  <1>2. CASE HandleCompensationFailed(s, u)
    <2>1. PICK e : e = <<"COMPENSATION_FAILED", s, u>>
      OBVIOUS
    <2>2. PICK tx \in Ingest(e) :
            \E t \in OnCompensationFailed(tx, s, u) : Commit(t)
      BY <1>2, <2>1 DEF HandleCompensationFailed
    <2>3. PICK t \in OnCompensationFailed(tx, s, u) : Commit(t)
      BY <2>2
    <2>4. /\ Fresh(e) /\ handling' = handling \ {e}
          /\ UNCHANGED <<manifest, taken>>
      BY <1>2, <2>1 DEF HandleCompensationFailed, Fresh
    <2>5. /\ e \in Events /\ e \in handling
          /\ Idle(tx, handling \ {e}, taken)
          /\ Completion \notin handling \ {e}
          /\ Calm(tx) /\ Shape(tx)
          /\ tx.undo[s][u] = "COMPENSATING"
      BY <2>1, <2>4, UndoResult
    <2>6. Reached(tx, t)
      BY <2>3, <2>5, OnCompensationFailedReaches
    <2>7. QED
      BY <2>3, <2>4, <2>5, <2>6, ReachedStep
  <1>3. CASE HandleUndoReportedAsStep(s, u)
    <2>1. PICK e : e = <<"STEP_FAILED", s, u>>
      OBVIOUS
    <2>2. PICK tx \in Ingest(e) : Commit(tx)
      BY <1>3, <2>1 DEF HandleUndoReportedAsStep
    <2>3. /\ e \in handling /\ handling' = handling \ {e}
          /\ UNCHANGED <<manifest, taken>>
      BY <1>3, <2>1 DEF HandleUndoReportedAsStep, Fresh
    <2>4. e \in Events
      BY <2>1, EventTypes
    <2>5. QED
      BY <2>2, <2>3, <2>4, IgnoredStep
  <1>4. QED
    BY <1>1, <1>2, <1>3 DEF HandleUndo

\* A decision on a held step finds the saga held, and nothing on the way.
LEMMA HeldOrder ==
    ASSUME Inv, OrderInv, NEW i \in Steps, NEW e \in Events, Fresh(e),
           NEW tx \in Ingest(e), tx.step[i] = "AWAITING_HUMAN"
    PROVE  /\ Idle(tx, handling \ {e}, taken)
           /\ Completion \notin handling \ {e}
           /\ Calm(tx) /\ Shape(tx)
           /\ saga = "AWAITING_HUMAN" /\ Front(tx, i)
  <1>1. e \in handling
    BY DEF Fresh
  <1>2. tx \in DbType /\ Shape(tx) /\ tx.saga = saga
    BY <1>1, IngestOrder
  <1>3. saga = "AWAITING_HUMAN" /\ Front(tx, i)
    BY <1>2, WhereActive
  <1>4. QED
    BY <1>1, <1>2, <1>3, QuietOrder

\* handle_hitl_approved
LEMMA HumanApprovedOrder ==
    ASSUME Inv, OrderInv, NEW i \in Steps, HandleHumanApproved(i)
    PROVE  OrderInv'
  <1>1. PICK e : e = <<"HUMAN_APPROVED", i, 0>>
    OBVIOUS
  <1>2. PICK tx \in Ingest(e) : \E t \in OnHumanApproved(tx, i) : Commit(t)
    BY <1>1 DEF HandleHumanApproved
  <1>3. PICK t \in OnHumanApproved(tx, i) : Commit(t)
    BY <1>2
  <1>4. /\ Fresh(e) /\ e \in handling /\ handling' = handling \ {e}
        /\ UNCHANGED <<manifest, taken>>
    BY <1>1 DEF HandleHumanApproved, Fresh
  <1>5. e \in Events
    BY <1>1, EventTypes
  <1>6. CASE tx.step[i] # "AWAITING_HUMAN"
    <2>1. t = tx
      BY <1>6 DEF OnHumanApproved
    <2>2. QED
      BY <1>3, <1>4, <1>5, <2>1, IgnoredStep
  <1>7. CASE tx.step[i] = "AWAITING_HUMAN"
    <2>1. /\ Idle(tx, handling \ {e}, taken)
          /\ Completion \notin handling \ {e}
          /\ Calm(tx) /\ Shape(tx)
      BY <1>4, <1>5, <1>7, HeldOrder
    <2>2. Reached(tx, t)
      BY <1>3, <1>7, <2>1, OnHumanApprovedReaches
    <2>3. QED
      BY <1>3, <1>4, <1>5, <2>1, <2>2, ReachedStep
  <1>8. QED
    BY <1>6, <1>7

\* handle_hitl_rejected
LEMMA HumanRejectedOrder ==
    ASSUME Inv, OrderInv, NEW i \in Steps, HandleHumanRejected(i)
    PROVE  OrderInv'
  <1>1. PICK e : e = <<"HUMAN_REJECTED", i, 0>>
    OBVIOUS
  <1>2. PICK tx \in Ingest(e), error \in Errors :
          \E t \in OnHumanRejected(tx, i, error) : Commit(t)
    BY <1>1 DEF HandleHumanRejected
  <1>3. PICK t \in OnHumanRejected(tx, i, error) : Commit(t)
    BY <1>2
  <1>4. /\ Fresh(e) /\ e \in handling /\ handling' = handling \ {e}
        /\ UNCHANGED <<manifest, taken>>
    BY <1>1 DEF HandleHumanRejected, Fresh
  <1>5. e \in Events
    BY <1>1, EventTypes
  <1>6. CASE tx.step[i] # "AWAITING_HUMAN"
    <2>1. t = tx
      BY <1>6 DEF OnHumanRejected
    <2>2. QED
      BY <1>3, <1>4, <1>5, <2>1, IgnoredStep
  <1>7. CASE tx.step[i] = "AWAITING_HUMAN"
    <2>1. /\ Idle(tx, handling \ {e}, taken)
          /\ Completion \notin handling \ {e}
          /\ Calm(tx) /\ Shape(tx)
      BY <1>4, <1>5, <1>7, HeldOrder
    <2>2. Reached(tx, t)
      BY <1>3, <1>7, <2>1, OnHumanRejectedReaches
    <2>3. QED
      BY <1>3, <1>4, <1>5, <2>1, <2>2, ReachedStep
  <1>8. QED
    BY <1>6, <1>7

\* handle_hitl_retry, which Orderly allows where engines do not crash
LEMMA HumanRetryOrder ==
    ASSUME Orderly, Inv, OrderInv, NEW i \in Steps, NEW a \in Asks,
           HandleHumanRetry(i, a)
    PROVE  OrderInv'
  <1>1. PICK e : e = <<"HUMAN_RETRY", i, a>>
    OBVIOUS
  <1>2. PICK tx \in Ingest(e) : \E t \in OnHumanRetry(tx, i) : Commit(t)
    BY <1>1 DEF HandleHumanRetry
  <1>3. PICK t \in OnHumanRetry(tx, i) : Commit(t)
    BY <1>2
  <1>4. /\ Fresh(e) /\ e \in handling /\ handling' = handling \ {e}
        /\ UNCHANGED <<manifest, taken>>
    BY <1>1 DEF HandleHumanRetry, Fresh
  <1>5. e \in Events /\ e \in RetryEvents
    BY <1>1, EventTypes DEF RetryEvents
  <1>6. CASE ~RetryAllowed(tx, i)
    <2>1. t = tx
      BY <1>6 DEF OnHumanRetry
    <2>2. QED
      BY <1>3, <1>4, <1>5, <2>1, IgnoredStep
  <1>7. CASE RetryAllowed(tx, i)
    <2>1. "hitl_retry" \in Ops
      BY <1>4, <1>5 DEF OrderInv, Flight, RetryIsAsked
    <2>2. "engine_crash" \notin Faults
      BY <2>1 DEF Orderly
    <2>3. tx.step[i] = "AWAITING_HUMAN" /\ tx.saga \in {"AWAITING_HUMAN", "RUNNING"}
      BY <1>7 DEF RetryAllowed
    <2>4. /\ Idle(tx, handling \ {e}, taken)
          /\ Completion \notin handling \ {e}
          /\ Calm(tx) /\ Shape(tx)
          /\ Front(tx, i)
      BY <1>4, <1>5, <2>3, HeldOrder
    <2>5. /\ tx \in DbType
          /\ HeldOnce(tx, handling \ {e}) /\ RetryIsAsked(tx, handling \ {e})
      BY <1>4, <1>5, IngestOrder DEF Flight
    <2>6. tx.key[i] < MaxKeys
      <3>1. /\ Sound(tx, approved)
            /\ tx.step = step /\ tx.key = key /\ tx.saga = saga
            /\ tx.retried = retried
        BY <1>5, IngestSound
      <3>2. RetryAllowed(Db, i)
        BY <1>7, <3>1 DEF RetryAllowed, Db
      <3>3. QED
        BY <3>1, <3>2 DEF HandleHumanRetry
    <2>7. PICK r : r = ClearResults(RetryWrites(tx, i), i)
      OBVIOUS
    <2>8. Renewed(tx, r, i)
      BY <2>3, <2>5, <2>6, <2>7, HumanRetryRenews
    <2>9. /\ Calm(r) /\ Idle(r, handling \ {e}, taken)
          /\ HeldOnce(r, handling \ {e}) /\ RetryIsAsked(r, handling \ {e})
          /\ Front(r, i) /\ r.err[i] = "none"
      BY <2>2, <2>4, <2>5, <2>8, RenewedIdle
    <2>10. r.saga = "RUNNING" /\ r.step[i] = "AWAITING_HUMAN"
      BY <2>3, <2>8 DEF Renewed
    <2>11. t \in Trigger(r, i, {"IN_PROGRESS", "AWAITING_HUMAN"})
      BY <1>3, <1>7, <2>7 DEF OnHumanRetry, RetryWrites
    <2>12. Reached(r, t)
      BY <2>9, <2>10, <2>11, TriggerReaches
    <2>13. Flight(t, handling \ {e}, taken)
      BY <2>4, <2>9, <2>12, ReachedFlight
    <2>14. t \in DbType /\ Shape(t)
      BY <2>12 DEF Reached, Framed
    <2>15. QED
      BY <1>3, <1>4, <2>13, <2>14, CommitOrder
  <1>8. QED
    BY <1>6, <1>7

\* handle_saga_started
LEMMA SagaStartedOrder ==
    ASSUME Inv, OrderInv, HandleSagaStarted
    PROVE  OrderInv'
  <1>1. PICK e : e = <<"SAGA_STARTED", 0, 0>>
    OBVIOUS
  <1>2. PICK tx \in Ingest(e) : \E t \in OnSagaStarted(tx) : Commit(t)
    BY <1>1 DEF HandleSagaStarted
  <1>3. PICK t \in OnSagaStarted(tx) : Commit(t)
    BY <1>2
  <1>4. /\ e \in handling /\ handling' = handling \ {e}
        /\ UNCHANGED <<manifest, taken>>
    BY <1>1 DEF HandleSagaStarted, Fresh
  <1>5. e \in Events
    BY <1>1, EventTypes
  <1>6. CASE tx.saga # "PENDING"
    <2>1. t = tx
      BY <1>6 DEF OnSagaStarted
    <2>2. QED
      BY <1>3, <1>4, <1>5, <2>1, IgnoredStep
  <1>7. CASE tx.saga = "PENDING"
    <2>1. saga = "PENDING" /\ Shape(tx)
      BY <1>4, <1>5, <1>7, IngestOrder
    <2>2. /\ Idle(tx, handling \ {e}, taken)
          /\ Completion \notin handling \ {e}
          /\ Calm(tx)
      BY <1>4, <1>5, <2>1, QuietOrder
    <2>3. Reached(tx, t)
      BY <1>3, <1>7, <2>1, <2>2, OnSagaStartedReaches
    <2>4. QED
      BY <1>3, <1>4, <1>5, <2>2, <2>3, ReachedStep
  <1>8. QED
    BY <1>6, <1>7

\* handle_saga_completion, for the notice that came back: the saga is
\* COMPLETED already
LEMMA SagaCompletedOrder ==
    ASSUME Inv, OrderInv, HandleSagaCompleted
    PROVE  OrderInv'
  <1>1. PICK e : e = <<"SAGA_COMPLETED", 0, 0>>
    OBVIOUS
  <1>2. PICK tx \in Ingest(e) : Commit(CompleteSaga(tx))
    BY <1>1 DEF HandleSagaCompleted
  <1>3. /\ e \in handling /\ handling' = handling \ {e}
        /\ UNCHANGED <<manifest, taken>>
    BY <1>1 DEF HandleSagaCompleted, Fresh
  <1>4. e \in Events
    BY <1>1, EventTypes
  <1>5. saga = "COMPLETED"
    BY <1>1, <1>3 DEF OrderInv, Flight, Shape, Db, Completion
  <1>6. CompleteSaga(tx) = tx
    BY <1>3, <1>4, <1>5, IngestOrder DEF CompleteSaga
  <1>7. QED
    BY <1>2, <1>3, <1>4, <1>6, IgnoredStep

\* The other notices that come back, and events that were ingested before
LEMMA IdleHandlerOrder ==
    ASSUME Inv, OrderInv
    PROVE  /\ \A type \in {"SAGA_FAILED", "SAGA_COMPENSATED"} :
                 HandleNotice(type) => OrderInv'
           /\ \A e \in Events : HandleDuplicate(e) => OrderInv'
  <1>1. ASSUME NEW type \in {"SAGA_FAILED", "SAGA_COMPENSATED"},
               HandleNotice(type)
        PROVE  OrderInv'
    <2>1. PICK e : e = <<type, 0, 0>>
      OBVIOUS
    <2>2. PICK tx \in Ingest(e) : Commit(tx)
      BY <1>1, <2>1 DEF HandleNotice
    <2>3. /\ e \in handling /\ handling' = handling \ {e}
          /\ UNCHANGED <<manifest, taken>>
      BY <1>1, <2>1 DEF HandleNotice, Fresh
    <2>4. e \in Events
      BY <2>1, EventTypes
    <2>5. QED
      BY <2>2, <2>3, <2>4, IgnoredStep
  <1>2. ASSUME NEW e \in Events, HandleDuplicate(e)
        PROVE  OrderInv'
    <2>1. PICK tx \in Ingest(e) : Commit(tx)
      BY <1>2 DEF HandleDuplicate
    <2>2. /\ e \in handling /\ handling' = handling \ {e}
          /\ UNCHANGED <<manifest, taken>>
      BY <1>2 DEF HandleDuplicate, workers
    <2>3. QED
      BY <2>1, <2>2, IgnoredStep
  <1>3. QED
    BY <1>1, <1>2

-----------------------------------------------------------------------------
(* The other steps: rows and processes, one at a time *)

\* A consumer, a reaper or a reviewer changes the status of one event row and
\* what engines hold of it.
LEMMA EventOrder ==
    ASSUME Inv, OrderInv, NEW e \in Events, NEW s \in OutboxStatus, NEW H,
           event' = [event EXCEPT ![e] = s],
           handling' = H, H \subseteq handling \cup {e},
           UNCHANGED <<manifest, saga, step, err, key, retried, undo, row,
                       claim, seen, taken>>,
           s # "none" /\ event[e] = "none" =>
               /\ e \notin ResultEvents /\ e # Completion
               /\ e \in RetryEvents => "hitl_retry" \in Ops,
           e \in H => \/ s # "none"
                      \/ e \in handling /\ event[e] = "none",
           e \in ResultEvents /\ (s \in {"PENDING", "IN_PROGRESS"} \/ e \in H) =>
               event[e] \in {"PENDING", "IN_PROGRESS"} \/ e \in handling,
           "engine_crash" \notin Faults /\ e \in ResultEvents =>
               /\ e \in H => s = "IN_PROGRESS"
               /\ event[e] = "COMPLETED" => s = "COMPLETED"
    PROVE  OrderInv'
  <1> DEFINE f == [event EXCEPT ![e] = s]
             t == [Db EXCEPT !.event = f]
  <1>1. /\ Db \in DbType /\ event \in [Events -> OutboxStatus]
        /\ handling \subseteq Events
    BY InvParts DEF Rest
  <1>2. /\ f \in [Events -> OutboxStatus]
        /\ f[e] = s
        /\ \A g \in Events : g # e => f[g] = event[g]
    BY <1>1
  <1>3. event' = f
    OBVIOUS
  <1> HIDE DEF f
  <1>4. /\ t \in DbType /\ t.event = f
        /\ t.saga = Db.saga /\ t.step = Db.step /\ t.err = Db.err
        /\ t.key = Db.key /\ t.undo = Db.undo /\ t.row = Db.row
        /\ t.claim = Db.claim /\ t.seen = Db.seen
    BY <1>1, <1>2 DEF DbType
  <1>5. Commit(t)
    BY <1>3 DEF Commit, Db
  <1>6. Db.event = event /\ Db.seen = seen
    BY DEF Db
  <1> HIDE DEF t
  <1>7. /\ Shape(Db) /\ Flight(Db, handling, taken)
        /\ Completion \in Events
    BY EventTypes DEF OrderInv, Completion
  <1>8. t.event[Completion] # "none" => Db.event[Completion] # "none"
    BY <1>2, <1>4, <1>6, <1>7
  <1>9. Shape(t)
    BY <1>4, <1>7, <1>8, SameShape
  <1>10. \A c \in Commands : /\ AtWork(t, taken, c) <=> AtWork(Db, taken, c)
                             /\ Open(t, c) <=> Open(Db, c)
    BY <1>4 DEF AtWork, Open
  <1>11. WorkIsOpen(t, taken)
    BY <1>4, <1>7, <1>10 DEF Flight, WorkIsOpen
  <1>12. \A g \in ResultEvents : Due(t, H, g) => Due(Db, handling, g)
    BY <1>2, <1>4, <1>6, ResultTypes DEF Due
  <1>13. \A g \in ResultEvents : /\ Source(t, g) = Source(Db, g)
                                 /\ Open(t, Source(t, g)) <=> Open(Db, Source(Db, g))
    BY <1>4 DEF Source, Open
  <1>14. NoWork(Db, taken) => NoWork(t, taken)
    BY <1>10 DEF NoWork
  <1>15. ResultIsOpen(t, H, taken)
    BY <1>7, <1>12, <1>13, <1>14 DEF Flight, ResultIsOpen
  <1>16. HeldOnce(t, H)
    <2> SUFFICES ASSUME "engine_crash" \notin Faults, NEW g \in ResultEvents
                 PROVE  /\ g \in H => t.event[g] = "IN_PROGRESS"
                        /\ g \in t.seen => t.event[g] = "COMPLETED"
      BY DEF HeldOnce
    <2>1. /\ g \in handling => event[g] = "IN_PROGRESS"
          /\ g \in seen => event[g] = "COMPLETED"
      BY <1>6, <1>7 DEF Flight, HeldOnce
    <2>2. QED
      BY <1>2, <1>4, <1>6, <2>1, ResultTypes
  <1>17. RetryIsAsked(t, H)
    <2> SUFFICES ASSUME "hitl_retry" \notin Ops, NEW g \in RetryEvents
                 PROVE  t.event[g] = "none" /\ g \notin H
      BY DEF RetryIsAsked
    <2>1. event[g] = "none" /\ g \notin handling
      BY <1>6, <1>7 DEF Flight, RetryIsAsked
    <2>2. g \in Events
      BY DEF Events
    <2>3. QED
      BY <1>2, <1>4, <2>1, <2>2
  <1>18. Completion \in H => t.event[Completion] # "none"
    <2>1. Completion \in handling => event[Completion] # "none"
      BY <1>6, <1>7 DEF Flight
    <2>2. CASE e = Completion
      BY <1>2, <1>4, <2>1, <2>2
    <2>3. CASE e # Completion
      BY <1>2, <1>4, <1>7, <2>1, <2>3
    <2>4. QED
      BY <2>2, <2>3
  <1>19. Flight(t, H, taken)
    BY <1>11, <1>15, <1>16, <1>17, <1>18 DEF Flight
  <1>20. QED
    BY <1>4, <1>5, <1>9, <1>19, CommitOrder

\* _poll_and_dispatch
LEMMA PollOrder ==
    ASSUME Inv, OrderInv, NEW e \in Events, PollEvent(e)
    PROVE  OrderInv'
  <1>1. /\ event[e] = "PENDING" /\ e \notin handling
        /\ event' = [event EXCEPT ![e] = "IN_PROGRESS"]
        /\ handling' = handling \cup {e}
        /\ UNCHANGED <<manifest, saga, step, err, key, retried, undo, row,
                       claim, seen, taken>>
    BY DEF PollEvent, workers
  <1>2. "IN_PROGRESS" \in OutboxStatus
    BY DEF OutboxStatus
  <1>3. PICK H : H = handling \cup {e}
    OBVIOUS
  <1>4. QED
    BY <1>1, <1>2, <1>3, EventOrder

\* A handler that raises, and the reaper of event rows
LEMMA EventFaultOrder ==
    ASSUME Inv, OrderInv, NEW e \in Events, HandlerRaises(e) \/ ReapEvent(e)
    PROVE  OrderInv'
  <1>1. event \in [Events -> OutboxStatus]
    BY InvParts
  <1>2. CASE HandlerRaises(e)
    <2>1. /\ e \in handling /\ handling' = handling \ {e}
          /\ event' = IF event[e] = "IN_PROGRESS"
                      THEN [event EXCEPT ![e] = "FAILED"] ELSE event
          /\ UNCHANGED <<manifest, saga, step, err, key, retried, undo, row,
                         claim, seen, taken>>
      BY <1>2 DEF HandlerRaises, workers
    <2>2. PICK s : s = IF event[e] = "IN_PROGRESS" THEN "FAILED" ELSE event[e]
      OBVIOUS
    <2>3. s \in OutboxStatus
      BY <1>1, <2>2 DEF OutboxStatus
    <2>4. event' = [event EXCEPT ![e] = s]
      BY <1>1, <2>1, <2>2
    <2>5. PICK H : H = handling \ {e}
      OBVIOUS
    <2>6. /\ s # "none" => event[e] # "none"
          /\ event[e] = "COMPLETED" => s = "COMPLETED"
      BY <2>2
    <2>7. /\ handling' = H /\ H \subseteq handling \cup {e} /\ e \notin H
          /\ e \in handling
          /\ UNCHANGED <<manifest, saga, step, err, key, retried, undo, row,
                         claim, seen, taken>>
      BY <2>1, <2>5
    <2>8. QED
      BY <2>3, <2>4, <2>6, <2>7, EventOrder
  <1>3. CASE ReapEvent(e)
    <2>1. /\ "engine_crash" \in Faults
          /\ event[e] = "IN_PROGRESS"
          /\ event' = [event EXCEPT ![e] = "PENDING"]
          /\ UNCHANGED <<manifest, saga, step, err, key, retried, undo, row,
                         claim, seen, handling, taken>>
      BY <1>3 DEF ReapEvent, workers
    <2>2. "PENDING" \in OutboxStatus
      BY DEF OutboxStatus
    <2>3. QED
      BY <2>1, <2>2, EventOrder
  <1>4. QED
    BY <1>2, <1>3

\* A reviewer queues a row that is no result.
LEMMA AskedOrder ==
    ASSUME Inv, OrderInv, NEW e \in Events, e \notin ResultEvents, e # Completion,
           e \in RetryEvents => "hitl_retry" \in Ops,
           event' = [event EXCEPT ![e] = "PENDING"],
           UNCHANGED <<manifest, saga, step, err, key, retried, undo, row,
                       claim, seen, handling, taken>>
    PROVE  OrderInv'
  <1>1. "PENDING" \in OutboxStatus
    BY DEF OutboxStatus
  <1>2. QED
    BY <1>1, EventOrder

\* Every request of a reviewer preserves the invariant.
LEMMA ReviewerOrder ==
    ASSUME Inv, OrderInv, Reviewer
    PROVE  OrderInv'
  <1>1. ASSUME NEW i \in Steps, NEW d \in Decisions, Decide(i, d) \/ DecideAgain(i, d)
        PROVE  OrderInv'
    <2>1. PICK e : e = <<d, i, 0>>
      OBVIOUS
    <2>2. /\ event' = [event EXCEPT ![e] = "PENDING"]
          /\ UNCHANGED <<manifest, saga, step, err, key, retried, undo, row,
                         claim, seen, handling, taken>>
      BY <1>1, <2>1 DEF Decide, DecideAgain, workers
    <2>3. e \in Events /\ e[1] \in Decisions
      BY <2>1, EventTypes DEF Decisions
    <2>4. e \notin ResultEvents /\ e # Completion /\ e \notin RetryEvents
      BY <2>3 DEF Decisions, ResultEvents, RetryEvents, Completion
    <2>5. QED
      BY <2>2, <2>3, <2>4, AskedOrder
  <1>2. ASSUME NEW i \in Steps, NEW a \in Asks, AskRetry(i, a)
        PROVE  OrderInv'
    <2>1. PICK e : e = <<"HUMAN_RETRY", i, a>>
      OBVIOUS
    <2>2. /\ event' = [event EXCEPT ![e] = "PENDING"]
          /\ "hitl_retry" \in Ops
          /\ UNCHANGED <<manifest, saga, step, err, key, retried, undo, row,
                         claim, seen, handling, taken>>
      BY <1>2, <2>1 DEF AskRetry, workers
    <2>3. e \in Events /\ e[1] = "HUMAN_RETRY"
      BY <2>1, EventTypes
    <2>4. e \notin ResultEvents /\ e # Completion
      BY <2>3 DEF ResultEvents, Completion
    <2>5. QED
      BY <2>2, <2>3, <2>4, AskedOrder
  <1>3. QED
    BY <1>1, <1>2 DEF Reviewer

\* Every step of the engine's consumer preserves the invariant.
LEMMA EngineOrder ==
    ASSUME Orderly, Inv, OrderInv, Engine
    PROVE  OrderInv'
  <1>1. ASSUME NEW i \in Steps, HandleStep(i)
        PROVE  OrderInv'
    BY <1>1, StepCompletedOrder, StepFailedOrder, HumanApprovedOrder,
       HumanRejectedOrder, HumanRetryOrder DEF HandleStep
  <1>2. QED
    BY <1>1, PollOrder, IdleHandlerOrder, SagaStartedOrder, SagaCompletedOrder,
       HandleUndoOrder DEF Engine

\* Forgetting what engines hold, where they may crash, and a step that
\* changes nothing
LEMMA ForgetOrder ==
    ASSUME Inv, OrderInv, UNCHANGED <<manifest, tables, taken>>,
           handling' = handling \/ EngineCrash
    PROVE  OrderInv'
  <1>1. Db \in DbType /\ Commit(Db)
    BY InvParts DEF Commit, Db, tables
  <1>2. PICK d : d = Db
    OBVIOUS
  <1>3. Shape(d) /\ Flight(d, handling, taken)
    BY <1>2 DEF OrderInv
  <1>4. CASE handling' = handling
    BY <1>1, <1>2, <1>3, <1>4, CommitOrder
  <1>5. CASE EngineCrash
    <2>1. "engine_crash" \in Faults /\ handling' = {}
      BY <1>5 DEF EngineCrash
    <2>2. \A e \in ResultEvents : Due(d, {}, e) => Due(d, handling, e)
      BY DEF Due
    <2>3. ResultIsOpen(d, {}, taken)
      BY <1>3, <2>2 DEF Flight, ResultIsOpen
    <2>4. HeldOnce(d, {}) /\ RetryIsAsked(d, {})
      BY <1>3, <2>1 DEF Flight, HeldOnce, RetryIsAsked
    <2>5. Flight(d, {}, taken)
      BY <1>3, <2>3, <2>4 DEF Flight
    <2>6. QED
      BY <1>1, <1>2, <1>3, <2>1, <2>5, CommitOrder
  <1>6. QED
    BY <1>4, <1>5

-----------------------------------------------------------------------------
(* Workers *)

\* A worker changes the row of one command, its claim, or what workers hold of
\* it, and none of that puts a command to work.
LEMMA WorkOrder ==
    ASSUME Inv, OrderInv, NEW c \in Commands, NEW r \in OutboxStatus,
           NEW m \in ClaimStatus, NEW T,
           row' = [row EXCEPT ![c] = r], claim' = [claim EXCEPT ![c] = m],
           taken' = T, T \ {c} = taken \ {c},
           UNCHANGED <<manifest, saga, step, err, key, retried, undo, event,
                       seen, handling>>,
           r \in {"PENDING", "IN_PROGRESS"} \/ m = "held" \/ c \in T =>
               AtWork(Db, taken, c),
           m = "held" \/ c \in T => r # "PENDING",
           m = "held" => c \notin T
    PROVE  OrderInv'
  <1> DEFINE fr == [row EXCEPT ![c] = r]
             fc == [claim EXCEPT ![c] = m]
             t == [Db EXCEPT !.row = fr, !.claim = fc]
  <1>1. /\ Db \in DbType /\ row \in [Commands -> OutboxStatus]
        /\ claim \in [Commands -> ClaimStatus]
    BY InvParts
  <1>2. /\ fr \in [Commands -> OutboxStatus]
        /\ fr[c] = r
        /\ \A d \in Commands : d # c => fr[d] = row[d]
    BY <1>1
  <1>3. /\ fc \in [Commands -> ClaimStatus]
        /\ fc[c] = m
        /\ \A d \in Commands : d # c => fc[d] = claim[d]
    BY <1>1
  <1>4. row' = fr /\ claim' = fc
    OBVIOUS
  <1> HIDE DEF fr, fc
  <1>5. /\ t \in DbType /\ t.row = fr /\ t.claim = fc
        /\ t.saga = Db.saga /\ t.step = Db.step /\ t.err = Db.err
        /\ t.key = Db.key /\ t.undo = Db.undo /\ t.event = Db.event
        /\ t.seen = Db.seen
    BY <1>1, <1>2, <1>3 DEF DbType
  <1>6. Commit(t)
    BY <1>4 DEF Commit, Db
  <1>7. Db.row = row /\ Db.claim = claim
    BY DEF Db
  <1> HIDE DEF t
  <1>8. Shape(Db) /\ Flight(Db, handling, taken)
    BY DEF OrderInv
  <1>9. Shape(t)
    BY <1>5, <1>8, SameShape
  <1>10. \A d \in Commands : d # c => (d \in T <=> d \in taken)
    OBVIOUS
  <1>11. \A d \in Commands : AtWork(t, T, d) => AtWork(Db, taken, d)
    <2> SUFFICES ASSUME NEW d \in Commands, AtWork(t, T, d)
                 PROVE  AtWork(Db, taken, d)
      OBVIOUS
    <2>1. CASE d = c
      BY <1>2, <1>3, <1>5, <2>1 DEF AtWork
    <2>2. CASE d # c
      BY <1>2, <1>3, <1>5, <1>7, <1>10, <2>2 DEF AtWork
    <2>3. QED
      BY <2>1, <2>2
  <1>12. \A d \in Commands : Open(t, d) <=> Open(Db, d)
    BY <1>5 DEF Open
  <1>13. WorkIsOpen(t, T)
    <2> SUFFICES ASSUME NEW d \in Commands
                 PROVE  /\ AtWork(t, T, d) => Open(t, d)
                        /\ t.claim[d] = "held" \/ d \in T => t.row[d] # "PENDING"
                        /\ t.claim[d] = "held" => d \notin T
      BY DEF WorkIsOpen
    <2>1. AtWork(t, T, d) => Open(t, d)
      BY <1>8, <1>11, <1>12 DEF Flight, WorkIsOpen
    <2>2. CASE d = c
      BY <1>2, <1>3, <1>5, <2>1, <2>2
    <2>3. CASE d # c
      BY <1>2, <1>3, <1>5, <1>7, <1>8, <1>10, <2>1, <2>3 DEF Flight, WorkIsOpen
    <2>4. QED
      BY <2>2, <2>3
  <1>14. \A g \in ResultEvents : /\ Due(t, handling, g) <=> Due(Db, handling, g)
                                 /\ Source(t, g) = Source(Db, g)
                                 /\ Open(t, Source(t, g)) <=> Open(Db, Source(Db, g))
    BY <1>5 DEF Due, Source, Open
  <1>15. NoWork(Db, taken) => NoWork(t, T)
    BY <1>11 DEF NoWork
  <1>16. ResultIsOpen(t, handling, T)
    BY <1>8, <1>14, <1>15 DEF Flight, ResultIsOpen
  <1>17. HeldOnce(t, handling) /\ RetryIsAsked(t, handling)
         /\ (Completion \in handling => t.event[Completion] # "none")
    BY <1>5, <1>8 DEF Flight, HeldOnce, RetryIsAsked
  <1>18. Flight(t, handling, T)
    BY <1>13, <1>16, <1>17 DEF Flight
  <1>19. QED
    BY <1>5, <1>6, <1>9, <1>18, CommitOrder

\* A result is published for the open command, and its claim and its row are
\* settled: nothing is at work any more, and the result is the only one.
LEMMA ReportOrder ==
    ASSUME Orderly, Inv, OrderInv, NEW c \in Commands, NEW e \in Events,
           NEW mark \in {"none", "emitted"}, Report(c, e, mark),
           e # Completion, e \notin RetryEvents,
           e \in ResultEvents => e[2] = c[2] /\ e[3] = IF c[1] = "fwd" THEN 0 ELSE c[3],
           c[1] # "fwd" => c[3] # 0,
           c = <<c[1], c[2], c[3]>>, c[1] \in {"fwd", "undo"}
    PROVE  OrderInv'
  <1>1. /\ Db \in DbType /\ row \in [Commands -> OutboxStatus]
        /\ claim \in [Commands -> ClaimStatus]
        /\ event \in [Events -> OutboxStatus]
    BY InvParts
  <1>2. claim[c] = "held" /\ UNCHANGED <<manifest, handling, taken>>
    BY DEF Report, workers
  <1>3. PICK s \in Acked(c) :
          Commit(Publish([Db EXCEPT !.claim[c] = mark, !.row[c] = s], e))
    BY DEF Report
  <1> DEFINE fr == [row EXCEPT ![c] = s]
             fc == [claim EXCEPT ![c] = mark]
             a == [Db EXCEPT !.claim = fc, !.row = fr]
  <1>4. Db.row = row /\ Db.claim = claim /\ Db.event = event /\ Db.seen = seen
    BY DEF Db
  <1>5. /\ Shape(Db) /\ WorkIsOpen(Db, taken) /\ ResultIsOpen(Db, handling, taken)
        /\ HeldOnce(Db, handling) /\ RetryIsAsked(Db, handling)
        /\ Completion \in handling => Db.event[Completion] # "none"
    BY DEF OrderInv, Flight
  <1>6. Open(Db, c) /\ row[c] # "PENDING" /\ c \notin taken /\ AtWork(Db, taken, c)
    BY <1>2, <1>4, <1>5 DEF WorkIsOpen, AtWork
  <1>7. "worker_crash" \notin Faults
    BY DEF Orderly
  <1>8. s \in OutboxStatus /\ s \notin {"PENDING", "IN_PROGRESS"}
    BY <1>1, <1>6, <1>7 DEF Acked, OutboxStatus
  <1>9. /\ fr \in [Commands -> OutboxStatus]
        /\ fr[c] = s
        /\ \A d \in Commands : d # c => fr[d] = row[d]
    BY <1>1, <1>8
  <1>10. /\ fc \in [Commands -> ClaimStatus]
         /\ fc[c] = mark
         /\ \A d \in Commands : d # c => fc[d] = claim[d]
    BY <1>1 DEF ClaimStatus
  <1>11. [Db EXCEPT !.claim[c] = mark, !.row[c] = s] = a
    BY <1>4
  <1> HIDE DEF fr, fc
  <1>12. /\ a \in DbType /\ a.row = fr /\ a.claim = fc
         /\ a.saga = Db.saga /\ a.step = Db.step /\ a.err = Db.err
         /\ a.key = Db.key /\ a.undo = Db.undo /\ a.event = Db.event
         /\ a.seen = Db.seen
    BY <1>1, <1>9, <1>10 DEF DbType
  <1> HIDE DEF a
  <1>13. PICK t : t = Publish(a, e)
    OBVIOUS
  <1>14. /\ t \in DbType
         /\ t.saga = Db.saga /\ t.step = Db.step /\ t.err = Db.err
         /\ t.undo = Db.undo /\ t.key = Db.key /\ t.claim = fc
         /\ t.row = fr /\ t.seen = Db.seen
         /\ \A f \in Events :
               t.event[f] = IF f = e /\ Db.event[e] = "none"
                            THEN "PENDING" ELSE Db.event[f]
    BY <1>12, <1>13, PublishFields
  <1>15. Commit(t)
    BY <1>3, <1>11, <1>13
  <1>16. Completion \in Events
    BY EventTypes DEF Completion
  <1>17. t.event[Completion] = Db.event[Completion]
    BY <1>14, <1>16
  <1>18. Shape(t)
    BY <1>5, <1>14, <1>17, SameShape
  <1>19. NoWork(t, taken)
    <2> SUFFICES ASSUME NEW d \in Commands, AtWork(t, taken, d)
                 PROVE  FALSE
      BY DEF NoWork
    <2>1. d # c
      BY <1>6, <1>8, <1>9, <1>10, <1>14 DEF AtWork
    <2>2. AtWork(Db, taken, d)
      BY <1>4, <1>9, <1>10, <1>14, <2>1 DEF AtWork
    <2>3. Open(Db, d)
      BY <1>5, <2>2 DEF WorkIsOpen
    <2>4. QED
      BY <1>1, <1>5, <1>6, <2>1, <2>3, OpenUnique
  <1>20. WorkIsOpen(t, taken)
    BY <1>19 DEF WorkIsOpen, NoWork, AtWork
  <1>21. \A f \in ResultEvents : ~Due(Db, handling, f)
    BY <1>5, <1>6 DEF ResultIsOpen, NoWork
  <1>22. \A f \in ResultEvents : Due(t, handling, f) => f = e
    BY <1>14, <1>21, ResultTypes DEF Due
  <1>23. e \in ResultEvents => Open(t, Source(t, e))
    <2> SUFFICES ASSUME e \in ResultEvents
                 PROVE  Open(t, Source(t, e))
      OBVIOUS
    <2>1. Open(t, c)
      BY <1>6, <1>14 DEF Open
    <2>2. CASE c[1] = "fwd"
      <3>1. e[2] = c[2] /\ e[3] = 0 /\ c[3] = t.key[c[2]]
        BY <2>1, <2>2 DEF Open
      <3>2. Source(t, e) = <<c[1], c[2], c[3]>>
        BY <2>2, <3>1 DEF Source
      <3>3. QED
        BY <2>1, <3>2
    <2>3. CASE c[1] # "fwd"
      <3>1. e[2] = c[2] /\ e[3] = c[3] /\ e[3] # 0 /\ c[1] = "undo"
        BY <2>3
      <3>2. Source(t, e) = <<c[1], c[2], c[3]>>
        BY <3>1 DEF Source
      <3>3. QED
        BY <2>1, <3>2
    <2>4. QED
      BY <2>2, <2>3
  <1>24. ResultIsOpen(t, handling, taken)
    BY <1>19, <1>22, <1>23 DEF ResultIsOpen
  <1>25. HeldOnce(t, handling)
    BY <1>5, <1>14, ResultTypes DEF HeldOnce
  <1>26. RetryIsAsked(t, handling)
    <2>1. RetryEvents \subseteq Events
      BY DEF Events
    <2>2. QED
      BY <1>5, <1>14, <2>1 DEF RetryIsAsked
  <1>27. Flight(t, handling, taken)
    BY <1>5, <1>17, <1>20, <1>24, <1>25, <1>26 DEF Flight
  <1>28. QED
    BY <1>2, <1>14, <1>15, <1>18, <1>27, CommitOrder

\* Every step of a worker preserves the invariant.
LEMMA WorkerOrder ==
    ASSUME Orderly, Inv, OrderInv, Worker
    PROVE  OrderInv'
  <1>1. /\ row \in [Commands -> OutboxStatus]
        /\ claim \in [Commands -> ClaimStatus]
        /\ Db.row = row /\ Db.claim = claim
    BY InvParts DEF Db
  <1>2. /\ \A c \in Commands : [claim EXCEPT ![c] = claim[c]] = claim
        /\ \A c \in Commands : [row EXCEPT ![c] = row[c]] = row
    BY <1>1
  <1>3. \A c \in Commands :
           /\ claim[c] = "held" \/ c \in taken => row[c] # "PENDING"
           /\ claim[c] = "held" => c \notin taken
    BY <1>1 DEF OrderInv, Flight, WorkIsOpen
  <1>4. "worker_crash" \notin Faults
    BY DEF Orderly
  <1>5. \A c \in Commands : \A r \in Acked(c) :
           /\ r \in OutboxStatus /\ r # "IN_PROGRESS"
           /\ r = "PENDING" => row[c] = "PENDING"
    BY <1>1, <1>4 DEF Acked, OutboxStatus
  <1>6. ASSUME NEW c \in Commands, WorkerTakes(c)
        PROVE  OrderInv'
    <2>1. /\ row[c] = "PENDING" /\ c \notin taken
          /\ row' = [row EXCEPT ![c] = "IN_PROGRESS"]
          /\ UNCHANGED <<manifest, saga, step, err, key, retried, undo, claim,
                         event, seen, handling>>
      BY <1>6 DEF WorkerTakes
    <2>2. PICK T : T = taken \cup {c}
      OBVIOUS
    <2>3. taken' = T /\ T \ {c} = taken \ {c}
      BY <1>6, <2>2 DEF WorkerTakes
    <2>4. PICK m \in ClaimStatus : m = claim[c]
      BY <1>1
    <2>5. claim' = [claim EXCEPT ![c] = m]
      BY <1>2, <2>1, <2>4
    <2>6. "IN_PROGRESS" \in OutboxStatus /\ AtWork(Db, taken, c) /\ m # "held"
      BY <1>1, <1>3, <2>1, <2>4 DEF OutboxStatus, AtWork
    <2>7. QED
      BY <2>1, <2>3, <2>5, <2>6, WorkOrder
  <1>7. ASSUME NEW c \in Commands, WorkerClaims(c)
        PROVE  OrderInv'
    <2>1. /\ c \in taken
          /\ claim' = [claim EXCEPT ![c] = "held"]
          /\ UNCHANGED <<manifest, saga, step, err, key, retried, undo, row,
                         event, seen, handling>>
      BY <1>7 DEF WorkerClaims
    <2>2. PICK T : T = taken \ {c}
      OBVIOUS
    <2>3. taken' = T /\ T \ {c} = taken \ {c} /\ c \notin T
      BY <1>7, <2>2 DEF WorkerClaims
    <2>4. PICK r \in OutboxStatus : r = row[c]
      BY <1>1
    <2>5. row' = [row EXCEPT ![c] = r]
      BY <1>2, <2>1, <2>4
    <2>6. "held" \in ClaimStatus /\ AtWork(Db, taken, c) /\ r # "PENDING"
      BY <1>3, <2>1, <2>4 DEF ClaimStatus, AtWork
    <2>7. QED
      BY <2>1, <2>3, <2>5, <2>6, WorkOrder
  <1>8. ASSUME NEW c \in Commands, WorkerSkips(c)
        PROVE  OrderInv'
    <2>1. /\ c \in taken
          /\ UNCHANGED <<manifest, saga, step, err, key, retried, undo, claim,
                         event, seen, handling>>
      BY <1>8 DEF WorkerSkips
    <2>2. PICK T : T = taken \ {c}
      OBVIOUS
    <2>3. taken' = T /\ T \ {c} = taken \ {c} /\ c \notin T
      BY <1>8, <2>2 DEF WorkerSkips
    <2>4. PICK r \in Acked(c) : row' = [row EXCEPT ![c] = r]
      BY <1>8 DEF WorkerSkips
    <2>5. PICK m \in ClaimStatus : m = claim[c]
      BY <1>1
    <2>6. claim' = [claim EXCEPT ![c] = m]
      BY <1>2, <2>1, <2>5
    <2>7. r \in OutboxStatus /\ AtWork(Db, taken, c) /\ m # "held"
      BY <1>3, <1>5, <2>1, <2>5 DEF AtWork
    <2>8. QED
      BY <2>1, <2>3, <2>4, <2>6, <2>7, WorkOrder
  <1>9. ASSUME NEW c \in Commands, SupersededReturns(c)
        PROVE  OrderInv'
    <2>1. UNCHANGED <<manifest, saga, step, err, key, retried, undo, claim,
                      event, seen, handling, taken>>
      BY <1>9 DEF SupersededReturns
    <2>2. PICK r \in Acked(c) : row' = [row EXCEPT ![c] = r]
      BY <1>9 DEF SupersededReturns
    <2>3. PICK m \in ClaimStatus : m = claim[c]
      BY <1>1
    <2>4. claim' = [claim EXCEPT ![c] = m]
      BY <1>2, <2>1, <2>3
    <2>5. /\ r \in OutboxStatus
          /\ r \in {"PENDING", "IN_PROGRESS"} \/ m = "held" \/ c \in taken =>
                AtWork(Db, taken, c)
          /\ m = "held" \/ c \in taken => r # "PENDING"
          /\ m = "held" => c \notin taken
      BY <1>1, <1>3, <1>5, <2>3 DEF AtWork
    <2>6. QED
      BY <2>1, <2>2, <2>4, <2>5, WorkOrder
  <1>10. ASSUME NEW i \in Steps, NEW k \in Keys,
                WorkerCompletes(i, k) \/ WorkerFails(i, k)
         PROVE  OrderInv'
    <2>1. PICK c : c = <<"fwd", i, k>>
      OBVIOUS
    <2>2. PICK type \in {"STEP_COMPLETED", "STEP_FAILED"},
               mark \in {"none", "emitted"} :
            Report(c, <<type, i, 0>>, mark)
      BY <1>10, <2>1 DEF WorkerCompletes, WorkerFails
    <2>3. PICK e : e = <<type, i, 0>>
      OBVIOUS
    <2>4. /\ c \in Commands /\ c[1] = "fwd" /\ c[2] = i
          /\ c = <<c[1], c[2], c[3]>>
      BY <2>1 DEF Commands
    <2>5. e \in Events /\ e[1] = type /\ e[2] = i /\ e[3] = 0
      BY <2>3, EventTypes
    <2>6. e # Completion /\ e \notin RetryEvents
      BY <2>5 DEF Completion, RetryEvents
    <2>7. Report(c, e, mark)
      BY <2>2, <2>3
    <2>8. QED
      BY <2>4, <2>5, <2>6, <2>7, ReportOrder
  <1>11. ASSUME NEW s \in Steps, NEW u \in Undos,
                \/ WorkerUndoes(s, u)
                \/ WorkerFailsToUndo(s, u)
                \/ WorkerHasNoAdapter(s, u)
         PROVE  OrderInv'
    <2>1. PICK c : c = <<"undo", s, u>>
      OBVIOUS
    <2>2. PICK type \in {"STEP_COMPENSATED", "COMPENSATION_FAILED", "STEP_FAILED"},
               mark \in {"none", "emitted"} :
            Report(c, <<type, s, u>>, mark)
      BY <1>11, <2>1 DEF WorkerUndoes, WorkerFailsToUndo, WorkerHasNoAdapter
    <2>3. PICK e : e = <<type, s, u>>
      OBVIOUS
    <2>4. /\ c \in Commands /\ c[1] = "undo" /\ c[2] = s /\ c[3] = u
          /\ c = <<c[1], c[2], c[3]>>
      BY <2>1 DEF Commands
    <2>5. e \in Events /\ e[1] = type /\ e[2] = s /\ e[3] = u
      BY <2>3, EventTypes
    <2>6. e # Completion /\ e \notin RetryEvents
      BY <2>5 DEF Completion, RetryEvents
    <2>7. Report(c, e, mark)
      BY <2>2, <2>3
    <2>8. u # 0
      BY BoundsAssumption DEF Undos
    <2>9. QED
      BY <2>4, <2>5, <2>6, <2>7, <2>8, ReportOrder
  <1>12. QED
    BY <1>6, <1>7, <1>8, <1>9, <1>10, <1>11 DEF Worker

\* Every fault that Orderly admits preserves the invariant.
LEMMA FaultOrder ==
    ASSUME Orderly, Inv, OrderInv, Fault
    PROVE  OrderInv'
  <1>1. ASSUME NEW c \in Commands, WorkerRaises(c)
        PROVE  OrderInv'
    <2>1. /\ claim[c] = "held"
          /\ row' = [row EXCEPT ![c] = "FAILED"]
          /\ UNCHANGED <<manifest, saga, step, err, key, retried, undo, claim,
                         event, seen, handling, taken>>
      BY <1>1 DEF WorkerRaises, workers
    <2>2. "FAILED" \in OutboxStatus /\ "held" \in ClaimStatus
      BY DEF OutboxStatus, ClaimStatus
    <2>3. claim' = [claim EXCEPT ![c] = "held"]
      BY <2>1, InvParts
    <2>4. AtWork(Db, taken, c) /\ c \notin taken
      BY <2>1 DEF AtWork, Db, OrderInv, Flight, WorkIsOpen
    <2>5. QED
      BY <2>1, <2>2, <2>3, <2>4, WorkOrder
  <1>2. CASE EngineCrash
    <2>1. UNCHANGED <<manifest, tables, taken>>
      BY <1>2 DEF EngineCrash, workers
    <2>2. QED
      BY <1>2, <2>1, ForgetOrder
  <1>3. QED
    BY <1>1, <1>2, EventFaultOrder
       DEF Fault, Orderly, WorkerCrash, ReapCommand, ReapClaim

-----------------------------------------------------------------------------
(* The operator *)

\* A saga that waits for its operator is quiet.
LEMMA RecoveryOrder ==
    ASSUME Inv, OrderInv, NEW i \in Steps, AwaitingOperator(i)
    PROVE  /\ Calm(Db) /\ Idle(Db, handling, taken)
           /\ HeldOnce(Db, handling) /\ RetryIsAsked(Db, handling)
           /\ Completion \notin handling
           /\ At(Db, i, {"FAILED", "TIMED_OUT"})
           /\ Db.saga = "AWAITING_RECOVERY"
  <1>1. /\ Db \in DbType /\ Db.saga = saga /\ Db.step = step
        /\ Shape(Db) /\ Flight(Db, handling, taken)
    BY InvParts DEF Db, OrderInv
  <1>2. saga = "AWAITING_RECOVERY" /\ step[i] \in {"FAILED", "TIMED_OUT"}
    BY DEF AwaitingOperator
  <1>3. PICK j \in Steps : At(Db, j, {"FAILED", "TIMED_OUT"})
    BY <1>1, <1>2 DEF Shape, Held
  <1>4. j = i
    <2>1. i < j \/ i = j \/ i > j
      BY DEF Steps
    <2>2. QED
      BY <1>1, <1>2, <1>3, <2>1 DEF At, Front
  <1>5. \A c \in Commands : ~Open(Db, c)
    BY <1>1, <1>2, OpenSaga
  <1>6. Idle(Db, handling, taken)
    BY <1>1, <1>5, ClosedIdle
  <1>7. Calm(Db)
    BY <1>1, <1>2, <1>6, IdleCalm DEF Idle
  <1>8. Completion \notin handling
    BY <1>1, <1>7 DEF Flight, Calm
  <1>9. QED
    BY <1>1, <1>2, <1>3, <1>4, <1>6, <1>7, <1>8 DEF Flight

\* _execute_retry_forward, which Orderly allows where engines do not crash
LEMMA RetryForwardOrder ==
    ASSUME Orderly, Inv, OrderInv, NEW i \in Steps, NEW force \in BOOLEAN,
           RetryForward(i, force)
    PROVE  OrderInv'
  <1>1. PICK c : c = <<"fwd", i, key[i]>>
    OBVIOUS
  <1>2. /\ "retry_forward" \in Ops
        /\ AwaitingOperator(i)
        /\ key[i] < MaxKeys
        /\ UNCHANGED <<manifest, handling, taken>>
    BY DEF RetryForward
  <1>3. "engine_crash" \notin Faults
    BY <1>2 DEF Orderly
  <1>4. /\ Calm(Db) /\ Idle(Db, handling, taken)
        /\ HeldOnce(Db, handling) /\ RetryIsAsked(Db, handling)
        /\ Completion \notin handling
        /\ At(Db, i, {"FAILED", "TIMED_OUT"})
    BY <1>2, RecoveryOrder
  <1>5. c \in Commands /\ Db \in DbType /\ Db.key = key
    BY <1>1, InvParts DEF Commands, Db
  <1>6. Unclaim(Db, c) = Db
    BY <1>4, <1>5 DEF Unclaim, Calm
  <1>7. PICK a : a = SetSaga(Reset(Db, i), "RUNNING")
    OBVIOUS
  <1>8. PICK t \in Trigger(a, i, {"IN_PROGRESS"}) : Commit(t)
    BY <1>1, <1>6, <1>7 DEF RetryForward, SetSaga
  <1>9. Renewed(Db, a, i)
    BY <1>2, <1>5, <1>7, RetryForwardRenews
  <1>10. Front(Db, i) /\ Db.step[i] \in {"FAILED", "TIMED_OUT"}
    BY <1>4 DEF At
  <1>11. /\ Calm(a) /\ Idle(a, handling, taken)
         /\ HeldOnce(a, handling) /\ RetryIsAsked(a, handling)
         /\ Front(a, i) /\ a.err[i] = "none"
    BY <1>3, <1>4, <1>9, <1>10, RenewedIdle
  <1>12. a.saga = "RUNNING" /\ a.step[i] \in {"FAILED", "TIMED_OUT"}
    BY <1>9, <1>10 DEF Renewed
  <1>13. Reached(a, t)
    BY <1>8, <1>11, <1>12, TriggerReaches
  <1>14. Flight(t, handling, taken)
    BY <1>4, <1>11, <1>13, ReachedFlight
  <1>15. t \in DbType /\ Shape(t)
    BY <1>13 DEF Reached, Framed
  <1>16. QED
    BY <1>2, <1>8, <1>14, <1>15, CommitOrder

\* _execute_start_compensation
LEMMA StartCompensationOrder ==
    ASSUME Inv, OrderInv, NEW i \in Steps, StartCompensation(i)
    PROVE  OrderInv'
  <1>1. /\ AwaitingOperator(i)
        /\ UNCHANGED <<manifest, handling, taken>>
    BY DEF StartCompensation, workers
  <1>2. /\ Calm(Db) /\ Idle(Db, handling, taken)
        /\ HeldOnce(Db, handling) /\ RetryIsAsked(Db, handling)
        /\ Completion \notin handling
        /\ At(Db, i, {"FAILED", "TIMED_OUT"})
    BY <1>1, RecoveryOrder
  <1>3. PICK d : d = Db
    OBVIOUS
  <1>4. PICK from \in Int : from = IF Dirty(i) THEN i ELSE i - 1
    BY DEF Steps
  <1>5. /\ d \in DbType /\ Calm(d)
        /\ d.step = step /\ d.err = err
        /\ At(d, i, {"FAILED", "TIMED_OUT"})
    BY <1>2, <1>3, InvParts DEF Db
  <1>6. /\ AtRest(d) /\ InOrder(d) /\ Above(d) /\ NoneRuns(d)
        /\ Clear(d, i)
        /\ d.step[i] = "FAILED" /\ d.err[i] # "crash" => Clear(d, i - 1)
    BY <1>5, FailedFront
  <1>7. Clear(d, from)
    BY <1>4, <1>5, <1>6 DEF Dirty, At
  <1>8. ASSUME NEW t, Reached(d, t), Commit(t)
        PROVE  OrderInv'
    <2>1. Flight(t, handling, taken)
      BY <1>2, <1>3, <1>8, ReachedFlight
    <2>2. t \in DbType /\ Shape(t)
      BY <1>8 DEF Reached, Framed
    <2>3. QED
      BY <1>1, <1>8, <2>1, <2>2, CommitOrder
  <1>9. CASE from < 0
    <2>1. Commit(Close(d, "FAILED", "SAGA_FAILED"))
      BY <1>3, <1>4, <1>9 DEF StartCompensation
    <2>2. InOrder([d EXCEPT !.saga = "FAILED"])
      <3>1. PICK b : b = SetSaga(d, "FAILED")
        OBVIOUS
      <3>2. b.saga = "FAILED" /\ b.step = d.step
        BY <1>5, <3>1, SagaFields, StatusSets
      <3>3. InOrder(b)
        BY <1>6, <3>2 DEF InOrder
      <3>4. QED
        BY <3>1, <3>3 DEF SetSaga
    <2>3. Reached(d, Close(d, "FAILED", "SAGA_FAILED"))
      BY <1>5, <1>6, <2>2, CloseShape
    <2>4. QED
      BY <1>8, <2>1, <2>3
  <1>10. CASE ~(from < 0)
    <2>1. PICK a : a = SetSaga(d, "COMPENSATING")
      OBVIOUS
    <2>2. PICK t \in Unwind(a, from) : Commit(t)
      BY <1>3, <1>4, <1>10, <2>1 DEF StartCompensation, SetSaga
    <2>3. /\ a \in DbType /\ SameFlight(d, a) /\ a.saga = "COMPENSATING"
          /\ a.step = d.step /\ a.err = d.err /\ a.undo = d.undo
      BY <1>5, <2>1, SagaFields, StatusSets
    <2>4. Calm(a) /\ Framed(d, a)
      BY <1>5, <2>3, SameFlightCalm
    <2>5. /\ AtRest(a) /\ InOrder(a) /\ Above(a) /\ NoneRuns(a)
          /\ Clear(a, from)
      <3>1. d.saga = "AWAITING_RECOVERY"
        BY <1>1, <1>3, RecoveryOrder
      <3>2. AtRest(a) /\ NoneRuns(a) /\ InOrder(a)
        BY <1>6, <2>3, <3>1 DEF AtRest, NoneRuns, InOrder
      <3>3. Above(a)
        BY <1>6, <2>3 DEF Above, Owed, Undone, HasUndo
      <3>4. Clear(a, from)
        BY <1>7, <2>3 DEF Clear, Owed, Undone, HasUndo
      <3>5. QED
        BY <3>2, <3>3, <3>4
    <2>6. Reached(a, t)
      BY <2>2, <2>3, <2>4, <2>5, UnwindReaches DEF Unwinding
    <2>7. Reached(d, t)
      BY <2>4, <2>6, ReachedFrom
    <2>8. QED
      BY <1>8, <2>2, <2>7
  <1>11. QED
    BY <1>9, <1>10

\* Every command of the operator that Orderly admits preserves the invariant.
LEMMA OperatorOrder ==
    ASSUME Orderly, Inv, OrderInv, Operator
    PROVE  OrderInv'
  BY RetryForwardOrder, StartCompensationOrder
     DEF Operator, Orderly, RetryStep, RetryCompensation

-----------------------------------------------------------------------------
(* The invariant *)

\* It holds of the saga as it was created.
LEMMA InitOrder == Init => OrderInv
  <1> SUFFICES ASSUME Init
               PROVE  OrderInv
    OBVIOUS
  <1>1. /\ saga = "PENDING"
        /\ step = [s \in Steps |-> "PENDING"]
        /\ err = [s \in Steps |-> "none"]
        /\ undo = [s \in Steps |-> [u \in Undos |-> "none"]]
        /\ row = [c \in Commands |-> "none"]
        /\ claim = [c \in Commands |-> "none"]
        /\ event = [e \in Events |-> IF e = <<"SAGA_STARTED", 0, 0>>
                                      THEN "PENDING" ELSE "none"]
        /\ seen = {} /\ handling = {} /\ taken = {}
    BY DEF Init
  <1>2. PICK d : d = Db
    OBVIOUS
  <1>3. /\ d.saga = saga /\ d.step = step /\ d.err = err /\ d.undo = undo
        /\ d.row = row /\ d.claim = claim /\ d.event = event /\ d.seen = seen
    BY <1>2 DEF Db
  <1>4. /\ Completion \in Events /\ Completion # <<"SAGA_STARTED", 0, 0>>
        /\ RetryEvents \subseteq Events
        /\ <<"SAGA_STARTED", 0, 0>> \notin ResultEvents \cup RetryEvents
    BY EventTypes DEF Completion, Events, ResultEvents, RetryEvents
  <1>5. /\ event[Completion] = "none"
        /\ \A e \in ResultEvents \cup RetryEvents : event[e] = "none"
    BY <1>1, <1>4, ResultTypes
  <1>6. Fallow(d)
    BY <1>1, <1>3 DEF Fallow, NoUndo
  <1>7. Shape(d)
    BY <1>1, <1>3, <1>5, <1>6 DEF Shape
  <1>8. \A c \in Commands : ~AtWork(d, taken, c)
    BY <1>1, <1>3 DEF AtWork
  <1>9. WorkIsOpen(d, taken)
    BY <1>8 DEF WorkIsOpen, AtWork
  <1>10. \A e \in ResultEvents : ~Due(d, handling, e)
    BY <1>1, <1>3, <1>5 DEF Due
  <1>11. ResultIsOpen(d, handling, taken)
    BY <1>10 DEF ResultIsOpen
  <1>12. HeldOnce(d, handling) /\ RetryIsAsked(d, handling)
         /\ Completion \notin handling
    BY <1>1, <1>3, <1>5 DEF HeldOnce, RetryIsAsked
  <1>13. Flight(d, handling, taken)
    BY <1>9, <1>11, <1>12 DEF Flight
  <1>14. QED
    BY <1>2, <1>7, <1>13 DEF OrderInv

\* It is inductive, relative to the types.
LEMMA NextOrder ==
    ASSUME Orderly
    PROVE  Inv /\ OrderInv /\ [Next]_vars => OrderInv'
  <1> SUFFICES ASSUME Inv, OrderInv, [Next]_vars
               PROVE  OrderInv'
    OBVIOUS
  <1>1. CASE Next
    BY <1>1, EngineOrder, WorkerOrder, ReviewerOrder, OperatorOrder, FaultOrder
       DEF Next
  <1>2. CASE UNCHANGED vars
    <2>1. UNCHANGED <<manifest, tables, taken>> /\ handling' = handling
      BY <1>2 DEF vars, workers
    <2>2. QED
      BY <2>1, ForgetOrder
  <1>3. QED
    BY <1>1, <1>2

\* It holds in every behaviour that Orderly admits.
LEMMA AlwaysOrder ==
    ASSUME Orderly
    PROVE  Spec => [](Inv /\ OrderInv)
  <1>1. Init => Inv /\ OrderInv
    BY InitInv, InitOrder
  <1>2. (Inv /\ OrderInv) /\ [Next]_vars => (Inv /\ OrderInv)'
    BY NextInv, NextOrder
  <1>3. QED
    BY <1>1, <1>2, PTL DEF Spec

-----------------------------------------------------------------------------
(* What follows *)

\* Whatever the status of the saga, its steps ran in order.
LEMMA ShapeOrder ==
    ASSUME NEW d, d.saga \in SagaStatus, Shape(d)
    PROVE  InOrder(d)
  <1>1. CASE Fallow(d)
    BY <1>1 DEF Fallow, InOrder
  <1>2. CASE Finished(d)
    BY <1>2 DEF Finished, InOrder
  <1>3. ASSUME NEW i \in Steps, Front(d, i)
        PROVE  InOrder(d)
    <2> SUFFICES ASSUME NEW r \in Steps, NEW s \in Steps, r < s,
                        d.step[s] \notin {"PENDING", "SKIPPED"}
                 PROVE  d.step[r] \in {"COMPLETED", "SKIPPED"}
      BY DEF InOrder
    <2>1. ~(s > i)
      BY <1>3 DEF Front
    <2>2. r < i
      BY <2>1 DEF Steps
    <2>3. QED
      BY <1>3, <2>2 DEF Front
  <1>4. \/ Fallow(d)
        \/ Finished(d)
        \/ \E i \in Steps : Front(d, i)
        \/ Unwound(d)
    BY DEF Shape, Forward, Held, At, SagaStatus
  <1>5. QED
    BY <1>1, <1>2, <1>3, <1>4 DEF Unwound

\* Forward rows run one at a time and in order: _schedule_next_forward_step
\* goes on only from a row that completed, and every failure ends or holds the
\* saga.
THEOREM StepsRunInOrder ==
    ASSUME Orderly
    PROVE  Spec => []ForwardOrder
  <1>1. Inv /\ OrderInv => ForwardOrder
    <2> SUFFICES ASSUME Inv, OrderInv
                 PROVE  ForwardOrder
      OBVIOUS
    <2>1. PICK d : d = Db
      OBVIOUS
    <2>2. d.saga = saga /\ d.step = step /\ d.saga \in SagaStatus /\ Shape(d)
      BY <2>1, InvParts DEF Db, DbType, OrderInv
    <2>3. InOrder(d)
      BY <2>2, ShapeOrder
    <2>4. QED
      BY <2>2, <2>3 DEF InOrder, ForwardOrder, Started
  <1>2. QED
    BY <1>1, AlwaysOrder, PTL

\* Compensation is LIFO: _advance_lifo_compensation undoes a step only when
\* every later one that owes an undo has had it, whatever is redelivered.
THEOREM UndoIsLifo ==
    ASSUME Orderly
    PROVE  Spec => []UndoOrder
  <1>1. Inv /\ OrderInv => UndoOrder
    <2> SUFFICES ASSUME Inv, OrderInv, NEW s \in Steps, NEW t \in Steps,
                        NEW u \in Undos, s < t, undo[s][u] # "none",
                        manifest[t].comp, step[t] = "COMPLETED"
                 PROVE  HasUndo(Db, t, "COMPENSATED")
      BY DEF UndoOrder
    <2>1. PICK d : d = Db
      OBVIOUS
    <2>2. /\ d.saga = saga /\ d.step = step /\ d.undo = undo
          /\ d.saga \in SagaStatus /\ Shape(d)
      BY <2>1, InvParts DEF Db, DbType, OrderInv
    <2>3. ~NoUndo(d) /\ Owed(d, t)
      BY <2>2 DEF NoUndo, Owed
    <2>4. Above(d)
      BY <2>2, <2>3
         DEF Shape, Fallow, Finished, Forward, Held, At, Front, Unwound, SagaStatus
    <2>5. QED
      BY <2>1, <2>2, <2>3, <2>4 DEF Above, Undone
  <1>2. QED
    BY <1>1, AlwaysOrder, PTL

\* A saga is COMPENSATED only when every step that completed, or failed dirty,
\* and declares a compensation has been undone.
THEOREM RestoredIsTrue ==
    ASSUME Orderly
    PROVE  Spec => []RestoredMeansUndone
  <1>1. Inv /\ OrderInv => RestoredMeansUndone
    <2> SUFFICES ASSUME Inv, OrderInv, saga = "COMPENSATED", NEW s \in Steps,
                        manifest[s].comp, step[s] = "COMPLETED" \/ Dirty(s)
                 PROVE  HasUndo(Db, s, "COMPENSATED")
      BY DEF RestoredMeansUndone
    <2>1. PICK d : d = Db
      OBVIOUS
    <2>2. d.saga = saga /\ d.step = step /\ d.err = err /\ Shape(d)
      BY <2>1 DEF Db, OrderInv
    <2>3. Owed(d, s)
      BY <2>2 DEF Owed, Dirty
    <2>4. QED
      BY <2>1, <2>2, <2>3 DEF Shape, Unwound, Undone
  <1>2. QED
    BY <1>1, AlwaysOrder, PTL

\* A saga is COMPLETED only when every step completed or was skipped, and none
\* of them was undone.
THEOREM CompletionIsTrue ==
    ASSUME Orderly
    PROVE  Spec => []CompletedMeansDone
  <1>1. Inv /\ OrderInv => CompletedMeansDone
    <2> SUFFICES ASSUME Inv, OrderInv, saga = "COMPLETED", NEW s \in Steps
                 PROVE  /\ step[s] \in {"COMPLETED", "SKIPPED"}
                        /\ undo[s] = [u \in Undos |-> "none"]
      BY DEF CompletedMeansDone
    <2>1. PICK d : d = Db
      OBVIOUS
    <2>2. /\ d.saga = saga /\ d.step = step /\ d.undo = undo /\ Shape(d)
          /\ d.undo[s] \in [Undos -> UndoStatus]
      BY <2>1, InvParts DEF Db, DbType, OrderInv
    <2>3. Finished(d)
      BY <2>2 DEF Shape
    <2>4. \A u \in Undos : undo[s][u] = "none"
      BY <2>2, <2>3 DEF Finished, NoUndo
    <2>5. QED
      BY <2>2, <2>3, <2>4 DEF Finished
  <1>2. QED
    BY <1>1, AlwaysOrder, PTL

\* No undo runs beside a forward command: a saga unwinds when the result of
\* its last command was ingested, and the operator starts from a held saga.
THEOREM UnwindingIsQuiet ==
    ASSUME Orderly
    PROVE  Spec => []UnwindIsQuiet
  <1>1. Inv /\ OrderInv => UnwindIsQuiet
    <2> SUFFICES ASSUME Inv, OrderInv, saga \in {"COMPENSATING", "COMPENSATED"},
                        NEW i \in Steps, NEW k \in Keys, InFlight(<<"fwd", i, k>>)
                 PROVE  FALSE
      BY DEF UnwindIsQuiet
    <2>1. PICK c : c = <<"fwd", i, k>>
      OBVIOUS
    <2>2. c \in Commands /\ c[1] = "fwd"
      BY <2>1 DEF Commands
    <2>3. AtWork(Db, taken, c)
      BY <2>1 DEF InFlight, Live, AtWork, Db
    <2>4. Open(Db, c)
      BY <2>2, <2>3 DEF OrderInv, Flight, WorkIsOpen
    <2>5. Db \in DbType /\ Shape(Db) /\ Db.saga = saga
      BY InvParts DEF OrderInv, Db
    <2>6. QED
      BY <2>2, <2>4, <2>5, OpenSaga
  <1>2. QED
    BY <1>1, AlwaysOrder, PTL

\* A saga waits for its operator only at a step that failed and declares
\* await_operator, which the operator's commands can name.
THEOREM HoldsAreRecoverable ==
    ASSUME Orderly
    PROVE  Spec => []HoldIsRecoverable
  <1>1. Inv /\ OrderInv => HoldIsRecoverable
    <2> SUFFICES ASSUME Inv, OrderInv, saga = "AWAITING_RECOVERY"
                 PROVE  \E i \in Steps : /\ manifest[i].hold
                                         /\ step[i] \in {"FAILED", "TIMED_OUT"}
      BY DEF HoldIsRecoverable
    <2>1. PICK d : d = Db
      OBVIOUS
    <2>2. d.saga = saga /\ d.step = step /\ Shape(d)
      BY <2>1 DEF Db, OrderInv
    <2>3. QED
      BY <2>2 DEF Shape, Held, At
  <1>2. QED
    BY <1>1, AlwaysOrder, PTL

\* A step has one command in the hands of workers at a time, under whatever
\* keys it went through.
THEOREM StepsAreDeliveredOnce ==
    ASSUME Orderly
    PROVE  Spec => []SingleDelivery
  <1>1. Inv /\ OrderInv => SingleDelivery
    <2> SUFFICES ASSUME Inv, OrderInv, NEW i \in Steps, NEW k \in Keys,
                        NEW l \in Keys, InFlight(<<"fwd", i, k>>),
                        InFlight(<<"fwd", i, l>>)
                 PROVE  k = l
      BY DEF SingleDelivery
    <2>1. PICK c, d : c = <<"fwd", i, k>> /\ d = <<"fwd", i, l>>
      OBVIOUS
    <2>2. c \in Commands /\ d \in Commands
      BY <2>1 DEF Commands
    <2>3. AtWork(Db, taken, c) /\ AtWork(Db, taken, d)
      BY <2>1 DEF InFlight, Live, AtWork, Db
    <2>4. Open(Db, c) /\ Open(Db, d)
      BY <2>2, <2>3 DEF OrderInv, Flight, WorkIsOpen
    <2>5. Db \in DbType /\ Shape(Db)
      BY InvParts DEF OrderInv
    <2>6. c = d
      BY <2>2, <2>4, <2>5, OpenUnique
    <2>7. QED
      BY <2>1, <2>6
  <1>2. QED
    BY <1>1, AlwaysOrder, PTL

-----------------------------------------------------------------------------
(* The end of a saga *)

\* Whatever happens to a saga that has ended, its status stays.
LEMMA EndedStays ==
    ASSUME Orderly, Inv, OrderInv, Ended, [Next]_vars
    PROVE  saga' = saga
  <1>1. saga \notin {"PENDING", "RUNNING", "COMPENSATING", "AWAITING_HUMAN",
                     "AWAITING_RECOVERY"}
    BY DEF Ended
  <1>2. ASSUME NEW e \in Events, e \in handling, NEW tx \in Ingest(e), Commit(tx)
        PROVE  saga' = saga
    BY <1>2, IngestOrder DEF Commit
  <1>3. ASSUME NEW e \in ResultEvents, Fresh(e)
        PROVE  FALSE
    <2>1. e \in Events /\ e \in handling
      BY <1>3, ResultTypes DEF Fresh
    <2>2. PICK s \in Settled(e) : TRUE
      BY DEF Settled
    <2>3. PICK tx \in Ingest(e) : TRUE
      BY <2>2 DEF Ingest
    <2>4. Due(Db, handling, e)
      BY <1>3, ResultKey DEF Fresh, Due, Db
    <2>5. Open(Db, Source(Db, e))
      BY <2>4 DEF OrderInv, Flight, ResultIsOpen
    <2>6. Flight(Db, handling, taken) /\ Shape(Db) /\ Db \in DbType
          /\ Db.saga = saga
      BY InvParts DEF OrderInv, Db
    <2>7. \A c \in Commands : ~Open(Db, c)
      BY <1>1, <2>6, OpenSaga
    <2>8. Idle(Db, handling, taken)
      BY <2>6, <2>7, ClosedIdle
    <2>9. QED
      BY <1>3, <2>4, <2>8 DEF Idle, NoResult
  <1>4. ASSUME NEW i \in Steps, NEW e \in Events, Fresh(e), NEW tx \in Ingest(e)
        PROVE  tx.step[i] # "AWAITING_HUMAN"
    BY <1>1, <1>4, HeldOrder
  <1>5. ASSUME NEW i \in Steps, HandleStep(i)
        PROVE  saga' = saga
    <2>1. CASE HandleStepCompleted(i)
      <3>1. PICK e \in ResultEvents : e = <<"STEP_COMPLETED", i, 0>>
        BY DEF ResultEvents
      <3>2. QED
        BY <1>3, <2>1, <3>1 DEF HandleStepCompleted
    <2>2. CASE HandleStepFailed(i)
      <3>1. PICK e \in ResultEvents : e = <<"STEP_FAILED", i, 0>>
        BY DEF ResultEvents
      <3>2. QED
        BY <1>3, <2>2, <3>1 DEF HandleStepFailed
    <2>3. CASE HandleHumanApproved(i)
      <3>1. PICK e \in Events : e = <<"HUMAN_APPROVED", i, 0>>
        BY EventTypes
      <3>2. PICK tx \in Ingest(e) : \E t \in OnHumanApproved(tx, i) : Commit(t)
        BY <2>3, <3>1 DEF HandleHumanApproved
      <3>3. Fresh(e)
        BY <2>3, <3>1 DEF HandleHumanApproved
      <3>4. Commit(tx)
        BY <1>4, <3>2, <3>3 DEF OnHumanApproved
      <3>5. QED
        BY <1>2, <3>3, <3>4 DEF Fresh
    <2>4. CASE HandleHumanRejected(i)
      <3>1. PICK e \in Events : e = <<"HUMAN_REJECTED", i, 0>>
        BY EventTypes
      <3>2. PICK tx \in Ingest(e), error \in Errors :
              \E t \in OnHumanRejected(tx, i, error) : Commit(t)
        BY <2>4, <3>1 DEF HandleHumanRejected
      <3>3. Fresh(e)
        BY <2>4, <3>1 DEF HandleHumanRejected
      <3>4. Commit(tx)
        BY <1>4, <3>2, <3>3 DEF OnHumanRejected
      <3>5. QED
        BY <1>2, <3>3, <3>4 DEF Fresh
    <2>5. ASSUME NEW a \in Asks, HandleHumanRetry(i, a)
          PROVE  saga' = saga
      <3>1. PICK e \in Events : e = <<"HUMAN_RETRY", i, a>>
        BY EventTypes
      <3>2. PICK tx \in Ingest(e) : \E t \in OnHumanRetry(tx, i) : Commit(t)
        BY <2>5, <3>1 DEF HandleHumanRetry
      <3>3. Fresh(e)
        BY <2>5, <3>1 DEF HandleHumanRetry
      <3>4. Commit(tx)
        BY <1>4, <3>2, <3>3 DEF OnHumanRetry, RetryAllowed
      <3>5. QED
        BY <1>2, <3>3, <3>4 DEF Fresh
    <2>6. QED
      BY <1>5, <2>1, <2>2, <2>3, <2>4, <2>5 DEF HandleStep
  <1>6. ASSUME NEW s \in Steps, NEW u \in Undos, HandleUndo(s, u)
        PROVE  saga' = saga
    <2>1. /\ <<"STEP_COMPENSATED", s, u>> \in ResultEvents
          /\ <<"COMPENSATION_FAILED", s, u>> \in ResultEvents
      BY DEF ResultEvents
    <2>2. HandleUndoReportedAsStep(s, u)
      BY <1>3, <1>6, <2>1
         DEF HandleUndo, HandleStepCompensated, HandleCompensationFailed
    <2>3. PICK e \in Events : e = <<"STEP_FAILED", s, u>>
      BY EventTypes
    <2>4. PICK tx \in Ingest(e) : Commit(tx)
      BY <2>2, <2>3 DEF HandleUndoReportedAsStep
    <2>5. QED
      BY <1>2, <2>2, <2>3, <2>4 DEF HandleUndoReportedAsStep, Fresh
  <1>7. ASSUME NEW type \in {"SAGA_FAILED", "SAGA_COMPENSATED"}, HandleNotice(type)
        PROVE  saga' = saga
    <2>1. PICK e \in Events : e = <<type, 0, 0>>
      BY EventTypes
    <2>2. PICK tx \in Ingest(e) : Commit(tx)
      BY <1>7, <2>1 DEF HandleNotice
    <2>3. QED
      BY <1>2, <1>7, <2>1, <2>2 DEF HandleNotice, Fresh
  <1>8. CASE HandleSagaStarted
    <2>1. PICK e \in Events : e = <<"SAGA_STARTED", 0, 0>>
      BY EventTypes
    <2>2. PICK tx \in Ingest(e) : \E t \in OnSagaStarted(tx) : Commit(t)
      BY <1>8, <2>1 DEF HandleSagaStarted
    <2>3. e \in handling
      BY <1>8, <2>1 DEF HandleSagaStarted, Fresh
    <2>4. tx.saga = saga
      BY <2>3, IngestOrder
    <2>5. Commit(tx)
      BY <1>1, <2>2, <2>4 DEF OnSagaStarted
    <2>6. QED
      BY <1>2, <2>3, <2>5
  <1>9. CASE HandleSagaCompleted
    <2>1. PICK e \in Events : e = <<"SAGA_COMPLETED", 0, 0>>
      BY EventTypes
    <2>2. PICK tx \in Ingest(e) : Commit(CompleteSaga(tx))
      BY <1>9, <2>1 DEF HandleSagaCompleted
    <2>3. e \in handling
      BY <1>9, <2>1 DEF HandleSagaCompleted, Fresh
    <2>4. tx.saga = "COMPLETED"
      BY <2>1, <2>3, IngestOrder DEF OrderInv, Flight, Shape, Db, Completion
    <2>5. Commit(tx)
      BY <2>2, <2>4 DEF CompleteSaga
    <2>6. QED
      BY <1>2, <2>3, <2>5
  <1>10. ASSUME NEW e \in Events, HandleDuplicate(e)
         PROVE  saga' = saga
    BY <1>2, <1>10 DEF HandleDuplicate
  <1>11. CASE Engine
    BY <1>5, <1>6, <1>7, <1>8, <1>9, <1>10, <1>11 DEF Engine, PollEvent
  <1>12. ASSUME NEW c, NEW e \in Events, NEW mark, Report(c, e, mark)
         PROVE  saga' = saga
    <2>1. PICK s \in Acked(c) :
            Commit(Publish([Db EXCEPT !.claim[c] = mark, !.row[c] = s], e))
      BY <1>12 DEF Report
    <2>2. QED
      BY <2>1 DEF Commit, Publish, Db
  <1>13. CASE Worker
    <2>1. ASSUME NEW i \in Steps, NEW k \in Keys,
                 WorkerCompletes(i, k) \/ WorkerFails(i, k)
          PROVE  saga' = saga
      BY <1>12, <2>1, EventTypes DEF WorkerCompletes, WorkerFails
    <2>2. ASSUME NEW s \in Steps, NEW u \in Undos,
                 \/ WorkerUndoes(s, u)
                 \/ WorkerFailsToUndo(s, u)
                 \/ WorkerHasNoAdapter(s, u)
          PROVE  saga' = saga
      BY <1>12, <2>2, EventTypes
         DEF WorkerUndoes, WorkerFailsToUndo, WorkerHasNoAdapter
    <2>3. QED
      BY <1>13, <2>1, <2>2
         DEF Worker, WorkerTakes, WorkerClaims, WorkerSkips, SupersededReturns
  <1>14. CASE Reviewer
    BY <1>14 DEF Reviewer, Decide, DecideAgain, AskRetry
  <1>15. CASE Operator
    BY <1>1, <1>15 DEF Operator, Orderly, RetryStep, RetryCompensation,
                       RetryForward, StartCompensation, AwaitingOperator
  <1>16. CASE Fault
    BY <1>16 DEF Fault, Orderly, HandlerRaises, ReapEvent, EngineCrash, tables,
                 WorkerRaises, WorkerCrash, ReapCommand, ReapClaim
  <1>17. CASE UNCHANGED vars
    BY <1>17 DEF vars, tables
  <1>18. QED
    BY <1>11, <1>13, <1>14, <1>15, <1>16, <1>17 DEF Next

\* An outcome, once announced, is final: late or repeated events find no step
\* to act on, and the operator's commands ask for a held saga.
THEOREM OutcomesAreFinal ==
    ASSUME Orderly
    PROVE  Spec => OutcomeIsFinal
  <1>1. Inv /\ OrderInv /\ [Next]_vars =>
            [Ended => \/ saga' = saga
                      \/ saga = "FAILED" /\ saga' = "COMPENSATING"
                            /\ "retry_compensation" \in Ops]_vars
    BY EndedStays
  <1>2. QED
    BY <1>1, AlwaysOrder, PTL DEF Spec, OutcomeIsFinal

=============================================================================
