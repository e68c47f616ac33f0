------------------------- MODULE SagaProgressProofs -------------------------
(***************************************************************************)
(* Theorems about what keeps a saga of SagaEngine going: the step or the   *)
(* undo it waits for is always with a worker, or its result on the way to  *)
(* the engine; and about what it keeps: a step that completed stays so.    *)
(***************************************************************************)
EXTENDS SagaOrderProofs

\* What the first of them assumes besides Orderly.  A handler that raises
\* leaves a FAILED row that nobody reads again, and an undo without an adapter
\* is reported under a type that its handler ignores.
Steady == Orderly /\ {"raise", "adapter"} \cap Faults = {}

-----------------------------------------------------------------------------
(* What is in stock *)

\* The events that may answer a command.
ResultsOf(c) ==
    IF c[1] = "fwd" THEN Results(c[2])
    ELSE {<<"STEP_COMPENSATED", c[2], c[3]>>, <<"COMPENSATION_FAILED", c[2], c[3]>>}

Unanswered(tx, c) ==
    \A e \in ResultsOf(c) : tx.event[e] = "none" /\ e \notin tx.seen

\* The command was never sent, and its outbox keys were never used.
Ready(tx, c) == tx.row[c] = "none" /\ Unanswered(tx, c)

\* The step has yet to be sent out under its key.
Waits(tx, i) ==
    \/ tx.step[i] \in {"PENDING", "SKIPPED"}
    \/ tx.step[i] = "AWAITING_HUMAN" /\ manifest[i].kind = "commit"

\* The command of a step under its current key.
Upcoming(tx, i) == <<"fwd", i, tx.key[i]>>

\* What will have to be sent can be sent.
Stock(tx) ==
    /\ \A i \in Steps, k \in Keys :
          k > tx.key[i] => tx.row[<<"fwd", i, k>>] = "none"
    /\ \A i \in Steps : Waits(tx, i) => Ready(tx, Upcoming(tx, i))
    /\ \A s \in Steps, u \in Undos :
          tx.undo[s][u] = "none" => Ready(tx, <<"undo", s, u>>)

\* The open command, if there is one, was just sent.
Fed(tx) ==
    \A c \in Commands : Open(tx, c) => tx.row[c] = "PENDING" /\ Unanswered(tx, c)

\* A saga that unwinds has an undo that runs.
Busy(tx) == tx.saga = "COMPENSATING" => ~NoneRuns(tx)

\* Rows tell what became of the claims, and events what is to be handled.
Tidy(tx, H, T) ==
    /\ \A c \in Commands :
          /\ tx.row[c] # "FAILED"
          /\ tx.claim[c] = "held" \/ c \in T => tx.row[c] = "IN_PROGRESS"
          /\ tx.claim[c] = "emitted" => tx.row[c] = "COMPLETED"
    /\ \A e \in ResultEvents :
          e \notin tx.seen /\ (tx.event[e] # "none" \/ e \in H) =>
              tx.event[e] \in {"PENDING", "IN_PROGRESS"}

\* The open command is with a worker, and nothing answers it yet, or an answer
\* is to be handled.
Pursued(tx, H, T) ==
    \A c \in Commands :
        Open(tx, c) => \/ AtWork(tx, T, c) /\ Unanswered(tx, c)
                       \/ \E e \in ResultsOf(c) : Due(tx, H, e)

\* For the contents tx, the events H that engines hold and the commands T that
\* workers hold.
Progress(tx, H, T) ==
    Stock(tx) /\ Busy(tx) /\ Tidy(tx, H, T) /\ Pursued(tx, H, T)

ProgressInv == Progress(Db, handling, taken) /\ superseded = {}

-----------------------------------------------------------------------------
(* What a handler does to the stock *)

\* A completed step stays so, unless its undo cannot be built.
Lasting(tx, t) ==
    \A i \in Steps :
        tx.step[i] = "COMPLETED" =>
            \/ t.step[i] = "COMPLETED"
            \/ t.step[i] = "FAILED" /\ t.saga = "FAILED"

\* A handler sends what is ready, and leaves the rest in stock.
Supplies(tx, t) ==
    /\ \A c \in Commands : \/ t.row[c] = tx.row[c]
                           \/ tx.row[c] = "none" /\ t.row[c] = "PENDING"
    /\ Busy(t)
    /\ Lasting(tx, t)
    /\ Stock(tx) => Stock(t) /\ Fed(t)

\* A write before a handler that takes nothing from the stock.
Saves(tx, t) ==
    /\ t.row = tx.row
    /\ \A i \in Steps : tx.step[i] = "COMPLETED" => t.step[i] = "COMPLETED"
    /\ Stock(tx) => Stock(t)

\* Answers of commands are results.
LEMMA ResultsOfTypes ==
    ASSUME NEW c \in Commands
    PROVE  ResultsOf(c) \subseteq ResultEvents
  BY DEF Commands, ResultsOf, Results, ResultEvents

\* The forward command of a step, and the undo commands.
LEMMA CommandTypes ==
    /\ \A i \in Steps, k \in Keys : <<"fwd", i, k>> \in Commands
    /\ \A s \in Steps, u \in Undos : <<"undo", s, u>> \in Commands
  BY DEF Commands

\* What is ready stays so where neither its row nor its answers are written.
LEMMA ReadyFramed ==
    ASSUME NEW tx, NEW t, Framed(tx, t), NEW c \in Commands
    PROVE  /\ Unanswered(tx, c) => Unanswered(t, c)
           /\ Ready(tx, c) /\ t.row[c] = tx.row[c] => Ready(t, c)
  <1>1. ResultsOf(c) \subseteq ResultEvents
    BY ResultsOfTypes
  <1>2. Unanswered(tx, c) => Unanswered(t, c)
    BY <1>1 DEF Unanswered, Framed
  <1>3. QED
    BY <1>2 DEF Ready

\* A write that sends nothing keeps the stock, if no step and no undo begins
\* to wait but those that are ready.
LEMMA StockKept ==
    ASSUME NEW tx \in DbType, NEW t, Framed(tx, t), Stock(tx),
           \A i \in Steps : Waits(t, i) => Ready(tx, Upcoming(tx, i)),
           \A s \in Steps, u \in Undos :
              t.undo[s][u] = "none" => tx.undo[s][u] = "none",
           \A c \in Commands : \/ t.row[c] = tx.row[c]
                               \/ Open(t, c)
    PROVE  Stock(t)
  <1>1. t.key = tx.key /\ \A i \in Steps : tx.key[i] \in Keys
    BY DEF Framed, DbType
  <1>2. ASSUME NEW i \in Steps, NEW k \in Keys, k > t.key[i]
        PROVE  t.row[<<"fwd", i, k>>] = "none"
    <2>1. PICK c \in Commands : c = <<"fwd", i, k>>
      BY CommandTypes
    <2>2. ~Open(t, c)
      BY <1>1, <1>2, <2>1 DEF Open, Keys
    <2>3. QED
      BY <1>1, <1>2, <2>1, <2>2 DEF Stock
  <1>3. ASSUME NEW i \in Steps, Waits(t, i)
        PROVE  Ready(t, Upcoming(t, i))
    <2>1. PICK c \in Commands : c = Upcoming(tx, i)
      BY <1>1, CommandTypes DEF Upcoming
    <2>2. ~Open(t, c)
      BY <1>3, <2>1 DEF Open, Waits, Upcoming
    <2>3. Ready(t, c)
      BY <1>3, <2>1, <2>2, ReadyFramed
    <2>4. QED
      BY <1>1, <2>1, <2>3 DEF Upcoming
  <1>4. ASSUME NEW s \in Steps, NEW u \in Undos, t.undo[s][u] = "none"
        PROVE  Ready(t, <<"undo", s, u>>)
    <2>1. PICK c \in Commands : c = <<"undo", s, u>>
      BY CommandTypes
    <2>2. ~Open(t, c)
      BY <1>4, <2>1 DEF Open
    <2>3. Ready(tx, c)
      BY <1>4, <2>1 DEF Stock
    <2>4. QED
      BY <2>1, <2>2, <2>3, ReadyFramed
  <1>5. QED
    BY <1>2, <1>3, <1>4 DEF Stock

\* A handler that sends at most the open command, once it is ready.
LEMMA Supplied ==
    ASSUME NEW tx \in DbType, NEW t, Reached(tx, t),
           \A c \in Commands :
              \/ t.row[c] = tx.row[c]
              \/ Open(t, c) /\ tx.row[c] = "none" /\ t.row[c] = "PENDING",
           Stock(tx) => \A c \in Commands :
              Open(t, c) => t.row[c] = "PENDING" /\ Ready(tx, c),
           Stock(tx) => \A i \in Steps : Waits(t, i) => Ready(tx, Upcoming(tx, i)),
           \A s \in Steps, u \in Undos :
              t.undo[s][u] = "none" => tx.undo[s][u] = "none",
           Busy(t), Lasting(tx, t)
    PROVE  Supplies(tx, t)
  <1>1. Framed(tx, t)
    BY DEF Reached
  <1>2. ASSUME Stock(tx)
        PROVE  Stock(t) /\ Fed(t)
    <2>1. Stock(t)
      BY <1>1, <1>2, StockKept
    <2>2. Fed(t)
      BY <1>1, <1>2, ReadyFramed DEF Fed, Ready
    <2>3. QED
      BY <2>1, <2>2
  <1>3. QED
    BY <1>2 DEF Supplies

\* A handler after which no command is open: the saga ended, or is held.
LEMMA EndSupplies ==
    ASSUME NEW tx \in DbType, NEW t, Reached(tx, t),
           t.saga \notin {"RUNNING", "COMPENSATING"}, t.row = tx.row,
           Stock(tx) => \A i \in Steps : Waits(t, i) => Ready(tx, Upcoming(tx, i)),
           \A s \in Steps, u \in Undos :
              t.undo[s][u] = "none" => tx.undo[s][u] = "none",
           Lasting(tx, t)
    PROVE  Supplies(tx, t)
  <1>1. t \in DbType /\ Shape(t)
    BY DEF Reached, Framed
  <1>2. \A c \in Commands : ~Open(t, c)
    BY <1>1, OpenSaga
  <1>3. Busy(t)
    BY DEF Busy
  <1>4. QED
    BY <1>2, <1>3, Supplied

\* A write that sends nothing saves the stock, if nothing new waits.
LEMMA WriteSaves ==
    ASSUME NEW tx \in DbType, NEW t, Framed(tx, t), t.row = tx.row,
           \A i \in Steps : Waits(t, i) => Waits(tx, i),
           \A s \in Steps, u \in Undos :
              t.undo[s][u] = "none" => tx.undo[s][u] = "none",
           \A i \in Steps : tx.step[i] = "COMPLETED" => t.step[i] = "COMPLETED"
    PROVE  Saves(tx, t)
  <1>1. ASSUME Stock(tx)
        PROVE  \A i \in Steps : Waits(t, i) => Ready(tx, Upcoming(tx, i))
    BY <1>1 DEF Stock
  <1>2. Stock(tx) => Stock(t)
    BY <1>1, StockKept
  <1>3. QED
    BY <1>2 DEF Saves

\* A handler that starts with other writes.
LEMMA SuppliesFrom ==
    ASSUME NEW a, NEW b, NEW c, Saves(a, b), Supplies(b, c)
    PROVE  Supplies(a, c)
  BY DEF Saves, Supplies, Lasting

-----------------------------------------------------------------------------
(* Compensation, failure and scheduling *)

\* Ending the saga.
LEMMA CloseSupplies ==
    ASSUME NEW tx \in DbType, NEW status \in {"COMPLETED", "FAILED", "COMPENSATED"},
           NEW notice \in {"SAGA_COMPLETED", "SAGA_FAILED", "SAGA_COMPENSATED"},
           NEW t, t = Close(tx, status, notice), Reached(tx, t)
    PROVE  Supplies(tx, t)
  <1>1. ClosedAs(tx, t, status, notice)
    BY CloseFields, StatusSets DEF SagaStatus
  <1>2. \A i \in Steps : Waits(t, i) => Waits(tx, i)
    BY <1>1 DEF ClosedAs, Waits
  <1>3. Stock(tx) => \A i \in Steps : Waits(t, i) => Ready(tx, Upcoming(tx, i))
    BY <1>2 DEF Stock
  <1>4. Lasting(tx, t)
    BY <1>1 DEF ClosedAs, Lasting
  <1>5. QED
    BY <1>1, <1>3, <1>4, EndSupplies DEF ClosedAs

\* Sending the command of the step or the undo that was just made active.
LEMMA SendSupplies ==
    ASSUME NEW tx \in DbType, NEW c \in Commands, NEW a \in DbType, Framed(tx, a),
           a.row = tx.row, NEW t, t = Dispatch(a, c), Reached(tx, t), Open(a, c),
           Stock(tx) => Ready(tx, c),
           \A i \in Steps : Waits(a, i) => Waits(tx, i),
           \A s \in Steps, u \in Undos :
              a.undo[s][u] = "none" => tx.undo[s][u] = "none",
           Lasting(tx, a)
    PROVE  Supplies(tx, t)
  <1>1. /\ t \in DbType
        /\ t.saga = a.saga /\ t.step = a.step /\ t.err = a.err
        /\ t.undo = a.undo /\ t.key = a.key /\ t.claim = a.claim
        /\ t.event = a.event /\ t.seen = a.seen
        /\ \A d \in Commands :
              t.row[d] = IF d = c /\ a.row[c] = "none" THEN "PENDING"
                         ELSE a.row[d]
    BY DispatchFields
  <1>2. Shape(t)
    BY DEF Reached
  <1>3. Open(t, c)
    BY <1>1 DEF Open
  <1>4. \A d \in Commands : Open(t, d) => d = c
    BY <1>1, <1>2, <1>3, OpenUnique
  <1>5. \A d \in Commands :
           \/ t.row[d] = tx.row[d]
           \/ Open(t, d) /\ tx.row[d] = "none" /\ t.row[d] = "PENDING"
    BY <1>1, <1>3
  <1>6. Stock(tx) => \A d \in Commands :
           Open(t, d) => t.row[d] = "PENDING" /\ Ready(tx, d)
    BY <1>1, <1>4 DEF Ready
  <1>7. Stock(tx) => \A i \in Steps : Waits(t, i) => Ready(tx, Upcoming(tx, i))
    BY <1>1 DEF Stock, Waits
  <1>8. \A s \in Steps, u \in Undos : t.undo[s][u] = "none" => tx.undo[s][u] = "none"
    BY <1>1
  <1>9. Lasting(tx, t)
    BY <1>1 DEF Lasting
  <1>10. Busy(t)
    <2> SUFFICES ASSUME t.saga = "COMPENSATING"
                 PROVE  ~NoneRuns(t)
      BY DEF Busy
    <2>1. c[1] # "fwd"
      BY <1>1, <1>2, <1>3, OpenSaga
    <2>2. c[2] \in Steps /\ c[3] \in Undos
      BY <2>1 DEF Commands
    <2>3. QED
      BY <1>3, <2>1, <2>2 DEF Open, NoneRuns
  <1>11. QED
    BY <1>5, <1>6, <1>7, <1>8, <1>9, <1>10, Supplied

\* _schedule_compensation_for_forward, when the command can be built
LEMMA ScheduleUndoSupplies ==
    ASSUME NEW tx, Unwinding(tx), NEW from \in Int, Clear(tx, from),
           NEW s \in Last(ToUndo(tx, from)), NEW u \in NewUndo(tx, s)
    PROVE  Supplies(tx, Dispatch([tx EXCEPT !.undo[s][u] = "COMPENSATING"],
                                 <<"undo", s, u>>))
  <1>1. tx \in DbType /\ s \in Steps /\ u \in Undos /\ tx.undo[s][u] = "none"
    BY DEF Unwinding, Calm, Last, ToUndo, NewUndo
  <1>2. PICK a : a = SetUndo(tx, s, u, "COMPENSATING")
    OBVIOUS
  <1>3. /\ a \in DbType
        /\ SameFlight(tx, a)
        /\ a.saga = tx.saga /\ a.step = tx.step /\ a.err = tx.err
        /\ \A r \in Steps, v \in Undos :
              a.undo[r][v] = IF r = s /\ v = u THEN "COMPENSATING"
                             ELSE tx.undo[r][v]
    BY <1>1, <1>2, UndoFields, StatusSets
  <1>4. Framed(tx, a) /\ a.row = tx.row
    BY <1>3 DEF Framed, SameFlight
  <1>5. PICK c \in Commands : c = <<"undo", s, u>>
    BY <1>1, CommandTypes
  <1>6. PICK t : t = Dispatch(a, c)
    OBVIOUS
  <1>7. Reached(tx, t)
    BY <1>2, <1>5, <1>6, ScheduleUndoReaches DEF SetUndo
  <1>8. Open(a, c)
    BY <1>1, <1>3, <1>5 DEF Open
  <1>9. Stock(tx) => Ready(tx, c)
    BY <1>1, <1>5 DEF Stock
  <1>10. \A i \in Steps : Waits(a, i) => Waits(tx, i)
    BY <1>3 DEF Waits
  <1>11. Lasting(tx, a)
    BY <1>3 DEF Lasting
  <1>12. \A r \in Steps, v \in Undos : a.undo[r][v] = "none" => tx.undo[r][v] = "none"
    BY <1>3
  <1>13. Supplies(tx, t)
    BY <1>1, <1>3, <1>4, <1>6, <1>7, <1>8, <1>9, <1>10, <1>11, <1>12, SendSupplies
  <1>14. QED
    BY <1>2, <1>5, <1>6, <1>13 DEF SetUndo

\* An undo whose command cannot be built
LEMMA UnbuiltUndoSupplies ==
    ASSUME NEW tx, Unwinding(tx), NEW from, NEW s \in ToUndo(tx, from)
    PROVE  Supplies(tx, Close([Mark(tx, s, "FAILED") EXCEPT !.err[s] = "clean"],
                              "FAILED", "SAGA_FAILED"))
  <1>1. /\ tx \in DbType /\ s \in Steps /\ "FAILED" \in StepStatus
        /\ "clean" \in Errors
    BY StatusSets DEF Unwinding, Calm, ToUndo, Errors
  <1>2. PICK m : m = Mark(tx, s, "FAILED")
    OBVIOUS
  <1>3. /\ m \in DbType
        /\ SameFlight(tx, m)
        /\ m.saga = tx.saga /\ m.err = tx.err /\ m.undo = tx.undo
        /\ m.step[s] = "FAILED"
        /\ \A r \in Steps : r # s => m.step[r] = tx.step[r]
    BY <1>1, <1>2, MarkFields
  <1>4. PICK a : a = SetErr(m, s, "clean")
    OBVIOUS
  <1>5. /\ a \in DbType
        /\ SameFlight(m, a)
        /\ a.saga = m.saga /\ a.step = m.step /\ a.undo = m.undo
    BY <1>1, <1>3, <1>4, ErrFields
  <1>6. PICK t : t = Close(a, "FAILED", "SAGA_FAILED")
    OBVIOUS
  <1>7. ClosedAs(a, t, "FAILED", "SAGA_FAILED")
    BY <1>5, <1>6, CloseFields, StatusSets
  <1>8. Reached(tx, t)
    BY <1>2, <1>4, <1>6, UnbuiltUndoReaches DEF SetErr
  <1>9. \A i \in Steps : Waits(t, i) => Waits(tx, i)
    BY <1>3, <1>5, <1>7 DEF ClosedAs, Waits
  <1>10. Stock(tx) => \A i \in Steps : Waits(t, i) => Ready(tx, Upcoming(tx, i))
    BY <1>9 DEF Stock
  <1>11. Lasting(tx, t)
    BY <1>3, <1>5, <1>7 DEF ClosedAs, Lasting
  <1>12. t.row = tx.row /\ t.undo = tx.undo /\ t.saga = "FAILED"
    BY <1>3, <1>5, <1>7 DEF ClosedAs, SameFlight
  <1>13. Supplies(tx, t)
    BY <1>1, <1>8, <1>10, <1>11, <1>12, EndSupplies
  <1>14. QED
    BY <1>2, <1>4, <1>6, <1>13 DEF SetErr

\* _advance_lifo_compensation
LEMMA UnwindSupplies ==
    ASSUME NEW tx, Unwinding(tx), NEW from \in Int, Clear(tx, from),
           NEW t \in Unwind(tx, from)
    PROVE  Supplies(tx, t)
  <1>1. tx \in DbType /\ Reached(tx, t)
    BY UnwindReaches DEF Unwinding, Calm
  <1>2. CASE ToUndo(tx, from) = {}
    <2>1. t = Close(tx, "COMPENSATED", "SAGA_COMPENSATED")
      BY <1>2 DEF Unwind
    <2>2. QED
      BY <1>1, <2>1, CloseSupplies
  <1>3. CASE ToUndo(tx, from) # {}
    <2>1. PICK s \in Last(ToUndo(tx, from)) :
            t \in (IF HasUndo(tx, s, "COMPENSATING") THEN {tx}
                   ELSE ScheduleUndo(tx, s))
      BY <1>3 DEF Unwind
    <2>2. s \in Steps /\ s \in ToUndo(tx, from)
      BY DEF Last, ToUndo
    <2>3. t \in ScheduleUndo(tx, s)
      BY <2>1, <2>2 DEF Unwinding, NoneRuns, HasUndo
    <2>4. QED
      BY <2>2, <2>3, ScheduleUndoSupplies, UnbuiltUndoSupplies DEF ScheduleUndo
  <1>4. QED
    BY <1>2, <1>3

\* _apply_step_failure_lifecycle, for the step at the front
LEMMA FailSupplies ==
    ASSUME NEW tx, Calm(tx), NEW i \in Steps, Front(tx, i), tx.err[i] = "none",
           tx.step[i] # "COMPLETED",
           NEW error \in Errors, NEW t \in Fail(tx, i, error)
    PROVE  Supplies(tx, t)
  <1>1. PICK to : to = FailedAs(tx, i, error)
    OBVIOUS
  <1>2. to \in {"FAILED", "TIMED_OUT"}
    BY <1>1 DEF FailedAs
  <1>3. PICK a : a = FailedRow(tx, i, to, error)
    OBVIOUS
  <1>4. /\ Calm(a)
        /\ Framed(tx, a)
        /\ At(a, i, {"FAILED", "TIMED_OUT"})
        /\ a.step[i] = to /\ a.err[i] = error
        /\ a.row = tx.row /\ a.undo = tx.undo
        /\ \A s \in Steps : s # i => a.step[s] = tx.step[s]
    BY <1>2, <1>3, FailMarks
  <1>5. PICK from :
          from = IF to = "TIMED_OUT" \/ error = "crash" THEN i ELSE i - 1
    OBVIOUS
  <1>6. \/ t = SetSaga(a, "AWAITING_RECOVERY")
        \/ t = Close(a, "FAILED", "SAGA_FAILED")
        \/ t \in Unwind(SetSaga(a, "COMPENSATING"), from)
    BY <1>1, <1>3, <1>5 DEF Fail, FailedRow, SetSaga
  <1>7. tx \in DbType /\ a \in DbType
    BY <1>4 DEF Calm
  <1>8. Reached(tx, t)
    BY FailReaches
  <1>9. \A s \in Steps : /\ Waits(a, s) => Waits(tx, s)
                         /\ tx.step[s] = "COMPLETED" => a.step[s] = "COMPLETED"
    BY <1>2, <1>4 DEF Waits
  <1>10. Stock(tx) => \A s \in Steps : Waits(a, s) => Ready(tx, Upcoming(tx, s))
    BY <1>9 DEF Stock
  <1>11. CASE t = SetSaga(a, "AWAITING_RECOVERY")
    <2>1. /\ t.saga = "AWAITING_RECOVERY"
          /\ t.step = a.step /\ t.undo = a.undo /\ t.row = a.row
      BY <1>7, <1>11, SagaFields, StatusSets DEF SameFlight
    <2>2. Stock(tx) => \A s \in Steps : Waits(t, s) => Ready(tx, Upcoming(tx, s))
      BY <1>10, <2>1 DEF Waits
    <2>3. Lasting(tx, t)
      BY <1>9, <2>1 DEF Lasting
    <2>4. QED
      BY <1>4, <1>7, <1>8, <2>1, <2>2, <2>3, EndSupplies
  <1>12. CASE t = Close(a, "FAILED", "SAGA_FAILED")
    <2>1. ClosedAs(a, t, "FAILED", "SAGA_FAILED")
      BY <1>7, <1>12, CloseFields, StatusSets
    <2>2. t.saga = "FAILED" /\ t.undo = tx.undo /\ t.row = tx.row
      BY <1>4, <2>1 DEF ClosedAs
    <2>3. \A s \in Steps : Waits(t, s) => Waits(a, s)
      BY <2>1 DEF ClosedAs, Waits
    <2>4. Lasting(tx, t)
      BY <1>9, <2>1 DEF ClosedAs, Lasting
    <2>5. Stock(tx) => \A s \in Steps : Waits(t, s) => Ready(tx, Upcoming(tx, s))
      BY <1>10, <2>3
    <2>6. QED
      BY <1>7, <1>8, <2>2, <2>4, <2>5, EndSupplies
  <1>13. CASE t \in Unwind(SetSaga(a, "COMPENSATING"), from)
    <2>1. PICK b : b = SetSaga(a, "COMPENSATING")
      OBVIOUS
    <2>2. from \in Int /\ Clear(a, from)
      BY <1>2, <1>4, <1>5, FailedFront DEF Steps
    <2>3. /\ Unwinding(b) /\ Clear(b, from)
          /\ Framed(a, b)
          /\ b.step = a.step /\ b.row = a.row /\ b.undo = a.undo
      BY <1>4, <2>1, <2>2, FailUnwinds
    <2>4. Framed(tx, b)
      BY <1>4, <2>3, FramedTrans
    <2>5. \A s \in Steps : /\ Waits(b, s) => Waits(tx, s)
                           /\ tx.step[s] = "COMPLETED" => b.step[s] = "COMPLETED"
      BY <1>9, <2>3 DEF Waits
    <2>6. Saves(tx, b)
      BY <1>4, <1>7, <2>3, <2>4, <2>5, WriteSaves
    <2>7. Supplies(b, t)
      BY <1>13, <2>1, <2>2, <2>3, UnwindSupplies
    <2>8. QED
      BY <2>6, <2>7, SuppliesFrom
  <1>14. QED
    BY <1>6, <1>11, <1>12, <1>13

\* A failure that the engine itself finds
LEMMA FailByEngineSupplies ==
    ASSUME NEW tx, Calm(tx), NEW i \in Steps, Front(tx, i), tx.err[i] = "none",
           tx.step[i] # "COMPLETED", NEW t \in FailByEngine(tx, i)
    PROVE  Supplies(tx, t)
  BY FailSupplies DEF FailByEngine, EngineErrors, Errors

\* Holding the step at the front for a human: a commit step still has to be
\* sent out.
LEMMA HoldSupplies ==
    ASSUME NEW tx, Calm(tx), NEW i \in Steps, Front(tx, i), tx.err[i] = "none",
           tx.step[i] # "COMPLETED",
           manifest[i].kind = "commit" =>
               (Stock(tx) => Ready(tx, Upcoming(tx, i)))
    PROVE  Supplies(tx, Hold(tx, i))
  <1>1. tx \in DbType
    BY DEF Calm
  <1>2. PICK t : t = Hold(tx, i)
    OBVIOUS
  <1>3. /\ t.saga = "AWAITING_HUMAN" /\ t.undo = tx.undo /\ t.row = tx.row
        /\ t.step[i] = "AWAITING_HUMAN"
        /\ \A s \in Steps : s # i => t.step[s] = tx.step[s]
    BY <1>1, <1>2, HoldFields DEF SameFlight
  <1>4. Reached(tx, t)
    BY <1>2, HoldReaches
  <1>5. Stock(tx) => \A s \in Steps : Waits(t, s) => Ready(tx, Upcoming(tx, s))
    BY <1>3 DEF Waits, Stock
  <1>6. Lasting(tx, t)
    BY <1>3 DEF Lasting
  <1>7. QED
    BY <1>1, <1>2, <1>3, <1>4, <1>5, <1>6, EndSupplies

\* trigger_step, for the step at the front of a running saga
LEMMA TriggerSupplies ==
    ASSUME NEW tx, Calm(tx), NEW i \in Steps, Front(tx, i), tx.err[i] = "none",
           tx.saga = "RUNNING", NEW allowed,
           tx.step[i] \notin {"COMPLETED", "IN_PROGRESS", "AWAITING_HUMAN"} \ allowed,
           tx.step[i] # "COMPLETED",
           Stock(tx) => Ready(tx, Upcoming(tx, i)),
           NEW t \in Trigger(tx, i, allowed)
    PROVE  Supplies(tx, t)
  <1>1. tx \in DbType /\ "IN_PROGRESS" \in StepStatus
    BY DEF Calm, StepStatus
  <1>2. PICK a : a = Mark(tx, i, "IN_PROGRESS")
    OBVIOUS
  <1>3. /\ a \in DbType
        /\ SameFlight(tx, a)
        /\ a.saga = tx.saga /\ a.err = tx.err /\ a.undo = tx.undo
        /\ a.step[i] = "IN_PROGRESS"
        /\ \A s \in Steps : s # i => a.step[s] = tx.step[s]
    BY <1>1, <1>2, MarkFields
  <1>4. Calm(a) /\ Framed(tx, a)
    BY <1>3, SameFlightCalm
  <1>5. \A s \in Steps : s < i \/ s > i => s # i
    BY DEF Steps
  <1>6. Front(a, i) /\ a.err[i] = "none"
    BY <1>3, <1>5 DEF Front, NoUndo
  <1>7. a.row = tx.row /\ a.key = tx.key
    BY <1>3 DEF SameFlight
  <1>8. \A s \in Steps : /\ Waits(a, s) => Waits(tx, s)
                         /\ tx.step[s] = "COMPLETED" => a.step[s] = "COMPLETED"
    BY <1>3 DEF Waits
  <1>9. Saves(tx, a)
    BY <1>1, <1>3, <1>4, <1>7, <1>8, WriteSaves
  <1>10. PICK c \in Commands : c = Upcoming(tx, i)
    BY <1>1, CommandTypes DEF Upcoming, DbType
  <1>11. \/ t \in FailByEngine(a, i)
         \/ t = Hold(a, i)
         \/ t = Dispatch(a, c)
    BY <1>2, <1>7, <1>10 DEF Trigger, Upcoming
  <1>12. Reached(tx, t)
    BY TriggerReaches
  <1>13. CASE t \in FailByEngine(a, i)
    BY <1>3, <1>4, <1>6, <1>9, <1>13, FailByEngineSupplies, SuppliesFrom
  <1>14. CASE t = Hold(a, i)
    <2>1. /\ t.saga = "AWAITING_HUMAN" /\ t.undo = tx.undo /\ t.row = tx.row
          /\ \A s \in Steps : s # i => t.step[s] = tx.step[s]
      BY <1>3, <1>7, <1>14, HoldFields DEF SameFlight
    <2>2. Stock(tx) => \A s \in Steps : Waits(t, s) => Ready(tx, Upcoming(tx, s))
      BY <2>1 DEF Waits, Stock
    <2>3. Lasting(tx, t)
      BY <2>1 DEF Lasting
    <2>4. QED
      BY <1>1, <1>12, <2>1, <2>2, <2>3, EndSupplies
  <1>15. CASE t = Dispatch(a, c)
    <2>1. Open(a, c)
      BY <1>3, <1>7, <1>10 DEF Open, Upcoming
    <2>2. Lasting(tx, a)
      BY <1>8 DEF Lasting
    <2>3. QED
      BY <1>1, <1>3, <1>4, <1>7, <1>8, <1>10, <1>12, <1>15, <2>1, <2>2, SendSupplies
  <1>16. QED
    BY <1>11, <1>13, <1>14, <1>15

\* Whatever is in stock, triggering a step leaves completed ones alone.
LEMMA TriggerLasts ==
    ASSUME NEW tx, Calm(tx), NEW i \in Steps, Front(tx, i), tx.err[i] = "none",
           NEW allowed,
           tx.step[i] \notin {"COMPLETED", "IN_PROGRESS", "AWAITING_HUMAN"} \ allowed,
           tx.step[i] # "COMPLETED", NEW t \in Trigger(tx, i, allowed)
    PROVE  Lasting(tx, t)
  <1>1. tx \in DbType /\ "IN_PROGRESS" \in StepStatus
    BY DEF Calm, StepStatus
  <1>2. PICK a : a = Mark(tx, i, "IN_PROGRESS")
    OBVIOUS
  <1>3. /\ a \in DbType
        /\ SameFlight(tx, a)
        /\ a.err = tx.err /\ a.undo = tx.undo
        /\ a.step[i] = "IN_PROGRESS"
        /\ \A s \in Steps : s # i => a.step[s] = tx.step[s]
    BY <1>1, <1>2, MarkFields
  <1>4. \A s \in Steps : s < i \/ s > i => s # i
    BY DEF Steps
  <1>5. Calm(a) /\ Front(a, i) /\ a.err[i] = "none"
    BY <1>3, <1>4, SameFlightCalm DEF Front, NoUndo
  <1>6. \A s \in Steps : tx.step[s] = "COMPLETED" => a.step[s] = "COMPLETED" /\ s # i
    BY <1>3
  <1>7. PICK c \in Commands : c = <<"fwd", i, a.key[i]>>
    BY <1>3, CommandTypes DEF DbType
  <1>8. \/ t \in FailByEngine(a, i)
        \/ t = Hold(a, i)
        \/ t = Dispatch(a, c)
    BY <1>2, <1>7 DEF Trigger
  <1>9. CASE t \in FailByEngine(a, i)
    <2>1. Lasting(a, t)
      BY <1>3, <1>5, <1>9, FailByEngineSupplies DEF Supplies
    <2>2. QED
      BY <1>6, <2>1 DEF Lasting
  <1>10. CASE t = Hold(a, i)
    BY <1>3, <1>6, <1>10, HoldFields DEF Lasting
  <1>11. CASE t = Dispatch(a, c)
    BY <1>3, <1>6, <1>11, DispatchFields DEF Lasting
  <1>12. QED
    BY <1>8, <1>9, <1>10, <1>11

\* _schedule_next_forward_step
LEMMA ScheduleSupplies ==
    ASSUME NEW tx, NEW after \in Int, Passed(tx, after),
           NEW t \in Schedule(tx, after)
    PROVE  Supplies(tx, t)
  <1>1. PICK n \in Stops(after) :
          t \in (IF n = N THEN {CompleteSaga(Skip(tx, after, n))}
                 ELSE Trigger(Skip(tx, after, n), n, {}) \cup
                      (IF manifest[n].when
                       THEN FailByEngine(Skip(tx, after, n), n) ELSE {}))
    BY DEF Schedule
  <1>2. n \in 0 .. N
    BY DEF Stops
  <1>3. PICK a : a = Skip(tx, after, n)
    OBVIOUS
  <1>4. /\ Calm(a) /\ Framed(tx, a)
        /\ a.saga = "RUNNING"
        /\ \A s \in Steps : a.err[s] = "none"
        /\ NoUndo(a)
        /\ \A s \in Steps : s < n => a.step[s] \in {"COMPLETED", "SKIPPED"}
        /\ \A s \in Steps : n <= s => a.step[s] \in {"PENDING", "SKIPPED"}
        /\ a.row = tx.row /\ a.undo = tx.undo
        /\ \A s \in Steps : \/ a.step[s] = tx.step[s]
                            \/ tx.step[s] \in {"PENDING", "SKIPPED"}
    BY <1>3, SkipPasses
  <1>5. \A s \in Steps : /\ Waits(a, s) => Waits(tx, s)
                         /\ tx.step[s] = "COMPLETED" => a.step[s] = "COMPLETED"
    BY <1>4 DEF Waits
  <1>6. tx \in DbType /\ a \in DbType
    BY <1>4 DEF Passed, Calm
  <1>7. Saves(tx, a)
    BY <1>4, <1>5, <1>6, WriteSaves
  <1>8. CASE n = N
    <2>1. \A s \in Steps : s < n
      BY <1>8, NAssumption DEF Steps
    <2>2. t = CompleteSaga(a) /\ t = Close(a, "COMPLETED", "SAGA_COMPLETED")
      BY <1>1, <1>3, <1>4, <1>8 DEF CompleteSaga
    <2>3. Reached(a, t)
      BY <1>4, <2>1, <2>2, CompleteSagaReaches
    <2>4. QED
      BY <1>6, <1>7, <2>2, <2>3, CloseSupplies, SuppliesFrom
  <1>9. CASE n # N
    <2>1. n \in Steps
      BY <1>2, <1>9, NAssumption DEF Steps
    <2>2. \A s \in Steps : s > n => n <= s
      BY <2>1 DEF Steps
    <2>3. Front(a, n)
      BY <1>4, <2>2 DEF Front
    <2>4. a.step[n] \in {"PENDING", "SKIPPED"}
      BY <1>4, <2>1 DEF Steps
    <2>5. t \in Trigger(a, n, {}) \/ t \in FailByEngine(a, n)
      BY <1>1, <1>3, <1>9
    <2>6. Stock(a) => Ready(a, Upcoming(a, n))
      BY <2>1, <2>4 DEF Stock, Waits
    <2>7. Supplies(a, t)
      BY <1>4, <2>1, <2>3, <2>4, <2>5, <2>6, TriggerSupplies, FailByEngineSupplies
    <2>8. QED
      BY <1>7, <2>7, SuppliesFrom
  <1>10. QED
    BY <1>8, <1>9

\* _finalize_step_output_and_advance
LEMMA AdvanceSupplies ==
    ASSUME NEW tx, Calm(tx), NEW i \in Steps, Front(tx, i), tx.err[i] = "none",
           tx.saga \in {"RUNNING", "AWAITING_HUMAN"}, NEW t \in Advance(tx, i)
    PROVE  Supplies(tx, t)
  <1>1. PICK a : a = Advanced(tx, i)
    OBVIOUS
  <1>2. /\ Passed(a, i) /\ Framed(tx, a)
        /\ t \in Schedule(a, i)
        /\ a.row = tx.row /\ a.undo = tx.undo
        /\ a.step[i] = "COMPLETED"
        /\ \A s \in Steps : s # i => a.step[s] = tx.step[s]
    BY <1>1, AdvancePasses
  <1>3. \A s \in Steps : /\ Waits(a, s) => Waits(tx, s)
                         /\ tx.step[s] = "COMPLETED" => a.step[s] = "COMPLETED"
    BY <1>2 DEF Waits
  <1>4. tx \in DbType
    BY DEF Calm
  <1>5. Saves(tx, a)
    BY <1>2, <1>3, <1>4, WriteSaves
  <1>6. i \in Int
    BY DEF Steps
  <1>7. Supplies(a, t)
    BY <1>2, <1>6, ScheduleSupplies
  <1>8. QED
    BY <1>5, <1>7, SuppliesFrom

-----------------------------------------------------------------------------
(* The handlers, when their event changes something *)

\* handle_saga_started
LEMMA OnSagaStartedSupplies ==
    ASSUME NEW tx, Calm(tx), Shape(tx), tx.saga = "PENDING",
           NEW t \in OnSagaStarted(tx)
    PROVE  Supplies(tx, t)
  <1>1. tx \in DbType /\ "RUNNING" \in SagaStatus
    BY DEF Calm, SagaStatus
  <1>2. PICK a : a = SetSaga(tx, "RUNNING")
    OBVIOUS
  <1>3. /\ a \in DbType
        /\ SameFlight(tx, a)
        /\ a.saga = "RUNNING"
        /\ a.step = tx.step /\ a.err = tx.err /\ a.undo = tx.undo
    BY <1>1, <1>2, SagaFields
  <1>4. Calm(a) /\ Framed(tx, a) /\ a.row = tx.row
    BY <1>3, SameFlightCalm DEF SameFlight
  <1>5. t \in Schedule(a, -1)
    BY <1>2 DEF OnSagaStarted, SetSaga
  <1>6. \A s \in Steps : ~(s <= -1)
    BY DEF Steps
  <1>7. Passed(a, -1)
    BY <1>3, <1>4, <1>6 DEF Passed, Shape, Fallow, NoUndo
  <1>8. -1 \in Int
    OBVIOUS
  <1>9. \A s \in Steps : Waits(a, s) => Waits(tx, s)
    BY <1>3 DEF Waits
  <1>10. Saves(tx, a)
    BY <1>1, <1>3, <1>4, <1>9, WriteSaves
  <1>11. Supplies(a, t)
    BY <1>5, <1>7, <1>8, ScheduleSupplies
  <1>12. QED
    BY <1>10, <1>11, SuppliesFrom

\* handle_step_completed
LEMMA OnStepCompletedSupplies ==
    ASSUME NEW tx, Calm(tx), Shape(tx), NEW i \in Steps,
           tx.step[i] = "IN_PROGRESS", NEW t \in OnStepCompleted(tx, i)
    PROVE  Supplies(tx, t)
  <1>1. Front(tx, i) /\ tx.err[i] = "none" /\ tx.saga = "RUNNING"
    BY WhereActive DEF Calm
  <1>2. \/ t \in FailByEngine(tx, i)
        \/ t = Hold(tx, i) /\ manifest[i].kind # "commit"
        \/ t \in Advance(tx, i)
    BY <1>1 DEF OnStepCompleted
  <1>3. QED
    BY <1>1, <1>2, FailByEngineSupplies, HoldSupplies, AdvanceSupplies

\* handle_step_failed
LEMMA OnStepFailedSupplies ==
    ASSUME NEW tx, Calm(tx), Shape(tx), NEW i \in Steps,
           tx.step[i] = "IN_PROGRESS", NEW error \in Errors,
           NEW t \in OnStepFailed(tx, i, error)
    PROVE  Supplies(tx, t)
  <1>1. Front(tx, i) /\ tx.err[i] = "none" /\ tx.saga = "RUNNING"
    BY WhereActive DEF Calm
  <1>2. t \in Fail(tx, i, error)
    BY <1>1 DEF OnStepFailed
  <1>3. QED
    BY <1>1, <1>2, FailSupplies

\* handle_hitl_rejected
LEMMA OnHumanRejectedSupplies ==
    ASSUME NEW tx, Calm(tx), Shape(tx), NEW i \in Steps,
           tx.step[i] = "AWAITING_HUMAN", NEW error \in Errors,
           NEW t \in OnHumanRejected(tx, i, error)
    PROVE  Supplies(tx, t)
  <1>1. Front(tx, i) /\ tx.err[i] = "none"
    BY WhereActive DEF Calm
  <1>2. t \in Fail(tx, i, error)
    BY DEF OnHumanRejected
  <1>3. QED
    BY <1>1, <1>2, FailSupplies

\* An undo that ended takes nothing from the stock.
LEMMA UndoEndSaves ==
    ASSUME NEW tx \in DbType, NEW s \in Steps, NEW u \in Undos,
           NEW status \in {"COMPENSATED", "FAILED"},
           NEW a, a = SetUndo(tx, s, u, status), Framed(tx, a)
    PROVE  Saves(tx, a) /\ a \in DbType /\ a.step = tx.step /\ a.row = tx.row
  <1>1. status \in UndoStatus /\ status # "none"
    BY DEF UndoStatus
  <1>2. /\ a \in DbType
        /\ a.step = tx.step /\ a.row = tx.row
        /\ \A r \in Steps, v \in Undos :
              a.undo[r][v] = "none" => tx.undo[r][v] = "none"
    BY <1>1, UndoFields DEF SameFlight
  <1>3. \A i \in Steps : Waits(a, i) => Waits(tx, i)
    BY <1>2 DEF Waits
  <1>4. QED
    BY <1>2, <1>3, WriteSaves

\* handle_step_compensated
LEMMA OnStepCompensatedSupplies ==
    ASSUME NEW tx, Calm(tx), Shape(tx), NEW s \in Steps, NEW u \in Undos,
           tx.undo[s][u] = "COMPENSATING", NEW t \in OnStepCompensated(tx, s, u)
    PROVE  Supplies(tx, t)
  <1>1. PICK a : a = SetUndo(tx, s, u, "COMPENSATED")
    OBVIOUS
  <1>2. /\ Calm(a) /\ Framed(tx, a)
        /\ a.saga = "COMPENSATING"
        /\ AtRest(a) /\ InOrder(a) /\ Above(a) /\ NoneRuns(a)
        /\ Clear(a, s - 1)
    BY <1>1, UndoEnds
  <1>3. Unwinding(a)
    BY <1>2 DEF Unwinding
  <1>4. t \in Unwind(a, s - 1)
    BY <1>1 DEF OnStepCompensated, SetUndo
  <1>5. s - 1 \in Int
    BY DEF Steps
  <1>6. Supplies(a, t)
    BY <1>2, <1>3, <1>4, <1>5, UnwindSupplies
  <1>7. Saves(tx, a)
    BY <1>1, <1>2, UndoEndSaves DEF Calm
  <1>8. QED
    BY <1>6, <1>7, SuppliesFrom

\* handle_compensation_failed
LEMMA OnCompensationFailedSupplies ==
    ASSUME NEW tx, Calm(tx), Shape(tx), NEW s \in Steps, NEW u \in Undos,
           tx.undo[s][u] = "COMPENSATING",
           NEW t \in OnCompensationFailed(tx, s, u)
    PROVE  Supplies(tx, t)
  <1>1. PICK a : a = SetUndo(tx, s, u, "FAILED")
    OBVIOUS
  <1>2. /\ Calm(a) /\ Framed(tx, a)
        /\ a.saga = "COMPENSATING"
        /\ AtRest(a) /\ InOrder(a) /\ Above(a) /\ NoneRuns(a)
    BY <1>1, UndoEnds
  <1>3. PICK b : b = SetSaga(a, "FAILED")
    OBVIOUS
  <1>4. b.step = a.step
    BY <1>2, <1>3, SagaFields, StatusSets DEF Calm
  <1>5. InOrder(b)
    BY <1>2, <1>4 DEF InOrder
  <1>6. Reached(a, Close(a, "FAILED", "SAGA_FAILED"))
    BY <1>2, <1>3, <1>5, CloseShape DEF SetSaga
  <1>7. t = Close(a, "FAILED", "SAGA_FAILED")
    BY <1>1 DEF OnCompensationFailed, SetUndo
  <1>8. Saves(tx, a) /\ a \in DbType
    BY <1>1, <1>2, UndoEndSaves DEF Calm
  <1>9. Supplies(a, t)
    BY <1>6, <1>7, <1>8, CloseSupplies
  <1>10. QED
    BY <1>8, <1>9, SuppliesFrom

\* handle_hitl_approved
LEMMA OnHumanApprovedSupplies ==
    ASSUME NEW tx, Calm(tx), Shape(tx), NEW i \in Steps,
           tx.step[i] = "AWAITING_HUMAN", NEW t \in OnHumanApproved(tx, i)
    PROVE  Supplies(tx, t)
  <1>1. /\ tx \in DbType
        /\ "IN_PROGRESS" \in StepStatus /\ "RUNNING" \in SagaStatus
    BY DEF Calm, StepStatus, SagaStatus
  <1>2. Front(tx, i) /\ tx.err[i] = "none" /\ tx.saga = "AWAITING_HUMAN"
    BY WhereActive DEF Calm
  <1>3. PICK m : m = Mark(tx, i, "IN_PROGRESS")
    OBVIOUS
  <1>4. /\ m \in DbType
        /\ SameFlight(tx, m)
        /\ m.saga = tx.saga /\ m.err = tx.err /\ m.undo = tx.undo
        /\ m.step[i] = "IN_PROGRESS"
        /\ \A s \in Steps : s # i => m.step[s] = tx.step[s]
    BY <1>1, <1>3, MarkFields
  <1>5. PICK a : a = SetSaga(m, "RUNNING")
    OBVIOUS
  <1>6. /\ a \in DbType
        /\ SameFlight(m, a)
        /\ a.step = m.step /\ a.undo = m.undo
    BY <1>1, <1>4, <1>5, SagaFields
  <1>7. Framed(tx, a) /\ a.row = tx.row /\ a.key = tx.key
    BY <1>4, <1>6 DEF SameFlight, Framed
  <1>8. PICK c \in Commands : c = Upcoming(tx, i)
    BY <1>1, CommandTypes DEF Upcoming, DbType
  <1>9. Resumed(m.saga) = "RUNNING"
    BY <1>2, <1>4 DEF Resumed
  <1>10. \/ manifest[i].kind = "commit" /\ t = Dispatch(a, c)
         \/ t \in FailByEngine(tx, i)
         \/ t \in Advance(tx, i)
    BY <1>3, <1>5, <1>8, <1>9 DEF OnHumanApproved, SetSaga, Upcoming
  <1>11. CASE manifest[i].kind = "commit" /\ t = Dispatch(a, c)
    <2>1. Open(a, c)
      BY <1>4, <1>6, <1>7, <1>8 DEF Open, Upcoming
    <2>2. Stock(tx) => Ready(tx, c)
      BY <1>8, <1>11 DEF Stock, Waits
    <2>3. \A s \in Steps : Waits(a, s) => Waits(tx, s)
      BY <1>4, <1>6 DEF Waits
    <2>4. Lasting(tx, a)
      BY <1>4, <1>6 DEF Lasting
    <2>5. Reached(tx, t)
      BY OnHumanApprovedReaches
    <2>6. \A s \in Steps, u \in Undos : a.undo[s][u] = "none" => tx.undo[s][u] = "none"
      BY <1>4, <1>6
    <2>7. QED
      BY <1>1, <1>6, <1>7, <1>11, <2>1, <2>2, <2>3, <2>4, <2>5, <2>6, SendSupplies
  <1>12. QED
    BY <1>2, <1>10, <1>11, FailByEngineSupplies, AdvanceSupplies

-----------------------------------------------------------------------------
(* What a step of the system does to the invariant *)

\* Two results of one command are results of one row: no other command has them.
LEMMA ResultsOfStep ==
    ASSUME NEW c \in Commands, NEW e \in ResultsOf(c)
    PROVE  /\ e \in ResultEvents /\ e \in Events
           /\ e[2] = c[2]
           /\ e[3] = 0 <=> c[1] = "fwd"
           /\ c[1] # "fwd" => e[3] = c[3]
  <1>1. e \in ResultEvents /\ e \in Events
    BY ResultsOfTypes, ResultTypes
  <1>2. CASE c[1] = "fwd"
    BY <1>1, <1>2 DEF ResultsOf, Results
  <1>3. CASE c[1] # "fwd"
    <2>1. c[3] # 0
      BY <1>3, BoundsAssumption DEF Commands, Undos
    <2>2. QED
      BY <1>1, <1>3, <2>1 DEF ResultsOf
  <1>4. QED
    BY <1>2, <1>3

\* A step that starts again under a new key is ready to be sent.
LEMMA RenewedReady ==
    ASSUME NEW tx \in DbType, NEW i \in Steps, NEW a, Renewed(tx, a, i), Stock(tx)
    PROVE  Stock(a) /\ Ready(a, Upcoming(a, i))
  <1>1. /\ a \in DbType
        /\ a.step = tx.step /\ a.undo = tx.undo /\ a.row = tx.row
        /\ a.key[i] = tx.key[i] + 1
        /\ \A s \in Steps : s # i => a.key[s] = tx.key[s]
        /\ a.seen = tx.seen \ Results(i)
        /\ \A e \in Events :
              a.event[e] = IF e \in Results(i) THEN "none" ELSE tx.event[e]
    BY DEF Renewed
  <1>2. \A s \in Steps : tx.key[s] \in Keys /\ a.key[s] \in Keys
    BY <1>1 DEF DbType
  <1>3. ASSUME NEW c \in Commands, Ready(tx, c)
        PROVE  Ready(a, c)
    <2>1. \A e \in ResultsOf(c) : e \in Events
      BY ResultsOfStep
    <2>2. QED
      BY <1>1, <1>3, <2>1 DEF Ready, Unanswered
  <1>4. ASSUME NEW s \in Steps, NEW k \in Keys, k > a.key[s]
        PROVE  a.row[<<"fwd", s, k>>] = "none"
    <2>1. k > tx.key[s]
      BY <1>1, <1>2, <1>4 DEF Keys
    <2>2. QED
      BY <1>1, <2>1 DEF Stock
  <1>5. Ready(a, Upcoming(a, i))
    <2>1. PICK c \in Commands : c = Upcoming(a, i)
      BY <1>2, CommandTypes DEF Upcoming
    <2>2. a.key[i] > tx.key[i]
      BY <1>1, <1>2 DEF Keys
    <2>3. a.row[c] = "none"
      BY <1>1, <1>2, <2>1, <2>2 DEF Stock, Upcoming
    <2>4. ResultsOf(c) = Results(i)
      BY <2>1 DEF ResultsOf, Upcoming
    <2>5. \A e \in ResultsOf(c) : e \in Events
      BY ResultsOfStep
    <2>6. Unanswered(a, c)
      BY <1>1, <2>4, <2>5 DEF Unanswered
    <2>7. QED
      BY <2>1, <2>3, <2>6 DEF Ready
  <1>6. ASSUME NEW s \in Steps, Waits(a, s)
        PROVE  Ready(a, Upcoming(a, s))
    <2>1. CASE s = i
      BY <1>5, <2>1
    <2>2. CASE s # i
      <3>1. PICK c \in Commands : c = Upcoming(tx, s)
        BY <1>2, CommandTypes DEF Upcoming
      <3>2. Ready(tx, c)
        BY <1>1, <1>6, <3>1 DEF Stock, Waits
      <3>3. c = Upcoming(a, s)
        BY <1>1, <2>2, <3>1 DEF Upcoming
      <3>4. QED
        BY <1>3, <3>2, <3>3
    <2>3. QED
      BY <2>1, <2>2
  <1>7. ASSUME NEW s \in Steps, NEW u \in Undos, a.undo[s][u] = "none"
        PROVE  Ready(a, <<"undo", s, u>>)
    <2>1. PICK c \in Commands : c = <<"undo", s, u>>
      BY CommandTypes
    <2>2. Ready(tx, c)
      BY <1>1, <1>7, <2>1 DEF Stock
    <2>3. QED
      BY <1>3, <2>1, <2>2
  <1>8. QED
    BY <1>4, <1>5, <1>6, <1>7 DEF Stock

\* Rows and events still tell what became of them.
LEMMA RenewedTidy ==
    ASSUME NEW tx \in DbType, NEW H, NEW T, NEW i \in Steps, NEW a,
           Renewed(tx, a, i), Idle(a, H, T), Tidy(tx, H, T)
    PROVE  Tidy(a, H, T)
  <1>1. \A c \in Commands :
           /\ a.row[c] # "FAILED"
           /\ a.claim[c] = "held" \/ c \in T => a.row[c] = "IN_PROGRESS"
           /\ a.claim[c] = "emitted" => a.row[c] = "COMPLETED"
    BY DEF Renewed, Tidy
  <1>2. ASSUME NEW e \in ResultEvents, e \notin a.seen,
               a.event[e] # "none" \/ e \in H
        PROVE  a.event[e] \in {"PENDING", "IN_PROGRESS"}
    <2>1. e \in Events /\ e \notin H
      BY <1>2, ResultTypes DEF Idle, NoResult, Due
    <2>2. e \notin Results(i) /\ a.event[e] = tx.event[e]
      BY <1>2, <2>1 DEF Renewed
    <2>3. e \notin tx.seen
      BY <1>2, <2>2 DEF Renewed
    <2>4. QED
      BY <1>2, <2>1, <2>2, <2>3 DEF Tidy
  <1>3. QED
    BY <1>1, <1>2 DEF Tidy

\* Recording an event that is handled takes nothing from the stock.
LEMMA RecordStock ==
    ASSUME NEW d \in DbType, NEW H, NEW T, Flight(d, H, T), Stock(d),
           NEW e \in Events, e \in H, NEW s, NEW tx, RecordedAs(d, tx, e, s)
    PROVE  Stock(tx)
  <1>1. /\ tx.step = d.step /\ tx.key = d.key /\ tx.undo = d.undo
        /\ tx.row = d.row
        /\ tx.seen = d.seen \cup {DedupKey(e)}
        /\ \A f \in Events : f # e => tx.event[f] = d.event[f]
    BY DEF RecordedAs
  <1>2. ASSUME NEW c \in Commands, Ready(d, c), ~Open(d, c),
               c[1] = "fwd" => c[3] = d.key[c[2]]
        PROVE  Ready(tx, c)
    <2>1. e \notin ResultsOf(c)
      <3> SUFFICES ASSUME e \in ResultsOf(c)
                   PROVE  FALSE
        OBVIOUS
      <3>1. /\ e \in ResultEvents
            /\ e[2] = c[2]
            /\ e[3] = 0 <=> c[1] = "fwd"
            /\ c[1] # "fwd" => e[3] = c[3]
        BY ResultsOfStep
      <3>2. e \notin d.seen
        BY <1>2 DEF Ready, Unanswered
      <3>3. Open(d, Source(d, e))
        BY <3>1, <3>2 DEF Flight, ResultIsOpen, Due
      <3>4. CASE c[1] = "fwd"
        BY <1>2, <3>1, <3>3, <3>4 DEF Open, Source
      <3>5. CASE c[1] # "fwd"
        BY <1>2, <3>1, <3>3, <3>5 DEF Open, Source
      <3>6. QED
        BY <3>4, <3>5
    <2>2. \A f \in ResultsOf(c) : f \in Events /\ f \in ResultEvents /\ f # e
      BY <2>1, ResultsOfStep
    <2>3. \A f \in ResultsOf(c) : DedupKey(e) # f
      BY <2>2, ResultKey
    <2>4. QED
      BY <1>1, <1>2, <2>2, <2>3 DEF Ready, Unanswered
  <1>3. ASSUME NEW i \in Steps, Waits(tx, i)
        PROVE  Ready(tx, Upcoming(tx, i))
    <2>1. PICK c \in Commands : c = Upcoming(d, i)
      BY CommandTypes DEF Upcoming, DbType
    <2>2. c[1] = "fwd" /\ c[2] = i /\ c[3] = d.key[i]
      BY <2>1 DEF Upcoming
    <2>3. ~Open(d, c)
      BY <1>1, <1>3, <2>2 DEF Open, Waits
    <2>4. Ready(d, c)
      BY <1>1, <1>3, <2>1 DEF Stock, Waits
    <2>5. QED
      BY <1>1, <1>2, <2>1, <2>2, <2>3, <2>4 DEF Upcoming
  <1>4. ASSUME NEW r \in Steps, NEW u \in Undos, tx.undo[r][u] = "none"
        PROVE  Ready(tx, <<"undo", r, u>>)
    <2>1. PICK c \in Commands : c = <<"undo", r, u>>
      BY CommandTypes
    <2>2. c[1] # "fwd" /\ ~Open(d, c)
      BY <1>1, <1>4, <2>1 DEF Open
    <2>3. Ready(d, c)
      BY <1>1, <1>4, <2>1 DEF Stock
    <2>4. QED
      BY <1>2, <2>1, <2>2, <2>3
  <1>5. QED
    BY <1>1, <1>3, <1>4 DEF Stock

\* Nor does it hide what became of commands and results.
LEMMA RecordTidy ==
    ASSUME NEW d \in DbType, NEW H, NEW T, Tidy(d, H, T),
           NEW e \in Events, NEW s, NEW tx, RecordedAs(d, tx, e, s)
    PROVE  Tidy(tx, H \ {e}, T)
  <1>1. ASSUME NEW f \in ResultEvents, f \notin tx.seen
        PROVE  f # e /\ f \notin d.seen /\ tx.event[f] = d.event[f]
    <2>1. f # e /\ f \notin d.seen
      BY <1>1, ResultKey DEF RecordedAs
    <2>2. QED
      BY <2>1, ResultTypes DEF RecordedAs
  <1>2. \A f \in ResultEvents :
           f \notin tx.seen /\ (tx.event[f] # "none" \/ f \in H \ {e}) =>
               tx.event[f] \in {"PENDING", "IN_PROGRESS"}
    BY <1>1 DEF Tidy
  <1>3. QED
    BY <1>2 DEF Tidy, RecordedAs

\* What a handler reached, from contents with nothing on the way.
LEMMA ReachedProgress ==
    ASSUME NEW tx, NEW H, NEW T, Idle(tx, H, T), Stock(tx), Tidy(tx, H, T),
           NEW t, Reached(tx, t), Supplies(tx, t)
    PROVE  Progress(t, H, T)
  <1>1. Stock(t) /\ Fed(t) /\ Busy(t)
    BY DEF Supplies
  <1>2. \A c \in Commands : /\ t.claim[c] # "held" /\ c \notin T
                            /\ t.claim[c] = tx.claim[c]
    BY DEF Idle, NoWork, AtWork, Reached, Framed
  <1>3. \A c \in Commands : \/ t.row[c] = tx.row[c]
                            \/ tx.row[c] = "none" /\ t.row[c] = "PENDING"
    BY DEF Supplies
  <1>4. \A e \in ResultEvents : t.event[e] = tx.event[e] /\ t.seen = tx.seen
    BY DEF Reached, Framed
  <1>5. Tidy(t, H, T)
    BY <1>2, <1>3, <1>4 DEF Tidy
  <1>6. Pursued(t, H, T)
    BY <1>1 DEF Fed, Pursued, AtWork
  <1>7. QED
    BY <1>1, <1>5, <1>6 DEF Progress

\* An event that is no result, or was handled before, changes nothing.
LEMMA IgnoredProgress ==
    ASSUME NEW d \in DbType, NEW H, NEW T, Flight(d, H, T), Progress(d, H, T),
           NEW e \in Events, e \in H, e \in ResultEvents => e \in d.seen,
           NEW s, NEW tx, RecordedAs(d, tx, e, s)
    PROVE  Progress(tx, H \ {e}, T)
  <1>1. Stock(tx) /\ Tidy(tx, H \ {e}, T)
    BY RecordStock, RecordTidy DEF Progress
  <1>2. Busy(tx)
    BY DEF Progress, Busy, NoneRuns, RecordedAs
  <1>3. \A f \in ResultEvents :
           f \notin d.seen =>
               f # e /\ f \notin tx.seen /\ tx.event[f] = d.event[f]
    <2> SUFFICES ASSUME NEW f \in ResultEvents, f \notin d.seen
                 PROVE  f # e /\ f \notin tx.seen /\ tx.event[f] = d.event[f]
      OBVIOUS
    <2>1. f # e /\ f \in Events
      BY ResultTypes
    <2>2. DedupKey(e) # f
      BY <2>1, ResultKey
    <2>3. QED
      BY <2>1, <2>2 DEF RecordedAs
  <1>4. Pursued(tx, H \ {e}, T)
    <2> SUFFICES ASSUME NEW c \in Commands, Open(tx, c)
                 PROVE  \/ AtWork(tx, T, c) /\ Unanswered(tx, c)
                        \/ \E f \in ResultsOf(c) : Due(tx, H \ {e}, f)
      BY DEF Pursued
    <2>1. Open(d, c)
      BY DEF Open, RecordedAs
    <2>2. CASE AtWork(d, T, c) /\ Unanswered(d, c)
      <3>1. AtWork(tx, T, c)
        BY <2>2 DEF AtWork, RecordedAs
      <3>2. Unanswered(tx, c)
        BY <1>3, <2>2, ResultsOfStep DEF Unanswered
      <3>3. QED
        BY <3>1, <3>2
    <2>3. CASE \E f \in ResultsOf(c) : Due(d, H, f)
      <3>1. PICK f \in ResultsOf(c) : Due(d, H, f)
        BY <2>3
      <3>2. f \in ResultEvents /\ f \notin d.seen
        BY <3>1, ResultsOfStep DEF Due
      <3>3. Due(tx, H \ {e}, f)
        BY <1>3, <3>1, <3>2 DEF Due
      <3>4. QED
        BY <3>3
    <2>4. QED
      BY <2>1, <2>2, <2>3 DEF Progress, Pursued
  <1>5. QED
    BY <1>1, <1>2, <1>4 DEF Progress

\* Committing contents that progress establishes the invariant.
LEMMA CommitProgress ==
    ASSUME NEW t \in DbType, Commit(t), manifest' = manifest,
           NEW H, NEW T, Progress(t, H, T), handling' = H, taken' = T,
           superseded' = {}
    PROVE  ProgressInv'
  <1>1. Db' = t
    BY DEF Commit, Db, DbType
  <1>2. Stock(Db)'
    BY <1>1 DEF Progress, Stock, Waits, Ready, Unanswered, Upcoming
  <1>3. Busy(Db)'
    BY <1>1 DEF Progress, Busy, NoneRuns
  <1>4. Tidy(Db, handling, taken)'
    BY <1>1 DEF Progress, Tidy
  <1>5. Pursued(Db, handling, taken)'
    BY <1>1 DEF Progress, Pursued, Open, AtWork, Unanswered, Due
  <1>6. QED
    BY <1>2, <1>3, <1>4, <1>5 DEF ProgressInv, Progress

\* What is proved of every step: it leaves completed steps alone, and keeps
\* the invariant under Steady.
Lasts ==
    \A i \in Steps :
        step[i] = "COMPLETED" =>
            \/ step'[i] = "COMPLETED"
            \/ step'[i] = "FAILED" /\ saga' = "FAILED"

Goes == Lasts /\ (Steady /\ ProgressInv => ProgressInv')

\* A handler, or a command of the operator, that moves the saga on.
LEMMA ReachedGoes ==
    ASSUME NEW H, NEW T, NEW a, Idle(a, H, T), a.step = step,
           NEW t, Reached(a, t), Lasting(a, t), Commit(t),
           Steady /\ ProgressInv => Stock(a) /\ Tidy(a, H, T) /\ Supplies(a, t),
           handling' = H, taken' = T, superseded' = superseded,
           manifest' = manifest
    PROVE  Goes
  <1>1. Lasts
    BY DEF Lasting, Commit, Lasts
  <1>2. ASSUME Steady, ProgressInv
        PROVE  ProgressInv'
    <2>1. Progress(t, H, T)
      BY <1>2, ReachedProgress
    <2>2. t \in DbType
      BY DEF Reached, Framed
    <2>3. superseded' = {}
      BY <1>2 DEF ProgressInv
    <2>4. QED
      BY <2>1, <2>2, <2>3, CommitProgress
  <1>3. QED
    BY <1>1, <1>2 DEF Goes

\* The contents the handler of the event e starts with.
LEMMA IngestProgress ==
    ASSUME Inv, OrderInv, NEW e \in Events, e \in handling, NEW tx \in Ingest(e)
    PROVE  /\ tx.step = step
           /\ ProgressInv => Stock(tx) /\ Tidy(tx, handling \ {e}, taken)
  <1>1. tx.step = step /\ \E s : RecordedAs(Db, tx, e, s)
    BY IngestOrder
  <1>2. PICK s : RecordedAs(Db, tx, e, s)
    BY <1>1
  <1>3. Db \in DbType /\ Flight(Db, handling, taken)
    BY InvParts DEF OrderInv
  <1>4. ASSUME ProgressInv
        PROVE  Stock(tx) /\ Tidy(tx, handling \ {e}, taken)
    BY <1>2, <1>3, <1>4, RecordStock, RecordTidy DEF ProgressInv, Progress
  <1>5. QED
    BY <1>1, <1>4

\* A handler that moves the saga on from the contents it starts with.
LEMMA HandlerGoes ==
    ASSUME Inv, OrderInv, NEW e \in Events, e \in handling, NEW tx \in Ingest(e),
           Idle(tx, handling \ {e}, taken),
           NEW t, Reached(tx, t), Supplies(tx, t), Commit(t),
           handling' = handling \ {e},
           UNCHANGED <<manifest, taken, superseded>>
    PROVE  Goes
  <1>1. PICK H : H = handling \ {e}
    OBVIOUS
  <1>2. /\ tx.step = step
        /\ ProgressInv => Stock(tx) /\ Tidy(tx, H, taken)
    BY <1>1, IngestProgress
  <1>3. Idle(tx, H, taken) /\ handling' = H
    BY <1>1
  <1>4. Lasting(tx, t)
    BY DEF Supplies
  <1>5. QED
    BY <1>2, <1>3, <1>4, ReachedGoes

\* A handler that changes nothing besides the event it records.
LEMMA IgnoredGoes ==
    ASSUME Inv, OrderInv, NEW e \in Events, e \in handling, NEW tx \in Ingest(e),
           e \in ResultEvents => e \in seen, Commit(tx),
           handling' = handling \ {e},
           UNCHANGED <<manifest, taken, superseded>>
    PROVE  Goes
  <1>1. tx \in DbType /\ tx.step = step /\ \E s : RecordedAs(Db, tx, e, s)
    BY IngestOrder
  <1>2. Lasts
    BY <1>1 DEF Commit, Lasts
  <1>3. ASSUME Steady, ProgressInv
        PROVE  ProgressInv'
    <2>1. PICK s : RecordedAs(Db, tx, e, s)
      BY <1>1
    <2>2. PICK d : d = Db
      OBVIOUS
    <2>3. d \in DbType /\ Flight(d, handling, taken) /\ d.seen = seen
          /\ Progress(d, handling, taken) /\ superseded = {}
      BY <1>3, <2>2, InvParts DEF OrderInv, ProgressInv, Db
    <2>4. PICK H : H = handling \ {e}
      OBVIOUS
    <2>5. Progress(tx, H, taken)
      BY <2>1, <2>2, <2>3, <2>4, IgnoredProgress
    <2>6. QED
      BY <1>1, <2>3, <2>4, <2>5, CommitProgress
  <1>4. QED
    BY <1>2, <1>3 DEF Goes

-----------------------------------------------------------------------------
(* The steps of the engine's consumer *)

\* The result of a step or an undo, when it is handled the first time.
LEMMA ResultGoes ==
    ASSUME Inv, OrderInv, NEW e \in ResultEvents, Fresh(e), NEW tx \in Ingest(e),
           NEW t, Reached(tx, t), Supplies(tx, t), Commit(t),
           UNCHANGED superseded
    PROVE  Goes
  <1>1. /\ e \in Events /\ e \in handling
        /\ handling' = handling \ {e}
        /\ UNCHANGED <<manifest, taken>>
    BY ResultTypes DEF Fresh
  <1>2. Idle(tx, handling \ {e}, taken)
    BY ResultOrder
  <1>3. QED
    BY <1>1, <1>2, HandlerGoes

\* handle_step_completed, handle_step_failed
LEMMA StepResultGoes ==
    ASSUME Inv, OrderInv, NEW i \in Steps,
           HandleStepCompleted(i) \/ HandleStepFailed(i)
    PROVE  Goes
  <1>1. PICK type \in {"STEP_COMPLETED", "STEP_FAILED"} :
          /\ type = "STEP_COMPLETED" => HandleStepCompleted(i)
          /\ type = "STEP_FAILED" => HandleStepFailed(i)
    OBVIOUS
  <1>2. PICK e : e = <<type, i, 0>>
    OBVIOUS
  <1>3. /\ e \in ResultEvents /\ e[2] = i /\ e[3] = 0
    BY <1>2 DEF ResultEvents
  <1>4. PICK tx \in Ingest(e), error \in Errors :
          \E t : /\ \/ t \in OnStepCompleted(tx, i)
                    \/ t \in OnStepFailed(tx, i, error)
                 /\ Commit(t)
    BY <1>1, <1>2 DEF HandleStepCompleted, HandleStepFailed, Errors
  <1>5. PICK t : /\ \/ t \in OnStepCompleted(tx, i)
                    \/ t \in OnStepFailed(tx, i, error)
                 /\ Commit(t)
    BY <1>4
  <1>6. Fresh(e) /\ UNCHANGED superseded
    BY <1>1, <1>2 DEF HandleStepCompleted, HandleStepFailed
  <1>7. e \in Events /\ e \in handling
    BY <1>3, <1>6, ResultTypes DEF Fresh
  <1>8. Calm(tx) /\ Open(tx, Source(tx, e)) /\ Shape(tx)
    BY <1>3, <1>6, <1>7, ResultOrder, IngestOrder
  <1>9. tx.step[i] = "IN_PROGRESS"
    BY <1>3, <1>8 DEF Open, Source
  <1>10. Reached(tx, t) /\ Supplies(tx, t)
    BY <1>5, <1>8, <1>9, OnStepCompletedReaches, OnStepFailedReaches,
       OnStepCompletedSupplies, OnStepFailedSupplies
  <1>11. QED
    BY <1>3, <1>5, <1>6, <1>10, ResultGoes

\* handle_step_compensated, handle_compensation_failed, and the result of an
\* undo that is taken for the result of a step
LEMMA HandleUndoGoes ==
    ASSUME Inv, OrderInv, NEW s \in Steps, NEW u \in Undos, HandleUndo(s, u)
    PROVE  Goes
  <1>1. ASSUME NEW type \in {"STEP_COMPENSATED", "COMPENSATION_FAILED"},
               NEW e, e = <<type, s, u>>, Fresh(e), NEW tx \in Ingest(e),
               NEW t, Commit(t), UNCHANGED superseded,
               t \in OnStepCompensated(tx, s, u) \cup OnCompensationFailed(tx, s, u)
        PROVE  Goes
    <2>1. /\ e \in Events /\ e \in handling
          /\ Idle(tx, handling \ {e}, taken)
          /\ Calm(tx) /\ Shape(tx)
          /\ tx.undo[s][u] = "COMPENSATING"
      BY <1>1, UndoResult
    <2>2. Reached(tx, t) /\ Supplies(tx, t)
      BY <1>1, <2>1, OnStepCompensatedReaches, OnCompensationFailedReaches,
         OnStepCompensatedSupplies, OnCompensationFailedSupplies
    <2>3. handling' = handling \ {e} /\ UNCHANGED <<manifest, taken>>
      BY <1>1 DEF Fresh
    <2>4. QED
      BY <1>1, <2>1, <2>2, <2>3, HandlerGoes
  <1>2. CASE HandleStepCompensated(s, u)
    <2>1. PICK e : e = <<"STEP_COMPENSATED", s, u>>
      OBVIOUS
    <2>2. PICK tx \in Ingest(e) : \E t \in OnStepCompensated(tx, s, u) : Commit(t)
      BY <1>2, <2>1 DEF HandleStepCompensated
    <2>3. Fresh(e) /\ UNCHANGED superseded
      BY <1>2, <2>1 DEF HandleStepCompensated
    <2>4. QED
      BY <1>1, <2>1, <2>2, <2>3
  <1>3. CASE HandleCompensationFailed(s, u)
    <2>1. PICK e : e = <<"COMPENSATION_FAILED", s, u>>
      OBVIOUS
    <2>2. PICK tx \in Ingest(e) :
            \E t \in OnCompensationFailed(tx, s, u) : Commit(t)
      BY <1>3, <2>1 DEF HandleCompensationFailed
    <2>3. Fresh(e) /\ UNCHANGED superseded
      BY <1>3, <2>1 DEF HandleCompensationFailed
    <2>4. QED
      BY <1>1, <2>1, <2>2, <2>3
  <1>4. CASE HandleUndoReportedAsStep(s, u)
    <2>1. PICK e : e = <<"STEP_FAILED", s, u>>
      OBVIOUS
    <2>2. PICK tx \in Ingest(e) : Commit(tx)
      BY <1>4, <2>1 DEF HandleUndoReportedAsStep
    <2>3. /\ e \in handling /\ handling' = handling \ {e}
          /\ UNCHANGED <<manifest, taken, superseded>>
      BY <1>4, <2>1 DEF HandleUndoReportedAsStep, Fresh
    <2>4. e \in Events /\ e[1] = "STEP_FAILED" /\ e[3] = u
      BY <2>1, EventTypes
    <2>5. e \notin ResultEvents
      BY <2>4, BoundsAssumption DEF ResultEvents, Undos
    <2>6. QED
      BY <2>2, <2>3, <2>4, <2>5, IgnoredGoes
  <1>5. QED
    BY <1>2, <1>3, <1>4 DEF HandleUndo

\* handle_hitl_approved, handle_hitl_rejected
LEMMA DecisionGoes ==
    ASSUME Inv, OrderInv, NEW i \in Steps,
           HandleHumanApproved(i) \/ HandleHumanRejected(i)
    PROVE  Goes
  <1>1. PICK d \in Decisions :
          /\ d = "HUMAN_APPROVED" => HandleHumanApproved(i)
          /\ d = "HUMAN_REJECTED" => HandleHumanRejected(i)
    BY DEF Decisions
  <1>2. PICK e : e = <<d, i, 0>>
    OBVIOUS
  <1>3. PICK tx \in Ingest(e), error \in Errors :
          \E t : /\ \/ t \in OnHumanApproved(tx, i)
                    \/ t \in OnHumanRejected(tx, i, error)
                 /\ Commit(t)
    BY <1>1, <1>2 DEF HandleHumanApproved, HandleHumanRejected, Errors, Decisions
  <1>4. PICK t : /\ \/ t \in OnHumanApproved(tx, i)
                    \/ t \in OnHumanRejected(tx, i, error)
                 /\ Commit(t)
    BY <1>3
  <1>5. Fresh(e) /\ UNCHANGED superseded
    BY <1>1, <1>2 DEF HandleHumanApproved, HandleHumanRejected, Decisions
  <1>6. /\ e \in handling /\ handling' = handling \ {e}
        /\ UNCHANGED <<manifest, taken>>
    BY <1>5 DEF Fresh
  <1>7. e \in Events /\ e[1] = d
    BY <1>2, EventTypes DEF Decisions
  <1>8. CASE tx.step[i] # "AWAITING_HUMAN"
    <2>1. t = tx
      BY <1>4, <1>8 DEF OnHumanApproved, OnHumanRejected
    <2>2. e \notin ResultEvents
      BY <1>7 DEF ResultEvents, Decisions
    <2>3. QED
      BY <1>4, <1>5, <1>6, <1>7, <2>1, <2>2, IgnoredGoes
  <1>9. CASE tx.step[i] = "AWAITING_HUMAN"
    <2>1. Idle(tx, handling \ {e}, taken) /\ Calm(tx) /\ Shape(tx)
      BY <1>5, <1>7, <1>9, HeldOrder
    <2>2. Reached(tx, t) /\ Supplies(tx, t)
      BY <1>4, <1>9, <2>1, OnHumanApprovedReaches, OnHumanRejectedReaches,
         OnHumanApprovedSupplies, OnHumanRejectedSupplies
    <2>3. QED
      BY <1>4, <1>5, <1>6, <1>7, <2>1, <2>2, HandlerGoes
  <1>10. QED
    BY <1>8, <1>9

\* A step that starts again under a new key moves the saga on.
LEMMA RenewedGoes ==
    ASSUME NEW tx, Calm(tx), NEW H, NEW T, Idle(tx, H, T), HeldOnce(tx, H),
           RetryIsAsked(tx, H), "engine_crash" \notin Faults,
           NEW i \in Steps, Front(tx, i), tx.step = step,
           tx.step[i] \in {"FAILED", "TIMED_OUT", "AWAITING_HUMAN"},
           ProgressInv => Stock(tx) /\ Tidy(tx, H, T),
           NEW a, Renewed(tx, a, i),
           NEW allowed, tx.step[i] = "AWAITING_HUMAN" => "AWAITING_HUMAN" \in allowed,
           NEW t \in Trigger(a, i, allowed), Commit(t),
           handling' = H, taken' = T, superseded' = superseded,
           manifest' = manifest
    PROVE  Goes
  <1>1. Calm(a) /\ Idle(a, H, T) /\ Front(a, i) /\ a.err[i] = "none"
    BY RenewedIdle
  <1>2. a.saga = "RUNNING" /\ a.step = step
    BY DEF Renewed
  <1>3. /\ a.step[i] \notin {"COMPLETED", "IN_PROGRESS", "AWAITING_HUMAN"} \ allowed
        /\ a.step[i] # "COMPLETED"
    BY <1>2
  <1>4. Reached(a, t)
    BY <1>1, <1>2, <1>3, TriggerReaches
  <1>5. Lasting(a, t)
    BY <1>1, <1>3, TriggerLasts
  <1>6. ASSUME ProgressInv
        PROVE  Stock(a) /\ Tidy(a, H, T) /\ Supplies(a, t)
    <2>1. tx \in DbType
      BY DEF Calm
    <2>2. Stock(a) /\ Ready(a, Upcoming(a, i))
      BY <1>6, <2>1, RenewedReady
    <2>3. Tidy(a, H, T)
      BY <1>1, <1>6, <2>1, RenewedTidy
    <2>4. Supplies(a, t)
      BY <1>1, <1>2, <1>3, <2>2, TriggerSupplies
    <2>5. QED
      BY <2>2, <2>3, <2>4
  <1>7. QED
    BY <1>1, <1>2, <1>4, <1>5, <1>6, ReachedGoes

\* handle_hitl_retry, which Orderly allows where engines do not crash
LEMMA HumanRetryGoes ==
    ASSUME Orderly, Inv, OrderInv, NEW i \in Steps, NEW a \in Asks,
           HandleHumanRetry(i, a)
    PROVE  Goes
  <1>1. PICK e : e = <<"HUMAN_RETRY", i, a>>
    OBVIOUS
  <1>2. PICK tx \in Ingest(e) : \E t \in OnHumanRetry(tx, i) : Commit(t)
    BY <1>1 DEF HandleHumanRetry
  <1>3. PICK t \in OnHumanRetry(tx, i) : Commit(t)
    BY <1>2
  <1>4. /\ Fresh(e) /\ e \in handling /\ handling' = handling \ {e}
        /\ UNCHANGED <<manifest, taken>>
    BY <1>1 DEF HandleHumanRetry, Fresh
  <1>5. e \in Events /\ e \in RetryEvents /\ e[1] = "HUMAN_RETRY"
    BY <1>1, EventTypes DEF RetryEvents
  <1>6. /\ tx.step = step /\ tx.key = key /\ tx.saga = saga
        /\ tx.retried = retried
    BY <1>4, <1>5, IngestSound
  <1>7. RetryAllowed(Db, i) <=> RetryAllowed(tx, i)
    BY <1>6 DEF RetryAllowed, Db
  <1>8. CASE ~RetryAllowed(tx, i)
    <2>1. t = tx
      BY <1>8 DEF OnHumanRetry
    <2>2. e \notin ResultEvents
      BY <1>5 DEF ResultEvents
    <2>3. superseded' = superseded
      BY <1>7, <1>8 DEF HandleHumanRetry
    <2>4. QED
      BY <1>3, <1>4, <1>5, <2>1, <2>2, <2>3, IgnoredGoes
  <1>9. CASE RetryAllowed(tx, i)
    <2>1. "engine_crash" \notin Faults
      BY <1>4, <1>5 DEF OrderInv, Flight, RetryIsAsked, Orderly
    <2>2. tx.step[i] = "AWAITING_HUMAN" /\ tx.saga \in {"AWAITING_HUMAN", "RUNNING"}
      BY <1>9 DEF RetryAllowed
    <2>3. PICK H : H = handling \ {e}
      OBVIOUS
    <2>4. Idle(tx, H, taken) /\ Calm(tx) /\ Front(tx, i)
      BY <1>4, <1>5, <2>2, <2>3, HeldOrder
    <2>5. tx \in DbType /\ HeldOnce(tx, H) /\ RetryIsAsked(tx, H)
      BY <1>4, <1>5, <2>3, IngestOrder DEF Flight
    <2>6. tx.key[i] < MaxKeys
      BY <1>6, <1>7, <1>9 DEF HandleHumanRetry
    <2>7. PICK r : r = ClearResults(RetryWrites(tx, i), i)
      OBVIOUS
    <2>8. Renewed(tx, r, i)
      BY <2>2, <2>5, <2>6, <2>7, HumanRetryRenews
    <2>9. t \in Trigger(r, i, {"IN_PROGRESS", "AWAITING_HUMAN"})
      BY <1>3, <1>9, <2>7 DEF OnHumanRetry, RetryWrites
    <2>10. ProgressInv => Stock(tx) /\ Tidy(tx, H, taken)
      BY <1>4, <1>5, <2>3, IngestProgress
    <2>11. superseded' = superseded
      <3>1. PICK c \in Commands : c = <<"fwd", i, key[i]>>
        BY <1>6, <2>5, CommandTypes DEF DbType
      <3>2. Supersede(c)
        BY <1>7, <1>9, <3>1 DEF HandleHumanRetry
      <3>3. tx.claim = claim
        BY <1>4, <1>5, IngestOrder DEF RecordedAs, Db
      <3>4. claim[c] # "held"
        BY <2>4, <3>3 DEF Calm
      <3>5. QED
        BY <3>2, <3>4 DEF Supersede
    <2>12. handling' = H /\ taken' = taken /\ manifest' = manifest
      BY <1>4, <2>3
    <2>13. QED
      BY <1>3, <1>6, <2>1, <2>2, <2>4, <2>5, <2>8, <2>9, <2>10, <2>11, <2>12,
         RenewedGoes
  <1>10. QED
    BY <1>8, <1>9

\* handle_saga_started
LEMMA SagaStartedGoes ==
    ASSUME Inv, OrderInv, HandleSagaStarted
    PROVE  Goes
  <1>1. PICK e : e = <<"SAGA_STARTED", 0, 0>>
    OBVIOUS
  <1>2. PICK tx \in Ingest(e) : \E t \in OnSagaStarted(tx) : Commit(t)
    BY <1>1 DEF HandleSagaStarted
  <1>3. PICK t \in OnSagaStarted(tx) : Commit(t)
    BY <1>2
  <1>4. /\ e \in handling /\ handling' = handling \ {e}
        /\ UNCHANGED <<manifest, taken, superseded>>
    BY <1>1 DEF HandleSagaStarted, Fresh
  <1>5. e \in Events /\ e \notin ResultEvents
    BY <1>1, EventTypes, NoticeIsNoResult
  <1>6. CASE tx.saga # "PENDING"
    <2>1. t = tx
      BY <1>6 DEF OnSagaStarted
    <2>2. QED
      BY <1>3, <1>4, <1>5, <2>1, IgnoredGoes
  <1>7. CASE tx.saga = "PENDING"
    <2>1. saga = "PENDING" /\ Shape(tx)
      BY <1>4, <1>5, <1>7, IngestOrder
    <2>2. Idle(tx, handling \ {e}, taken) /\ Calm(tx)
      BY <1>4, <1>5, <2>1, QuietOrder
    <2>3. Reached(tx, t) /\ Supplies(tx, t)
      BY <1>3, <1>7, <2>1, <2>2, OnSagaStartedReaches, OnSagaStartedSupplies
    <2>4. QED
      BY <1>3, <1>4, <1>5, <2>2, <2>3, HandlerGoes
  <1>8. QED
    BY <1>6, <1>7

\* The notices that come back, and events that were ingested before
LEMMA IdleHandlerGoes ==
    ASSUME Inv, OrderInv
    PROVE  /\ HandleSagaCompleted => Goes
           /\ \A type \in {"SAGA_FAILED", "SAGA_COMPENSATED"} :
                 HandleNotice(type) => Goes
           /\ \A e \in Events : HandleDuplicate(e) => Goes
  <1>1. CASE HandleSagaCompleted
    <2>1. PICK e : e = <<"SAGA_COMPLETED", 0, 0>>
      OBVIOUS
    <2>2. PICK tx \in Ingest(e) : Commit(CompleteSaga(tx))
      BY <1>1, <2>1 DEF HandleSagaCompleted
    <2>3. /\ e \in handling /\ handling' = handling \ {e}
          /\ UNCHANGED <<manifest, taken, superseded>>
      BY <1>1, <2>1 DEF HandleSagaCompleted, Fresh
    <2>4. e \in Events /\ e \notin ResultEvents
      BY <2>1, EventTypes, NoticeIsNoResult
    <2>5. saga = "COMPLETED"
      BY <2>1, <2>3 DEF OrderInv, Flight, Shape, Db, Completion
    <2>6. CompleteSaga(tx) = tx
      BY <2>3, <2>4, <2>5, IngestOrder DEF CompleteSaga
    <2>7. QED
      BY <2>2, <2>3, <2>4, <2>6, IgnoredGoes
  <1>2. ASSUME NEW type \in {"SAGA_FAILED", "SAGA_COMPENSATED"},
               HandleNotice(type)
        PROVE  Goes
    <2>1. PICK e : e = <<type, 0, 0>>
      OBVIOUS
    <2>2. PICK tx \in Ingest(e) : Commit(tx)
      BY <1>2, <2>1 DEF HandleNotice
    <2>3. /\ e \in handling /\ handling' = handling \ {e}
          /\ UNCHANGED <<manifest, taken, superseded>>
      BY <1>2, <2>1 DEF HandleNotice, Fresh
    <2>4. e \in Events /\ e \notin ResultEvents
      BY <2>1, EventTypes, NoticeIsNoResult
    <2>5. QED
      BY <2>2, <2>3, <2>4, IgnoredGoes
  <1>3. ASSUME NEW e \in Events, HandleDuplicate(e)
        PROVE  Goes
    <2>1. PICK tx \in Ingest(e) : Commit(tx)
      BY <1>3 DEF HandleDuplicate
    <2>2. /\ e \in handling /\ handling' = handling \ {e}
          /\ DedupKey(e) \in seen
          /\ UNCHANGED <<manifest, taken, superseded>>
      BY <1>3 DEF HandleDuplicate, workers
    <2>3. e \in ResultEvents => e \in seen
      BY <2>2, ResultKey
    <2>4. QED
      BY <2>1, <2>2, <2>3, IgnoredGoes
  <1>4. QED
    BY <1>1, <1>2, <1>3

-----------------------------------------------------------------------------
(* The other steps: rows and processes, one at a time *)

\* The rows of a command that was never sent stay unused where no sent one is
\* taken back, and no answer comes to a command that is not open.
LEMMA StockFramed ==
    ASSUME NEW tx \in DbType, NEW t, Stock(tx),
           t.step = tx.step, t.key = tx.key, t.undo = tx.undo,
           \A c \in Commands : tx.row[c] = "none" => t.row[c] = "none",
           \A c \in Commands :
              /\ ~Open(tx, c)
              /\ c[1] = "fwd" => c[3] = tx.key[c[2]]
              /\ Unanswered(tx, c)
              => Unanswered(t, c)
    PROVE  Stock(t)
  <1>1. \A i \in Steps : tx.key[i] \in Keys
    BY DEF DbType
  <1>2. ASSUME NEW i \in Steps, NEW k \in Keys, k > t.key[i]
        PROVE  t.row[<<"fwd", i, k>>] = "none"
    BY <1>2, CommandTypes DEF Stock
  <1>3. ASSUME NEW i \in Steps, Waits(t, i)
        PROVE  Ready(t, Upcoming(t, i))
    <2>1. PICK c \in Commands : c = Upcoming(tx, i)
      BY <1>1, CommandTypes DEF Upcoming
    <2>2. c[1] = "fwd" /\ c[2] = i /\ c[3] = tx.key[i]
      BY <2>1 DEF Upcoming
    <2>3. ~Open(tx, c) /\ Ready(tx, c)
      BY <1>3, <2>1, <2>2 DEF Open, Waits, Stock
    <2>4. Ready(t, c)
      BY <2>2, <2>3 DEF Ready
    <2>5. QED
      BY <2>1, <2>4 DEF Upcoming
  <1>4. ASSUME NEW s \in Steps, NEW u \in Undos, t.undo[s][u] = "none"
        PROVE  Ready(t, <<"undo", s, u>>)
    <2>1. PICK c \in Commands : c = <<"undo", s, u>>
      BY CommandTypes
    <2>2. c[1] # "fwd" /\ ~Open(tx, c) /\ Ready(tx, c)
      BY <1>4, <2>1 DEF Open, Stock
    <2>3. Ready(t, c)
      BY <2>2 DEF Ready
    <2>4. QED
      BY <2>1, <2>3
  <1>5. QED
    BY <1>2, <1>3, <1>4 DEF Stock

\* A consumer, a reaper or a reviewer changes the status of one event row and
\* what engines hold of it; where that is a result, it is still to be handled.
LEMMA EventProgress ==
    ASSUME Inv, ProgressInv, NEW e \in Events, NEW s \in OutboxStatus, NEW H,
           event' = [event EXCEPT ![e] = s],
           handling' = H, H \ {e} = handling \ {e},
           UNCHANGED <<manifest, saga, step, err, key, retried, undo, row,
                       claim, seen, taken, superseded>>,
           e \in ResultEvents => /\ event[e] # "none"
                                 /\ s \in {"PENDING", "IN_PROGRESS"}
    PROVE  ProgressInv'
  <1> DEFINE f == [event EXCEPT ![e] = s]
             t == [Db EXCEPT !.event = f]
  <1>1. Db \in DbType /\ event \in [Events -> OutboxStatus]
    BY InvParts
  <1>2. /\ f \in [Events -> OutboxStatus]
        /\ f[e] = s
        /\ \A g \in Events : g # e => f[g] = event[g]
    BY <1>1
  <1>3. event' = f
    OBVIOUS
  <1> HIDE DEF f
  <1>4. /\ t \in DbType /\ t.event = f
        /\ t.saga = Db.saga /\ t.step = Db.step
        /\ t.key = Db.key /\ t.undo = Db.undo /\ t.row = Db.row
        /\ t.claim = Db.claim /\ t.seen = Db.seen
    BY <1>1, <1>2 DEF DbType
  <1>5. Commit(t)
    BY <1>3 DEF Commit, Db
  <1>6. Db.event = event
    BY DEF Db
  <1> HIDE DEF t
  <1>7. Progress(Db, handling, taken) /\ superseded = {}
    BY DEF ProgressInv
  <1>8. \A g \in Events : g # e => t.event[g] = Db.event[g]
    BY <1>2, <1>4, <1>6
  <1>9. ASSUME NEW c \in Commands, Unanswered(Db, c)
        PROVE  Unanswered(t, c)
    <2>1. \A g \in ResultsOf(c) : g \in Events /\ g \in ResultEvents
      BY ResultsOfStep
    <2>2. \A g \in ResultsOf(c) : g # e
      BY <1>6, <1>9, <2>1 DEF Unanswered
    <2>3. QED
      BY <1>4, <1>8, <1>9, <2>1, <2>2 DEF Unanswered
  <1>10. Stock(t)
    BY <1>1, <1>4, <1>7, <1>9, StockFramed DEF Progress
  <1>11. Busy(t)
    BY <1>4, <1>7 DEF Progress, Busy, NoneRuns
  <1>12. Tidy(t, H, taken)
    <2>1. ASSUME NEW g \in ResultEvents, g \notin t.seen,
                 t.event[g] # "none" \/ g \in H
          PROVE  t.event[g] \in {"PENDING", "IN_PROGRESS"}
      <3>1. CASE g = e
        BY <1>2, <1>4, <3>1
      <3>2. CASE g # e
        <4>1. t.event[g] = Db.event[g] /\ (g \in H <=> g \in handling)
          BY <1>8, <3>2, ResultTypes
        <4>2. QED
          BY <1>4, <1>7, <2>1, <4>1 DEF Progress, Tidy
      <3>3. QED
        BY <3>1, <3>2
    <2>2. QED
      BY <1>4, <1>7, <2>1 DEF Progress, Tidy
  <1>13. \A g \in ResultEvents : Due(Db, handling, g) => Due(t, H, g)
    <2> SUFFICES ASSUME NEW g \in ResultEvents, Due(Db, handling, g)
                 PROVE  Due(t, H, g)
      OBVIOUS
    <2>1. CASE g = e
      BY <1>2, <1>4, <2>1 DEF Due
    <2>2. CASE g # e
      <3>1. t.event[g] = Db.event[g] /\ (g \in H <=> g \in handling)
        BY <1>8, <2>2, ResultTypes
      <3>2. QED
        BY <1>4, <3>1 DEF Due
    <2>3. QED
      BY <2>1, <2>2
  <1>14. Pursued(t, H, taken)
    <2> SUFFICES ASSUME NEW c \in Commands, Open(t, c)
                 PROVE  \/ AtWork(t, taken, c) /\ Unanswered(t, c)
                        \/ \E g \in ResultsOf(c) : Due(t, H, g)
      BY DEF Pursued
    <2>1. Open(Db, c)
      BY <1>4 DEF Open
    <2>2. \/ AtWork(Db, taken, c) /\ Unanswered(Db, c)
          \/ \E g \in ResultsOf(c) : Due(Db, handling, g)
      BY <1>7, <2>1 DEF Progress, Pursued
    <2>3. AtWork(Db, taken, c) => AtWork(t, taken, c)
      BY <1>4 DEF AtWork
    <2>4. QED
      BY <1>9, <1>13, <2>2, <2>3, ResultsOfTypes
  <1>15. Progress(t, H, taken)
    BY <1>10, <1>11, <1>12, <1>14 DEF Progress
  <1>16. QED
    BY <1>4, <1>5, <1>7, <1>15, CommitProgress

\* _poll_and_dispatch and the reaper of event rows
LEMMA PollGoes ==
    ASSUME Inv, NEW e \in Events, PollEvent(e) \/ ReapEvent(e)
    PROVE  Goes
  <1>1. event[e] \in {"PENDING", "IN_PROGRESS"} /\ step' = step
    BY DEF PollEvent, ReapEvent
  <1>2. PICK H : H = handling'
    OBVIOUS
  <1>3. H \ {e} = handling \ {e}
    BY <1>2 DEF PollEvent, ReapEvent
  <1>4. /\ event' = [event EXCEPT ![e] = "IN_PROGRESS"]
           \/ event' = [event EXCEPT ![e] = "PENDING"]
        /\ UNCHANGED <<manifest, saga, step, err, key, retried, undo, row,
                       claim, seen, taken, superseded>>
    BY DEF PollEvent, ReapEvent, workers
  <1>5. {"PENDING", "IN_PROGRESS"} \subseteq OutboxStatus
    BY DEF OutboxStatus
  <1>6. PICK s \in {"PENDING", "IN_PROGRESS"} : event' = [event EXCEPT ![e] = s]
    BY <1>4
  <1>7. ProgressInv => ProgressInv'
    BY <1>1, <1>2, <1>3, <1>4, <1>5, <1>6, EventProgress
  <1>8. QED
    BY <1>1, <1>7 DEF Goes, Lasts

\* Every request of a reviewer
LEMMA ReviewerGoes ==
    ASSUME Inv, Reviewer
    PROVE  Goes
  <1>1. "PENDING" \in OutboxStatus
    BY DEF OutboxStatus
  <1>2. PICK e \in Events :
          /\ e \notin ResultEvents
          /\ event' = [event EXCEPT ![e] = "PENDING"]
          /\ UNCHANGED <<manifest, saga, step, err, key, retried, undo, row,
                         claim, seen, handling, workers>>
    <2>1. ASSUME NEW i \in Steps, NEW d \in Decisions,
                 Decide(i, d) \/ DecideAgain(i, d)
          PROVE  \E e \in Events :
                    /\ e \notin ResultEvents
                    /\ event' = [event EXCEPT ![e] = "PENDING"]
                    /\ UNCHANGED <<manifest, saga, step, err, key, retried,
                                   undo, row, claim, seen, handling, workers>>
      <3>1. PICK e : e = <<d, i, 0>>
        OBVIOUS
      <3>2. e \in Events /\ e[1] \in Decisions
        BY <3>1, EventTypes DEF Decisions
      <3>3. e \notin ResultEvents
        BY <3>2 DEF Decisions, ResultEvents
      <3>4. /\ event' = [event EXCEPT ![e] = "PENDING"]
            /\ UNCHANGED <<manifest, saga, step, err, key, retried, undo, row,
                           claim, seen, handling, workers>>
        BY <2>1, <3>1 DEF Decide, DecideAgain
      <3>5. QED
        BY <3>2, <3>3, <3>4
    <2>2. ASSUME NEW i \in Steps, NEW a \in Asks, AskRetry(i, a)
          PROVE  \E e \in Events :
                    /\ e \notin ResultEvents
                    /\ event' = [event EXCEPT ![e] = "PENDING"]
                    /\ UNCHANGED <<manifest, saga, step, err, key, retried,
                                   undo, row, claim, seen, handling, workers>>
      <3>1. PICK e : e = <<"HUMAN_RETRY", i, a>>
        OBVIOUS
      <3>2. e \in Events /\ e[1] = "HUMAN_RETRY"
        BY <3>1, EventTypes
      <3>3. e \notin ResultEvents
        BY <3>2 DEF ResultEvents
      <3>4. /\ event' = [event EXCEPT ![e] = "PENDING"]
            /\ UNCHANGED <<manifest, saga, step, err, key, retried, undo, row,
                           claim, seen, handling, workers>>
        BY <2>2, <3>1 DEF AskRetry
      <3>5. QED
        BY <3>2, <3>3, <3>4
    <2>3. QED
      BY <2>1, <2>2 DEF Reviewer
  <1>3. /\ taken' = taken /\ superseded' = superseded /\ step' = step
        /\ UNCHANGED <<manifest, saga, step, err, key, retried, undo, row,
                       claim, seen, taken, superseded>>
    BY <1>2 DEF workers
  <1>4. ProgressInv => ProgressInv'
    <2>1. PICK H : H = handling
      OBVIOUS
    <2>2. handling' = H /\ H \ {e} = handling \ {e}
      BY <1>2, <2>1
    <2>3. QED
      BY <1>1, <1>2, <1>3, <2>2, EventProgress
  <1>5. QED
    BY <1>3, <1>4 DEF Goes, Lasts

\* Every step of the engine's consumer
LEMMA EngineGoes ==
    ASSUME Orderly, Inv, OrderInv, Engine
    PROVE  Goes
  <1>1. ASSUME NEW i \in Steps, HandleStep(i)
        PROVE  Goes
    BY <1>1, StepResultGoes, DecisionGoes, HumanRetryGoes DEF HandleStep
  <1>2. QED
    BY <1>1, PollGoes, IdleHandlerGoes, SagaStartedGoes, HandleUndoGoes DEF Engine

\* Forgetting what engines hold, where they may crash, and a step that
\* changes nothing.  The rows of the results that are forgotten remain.
LEMMA ForgetGoes ==
    ASSUME Inv, UNCHANGED <<manifest, tables, workers>>,
           handling' = handling \/ handling' = {}
    PROVE  Goes
  <1>1. Db \in DbType /\ Commit(Db)
    BY InvParts DEF Commit, Db, tables
  <1>2. /\ step' = step /\ manifest' = manifest
        /\ taken' = taken /\ superseded' = superseded
    BY DEF tables, workers
  <1>3. ASSUME ProgressInv
        PROVE  ProgressInv'
    <2>1. PICK d : d = Db
      OBVIOUS
    <2>2. Progress(d, handling, taken) /\ superseded = {}
      BY <1>3, <2>1 DEF ProgressInv
    <2>3. PICK H : H = handling'
      OBVIOUS
    <2>4. H \subseteq handling
      BY <2>3
    <2>5. Tidy(d, H, taken)
      BY <2>2, <2>4 DEF Progress, Tidy
    <2>6. \A e \in ResultEvents : Due(d, handling, e) => Due(d, H, e)
      BY <2>2 DEF Progress, Tidy, Due
    <2>7. Pursued(d, H, taken)
      BY <2>2, <2>6, ResultsOfTypes DEF Progress, Pursued
    <2>8. Progress(d, H, taken)
      BY <2>2, <2>5, <2>7 DEF Progress
    <2>9. QED
      BY <1>1, <1>2, <2>1, <2>2, <2>3, <2>8, CommitProgress
  <1>4. QED
    BY <1>2, <1>3 DEF Goes, Lasts

-----------------------------------------------------------------------------
(* Workers *)

\* A worker takes or claims the open command: it is at work before and after.
LEMMA WorkProgress ==
    ASSUME Inv, ProgressInv, NEW c \in Commands, NEW m \in ClaimStatus, NEW T,
           row' = [row EXCEPT ![c] = "IN_PROGRESS"],
           claim' = [claim EXCEPT ![c] = m],
           taken' = T, T \ {c} = taken \ {c},
           UNCHANGED <<manifest, saga, step, err, key, retried, undo, event,
                       seen, handling, superseded>>,
           row[c] # "none", m # "emitted"
    PROVE  ProgressInv'
  <1> DEFINE fr == [row EXCEPT ![c] = "IN_PROGRESS"]
             fc == [claim EXCEPT ![c] = m]
             t == [Db EXCEPT !.row = fr, !.claim = fc]
  <1>1. /\ Db \in DbType /\ row \in [Commands -> OutboxStatus]
        /\ claim \in [Commands -> ClaimStatus]
        /\ "IN_PROGRESS" \in OutboxStatus
    BY InvParts DEF OutboxStatus
  <1>2. /\ fr \in [Commands -> OutboxStatus]
        /\ fr[c] = "IN_PROGRESS"
        /\ \A d \in Commands : d # c => fr[d] = row[d]
    BY <1>1
  <1>3. /\ fc \in [Commands -> ClaimStatus]
        /\ fc[c] = m
        /\ \A d \in Commands : d # c => fc[d] = claim[d]
    BY <1>1
  <1>4. row' = fr /\ claim' = fc
    OBVIOUS
  <1> HIDE DEF fr, fc
  <1>5. /\ t \in DbType /\ t.row = fr /\ t.claim = fc
        /\ t.saga = Db.saga /\ t.step = Db.step
        /\ t.key = Db.key /\ t.undo = Db.undo /\ t.event = Db.event
        /\ t.seen = Db.seen
    BY <1>1, <1>2, <1>3 DEF DbType
  <1>6. Commit(t)
    BY <1>4 DEF Commit, Db
  <1>7. Db.row = row /\ Db.claim = claim
    BY DEF Db
  <1> HIDE DEF t
  <1>8. Progress(Db, handling, taken) /\ superseded = {}
    BY DEF ProgressInv
  <1>9. \A d \in Commands : Unanswered(Db, d) <=> Unanswered(t, d)
    BY <1>5 DEF Unanswered
  <1>10. \A d \in Commands : Db.row[d] = "none" => t.row[d] = "none"
    BY <1>2, <1>5, <1>7
  <1>11. Stock(t)
    BY <1>1, <1>5, <1>8, <1>9, <1>10, StockFramed DEF Progress
  <1>12. Busy(t)
    BY <1>5, <1>8 DEF Progress, Busy, NoneRuns
  <1>13. \A d \in Commands : d # c => (d \in T <=> d \in taken)
    OBVIOUS
  <1>14. Tidy(t, handling, T)
    <2>1. ASSUME NEW d \in Commands
          PROVE  /\ t.row[d] # "FAILED"
                 /\ t.claim[d] = "held" \/ d \in T => t.row[d] = "IN_PROGRESS"
                 /\ t.claim[d] = "emitted" => t.row[d] = "COMPLETED"
      <3>1. CASE d = c
        BY <1>2, <1>3, <1>5, <3>1
      <3>2. CASE d # c
        BY <1>2, <1>3, <1>5, <1>7, <1>8, <1>13, <3>2 DEF Progress, Tidy
      <3>3. QED
        BY <3>1, <3>2
    <2>2. QED
      BY <1>5, <1>8, <2>1 DEF Progress, Tidy
  <1>15. Pursued(t, handling, T)
    <2> SUFFICES ASSUME NEW d \in Commands, Open(t, d)
                 PROVE  \/ AtWork(t, T, d) /\ Unanswered(t, d)
                        \/ \E g \in ResultsOf(d) : Due(t, handling, g)
      BY DEF Pursued
    <2>1. Open(Db, d)
      BY <1>5 DEF Open
    <2>2. \/ AtWork(Db, taken, d) /\ Unanswered(Db, d)
          \/ \E g \in ResultsOf(d) : Due(Db, handling, g)
      BY <1>8, <2>1 DEF Progress, Pursued
    <2>3. AtWork(Db, taken, d) => AtWork(t, T, d)
      <3>1. CASE d = c
        BY <1>2, <1>5, <3>1 DEF AtWork
      <3>2. CASE d # c
        BY <1>2, <1>3, <1>5, <1>7, <1>13, <3>2 DEF AtWork
      <3>3. QED
        BY <3>1, <3>2
    <2>4. \A g \in ResultsOf(d) : Due(Db, handling, g) => Due(t, handling, g)
      BY <1>5 DEF Due
    <2>5. QED
      BY <1>9, <2>2, <2>3, <2>4
  <1>16. Progress(t, handling, T)
    BY <1>11, <1>12, <1>14, <1>15 DEF Progress
  <1>17. QED
    BY <1>5, <1>6, <1>8, <1>16, CommitProgress

\* A worker takes a command, claims it, or drops a delivery.
LEMMA WorkGoes ==
    ASSUME Inv, OrderInv, NEW c \in Commands,
           \/ WorkerTakes(c) \/ WorkerClaims(c) \/ WorkerSkips(c)
           \/ SupersededReturns(c)
    PROVE  Goes
  <1>1. Lasts
    BY DEF WorkerTakes, WorkerClaims, WorkerSkips, SupersededReturns, Lasts
  <1>2. ASSUME ProgressInv
        PROVE  ProgressInv'
    <2>1. /\ Db \in DbType /\ row \in [Commands -> OutboxStatus]
          /\ claim \in [Commands -> ClaimStatus]
          /\ Db.row = row /\ Db.claim = claim
      BY InvParts DEF Db
    <2>2. /\ claim[c] = "held" \/ c \in taken => row[c] = "IN_PROGRESS"
          /\ claim[c] = "emitted" => row[c] = "COMPLETED"
          /\ superseded = {}
      BY <1>2, <2>1 DEF ProgressInv, Progress, Tidy
    <2>3. claim[c] = "held" => c \notin taken
      BY <2>1 DEF OrderInv, Flight, WorkIsOpen
    <2>4. claim[c] \in {"none", "held", "emitted"}
      BY <2>1 DEF ClaimStatus
    <2>5. CASE WorkerTakes(c)
      <3>1. /\ row[c] = "PENDING" /\ row' = [row EXCEPT ![c] = "IN_PROGRESS"]
            /\ claim' = [claim EXCEPT ![c] = claim[c]]
            /\ UNCHANGED <<manifest, saga, step, err, key, retried, undo, event,
                           seen, handling, superseded>>
        BY <2>1, <2>5 DEF WorkerTakes
      <3>2. PICK T : T = taken \cup {c}
        OBVIOUS
      <3>3. taken' = T /\ T \ {c} = taken \ {c}
        BY <2>5, <3>2 DEF WorkerTakes
      <3>4. claim[c] \in ClaimStatus /\ claim[c] # "emitted"
        BY <2>1, <2>2, <3>1
      <3>5. QED
        BY <1>2, <3>1, <3>3, <3>4, WorkProgress
    <2>6. CASE WorkerClaims(c)
      <3>1. row[c] = "IN_PROGRESS" /\ row' = [row EXCEPT ![c] = "IN_PROGRESS"]
        BY <2>1, <2>2, <2>6 DEF WorkerClaims
      <3>2. /\ claim' = [claim EXCEPT ![c] = "held"]
            /\ UNCHANGED <<manifest, saga, step, err, key, retried, undo, event,
                           seen, handling, superseded>>
        BY <2>6 DEF WorkerClaims
      <3>3. PICK T : T = taken \ {c}
        OBVIOUS
      <3>4. taken' = T /\ T \ {c} = taken \ {c}
        BY <2>6, <3>3 DEF WorkerClaims
      <3>5. "held" \in ClaimStatus
        BY DEF ClaimStatus
      <3>6. QED
        BY <1>2, <3>1, <3>2, <3>4, <3>5, WorkProgress
    <2>7. CASE WorkerSkips(c)
      <3>1. c \in taken /\ claim[c] # "none"
        BY <2>7 DEF WorkerSkips
      <3>2. QED
        BY <2>2, <2>3, <2>4, <3>1
    <2>8. CASE SupersededReturns(c)
      BY <2>2, <2>8 DEF SupersededReturns
    <2>9. QED
      BY <2>5, <2>6, <2>7, <2>8
  <1>3. QED
    BY <1>1, <1>2 DEF Goes

\* A result is published for the open command, and nothing answered it before:
\* it is to be handled.
LEMMA ReportGoes ==
    ASSUME Orderly, Inv, OrderInv, NEW c \in Commands, NEW e \in ResultsOf(c),
           NEW mark \in {"none", "emitted"}, Report(c, e, mark)
    PROVE  Goes
  <1>1. /\ Db \in DbType /\ row \in [Commands -> OutboxStatus]
        /\ claim \in [Commands -> ClaimStatus]
        /\ event \in [Events -> OutboxStatus]
        /\ e \in ResultEvents /\ e \in Events
    BY InvParts, ResultsOfStep
  <1>2. claim[c] = "held" /\ UNCHANGED <<manifest, handling, taken, superseded>>
    BY DEF Report, workers
  <1>3. PICK s \in Acked(c) :
          Commit(Publish([Db EXCEPT !.claim[c] = mark, !.row[c] = s], e))
    BY DEF Report
  <1> DEFINE fr == [row EXCEPT ![c] = s]
             fc == [claim EXCEPT ![c] = mark]
             a == [Db EXCEPT !.claim = fc, !.row = fr]
  <1>4. Db.row = row /\ Db.claim = claim /\ Db.step = step
    BY DEF Db
  <1>5. s \in OutboxStatus
    BY <1>1 DEF Acked, OutboxStatus
  <1>6. /\ fr \in [Commands -> OutboxStatus]
        /\ fr[c] = s
        /\ \A d \in Commands : d # c => fr[d] = row[d]
    BY <1>1, <1>5
  <1>7. /\ fc \in [Commands -> ClaimStatus]
        /\ fc[c] = mark
        /\ \A d \in Commands : d # c => fc[d] = claim[d]
    BY <1>1 DEF ClaimStatus
  <1>8. [Db EXCEPT !.claim[c] = mark, !.row[c] = s] = a
    BY <1>4
  <1> HIDE DEF fr, fc
  <1>9. /\ a \in DbType /\ a.row = fr /\ a.claim = fc
        /\ a.saga = Db.saga /\ a.step = Db.step
        /\ a.key = Db.key /\ a.undo = Db.undo /\ a.event = Db.event
        /\ a.seen = Db.seen
    BY <1>1, <1>6, <1>7 DEF DbType
  <1> HIDE DEF a
  <1>10. PICK t : t = Publish(a, e)
    OBVIOUS
  <1>11. /\ t \in DbType
         /\ t.saga = Db.saga /\ t.step = Db.step
         /\ t.undo = Db.undo /\ t.key = Db.key /\ t.claim = fc
         /\ t.row = fr /\ t.seen = Db.seen
         /\ \A f \in Events :
               t.event[f] = IF f = e /\ Db.event[e] = "none"
                            THEN "PENDING" ELSE Db.event[f]
    BY <1>1, <1>9, <1>10, PublishFields
  <1>12. Commit(t)
    BY <1>3, <1>8, <1>10
  <1>13. Lasts
    BY <1>4, <1>11, <1>12 DEF Commit, Lasts
  <1>14. ASSUME ProgressInv
         PROVE  ProgressInv'
    <2>1. /\ Stock(Db) /\ Busy(Db) /\ Tidy(Db, handling, taken)
          /\ Pursued(Db, handling, taken) /\ superseded = {}
      BY <1>14 DEF ProgressInv, Progress
    <2>2. /\ WorkIsOpen(Db, taken) /\ ResultIsOpen(Db, handling, taken)
          /\ Shape(Db)
      BY DEF OrderInv, Flight
    <2>3. row[c] = "IN_PROGRESS" /\ s = "COMPLETED"
      <3>1. row[c] = "IN_PROGRESS"
        BY <1>2, <1>4, <2>1 DEF Tidy
      <3>2. QED
        BY <3>1 DEF Acked, Orderly
    <2>4. AtWork(Db, taken, c) /\ Open(Db, c) /\ c \notin taken
      BY <1>2, <1>4, <2>2 DEF WorkIsOpen, AtWork
    <2>5. \A f \in ResultEvents : ~Due(Db, handling, f)
      BY <2>2, <2>4 DEF ResultIsOpen, NoWork
    <2>6. Unanswered(Db, c)
      BY <2>1, <2>4, <2>5, ResultsOfTypes DEF Pursued
    <2>7. Db.event[e] = "none" /\ e \notin Db.seen
      BY <2>6 DEF Unanswered
    <2>8. /\ t.event[e] = "PENDING"
          /\ \A f \in Events : f # e => t.event[f] = Db.event[f]
      BY <1>1, <1>11, <2>7
    <2>9. ASSUME NEW d \in Commands, ~Open(Db, d), Unanswered(Db, d),
                 d[1] = "fwd" => d[3] = Db.key[d[2]]
          PROVE  Unanswered(t, d)
      <3>1. e \notin ResultsOf(d)
        <4> SUFFICES ASSUME e \in ResultsOf(d)
                     PROVE  FALSE
          OBVIOUS
        <4>1. /\ e[2] = c[2] /\ e[2] = d[2]
              /\ e[3] = 0 <=> c[1] = "fwd"
              /\ e[3] = 0 <=> d[1] = "fwd"
              /\ c[1] # "fwd" => e[3] = c[3]
              /\ d[1] # "fwd" => e[3] = d[3]
          BY ResultsOfStep
        <4>2. QED
          BY <2>4, <2>9, <4>1 DEF Open
      <3>2. \A f \in ResultsOf(d) : f \in Events /\ f # e
        BY <3>1, ResultsOfStep
      <3>3. QED
        BY <1>11, <2>8, <2>9, <3>2 DEF Unanswered
    <2>10. \A d \in Commands : Db.row[d] = "none" => t.row[d] = "none"
      BY <1>4, <1>6, <1>11, <2>3
    <2>11. Stock(t)
      BY <1>1, <1>11, <2>1, <2>9, <2>10, StockFramed
    <2>12. Busy(t)
      BY <1>11, <2>1 DEF Busy, NoneRuns
    <2>13. Tidy(t, handling, taken)
      <3>1. ASSUME NEW d \in Commands
            PROVE  /\ t.row[d] # "FAILED"
                   /\ t.claim[d] = "held" \/ d \in taken => t.row[d] = "IN_PROGRESS"
                   /\ t.claim[d] = "emitted" => t.row[d] = "COMPLETED"
        <4>1. CASE d = c
          BY <1>6, <1>7, <1>11, <2>3, <2>4, <4>1
        <4>2. CASE d # c
          BY <1>4, <1>6, <1>7, <1>11, <2>1, <4>2 DEF Tidy
        <4>3. QED
          BY <4>1, <4>2
      <3>2. ASSUME NEW f \in ResultEvents, f \notin t.seen,
                   t.event[f] # "none" \/ f \in handling
            PROVE  t.event[f] \in {"PENDING", "IN_PROGRESS"}
        <4>1. CASE f = e
          BY <2>8, <4>1
        <4>2. CASE f # e
          BY <1>11, <2>1, <2>8, <3>2, <4>2, ResultTypes DEF Tidy
        <4>3. QED
          BY <4>1, <4>2
      <3>3. QED
        BY <3>1, <3>2 DEF Tidy
    <2>14. Due(t, handling, e)
      BY <1>11, <2>7, <2>8 DEF Due
    <2>15. Pursued(t, handling, taken)
      <3> SUFFICES ASSUME NEW d \in Commands, Open(t, d)
                   PROVE  \E g \in ResultsOf(d) : Due(t, handling, g)
        BY DEF Pursued
      <3>1. Open(Db, d)
        BY <1>11 DEF Open
      <3>2. d = c
        BY <1>1, <2>2, <2>4, <3>1, OpenUnique
      <3>3. QED
        BY <2>14, <3>2
    <2>16. Progress(t, handling, taken)
      BY <2>11, <2>12, <2>13, <2>15 DEF Progress
    <2>17. QED
      BY <1>2, <1>11, <1>12, <2>1, <2>16, CommitProgress
  <1>15. QED
    BY <1>13, <1>14 DEF Goes

\* Every step of a worker
LEMMA WorkerGoes ==
    ASSUME Orderly, Inv, OrderInv, Worker
    PROVE  Goes
  <1>1. ASSUME NEW i \in Steps, NEW k \in Keys,
               WorkerCompletes(i, k) \/ WorkerFails(i, k)
        PROVE  Goes
    <2>1. PICK c \in Commands : c = <<"fwd", i, k>>
      BY CommandTypes
    <2>2. PICK e \in Results(i), mark \in {"none", "emitted"} : Report(c, e, mark)
      BY <1>1, <2>1 DEF WorkerCompletes, WorkerFails, Results
    <2>3. e \in ResultsOf(c)
      BY <2>1, <2>2 DEF ResultsOf
    <2>4. QED
      BY <2>2, <2>3, ReportGoes
  <1>2. ASSUME NEW s \in Steps, NEW u \in Undos,
               WorkerUndoes(s, u) \/ WorkerFailsToUndo(s, u)
        PROVE  Goes
    <2>1. PICK c \in Commands : c = <<"undo", s, u>>
      BY CommandTypes
    <2>2. PICK type \in {"STEP_COMPENSATED", "COMPENSATION_FAILED"},
               mark \in {"none", "emitted"} : Report(c, <<type, s, u>>, mark)
      BY <1>2, <2>1 DEF WorkerUndoes, WorkerFailsToUndo
    <2>3. <<type, s, u>> \in ResultsOf(c)
      BY <2>1, <2>2 DEF ResultsOf
    <2>4. QED
      BY <2>2, <2>3, ReportGoes
  <1>3. ASSUME NEW s \in Steps, NEW u \in Undos, WorkerHasNoAdapter(s, u)
        PROVE  Goes
    <2>1. ~Steady
      BY <1>3 DEF WorkerHasNoAdapter, Steady
    <2>2. step' = step
      <3>1. PICK c \in Commands, e \in Events :
              \E r : Commit(Publish([Db EXCEPT !.claim[c] = "none", !.row[c] = r], e))
        BY <1>3, CommandTypes, EventTypes DEF WorkerHasNoAdapter, Report
      <3>2. QED
        BY <3>1 DEF Commit, Publish, Db
    <2>3. QED
      BY <2>1, <2>2 DEF Goes, Lasts
  <1>4. QED
    BY <1>1, <1>2, <1>3, WorkGoes DEF Worker

-----------------------------------------------------------------------------
(* Faults and the operator *)

\* Every fault that Orderly admits
LEMMA FaultGoes ==
    ASSUME Orderly, Inv, Fault
    PROVE  Goes
  <1>1. ASSUME NEW e \in Events, HandlerRaises(e)
        PROVE  Goes
    BY <1>1 DEF HandlerRaises, Steady, Goes, Lasts
  <1>2. ASSUME NEW c \in Commands, WorkerRaises(c)
        PROVE  Goes
    BY <1>2 DEF WorkerRaises, Steady, Goes, Lasts
  <1>3. CASE EngineCrash
    BY <1>3, ForgetGoes DEF EngineCrash
  <1>4. QED
    BY <1>1, <1>2, <1>3, PollGoes
       DEF Fault, Orderly, WorkerCrash, ReapCommand, ReapClaim

\* _execute_retry_forward, which Orderly allows where engines do not crash
LEMMA RetryForwardGoes ==
    ASSUME Orderly, Inv, OrderInv, NEW i \in Steps, NEW force \in BOOLEAN,
           RetryForward(i, force)
    PROVE  Goes
  <1>1. PICK c \in Commands : c = <<"fwd", i, key[i]>>
    BY CommandTypes, InvParts
  <1>2. /\ "retry_forward" \in Ops
        /\ AwaitingOperator(i)
        /\ key[i] < MaxKeys
        /\ handling' = handling /\ taken' = taken /\ manifest' = manifest
        /\ Supersede(c)
    BY <1>1 DEF RetryForward
  <1>3. "engine_crash" \notin Faults
    BY <1>2 DEF Orderly
  <1>4. PICK d : d = Db
    OBVIOUS
  <1>5. d \in DbType /\ d.key = key /\ d.claim = claim /\ d.step = step
    BY <1>4, InvParts DEF Db
  <1>6. /\ Calm(d) /\ Idle(d, handling, taken)
        /\ HeldOnce(d, handling) /\ RetryIsAsked(d, handling)
        /\ At(d, i, {"FAILED", "TIMED_OUT"})
    BY <1>2, <1>4, RecoveryOrder
  <1>7. Unclaim(d, c) = d /\ claim[c] # "held"
    BY <1>5, <1>6 DEF Unclaim, Calm
  <1>8. PICK a : a = SetSaga(Reset(d, i), "RUNNING")
    OBVIOUS
  <1>9. PICK t \in Trigger(a, i, {"IN_PROGRESS"}) : Commit(t)
    BY <1>1, <1>4, <1>7, <1>8 DEF RetryForward, SetSaga
  <1>10. Renewed(d, a, i)
    BY <1>2, <1>5, <1>8, RetryForwardRenews
  <1>11. Front(d, i) /\ d.step[i] \in {"FAILED", "TIMED_OUT"}
    BY <1>6 DEF At
  <1>12. superseded' = superseded
    BY <1>2, <1>7 DEF Supersede
  <1>13. ProgressInv => Stock(d) /\ Tidy(d, handling, taken)
    BY <1>4 DEF ProgressInv, Progress
  <1>14. PICK H, T : H = handling /\ T = taken
    OBVIOUS
  <1>15. /\ Idle(d, H, T) /\ HeldOnce(d, H) /\ RetryIsAsked(d, H)
         /\ handling' = H /\ taken' = T
         /\ ProgressInv => Stock(d) /\ Tidy(d, H, T)
    BY <1>2, <1>6, <1>13, <1>14
  <1>16. QED
    BY <1>2, <1>3, <1>5, <1>6, <1>9, <1>10, <1>11, <1>12, <1>15, RenewedGoes

\* _execute_start_compensation
LEMMA StartCompensationGoes ==
    ASSUME Inv, OrderInv, NEW i \in Steps, StartCompensation(i)
    PROVE  Goes
  <1>1. /\ AwaitingOperator(i)
        /\ UNCHANGED <<manifest, handling, taken, superseded>>
    BY DEF StartCompensation, workers
  <1>2. PICK d : d = Db
    OBVIOUS
  <1>3. /\ Calm(d) /\ Idle(d, handling, taken)
        /\ At(d, i, {"FAILED", "TIMED_OUT"})
    BY <1>1, <1>2, RecoveryOrder
  <1>4. d \in DbType /\ d.step = step /\ d.err = err
    BY <1>2, InvParts DEF Db
  <1>5. PICK from \in Int : from = IF Dirty(i) THEN i ELSE i - 1
    BY DEF Steps
  <1>6. /\ AtRest(d) /\ InOrder(d) /\ Above(d) /\ NoneRuns(d)
        /\ Clear(d, i)
        /\ d.step[i] = "FAILED" /\ d.err[i] # "crash" => Clear(d, i - 1)
    BY <1>3, FailedFront
  <1>7. Clear(d, from)
    BY <1>3, <1>4, <1>5, <1>6 DEF Dirty, At
  <1>8. PICK t : Commit(t) /\ Reached(d, t) /\ Supplies(d, t)
    <2>1. CASE from < 0
      <3>1. PICK t : t = Close(d, "FAILED", "SAGA_FAILED")
        OBVIOUS
      <3>2. Commit(t)
        BY <1>2, <1>5, <2>1, <3>1 DEF StartCompensation
      <3>3. InOrder([d EXCEPT !.saga = "FAILED"])
        <4>1. PICK b : b = SetSaga(d, "FAILED")
          OBVIOUS
        <4>2. b.saga = "FAILED" /\ b.step = d.step
          BY <1>4, <4>1, SagaFields, StatusSets
        <4>3. InOrder(b)
          BY <1>6, <4>2 DEF InOrder
        <4>4. QED
          BY <4>1, <4>3 DEF SetSaga
      <3>4. Reached(d, t)
        BY <1>3, <1>6, <3>1, <3>3, CloseShape
      <3>5. Supplies(d, t)
        BY <1>4, <3>1, <3>4, CloseSupplies
      <3>6. QED
        BY <3>2, <3>4, <3>5
    <2>2. CASE ~(from < 0)
      <3>1. PICK b : b = SetSaga(d, "COMPENSATING")
        OBVIOUS
      <3>2. PICK t \in Unwind(b, from) : Commit(t)
        BY <1>2, <1>5, <2>2, <3>1 DEF StartCompensation, SetSaga
      <3>3. /\ Unwinding(b) /\ Clear(b, from)
            /\ Framed(d, b)
            /\ b.step = d.step /\ b.row = d.row /\ b.undo = d.undo
        BY <1>3, <1>7, <3>1, FailUnwinds
      <3>4. Reached(d, t)
        BY <3>2, <3>3, UnwindReaches, ReachedFrom
      <3>5. Saves(d, b)
        BY <1>4, <3>3, WriteSaves DEF Waits
      <3>6. Supplies(b, t)
        BY <3>2, <3>3, UnwindSupplies
      <3>7. QED
        BY <3>2, <3>4, <3>5, <3>6, SuppliesFrom
    <2>3. QED
      BY <2>1, <2>2
  <1>9. PICK H, T : H = handling /\ T = taken
    OBVIOUS
  <1>10. /\ Idle(d, H, T) /\ handling' = H /\ taken' = T
         /\ manifest' = manifest /\ superseded' = superseded
         /\ ProgressInv => Stock(d) /\ Tidy(d, H, T)
    BY <1>1, <1>2, <1>3, <1>9 DEF ProgressInv, Progress
  <1>11. Lasting(d, t)
    BY <1>8 DEF Supplies
  <1>12. QED
    BY <1>4, <1>8, <1>10, <1>11, ReachedGoes

\* Every command of the operator that Orderly admits
LEMMA OperatorGoes ==
    ASSUME Orderly, Inv, OrderInv, Operator
    PROVE  Goes
  BY RetryForwardGoes, StartCompensationGoes
     DEF Operator, Orderly, RetryStep, RetryCompensation

-----------------------------------------------------------------------------
(* The invariant *)

\* It holds of the saga as it was created.
LEMMA InitProgress == Init => ProgressInv
  <1> SUFFICES ASSUME Init
               PROVE  ProgressInv
    OBVIOUS
  <1>1. /\ saga = "PENDING"
        /\ step = [s \in Steps |-> "PENDING"]
        /\ undo = [s \in Steps |-> [u \in Undos |-> "none"]]
        /\ key = [s \in Steps |-> 1]
        /\ row = [c \in Commands |-> "none"]
        /\ claim = [c \in Commands |-> "none"]
        /\ event = [e \in Events |-> IF e = <<"SAGA_STARTED", 0, 0>>
                                      THEN "PENDING" ELSE "none"]
        /\ seen = {} /\ handling = {} /\ taken = {} /\ superseded = {}
    BY DEF Init
  <1>2. PICK d : d = Db
    OBVIOUS
  <1>3. /\ d.saga = saga /\ d.step = step /\ d.undo = undo /\ d.key = key
        /\ d.row = row /\ d.claim = claim /\ d.event = event /\ d.seen = seen
    BY <1>2 DEF Db
  <1>4. \A e \in ResultEvents : d.event[e] = "none" /\ e \notin d.seen
    BY <1>1, <1>3, NoticeIsNoResult, ResultTypes
  <1>5. \A c \in Commands : Ready(d, c) /\ ~Open(d, c)
    <2> SUFFICES ASSUME NEW c \in Commands
                 PROVE  Ready(d, c) /\ ~Open(d, c)
      OBVIOUS
    <2>1. Unanswered(d, c)
      BY <1>4, ResultsOfTypes DEF Unanswered
    <2>2. /\ c[1] = "fwd" => c[2] \in Steps
          /\ c[1] # "fwd" => c[2] \in Steps /\ c[3] \in Undos
      BY DEF Commands
    <2>3. ~Open(d, c)
      BY <1>1, <1>3, <2>2 DEF Open
    <2>4. QED
      BY <1>1, <1>3, <2>1, <2>3 DEF Ready
  <1>6. Stock(d)
    <2>1. \A i \in Steps : d.key[i] \in Keys
      BY <1>1, <1>3, BoundsAssumption DEF Keys
    <2>2. QED
      BY <1>5, <2>1, CommandTypes DEF Stock, Ready, Upcoming
  <1>7. Busy(d) /\ Pursued(d, handling, taken)
    BY <1>1, <1>3, <1>5 DEF Busy, Pursued
  <1>8. Tidy(d, handling, taken)
    BY <1>1, <1>3, <1>4 DEF Tidy
  <1>9. QED
    BY <1>1, <1>2, <1>6, <1>7, <1>8 DEF ProgressInv, Progress

\* What every step does.
LEMMA NextGoes ==
    ASSUME Orderly
    PROVE  Inv /\ OrderInv /\ [Next]_vars => Goes
  <1> SUFFICES ASSUME Inv, OrderInv, [Next]_vars
               PROVE  Goes
    OBVIOUS
  <1>1. CASE Next
    BY <1>1, EngineGoes, WorkerGoes, ReviewerGoes, OperatorGoes, FaultGoes
       DEF Next
  <1>2. CASE UNCHANGED vars
    BY <1>2, ForgetGoes DEF vars
  <1>3. QED
    BY <1>1, <1>2

\* It holds in every behaviour that Steady admits.
LEMMA AlwaysProgress ==
    ASSUME Steady
    PROVE  Spec => [](Inv /\ OrderInv /\ ProgressInv)
  <1>1. Orderly
    BY DEF Steady
  <1>2. Init => Inv /\ OrderInv /\ ProgressInv
    BY InitInv, InitOrder, InitProgress
  <1>3. (Inv /\ OrderInv /\ ProgressInv) /\ [Next]_vars =>
            (Inv /\ OrderInv /\ ProgressInv)'
    BY <1>1, NextInv, NextOrder, NextGoes DEF Goes
  <1>4. QED
    BY <1>2, <1>3, PTL DEF Spec

-----------------------------------------------------------------------------
(* What follows *)

\* A running saga is never stuck: the step it has come to has its command with
\* a worker, or with the consumer that will give it to one, or its result is on
\* the way to the engine.  No reaper, retry or review drops the one before the
\* other exists (trigger_step, _finalize_success, process_saga_event).
THEOREM RunningSagaHasWork ==
    ASSUME Steady
    PROVE  Spec => []RunningHasWork
  <1>1. Inv /\ OrderInv /\ ProgressInv => RunningHasWork
    <2> SUFFICES ASSUME Inv, OrderInv, ProgressInv, saga = "RUNNING"
                 PROVE  \E i \in Steps :
                           /\ step[i] = "IN_PROGRESS"
                           /\ \/ UnderWay(<<"fwd", i, key[i]>>)
                              \/ \E e \in Results(i) : Queued(e) /\ e \notin seen
      BY DEF RunningHasWork
    <2>1. PICK d : d = Db
      OBVIOUS
    <2>2. /\ d.saga = saga /\ d.step = step /\ d.key = key /\ d.row = row
          /\ d.claim = claim /\ d.event = event /\ d.seen = seen
      BY <2>1 DEF Db
    <2>3. /\ Shape(d) /\ Tidy(d, handling, taken)
          /\ Pursued(d, handling, taken)
      BY <2>1 DEF OrderInv, ProgressInv, Progress
    <2>4. PICK i \in Steps : step[i] = "IN_PROGRESS"
      BY <2>2, <2>3 DEF Shape, Forward, At
    <2>5. PICK c \in Commands : c = <<"fwd", i, key[i]>>
      BY CommandTypes, InvParts
    <2>6. Open(d, c) /\ ResultsOf(c) = Results(i)
      BY <2>2, <2>4, <2>5 DEF Open, ResultsOf
    <2>7. \/ AtWork(d, taken, c)
          \/ \E e \in Results(i) : Due(d, handling, e)
      BY <2>3, <2>6 DEF Pursued
    <2>8. AtWork(d, taken, c) => UnderWay(c)
      BY <2>2, <2>3 DEF AtWork, UnderWay, Live, Tidy
    <2>9. \A e \in Results(i) : Due(d, handling, e) => Queued(e) /\ e \notin seen
      BY <2>2 DEF Due, Queued
    <2>10. QED
      BY <2>4, <2>5, <2>7, <2>8, <2>9
  <1>2. QED
    BY <1>1, AlwaysProgress, PTL

\* A saga that unwinds is never stuck: one undo of it runs, with its command
\* or its result on the way, until nothing is left to undo or an undo fails
\* (_advance_lifo_compensation, _schedule_compensation_for_forward).
THEOREM UnwindingSagaHasWork ==
    ASSUME Steady
    PROVE  Spec => []CompensatingHasWork
  <1>1. Inv /\ OrderInv /\ ProgressInv => CompensatingHasWork
    <2> SUFFICES ASSUME Inv, ProgressInv, saga = "COMPENSATING"
                 PROVE  \E s \in Steps, u \in Undos :
                           /\ undo[s][u] = "COMPENSATING"
                           /\ \/ UnderWay(<<"undo", s, u>>)
                              \/ \E type \in {"STEP_COMPENSATED",
                                              "COMPENSATION_FAILED"} :
                                    /\ Queued(<<type, s, u>>)
                                    /\ <<type, s, u>> \notin seen
      BY DEF CompensatingHasWork
    <2>1. PICK d : d = Db
      OBVIOUS
    <2>2. /\ d.saga = saga /\ d.undo = undo /\ d.row = row
          /\ d.claim = claim /\ d.event = event /\ d.seen = seen
      BY <2>1 DEF Db
    <2>3. /\ Busy(d) /\ Tidy(d, handling, taken)
          /\ Pursued(d, handling, taken)
      BY <2>1 DEF ProgressInv, Progress
    <2>4. PICK s \in Steps, u \in Undos : undo[s][u] = "COMPENSATING"
      BY <2>2, <2>3 DEF Busy, NoneRuns
    <2>5. PICK c \in Commands : c = <<"undo", s, u>>
      BY CommandTypes
    <2>6. /\ Open(d, c)
          /\ ResultsOf(c) = {<<"STEP_COMPENSATED", s, u>>,
                             <<"COMPENSATION_FAILED", s, u>>}
      BY <2>2, <2>4, <2>5 DEF Open, ResultsOf
    <2>7. \/ AtWork(d, taken, c)
          \/ \E type \in {"STEP_COMPENSATED", "COMPENSATION_FAILED"} :
                Due(d, handling, <<type, s, u>>)
      BY <2>3, <2>6 DEF Pursued
    <2>8. AtWork(d, taken, c) => UnderWay(c)
      BY <2>2, <2>3 DEF AtWork, UnderWay, Live, Tidy
    <2>9. \A type \in {"STEP_COMPENSATED", "COMPENSATION_FAILED"} :
             Due(d, handling, <<type, s, u>>) =>
                 Queued(<<type, s, u>>) /\ <<type, s, u>> \notin seen
      BY <2>2 DEF Due, Queued
    <2>10. QED
      BY <2>4, <2>5, <2>7, <2>8, <2>9
  <1>2. QED
    BY <1>1, AlwaysProgress, PTL

\* A step that completed stays so under every event, request and command that
\* Orderly admits: what a later step read of its output stays true.  The run
\* late_failure shows that this needs Orderly: retry-step lets a result of the
\* first delivery arrive when the second is done.
THEOREM CompletedStepsStay ==
    ASSUME Orderly
    PROVE  Spec => CompletedIsFinal
  <1>1. Inv /\ OrderInv /\ [Next]_vars =>
            [\A i \in Steps :
                step[i] = "COMPLETED" =>
                    \/ step'[i] = "COMPLETED"
                    \/ step'[i] = "FAILED" /\ saga' = "FAILED" /\ saga # "COMPLETED"]_vars
    <2> SUFFICES ASSUME Inv, OrderInv, [Next]_vars
                 PROVE  \A i \in Steps :
                           step[i] = "COMPLETED" =>
                               \/ step'[i] = "COMPLETED"
                               \/ /\ step'[i] = "FAILED" /\ saga' = "FAILED"
                                  /\ saga # "COMPLETED"
      OBVIOUS
    <2>1. Lasts
      BY NextGoes DEF Goes
    <2>2. saga = "COMPLETED" => saga' = "COMPLETED"
      BY EndedStays DEF Ended
    <2>3. QED
      BY <2>1, <2>2 DEF Lasts
  <1>2. QED
    BY <1>1, AlwaysOrder, PTL DEF Spec, CompletedIsFinal

=============================================================================
