-------------------------- MODULE SagaEngineProofs --------------------------
(***************************************************************************)
(* Theorems about SagaEngine, for any number of steps, any manifest, every *)
(* operator command and every fault.                                       *)
(***************************************************************************)
EXTENDS SagaEngine, TLAPS

\* The gate of a reviewed commit step, for the contents tx and the approvals A.
Gated(tx, A) ==
    \A i \in Steps, k \in Keys :
        /\ manifest[i].kind = "commit" /\ manifest[i].hitl
        /\ tx.row[<<"fwd", i, k>>] # "none"
        => \E a \in A : a.step = i /\ a.key = k

\* What the rows of undos and the ingest keys of the contents tx say of each
\* other: a row that FAILED was reported so, and a row that another follows
\* FAILED.
UndoTrail(tx) ==
    /\ \A s \in Steps, u \in Undos :
          tx.undo[s][u] = "FAILED" => <<"COMPENSATION_FAILED", s, u>> \in tx.seen
    /\ \A s \in Steps, u, v \in Undos :
          u < v /\ tx.undo[s][v] # "none" => tx.undo[s][u] = "FAILED"

\* What every transaction of the engine preserves.
Sound(tx, A) ==
    /\ tx \in DbType
    /\ Gated(tx, A)
    /\ "retry_compensation" \notin Ops => UndoTrail(tx)

\* No report of a failed undo is forgotten from one set of ingest keys to the
\* next.
Remembers(seen1, seen2) ==
    \A s \in Steps, u \in Undos :
        <<"COMPENSATION_FAILED", s, u>> \in seen1 =>
            <<"COMPENSATION_FAILED", s, u>> \in seen2

\* A write that leaves the keys, the commands and the undo rows alone, and
\* forgets no report of a failed undo.
Keeps(tx, t) ==
    /\ t \in DbType
    /\ t.key = tx.key
    /\ t.row = tx.row
    /\ t.undo = tx.undo
    /\ Remembers(tx.seen, t.seen)

-----------------------------------------------------------------------------
(* The writes shared by the handlers *)

\* A write that leaves keys, commands and undo rows alone cannot break the gate.
LEMMA KeepsSound ==
    ASSUME NEW A, NEW tx, NEW t, Sound(tx, A), Keeps(tx, t)
    PROVE  Sound(t, A)
  BY DEF Sound, Keeps, Gated, UndoTrail, Remembers

\* An UPDATE of some rows keeps the type of the table.
LEMMA OverwriteType ==
    ASSUME NEW D, NEW R, NEW f \in [D -> R], NEW S, NEW v \in R
    PROVE  Overwrite(f, S, v) \in [D -> R]
  BY DEF Overwrite

\* emit_saga_event touches the event table only.
LEMMA PublishKeeps ==
    ASSUME NEW tx \in DbType, NEW e \in Events
    PROVE  Keeps(tx, Publish(tx, e))
  <1>1. Overwrite(tx.event, {e}, "PENDING") \in [Events -> OutboxStatus]
    BY OverwriteType DEF DbType, OutboxStatus
  <1>2. QED
    BY <1>1 DEF Publish, DbType, Keeps, Remembers

\* A status written to a forward row touches that column only.
LEMMA MarkKeeps ==
    ASSUME NEW tx \in DbType, NEW i \in Steps, NEW status \in StepStatus
    PROVE  Keeps(tx, Mark(tx, i, status))
  <1>1. Overwrite(tx.step, {i}, status) \in [Steps -> StepStatus]
    BY OverwriteType DEF DbType
  <1>2. QED
    BY <1>1 DEF Mark, DbType, Keeps, Remembers

\* Skipping any set of forward rows touches their status only.
LEMMA SkipSetKeeps ==
    ASSUME NEW tx \in DbType, NEW S
    PROVE  Keeps(tx, [tx EXCEPT !.step = Overwrite(@, S, "SKIPPED")])
  <1>1. Overwrite(tx.step, S, "SKIPPED") \in [Steps -> StepStatus]
    BY OverwriteType DEF DbType, StepStatus
  <1>2. QED
    BY <1>1 DEF DbType, Keeps, Remembers

\* Ending a saga writes its status, the rows that never ran and one notice.
LEMMA CloseKeeps ==
    ASSUME NEW tx \in DbType, NEW status \in SagaStatus,
           NEW notice \in {"SAGA_COMPLETED", "SAGA_FAILED", "SAGA_COMPENSATED"}
    PROVE  Keeps(tx, Close(tx, status, notice))
  <1> DEFINE a == [tx EXCEPT !.saga = status]
             b == SkipPending(a)
  <1>1. Keeps(tx, a)
    BY DEF DbType, Keeps, Remembers
  <1>2. Keeps(a, b)
    BY <1>1, SkipSetKeeps DEF SkipPending, Keeps, Remembers
  <1>3. <<notice, 0, 0>> \in Events
    BY DEF Events, SagaEvents
  <1>4. Keeps(b, Publish(b, <<notice, 0, 0>>))
    BY <1>2, <1>3, PublishKeeps DEF Keeps, Remembers
  <1>5. QED
    BY <1>1, <1>2, <1>4 DEF Close, Keeps, Remembers

\* Holding a step for review sends nothing.
LEMMA HoldKeeps ==
    ASSUME NEW tx \in DbType, NEW i \in Steps
    PROVE  Keeps(tx, Hold(tx, i))
  <1>1. Keeps(tx, Mark(tx, i, "AWAITING_HUMAN"))
    BY MarkKeeps DEF StepStatus
  <1>2. QED
    BY <1>1 DEF Hold, Keeps, DbType, SagaStatus, Remembers

\* Forgetting the results of a step (a new attempt) sends nothing.
LEMMA ClearResultsKeeps ==
    ASSUME NEW tx \in DbType, NEW i
    PROVE  Keeps(tx, ClearResults(tx, i))
  <1>1. Overwrite(tx.event, Results(i), "none") \in [Events -> OutboxStatus]
    BY OverwriteType DEF DbType, OutboxStatus
  <1>2. ClearResults(tx, i) =
            [tx EXCEPT !.seen = tx.seen \ Results(i),
                       !.event = Overwrite(tx.event, Results(i), "none")]
    BY DEF ClearResults, DbType
  <1>3. Remembers(tx.seen, tx.seen \ Results(i))
    BY DEF Remembers, Results
  <1>4. tx.seen \ Results(i) \in SUBSET DedupKeys
    BY DEF DbType
  <1>5. QED
    BY <1>1, <1>2, <1>3, <1>4 DEF DbType, Keeps

\* A command may be sent when it undoes a step, or when its step is not a
\* reviewed commit step, or when its key was approved.
MaySend(c, A) ==
    \A i \in Steps, k \in Keys :
        c = <<"fwd", i, k>> /\ manifest[i].kind = "commit" /\ manifest[i].hitl
        => \E a \in A : a.step = i /\ a.key = k

\* Publishing a command keeps the gate when the step needs no approval.
LEMMA DispatchSound ==
    ASSUME NEW A, NEW tx, Sound(tx, A), NEW c \in Commands, MaySend(c, A)
    PROVE  Sound(Dispatch(tx, c), A)
  <1>1. Dispatch(tx, c) \in DbType
    BY DEF Dispatch, DbType, Sound, OutboxStatus
  <1>2. Dispatch(tx, c).undo = tx.undo /\ Dispatch(tx, c).seen = tx.seen
    BY DEF Dispatch, DbType, Sound
  <1>3. Gated(Dispatch(tx, c), A)
    <2> SUFFICES ASSUME NEW i \in Steps, NEW k \in Keys,
                        manifest[i].kind = "commit", manifest[i].hitl,
                        Dispatch(tx, c).row[<<"fwd", i, k>>] # "none"
                 PROVE  \E a \in A : a.step = i /\ a.key = k
      BY DEF Gated
    <2>1. CASE c = <<"fwd", i, k>>
      BY <2>1 DEF MaySend
    <2>2. CASE c # <<"fwd", i, k>>
      <3>1. <<"fwd", i, k>> \in Commands
        BY DEF Commands
      <3>2. Dispatch(tx, c).row[<<"fwd", i, k>>] = tx.row[<<"fwd", i, k>>]
        BY <2>2, <3>1 DEF Dispatch, DbType, Sound
      <3>3. QED
        BY <3>2 DEF Sound, Gated
    <2>3. QED
      BY <2>1, <2>2
  <1>4. QED
    BY <1>1, <1>2, <1>3 DEF Sound, UndoTrail

-----------------------------------------------------------------------------
(* Compensation and failure *)

\* The status values the handlers write are values of the tables.
LEMMA StatusSets ==
    /\ {"FAILED", "COMPENSATED", "COMPENSATING", "RUNNING", "COMPLETED",
        "AWAITING_RECOVERY", "AWAITING_HUMAN"} \subseteq SagaStatus
    /\ {"FAILED", "TIMED_OUT", "IN_PROGRESS", "COMPLETED"} \subseteq StepStatus
    /\ {"COMPENSATING", "COMPENSATED", "FAILED"} \subseteq UndoStatus
    /\ {"SAGA_COMPLETED", "SAGA_FAILED", "SAGA_COMPENSATED"} \X {0} \X {0}
           \subseteq Events
  BY DEF SagaStatus, StepStatus, UndoStatus, Events, SagaEvents

\* A new status for one undo row of s: a row is made when every earlier one
\* FAILED, is only finished when it is the last, and FAILED once that was
\* reported.
LEMMA UndoRowSound ==
    ASSUME NEW A, NEW tx, Sound(tx, A), NEW s \in Steps, NEW u \in Undos,
           NEW status \in UndoStatus \ {"none"},
           "retry_compensation" \notin Ops =>
               /\ status = "FAILED" =>
                     <<"COMPENSATION_FAILED", s, u>> \in tx.seen
               /\ status # "FAILED" => tx.undo[s][u] # "FAILED"
               /\ \/ tx.undo[s][u] # "none"
                  \/ /\ \A v \in 1 .. u - 1 : tx.undo[s][v] = "FAILED"
                     /\ status # "FAILED"
                     /\ \A v \in Undos : u < v => tx.undo[s][v] = "none"
    PROVE  Sound([tx EXCEPT !.undo[s][u] = status], A)
  <1> DEFINE t == [tx EXCEPT !.undo[s][u] = status]
  <1>1. t \in DbType /\ t.row = tx.row /\ t.seen = tx.seen
    BY DEF DbType, Sound
  <1>2. Gated(t, A)
    BY <1>1 DEF Gated, Sound
  <1>3. \A r \in Steps, v \in Undos :
          t.undo[r][v] = IF r = s /\ v = u THEN status ELSE tx.undo[r][v]
    BY DEF DbType, Sound
  <1>4. ASSUME "retry_compensation" \notin Ops
        PROVE  UndoTrail(t)
    <2> HIDE DEF t
    <2>1. UndoTrail(tx)
      BY <1>4 DEF Sound
    <2>2. \A r \in Steps, v \in Undos :
            t.undo[r][v] = "FAILED" =>
                <<"COMPENSATION_FAILED", r, v>> \in t.seen
      BY <1>1, <1>3, <1>4, <2>1 DEF UndoTrail
    <2>3. \A r \in Steps, v, w \in Undos :
            v < w /\ t.undo[r][w] # "none" => t.undo[r][v] = "FAILED"
      BY <1>3, <1>4, <2>1 DEF UndoTrail, Undos
    <2>4. QED
      BY <2>2, <2>3 DEF UndoTrail
  <1>5. QED
    BY <1>1, <1>2, <1>4 DEF Sound

\* The undo command of a row is a command.
LEMMA UndoCommand ==
    ASSUME NEW s \in Steps, NEW u \in Undos, NEW A
    PROVE  <<"undo", s, u>> \in Commands /\ MaySend(<<"undo", s, u>>, A)
  BY DEF Commands, MaySend

\* A saga that ends stays sound.
LEMMA CloseSound ==
    ASSUME NEW A, NEW tx, Sound(tx, A), NEW status \in SagaStatus,
           NEW notice \in {"SAGA_COMPLETED", "SAGA_FAILED", "SAGA_COMPENSATED"}
    PROVE  Sound(Close(tx, status, notice), A)
  BY CloseKeeps, KeepsSound DEF Sound

\* Scheduling an undo makes a row after those that FAILED.
LEMMA ScheduleUndoSound ==
    ASSUME NEW A, NEW tx, Sound(tx, A), NEW s \in Steps,
           ~HasUndo(tx, s, "COMPENSATED"), ~HasUndo(tx, s, "COMPENSATING"),
           NEW t \in ScheduleUndo(tx, s)
    PROVE  Sound(t, A)
  <1>1. ASSUME NEW u \in NewUndo(tx, s),
               t = Dispatch([tx EXCEPT !.undo[s][u] = "COMPENSATING"],
                            <<"undo", s, u>>)
        PROVE  Sound(t, A)
    <2>1. u \in Undos
      BY <1>1 DEF NewUndo
    <2>2. /\ tx.undo[s][u] = "none"
          /\ \A v \in 1 .. u - 1 : tx.undo[s][v] # "none"
      BY <1>1 DEF NewUndo
    <2>3. \A v \in Undos : tx.undo[s][v] \in {"none", "FAILED"}
      BY DEF HasUndo, Sound, DbType, UndoStatus
    <2>4. \A v \in 1 .. u - 1 : v \in Undos /\ tx.undo[s][v] = "FAILED"
      BY <2>1, <2>2, <2>3, BoundsAssumption DEF Undos
    <2>5. ASSUME "retry_compensation" \notin Ops
          PROVE  \A v \in Undos : u < v => tx.undo[s][v] = "none"
      BY <2>1, <2>2, <2>5 DEF Sound, UndoTrail
    <2>6. "COMPENSATING" \in UndoStatus \ {"none"}
      BY DEF UndoStatus
    <2>7. Sound([tx EXCEPT !.undo[s][u] = "COMPENSATING"], A)
      BY <2>1, <2>2, <2>4, <2>5, <2>6, UndoRowSound
    <2>8. QED
      BY <1>1, <2>1, <2>7, UndoCommand, DispatchSound
  <1>2. ASSUME t = Close([Mark(tx, s, "FAILED") EXCEPT !.err[s] = "clean"],
                         "FAILED", "SAGA_FAILED")
        PROVE  Sound(t, A)
    <2>1. Keeps(tx, Mark(tx, s, "FAILED"))
      BY MarkKeeps, StatusSets DEF Sound
    <2>2. Keeps(tx, [Mark(tx, s, "FAILED") EXCEPT !.err[s] = "clean"])
      BY <2>1 DEF Keeps, DbType, Errors, Remembers
    <2>3. QED
      BY <1>2, <2>2, KeepsSound, CloseSound, StatusSets
  <1>3. QED
    BY <1>1, <1>2 DEF ScheduleUndo

\* Walking down the LIFO order schedules at most one undo.
LEMMA UnwindSound ==
    ASSUME NEW A, NEW tx, Sound(tx, A), NEW from, NEW t \in Unwind(tx, from)
    PROVE  Sound(t, A)
  <1>1. CASE ToUndo(tx, from) = {}
    BY <1>1, CloseSound, StatusSets DEF Unwind
  <1>2. CASE ToUndo(tx, from) # {}
    <2>1. PICK s \in Last(ToUndo(tx, from)) :
            t \in (IF HasUndo(tx, s, "COMPENSATING") THEN {tx}
                   ELSE ScheduleUndo(tx, s))
      BY <1>2 DEF Unwind
    <2>2. s \in Steps /\ ~HasUndo(tx, s, "COMPENSATED")
      BY DEF Last, ToUndo
    <2>3. QED
      BY <2>1, <2>2, ScheduleUndoSound
  <1>3. QED
    BY <1>1, <1>2

\* The failure lifecycle of a step keeps the gate and the single undo.
LEMMA FailSound ==
    ASSUME NEW A, NEW tx, Sound(tx, A), NEW i \in Steps, NEW error \in Errors,
           NEW t \in Fail(tx, i, error)
    PROVE  Sound(t, A)
  <1> DEFINE to == FailedAs(tx, i, error)
             failed == [Mark(tx, i, to) EXCEPT
                           !.err[i] = IF @ = "none" THEN error ELSE @]
             from == IF to = "TIMED_OUT" \/ error = "crash" THEN i ELSE i - 1
  <1>1. to \in StepStatus
    BY StatusSets DEF FailedAs
  <1>2. Keeps(tx, Mark(tx, i, to))
    BY <1>1, MarkKeeps DEF Sound
  <1>3. Keeps(tx, failed)
    <2> HIDE DEF to
    <2> QED
      BY <1>2 DEF Keeps, DbType, Remembers
  <1>4. Sound(failed, A)
    BY <1>3, KeepsSound
  <1> HIDE DEF failed, to
  <1>5. ASSUME NEW status \in SagaStatus
        PROVE  Sound([failed EXCEPT !.saga = status], A)
    <2>1. Keeps(failed, [failed EXCEPT !.saga = status])
      BY <1>4 DEF Keeps, DbType, Sound, Remembers
    <2>2. QED
      BY <1>4, <2>1, KeepsSound
  <1>6. \/ t = [failed EXCEPT !.saga = "AWAITING_RECOVERY"]
        \/ t = Close(failed, "FAILED", "SAGA_FAILED")
        \/ t \in Unwind([failed EXCEPT !.saga = "COMPENSATING"], from)
    BY DEF Fail, failed, to
  <1>7. QED
    BY <1>4, <1>5, <1>6, CloseSound, UnwindSound, StatusSets

\* So does a failure that the engine itself finds.
LEMMA FailByEngineSound ==
    ASSUME NEW A, NEW tx, Sound(tx, A), NEW i \in Steps,
           NEW t \in FailByEngine(tx, i)
    PROVE  Sound(t, A)
  BY FailSound DEF FailByEngine, EngineErrors, Errors

-----------------------------------------------------------------------------
(* Scheduling *)

\* trigger_step parks a reviewed commit step and publishes any other.
LEMMA TriggerSound ==
    ASSUME NEW A, NEW tx, Sound(tx, A), NEW i \in Steps, NEW allowed,
           NEW t \in Trigger(tx, i, allowed)
    PROVE  Sound(t, A)
  <1> DEFINE started == Mark(tx, i, "IN_PROGRESS")
             c == <<"fwd", i, started.key[i]>>
  <1>1. Keeps(tx, started) /\ Sound(started, A)
    BY MarkKeeps, KeepsSound, StatusSets DEF Sound
  <1> HIDE DEF started
  <1>2. ASSUME ~(manifest[i].kind = "commit" /\ manifest[i].hitl)
        PROVE  Sound(Dispatch(started, c), A)
    <2>1. c \in Commands /\ MaySend(c, A)
      BY <1>1, <1>2 DEF Keeps, DbType, Commands, MaySend, Remembers
    <2>2. QED
      BY <1>1, <2>1, DispatchSound
  <1>3. Sound(Hold(started, i), A)
    BY <1>1, HoldKeeps, KeepsSound DEF Sound
  <1>4. \/ t = tx
        \/ t \in FailByEngine(started, i)
        \/ t = Hold(started, i)
        \/ /\ ~(manifest[i].kind = "commit" /\ manifest[i].hitl)
           /\ t = Dispatch(started, c)
    BY DEF Trigger, started
  <1>5. QED
    BY <1>1, <1>2, <1>3, <1>4, FailByEngineSound

\* Completing a saga stays sound.
LEMMA CompleteSagaSound ==
    ASSUME NEW A, NEW tx, Sound(tx, A)
    PROVE  Sound(CompleteSaga(tx), A)
  BY CloseSound, StatusSets DEF CompleteSaga

\* Scheduling the next forward step stays sound, whichever steps are skipped.
LEMMA ScheduleSound ==
    ASSUME NEW A, NEW tx, Sound(tx, A), NEW after, NEW t \in Schedule(tx, after)
    PROVE  Sound(t, A)
  <1>1. PICK n \in Stops(after) :
          t \in (IF n = N THEN {CompleteSaga(Skip(tx, after, n))}
                 ELSE Trigger(Skip(tx, after, n), n, {}) \cup
                      (IF manifest[n].when
                       THEN FailByEngine(Skip(tx, after, n), n) ELSE {}))
    BY DEF Schedule
  <1>2. n # N => n \in Steps
    BY NAssumption DEF Stops, Steps
  <1>3. Sound(Skip(tx, after, n), A)
    BY SkipSetKeeps, KeepsSound DEF Skip, Sound
  <1>4. QED
    BY <1>1, <1>2, <1>3, CompleteSagaSound, TriggerSound, FailByEngineSound

\* Completing a step and going on stays sound.
LEMMA AdvanceSound ==
    ASSUME NEW A, NEW tx, Sound(tx, A), NEW i \in Steps, NEW t \in Advance(tx, i)
    PROVE  Sound(t, A)
  <1> DEFINE m == Mark(tx, i, "COMPLETED")
  <1>1. Keeps(tx, m)
    BY MarkKeeps, StatusSets DEF Sound
  <1> HIDE DEF m
  <1>2. Keeps(tx, [m EXCEPT !.saga = Resumed(@)])
    BY <1>1, StatusSets DEF Keeps, DbType, Resumed, Remembers
  <1>3. QED
    BY <1>2, KeepsSound, ScheduleSound DEF Advance, m

-----------------------------------------------------------------------------
(* The handlers of ingested events *)

\* A new saga status alone changes nothing the invariant is about.
LEMMA SagaSound ==
    ASSUME NEW A, NEW tx, Sound(tx, A), NEW status \in SagaStatus
    PROVE  Sound([tx EXCEPT !.saga = status], A)
  <1>1. Keeps(tx, [tx EXCEPT !.saga = status])
    BY DEF Keeps, DbType, Sound, Remembers
  <1>2. QED
    BY <1>1, KeepsSound

\* handle_saga_started stays sound.
LEMMA OnSagaStartedSound ==
    ASSUME NEW A, NEW tx, Sound(tx, A), NEW t \in OnSagaStarted(tx)
    PROVE  Sound(t, A)
  BY SagaSound, ScheduleSound, StatusSets DEF OnSagaStarted

\* handle_step_completed stays sound.
LEMMA OnStepCompletedSound ==
    ASSUME NEW A, NEW tx, Sound(tx, A), NEW i \in Steps,
           NEW t \in OnStepCompleted(tx, i)
    PROVE  Sound(t, A)
  <1>1. Sound(Hold(tx, i), A)
    BY HoldKeeps, KeepsSound DEF Sound
  <1>2. QED
    BY <1>1, FailByEngineSound, AdvanceSound DEF OnStepCompleted

\* handle_step_failed stays sound.
LEMMA OnStepFailedSound ==
    ASSUME NEW A, NEW tx, Sound(tx, A), NEW i \in Steps, NEW error \in Errors,
           NEW t \in OnStepFailed(tx, i, error)
    PROVE  Sound(t, A)
  BY FailSound DEF OnStepFailed

\* handle_step_compensated stays sound.
LEMMA OnStepCompensatedSound ==
    ASSUME NEW A, NEW tx, Sound(tx, A), NEW s \in Steps, NEW u \in Undos,
           NEW t \in OnStepCompensated(tx, s, u)
    PROVE  Sound(t, A)
  <1>1. CASE tx.undo[s][u] # "COMPENSATING"
    BY <1>1 DEF OnStepCompensated
  <1>2. CASE tx.undo[s][u] = "COMPENSATING"
    <2>1. Sound([tx EXCEPT !.undo[s][u] = "COMPENSATED"], A)
      BY <1>2, UndoRowSound, StatusSets
    <2>2. QED
      BY <1>2, <2>1, UnwindSound DEF OnStepCompensated
  <1>3. QED
    BY <1>1, <1>2

\* handle_compensation_failed stays sound.
LEMMA OnCompensationFailedSound ==
    ASSUME NEW A, NEW tx, Sound(tx, A), NEW s \in Steps, NEW u \in Undos,
           <<"COMPENSATION_FAILED", s, u>> \in tx.seen,
           NEW t \in OnCompensationFailed(tx, s, u)
    PROVE  Sound(t, A)
  <1>1. "FAILED" \in UndoStatus \ {"none"}
    BY DEF UndoStatus
  <1>2. CASE tx.undo[s][u] = "none"
    BY <1>2, CloseSound, StatusSets DEF OnCompensationFailed
  <1>3. CASE tx.undo[s][u] # "none"
    <2>1. Sound([tx EXCEPT !.undo[s][u] = "FAILED"], A)
      BY <1>1, <1>3, UndoRowSound
    <2>2. QED
      BY <1>3, <2>1, CloseSound, StatusSets DEF OnCompensationFailed
  <1>4. QED
    BY <1>2, <1>3

\* The one handler that sends a reviewed commit step out: the approval is
\* part of the history by then.
LEMMA OnHumanApprovedSound ==
    ASSUME NEW A, NEW tx, Sound(tx, A), NEW i \in Steps,
           tx.step[i] = "AWAITING_HUMAN" =>
               \E a \in A : a.step = i /\ a.key = tx.key[i],
           NEW t \in OnHumanApproved(tx, i)
    PROVE  Sound(t, A)
  <1> DEFINE m == Mark(tx, i, "IN_PROGRESS")
             sent == [m EXCEPT !.saga = Resumed(@)]
             c == <<"fwd", i, tx.key[i]>>
  <1>1. Keeps(tx, m)
    BY MarkKeeps, StatusSets DEF Sound
  <1>2. Sound(sent, A)
    <2> HIDE DEF m
    <2>1. Keeps(tx, sent)
      BY <1>1, StatusSets DEF Keeps, DbType, Resumed, Remembers
    <2>2. QED
      BY <2>1, KeepsSound
  <1>3. c \in Commands
    BY DEF Commands, Sound, DbType
  <1>4. ASSUME tx.step[i] = "AWAITING_HUMAN"
        PROVE  Sound(Dispatch(sent, c), A)
    <2>1. MaySend(c, A)
      BY <1>4 DEF MaySend
    <2> HIDE DEF sent, c
    <2>2. QED
      BY <1>2, <1>3, <2>1, DispatchSound
  <1>5. CASE tx.step[i] = "AWAITING_HUMAN" /\ manifest[i].kind = "commit"
    BY <1>4, <1>5 DEF OnHumanApproved
  <1>6. CASE ~(tx.step[i] = "AWAITING_HUMAN" /\ manifest[i].kind = "commit")
    BY <1>6, FailByEngineSound, AdvanceSound DEF OnHumanApproved
  <1>7. QED
    BY <1>5, <1>6

\* handle_hitl_rejected stays sound.
LEMMA OnHumanRejectedSound ==
    ASSUME NEW A, NEW tx, Sound(tx, A), NEW i \in Steps, NEW error \in Errors,
           NEW t \in OnHumanRejected(tx, i, error)
    PROVE  Sound(t, A)
  BY FailSound DEF OnHumanRejected

\* A new key for a forward row: it was never sent out, whatever the old one.
LEMMA NewKeySound ==
    ASSUME NEW A, NEW tx, Sound(tx, A), NEW i \in Steps, tx.key[i] < MaxKeys
    PROVE  Sound([tx EXCEPT !.key[i] = @ + 1, !.err[i] = "none"], A)
  <1> DEFINE t == [tx EXCEPT !.key[i] = @ + 1, !.err[i] = "none"]
  <1>1. tx.key[i] + 1 \in Keys
    BY BoundsAssumption DEF Keys, Sound, DbType
  <1>2. t \in DbType /\ t.row = tx.row /\ t.undo = tx.undo
    BY <1>1 DEF DbType, Sound
  <1>3. QED
    BY <1>2 DEF Sound, Gated, UndoTrail

\* handle_hitl_retry, which gives the step a new key, stays sound.
LEMMA OnHumanRetrySound ==
    ASSUME NEW A, NEW tx, Sound(tx, A), NEW i \in Steps,
           RetryAllowed(tx, i) => tx.key[i] < MaxKeys,
           NEW t \in OnHumanRetry(tx, i)
    PROVE  Sound(t, A)
  <1>1. CASE ~RetryAllowed(tx, i)
    BY <1>1 DEF OnHumanRetry
  <1>2. CASE RetryAllowed(tx, i)
    <2> DEFINE c == <<"fwd", i, tx.key[i]>>
               r == [tx EXCEPT !.key[i] = @ + 1,
                               !.err[i] = "none",
                               !.retried[i] = @ + 1,
                               !.claim[c] = "none",
                               !.saga = Resumed(@)]
    <2>1. tx.key[i] + 1 \in Keys
      BY <1>2, BoundsAssumption DEF Keys, Sound, DbType
    <2>2. /\ r \in DbType /\ r.row = tx.row
          /\ r.undo = tx.undo /\ r.seen = tx.seen
      <3>1. tx \in DbType /\ Resumed(tx.saga) \in SagaStatus
        BY StatusSets DEF Sound, DbType, Resumed
      <3>2. "none" \in ClaimStatus /\ "none" \in Errors \cup {"none"}
        BY DEF ClaimStatus
      <3>3. tx.retried[i] + 1 \in Nat
        BY <3>1 DEF DbType
      <3> HIDE DEF c
      <3>4. QED
        BY <2>1, <3>1, <3>2, <3>3 DEF DbType
    <2>3. Sound(r, A)
      <3> HIDE DEF r
      <3> QED BY <2>2 DEF Sound, Gated, UndoTrail
    <2>4. t \in Trigger(ClearResults(r, i), i, {"IN_PROGRESS", "AWAITING_HUMAN"})
      BY <1>2 DEF OnHumanRetry
    <2> HIDE DEF r
    <2>5. Sound(ClearResults(r, i), A)
      BY <2>3, ClearResultsKeeps, KeepsSound DEF Sound
    <2>6. QED
      BY <2>4, <2>5, TriggerSound
  <1>3. QED
    BY <1>1, <1>2

-----------------------------------------------------------------------------
(* The invariant and its steps *)

Inv ==
    /\ TypeOK
    /\ Sound(Db, approved)

\* What a step leaves well typed besides the tables.
Rest ==
    /\ manifest \in [Steps -> Config]
    /\ handling \subseteq Events
    /\ taken \subseteq Commands
    /\ superseded \subseteq Commands
    /\ judged \in [Steps -> Keys]
    /\ approved \subseteq Approval

\* Committing sound contents establishes the invariant.
LEMMA CommitSound ==
    ASSUME NEW tx, Commit(tx), Sound(tx, approved'), manifest' = manifest, Rest'
    PROVE  Inv'
  <1>1. Db' = tx
    BY DEF Commit, Db, Sound, DbType
  <1>2. Gated(Db, approved)'
    BY <1>1 DEF Sound, Gated
  <1>3. QED
    BY <1>1, <1>2 DEF Inv, Rest, TypeOK, Sound, UndoTrail

\* A saga that was just created satisfies the invariant.
LEMMA InitInv == Init => Inv
  <1> SUFFICES ASSUME Init PROVE Inv
    OBVIOUS
  <1>1. Db \in DbType
    BY NAssumption, BoundsAssumption
       DEF Init, Db, DbType, SagaStatus, StepStatus, UndoStatus, OutboxStatus,
           ClaimStatus, Keys
  <1>2. Gated(Db, approved)
    <2>1. \A i \in Steps, k \in Keys : row[<<"fwd", i, k>>] = "none"
      BY DEF Init, Commands
    <2>2. QED
      BY <2>1 DEF Gated, Db
  <1>3. UndoTrail(Db)
    BY DEF Init, Db, UndoTrail
  <1>4. Rest
    BY ManifestAssumption, BoundsAssumption DEF Init, Rest, Keys
  <1>5. QED
    BY <1>1, <1>2, <1>3, <1>4 DEF Inv, TypeOK, Rest, Sound

\* Recording an event in a transaction that starts from the contents d.
LEMMA RecordKeeps ==
    ASSUME NEW d \in DbType, NEW e \in Events, NEW s \in OutboxStatus
    PROVE  LET tx == Record(d, e, s)
           IN  /\ Keeps(d, tx)
               /\ tx.step = d.step /\ tx.saga = d.saga /\ tx.retried = d.retried
  <1> DEFINE S == d.seen \cup {DedupKey(e)}
             f == [d.event EXCEPT ![e] = s]
  <1>1. DedupKey(e) \in DedupKeys
    BY DEF DedupKey, DedupKeys, Events, ForwardEvents, UndoEvents, RetryEvents,
           SagaEvents
  <1>2. S \in SUBSET DedupKeys
    BY <1>1 DEF DbType
  <1>3. f \in [Events -> OutboxStatus]
    BY DEF DbType
  <1>4. Record(d, e, s) = [d EXCEPT !.seen = S, !.event = f]
    BY DEF Record, DbType
  <1>5. Remembers(d.seen, S)
    BY DEF Remembers
  <1> HIDE DEF S, f
  <1>6. QED
    BY <1>2, <1>3, <1>4, <1>5 DEF Keeps, DbType

\* Recording the event and acknowledging its row keep the contents sound.
LEMMA IngestSound ==
    ASSUME Inv, NEW e \in Events, NEW tx \in Ingest(e)
    PROVE  /\ Sound(tx, approved)
           /\ tx.step = step /\ tx.key = key /\ tx.saga = saga /\ tx.retried = retried
           /\ DedupKey(e) \in tx.seen
  <1>1. PICK s \in Settled(e) : tx = Record(Db, e, s)
    BY DEF Ingest
  <1>2. Db \in DbType
    BY DEF Inv, Sound
  <1>3. s \in OutboxStatus
    BY DEF Inv, Sound, DbType, Db, Settled, OutboxStatus
  <1>4. /\ Keeps(Db, tx)
        /\ tx.step = Db.step /\ tx.saga = Db.saga /\ tx.retried = Db.retried
    BY <1>1, <1>2, <1>3, RecordKeeps
  <1>5. /\ Db.step = step /\ Db.saga = saga /\ Db.retried = retried
        /\ Db.key = key
    BY DEF Db
  <1>6. tx.seen = Db.seen \cup {DedupKey(e)}
    BY <1>1, <1>2 DEF Record, DbType
  <1>7. DedupKey(e) \in tx.seen
    BY <1>6
  <1>8. QED
    BY <1>4, <1>5, <1>7, KeepsSound DEF Inv, Keeps

-----------------------------------------------------------------------------
(* The engine's consumer *)

\* What a handler leaves alone outside the tables.
LEMMA FreshRest ==
    ASSUME Inv, NEW e, Fresh(e), superseded' = superseded,
           judged' = judged
    PROVE  manifest' = manifest /\ (approved' \subseteq Approval => Rest')
  BY DEF Fresh, Inv, TypeOK, Rest

\* A handler that leaves the history alone, from what its transaction commits.
LEMMA HandlerStep ==
    ASSUME Inv, NEW e, Fresh(e), UNCHANGED <<superseded, history>>,
           NEW t, Commit(t), Sound(t, approved)
    PROVE  Inv'
  <1>1. approved' = approved /\ judged' = judged
    BY DEF history
  <1>2. approved \subseteq Approval
    BY DEF Inv, TypeOK
  <1>3. manifest' = manifest /\ Rest'
    BY <1>1, <1>2, FreshRest
  <1>4. QED
    BY <1>1, <1>3, CommitSound

\* The events the handlers name are events.
LEMMA EventTypes ==
    /\ \A i \in Steps, type \in {"STEP_COMPLETED", "STEP_FAILED",
                                 "HUMAN_APPROVED", "HUMAN_REJECTED"} :
          <<type, i, 0>> \in Events
    /\ \A s \in Steps, u \in Undos,
          type \in {"STEP_COMPENSATED", "COMPENSATION_FAILED", "STEP_FAILED"} :
          <<type, s, u>> \in Events
    /\ \A i \in Steps, a \in Asks : <<"HUMAN_RETRY", i, a>> \in Events
    /\ \A type \in {"SAGA_STARTED", "SAGA_COMPLETED", "SAGA_FAILED",
                    "SAGA_COMPENSATED"} : <<type, 0, 0>> \in Events
  BY DEF Events, ForwardEvents, UndoEvents, RetryEvents, SagaEvents

\* The handlers of events of forward rows preserve the invariant.
LEMMA HandleStepSound ==
    ASSUME Inv, NEW i \in Steps, HandleStep(i)
    PROVE  Inv'
  <1>1. CASE HandleStepCompleted(i)
    <2>1. PICK tx \in Ingest(<<"STEP_COMPLETED", i, 0>>) :
            \E t \in OnStepCompleted(tx, i) : Commit(t)
      BY <1>1 DEF HandleStepCompleted
    <2>2. Sound(tx, approved)
      BY IngestSound, EventTypes
    <2>3. QED
      BY <1>1, <2>1, <2>2, OnStepCompletedSound, HandlerStep
         DEF HandleStepCompleted
  <1>2. CASE HandleStepFailed(i)
    <2>1. PICK tx \in Ingest(<<"STEP_FAILED", i, 0>>), error \in Errors :
            \E t \in OnStepFailed(tx, i, error) : Commit(t)
      BY <1>2 DEF HandleStepFailed
    <2>2. Sound(tx, approved)
      BY IngestSound, EventTypes
    <2>3. QED
      BY <1>2, <2>1, <2>2, OnStepFailedSound, HandlerStep DEF HandleStepFailed
  <1>3. CASE HandleHumanApproved(i)
    <2> DEFINE a == [step |-> i, key |-> key[i], judged |-> judged[i]]
    <2>1. PICK tx \in Ingest(<<"HUMAN_APPROVED", i, 0>>) :
            \E t \in OnHumanApproved(tx, i) : Commit(t)
      BY <1>3 DEF HandleHumanApproved
    <2>2. PICK t \in OnHumanApproved(tx, i) : Commit(t)
      BY <2>1
    <2>3. Sound(tx, approved) /\ tx.step = step /\ tx.key = key
      BY IngestSound, EventTypes
    <2>4. a \in Approval
      BY DEF Approval, Inv, Sound, DbType, Db, TypeOK
    <2>5. /\ step[i] = "AWAITING_HUMAN" => a \in approved'
          /\ approved \subseteq approved'
          /\ approved' \subseteq Approval
      BY <1>3, <2>4 DEF HandleHumanApproved, Inv, TypeOK
    <2>6. Sound(tx, approved')
      BY <2>3, <2>5 DEF Sound, Gated
    <2>7. a.step = i /\ a.key = tx.key[i]
      BY <2>3
    <2> HIDE DEF a
    <2>8. Sound(t, approved')
      BY <2>2, <2>3, <2>5, <2>6, <2>7, OnHumanApprovedSound
    <2>9. manifest' = manifest /\ Rest'
      BY <1>3, <2>5, FreshRest DEF HandleHumanApproved
    <2>10. QED
      BY <2>2, <2>8, <2>9, CommitSound
  <1>4. CASE HandleHumanRejected(i)
    <2>1. PICK tx \in Ingest(<<"HUMAN_REJECTED", i, 0>>), error \in Errors :
            \E t \in OnHumanRejected(tx, i, error) : Commit(t)
      BY <1>4 DEF HandleHumanRejected
    <2>2. Sound(tx, approved)
      BY IngestSound, EventTypes
    <2>3. QED
      BY <1>4, <2>1, <2>2, OnHumanRejectedSound, HandlerStep
         DEF HandleHumanRejected
  <1>5. ASSUME NEW a \in Asks, HandleHumanRetry(i, a)
        PROVE  Inv'
    <2>1. PICK tx \in Ingest(<<"HUMAN_RETRY", i, a>>) :
            \E t \in OnHumanRetry(tx, i) : Commit(t)
      BY <1>5 DEF HandleHumanRetry
    <2>2. PICK t \in OnHumanRetry(tx, i) : Commit(t)
      BY <2>1
    <2>3. /\ Sound(tx, approved)
          /\ tx.step = step /\ tx.key = key /\ tx.saga = saga /\ tx.retried = retried
      BY IngestSound, EventTypes
    <2>4. RetryAllowed(tx, i) => tx.key[i] < MaxKeys
      BY <1>5, <2>3 DEF HandleHumanRetry, RetryAllowed, Db
    <2>5. Sound(t, approved)
      BY <2>2, <2>3, <2>4, OnHumanRetrySound
    <2>6. approved' = approved /\ judged' = judged
      BY <1>5 DEF HandleHumanRetry, history
    <2>7. <<"fwd", i, key[i]>> \in Commands
      BY DEF Commands, Inv, Sound, DbType, Db
    <2>8. superseded' \subseteq Commands
      BY <1>5, <2>7 DEF HandleHumanRetry, Supersede, Inv, TypeOK
    <2>9. manifest' = manifest /\ Rest'
      BY <1>5, <2>6, <2>8 DEF HandleHumanRetry, Fresh, Inv, TypeOK, Rest
    <2>10. QED
      BY <2>2, <2>5, <2>6, <2>9, CommitSound
  <1>6. QED
    BY <1>1, <1>2, <1>3, <1>4, <1>5 DEF HandleStep

\* The handlers of events of undo rows preserve the invariant.
LEMMA HandleUndoSound ==
    ASSUME Inv, NEW s \in Steps, NEW u \in Undos, HandleUndo(s, u)
    PROVE  Inv'
  <1>1. CASE HandleStepCompensated(s, u)
    <2>1. PICK tx \in Ingest(<<"STEP_COMPENSATED", s, u>>) :
            \E t \in OnStepCompensated(tx, s, u) : Commit(t)
      BY <1>1 DEF HandleStepCompensated
    <2>2. Sound(tx, approved)
      BY IngestSound, EventTypes
    <2>3. QED
      BY <1>1, <2>1, <2>2, OnStepCompensatedSound, HandlerStep
         DEF HandleStepCompensated
  <1>2. CASE HandleCompensationFailed(s, u)
    <2>1. PICK tx \in Ingest(<<"COMPENSATION_FAILED", s, u>>) :
            \E t \in OnCompensationFailed(tx, s, u) : Commit(t)
      BY <1>2 DEF HandleCompensationFailed
    <2>2. /\ Sound(tx, approved)
          /\ <<"COMPENSATION_FAILED", s, u>> \in tx.seen
      BY IngestSound, EventTypes DEF DedupKey
    <2>3. QED
      BY <1>2, <2>1, <2>2, OnCompensationFailedSound, HandlerStep
         DEF HandleCompensationFailed
  <1>3. CASE HandleUndoReportedAsStep(s, u)
    <2>1. PICK tx \in Ingest(<<"STEP_FAILED", s, u>>) : Commit(tx)
      BY <1>3 DEF HandleUndoReportedAsStep
    <2>2. Sound(tx, approved)
      BY IngestSound, EventTypes
    <2>3. QED
      BY <1>3, <2>1, <2>2, HandlerStep DEF HandleUndoReportedAsStep
  <1>4. QED
    BY <1>1, <1>2, <1>3 DEF HandleUndo

\* The handlers of events of the saga preserve the invariant.
LEMMA HandleSagaSound ==
    ASSUME Inv,
           \/ HandleSagaStarted
           \/ HandleSagaCompleted
           \/ \E type \in {"SAGA_FAILED", "SAGA_COMPENSATED"} : HandleNotice(type)
    PROVE  Inv'
  <1>1. CASE HandleSagaStarted
    <2>1. PICK tx \in Ingest(<<"SAGA_STARTED", 0, 0>>) :
            \E t \in OnSagaStarted(tx) : Commit(t)
      BY <1>1 DEF HandleSagaStarted
    <2>2. Sound(tx, approved)
      BY IngestSound, EventTypes
    <2>3. QED
      BY <1>1, <2>1, <2>2, OnSagaStartedSound, HandlerStep DEF HandleSagaStarted
  <1>2. CASE HandleSagaCompleted
    <2>1. PICK tx \in Ingest(<<"SAGA_COMPLETED", 0, 0>>) : Commit(CompleteSaga(tx))
      BY <1>2 DEF HandleSagaCompleted
    <2>2. Sound(tx, approved)
      BY IngestSound, EventTypes
    <2>3. QED
      BY <1>2, <2>1, <2>2, CompleteSagaSound, HandlerStep DEF HandleSagaCompleted
  <1>3. ASSUME NEW type \in {"SAGA_FAILED", "SAGA_COMPENSATED"},
               HandleNotice(type)
        PROVE  Inv'
    <2>1. PICK tx \in Ingest(<<type, 0, 0>>) : Commit(tx)
      BY <1>3 DEF HandleNotice
    <2>2. Sound(tx, approved)
      BY <1>3, IngestSound, EventTypes
    <2>3. QED
      BY <1>3, <2>1, <2>2, HandlerStep DEF HandleNotice
  <1>4. QED
    BY <1>1, <1>2, <1>3

\* A step that writes tables without publishing a new forward command.
LEMMA TableStep ==
    ASSUME Inv, Rest', Db' \in DbType, manifest' = manifest,
           approved \subseteq approved', undo' = undo,
           Remembers(seen, seen'),
           \A c \in Commands : row'[c] # "none" => row[c] # "none"
    PROVE  Inv'
  <1>1. Gated(Db, approved)'
    BY DEF Inv, Sound, Gated, Db, Commands
  <1>2. "retry_compensation" \notin Ops => UndoTrail(Db)'
    BY DEF Inv, Sound, UndoTrail, Db, Remembers
  <1>3. QED
    BY <1>1, <1>2 DEF Inv, Rest, TypeOK, Sound

\* The same, for a step that only writes an event row.
LEMMA EventStep ==
    ASSUME Inv, Rest', NEW e, NEW s \in OutboxStatus,
           event' = [event EXCEPT ![e] = s] \/ event' = event,
           UNCHANGED <<manifest, saga, step, err, key, retried, undo, row,
                       claim, seen, approved>>
    PROVE  Inv'
  <1>1. Db \in DbType
    BY DEF Inv, Sound
  <1>2. Db' \in DbType
    BY <1>1 DEF Db, DbType
  <1>3. QED
    BY <1>2, TableStep DEF Remembers

\* The same, for a step that only writes the row of a command that was sent.
LEMMA RowStep ==
    ASSUME Inv, Rest', NEW c \in Commands, NEW s \in OutboxStatus,
           row' = [row EXCEPT ![c] = s], s # "none" => row[c] # "none",
           UNCHANGED <<manifest, saga, step, err, key, retried, undo, event,
                       claim, seen, approved>>
    PROVE  Inv'
  <1>1. Db \in DbType
    BY DEF Inv, Sound
  <1>2. Db' \in DbType
    BY <1>1 DEF Db, DbType
  <1>3. \A d \in Commands : row'[d] # "none" => row[d] # "none"
    BY <1>1 DEF Db, DbType
  <1>4. QED
    BY <1>2, <1>3, TableStep DEF Remembers

\* The parts of the invariant that a step on one table relies on.
LEMMA InvParts ==
    ASSUME Inv
    PROVE  /\ Rest
           /\ Db \in DbType
           /\ row \in [Commands -> OutboxStatus]
           /\ event \in [Events -> OutboxStatus]
           /\ claim \in [Commands -> ClaimStatus]
           /\ key \in [Steps -> Keys]
  BY DEF Inv, Rest, TypeOK, Sound, Db, DbType

\* Every step of the engine's consumer preserves the invariant.
LEMMA EngineSound ==
    ASSUME Inv, Engine
    PROVE  Inv'
  <1>1. ASSUME NEW e \in Events, PollEvent(e)
        PROVE  Inv'
    <2>1. Rest'
      BY <1>1, InvParts DEF PollEvent, Rest, workers, history
    <2>2. QED
      BY <1>1, <2>1, EventStep DEF PollEvent, history, OutboxStatus
  <1>2. ASSUME NEW e \in Events, HandleDuplicate(e)
        PROVE  Inv'
    <2>1. PICK tx \in Ingest(e) : Commit(tx)
      BY <1>2 DEF HandleDuplicate
    <2>2. Rest' /\ approved' = approved /\ manifest' = manifest
      BY <1>2, InvParts DEF HandleDuplicate, Rest, workers, history
    <2>3. QED
      BY <2>1, <2>2, IngestSound, CommitSound
  <1>3. QED
    BY <1>1, <1>2, HandleStepSound, HandleUndoSound, HandleSagaSound DEF Engine

-----------------------------------------------------------------------------
(* Reviewers *)

\* Every request of a reviewer preserves the invariant.
LEMMA ReviewerSound ==
    ASSUME Inv, Reviewer
    PROVE  Inv'
  <1>1. ASSUME NEW i \in Steps, NEW d \in Decisions, Decide(i, d)
        PROVE  Inv'
    <2>1. Rest'
      BY <1>1, InvParts DEF Decide, Rest, workers, history
    <2>2. QED
      BY <1>1, <2>1, EventStep DEF Decide, OutboxStatus
  <1>2. ASSUME NEW i \in Steps, NEW d \in Decisions, DecideAgain(i, d)
        PROVE  Inv'
    <2>1. Rest'
      BY <1>2, InvParts DEF DecideAgain, Rest, workers, history
    <2>2. QED
      BY <1>2, <2>1, EventStep DEF DecideAgain, OutboxStatus
  <1>3. ASSUME NEW i \in Steps, NEW a \in Asks, AskRetry(i, a)
        PROVE  Inv'
    <2>1. Rest'
      BY <1>3, InvParts DEF AskRetry, Rest, workers, history
    <2>2. QED
      BY <1>3, <2>1, EventStep DEF AskRetry, OutboxStatus, history
  <1>4. QED
    BY <1>1, <1>2, <1>3 DEF Reviewer

-----------------------------------------------------------------------------
(* Operators *)

\* A write of the commands that sends no new one.
LEMMA RowsSound ==
    ASSUME NEW A, NEW tx, Sound(tx, A), NEW t \in DbType, t.undo = tx.undo,
           t.seen = tx.seen,
           \A c \in Commands : t.row[c] # "none" => tx.row[c] # "none"
    PROVE  Sound(t, A)
  BY DEF Sound, Gated, UndoTrail, Commands

\* Releasing a claim sends nothing.
LEMMA UnclaimKeeps ==
    ASSUME NEW tx \in DbType, NEW c
    PROVE  Keeps(tx, Unclaim(tx, c))
  BY DEF Unclaim, Keeps, DbType, ClaimStatus, Remembers

\* Requeueing a command that exists keeps the gate: its key was approved.
LEMMA RequeueSound ==
    ASSUME NEW A, NEW tx, Sound(tx, A), NEW c \in Commands,
           tx.row[c] # "none" \/ MaySend(c, A)
    PROVE  Sound(Requeue(tx, c), A)
  <1>1. /\ Requeue(tx, c) \in DbType
        /\ Requeue(tx, c).undo = tx.undo
        /\ Requeue(tx, c).seen = tx.seen
        /\ Requeue(tx, c).row = [tx.row EXCEPT ![c] = "PENDING"]
    BY DEF Requeue, Sound, DbType, OutboxStatus
  <1>2. Gated(Requeue(tx, c), A)
    <2> SUFFICES ASSUME NEW i \in Steps, NEW k \in Keys,
                        manifest[i].kind = "commit", manifest[i].hitl,
                        Requeue(tx, c).row[<<"fwd", i, k>>] # "none"
                 PROVE  \E a \in A : a.step = i /\ a.key = k
      BY DEF Gated
    <2>1. <<"fwd", i, k>> \in Commands /\ tx.row \in [Commands -> OutboxStatus]
      BY DEF Commands, Sound, DbType
    <2>2. c = <<"fwd", i, k>> \/ tx.row[<<"fwd", i, k>>] # "none"
      BY <1>1, <2>1
    <2>3. QED
      BY <2>2 DEF Sound, Gated, MaySend
  <1>3. QED
    BY <1>1, <1>2 DEF Sound, UndoTrail

\* The claim of a command is taken away from whoever holds it.
LEMMA OperatorRest ==
    ASSUME Inv, NEW c \in Commands, Supersede(c),
           UNCHANGED <<manifest, handling, taken, history>>
    PROVE  Rest' /\ manifest' = manifest /\ approved' = approved
  BY InvParts DEF Supersede, Rest, history

\* Resetting a step gives it a new key and sends nothing.
LEMMA ResetSound ==
    ASSUME NEW A, NEW tx, Sound(tx, A), NEW i \in Steps, tx.key[i] < MaxKeys
    PROVE  Sound(Reset(tx, i), A)
  <1> DEFINE t == [tx EXCEPT !.key[i] = @ + 1, !.err[i] = "none"]
  <1>1. Sound(t, A)
    BY NewKeySound
  <1> HIDE DEF t
  <1>2. Sound(ClearResults(t, i), A)
    BY <1>1, ClearResultsKeeps, KeepsSound DEF Sound
  <1>3. QED
    BY <1>2 DEF Reset, t

\* retry-step preserves the invariant.
LEMMA RetryStepSound ==
    ASSUME Inv, NEW i \in Steps, NEW force \in BOOLEAN, RetryStep(i, force)
    PROVE  Inv'
  <1> DEFINE c == <<"fwd", i, key[i]>>
             free == Unclaim(Db, c)
  <1>1. c \in Commands
    BY InvParts DEF Commands
  <1>2. Keeps(Db, free) /\ Sound(free, approved)
    BY InvParts, UnclaimKeeps, KeepsSound DEF Inv
  <1>3. Rest' /\ manifest' = manifest /\ approved' = approved
    BY <1>1, OperatorRest DEF RetryStep
  <1>4. free.row = row /\ free.key = key
    BY <1>2 DEF Keeps, Db, Remembers
  <1> HIDE DEF free
  <1>5. CASE Requeueable(c, force)
    <2> DEFINE q == [free EXCEPT !.err[i] = "none"]
    <2>1. Keeps(free, q)
      BY <1>2 DEF Keeps, DbType, Remembers
    <2>2. Sound(q, approved) /\ q.row = row
      BY <1>2, <1>4, <2>1, KeepsSound DEF Keeps, Remembers
    <2> HIDE DEF q
    <2>3. row[c] # "none"
      BY <1>5 DEF Requeueable
    <2> HIDE DEF c
    <2>4. Sound(Requeue(q, c), approved)
      BY <1>1, <2>2, <2>3, RequeueSound
    <2>5. Sound(ClearResults(Requeue(q, c), i), approved)
      BY <2>4, ClearResultsKeeps, KeepsSound DEF Sound
    <2>6. Commit(ClearResults(Requeue(q, c), i))
      BY <1>5 DEF RetryStep, q, free, c
    <2>7. QED
      BY <1>3, <2>5, <2>6, CommitSound
  <1>6. CASE ~Requeueable(c, force)
    <2> HIDE DEF c
    <2>1. /\ key[i] < MaxKeys
          /\ \E t \in Trigger(Reset(free, i), i, {"IN_PROGRESS"}) : Commit(t)
      BY <1>6 DEF RetryStep, free, c
    <2>2. Sound(Reset(free, i), approved)
      BY <1>2, <1>4, <2>1, ResetSound
    <2>3. QED
      BY <1>3, <2>1, <2>2, TriggerSound, CommitSound
  <1>7. QED
    BY <1>5, <1>6

\* retry-forward preserves the invariant.
LEMMA RetryForwardSound ==
    ASSUME Inv, NEW i \in Steps, NEW force \in BOOLEAN, RetryForward(i, force)
    PROVE  Inv'
  <1> DEFINE c == <<"fwd", i, key[i]>>
             free == Unclaim(Db, c)
             again == [Reset(free, i) EXCEPT !.saga = "RUNNING"]
  <1>1. c \in Commands
    BY InvParts DEF Commands
  <1>2. Sound(free, approved) /\ free.key = key
    BY InvParts, UnclaimKeeps, KeepsSound DEF Inv, Keeps, Db, Remembers
  <1>3. /\ key[i] < MaxKeys
        /\ \E t \in Trigger(again, i, {"IN_PROGRESS"}) : Commit(t)
    BY DEF RetryForward
  <1>4. Rest' /\ manifest' = manifest /\ approved' = approved
    BY <1>1, OperatorRest DEF RetryForward
  <1> HIDE DEF free
  <1>5. Sound(again, approved)
    BY <1>2, <1>3, ResetSound, SagaSound, StatusSets
  <1> HIDE DEF again
  <1>6. QED
    BY <1>3, <1>4, <1>5, TriggerSound, CommitSound

\* start-compensation preserves the invariant.
LEMMA StartCompensationSound ==
    ASSUME Inv, NEW i \in Steps, StartCompensation(i)
    PROVE  Inv'
  <1>1. Rest' /\ manifest' = manifest /\ approved' = approved
    BY InvParts DEF StartCompensation, Rest, workers, history
  <1>2. PICK t : /\ Commit(t)
                 /\ \/ t = Close(Db, "FAILED", "SAGA_FAILED")
                    \/ \E from : t \in Unwind([Db EXCEPT !.saga = "COMPENSATING"],
                                               from)
    BY DEF StartCompensation
  <1>3. Sound(t, approved)
    BY <1>2, CloseSound, SagaSound, UnwindSound, StatusSets DEF Inv
  <1>4. QED
    BY <1>1, <1>2, <1>3, CommitSound

\* The reset of an undo row, for an operator who may retry compensations: by
\* then UndoTrail is not claimed any more.
LEMMA UndoResetSound ==
    ASSUME NEW A, NEW tx, Sound(tx, A), NEW s \in Steps, NEW u \in Undos, NEW S,
           "retry_compensation" \in Ops
    PROVE  Sound([tx EXCEPT !.saga = "COMPENSATING",
                            !.undo[s][u] = "COMPENSATING",
                            !.seen = @ \ S], A)
  <1> DEFINE f == [tx.undo EXCEPT ![s][u] = "COMPENSATING"]
             g == tx.seen \ S
             t == [tx EXCEPT !.saga = "COMPENSATING", !.undo = f, !.seen = g]
  <1>1. f \in [Steps -> [Undos -> UndoStatus]] /\ g \in SUBSET DedupKeys
    BY StatusSets DEF Sound, DbType
  <1>2. t \in DbType /\ t.row = tx.row
    <2> HIDE DEF f, g
    <2> QED BY <1>1, StatusSets DEF Sound, DbType
  <1>3. Gated(t, A)
    BY <1>2 DEF Sound, Gated
  <1>4. QED
    BY <1>2, <1>3 DEF Sound

\* retry-compensation preserves the invariant.
LEMMA RetryCompensationSound ==
    ASSUME Inv, NEW s \in Steps, NEW u \in Undos, NEW force \in BOOLEAN,
           RetryCompensation(s, u, force)
    PROVE  Inv'
  <1> DEFINE c == <<"undo", s, u>>
             free == Unclaim(Db, c)
             S == {<<"STEP_COMPENSATED", s, u>>, <<"COMPENSATION_FAILED", s, u>>}
             reset == [free EXCEPT !.saga = "COMPENSATING",
                                   !.undo[s][u] = "COMPENSATING",
                                   !.seen = @ \ S]
  <1>1. c \in Commands /\ MaySend(c, approved)
    BY UndoCommand
  <1>2. Sound(free, approved)
    BY InvParts, UnclaimKeeps, KeepsSound DEF Inv
  <1>3. "retry_compensation" \in Ops
    BY DEF RetryCompensation
  <1>4. Rest' /\ manifest' = manifest /\ approved' = approved
    BY <1>1, OperatorRest DEF RetryCompensation
  <1>5. Commit(Requeue(reset, c)) \/ Commit(Dispatch(reset, c))
    BY DEF RetryCompensation
  <1> HIDE DEF free, S
  <1>6. Sound(reset, approved)
    BY <1>2, <1>3, UndoResetSound
  <1> HIDE DEF reset, c
  <1>7. Sound(Requeue(reset, c), approved) /\ Sound(Dispatch(reset, c), approved)
    BY <1>1, <1>6, RequeueSound, DispatchSound
  <1>8. QED
    BY <1>4, <1>5, <1>7, CommitSound

\* Every operator command preserves the invariant.
LEMMA OperatorSound ==
    ASSUME Inv, Operator
    PROVE  Inv'
  BY RetryStepSound, RetryForwardSound, StartCompensationSound,
     RetryCompensationSound DEF Operator

-----------------------------------------------------------------------------
(* Workers and faults *)

\* Acknowledging a command row keeps the type of the outbox.
LEMMA AckedType ==
    ASSUME Inv, NEW c \in Commands, NEW s \in Acked(c)
    PROVE  s \in OutboxStatus /\ (s # "none" => row[c] # "none")
  BY InvParts DEF Acked, OutboxStatus

\* A worker's report preserves the invariant.
LEMMA ReportSound ==
    ASSUME Inv, NEW c \in Commands, NEW e \in Events, NEW mark \in ClaimStatus,
           Report(c, e, mark)
    PROVE  Inv'
  <1>1. PICK s \in Acked(c) :
          Commit(Publish([Db EXCEPT !.claim[c] = mark, !.row[c] = s], e))
    BY DEF Report
  <1>2. Rest' /\ manifest' = manifest /\ approved' = approved
    BY InvParts DEF Report, Rest, workers, history
  <1>3. Sound([Db EXCEPT !.claim[c] = mark, !.row[c] = s], approved)
    <2>1. ASSUME NEW d \in DbType, Sound(d, approved), d.row = row
          PROVE  Sound([d EXCEPT !.claim[c] = mark, !.row[c] = s], approved)
      <3> DEFINE f == [d.claim EXCEPT ![c] = mark]
                 g == [d.row EXCEPT ![c] = s]
                 t == [d EXCEPT !.claim = f, !.row = g]
      <3>1. /\ f \in [Commands -> ClaimStatus]
            /\ g \in [Commands -> OutboxStatus]
            /\ \A b \in Commands : g[b] # "none" => d.row[b] # "none"
        BY <1>1, <2>1, AckedType DEF DbType
      <3>2. t \in DbType /\ t.undo = d.undo /\ t.row = g /\ t.seen = d.seen
        <4> HIDE DEF f, g
        <4> QED BY <3>1 DEF DbType
      <3>3. Sound(t, approved)
        <4> HIDE DEF t, g
        <4> QED BY <2>1, <3>1, <3>2, RowsSound
      <3>4. t = [d EXCEPT !.claim[c] = mark, !.row[c] = s]
        BY DEF DbType
      <3>5. QED
        BY <3>3, <3>4
    <2>2. Db.row = row /\ Db \in DbType /\ Sound(Db, approved)
      BY InvParts DEF Db, Inv
    <2>3. QED
      BY <2>1, <2>2
  <1>4. Sound(Publish([Db EXCEPT !.claim[c] = mark, !.row[c] = s], e), approved)
    BY <1>3, PublishKeeps, KeepsSound DEF Sound
  <1>5. QED
    BY <1>1, <1>2, <1>4, CommitSound

\* Every step of a worker preserves the invariant.
LEMMA WorkerSound ==
    ASSUME Inv, Worker
    PROVE  Inv'
  <1>1. ASSUME NEW c \in Commands, WorkerTakes(c)
        PROVE  Inv'
    <2>1. Rest'
      BY <1>1, InvParts DEF WorkerTakes, Rest, history
    <2>2. QED
      BY <1>1, <2>1, RowStep DEF WorkerTakes, OutboxStatus, history
  <1>2. ASSUME NEW c \in Commands, WorkerClaims(c)
        PROVE  Inv'
    <2>1. Rest' /\ approved' = approved
      BY <1>2, InvParts DEF WorkerClaims, Rest, history
    <2>2. Db' \in DbType
      BY <1>2, InvParts DEF WorkerClaims, Db, DbType, ClaimStatus
    <2>3. QED
      BY <1>2, <2>1, <2>2, TableStep DEF WorkerClaims, Remembers
  <1>3. ASSUME NEW c \in Commands, WorkerSkips(c) \/ SupersededReturns(c)
        PROVE  Inv'
    <2>1. Rest'
      BY <1>3, InvParts DEF WorkerSkips, SupersededReturns, Rest, history
    <2>2. PICK s \in Acked(c) : row' = [row EXCEPT ![c] = s]
      BY <1>3 DEF WorkerSkips, SupersededReturns
    <2>3. QED
      BY <1>3, <2>1, <2>2, AckedType, RowStep
         DEF WorkerSkips, SupersededReturns, history
  <1>4. ASSUME NEW i \in Steps, NEW k \in Keys,
               WorkerCompletes(i, k) \/ WorkerFails(i, k)
        PROVE  Inv'
    <2>1. <<"fwd", i, k>> \in Commands
      BY DEF Commands
    <2>2. QED
      BY <1>4, <2>1, EventTypes, ReportSound
         DEF WorkerCompletes, WorkerFails, ClaimStatus
  <1>5. ASSUME NEW s \in Steps, NEW u \in Undos,
               \/ WorkerUndoes(s, u)
               \/ WorkerFailsToUndo(s, u)
               \/ WorkerHasNoAdapter(s, u)
        PROVE  Inv'
    <2>1. <<"undo", s, u>> \in Commands
      BY DEF Commands
    <2>2. QED
      BY <1>5, <2>1, EventTypes, ReportSound
         DEF WorkerUndoes, WorkerFailsToUndo, WorkerHasNoAdapter, ClaimStatus
  <1>6. QED
    BY <1>1, <1>2, <1>3, <1>4, <1>5 DEF Worker

\* Every fault and every reaper preserves the invariant.
LEMMA FaultSound ==
    ASSUME Inv, Fault
    PROVE  Inv'
  <1>1. ASSUME NEW e \in Events, HandlerRaises(e)
        PROVE  Inv'
    <2>1. Rest'
      BY <1>1, InvParts DEF HandlerRaises, Rest, workers, history
    <2>2. QED
      BY <1>1, <2>1, EventStep DEF HandlerRaises, OutboxStatus, history
  <1>2. ASSUME NEW e \in Events, ReapEvent(e)
        PROVE  Inv'
    <2>1. Rest'
      BY <1>2, InvParts DEF ReapEvent, Rest, workers, history
    <2>2. QED
      BY <1>2, <2>1, EventStep DEF ReapEvent, OutboxStatus, history
  <1>3. ASSUME EngineCrash \/ \E c \in Commands : WorkerCrash(c)
        PROVE  Inv'
    <2>1. Rest' /\ UNCHANGED <<manifest, tables, approved>>
      BY <1>3, InvParts DEF EngineCrash, WorkerCrash, Rest, workers, history
    <2>2. Db' = Db
      BY <2>1 DEF tables, Db
    <2>3. QED
      BY <2>1, <2>2, InvParts, TableStep DEF tables, Remembers
  <1>4. ASSUME NEW c \in Commands, WorkerRaises(c)
        PROVE  Inv'
    <2>1. Rest'
      BY <1>4, InvParts DEF WorkerRaises, Rest, workers, history
    <2>2. QED
      BY <1>4, <2>1, RowStep DEF WorkerRaises, OutboxStatus, history
  <1>5. ASSUME NEW c \in Commands, ReapCommand(c) \/ ReapClaim(c)
        PROVE  Inv'
    <2> DEFINE free == Unclaim(Db, c)
    <2>1. Rest' /\ manifest' = manifest /\ approved' = approved
      BY <1>5, OperatorRest DEF ReapCommand, ReapClaim
    <2>2. Sound(free, approved) /\ free.row = row
      BY InvParts, UnclaimKeeps, KeepsSound DEF Inv, Keeps, Db, Remembers
    <2>3. \/ Commit(free)
          \/ Commit(Requeue(free, c)) /\ row[c] # "none"
      BY <1>5 DEF ReapCommand, ReapClaim
    <2> HIDE DEF free
    <2>4. row[c] # "none" => Sound(Requeue(free, c), approved)
      BY <2>2, RequeueSound
    <2>5. QED
      BY <2>1, <2>2, <2>3, <2>4, CommitSound
  <1>6. QED
    BY <1>1, <1>2, <1>3, <1>4, <1>5 DEF Fault

\* The invariant is inductive.
LEMMA NextInv == Inv /\ [Next]_vars => Inv'
  <1> SUFFICES ASSUME Inv, [Next]_vars PROVE Inv'
    OBVIOUS
  <1>1. CASE Next
    BY <1>1, EngineSound, WorkerSound, ReviewerSound, OperatorSound, FaultSound
       DEF Next
  <1>2. CASE UNCHANGED vars
    <2>1. UNCHANGED <<manifest, tables, handling, taken, superseded, judged,
                      approved>>
      BY <1>2 DEF vars, workers, history
    <2>2. Db' = Db /\ Rest'
      BY <2>1, InvParts DEF tables, Db, Rest
    <2>3. QED
      BY <2>1, <2>2, InvParts, TableStep DEF tables, Remembers
  <1>3. QED
    BY <1>1, <1>2

-----------------------------------------------------------------------------

\* It holds in every behaviour.
LEMMA AlwaysInv == Spec => []Inv
  BY InitInv, NextInv, PTL DEF Spec

\* The tables keep their types in every behaviour of the engine.
THEOREM TypeCorrect == Spec => []TypeOK
  <1>1. Inv => TypeOK
    BY DEF Inv
  <1>2. QED
    BY <1>1, AlwaysInv, PTL

\* No operator command, redelivery, crash or lost result sends a reviewed
\* commit step to a worker under a key that was not approved: trigger_step
\* parks it, and handle_hitl_approved alone publishes its command.
THEOREM ApprovalGateHolds == Spec => []ApprovalGate
  <1>1. Inv => ApprovalGate
    BY DEF Inv, Sound, Gated, ApprovalGate, Db
  <1>2. QED
    BY <1>1, AlwaysInv, PTL

\* As long as the operator does not retry a compensation, a further undo of a
\* step is scheduled only after the failure of every earlier one was handled,
\* however late, often or wrongly the step itself is reported failed:
\* _advance_lifo_compensation passes over a step with an undo that runs or has
\* succeeded, and handle_compensation_failed alone makes such a row FAILED.
THEOREM NewUndoOnlyAfterFailureHolds ==
    ASSUME "retry_compensation" \notin Ops
    PROVE  Spec => []NewUndoOnlyAfterFailure
  <1>1. Inv => NewUndoOnlyAfterFailure
    BY DEF Inv, Sound, UndoTrail, NewUndoOnlyAfterFailure, Db
  <1>2. QED
    BY <1>1, AlwaysInv, PTL
=============================================================================
