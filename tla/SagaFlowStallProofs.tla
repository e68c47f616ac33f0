------------------------ MODULE SagaFlowStallProofs ------------------------
(***************************************************************************)
(* A saga of SagaFlow never stops half-way.  The theorem is about the      *)
(* blueprints for which the engine has no gap: one fan-out at most, which  *)
(* is not conditional and stands before its join, and whose failures are   *)
(* not taken for timeouts.  Outside them a parent may wait for ever: for   *)
(* the children of an earlier fan-out, which maybe_resume_spawn_           *)
(* compensation does not look at, or for children that were never created. *)
(***************************************************************************)
EXTENDS SagaFlowProofs

\* At most one step of the blueprint fans out; it is not conditional, and it
\* stands before the join that waits for its children.
OneFan(b) ==
    /\ \A n \in DOMAIN b : b[n].kind = "spawn" => ~ b[n].when
    /\ \A m, n \in DOMAIN b : b[m].kind = "spawn" /\ b[n].kind = "spawn" => m = n
    /\ \A n \in DOMAIN b : b[n].kind = "join" => b[n].of < n

\* A spawn step that completed has children; one that failed was the last step
\* that ran, and what is undone stands before it.
Peopled(b, t) ==
    \A i \in DOMAIN t.rows : b[t.rows[i].node].kind = "spawn" =>
        /\ t.rows[i].status = "COMPLETED" => KidsOf(t, t.rows[i].node) # {}
        /\ t.parent \in {"PENDING", "RUNNING"} => t.rows[i].status # "SKIPPED"
        /\ t.rows[i].status # "TIMED_OUT"
        /\ t.rows[i].status = "FAILED" =>
              \A j \in DOMAIN t.rows : t.rows[j].undo # "none" => j < i

\* Row i is of a spawn step whose children were created and are to be waited for.
Blocks(b, t, i) ==
    /\ b[t.rows[i].node].kind = "spawn" /\ t.rows[i].status = "COMPLETED"
    /\ t.rows[i].undo # "COMPENSATED"

\* A saga that unwinds has an undo that is out, or children that have not ended;
\* e are the transactions of the children that have not committed.
Hangs(b, t, e) ==
    t.parent = "COMPENSATING" => \E i \in DOMAIN t.rows :
        \/ t.rows[i].undo = "COMPENSATING"
        \/ /\ Blocks(b, t, i)
           /\ \E c \in KidsOf(t, t.rows[i].node) : t.child[c] \notin Terminal \/ e[c] # "none"

\* The same when the last child has just ended.
Halts(b, t) ==
    t.parent = "COMPENSATING" => \E i \in DOMAIN t.rows :
        t.rows[i].undo = "COMPENSATING" \/ Blocks(b, t, i)

StallInv == Peopled(blueprint, Db) /\ Hangs(blueprint, Db, ending)

\* No row of a spawn step that failed is on the way down from a row.
Clear(b, t, from) ==
    \A i \in DOMAIN t.rows :
        b[t.rows[i].node].kind = "spawn" /\ t.rows[i].status = "FAILED" => from < i

\* A call that keeps the invariant.
LiveCall(b, e, c) ==
    /\ GoodCall(b, e, c) /\ Peopled(b, c.tx)
    /\ c.todo = "unwind" => Clear(b, c.tx, c.at)
    /\ c.todo = "return" => Hangs(b, c.tx, e)

-----------------------------------------------------------------------------
(* What writes leave alone *)

LEMMA LiveSchedule ==
    ASSUME NEW b, NEW e, NEW t, NEW i, GoodCall(b, e, ThenSchedule(t, i)), Peopled(b, t)
    PROVE  LiveCall(b, e, ThenSchedule(t, i))
BY DEF LiveCall, ThenSchedule, Call

LEMMA LiveUnwind ==
    ASSUME NEW b, NEW e, NEW t, NEW i, GoodCall(b, e, ThenUnwind(t, i)), Peopled(b, t),
           Clear(b, t, i)
    PROVE  LiveCall(b, e, ThenUnwind(t, i))
BY DEF LiveCall, ThenUnwind, Call

LEMMA LiveOver ==
    ASSUME NEW b, NEW e, NEW t, GoodCall(b, e, Over(t)), Peopled(b, t), Hangs(b, t, e)
    PROVE  LiveCall(b, e, Over(t))
BY DEF LiveCall, Over, Call

\* A write that completes, skips or fails no spawn step, or ends the saga.
LEMMA PeopledKept ==
    ASSUME NEW b, NEW t, NEW u, Peopled(b, t), Shape(t, u), u.child = t.child,
           u.parent \in {"PENDING", "RUNNING"} => t.parent \in {"PENDING", "RUNNING"},
           \A j \in DOMAIN t.rows : b[t.rows[j].node].kind = "spawn" =>
              \/ u.rows[j].status \in {"PENDING", "IN_PROGRESS", t.rows[j].status}
              \/ u.rows[j].status = "SKIPPED" /\ u.parent \notin {"PENDING", "RUNNING"},
           \A j \in DOMAIN t.rows : u.rows[j].undo # "none" =>
              \/ t.rows[j].undo # "none"
              \/ \A k \in DOMAIN t.rows :
                    b[t.rows[k].node].kind = "spawn" /\ t.rows[k].status = "FAILED" => j < k
    PROVE  Peopled(b, u)
<1>1. \A n : KidsOf(u, n) = KidsOf(t, n)
  BY DEF KidsOf
<1> SUFFICES ASSUME NEW i \in DOMAIN t.rows, b[t.rows[i].node].kind = "spawn"
             PROVE  /\ u.rows[i].status = "COMPLETED" => KidsOf(t, t.rows[i].node) # {}
                    /\ u.parent \in {"PENDING", "RUNNING"} => u.rows[i].status # "SKIPPED"
                    /\ u.rows[i].status # "TIMED_OUT"
                    /\ u.rows[i].status = "FAILED" =>
                          \A j \in DOMAIN t.rows : u.rows[j].undo # "none" => j < i
  BY <1>1 DEF Peopled, Shape
<1>2. /\ t.rows[i].status = "COMPLETED" => KidsOf(t, t.rows[i].node) # {}
      /\ t.parent \in {"PENDING", "RUNNING"} => t.rows[i].status # "SKIPPED"
      /\ t.rows[i].status # "TIMED_OUT"
      /\ t.rows[i].status = "FAILED" =>
            \A j \in DOMAIN t.rows : t.rows[j].undo # "none" => j < i
  BY DEF Peopled
<1>3. \/ u.rows[i].status \in {"PENDING", "IN_PROGRESS", t.rows[i].status}
      \/ u.rows[i].status = "SKIPPED" /\ u.parent \notin {"PENDING", "RUNNING"}
  OBVIOUS
<1>4. u.rows[i].status \in {"COMPLETED", "TIMED_OUT", "FAILED"} =>
         u.rows[i].status = t.rows[i].status
  BY ONLY <1>3
<1>5. u.rows[i].status = "SKIPPED" /\ u.parent \in {"PENDING", "RUNNING"} =>
         t.rows[i].status = "SKIPPED" /\ t.parent \in {"PENDING", "RUNNING"}
  BY ONLY <1>3, u.parent \in {"PENDING", "RUNNING"} => t.parent \in {"PENDING", "RUNNING"}
<1>6. ASSUME u.rows[i].status = "FAILED", NEW j \in DOMAIN t.rows, u.rows[j].undo # "none"
      PROVE  j < i
  <2>1. t.rows[i].status = "FAILED"
    BY <1>4, <1>6
  <2> QED BY <1>2, <1>6, <2>1
<1> QED BY <1>2, <1>4, <1>5, <1>6

\* The rows are not touched.
LEMMA PeopledSame ==
    ASSUME NEW b, NEW t, NEW u, Peopled(b, t), u.rows = t.rows, u.child = t.child,
           u.parent \in {"PENDING", "RUNNING"} => t.parent \in {"PENDING", "RUNNING"}
    PROVE  Peopled(b, u)
BY DEF Peopled, KidsOf

\* Rows are appended.
LEMMA PeopledMinted ==
    ASSUME NEW b, NEW t, NEW u, NEW new \in Seq(Row), t.rows \in Seq(Row), Peopled(b, t),
           u.rows = t.rows \o new, u.child = t.child, u.parent = t.parent,
           \A k \in DOMAIN new : new[k].status = "PENDING" /\ new[k].undo = "none"
    PROVE  Peopled(b, u)
<1>1. /\ \A j \in DOMAIN t.rows : u.rows[j] = t.rows[j]
      /\ \A j \in DOMAIN u.rows :
            \/ j \in DOMAIN t.rows /\ u.rows[j] = t.rows[j]
            \/ u.rows[j].status = "PENDING" /\ u.rows[j].undo = "none"
  <2>1. /\ \A j \in DOMAIN t.rows : u.rows[j] = t.rows[j]
        /\ \A j \in DOMAIN u.rows :
              \/ j \in DOMAIN t.rows /\ u.rows[j] = t.rows[j]
              \/ /\ j - Len(t.rows) \in DOMAIN new /\ j > Len(t.rows)
                 /\ u.rows[j] = new[j - Len(t.rows)]
    BY Appended
  <2> QED BY <2>1
<1>2. \A n : KidsOf(u, n) = KidsOf(t, n)
  BY DEF KidsOf
<1> SUFFICES ASSUME NEW i \in DOMAIN u.rows, b[u.rows[i].node].kind = "spawn"
             PROVE  /\ u.rows[i].status = "COMPLETED" => KidsOf(t, u.rows[i].node) # {}
                    /\ t.parent \in {"PENDING", "RUNNING"} => u.rows[i].status # "SKIPPED"
                    /\ u.rows[i].status # "TIMED_OUT"
                    /\ u.rows[i].status = "FAILED" =>
                          \A j \in DOMAIN u.rows : u.rows[j].undo # "none" => j < i
  BY <1>2 DEF Peopled
<1>3. CASE i \in DOMAIN t.rows
  <2>1. u.rows[i] = t.rows[i]
    BY <1>1, <1>3
  <2>2. /\ t.rows[i].status = "COMPLETED" => KidsOf(t, t.rows[i].node) # {}
        /\ t.parent \in {"PENDING", "RUNNING"} => t.rows[i].status # "SKIPPED"
        /\ t.rows[i].status # "TIMED_OUT"
        /\ t.rows[i].status = "FAILED" =>
              \A j \in DOMAIN t.rows : t.rows[j].undo # "none" => j < i
    BY <1>3, <2>1 DEF Peopled
  <2> QED BY ONLY <1>1, <2>1, <2>2
<1>4. CASE i \notin DOMAIN t.rows
  BY <1>1, <1>4
<1> QED BY <1>3, <1>4

-----------------------------------------------------------------------------
(* The forward run *)

\* A step fails; a spawn step fails before it has created a child.
LEMMA FailLive ==
    ASSUME NEW b, NEW e, NEW t \in Tx(b), NEW i \in DOMAIN t.rows, NEW er \in StepErrors,
           Sound(b, t), EndingOk(t.child, e), Around(t, i), ~ Done(t.rows[i]), Peopled(b, t),
           b[t.rows[i].node].kind = "spawn" => er = "clean"
    PROVE  LiveCall(b, e, Fail(t, i, er))
<1>1. GoodCall(b, e, Fail(t, i, er))
  BY FailGood
<1>2. PICK u \in Tx(b) :
         /\ Shape(t, u) /\ u.child = t.child
         /\ \A j \in DOMAIN t.rows : u.rows[j].undo = t.rows[j].undo
         /\ \/ /\ Fail(t, i, er) = Over(u) /\ u.parent = "FAILED"
               /\ i = 1 /\ er = "clean"
               /\ \A j \in DOMAIN t.rows :
                     u.rows[j].status = IF j = i THEN FailedAs(er)
                                        ELSE IF t.rows[j].status = "PENDING" THEN "SKIPPED"
                                        ELSE t.rows[j].status
            \/ /\ u.parent = "COMPENSATING"
               /\ \/ er = "clean" /\ i > 1 /\ Fail(t, i, er) = ThenUnwind(u, i - 1)
                  \/ er # "clean" /\ Fail(t, i, er) = ThenUnwind(u, i)
               /\ \A j \in DOMAIN t.rows :
                     u.rows[j].status = IF j = i THEN FailedAs(er) ELSE t.rows[j].status
  BY FailWrites
<1>3. \A j \in DOMAIN t.rows : j \in Nat
  BY RowTypes
<1>4. /\ \A j \in DOMAIN t.rows : t.rows[j].undo = "none"
      /\ \A j \in DOMAIN t.rows : j # i => t.rows[j].status \in {"COMPLETED", "SKIPPED", "PENDING"}
  <2>1. Quiet(t) /\ \A j \in DOMAIN t.rows : /\ j < i => Done(t.rows[j])
                                             /\ j > i => t.rows[j].status = "PENDING"
    BY DEF Around
  <2> QED BY <1>3, <2>1 DEF Quiet, Done
<1>5. u.parent \notin {"PENDING", "RUNNING"}
  BY <1>2
<1>6. \A j \in DOMAIN t.rows : b[t.rows[j].node].kind = "spawn" =>
         /\ u.rows[j].status # "TIMED_OUT"
         /\ u.rows[j].status = "COMPLETED" => t.rows[j].status = "COMPLETED"
         /\ u.rows[j].status = "FAILED" => j = i
  BY <1>2, <1>4 DEF FailedAs
<1>7. Peopled(b, u)
  <2>1. \A n : KidsOf(u, n) = KidsOf(t, n)
    BY <1>2 DEF KidsOf
  <2>2. /\ DOMAIN u.rows = DOMAIN t.rows
        /\ \A j \in DOMAIN t.rows : u.rows[j].node = t.rows[j].node
        /\ \A j \in DOMAIN t.rows : u.rows[j].undo = "none"
    BY <1>2, <1>4 DEF Shape
  <2>3. \A j \in DOMAIN t.rows : b[t.rows[j].node].kind = "spawn" =>
           (t.rows[j].status = "COMPLETED" => KidsOf(t, t.rows[j].node) # {})
    BY DEF Peopled
  <2> QED BY ONLY <1>5, <1>6, <2>1, <2>2, <2>3 DEF Peopled
<1>8. CASE Fail(t, i, er) = Over(u) /\ u.parent = "FAILED"
  <2>1. Hangs(b, u, e)
    BY <1>8 DEF Hangs
  <2> QED BY <1>1, <1>7, <1>8, <2>1, LiveOver
<1>9. CASE \/ er = "clean" /\ i > 1 /\ Fail(t, i, er) = ThenUnwind(u, i - 1)
           \/ er # "clean" /\ Fail(t, i, er) = ThenUnwind(u, i)
  <2>1. PICK at : Fail(t, i, er) = ThenUnwind(u, at) /\ (er = "clean" => at = i - 1)
    BY <1>9
  <2>2. Clear(b, u, at)
    <3> SUFFICES ASSUME NEW k \in DOMAIN t.rows, b[t.rows[k].node].kind = "spawn",
                        u.rows[k].status = "FAILED"
                 PROVE  at < k
      BY <1>2 DEF Clear, Shape
    <3>1. k = i
      BY <1>6
    <3>2. at = i - 1
      BY <2>1, <3>1
    <3> QED BY <1>3, <3>1, <3>2
  <2> QED BY <1>1, <1>7, <2>1, <2>2, LiveUnwind
<1> QED BY <1>2, <1>8, <1>9

\* No row has failed, and none is undone, behind a row that is done.
LEMMA PassedFacts ==
    ASSUME NEW b, NEW t \in Tx(b), NEW i, Passed(b, t, i)
    PROVE  /\ t.parent = "RUNNING"
           /\ \A j \in DOMAIN t.rows : /\ t.rows[j].undo = "none" /\ t.rows[j].error = "none"
                                       /\ t.rows[j].status # "FAILED"
<1>1. /\ i \in DOMAIN t.rows /\ t.parent = "RUNNING" /\ Quiet(t) /\ Done(t.rows[i])
      /\ \A j \in DOMAIN t.rows : /\ j < i => Done(t.rows[j])
                                  /\ j > i => t.rows[j].status = "PENDING"
  BY DEF Passed, Around
<1>2. \A j \in DOMAIN t.rows : j \in Nat
  BY RowTypes
<1>3. \A j \in DOMAIN t.rows : j < i \/ j = i \/ j > i
  BY ONLY <1>1, <1>2
<1> QED BY ONLY <1>1, <1>3 DEF Quiet, Done

\* A loop is given up.
LEMMA FailLoopLive ==
    ASSUME blueprint \in Blueprints, NEW e, NEW t \in Tx(blueprint),
           Sound(blueprint, t), EndingOk(t.child, e), NEW i, i = Len(t.rows),
           Passed(blueprint, t, i), t.rows[i].node \in LoopNodes(blueprint),
           NEW code \in {"LOOP_EXHAUSTED", "UNTIL_EVALUATION_FAILED"},
           code = "LOOP_EXHAUSTED" => Exhausted(t.rows[i]), Peopled(blueprint, t)
    PROVE  LiveCall(blueprint, e, FailLoop(t, i, code))
<1>0. PICK b \in Blueprints : b = blueprint
  OBVIOUS
<1>1. GoodCall(b, e, FailLoop(t, i, code))
  BY <1>0, FailLoopGood
<1>2. /\ t.parent = "RUNNING" /\ i \in DOMAIN t.rows
      /\ \A j \in DOMAIN t.rows : /\ t.rows[j].undo = "none" /\ t.rows[j].error = "none"
                                  /\ t.rows[j].status # "FAILED"
  BY PassedFacts DEF Passed
<1>3. PICK x \in LoopState : x = [iter |-> t.rows[i].iter, status |-> "exhausted"]
  BY <1>2, RowTypes DEF LoopState
<1>4. PICK u \in Tx(b) :
         /\ FailLoop(t, i, code) = ThenUnwind(u, i)
         /\ Shape(t, u) /\ u.parent = "COMPENSATING" /\ u.child = t.child
         /\ \A j \in DOMAIN t.rows : /\ u.rows[j].status = t.rows[j].status
                                     /\ u.rows[j].undo = t.rows[j].undo
  <2>1. t \in Tx(b) /\ i \in DOMAIN t.rows /\ t.rows[i].node \in LoopNodes(b)
        /\ t.rows[i].error = "none"
    BY <1>0, <1>2
  <2>2. \E u \in Tx(b) :
          /\ FailLoop(t, i, code) = ThenUnwind(u, i)
          /\ Shape(t, u) /\ u.parent = "COMPENSATING" /\ u.child = t.child
          /\ u.cursor = CountedTx(t, t.rows[i].node, x).cursor
          /\ u.loops = CountedTx(t, t.rows[i].node, x).loops
          /\ \A j \in DOMAIN t.rows :
                /\ u.rows[j].status = t.rows[j].status
                /\ u.rows[j].undo = t.rows[j].undo
                /\ u.rows[j].error = IF j = i THEN code ELSE t.rows[j].error
    BY <1>3, <2>1, FailLoopWrites
  <2> QED BY <2>2
<1>5. Peopled(b, u)
  <2>1. Peopled(b, t)
    BY <1>0
  <2> QED BY <1>2, <1>4, <2>1, PeopledKept
<1>6. Clear(b, u, i)
  BY <1>2, <1>4 DEF Clear, Shape
<1> QED BY <1>0, <1>1, <1>4, <1>5, <1>6, LiveUnwind

\* The next pass begins.
LEMMA ContinueLoopLive ==
    ASSUME blueprint \in Blueprints, NEW e, NEW t \in Tx(blueprint),
           Sound(blueprint, t), EndingOk(t.child, e), NEW i, i = Len(t.rows),
           Passed(blueprint, t, i), t.rows[i].node \in LoopNodes(blueprint),
           ~ Exhausted(t.rows[i]), Peopled(blueprint, t)
    PROVE  LiveCall(blueprint, e, ContinueLoop(t, i))
<1>0. PICK b \in Blueprints : b = blueprint
  OBVIOUS
<1>1. PICK n : n = t.rows[i].node
  OBVIOUS
<1>2. PICK next : next = t.rows[i].iter + 1
  OBVIOUS
<1>3. GoodCall(b, e, ContinueLoop(t, i))
  BY <1>0, ContinueLoopGood
<1>4. i \in DOMAIN t.rows /\ n \in LoopNodes(b) /\ t \in Tx(b) /\ Placed(b, t)
  BY <1>0, <1>1 DEF Passed, Sound, Layout
<1>5. next \in Nat /\ next >= 1 /\ t.cursor \in Nat /\ t.rows \in Seq(Row)
  <2>1. t.rows[i].iter \in Nat
    BY <1>4, RowTypes
  <2> QED BY <1>2, <2>1 DEF Tx
<1>6. PICK x \in LoopState : x = [iter |-> next, status |-> "running"]
  BY <1>5 DEF LoopState
<1>7. PICK new \in Seq(Row) : new = Body(b, n, next)
  BY <1>4, <1>5, BodyFacts
<1>8. PICK u : u = MintedTx(t, n, x, t.cursor, new)
  OBVIOUS
<1>9. ContinueLoop(t, i) = ThenSchedule(u, Len(t.rows) + 1)
  <2>1. [t EXCEPT !.loops[n] = x] = [t EXCEPT !.loops[n] = x, !.cursor = t.cursor]
    BY DEF Tx
  <2>2. ContinueLoop(t, i) = Mint([t EXCEPT !.loops[n] = x], new)
    BY <1>0, <1>1, <1>2, <1>6, <1>7 DEF ContinueLoop
  <2>3. [t EXCEPT !.loops[n] = x, !.cursor = t.cursor].rows = t.rows
    BY DEF Tx
  <2> QED BY ONLY <1>8, <2>1, <2>2, <2>3 DEF Mint, MintedTx
<1>10. u.rows = t.rows \o new /\ u.parent = t.parent /\ u.child = t.child
  <2>1. t \in Tx(b) /\ n \in LoopNodes(b) /\ t.cursor \in Nat
    BY <1>4, <1>5
  <2> QED BY ONLY <1>8, <2>1, new \in Seq(Row), x \in LoopState, MintWrites
<1>11. \A k \in DOMAIN new : new[k].status = "PENDING" /\ new[k].undo = "none"
  BY <1>4, <1>5, <1>7, BodyFits
<1>12. Peopled(b, u)
  <2>1. Peopled(b, t)
    BY <1>0
  <2> QED BY ONLY <1>5, <1>10, <1>11, <2>1, new \in Seq(Row), PeopledMinted
<1> QED BY <1>0, <1>3, <1>9, <1>12, LiveSchedule

\* The loop is left.
LEMMA ExitLoopLive ==
    ASSUME blueprint \in Blueprints, NEW e, NEW t \in Tx(blueprint),
           Sound(blueprint, t), EndingOk(t.child, e), NEW i, i = Len(t.rows),
           Passed(blueprint, t, i), t.rows[i].node \in LoopNodes(blueprint), Peopled(blueprint, t)
    PROVE  LiveCall(blueprint, e, ExitLoop(t, i))
<1>0. PICK b \in Blueprints : b = blueprint
  OBVIOUS
<1>1. PICK n : n = t.rows[i].node
  OBVIOUS
<1>2. PICK from : from = t.cursor
  OBVIOUS
<1>3. GoodCall(b, e, ExitLoop(t, i))
  BY <1>0, ExitLoopGood
<1>4. /\ i \in DOMAIN t.rows /\ n \in LoopNodes(b) /\ t \in Tx(b) /\ Peopled(b, t)
      /\ from \in 1 .. Len(b) + 1 /\ t.rows \in Seq(Row) /\ Len(b) \in Nat
  BY <1>0, <1>1, <1>2, BlueprintFacts DEF Passed, Sound, Layout, Covered, Tx
<1>5. PICK x \in LoopState : x = [iter |-> t.rows[i].iter, status |-> "exited"]
  BY <1>4, RowTypes DEF LoopState
<1>6. CASE from = Len(b) + 1
  <2>1. PICK u : u = CountedTx(t, n, x)
    OBVIOUS
  <2>2. ExitLoop(t, i) = ThenSchedule(u, i + 1)
    <3>1. from > Len(b)
      BY <1>4, <1>6
    <3>2. Segment(b, t.cursor) = << >> /\ CursorAfter(b, t.cursor) = t.cursor
      BY ONLY <1>2, <3>1 DEF Segment, CursorAfter
    <3> QED BY ONLY <1>0, <1>1, <1>5, <2>1, <3>2 DEF ExitLoop, CountedTx
  <2>3. u.rows = t.rows /\ u.parent = t.parent /\ u.child = t.child
    BY <1>4, <2>1, CountWrites
  <2>4. Peopled(b, u)
    BY <1>4, <2>3, PeopledSame
  <2> QED BY <1>0, <1>3, <2>2, <2>4, LiveSchedule
<1>7. CASE from # Len(b) + 1
  <2>1. from \in 1 .. Len(b)
    BY ONLY <1>4, <1>7
  <2>2. PICK new \in Seq(Row) : new = Segment(b, from)
    BY <2>1, SegmentFits
  <2>3. /\ new # << >>
        /\ \A k \in DOMAIN new : new[k].status = "PENDING" /\ new[k].undo = "none"
    BY <2>1, <2>2, SegmentFits
  <2>4. PICK cur \in Nat : cur = CursorAfter(b, from)
    <3>1. SegmentEnd(b, from) \in from .. Len(b) /\ CursorAfter(b, from) = SegmentEnd(b, from) + 1
      BY <2>1, SegmentEndFacts
    <3> QED BY <1>4, <2>1, <3>1
  <2>5. PICK u : u = MintedTx(t, n, x, cur, new)
    OBVIOUS
  <2>6. ExitLoop(t, i) = ThenSchedule(u, Len(t.rows) + 1)
    <3>1. ExitLoop(t, i) = Mint([t EXCEPT !.loops[n] = x, !.cursor = CursorAfter(b, t.cursor)], new)
      BY ONLY <1>0, <1>1, <1>2, <1>5, <2>2, <2>3 DEF ExitLoop
    <3>2. [t EXCEPT !.loops[n] = x, !.cursor = cur].rows = t.rows
      BY DEF Tx
    <3> QED BY ONLY <1>2, <2>4, <2>5, <3>1, <3>2 DEF Mint, MintedTx
  <2>7. u.rows = t.rows \o new /\ u.parent = t.parent /\ u.child = t.child
    <3>1. t \in Tx(b) /\ n \in LoopNodes(b) /\ cur \in Nat
      BY <1>4
    <3> QED BY ONLY <2>5, <3>1, new \in Seq(Row), x \in LoopState, MintWrites
  <2>8. Peopled(b, u)
    BY ONLY <1>4, <2>3, <2>7, new \in Seq(Row), PeopledMinted
  <2> QED BY <1>0, <1>3, <2>6, <2>8, LiveSchedule
<1> QED BY <1>6, <1>7

\* What may follow a row that is done.
LEMMA ContinueLive ==
    ASSUME blueprint \in Blueprints, NEW e, NEW t \in Tx(blueprint), NEW i,
           Sound(blueprint, t), EndingOk(t.child, e), Passed(blueprint, t, i),
           Peopled(blueprint, t)
    PROVE  \A c \in Continue(t, i) : LiveCall(blueprint, e, c)
<1>1. i \in DOMAIN t.rows /\ Placed(blueprint, t)
  BY DEF Passed, Sound, Layout
<1>2. EndsBody(t.rows[i]) <=> /\ t.rows[i].node \in LoopNodes(blueprint)
                              /\ t.rows[i].pos = Len(blueprint[t.rows[i].node].body)
  BY <1>1, RowKinds DEF Placed
<1>3. CASE EndsBody(t.rows[i])
  <2>1. i = Len(t.rows) /\ t.rows[i].node \in LoopNodes(blueprint)
    BY <1>2, <1>3 DEF Passed
  <2>2. Continue(t, i) = {FailLoop(t, i, "UNTIL_EVALUATION_FAILED"),
                          ExitLoop(t, i),
                          IF Exhausted(t.rows[i]) THEN FailLoop(t, i, "LOOP_EXHAUSTED")
                          ELSE ContinueLoop(t, i)}
    BY <1>3 DEF Continue, Boundary
  <2>3. LiveCall(blueprint, e, FailLoop(t, i, "UNTIL_EVALUATION_FAILED"))
    BY <2>1, FailLoopLive
  <2>4. LiveCall(blueprint, e, ExitLoop(t, i))
    BY <2>1, ExitLoopLive
  <2>5. Exhausted(t.rows[i]) => LiveCall(blueprint, e, FailLoop(t, i, "LOOP_EXHAUSTED"))
    BY <2>1, FailLoopLive
  <2>6. ~ Exhausted(t.rows[i]) => LiveCall(blueprint, e, ContinueLoop(t, i))
    BY <2>1, ContinueLoopLive
  <2> QED BY <2>2, <2>3, <2>4, <2>5, <2>6
<1>4. CASE ~ EndsBody(t.rows[i])
  <2>1. Continue(t, i) = {ThenSchedule(t, i + 1)}
    BY <1>4 DEF Continue
  <2>2. GoodCall(blueprint, e, ThenSchedule(t, i + 1))
    BY <2>1, ContinueGood
  <2> QED BY <2>1, <2>2, LiveSchedule
<1> QED BY <1>3, <1>4

\* A row moves on; a spawn step is not skipped, and completes with children.
LEMMA MarkPeopled ==
    ASSUME NEW b, NEW t \in Tx(b), NEW i \in DOMAIN t.rows,
           NEW s \in {"IN_PROGRESS", "COMPLETED", "SKIPPED"}, Peopled(b, t),
           b[t.rows[i].node].kind = "spawn" /\ s = "SKIPPED" => FALSE,
           b[t.rows[i].node].kind = "spawn" /\ s = "COMPLETED" =>
               KidsOf(t, t.rows[i].node) # {}
    PROVE  Peopled(b, Mark(t, i, s))
<1>1. PICK u : u = Mark(t, i, s)
  OBVIOUS
<1>2. /\ Shape(t, u) /\ u.parent = t.parent /\ u.child = t.child
      /\ \A j \in DOMAIN t.rows :
            /\ u.rows[j].status = IF j = i THEN s ELSE t.rows[j].status
            /\ u.rows[j].undo = t.rows[j].undo
  <2>1. s \in Statuses
    BY DEF Statuses
  <2> QED BY <1>1, <2>1, MarkWrites
<1>3. \A n : KidsOf(u, n) = KidsOf(t, n)
  BY <1>2 DEF KidsOf
<1>4. \A j \in DOMAIN t.rows : u.rows[j].node = t.rows[j].node
  BY <1>2 DEF Shape
<1> SUFFICES Peopled(b, u)
  BY <1>1
<1> SUFFICES ASSUME NEW k \in DOMAIN u.rows, b[u.rows[k].node].kind = "spawn"
             PROVE  /\ u.rows[k].status = "COMPLETED" => KidsOf(u, u.rows[k].node) # {}
                    /\ u.parent \in {"PENDING", "RUNNING"} => u.rows[k].status # "SKIPPED"
                    /\ u.rows[k].status # "TIMED_OUT"
                    /\ u.rows[k].status = "FAILED" =>
                          \A j \in DOMAIN u.rows : u.rows[j].undo # "none" => j < k
  BY DEF Peopled
<1>5. /\ k \in DOMAIN t.rows /\ DOMAIN u.rows = DOMAIN t.rows
      /\ u.rows[k].node = t.rows[k].node /\ b[t.rows[k].node].kind = "spawn"
  BY <1>2, <1>4 DEF Shape
<1>6. CASE k = i
  BY <1>2, <1>3, <1>5, <1>6
<1>7. CASE k # i
  <2>1. u.rows[k].status = t.rows[k].status
    BY <1>2, <1>5, <1>7
  <2>2. /\ t.rows[k].status = "COMPLETED" => KidsOf(t, t.rows[k].node) # {}
        /\ t.parent \in {"PENDING", "RUNNING"} => t.rows[k].status # "SKIPPED"
        /\ t.rows[k].status # "TIMED_OUT"
        /\ t.rows[k].status = "FAILED" =>
              \A j \in DOMAIN t.rows : t.rows[j].undo # "none" => j < k
    BY <1>5 DEF Peopled
  <2>3. u.parent = t.parent /\ \A j \in DOMAIN t.rows : u.rows[j].undo = t.rows[j].undo
    BY <1>2
  <2> QED BY ONLY <1>3, <1>5, <2>1, <2>2, <2>3
<1> QED BY <1>6, <1>7

\* A row that ran, and completes.
LEMMA FinalizeLive ==
    ASSUME blueprint \in Blueprints, NEW e, NEW t \in Tx(blueprint), NEW i,
           Sound(blueprint, t), EndingOk(t.child, e), Runs(t, i), Peopled(blueprint, t),
           blueprint[t.rows[i].node].kind # "spawn",
           blueprint[t.rows[i].node].kind = "join" =>
               /\ KidsOf(t, blueprint[t.rows[i].node].of) # {}
               /\ \A c \in KidsOf(t, blueprint[t.rows[i].node].of) : t.child[c] # "RUNNING"
    PROVE  \A c \in Finalize(t, i) : LiveCall(blueprint, e, c)
<1>1. PICK u : u = Mark(t, i, "COMPLETED")
  OBVIOUS
<1>2. /\ i \in DOMAIN t.rows /\ Around(t, i) /\ ~ Done(t.rows[i]) /\ t.parent = "RUNNING"
      /\ "COMPLETED" \in Statuses
  BY DEF Runs, Done, Around, Statuses
<1>3. Sound(blueprint, u)
  BY <1>1, <1>2, MarkSound
<1>4. Passed(blueprint, u, i)
  BY <1>1, <1>2, MarkPassed
<1>5. u \in Tx(blueprint) /\ EndingOk(u.child, e)
  BY <1>1, <1>2, MarkWrites
<1>6. Finalize(t, i) = Continue(u, i)
  BY <1>1 DEF Finalize
<1>7. Peopled(blueprint, u)
  BY <1>1, <1>2, MarkPeopled
<1> QED BY <1>3, <1>4, <1>5, <1>6, <1>7, ContinueLive

\* A join completes, fails or waits.
LEMMA TryJoinLive ==
    ASSUME blueprint \in Blueprints, NEW e, NEW t \in Tx(blueprint), NEW i,
           Sound(blueprint, t), EndingOk(t.child, e), Runs(t, i), Peopled(blueprint, t),
           Manifest(t.rows[i]).kind = "join"
    PROVE  \A c \in TryJoin(t, i) : LiveCall(blueprint, e, c)
<1>1. PICK of : of = Manifest(t.rows[i]).of
  OBVIOUS
<1>2. /\ i \in DOMAIN t.rows /\ Around(t, i) /\ ~ Done(t.rows[i]) /\ t.parent = "RUNNING"
  BY DEF Runs, Done, Around
<1>3. /\ Manifest(t.rows[i]) = RowSpec(blueprint, t.rows[i])
      /\ blueprint[t.rows[i].node].kind = "join"
  BY <1>2, RowKinds DEF Sound, Layout, Placed
<1>4. blueprint[t.rows[i].node].of = of
  BY <1>1, <1>3 DEF RowSpec
<1>5. CASE ~ AllTerminal(t, of)
  <2>1. TryJoin(t, i) = {Over(t)}
    BY <1>1, <1>5 DEF TryJoin
  <2>2. GoodCall(blueprint, e, Over(t))
    BY <2>1, TryJoinGood
  <2>3. Hangs(blueprint, t, e)
    BY <1>2 DEF Hangs
  <2> QED BY <2>1, <2>2, <2>3, LiveOver
<1>6. CASE AllTerminal(t, of)
  <2>1. "clean" \in StepErrors
    BY DEF StepErrors
  <2>2. LiveCall(blueprint, e, Fail(t, i, "clean"))
    BY <1>2, <2>1, FailLive
  <2>3. /\ KidsOf(t, of) # {}
        /\ \A c \in KidsOf(t, of) : t.child[c] # "RUNNING"
    BY <1>6, TerminalKids DEF Terminal
  <2>4. \A c \in Finalize(t, i) : LiveCall(blueprint, e, c)
    BY <1>3, <1>4, <2>3, FinalizeLive
  <2>5. TryJoin(t, i) = {Fail(t, i, "clean")} \/ TryJoin(t, i) = Finalize(t, i)
    BY <1>1, <1>6 DEF TryJoin
  <2> QED BY <2>2, <2>4, <2>5
<1> QED BY <1>5, <1>6

\* A spawn step creates children and completes, or fails with none.
LEMMA SpawnLive ==
    ASSUME blueprint \in Blueprints, SpawnErrors \subseteq {"clean"},
           NEW e, NEW t \in Tx(blueprint), NEW i,
           Sound(blueprint, t), EndingOk(t.child, e), Runs(t, i), Peopled(blueprint, t),
           Manifest(t.rows[i]).kind = "spawn"
    PROVE  \A c \in SpawnChildren(t, i) : LiveCall(blueprint, e, c)
<1>1. PICK b \in Blueprints : b = blueprint
  OBVIOUS
<1>2. PICK n : n = t.rows[i].node
  OBVIOUS
<1>3. /\ i \in DOMAIN t.rows /\ Around(t, i) /\ ~ Done(t.rows[i])
      /\ t \in Tx(b) /\ Sound(b, t) /\ EndingOk(t.child, e) /\ Peopled(b, t)
  BY <1>1 DEF Runs, Done
<1>4. ASSUME NEW S \in SUBSET Items, S # {}
      PROVE  \A c \in Finalize(SpawnedTx(t, i, S), i) : LiveCall(b, e, c)
  <2>1. PICK u \in Tx(blueprint) :
           /\ u = SpawnedTx(Mark(t, i, "COMPLETED"), i, S)
           /\ Finalize(SpawnedTx(t, i, S), i) = Continue(u, i)
           /\ Sound(blueprint, u) /\ EndingOk(u.child, e) /\ Passed(blueprint, u, i)
    BY SpawnedGood
  <2>2. PICK v : v = Mark(t, i, "COMPLETED")
    OBVIOUS
  <2>3. /\ v \in Tx(b) /\ Shape(t, v) /\ v.child = t.child /\ v.parent = t.parent
        /\ \A j \in DOMAIN t.rows :
              /\ v.rows[j].status = IF j = i THEN "COMPLETED" ELSE t.rows[j].status
              /\ v.rows[j].undo = t.rows[j].undo
    <3>1. "COMPLETED" \in Statuses /\ t \in Tx(b) /\ i \in DOMAIN t.rows
      BY <1>3 DEF Statuses
    <3> QED BY ONLY <2>2, <3>1, MarkWrites
  <2>4. v.rows[i].node = n /\ \A j \in DOMAIN t.rows : v.rows[j].node = t.rows[j].node
    BY <1>2, <1>3, <2>3 DEF Shape
  <2>5. /\ u.parent = v.parent /\ u.rows = v.rows
        /\ \A c \in Children :
              u.child[c] = IF c \in {v.rows[i].node} \X S THEN "RUNNING" ELSE v.child[c]
    <3>1. u = SpawnedTx(v, i, S) /\ v \in Tx(b)
      BY <2>1, <2>2, <2>3
    <3> QED BY ONLY <3>1, SpawnWrites
  <2>6. \A m : KidsOf(t, m) \subseteq KidsOf(u, m)
    BY <2>3, <2>5 DEF KidsOf
  <2>7. KidsOf(u, n) # {}
    <3>1. PICK it \in S : TRUE
      BY <1>4
    <3>2. n \in Nodes /\ it \in Items
      BY <1>2, <1>3, <3>1, RowTypes
    <3>3. <<n, it>> \in Children /\ <<n, it>>[1] = n /\ <<n, it>> \in {n} \X S
      BY <3>1, <3>2 DEF Children
    <3>4. u.child[<<n, it>>] = "RUNNING"
      BY <2>4, <2>5, <3>3
    <3> QED BY <3>3, <3>4 DEF KidsOf
  <2>8. DOMAIN u.rows = DOMAIN t.rows
    BY <2>3, <2>5 DEF Shape
  <2>9. Peopled(b, u)
    <3> SUFFICES ASSUME NEW k \in DOMAIN u.rows, b[u.rows[k].node].kind = "spawn"
                 PROVE  /\ u.rows[k].status = "COMPLETED" => KidsOf(u, u.rows[k].node) # {}
                        /\ u.parent \in {"PENDING", "RUNNING"} => u.rows[k].status # "SKIPPED"
                        /\ u.rows[k].status # "TIMED_OUT"
                        /\ u.rows[k].status = "FAILED" =>
                              \A j \in DOMAIN u.rows : u.rows[j].undo # "none" => j < k
      BY DEF Peopled
    <3>0. k \in DOMAIN t.rows /\ u.rows[k].node = t.rows[k].node
      BY <2>4, <2>5, <2>8
    <3>1. CASE k = i
      BY <2>3, <2>4, <2>5, <2>7, <3>0, <3>1
    <3>2. CASE k # i
      <4>1. u.rows[k].status = t.rows[k].status /\ u.rows[k].node = t.rows[k].node
        BY <2>3, <2>5, <3>0, <3>2
      <4>2. /\ t.rows[k].status = "COMPLETED" => KidsOf(t, t.rows[k].node) # {}
            /\ t.parent \in {"PENDING", "RUNNING"} => t.rows[k].status # "SKIPPED"
            /\ t.rows[k].status # "TIMED_OUT"
            /\ t.rows[k].status = "FAILED" =>
                  \A j \in DOMAIN t.rows : t.rows[j].undo # "none" => j < k
        BY <1>3, <3>0 DEF Peopled
      <4>3. u.parent = t.parent /\ \A j \in DOMAIN t.rows : u.rows[j].undo = t.rows[j].undo
        BY <2>3, <2>5
      <4> QED BY ONLY <2>6, <2>8, <4>1, <4>2, <4>3
    <3> QED BY <3>1, <3>2
  <2>10. Peopled(blueprint, u)
    BY <1>1, <2>9
  <2>11. \A c \in Continue(u, i) : LiveCall(blueprint, e, c)
    BY <2>1, <2>10, ContinueLive
  <2> QED BY <1>1, <2>1, <2>11
<1>5. ASSUME NEW er \in SpawnErrors PROVE LiveCall(b, e, Fail(t, i, er))
  <2>1. er \in StepErrors /\ er = "clean"
    BY DEF StepErrors
  <2> QED BY <1>3, <2>1, FailLive
<1> DEFINE made == {Finalize(SpawnedTx(t, i, S), i) : S \in (SUBSET Items) \ {{}}}
           failed == {Fail(t, i, er) : er \in SpawnErrors}
<1>6. SpawnChildren(t, i) = (UNION made) \cup failed
  BY DEF SpawnChildren, SpawnedTx
<1>7. \A W \in made : \E S \in SUBSET Items : S # {} /\ W = Finalize(SpawnedTx(t, i, S), i)
  OBVIOUS
<1>8. \A c \in failed : \E er \in SpawnErrors : c = Fail(t, i, er)
  OBVIOUS
<1> HIDE DEF made, failed
<1> TAKE c \in SpawnChildren(t, i)
<1>9. \/ \E S \in SUBSET Items : S # {} /\ c \in Finalize(SpawnedTx(t, i, S), i)
      \/ \E er \in SpawnErrors : c = Fail(t, i, er)
  <2>1. (\E W \in made : c \in W) \/ c \in failed
    BY ONLY <1>6, c \in SpawnChildren(t, i)
  <2> QED BY ONLY <1>7, <1>8, <2>1
<1>10. LiveCall(b, e, c)
  BY <1>4, <1>5, <1>9
<1> QED BY <1>1, <1>10

\* The next row is started, skipped or fails, or the saga completes.
LEMMA ScheduleLive ==
    ASSUME blueprint \in Blueprints, OneFan(blueprint), SpawnErrors \subseteq {"clean"},
           NEW e, NEW t \in Tx(blueprint), NEW i,
           Sound(blueprint, t), EndingOk(t.child, e), Reached(blueprint, t, i),
           Peopled(blueprint, t)
    PROVE  \A c \in Schedule(t, i) : LiveCall(blueprint, e, c)
<1>1. PICK b \in Blueprints : b = blueprint
  OBVIOUS
<1>2. /\ t \in Tx(b) /\ Sound(b, t) /\ t.rows \in Seq(Row) /\ Len(t.rows) \in Nat
      /\ DOMAIN t.rows = 1 .. Len(t.rows) /\ i \in 1 .. Len(t.rows) + 1 /\ Around(t, i)
      /\ t.parent = "RUNNING" /\ Peopled(b, t) /\ EndingOk(t.child, e)
  <2>1. t.rows \in Seq(Row)
    BY DEF Tx
  <2>2. Len(t.rows) \in Nat /\ DOMAIN t.rows = 1 .. Len(t.rows)
    BY ONLY <2>1
  <2> QED BY <1>1, <2>1, <2>2 DEF Reached, Around
<1>3. \A c \in Schedule(t, i) : GoodCall(b, e, c)
  BY <1>1, ScheduleGood
<1>4. CASE i > Len(t.rows)
  <2>1. PICK u : u = Close(t, "COMPLETED")
    OBVIOUS
  <2>2. Schedule(t, i) = {Over(u)}
    BY <1>4, <2>1 DEF Schedule
  <2>3. /\ Shape(t, u) /\ u.parent = "COMPLETED" /\ u.child = t.child
        /\ \A j \in DOMAIN t.rows :
              /\ u.rows[j].status = IF t.rows[j].status = "PENDING" THEN "SKIPPED"
                                    ELSE t.rows[j].status
              /\ u.rows[j].undo = t.rows[j].undo
    <3>1. "COMPLETED" \in SagaStatus /\ t \in Tx(b)
      BY <1>2 DEF SagaStatus, Terminal
    <3> QED BY ONLY <2>1, <3>1, CloseWrites
  <2>4. Peopled(b, u)
    BY <1>2, <2>3, PeopledKept
  <2>5. Hangs(b, u, e)
    BY <2>3 DEF Hangs
  <2> QED BY <1>1, <1>3, <2>2, <2>4, <2>5, LiveOver
<1>5. CASE ~ (i > Len(t.rows))
  <2>1. i \in DOMAIN t.rows
    BY ONLY <1>2, <1>5
  <2>2. t.rows[i].status = "PENDING" /\ ~ Done(t.rows[i])
    BY <1>2, <1>5 DEF Reached, Done
  <2>3. PICK u : u = Mark(t, i, "IN_PROGRESS")
    OBVIOUS
  <2>4. "IN_PROGRESS" \in Statuses /\ "SKIPPED" \in Statuses
    BY DEF Statuses
  <2>5. u \in Tx(b) /\ u.child = t.child /\ Shape(t, u) /\ u.parent = "RUNNING"
    <3>1. t \in Tx(b) /\ "IN_PROGRESS" \in Statuses /\ t.parent = "RUNNING"
      BY <1>2, <2>4
    <3> QED BY ONLY <2>1, <2>3, <3>1, MarkWrites
  <2>6. Sound(b, u) /\ Runs(u, i)
    BY <1>2, <2>1, <2>2, <2>3, <2>4, MarkSound, MarkRuns
  <2>7. EndingOk(u.child, e)
    BY <1>2, <2>5
  <2>8. Peopled(b, u)
    <3>1. Peopled(b, t) /\ t \in Tx(b)
      BY <1>2
    <3> QED BY ONLY <2>1, <2>3, <3>1, MarkPeopled
  <2>9. Manifest(u.rows[i]) = Manifest(t.rows[i]) /\ u.rows[i].node = t.rows[i].node
    BY <2>1, <2>5 DEF Manifest, Shape
  <2>10. /\ Manifest(t.rows[i]) = RowSpec(b, t.rows[i])
         /\ Manifest(t.rows[i]).kind \in {"worker", "spawn", "join"}
         /\ Manifest(t.rows[i]).kind = "spawn" <=> b[t.rows[i].node].kind = "spawn"
         /\ t.rows[i].node \in DOMAIN b
    <3>1. Fits(b, t.rows[i])
      BY <1>2, <2>1 DEF Sound, Layout, Placed
    <3> QED BY <1>1, <3>1, RowKinds DEF Fits
  <2>11. \A c \in Schedule(t, i) :
            \/ c \in Trigger(t, i)
            \/ /\ Manifest(t.rows[i]).when
               /\ \/ c \in Continue(Mark(t, i, "SKIPPED"), i)
                  \/ \E er \in EngineErrors : c = Fail(t, i, er)
    BY <1>5 DEF Schedule
  <2>12. CASE Manifest(t.rows[i]).kind = "spawn"
    <3>1. ~ Manifest(t.rows[i]).when
      <4>1. Manifest(t.rows[i]) = b[t.rows[i].node]
        BY <2>10, <2>12 DEF RowSpec
      <4> QED BY <1>1, <2>10, <2>12, <4>1 DEF OneFan
    <3>2. Trigger(t, i) = SpawnChildren(u, i)
      BY <2>3, <2>12 DEF Trigger
    <3>3. Manifest(u.rows[i]).kind = "spawn" /\ u \in Tx(blueprint) /\ Peopled(blueprint, u)
          /\ Sound(blueprint, u) /\ Runs(u, i) /\ EndingOk(u.child, e)
      BY <1>1, <2>5, <2>6, <2>7, <2>8, <2>9, <2>12
    <3>4. \A c \in SpawnChildren(u, i) : LiveCall(blueprint, e, c)
      BY <3>3, SpawnLive
    <3> QED BY <2>11, <3>1, <3>2, <3>4
  <2>13. CASE Manifest(t.rows[i]).kind # "spawn"
    <3>1. b[t.rows[i].node].kind # "spawn" /\ b[u.rows[i].node].kind # "spawn"
      BY <2>9, <2>10, <2>13
    <3>2. ASSUME NEW er \in EngineErrors
          PROVE  LiveCall(b, e, Fail(u, i, er)) /\ LiveCall(b, e, Fail(t, i, er))
      <4>1. er \in StepErrors
        BY DEF EngineErrors, StepErrors
      <4>2. i \in DOMAIN u.rows /\ Around(u, i) /\ ~ Done(u.rows[i])
        BY <2>6 DEF Runs, Done
      <4>3. LiveCall(b, e, Fail(u, i, er))
        BY <2>5, <2>6, <2>7, <2>8, <3>1, <4>1, <4>2, FailLive
      <4>4. LiveCall(b, e, Fail(t, i, er))
        BY <1>2, <2>1, <2>2, <3>1, <4>1, FailLive
      <4> QED BY <4>3, <4>4
    <3>3. ASSUME NEW c \in Trigger(t, i) PROVE LiveCall(b, e, c)
      <4>1. CASE Manifest(t.rows[i]).kind = "join"
        <5>1. Trigger(t, i) = TryJoin(u, i)
          BY <2>3, <4>1 DEF Trigger
        <5>2. Manifest(u.rows[i]).kind = "join" /\ u \in Tx(blueprint) /\ Peopled(blueprint, u)
              /\ Sound(blueprint, u) /\ Runs(u, i) /\ EndingOk(u.child, e)
          BY <1>1, <2>5, <2>6, <2>7, <2>8, <2>9, <4>1
        <5>3. \A d \in TryJoin(u, i) : LiveCall(blueprint, e, d)
          BY <5>2, TryJoinLive
        <5> QED BY <1>1, <3>3, <5>1, <5>3
      <4>2. CASE Manifest(t.rows[i]).kind = "worker"
        <5>1. Trigger(t, i) = {Over(u)} \cup {Fail(u, i, er) : er \in EngineErrors}
          BY <2>3, <4>2 DEF Trigger
        <5>2. Over(u) \in Schedule(t, i)
          BY <1>5, <5>1 DEF Schedule
        <5>3. Hangs(b, u, e)
          BY <2>5 DEF Hangs
        <5>4. LiveCall(b, e, Over(u))
          BY <1>3, <2>8, <5>2, <5>3, LiveOver
        <5> QED BY <3>2, <3>3, <5>1, <5>4
      <4> QED BY <2>10, <2>13, <4>1, <4>2
    <3>4. ASSUME NEW c \in Continue(Mark(t, i, "SKIPPED"), i) PROVE LiveCall(b, e, c)
      <4>1. PICK v : v = Mark(t, i, "SKIPPED")
        OBVIOUS
      <4>2. v \in Tx(b) /\ v.child = t.child
        <5>1. t \in Tx(b) /\ "SKIPPED" \in Statuses
          BY <1>2, <2>4
        <5> QED BY ONLY <2>1, <4>1, <5>1, MarkWrites
      <4>3. Sound(b, v) /\ Passed(b, v, i)
        BY <1>2, <2>1, <2>2, <2>4, <4>1, MarkSound, MarkPassed
      <4>4. Peopled(b, v)
        <5>1. Peopled(b, t) /\ t \in Tx(b)
          BY <1>2
        <5> QED BY ONLY <2>1, <3>1, <4>1, <5>1, MarkPeopled
      <4> QED BY <1>1, <1>2, <3>4, <4>1, <4>2, <4>3, <4>4, ContinueLive
    <3> QED BY <1>1, <2>11, <3>2, <3>3, <3>4
  <2> QED BY <2>12, <2>13
<1> QED BY <1>4, <1>5

-----------------------------------------------------------------------------
(* Unwinding *)

\* An undo begins, or is done, below every spawn step that failed.
LEMMA UndoPeopled ==
    ASSUME NEW b, NEW t \in Tx(b), NEW i \in DOMAIN t.rows, NEW x \in Undos, Peopled(b, t),
           Clear(b, t, i) \/ t.rows[i].undo # "none"
    PROVE  Peopled(b, [t EXCEPT !.rows[i].undo = x])
<1>1. PICK u : u = [t EXCEPT !.rows[i].undo = x]
  OBVIOUS
<1>2. /\ Shape(t, u) /\ u.parent = t.parent /\ u.child = t.child
      /\ \A j \in DOMAIN t.rows :
            /\ u.rows[j].status = t.rows[j].status
            /\ u.rows[j].undo = IF j = i THEN x ELSE t.rows[j].undo
  BY <1>1, UndoWrites
<1>3. \A j \in DOMAIN t.rows : u.rows[j].undo # "none" =>
         \/ t.rows[j].undo # "none"
         \/ \A k \in DOMAIN t.rows :
               b[t.rows[k].node].kind = "spawn" /\ t.rows[k].status = "FAILED" => j < k
  BY <1>2 DEF Clear
<1>4. Peopled(b, u)
  BY <1>2, <1>3, PeopledKept
<1> QED BY <1>1, <1>4

\* The children of a spawn step are waited for, and the walk goes on below it.
LEMMA CompensateSpawnLive ==
    ASSUME blueprint \in Blueprints, NEW e, NEW t \in Tx(blueprint),
           Sound(blueprint, t), EndingOk(t.child, e), Back(blueprint, t), Peopled(blueprint, t),
           NEW i \in DOMAIN t.rows, blueprint[t.rows[i].node].kind = "spawn",
           NoneBehind(blueprint) => UndoneAbove(blueprint, t, i),
           Clear(blueprint, t, i), t.rows[i].status = "COMPLETED",
           t.rows[i].undo # "COMPENSATED"
    PROVE  LiveCall(blueprint, e, CompensateSpawn(t, i))
<1>1. PICK b \in Blueprints : b = blueprint
  OBVIOUS
<1>2. GoodCall(b, e, CompensateSpawn(t, i))
  BY <1>1, CompensateSpawnGood
<1>3. PICK n : n = t.rows[i].node
  OBVIOUS
<1>4. t \in Tx(b) /\ Peopled(b, t) /\ b[n].kind = "spawn" /\ Clear(b, t, i) /\ i \in Nat
  BY <1>1, <1>3, RowTypes
<1>5. CASE ~ AllTerminal(t, n)
  <2>1. CompensateSpawn(t, i) = Over(t)
    BY <1>3, <1>5 DEF CompensateSpawn
  <2>2. KidsOf(t, n) # {}
    BY <1>3, <1>4 DEF Peopled
  <2>3. \E c \in KidsOf(t, n) : t.child[c] \notin Terminal
    BY <1>5, <2>2, TerminalKids
  <2>4. Hangs(b, t, e)
    BY <1>3, <1>4, <2>3 DEF Hangs, Blocks
  <2> QED BY <1>1, <1>2, <1>4, <2>1, <2>4, LiveOver
<1>6. CASE AllTerminal(t, n)
  <2>1. PICK u : u = [t EXCEPT !.rows[i].undo = "COMPENSATED"]
    OBVIOUS
  <2>2. CompensateSpawn(t, i) = ThenUnwind(u, i - 1)
    BY <1>3, <1>6, <2>1 DEF CompensateSpawn
  <2>3. "COMPENSATED" \in Undos
    BY DEF Undos
  <2>4. Peopled(b, u)
    BY ONLY <1>4, <2>1, <2>3, i \in DOMAIN t.rows, UndoPeopled
  <2>5. Shape(t, u) /\ \A j \in DOMAIN t.rows : u.rows[j].status = t.rows[j].status
    BY ONLY <1>4, <2>1, <2>3, i \in DOMAIN t.rows, UndoWrites
  <2>6. Clear(b, u, i - 1)
    <3>1. \A k \in DOMAIN t.rows : k \in Nat
      BY RowTypes
    <3>2. \A k \in DOMAIN t.rows :
             b[t.rows[k].node].kind = "spawn" /\ t.rows[k].status = "FAILED" => i - 1 < k
      BY <1>4, <3>1 DEF Clear
    <3> QED BY ONLY <2>5, <3>2 DEF Clear, Shape
  <2> QED BY <1>1, <1>2, <2>2, <2>4, <2>6, LiveUnwind
<1> QED BY <1>5, <1>6

\* The walk downwards stops at an undo, at children, or ends the saga.
LEMMA UnwindLive ==
    ASSUME blueprint \in Blueprints, NEW e, NEW t \in Tx(blueprint), NEW from \in Nat,
           Sound(blueprint, t), EndingOk(t.child, e), Unwinds(blueprint, t, from),
           Peopled(blueprint, t), Clear(blueprint, t, from)
    PROVE  \A c \in Unwind(t, from) : LiveCall(blueprint, e, c)
<1>1. PICK b \in Blueprints : b = blueprint
  OBVIOUS
<1>2. /\ t \in Tx(b) /\ Sound(b, t) /\ Back(b, t) /\ Placed(b, t) /\ from \in 0 .. Len(t.rows)
      /\ NoneBehind(b) => UndoneAbove(b, t, from)
      /\ Peopled(b, t) /\ Clear(b, t, from) /\ EndingOk(t.child, e)
  BY <1>1 DEF Unwinds, Sound, Layout
<1>3. \A c \in Unwind(t, from) : GoodCall(b, e, c)
  BY <1>1, UnwindGood
<1>4. PICK due : due = {i \in 1 .. from : /\ HasCompensation(t.rows[i])
                                          /\ Eligible(t.rows[i])
                                          /\ t.rows[i].undo # "COMPENSATED"}
  OBVIOUS
<1>5. /\ \A i \in ToUndo(t, from) : /\ i \in due /\ i \in DOMAIN t.rows
                                    /\ \A j \in due : j <= i
      /\ \A j \in DOMAIN t.rows :
            j <= from /\ Owed(b, t.rows[j]) /\ t.rows[j].undo # "COMPENSATED" => j \in due
  BY <1>1, <1>2, <1>4, ToUndoFacts
<1>6. from \in Nat /\ \A j \in DOMAIN t.rows : j \in Nat /\ j >= 1
  BY <1>2, RowTypes
<1>7. \A p \in {"COMPENSATED", "FAILED"} : \A u \in Tx(b) :
         Peopled(b, u) => Peopled(b, Close(u, p)) /\ Hangs(b, Close(u, p), e)
  <2> SUFFICES ASSUME NEW p \in {"COMPENSATED", "FAILED"}, NEW u \in Tx(b), Peopled(b, u)
               PROVE  Peopled(b, Close(u, p)) /\ Hangs(b, Close(u, p), e)
    OBVIOUS
  <2>1. PICK w : w = Close(u, p)
    OBVIOUS
  <2>2. p \in SagaStatus
    BY DEF SagaStatus, Terminal
  <2>3. /\ Shape(u, w) /\ w.parent = p /\ w.child = u.child
        /\ \A j \in DOMAIN u.rows :
              /\ w.rows[j].status = IF u.rows[j].status = "PENDING" THEN "SKIPPED"
                                    ELSE u.rows[j].status
              /\ w.rows[j].undo = u.rows[j].undo
    BY ONLY <2>1, <2>2, u \in Tx(b), CloseWrites
  <2>4. Peopled(b, w)
    BY ONLY <2>3, Peopled(b, u), p \in {"COMPENSATED", "FAILED"}, PeopledKept
  <2>5. Hangs(b, w, e)
    BY ONLY <2>3, p \in {"COMPENSATED", "FAILED"} DEF Hangs
  <2> QED BY <2>1, <2>4, <2>5
<1>8. CASE ToUndo(t, from) = {}
  <2>1. Unwind(t, from) = {Over(Close(t, "COMPENSATED"))}
    BY <1>8 DEF Unwind
  <2>2. Peopled(b, Close(t, "COMPENSATED")) /\ Hangs(b, Close(t, "COMPENSATED"), e)
    BY <1>2, <1>7
  <2> QED BY <1>1, <1>3, <2>1, <2>2, LiveOver
<1>9. CASE ToUndo(t, from) # {}
  <2>1. PICK i : i = CHOOSE s \in ToUndo(t, from) : TRUE
    OBVIOUS
  <2>2. i \in ToUndo(t, from)
    BY <1>9, <2>1
  <2>3. /\ i \in due /\ i \in DOMAIN t.rows /\ \A j \in due : j <= i
    BY <1>5, <2>2
  <2>4. /\ HasCompensation(t.rows[i]) /\ t.rows[i].undo # "COMPENSATED" /\ i <= from
        /\ Eligible(t.rows[i])
    BY <1>4, <1>6, <2>3
  <2>5. /\ Manifest(t.rows[i]).kind \in {"spawn", "worker"}
        /\ Manifest(t.rows[i]).kind = "spawn" <=> b[t.rows[i].node].kind = "spawn"
    <3>1. Fits(blueprint, t.rows[i])
      BY <1>1, <1>2, <2>3 DEF Placed
    <3> QED BY <1>1, <2>4, <3>1, RowKinds DEF HasCompensation
  <2>6. Clear(b, t, i)
    BY <1>2, <1>6, <2>3, <2>4 DEF Clear
  <2>7. CASE t.rows[i].undo = "COMPENSATING"
    <3>1. Unwind(t, from) = {Over(t)}
      BY <1>9, <2>1, <2>7 DEF Unwind
    <3>2. Hangs(b, t, e)
      BY <2>3, <2>7 DEF Hangs
    <3> QED BY <1>1, <1>2, <1>3, <3>1, <3>2, LiveOver
  <2>8. CASE t.rows[i].undo # "COMPENSATING" /\ Manifest(t.rows[i]).kind = "spawn"
    <3>1. Unwind(t, from) = {CompensateSpawn(t, i)}
      BY <1>9, <2>1, <2>8 DEF Unwind
    <3>2. b[t.rows[i].node].kind = "spawn"
      BY <2>5, <2>8
    <3>3. t.rows[i].status = "COMPLETED"
      <4>1. t.rows[i].status # "TIMED_OUT"
        BY <1>2, <2>3, <3>2 DEF Peopled
      <4>2. t.rows[i].status # "FAILED"
        BY <1>6, <2>3, <2>6, <3>2 DEF Clear
      <4>3. t.rows[i].status # "IN_PROGRESS"
        BY <1>2, <2>3 DEF Back
      <4> QED BY <2>4, <4>1, <4>2, <4>3 DEF Eligible
    <3>4. ASSUME NoneBehind(b) PROVE UndoneAbove(b, t, i)
      <4> SUFFICES ASSUME NEW j \in DOMAIN t.rows, j > i, Owed(b, t.rows[j])
                   PROVE  t.rows[j].undo = "COMPENSATED"
        BY DEF UndoneAbove
      <4>1. CASE j <= from
        <5>1. j \notin due
          BY <1>6, <2>3
        <5> QED BY <1>5, <4>1, <5>1
      <4>2. CASE ~ (j <= from)
        <5>1. j > from
          BY <1>6, <4>2
        <5> QED BY <1>2, <3>4, <5>1 DEF UndoneAbove
      <4> QED BY <4>1, <4>2
    <3>5. LiveCall(b, e, CompensateSpawn(t, i))
      BY <1>1, <1>2, <2>3, <2>4, <2>6, <3>2, <3>3, <3>4, CompensateSpawnLive
    <3> QED BY <1>1, <3>1, <3>5
  <2>9. CASE t.rows[i].undo # "COMPENSATING" /\ Manifest(t.rows[i]).kind # "spawn"
    <3>1. Unwind(t, from) = ScheduleUndo(t, i)
      BY <1>9, <2>1, <2>9 DEF Unwind
    <3>2. b[t.rows[i].node].kind # "spawn"
      BY <2>5, <2>9
    <3>3. PICK u : u = [t EXCEPT !.rows[i].undo = "COMPENSATING"]
      OBVIOUS
    <3>4. PICK w : w = [Mark(t, i, "FAILED") EXCEPT !.rows[i].error = "clean"]
      OBVIOUS
    <3>5. ScheduleUndo(t, i) = {Over(u), Over(Close(w, "FAILED"))}
      BY <3>3, <3>4 DEF ScheduleUndo
    <3>6. "COMPENSATING" \in Undos
      BY DEF Undos
    <3>7. Peopled(b, u)
      <4>1. t \in Tx(b) /\ Peopled(b, t) /\ i \in DOMAIN t.rows
        BY <1>2, <2>3
      <4> QED BY ONLY <2>6, <3>3, <3>6, <4>1, UndoPeopled
    <3>8. Hangs(b, u, e)
      <4>1. t \in Tx(b) /\ i \in DOMAIN t.rows
        BY <1>2, <2>3
      <4>2. i \in DOMAIN u.rows /\ u.rows[i].undo = "COMPENSATING"
        BY ONLY <3>3, <3>6, <4>1, UndoWrites DEF Shape
      <4> QED BY ONLY <4>2 DEF Hangs
    <3>9. LiveCall(b, e, Over(u))
      BY <1>3, <3>1, <3>5, <3>7, <3>8, LiveOver
    <3>10. w \in Tx(b) /\ Peopled(b, w)
      <4>1. PICK r \in Row : r = [[t.rows[i] EXCEPT !.status = "FAILED"] EXCEPT !.error = "clean"]
        <5>1. t.rows[i] \in Row
          BY <2>3, RowTypes
        <5> QED BY <5>1 DEF Row, StepErrors
      <4>2. /\ r.node = t.rows[i].node /\ r.pos = t.rows[i].pos /\ r.iter = t.rows[i].iter
            /\ r.undo = t.rows[i].undo
        <5>1. t.rows[i] \in Row
          BY <2>3, RowTypes
        <5> QED BY <4>1, <5>1 DEF Row
      <4>3. w = [t EXCEPT !.rows = [t.rows EXCEPT ![i] = r]]
        BY <2>3, <3>4, <4>1 DEF Mark, Tx
      <4>4. /\ w \in Tx(b) /\ w.parent = t.parent /\ w.child = t.child
            /\ DOMAIN w.rows = DOMAIN t.rows /\ Len(w.rows) = Len(t.rows)
            /\ \A j \in DOMAIN t.rows : w.rows[j] = IF j = i THEN r ELSE t.rows[j]
        <5>1. t \in Tx(b) /\ i \in DOMAIN t.rows
          BY <1>2, <2>3
        <5> QED BY ONLY <4>3, <5>1, r \in Row, RowWrites
      <4>5. Shape(t, w) /\ \A j \in DOMAIN t.rows : w.rows[j].undo = t.rows[j].undo
        BY ONLY <4>2, <4>4 DEF Shape
      <4>6. \A j \in DOMAIN t.rows : b[t.rows[j].node].kind = "spawn" =>
               w.rows[j].status = t.rows[j].status
        BY ONLY <3>2, <4>4
      <4>7. Peopled(b, t)
        BY <1>2
      <4> QED BY ONLY <4>4, <4>5, <4>6, <4>7, PeopledKept
    <3>11. LiveCall(b, e, Over(Close(w, "FAILED")))
      <4>1. Peopled(b, Close(w, "FAILED")) /\ Hangs(b, Close(w, "FAILED"), e)
        BY <1>7, <3>10
      <4> QED BY <1>3, <3>1, <3>5, <4>1, LiveOver
    <3> QED BY <1>1, <3>1, <3>5, <3>9, <3>11
  <2> QED BY <2>7, <2>8, <2>9
<1> QED BY <1>8, <1>9

\* Live calls end with live calls.
LEMMA StepLive ==
    ASSUME blueprint \in Blueprints, OneFan(blueprint), SpawnErrors \subseteq {"clean"},
           NEW e, NEW c, LiveCall(blueprint, e, c)
    PROVE  \A d \in Step(c) : LiveCall(blueprint, e, d)
<1>1. /\ c.todo \in {"schedule", "unwind", "return"} /\ c.tx \in Tx(blueprint) /\ c.at \in Nat
      /\ Sound(blueprint, c.tx) /\ EndingOk(c.tx.child, e) /\ Peopled(blueprint, c.tx)
  BY DEF LiveCall, GoodCall
<1>2. CASE c.todo = "schedule"
  <2>1. Step(c) = Schedule(c.tx, c.at) /\ Reached(blueprint, c.tx, c.at)
    BY <1>2 DEF Step, LiveCall, GoodCall
  <2> QED BY <1>1, <2>1, ScheduleLive
<1>3. CASE c.todo = "unwind"
  <2>1. /\ Step(c) = Unwind(c.tx, c.at) /\ Unwinds(blueprint, c.tx, c.at)
        /\ Clear(blueprint, c.tx, c.at)
    BY <1>3 DEF Step, LiveCall, GoodCall
  <2> QED BY <1>1, <2>1, UnwindLive
<1>4. CASE c.todo = "return"
  BY <1>4 DEF Step
<1> QED BY <1>1, <1>2, <1>3, <1>4

\* What a transaction may commit.
LiveTx(b, e, t) == GoodTx(b, e, t) /\ Peopled(b, t) /\ Hangs(b, t, e)

LEMMA HandlerLive ==
    ASSUME blueprint \in Blueprints, OneFan(blueprint), SpawnErrors \subseteq {"clean"},
           NEW e, NEW calls, \A c \in calls : LiveCall(blueprint, e, c)
    PROVE  \A t \in Returned(calls) : LiveTx(blueprint, e, t)
<1> DEFINE G == {c \in [todo : {"schedule", "unwind", "return"}, tx : Tx(blueprint), at : Nat] :
                    LiveCall(blueprint, e, c)}
<1>1. calls \subseteq G
  BY DEF LiveCall, GoodCall
<1>2. \A c \in G : Step(c) \subseteq G
  <2> TAKE c \in G
  <2>1. \A d \in Step(c) : LiveCall(blueprint, e, d)
    BY StepLive
  <2> QED BY <2>1 DEF LiveCall, GoodCall
<1>3. \A d \in G : d.todo = "return" => LiveTx(blueprint, e, d.tx)
  BY DEF LiveCall, GoodCall, LiveTx, GoodTx
<1> HIDE DEF G
<1>4. Returned(calls) \subseteq {d.tx : d \in {c \in G : c.todo = "return"}}
  BY ONLY <1>1, <1>2, ReturnedFrom
<1> QED BY <1>3, <1>4

-----------------------------------------------------------------------------
(* The children *)

\* A spawn step without a row that completed has no children.
LEMMA NoKids ==
    ASSUME NEW b \in Blueprints, NEW t \in Tx(b), Sound(b, t), NEW m \in DOMAIN t.rows,
           b[t.rows[m].node].kind = "spawn", t.rows[m].status # "COMPLETED"
    PROVE  KidsOf(t, t.rows[m].node) = {}
<1> SUFFICES ASSUME NEW c \in Children, c[1] = t.rows[m].node, t.child[c] # "none" PROVE FALSE
  BY DEF KidsOf
<1>1. PICK k \in DOMAIN t.rows : t.rows[k].node = t.rows[m].node /\ t.rows[k].status = "COMPLETED"
  BY DEF Sound, Born
<1>2. k = m
  BY <1>1, OneRow DEF Sound
<1> QED BY <1>1, <1>2

\* The walk is resumed at the one fan-out, or nothing is to be done.
LEMMA ResumeSpawnLive ==
    ASSUME blueprint \in Blueprints, OneFan(blueprint), NEW e, NEW t,
           GoodTx(blueprint, e, t), t.parent = "COMPENSATING",
           Peopled(blueprint, t), Halts(blueprint, t)
    PROVE  LiveCall(blueprint, e, ResumeSpawn(t))
<1>1. PICK b \in Blueprints : b = blueprint
  OBVIOUS
<1>2. /\ t \in Tx(b) /\ Sound(b, t) /\ EndingOk(t.child, e) /\ Layout(b, t)
      /\ Placed(b, t) /\ Peopled(b, t) /\ OneFan(b)
  BY <1>1 DEF GoodTx, Sound, Layout
<1>3. Back(b, t)
  BY <1>1 DEF GoodTx, Phase, Fresh, Busy, Finished, Runs, Around
<1>4. GoodCall(b, e, ResumeSpawn(t))
  BY <1>1, ResumeSpawnGood
<1>5. PICK ran : ran = {i \in DOMAIN t.rows : /\ Manifest(t.rows[i]).kind = "spawn"
                                              /\ Eligible(t.rows[i])}
  OBVIOUS
<1>6. \A j \in DOMAIN t.rows : /\ j \in Nat /\ j <= Len(t.rows) /\ Len(t.rows) \in Nat
                               /\ t.rows[j].node \in DOMAIN b
  BY <1>2, RowTypes, Numbers
<1>7. \A j \in DOMAIN t.rows : Manifest(t.rows[j]).kind = "spawn" <=> b[t.rows[j].node].kind = "spawn"
  BY <1>1, <1>2, RowKinds DEF Placed
\* There is one row of a spawn step at most.
<1>8. \A j, k \in DOMAIN t.rows :
         b[t.rows[j].node].kind = "spawn" /\ b[t.rows[k].node].kind = "spawn" => j = k
  <2> SUFFICES ASSUME NEW j \in DOMAIN t.rows, NEW k \in DOMAIN t.rows,
                      b[t.rows[j].node].kind = "spawn", b[t.rows[k].node].kind = "spawn"
               PROVE  j = k
    OBVIOUS
  <2>1. t.rows[j].node = t.rows[k].node
    BY <1>2, <1>6 DEF OneFan
  <2> QED BY <1>2, <2>1, OneRow
<1>9. PICK h \in DOMAIN t.rows : t.rows[h].undo = "COMPENSATING" \/ Blocks(b, t, h)
  BY <1>1 DEF Halts
<1>10. Blocks(b, t, h) => h \in ran
  BY <1>5, <1>7, <1>9 DEF Blocks, Eligible
<1>11. CASE ran = {}
  <2>1. ResumeSpawn(t) = Over(t)
    BY <1>5, <1>11 DEF ResumeSpawn
  <2>2. Hangs(b, t, e)
    BY <1>9, <1>10, <1>11 DEF Hangs
  <2> QED BY <1>1, <1>2, <1>4, <2>1, <2>2, LiveOver
<1>12. CASE ran # {}
  <2>1. PICK m \in ran : TRUE
    BY <1>12
  <2>2. /\ m \in DOMAIN t.rows /\ b[t.rows[m].node].kind = "spawn" /\ Eligible(t.rows[m])
        /\ m \in Nat
    BY <1>5, <1>6, <1>7, <2>1
  <2>3. ran = {m}
    BY <1>5, <1>7, <1>8, <2>1, <2>2
  <2>4. Max(ran) = m
    <3>1. \A x \in {m} : m >= x
      BY <2>2
    <3> QED BY ONLY <2>3, <3>1 DEF Max
  <2>5. CASE t.rows[m].undo = "COMPENSATED"
    <3>1. ResumeSpawn(t) = Over(t)
      BY <1>5, <2>4, <2>5 DEF ResumeSpawn
    <3>2. ~ Blocks(b, t, h)
      BY <1>10, <2>3, <2>5 DEF Blocks
    <3>3. Hangs(b, t, e)
      BY <1>9, <3>2 DEF Hangs
    <3> QED BY <1>1, <1>2, <1>4, <3>1, <3>3, LiveOver
  <2>6. CASE t.rows[m].undo # "COMPENSATED" /\ t.rows[m].status # "COMPLETED"
    <3>1. KidsOf(t, t.rows[m].node) = {}
      BY <1>2, <2>2, <2>6, NoKids
    <3>2. ResumeSpawn(t) = CompensateSpawn(t, m)
      BY <1>5, <1>12, <2>4, <2>6 DEF ResumeSpawn
    <3>3. CompensateSpawn(t, m) = Over(t)
      BY <3>1, TerminalKids DEF CompensateSpawn
    <3>4. ~ Blocks(b, t, h)
      BY <1>10, <2>3, <2>6 DEF Blocks
    <3>5. Hangs(b, t, e)
      BY <1>9, <3>4 DEF Hangs
    <3> QED BY <1>1, <1>2, <1>4, <3>2, <3>3, <3>5, LiveOver
  <2>7. CASE t.rows[m].undo # "COMPENSATED" /\ t.rows[m].status = "COMPLETED"
    <3>1. ResumeSpawn(t) = CompensateSpawn(t, m)
      BY <1>5, <1>12, <2>4, <2>7 DEF ResumeSpawn
    <3>2. CASE ~ AllTerminal(t, t.rows[m].node)
      <4>1. CompensateSpawn(t, m) = Over(t)
        BY <3>2 DEF CompensateSpawn
      <4>2. KidsOf(t, t.rows[m].node) # {}
        BY <1>2, <2>2, <2>7 DEF Peopled
      <4>3. \E c \in KidsOf(t, t.rows[m].node) : t.child[c] \notin Terminal
        BY <3>2, <4>2, TerminalKids
      <4>4. Hangs(b, t, e)
        BY <2>2, <2>7, <4>3 DEF Hangs, Blocks
      <4> QED BY <1>1, <1>2, <1>4, <3>1, <4>1, <4>4, LiveOver
    <3>3. CASE AllTerminal(t, t.rows[m].node)
      <4>1. PICK u : u = [t EXCEPT !.rows[m].undo = "COMPENSATED"]
        OBVIOUS
      <4>2. CompensateSpawn(t, m) = ThenUnwind(u, m - 1)
        BY <3>3, <4>1 DEF CompensateSpawn
      \* The one row of a spawn step has not failed.
      <4>3. \A k \in DOMAIN t.rows :
               ~ (b[t.rows[k].node].kind = "spawn" /\ t.rows[k].status = "FAILED")
        BY <1>8, <2>2, <2>7
      <4>4. "COMPENSATED" \in Undos
        BY DEF Undos
      <4>5. Clear(b, t, m)
        BY ONLY <4>3 DEF Clear
      <4>6. Peopled(b, u)
        BY ONLY <1>2, <2>2, <4>1, <4>4, <4>5, UndoPeopled
      <4>7. Shape(t, u) /\ \A j \in DOMAIN t.rows : u.rows[j].status = t.rows[j].status
        BY ONLY <1>2, <2>2, <4>1, <4>4, UndoWrites
      <4>8. Clear(b, u, m - 1)
        BY ONLY <4>3, <4>7 DEF Clear, Shape
      <4> QED BY <1>1, <1>4, <3>1, <4>2, <4>6, <4>8, LiveUnwind
    <3> QED BY <3>2, <3>3
  <2> QED BY <2>5, <2>6, <2>7
<1> QED BY <1>11, <1>12

\* The parent is woken by a child that has ended.
LEMMA OnChildTerminalLive ==
    ASSUME blueprint \in Blueprints, OneFan(blueprint), SpawnErrors \subseteq {"clean"},
           NEW e, NEW t \in Tx(blueprint), NEW c,
           Sound(blueprint, t), EndingOk(t.child, e), Phase(blueprint, t),
           Peopled(blueprint, t), Halts(blueprint, t)
    PROVE  \A u \in OnChildTerminal(t, c) : LiveTx(blueprint, e, u)
<1> DEFINE tried == IF Parked(t) = {} THEN {t} ELSE Returned(TryJoin(t, Min(Parked(t))))
           woken == {IF u.parent = "COMPENSATING" THEN ResumeSpawn(u) ELSE Over(u) : u \in tried}
<1>1. OnChildTerminal(t, c) = Returned(woken)
  BY DEF OnChildTerminal
<1>2. \A u \in tried : GoodTx(blueprint, e, u) /\ Peopled(blueprint, u) /\ Halts(blueprint, u)
  <2>1. CASE Parked(t) = {}
    <3>1. \A j \in DOMAIN t.rows : ~ (/\ blueprint[t.rows[j].node].kind = "join"
                                      /\ t.rows[j].status = "IN_PROGRESS")
      BY <2>1, RowKinds DEF Parked, Sound, Layout, Placed
    <3>2. Waits(blueprint, t, e)
      BY <3>1 DEF Waits
    <3> QED BY <2>1, <3>2 DEF GoodTx
  <2>2. CASE Parked(t) # {}
    <3>1. PICK k \in DOMAIN t.rows : /\ Min(Parked(t)) = k
                                     /\ Runs(t, k) /\ Manifest(t.rows[k]).kind = "join"
      BY <2>2, ParkedFacts
    <3>2. \A d \in TryJoin(t, k) : LiveCall(blueprint, e, d)
      BY <3>1, TryJoinLive
    <3>3. tried = Returned(TryJoin(t, k))
      BY <2>2, <3>1
    <3>4. \A u \in tried : LiveTx(blueprint, e, u)
      BY <3>2, <3>3, HandlerLive
    <3> QED BY <3>4 DEF LiveTx, Hangs, Halts
  <2> QED BY <2>1, <2>2
<1> HIDE DEF tried
<1>3. ASSUME NEW u \in tried
      PROVE  LiveCall(blueprint, e, IF u.parent = "COMPENSATING" THEN ResumeSpawn(u) ELSE Over(u))
  <2>1. GoodTx(blueprint, e, u) /\ Peopled(blueprint, u) /\ Halts(blueprint, u)
    BY <1>2
  <2>2. GoodCall(blueprint, e, Over(u))
    BY <2>1, GoodOver DEF GoodTx
  <2>3. u.parent # "COMPENSATING" => LiveCall(blueprint, e, Over(u))
    BY <2>1, <2>2, LiveOver DEF Hangs
  <2>4. u.parent = "COMPENSATING" => LiveCall(blueprint, e, ResumeSpawn(u))
    BY <2>1, ResumeSpawnLive
  <2> QED BY <2>3, <2>4
<1>4. \A d \in woken : LiveCall(blueprint, e, d)
  BY <1>3
<1> HIDE DEF woken
<1> QED BY <1>1, <1>4, HandlerLive

-----------------------------------------------------------------------------
(* The actions *)

LEMMA InitStall == Init => StallInv
<1> SUFFICES ASSUME Init PROVE StallInv
  OBVIOUS
<1>1. PICK b \in Blueprints : b = blueprint
  BY DEF Init
<1>2. Db = [parent |-> "PENDING", rows |-> Segment(b, 1), cursor |-> CursorAfter(b, 1),
            loops |-> InitialLoops(b), child |-> [c \in Children |-> "none"]]
  BY <1>1 DEF Init, Db
<1>3. Fresh(Db)
  BY <1>2, BeginGood
<1>4. PICK d : d = Db
  OBVIOUS
<1>5. Fresh(d)
  BY ONLY <1>3, <1>4
<1>6. Peopled(b, d) /\ Hangs(b, d, ending)
  BY ONLY <1>5 DEF Fresh, Quiet, Peopled, Hangs
<1> QED BY <1>1, <1>4, <1>6 DEF StallInv

\* What a handler of the parent may commit keeps the invariant.
LEMMA LiveCommitted ==
    ASSUME NEW t \in Tx(blueprint), Peopled(blueprint, t), Hangs(blueprint, t, ending'),
           Commit(t), blueprint' = blueprint
    PROVE  StallInv'
<1>1. Db' = t
  BY DEF Commit, Db, Tx
<1> QED BY <1>1 DEF StallInv

LEMMA LiveHandled ==
    ASSUME FlowInv, OneFan(blueprint), SpawnErrors \subseteq {"clean"},
           NEW calls, \A c \in calls : LiveCall(blueprint, ending, c),
           NEW t \in Returned(calls), Commit(t), UNCHANGED <<blueprint, ending>>
    PROVE  StallInv'
<1>1. LiveTx(blueprint, ending, t)
  BY DbGood, HandlerLive
<1>2. t \in Tx(blueprint) /\ Peopled(blueprint, t) /\ Hangs(blueprint, t, ending')
  BY <1>1 DEF LiveTx, GoodTx
<1> QED BY <1>2, LiveCommitted

LEMMA StartStall ==
    ASSUME FlowInv, StallInv, OneFan(blueprint), SpawnErrors \subseteq {"clean"}, Start
    PROVE  StallInv'
<1>1. PICK u : u = [Db EXCEPT !.parent = "RUNNING"]
  OBVIOUS
<1>2. PICK d : d = Db
  OBVIOUS
<1>3. d \in Tx(blueprint) /\ d.parent = "PENDING" /\ Peopled(blueprint, d)
  BY <1>2, DbGood DEF Start, StallInv
<1>4. u.rows = d.rows /\ u.child = d.child
  BY ONLY <1>1, <1>2, <1>3 DEF Tx
<1>5. Peopled(blueprint, u)
  BY ONLY <1>3, <1>4, PeopledSame
<1>6. GoodCall(blueprint, ending, ThenSchedule(u, 1))
  BY <1>1, StartGood DEF Start
<1>7. LiveCall(blueprint, ending, ThenSchedule(u, 1))
  BY <1>5, <1>6, LiveSchedule
<1>8. PICK t \in Returned({ThenSchedule(u, 1)}) : Commit(t)
  BY <1>1 DEF Start
<1> QED BY <1>7, <1>8, LiveHandled DEF Start

LEMMA StepCompletedStall ==
    ASSUME FlowInv, StallInv, OneFan(blueprint), SpawnErrors \subseteq {"clean"},
           NEW i \in DOMAIN rows, StepCompleted(i)
    PROVE  StallInv'
<1>1. rows[i].status = "IN_PROGRESS" /\ Manifest(rows[i]).kind = "worker"
  BY DEF StepCompleted
<1>2. Runs(Db, i) /\ i \in DOMAIN Db.rows /\ Db.rows[i] = rows[i]
  BY <1>1, RunningRow
<1>3. blueprint[Db.rows[i].node].kind \notin {"join", "spawn"}
  BY <1>1, <1>2, DbGood, RowKinds DEF Sound, Layout, Placed
<1>4. \A c \in Finalize(Db, i) : LiveCall(blueprint, ending, c)
  BY <1>2, <1>3, DbGood, FinalizeLive DEF StallInv
<1>5. PICK t \in Returned(Finalize(Db, i)) : Commit(t)
  BY DEF StepCompleted
<1> QED BY <1>4, <1>5, LiveHandled DEF StepCompleted

LEMMA StepFailedStall ==
    ASSUME FlowInv, StallInv, OneFan(blueprint), SpawnErrors \subseteq {"clean"},
           NEW i \in DOMAIN rows, StepFailed(i)
    PROVE  StallInv'
<1>1. PICK er \in StepErrors : \E t \in Returned({Fail(Db, i, er)}) : Commit(t)
  BY DEF StepFailed
<1>2. rows[i].status = "IN_PROGRESS" /\ Manifest(rows[i]).kind = "worker"
  BY DEF StepFailed
<1>3. Runs(Db, i) /\ i \in DOMAIN Db.rows /\ Db.rows[i] = rows[i]
  BY <1>2, RunningRow
<1>4. Around(Db, i) /\ ~ Done(Db.rows[i])
  BY <1>3 DEF Runs, Done
<1>5. blueprint[Db.rows[i].node].kind # "spawn"
  BY <1>2, <1>3, DbGood, RowKinds DEF Sound, Layout, Placed
<1>6. LiveCall(blueprint, ending, Fail(Db, i, er))
  BY <1>3, <1>4, <1>5, DbGood, FailLive DEF StallInv
<1>7. PICK t \in Returned({Fail(Db, i, er)}) : Commit(t)
  BY <1>1
<1> QED BY <1>6, <1>7, LiveHandled DEF StepFailed

LEMMA RetryJoinStall ==
    ASSUME FlowInv, StallInv, OneFan(blueprint), SpawnErrors \subseteq {"clean"},
           NEW i \in DOMAIN rows, RetryJoin(i)
    PROVE  StallInv'
<1>1. Runs(Db, i) /\ Db.rows[i] = rows[i] /\ Manifest(rows[i]).kind = "join"
  BY RunningRow DEF RetryJoin
<1>2. \A c \in TryJoin(Db, i) : LiveCall(blueprint, ending, c)
  BY <1>1, DbGood, TryJoinLive DEF StallInv
<1>3. PICK t \in Returned(TryJoin(Db, i)) : Commit(t)
  BY DEF RetryJoin
<1> QED BY <1>2, <1>3, LiveHandled DEF RetryJoin

\* A spawn step that failed stands behind every row that has an undo.
LEMMA ClearBelow ==
    ASSUME NEW b, NEW t \in Tx(b), NEW i \in DOMAIN t.rows, t.rows[i].undo # "none",
           Peopled(b, t)
    PROVE  Clear(b, t, i) /\ Clear(b, t, i - 1)
<1>1. \A k \in DOMAIN t.rows : k \in Nat
  BY RowTypes
<1>2. \A k \in DOMAIN t.rows : b[t.rows[k].node].kind = "spawn" /\ t.rows[k].status = "FAILED" => i < k
  BY ONLY i \in DOMAIN t.rows, t.rows[i].undo # "none", Peopled(b, t) DEF Peopled
<1> QED BY ONLY <1>1, <1>2, i \in DOMAIN t.rows DEF Clear

LEMMA StepCompensatedStall ==
    ASSUME FlowInv, StallInv, OneFan(blueprint), SpawnErrors \subseteq {"clean"},
           NEW i \in DOMAIN rows, StepCompensated(i)
    PROVE  StallInv'
<1>1. PICK b \in Blueprints : b = blueprint
  BY DbGood
<1>2. PICK d : d = Db
  OBVIOUS
<1>3. /\ d \in Tx(b) /\ i \in DOMAIN d.rows /\ d.rows[i].undo # "none" /\ Peopled(b, d)
      /\ "COMPENSATED" \in Undos
  BY <1>1, <1>2, DbGood DEF StepCompensated, StallInv, Undos
<1>4. PICK u : u = [d EXCEPT !.rows[i].undo = "COMPENSATED"]
  OBVIOUS
<1>5. Clear(b, d, i - 1)
  BY ONLY <1>3, ClearBelow
<1>6. Peopled(b, u)
  BY ONLY <1>3, <1>4, UndoPeopled
<1>7. Shape(d, u) /\ \A j \in DOMAIN d.rows : u.rows[j].status = d.rows[j].status
  BY ONLY <1>3, <1>4, UndoWrites
<1>8. Clear(b, u, i - 1)
  BY ONLY <1>5, <1>7 DEF Clear, Shape
<1>9. GoodCall(blueprint, ending, ThenUnwind(u, i - 1))
  BY <1>2, <1>4, UndoneGood DEF StepCompensated
<1>10. LiveCall(blueprint, ending, ThenUnwind(u, i - 1))
  BY <1>1, <1>6, <1>8, <1>9, LiveUnwind
<1>11. PICK t \in Returned({ThenUnwind(u, i - 1)}) : Commit(t)
  BY <1>2, <1>4 DEF StepCompensated
<1> QED BY <1>10, <1>11, LiveHandled DEF StepCompensated

LEMMA CompensationFailedStall ==
    ASSUME FlowInv, StallInv, NEW i \in DOMAIN rows, CompensationFailed(i)
    PROVE  StallInv'
<1>1. PICK b \in Blueprints : b = blueprint
  BY DbGood
<1>2. PICK d : d = Db
  OBVIOUS
<1>3. /\ d \in Tx(b) /\ i \in DOMAIN d.rows /\ d.rows[i].undo # "none" /\ Peopled(b, d)
      /\ "FAILED" \in Undos /\ "FAILED" \in SagaStatus
  BY <1>1, <1>2, DbGood DEF CompensationFailed, StallInv, Undos, SagaStatus, Terminal
<1>4. PICK u : u = [d EXCEPT !.rows[i].undo = "FAILED"]
  OBVIOUS
<1>5. u \in Tx(b) /\ Peopled(b, u)
  BY ONLY <1>3, <1>4, UndoPeopled, UndoWrites
<1>6. PICK t : t = Close(u, "FAILED")
  OBVIOUS
<1>7. /\ t \in Tx(b) /\ Shape(u, t) /\ t.parent = "FAILED" /\ t.child = u.child
      /\ \A j \in DOMAIN u.rows :
            /\ t.rows[j].status = IF u.rows[j].status = "PENDING" THEN "SKIPPED"
                                  ELSE u.rows[j].status
            /\ t.rows[j].undo = u.rows[j].undo
  BY ONLY <1>3, <1>5, <1>6, CloseWrites
<1>8. Peopled(b, t)
  <2>1. t.parent \notin {"PENDING", "RUNNING"}
    BY ONLY <1>7
  <2>2. \A j \in DOMAIN u.rows : \/ t.rows[j].status = u.rows[j].status
                                 \/ t.rows[j].status = "SKIPPED"
    BY ONLY <1>7
  <2>3. \A j \in DOMAIN u.rows : t.rows[j].undo # "none" => u.rows[j].undo # "none"
    BY ONLY <1>7
  <2> QED BY ONLY <1>5, <1>7, <2>1, <2>2, <2>3, PeopledKept
<1>9. Hangs(b, t, ending')
  BY ONLY <1>7 DEF Hangs
<1>10. Commit(t) /\ blueprint' = blueprint
  BY <1>2, <1>4, <1>6 DEF CompensationFailed
<1> QED BY <1>1, <1>7, <1>8, <1>9, <1>10, LiveCommitted

\* A child that has not ended goes on not to have ended.
LEMMA LiveKept ==
    ASSUME NEW b, NEW t, NEW u, NEW e, NEW f, Peopled(b, t), Hangs(b, t, e),
           u.rows = t.rows, u.parent = t.parent,
           \A c \in Children : /\ u.child[c] # "none" <=> t.child[c] # "none"
                               /\ t.child[c] \notin Terminal \/ e[c] # "none" =>
                                     u.child[c] \notin Terminal \/ f[c] # "none"
    PROVE  Peopled(b, u) /\ Hangs(b, u, f)
<1>1. \A n : KidsOf(u, n) = KidsOf(t, n)
  BY DEF KidsOf
<1>2. \A n : \A c \in KidsOf(t, n) : c \in Children
  BY DEF KidsOf
<1>3. Peopled(b, u)
  BY <1>1 DEF Peopled
<1>4. Hangs(b, u, f)
  BY <1>1, <1>2 DEF Hangs, Blocks
<1> QED BY <1>3, <1>4

LEMMA ChildGoesOn ==
    ASSUME StallInv, UNCHANGED <<blueprint, parent, rows>>,
           \A c \in Children : /\ child'[c] # "none" <=> child[c] # "none"
                               /\ child[c] \notin Terminal \/ ending[c] # "none" =>
                                     child'[c] \notin Terminal \/ ending'[c] # "none"
    PROVE  StallInv'
<1>1. /\ Db'.rows = Db.rows /\ Db'.parent = Db.parent
      /\ Db'.child = child' /\ Db.child = child
  BY DEF Db
<1>2. Peopled(blueprint, Db') /\ Hangs(blueprint, Db', ending')
  BY <1>1, LiveKept DEF StallInv
<1> QED BY <1>2 DEF StallInv

LEMMA ChildMovesStall ==
    ASSUME FlowInv, StallInv, NEW c \in Children, ChildUnwinds(c) \/ ChildReopened(c)
    PROVE  StallInv'
<1>1. child[c] # "none" /\ child' = [child EXCEPT ![c] = "COMPENSATING"]
  BY DEF ChildUnwinds, ChildReopened
<1>2. \A d \in Children : child'[d] = IF d = c THEN "COMPENSATING" ELSE child[d]
  BY <1>1, ChildThere
<1>3. "COMPENSATING" \notin Terminal
  BY DEF Terminal
<1>4. UNCHANGED <<blueprint, parent, rows, ending>>
  BY DEF ChildUnwinds, ChildReopened
<1> QED BY <1>1, <1>2, <1>3, <1>4, ChildGoesOn

LEMMA EndingMovesStall ==
    ASSUME FlowInv, StallInv, NEW c \in Children, ChildEnds(c) \/ ChildRollsBack(c)
    PROVE  StallInv'
<1>1. child[c] \in {"RUNNING", "COMPENSATING"}
  BY ChildThere DEF ChildEnds, ChildRollsBack, Outcomes
<1>2. PICK o : ending' = [ending EXCEPT ![c] = o]
  BY DEF ChildEnds, ChildRollsBack
<1>3. \A d \in Children : d # c => ending'[d] = ending[d]
  BY <1>2, ChildThere
<1>4. child[c] \notin Terminal
  BY <1>1 DEF Terminal
<1>5. UNCHANGED <<blueprint, parent, rows, child>>
  BY DEF ChildEnds, ChildRollsBack
<1> QED BY <1>3, <1>4, <1>5, ChildGoesOn

\* The last child may have ended: the parent is woken.
LEMMA ChildCommitsStall ==
    ASSUME FlowInv, StallInv, OneFan(blueprint), SpawnErrors \subseteq {"clean"},
           NEW c \in Children, ChildCommits(c)
    PROVE  StallInv'
<1>1. PICK u : u = [Db EXCEPT !.child[c] = ending[c]]
  OBVIOUS
<1>2. PICK e : e = [ending EXCEPT ![c] = "none"]
  OBVIOUS
<1>3. PICK d : d = Db
  OBVIOUS
<1>4. /\ u \in Tx(blueprint) /\ Sound(blueprint, u) /\ Phase(blueprint, u)
      /\ EndingOk(u.child, e) /\ u.parent = parent /\ u.rows = rows
      /\ u.child = [child EXCEPT ![c] = ending[c]]
  BY <1>1, <1>2, ChildEnded DEF ChildCommits
<1>5. /\ u.rows = d.rows /\ u.parent = d.parent
      /\ Peopled(blueprint, d) /\ Hangs(blueprint, d, ending)
  BY <1>3, <1>4, DbGood DEF StallInv
<1>6. \A k \in Children : u.child[k] # "none" <=> d.child[k] # "none"
  <2>1. child[c] # "none" /\ ending[c] # "none"
    BY ChildThere DEF ChildCommits
  <2>2. child \in [Children -> SagaStatus \cup {"none"}] /\ d.child = child
    BY <1>3, ChildThere, DbGood
  <2> QED BY <1>4, <2>1, <2>2
<1>7. Peopled(blueprint, u)
  <2>1. \A n : KidsOf(u, n) = KidsOf(d, n)
    BY ONLY <1>6 DEF KidsOf
  <2> QED BY ONLY <1>5, <2>1 DEF Peopled
<1>8. Halts(blueprint, u)
  BY ONLY <1>5 DEF Hangs, Halts, Blocks
<1>9. PICK t \in OnChildTerminal(u, c) : Commit(t)
  BY <1>1 DEF ChildCommits
<1>10. LiveTx(blueprint, e, t)
  BY <1>4, <1>7, <1>8, <1>9, DbGood, OnChildTerminalLive
<1>11. e = ending' /\ blueprint' = blueprint
  BY <1>2 DEF ChildCommits
<1> QED BY <1>9, <1>10, <1>11, LiveCommitted DEF LiveTx, GoodTx

LEMMA NextStall ==
    ASSUME SpawnErrors \subseteq {"clean"}, \A b \in Blueprints : OneFan(b),
           FlowInv, StallInv, [Next]_vars
    PROVE  StallInv'
<1>1. OneFan(blueprint)
  BY DbGood
<1>2. CASE Start
  BY <1>1, <1>2, StartStall
<1>3. ASSUME NEW i \in DOMAIN rows,
             \/ StepCompleted(i) \/ StepFailed(i) \/ StepCompensated(i)
             \/ CompensationFailed(i) \/ RetryJoin(i)
      PROVE  StallInv'
  BY <1>1, <1>3, StepCompletedStall, StepFailedStall, StepCompensatedStall,
     CompensationFailedStall, RetryJoinStall
<1>4. ASSUME NEW c \in Children,
             \/ ChildUnwinds(c) \/ ChildEnds(c) \/ ChildCommits(c)
             \/ ChildRollsBack(c) \/ ChildReopened(c)
      PROVE  StallInv'
  BY <1>1, <1>4, ChildMovesStall, EndingMovesStall, ChildCommitsStall
<1>5. CASE UNCHANGED vars
  BY <1>5 DEF vars, StallInv, Db
<1> QED BY <1>2, <1>3, <1>4, <1>5 DEF Next

-----------------------------------------------------------------------------
(* The theorem *)

\* The spawn step of a join that runs has completed, and has children.
LEMMA JoinHasKids ==
    ASSUME NEW b \in Blueprints, OneFan(b), NEW t, Sound(b, t), Peopled(b, t),
           NEW i, Runs(t, i), b[t.rows[i].node].kind = "join"
    PROVE  KidsOf(t, b[t.rows[i].node].of) # {}
<1>1. PICK of : of = b[t.rows[i].node].of
  OBVIOUS
<1>2. /\ i \in DOMAIN t.rows /\ t \in Tx(b) /\ Sorted(t) /\ Covered(b, t) /\ Placed(b, t)
      /\ Around(t, i)
  BY DEF Runs, Sound, Layout
<1>3. /\ \A j \in DOMAIN t.rows : /\ j \in Nat
                                  /\ t.rows[j].node \in DOMAIN b /\ t.rows[j].node \in Nat
      /\ t.cursor \in Nat
  BY <1>2, RowTypes, BlueprintFacts DEF Tx, Placed, Fits
<1>4. of \in DOMAIN b /\ of \in Nat /\ of >= 1 /\ b[of].kind = "spawn" /\ of < t.rows[i].node
  <2>1. of \in DOMAIN b /\ b[of].kind = "spawn"
    BY <1>1, <1>2, <1>3, BlueprintAssumption DEF WellFormed
  <2>2. of < t.rows[i].node
    BY <1>1, <1>2, <1>3 DEF OneFan
  <2> QED BY <2>1, <2>2, BlueprintFacts
<1>5. t.rows[i].node < t.cursor
  BY <1>2 DEF Covered
<1>6. of \in 1 .. t.cursor - 1
  BY ONLY <1>2, <1>3, <1>4, <1>5
<1>7. PICK k \in DOMAIN t.rows : t.rows[k].node = of
  BY <1>2, <1>6 DEF Covered
<1>8. k < i
  <2>1. k # i
    BY <1>2, <1>3, <1>4, <1>7
  <2>2. ~ (i < k)
    <3>1. i < k => Before(t.rows[i], t.rows[k])
      BY ONLY <1>2, <1>7 DEF Sorted
    <3>2. ~ Before(t.rows[i], t.rows[k])
      BY ONLY <1>2, <1>3, <1>4, <1>7 DEF Before
    <3> QED BY ONLY <3>1, <3>2
  <2> QED BY ONLY <1>2, <1>3, <1>7, <2>1, <2>2
<1>9. Done(t.rows[k]) /\ t.parent = "RUNNING"
  BY ONLY <1>2, <1>7, <1>8 DEF Around
<1>10. t.rows[k].status # "SKIPPED" /\ (t.rows[k].status = "COMPLETED" => KidsOf(t, of) # {})
  BY <1>4, <1>7, <1>9 DEF Peopled
<1> QED BY <1>1, <1>9, <1>10 DEF Done

\* A saga does not stop half-way.  When no step and no undo is out and no child
\* is under way, the saga has ended: an undo that waits for its children
\* (compensate_spawn_sagas_forward, maybe_resume_spawn_compensation) and a join
\* that is parked (park_or_complete_join, on_child_saga_terminal) are woken by
\* the last child that ends, whatever the order in which children end, roll
\* back or are reopened.
THEOREM NeverStuck ==
    ASSUME SpawnErrors \subseteq {"clean"}, \A b \in Blueprints : OneFan(b)
    PROVE  Spec => []NothingIsStuck
<1>1. FlowInv /\ StallInv => NothingIsStuck
  <2> SUFFICES ASSUME FlowInv, StallInv, parent # "PENDING",
                      \A i \in DOMAIN rows :
                         /\ rows[i].undo # "COMPENSATING"
                         /\ rows[i].status = "IN_PROGRESS" => Manifest(rows[i]).kind # "worker",
                      \A c \in Children : child[c] \in Terminal \cup {"none"} /\ ending[c] = "none"
               PROVE  parent \in Terminal
    BY DEF NothingIsStuck
  <2>1. PICK b \in Blueprints : b = blueprint
    BY DbGood
  <2>2. PICK d : d = Db
    OBVIOUS
  <2>3. /\ d \in Tx(b) /\ Sound(b, d) /\ Phase(b, d) /\ Waits(b, d, ending) /\ Placed(b, d)
        /\ d.parent = parent /\ d.rows = rows /\ d.child = child
        /\ Peopled(b, d) /\ Hangs(b, d, ending) /\ OneFan(b)
    BY <2>1, <2>2, DbGood DEF StallInv, Sound, Layout
  \* No child is under way.
  <2>4. \A n : \A c \in KidsOf(d, n) : d.child[c] \in Terminal /\ ending[c] = "none"
    BY <2>3 DEF KidsOf
  <2>5. ~ Fresh(d)
    BY <2>3 DEF Fresh
  <2>6. ~ Busy(b, d)
    <3> SUFFICES ASSUME NEW i \in DOMAIN d.rows, Runs(d, i),
                        RowSpec(b, d.rows[i]).kind \in {"worker", "join"}
                 PROVE  FALSE
      BY DEF Busy
    <3>1. /\ rows[i].status = "IN_PROGRESS" /\ Manifest(rows[i]) = RowSpec(b, d.rows[i])
          /\ Manifest(rows[i]).kind = "join" <=> b[d.rows[i].node].kind = "join"
      BY <2>1, <2>3, RowKinds DEF Placed, Runs
    <3>2. b[d.rows[i].node].kind = "join"
      BY <2>3, <3>1
    <3>3. KidsOf(d, b[d.rows[i].node].of) # {}
      BY <2>3, <3>2, JoinHasKids
    <3>4. \E c \in KidsOf(d, b[d.rows[i].node].of) : d.child[c] \notin Terminal \/ ending[c] # "none"
      BY <2>3, <3>1, <3>2, <3>3 DEF Waits
    <3> QED BY <2>4, <3>4
  <2>7. Finished(b, d) => parent \in Terminal
    BY <2>3 DEF Finished, Terminal
  <2>8. Back(b, d) => parent \in Terminal
    <3>1. parent # "COMPENSATING"
      BY <2>3, <2>4 DEF Hangs
    <3> QED BY <2>3, <3>1 DEF Back, Terminal
  <2> QED BY <2>3, <2>5, <2>6, <2>7, <2>8 DEF Phase
<1>2. FlowInv /\ StallInv /\ [Next]_vars => StallInv'
  BY NextStall
<1> QED BY <1>1, <1>2, AlwaysFlow, InitStall, PTL DEF Spec

=============================================================================
