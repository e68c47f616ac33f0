--------------------------- MODULE SagaFlowProofs ---------------------------
(***************************************************************************)
(* Theorems about the unfolding of a blueprint in SagaFlow: the rows a     *)
(* saga has, the passes of its loops, the joins that wait for children,    *)
(* and the order of undos.  They hold for any set of deployable            *)
(* blueprints, any items and any way a spawn step may fail; those about    *)
(* undos ask for blueprints with nothing to undo behind a fan-out.         *)
(***************************************************************************)
EXTENDS SagaFlow, TLAPS, FiniteSetTheorems, SequenceTheorems

-----------------------------------------------------------------------------
(* Induction over the naturals, as a fact about sets of naturals *)

\* A set of naturals has a least element.
LEMMA LeastOf ==
    ASSUME NEW T \in SUBSET Nat, T # {}
    PROVE  \E x \in T : \A y \in T : x <= y
<1> DEFINE D == {1 .. n : n \in T}
<1>1. D \subseteq FiniteSubsetsOf(Nat) /\ D # {}
  <2>1. \A n \in T : 1 .. n \in SUBSET Nat /\ IsFiniteSet(1 .. n)
    BY FS_Interval
  <2> QED BY <2>1 DEF FiniteSubsetsOf
<1>2. PICK x \in D : \A y \in D : <<y, x>> \notin StrictSubsetOrdering(Nat)
  <2>1. IsWellFoundedOn(StrictSubsetOrdering(Nat), FiniteSubsetsOf(Nat))
    BY FS_StrictSubsetOrderingWellFounded
  <2> HIDE DEF D
  <2> QED BY <1>1, <2>1, WFMin
<1>3. PICK m \in T : x = 1 .. m
  OBVIOUS
<1>4. ASSUME NEW k \in T PROVE m <= k
  <2> SUFFICES ASSUME k < m PROVE FALSE
    OBVIOUS
  <2>1. 1 .. k \subseteq 1 .. m /\ 1 .. k # 1 .. m
    <3>1. m \in 1 .. m /\ m \notin 1 .. k
      OBVIOUS
    <3> QED BY <3>1
  <2>2. <<1 .. k, 1 .. m>> \in StrictSubsetOrdering(Nat)
    BY <2>1 DEF StrictSubsetOrdering
  <2> QED BY <1>2, <1>3, <2>2
<1> QED BY <1>4

\* A set with 0 that is closed under successor has every natural.
LEMMA Inductive ==
    ASSUME NEW T, 0 \in T, \A n \in Nat : n \in T => n + 1 \in T
    PROVE  \A n \in Nat : n \in T
<1> SUFFICES ASSUME Nat \ T # {} PROVE FALSE
  OBVIOUS
<1>1. PICK x \in Nat \ T : \A y \in Nat \ T : x <= y
  BY LeastOf
<1>2. x # 0 /\ x - 1 \in Nat /\ x - 1 \in T
  BY <1>1
<1> QED BY <1>1, <1>2

\* A nonempty set of naturals below a bound has a greatest element.
LEMMA GreatestOf ==
    ASSUME NEW n \in Nat, NEW T \in SUBSET (0 .. n), T # {}
    PROVE  \E x \in T : \A y \in T : y <= x
<1> DEFINE D == {n - y : y \in T}
<1>1. D \in SUBSET Nat /\ D # {}
  <2>1. \A y \in T : n - y \in Nat
    OBVIOUS
  <2>2. D \in SUBSET Nat
    BY <2>1
  <2>3. PICK y \in T : TRUE
    OBVIOUS
  <2>4. n - y \in D
    OBVIOUS
  <2> QED BY <2>2, <2>4
<1>2. PICK d \in D : \A y \in D : d <= y
  <2> HIDE DEF D
  <2> QED BY <1>1, LeastOf
<1>3. PICK x \in T : d = n - x
  OBVIOUS
<1>4. \A y \in T : n - x <= n - y
  BY <1>2, <1>3
<1> QED BY <1>4

-----------------------------------------------------------------------------
(* What is true of every call is true of what is returned *)

Following(calls) == UNION {Step(c) : c \in calls}

\* The first k generations of calls.
Begins(f, calls, k) ==
    f = [n \in 0 .. k |-> IF n = 0 THEN calls ELSE Following(f[n - 1])]

LEMMA BeginningExists ==
    ASSUME NEW calls
    PROVE  \A k \in Nat : \E f : Begins(f, calls, k)
<1> DEFINE T == {k \in Nat : \E f : Begins(f, calls, k)}
<1>1. 0 \in T
  <2>1. Begins([n \in 0 .. 0 |-> calls], calls, 0)
    BY DEF Begins
  <2> QED BY <2>1
<1>2. ASSUME NEW k \in T PROVE k + 1 \in T
  <2>1. PICK f : Begins(f, calls, k)
    OBVIOUS
  <2> DEFINE g == [n \in 0 .. k + 1 |-> IF n <= k THEN f[n] ELSE Following(f[k])]
  <2>2. \A n \in 0 .. k + 1 : g[n] = IF n = 0 THEN calls ELSE Following(g[n - 1])
    BY <2>1 DEF Begins
  <2>3. Begins(g, calls, k + 1)
    BY <2>2 DEF Begins
  <2> QED BY <2>3
<1> QED
  <2> HIDE DEF T
  <2>1. \A k \in Nat : k \in T
    BY <1>1, <1>2, Inductive
  <2> QED BY <2>1 DEF T

LEMMA BeginningUnique ==
    ASSUME NEW calls, NEW k \in Nat, NEW m \in Nat, k <= m, NEW f, NEW g,
           Begins(f, calls, k), Begins(g, calls, m)
    PROVE  \A n \in 0 .. k : f[n] = g[n]
<1> DEFINE T == {n \in Nat : n <= k => f[n] = g[n]}
<1>1. 0 \in T
  BY DEF Begins
<1>2. \A n \in T : n + 1 \in T
  BY DEF Begins
<1>3. \A n \in Nat : n \in T
  <2> HIDE DEF T
  <2> QED BY <1>1, <1>2, Inductive
<1> QED BY <1>3

\* The recursion of Returned is well-founded.
Generations(f, calls) ==
    f = [n \in Nat |-> IF n = 0 THEN calls ELSE UNION {Step(c) : c \in f[n - 1]}]

LEMMA GenerationsExist ==
    ASSUME NEW calls
    PROVE  \E f : Generations(f, calls)
<1> DEFINE start(k) == CHOOSE f : Begins(f, calls, k)
           h == [n \in Nat |-> start(n)[n]]
<1>1. \A k \in Nat : Begins(start(k), calls, k)
  BY BeginningExists
<1>2. \A n \in Nat : h[n] = IF n = 0 THEN calls ELSE Following(h[n - 1])
  <2> SUFFICES ASSUME NEW n \in Nat
               PROVE  h[n] = IF n = 0 THEN calls ELSE Following(h[n - 1])
    OBVIOUS
  <2> HIDE DEF start
  <2>1. start(n)[n] = IF n = 0 THEN calls ELSE Following(start(n)[n - 1])
    BY <1>1 DEF Begins
  <2>2. n # 0 => start(n)[n - 1] = start(n - 1)[n - 1]
    BY <1>1, BeginningUnique
  <2> QED BY <2>1, <2>2
<1>3. Generations(h, calls)
  <2> HIDE DEF h
  <2>1. h = [n \in Nat |-> h[n]]
    BY DEF h
  <2> QED BY <1>2, <2>1 DEF Generations, Following
<1> QED BY <1>3

\* A set of calls that is closed under Step has every call that a handler
\* makes, if it has the first ones.
LEMMA ReturnedFrom ==
    ASSUME NEW calls, NEW G, calls \subseteq G, \A c \in G : Step(c) \subseteq G
    PROVE  \A t \in Returned(calls) : \E d \in G : d.todo = "return" /\ d.tx = t
<1> DEFINE f == CHOOSE f : Generations(f, calls)
<1>1. Generations(f, calls)
  BY GenerationsExist
<1>2. Returned(calls) = {c.tx : c \in {d \in f[MaxCalls] : d.todo = "return"}}
  BY DEF Returned, Generations
<1> HIDE DEF f
<1> DEFINE T == {n \in Nat : f[n] \subseteq G}
<1>3. 0 \in T
  BY <1>1 DEF Generations
<1>4. ASSUME NEW n \in T PROVE n + 1 \in T
  <2>1. f[n + 1] = UNION {Step(c) : c \in f[n]}
    BY <1>1 DEF Generations
  <2> QED BY <2>1
<1>5. f[MaxCalls] \subseteq G
  <2> HIDE DEF T
  <2>1. MaxCalls \in T
    BY <1>3, <1>4, Inductive, BoundAssumption
  <2> QED BY <2>1 DEF T
<1> QED BY <1>2, <1>5

-----------------------------------------------------------------------------
\* The manifest of a row, with the blueprint as a parameter.
LoopNodes(b) == {n \in DOMAIN b : b[n].kind = "loop"}
RowSpec(b, r) == IF b[r.node].kind = "loop" THEN b[r.node].body[r.pos] ELSE b[r.node]

LoopState == [iter : Nat, status : {"running", "exited", "exhausted"}]
Tx(b) == [parent : SagaStatus, rows : Seq(Row), cursor : Nat,
          loops : [LoopNodes(b) -> LoopState],
          child : [Children -> SagaStatus \cup {"none"}]]

-----------------------------------------------------------------------------
(* The rows and the blueprint *)

\* A row of a loop has a pass and a place in the body, any other row has none.
Fits(b, r) ==
    /\ r.node \in DOMAIN b
    /\ IF b[r.node].kind = "loop"
       THEN r.iter >= 1 /\ r.pos \in 1 .. Len(b[r.node].body)
       ELSE r.iter = 0 /\ r.pos = 0
Placed(b, t) == \A i \in DOMAIN t.rows : Fits(b, t.rows[i])

\* The order of the rows: by step of the blueprint, by pass, by place.
Before(r, s) ==
    \/ r.node < s.node
    \/ /\ r.node = s.node
       /\ r.iter < s.iter \/ (r.iter = s.iter /\ r.pos < s.pos)
Sorted(t) == \A i, j \in DOMAIN t.rows : i < j => Before(t.rows[i], t.rows[j])

\* Below the cursor every step of the blueprint has a row, from the cursor on
\* none has.
Covered(b, t) ==
    /\ t.cursor \in 1 .. Len(b) + 1
    /\ t.rows # << >>
    /\ \A i \in DOMAIN t.rows : t.rows[i].node < t.cursor
    /\ \A n \in 1 .. t.cursor - 1 : \E i \in DOMAIN t.rows : t.rows[i].node = n

\* The rows end where a body of a loop, or the blueprint, ends.
EndsWhole(b, t) ==
    LET r == t.rows[Len(t.rows)]
    IN  /\ r.node = t.cursor - 1
        /\ IF b[r.node].kind = "loop" THEN r.pos = Len(b[r.node].body)
           ELSE t.cursor = Len(b) + 1

\* A pass has all the steps of the body, and follows all the earlier passes.
Held(rs, n, iter, pos) ==
    \E k \in DOMAIN rs : rs[k].node = n /\ rs[k].iter = iter /\ rs[k].pos = pos
Whole(b, t) ==
    \A i \in DOMAIN t.rows :
        LET n == t.rows[i].node
        IN  b[n].kind = "loop" =>
                \A it \in 1 .. t.rows[i].iter : \A p \in 1 .. Len(b[n].body) :
                    Held(t.rows, n, it, p)

\* context.loops counts the passes, up to the limit.
Counted(b, t) ==
    /\ \A n \in LoopNodes(b) : t.loops[n].iter \in 1 .. b[n].max
    /\ \A i \in DOMAIN t.rows : t.rows[i].node \in LoopNodes(b) =>
           t.rows[i].iter <= t.loops[t.rows[i].node].iter

\* Behind a loop there are rows only when it has been left.
Left(b, t) ==
    \A i, j \in DOMAIN t.rows :
        i < j /\ t.rows[i].node \in LoopNodes(b) /\ t.rows[j].node # t.rows[i].node
            => t.loops[t.rows[i].node].status = "exited"

\* Behind a pass of a loop there are rows only when it is done.
DelayTail(b, t) ==
    t.parent \in {"PENDING", "RUNNING"} =>
        \A i, j \in DOMAIN t.rows :
            /\ i < j /\ t.rows[i].node \in LoopNodes(b)
            /\ t.rows[j].node # t.rows[i].node \/ t.rows[j].iter # t.rows[i].iter
            => Done(t.rows[i])

Layout(b, t) ==
    /\ Placed(b, t) /\ Sorted(t) /\ Covered(b, t) /\ EndsWhole(b, t)
    /\ Whole(b, t) /\ Counted(b, t) /\ Left(b, t)

-----------------------------------------------------------------------------
(* The rows and the children *)

KidsOf(t, n) == {c \in Children : c[1] = n /\ t.child[c] # "none"}

\* Only a spawn step that has completed has children.
Born(b, t) ==
    \A c \in Children : t.child[c] # "none" =>
        \E i \in DOMAIN t.rows : /\ t.rows[i].node = c[1]
                                 /\ b[c[1]].kind = "spawn"
                                 /\ t.rows[i].status = "COMPLETED"

\* A join that completed had children, and has none that runs.
JoinsDone(b, t) ==
    \A i \in DOMAIN t.rows :
        b[t.rows[i].node].kind = "join" /\ t.rows[i].status = "COMPLETED" =>
            /\ KidsOf(t, b[t.rows[i].node].of) # {}
            /\ \A c \in KidsOf(t, b[t.rows[i].node].of) : t.child[c] # "RUNNING"

\* A join that waits has a child to wait for, if it has any; e are the
\* transactions of the children that have not committed.
Waits(b, t, e) ==
    \A i \in DOMAIN t.rows :
        /\ b[t.rows[i].node].kind = "join"
        /\ t.rows[i].status = "IN_PROGRESS"
        /\ KidsOf(t, b[t.rows[i].node].of) # {}
        => \E c \in KidsOf(t, b[t.rows[i].node].of) :
               t.child[c] \notin Terminal \/ e[c] # "none"

-----------------------------------------------------------------------------
(* The status of the rows *)

Quiet(t) == \A i \in DOMAIN t.rows : t.rows[i].error = "none" /\ t.rows[i].undo = "none"

\* Every row before i is done, every row behind it is to be done.
Around(t, i) ==
    /\ t.parent = "RUNNING" /\ Quiet(t)
    /\ \A j \in DOMAIN t.rows : /\ j < i => Done(t.rows[j])
                                /\ j > i => t.rows[j].status = "PENDING"

\* The search for the next row has come to i.
Reached(b, t, i) ==
    /\ i \in 1 .. Len(t.rows) + 1
    /\ Around(t, i)
    /\ IF i = Len(t.rows) + 1 THEN t.cursor = Len(b) + 1
       ELSE t.rows[i].status = "PENDING"

\* Row i is being run.
Runs(t, i) ==
    /\ i \in DOMAIN t.rows
    /\ Around(t, i)
    /\ t.rows[i].status = "IN_PROGRESS"

\* Row i is done, and what follows it is to be found.
Passed(b, t, i) ==
    /\ i \in DOMAIN t.rows
    /\ Around(t, i)
    /\ Done(t.rows[i])
    /\ t.rows[i].node \in LoopNodes(b) /\ t.rows[i].pos = Len(b[t.rows[i].node].body)
           => i = Len(t.rows)

Fresh(t) ==
    /\ t.parent = "PENDING" /\ Quiet(t)
    /\ \A i \in DOMAIN t.rows : t.rows[i].status = "PENDING"
    /\ \A c \in Children : t.child[c] = "none"

Busy(b, t) ==
    \E i \in DOMAIN t.rows : Runs(t, i) /\ RowSpec(b, t.rows[i]).kind \in {"worker", "join"}

Finished(b, t) ==
    /\ t.parent = "COMPLETED" /\ Quiet(t)
    /\ t.cursor = Len(b) + 1
    /\ \A i \in DOMAIN t.rows : Done(t.rows[i])

\* A loop that was given up was run to its limit.
GivenUp(b, t) ==
    \A i \in DOMAIN t.rows : t.rows[i].error = "LOOP_EXHAUSTED" =>
        /\ t.rows[i].node \in LoopNodes(b)
        /\ t.rows[i].iter = b[t.rows[i].node].max
        /\ \A j \in DOMAIN t.rows : t.rows[j].node = t.rows[i].node =>
               Done(t.rows[j]) \/ t.rows[j].error = "clean"

\* A row whose effects are to be undone before those of the rows below it.
Owed(b, r) ==
    /\ LET m == RowSpec(b, r) IN m.kind = "spawn" \/ (m.kind = "worker" /\ m.comp)
    /\ r.status \in {"COMPLETED", "TIMED_OUT"}

\* Every row above from that is to be undone has been.
UndoneAbove(b, t, from) ==
    \A j \in DOMAIN t.rows : j > from /\ Owed(b, t.rows[j]) => t.rows[j].undo = "COMPENSATED"

\* No worker step behind a spawn step has an undo.
NoneBehind(b) ==
    \A m, n \in DOMAIN b : m < n /\ b[m].kind = "spawn" =>
        /\ b[n].kind = "worker" => ~ b[n].comp
        /\ b[n].kind = "loop" => \A p \in DOMAIN b[n].body : ~ b[n].body[p].comp

Lifo(b, t) ==
    /\ \A i \in DOMAIN t.rows : t.rows[i].undo # "none" => UndoneAbove(b, t, i)
    /\ t.parent = "COMPENSATED" => UndoneAbove(b, t, 0)

\* The undo of a spawn step is no command: it waits for its children.
SpawnUndo(b, t) ==
    \A i \in DOMAIN t.rows : b[t.rows[i].node].kind = "spawn" =>
        /\ t.rows[i].undo \in {"none", "COMPENSATED"}
        /\ t.rows[i].undo = "COMPENSATED" =>
               \A c \in KidsOf(t, t.rows[i].node) : t.child[c] # "RUNNING"

Back(b, t) ==
    /\ t.parent \in {"COMPENSATING", "COMPENSATED", "FAILED"}
    /\ \A i \in DOMAIN t.rows : t.rows[i].status # "IN_PROGRESS"
    /\ GivenUp(b, t)
    /\ SpawnUndo(b, t)
    /\ NoneBehind(b) => Lifo(b, t)

\* The saga is to be unwound from a row on downwards.
Unwinds(b, t, from) ==
    /\ Back(b, t)
    /\ from \in 0 .. Len(t.rows)
    /\ NoneBehind(b) => UndoneAbove(b, t, from)

Phase(b, t) == Fresh(t) \/ Busy(b, t) \/ Finished(b, t) \/ Back(b, t)

-----------------------------------------------------------------------------

Sound(b, t) ==
    /\ t \in Tx(b)
    /\ Layout(b, t) /\ DelayTail(b, t)
    /\ Born(b, t) /\ JoinsDone(b, t)

\* Only a child that runs or unwinds has a transaction that ends it.
EndingOk(ch, e) ==
    /\ e \in [Children -> Terminal \cup {"none"}]
    /\ \A c \in Children : e[c] # "none" => ch[c] \in {"RUNNING", "COMPENSATING"}

FlowInv ==
    /\ blueprint \in Blueprints
    /\ Sound(blueprint, Db)
    /\ Phase(blueprint, Db)
    /\ Waits(blueprint, Db, ending)
    /\ EndingOk(child, ending)
    /\ reopened \in 0 .. MaxReopen
    /\ rolledBack \in 0 .. MaxRollback

-----------------------------------------------------------------------------
(* What the writes of the handlers change *)

Statuses == {"PENDING", "IN_PROGRESS", "COMPLETED", "FAILED", "TIMED_OUT", "SKIPPED"}
Errors == StepErrors \cup {"none", "LOOP_EXHAUSTED", "UNTIL_EVALUATION_FAILED"}
Undos == {"none", "COMPENSATING", "COMPENSATED", "FAILED"}

\* The rows are those of t, with another status, error or undo.
Shape(t, u) ==
    /\ DOMAIN u.rows = DOMAIN t.rows
    /\ Len(u.rows) = Len(t.rows)
    /\ \A j \in DOMAIN t.rows : /\ u.rows[j].node = t.rows[j].node
                                /\ u.rows[j].pos = t.rows[j].pos
                                /\ u.rows[j].iter = t.rows[j].iter

LEMMA RowTypes ==
    ASSUME NEW b, NEW t \in Tx(b), NEW i \in DOMAIN t.rows
    PROVE  /\ t.rows[i] \in Row /\ i \in Nat /\ i >= 1 /\ i <= Len(t.rows)
           /\ Len(t.rows) \in Nat /\ DOMAIN t.rows = 1 .. Len(t.rows)
           /\ t.rows \in Seq(Row)
           /\ t.rows[i].node \in Nodes /\ t.rows[i].pos \in Nat /\ t.rows[i].iter \in Nat
           /\ t.rows[i].status \in Statuses /\ t.rows[i].error \in Errors
           /\ t.rows[i].undo \in Undos
<1>1. t.rows \in Seq(Row)
  BY DEF Tx
<1>2. /\ t.rows[i] \in Row /\ i \in Nat /\ i >= 1 /\ i <= Len(t.rows)
      /\ Len(t.rows) \in Nat /\ DOMAIN t.rows = 1 .. Len(t.rows)
  BY <1>1
<1> QED BY <1>1, <1>2 DEF Row, Statuses, Errors, Undos

LEMMA MarkWrites ==
    ASSUME NEW b, NEW t \in Tx(b), NEW i \in DOMAIN t.rows, NEW s \in Statuses
    PROVE  LET u == Mark(t, i, s)
           IN  /\ u \in Tx(b) /\ Shape(t, u)
               /\ u.parent = t.parent /\ u.cursor = t.cursor
               /\ u.loops = t.loops /\ u.child = t.child
               /\ \A j \in DOMAIN t.rows :
                     /\ u.rows[j].status = IF j = i THEN s ELSE t.rows[j].status
                     /\ u.rows[j].error = t.rows[j].error
                     /\ u.rows[j].undo = t.rows[j].undo
<1> DEFINE r == [t.rows[i] EXCEPT !.status = s]
           rs == [t.rows EXCEPT ![i] = r]
           u == Mark(t, i, s)
<1>1. u = [t EXCEPT !.rows = rs]
  BY DEF Mark
<1>2. /\ r \in Row /\ r.status = s /\ r.error = t.rows[i].error /\ r.undo = t.rows[i].undo
      /\ r.node = t.rows[i].node /\ r.pos = t.rows[i].pos /\ r.iter = t.rows[i].iter
  BY RowTypes DEF Row, Statuses
<1> HIDE DEF r
<1>3. rs \in Seq(Row) /\ DOMAIN rs = DOMAIN t.rows /\ Len(rs) = Len(t.rows)
      /\ \A j \in DOMAIN t.rows : rs[j] = IF j = i THEN r ELSE t.rows[j]
  BY <1>2, RowTypes, ExceptSeq
<1> HIDE DEF rs
<1>4. /\ u \in Tx(b) /\ u.parent = t.parent /\ u.cursor = t.cursor /\ u.loops = t.loops
      /\ u.child = t.child /\ u.rows = rs
  BY <1>1, <1>3 DEF Tx
<1> QED BY <1>2, <1>3, <1>4 DEF Shape

\* One row is replaced.
LEMMA RowWrites ==
    ASSUME NEW b, NEW t \in Tx(b), NEW i \in DOMAIN t.rows, NEW r \in Row
    PROVE  LET u == [t EXCEPT !.rows = [t.rows EXCEPT ![i] = r]]
           IN  /\ u \in Tx(b)
               /\ u.parent = t.parent /\ u.cursor = t.cursor
               /\ u.loops = t.loops /\ u.child = t.child
               /\ DOMAIN u.rows = DOMAIN t.rows /\ Len(u.rows) = Len(t.rows)
               /\ \A j \in DOMAIN t.rows : u.rows[j] = IF j = i THEN r ELSE t.rows[j]
<1> DEFINE rs == [t.rows EXCEPT ![i] = r]
<1>1. rs \in Seq(Row) /\ DOMAIN rs = DOMAIN t.rows /\ Len(rs) = Len(t.rows)
      /\ \A j \in DOMAIN t.rows : rs[j] = IF j = i THEN r ELSE t.rows[j]
  BY RowTypes, ExceptSeq
<1> HIDE DEF rs
<1>2. LET u == [t EXCEPT !.rows = rs]
      IN  /\ u \in Tx(b) /\ u.parent = t.parent /\ u.cursor = t.cursor
          /\ u.loops = t.loops /\ u.child = t.child /\ u.rows = rs
  BY <1>1 DEF Tx
<1> QED BY <1>1, <1>2 DEF rs

LEMMA UndoWrites ==
    ASSUME NEW b, NEW t \in Tx(b), NEW i \in DOMAIN t.rows, NEW x \in Undos
    PROVE  LET u == [t EXCEPT !.rows[i].undo = x]
           IN  /\ u \in Tx(b) /\ Shape(t, u)
               /\ u.parent = t.parent /\ u.cursor = t.cursor
               /\ u.loops = t.loops /\ u.child = t.child
               /\ \A j \in DOMAIN t.rows :
                     /\ u.rows[j].status = t.rows[j].status
                     /\ u.rows[j].error = t.rows[j].error
                     /\ u.rows[j].undo = IF j = i THEN x ELSE t.rows[j].undo
<1> DEFINE r == [t.rows[i] EXCEPT !.undo = x]
<1>1. /\ r \in Row /\ r.status = t.rows[i].status /\ r.error = t.rows[i].error /\ r.undo = x
      /\ r.node = t.rows[i].node /\ r.pos = t.rows[i].pos /\ r.iter = t.rows[i].iter
  BY RowTypes DEF Row, Undos
<1>2. [t EXCEPT !.rows[i].undo = x] = [t EXCEPT !.rows = [t.rows EXCEPT ![i] = r]]
  OBVIOUS
<1> HIDE DEF r
<1> QED BY <1>1, <1>2, RowWrites DEF Shape

\* The last write of a transaction that ends the saga.
LEMMA CloseWrites ==
    ASSUME NEW b, NEW t \in Tx(b), NEW p \in SagaStatus
    PROVE  LET u == Close(t, p)
           IN  /\ u \in Tx(b) /\ Shape(t, u)
               /\ u.parent = p /\ u.cursor = t.cursor
               /\ u.loops = t.loops /\ u.child = t.child
               /\ \A j \in DOMAIN t.rows :
                     /\ u.rows[j].status = IF t.rows[j].status = "PENDING" THEN "SKIPPED"
                                           ELSE t.rows[j].status
                     /\ u.rows[j].error = t.rows[j].error
                     /\ u.rows[j].undo = t.rows[j].undo
<1> DEFINE skip(r) == IF r.status = "PENDING" THEN [r EXCEPT !.status = "SKIPPED"] ELSE r
           rs == [i \in DOMAIN t.rows |-> skip(t.rows[i])]
           u == Close(t, p)
<1>1. ASSUME NEW r \in Row
      PROVE  /\ skip(r) \in Row
             /\ skip(r).status = IF r.status = "PENDING" THEN "SKIPPED" ELSE r.status
             /\ skip(r).error = r.error /\ skip(r).undo = r.undo
             /\ skip(r).node = r.node /\ skip(r).pos = r.pos /\ skip(r).iter = r.iter
  BY DEF Row
<1>2. u = [t EXCEPT !.parent = p, !.rows = rs]
  BY DEF Close
<1> HIDE DEF skip
<1>3. t.rows \in Seq(Row) /\ Len(t.rows) \in Nat /\ DOMAIN t.rows = 1 .. Len(t.rows)
  BY DEF Tx
<1>4. \A j \in DOMAIN t.rows : t.rows[j] \in Row /\ rs[j] = skip(t.rows[j]) /\ rs[j] \in Row
  BY <1>1, <1>3
<1>5. rs \in Seq(Row) /\ DOMAIN rs = DOMAIN t.rows /\ Len(rs) = Len(t.rows)
  <2>1. DOMAIN rs = 1 .. Len(t.rows)
    BY <1>3
  <2>2. rs \in [1 .. Len(t.rows) -> Row]
    BY <1>3, <1>4
  <2> HIDE DEF rs
  <2> QED BY <1>3, <2>1, <2>2
<1> HIDE DEF rs
<1>6. /\ u \in Tx(b) /\ u.parent = p /\ u.cursor = t.cursor /\ u.loops = t.loops
      /\ u.child = t.child /\ u.rows = rs
  BY <1>2, <1>5 DEF Tx
<1> QED BY <1>1, <1>4, <1>5, <1>6 DEF Shape

\* The status, and the error, of a step that fails.
FailedAs(e) == IF e = "timeout" THEN "TIMED_OUT" ELSE "FAILED"

\* A step fails: the saga fails at once or is unwound.
LEMMA FailWrites ==
    ASSUME NEW b, NEW t \in Tx(b), NEW i \in DOMAIN t.rows, NEW e \in StepErrors
    PROVE  \E u \in Tx(b) :
              /\ Shape(t, u) /\ u.cursor = t.cursor /\ u.loops = t.loops /\ u.child = t.child
              /\ \A j \in DOMAIN t.rows :
                    /\ u.rows[j].error = IF j = i /\ t.rows[i].error = "none" THEN e
                                         ELSE t.rows[j].error
                    /\ u.rows[j].undo = t.rows[j].undo
              /\ \/ /\ Fail(t, i, e) = Over(u) /\ u.parent = "FAILED"
                    /\ i = 1 /\ e = "clean"
                    /\ \A j \in DOMAIN t.rows :
                          u.rows[j].status = IF j = i THEN FailedAs(e)
                                             ELSE IF t.rows[j].status = "PENDING" THEN "SKIPPED"
                                             ELSE t.rows[j].status
                 \/ /\ u.parent = "COMPENSATING"
                    /\ \/ e = "clean" /\ i > 1 /\ Fail(t, i, e) = ThenUnwind(u, i - 1)
                       \/ e # "clean" /\ Fail(t, i, e) = ThenUnwind(u, i)
                    /\ \A j \in DOMAIN t.rows :
                          u.rows[j].status = IF j = i THEN FailedAs(e) ELSE t.rows[j].status
<1> DEFINE err == IF t.rows[i].error = "none" THEN e ELSE t.rows[i].error
           r == [[t.rows[i] EXCEPT !.error = err] EXCEPT !.status = FailedAs(e)]
           failed == [t EXCEPT !.rows = [t.rows EXCEPT ![i] = r]]
           from == IF e = "clean" THEN i - 1 ELSE i
<1>1. /\ r \in Row /\ r.status = FailedAs(e) /\ r.error = err /\ r.undo = t.rows[i].undo
      /\ r.node = t.rows[i].node /\ r.pos = t.rows[i].pos /\ r.iter = t.rows[i].iter
  <2>1. err \in Errors /\ FailedAs(e) \in Statuses
    BY RowTypes DEF Errors, StepErrors, FailedAs, Statuses
  <2> HIDE DEF err
  <2>2. t.rows[i] \in Row
    BY RowTypes
  <2> QED BY <2>1, <2>2 DEF Row, Errors, Statuses
<1> DEFINE both == [t EXCEPT !.rows[i].error = IF @ = "none" THEN e ELSE @,
                             !.rows[i].status = IF e = "timeout" THEN "TIMED_OUT"
                                                ELSE "FAILED"]
<1>2. both = failed
  BY RowTypes DEF FailedAs, Tx
<1>3. Fail(t, i, e) = IF from < 1 THEN Over(Close(failed, "FAILED"))
                      ELSE ThenUnwind([failed EXCEPT !.parent = "COMPENSATING"], from)
  <2>1. Fail(t, i, e) = IF from < 1 THEN Over(Close(both, "FAILED"))
                        ELSE ThenUnwind([both EXCEPT !.parent = "COMPENSATING"], from)
    BY DEF Fail
  <2> HIDE DEF both, failed
  <2> QED BY <1>2, <2>1
<1>4. /\ failed \in Tx(b) /\ Shape(t, failed)
      /\ failed.cursor = t.cursor /\ failed.loops = t.loops /\ failed.child = t.child
      /\ \A j \in DOMAIN t.rows : failed.rows[j] = IF j = i THEN r ELSE t.rows[j]
  <2> HIDE DEF r
  <2> QED BY <1>1, RowWrites DEF Shape
<1> HIDE DEF r, failed
<1>5. CASE from < 1
  <2>1. i = 1 /\ e = "clean"
    BY <1>5, RowTypes
  <2>2. Fail(t, i, e) = Over(Close(failed, "FAILED"))
    BY <1>3, <1>5
  <2>3. PICK u : u = Close(failed, "FAILED")
    OBVIOUS
  <2>4. /\ u \in Tx(b) /\ Shape(failed, u) /\ u.parent = "FAILED" /\ u.cursor = t.cursor
        /\ u.loops = t.loops /\ u.child = t.child
        /\ \A j \in DOMAIN t.rows :
              /\ u.rows[j].status = IF failed.rows[j].status = "PENDING" THEN "SKIPPED"
                                    ELSE failed.rows[j].status
              /\ u.rows[j].error = failed.rows[j].error
              /\ u.rows[j].undo = failed.rows[j].undo
    <3>1. "FAILED" \in SagaStatus
      BY DEF SagaStatus, Terminal
    <3>2. DOMAIN failed.rows = DOMAIN t.rows
      BY <1>4 DEF Shape
    <3> QED BY <1>4, <2>3, <3>1, <3>2, CloseWrites
  <2>5. /\ Shape(t, u)
        /\ \A j \in DOMAIN t.rows :
              /\ u.rows[j].error = IF j = i /\ t.rows[i].error = "none" THEN e
                                   ELSE t.rows[j].error
              /\ u.rows[j].undo = t.rows[j].undo
              /\ u.rows[j].status = IF j = i THEN FailedAs(e)
                                    ELSE IF t.rows[j].status = "PENDING" THEN "SKIPPED"
                                    ELSE t.rows[j].status
    <3>1. FailedAs(e) # "PENDING"
      BY DEF FailedAs
    <3> QED BY <1>1, <1>4, <2>4, <3>1 DEF Shape
  <2> QED BY <2>1, <2>2, <2>3, <2>4, <2>5
<1>6. CASE ~ (from < 1)
  <2>1. PICK u : u = [failed EXCEPT !.parent = "COMPENSATING"]
    OBVIOUS
  <2>2. /\ u \in Tx(b) /\ u.parent = "COMPENSATING" /\ u.rows = failed.rows
        /\ u.cursor = t.cursor /\ u.loops = t.loops /\ u.child = t.child
    BY <1>4, <2>1 DEF Tx, SagaStatus
  <2>3. \/ e = "clean" /\ i > 1 /\ Fail(t, i, e) = ThenUnwind(u, i - 1)
        \/ e # "clean" /\ Fail(t, i, e) = ThenUnwind(u, i)
    BY <1>3, <1>6, <2>1, RowTypes
  <2>4. /\ Shape(t, u)
        /\ \A j \in DOMAIN t.rows :
              /\ u.rows[j].error = IF j = i /\ t.rows[i].error = "none" THEN e
                                   ELSE t.rows[j].error
              /\ u.rows[j].undo = t.rows[j].undo
              /\ u.rows[j].status = IF j = i THEN FailedAs(e) ELSE t.rows[j].status
    BY <1>1, <1>4, <2>2 DEF Shape
  <2> QED BY <2>2, <2>3, <2>4
<1> QED BY <1>5, <1>6

-----------------------------------------------------------------------------
(* Blueprints, and what writes leave alone *)

LEMMA BlueprintFacts ==
    ASSUME NEW b \in Blueprints
    PROVE  /\ b # << >> /\ Len(b) \in Nat \ {0} /\ DOMAIN b = 1 .. Len(b)
           /\ DOMAIN b \subseteq Nodes
           /\ \A n \in DOMAIN b : b[n].kind \in {"worker", "spawn", "join", "loop"}
           /\ \A n \in LoopNodes(b) :
                 /\ b[n].max \in Nat \ {0} /\ b[n].body \in Seq(Worker)
                 /\ b[n].body # << >> /\ Len(b[n].body) \in Nat \ {0}
                 /\ DOMAIN b[n].body = 1 .. Len(b[n].body)
                 /\ \A p \in DOMAIN b[n].body : b[n].body[p].kind = "worker"
<1> DEFINE S == Worker \cup Spawn \cup Join \cup Loop
<1>1. b # << >> /\ b \in Seq(S)
  BY BlueprintAssumption DEF WellFormed
<1>2. Len(b) \in Nat \ {0} /\ DOMAIN b = 1 .. Len(b) /\ \A n \in DOMAIN b : b[n] \in S
  <2> HIDE DEF S
  <2> QED BY <1>1
<1>3. DOMAIN b \subseteq Nodes
  BY DEF Nodes
<1>4. \A n \in DOMAIN b : b[n].kind \in {"worker", "spawn", "join", "loop"}
  BY <1>2 DEF Worker, Spawn, Join, Loop
<1>5. ASSUME NEW n \in LoopNodes(b)
      PROVE  /\ b[n].max \in Nat \ {0} /\ b[n].body \in Seq(Worker)
             /\ b[n].body # << >> /\ Len(b[n].body) \in Nat \ {0}
             /\ DOMAIN b[n].body = 1 .. Len(b[n].body)
             /\ \A p \in DOMAIN b[n].body : b[n].body[p].kind = "worker"
  <2>1. b[n] \in Loop
    BY <1>2 DEF LoopNodes, Worker, Spawn, Join, Loop
  <2>2. b[n].max \in Nat \ {0} /\ b[n].body \in Seq(Worker)
    BY <2>1 DEF Loop
  <2>3. b[n].body # << >>
    BY BlueprintAssumption DEF WellFormed, LoopNodes
  <2>4. Len(b[n].body) \in Nat \ {0} /\ DOMAIN b[n].body = 1 .. Len(b[n].body)
        /\ \A p \in DOMAIN b[n].body : b[n].body[p] \in Worker
    BY <2>2, <2>3
  <2> QED BY <2>2, <2>3, <2>4 DEF Worker
<1> QED BY <1>1, <1>2, <1>3, <1>4, <1>5

\* The manifest of a row, and the kind of its step in the blueprint.
LEMMA RowKinds ==
    ASSUME blueprint \in Blueprints, NEW r, Fits(blueprint, r)
    PROVE  /\ Manifest(r) = RowSpec(blueprint, r)
           /\ Manifest(r).kind \in {"worker", "spawn", "join"}
           /\ Manifest(r).kind = "spawn" <=> blueprint[r.node].kind = "spawn"
           /\ Manifest(r).kind = "join" <=> blueprint[r.node].kind = "join"
           /\ Manifest(r).kind = "worker" <=> blueprint[r.node].kind \in {"worker", "loop"}
           /\ EndsBody(r) <=> /\ r.node \in LoopNodes(blueprint)
                              /\ r.pos = Len(blueprint[r.node].body)
           /\ blueprint[r.node].kind = "loop" <=> r.node \in LoopNodes(blueprint)
<1>1. r.node \in DOMAIN blueprint
  BY DEF Fits
<1>2. blueprint[r.node].kind = "loop" <=> r.node \in LoopNodes(blueprint)
  BY <1>1 DEF LoopNodes
<1>3. blueprint[r.node].kind = "loop" => blueprint[r.node].body[r.pos].kind = "worker"
  BY <1>2, BlueprintFacts DEF Fits
<1> QED BY <1>1, <1>2, <1>3, BlueprintFacts DEF Manifest, RowSpec, EndsBody

\* The layout of the rows does not depend on how far they are.
LEMMA LayoutKept ==
    ASSUME NEW b, NEW t, NEW u, Shape(t, u), u.cursor = t.cursor, u.loops = t.loops,
           t.rows \in Seq(Row), u.rows \in Seq(Row), Layout(b, t)
    PROVE  Layout(b, u)
<1>1. Placed(b, u) /\ Sorted(u)
  BY DEF Layout, Placed, Sorted, Fits, Before, Shape
<1>2. Covered(b, u)
  <2>1. u.rows # << >>
    BY DEF Layout, Covered, Shape
  <2> QED BY <2>1 DEF Layout, Covered, Shape
<1>3. EndsWhole(b, u)
  <2>1. Len(t.rows) \in DOMAIN t.rows
    BY DEF Layout, Covered
  <2> QED BY <2>1 DEF Layout, EndsWhole, Shape
<1>4. Whole(b, u)
  <2>1. \A n, it, p : Held(t.rows, n, it, p) => Held(u.rows, n, it, p)
    BY DEF Held, Shape
  <2> QED BY <2>1 DEF Layout, Whole, Shape
<1>5. Counted(b, u) /\ Left(b, u)
  BY DEF Layout, Counted, Left, Shape
<1> QED BY <1>1, <1>2, <1>3, <1>4, <1>5 DEF Layout

\* A write that completes no spawn and no join, and undoes none.
LEMMA SoundKept ==
    ASSUME NEW b, NEW t, NEW u \in Tx(b), Sound(b, t), Shape(t, u),
           u.cursor = t.cursor, u.loops = t.loops, u.child = t.child,
           \A i \in DOMAIN t.rows : b[t.rows[i].node].kind \in {"spawn", "join"} =>
               (u.rows[i].status = "COMPLETED" <=> t.rows[i].status = "COMPLETED"),
           \/ u.parent \notin {"PENDING", "RUNNING"}
           \/ /\ t.parent \in {"PENDING", "RUNNING"}
              /\ \A i \in DOMAIN t.rows : Done(t.rows[i]) => Done(u.rows[i])
    PROVE  Sound(b, u)
<1>1. Layout(b, u)
  BY LayoutKept DEF Sound, Tx
<1>2. Born(b, u)
  BY DEF Sound, Born, Shape
<1>3. JoinsDone(b, u)
  BY DEF Sound, JoinsDone, Shape, KidsOf
<1>4. DelayTail(b, u)
  BY DEF Sound, DelayTail, Shape
<1> QED BY <1>1, <1>2, <1>3, <1>4 DEF Sound

-----------------------------------------------------------------------------
(* The calls of a transaction *)

\* A call that keeps the invariant, given the open transactions e of the
\* children.
GoodCall(b, e, c) ==
    /\ c \in [todo : {"schedule", "unwind", "return"}, tx : Tx(b), at : Nat]
    /\ Sound(b, c.tx) /\ EndingOk(c.tx.child, e)
    /\ c.todo = "schedule" => Reached(b, c.tx, c.at)
    /\ c.todo = "unwind" => Unwinds(b, c.tx, c.at)
    /\ c.todo = "return" => Phase(b, c.tx) /\ Waits(b, c.tx, e)

LEMMA GoodSchedule ==
    ASSUME NEW b, NEW e, NEW t \in Tx(b), NEW i \in Nat,
           Sound(b, t), EndingOk(t.child, e), Reached(b, t, i)
    PROVE  GoodCall(b, e, ThenSchedule(t, i))
BY DEF GoodCall, ThenSchedule, Call

\* Nothing waits while the saga is unwound.
LEMMA BackWaits ==
    ASSUME NEW b, NEW e, NEW t, Back(b, t)
    PROVE  Waits(b, t, e)
BY DEF Back, Waits

LEMMA GoodUnwind ==
    ASSUME NEW b, NEW e, NEW t \in Tx(b), NEW i \in Nat,
           Sound(b, t), EndingOk(t.child, e), Unwinds(b, t, i)
    PROVE  GoodCall(b, e, ThenUnwind(t, i))
BY DEF GoodCall, ThenUnwind, Call

LEMMA GoodOver ==
    ASSUME NEW b, NEW e, NEW t \in Tx(b),
           Sound(b, t), EndingOk(t.child, e), Phase(b, t), Waits(b, t, e)
    PROVE  GoodCall(b, e, Over(t))
BY DEF GoodCall, Over, Call

LEMMA GoodBack ==
    ASSUME NEW b, NEW e, NEW t \in Tx(b),
           Sound(b, t), EndingOk(t.child, e), Back(b, t)
    PROVE  GoodCall(b, e, Over(t))
BY GoodOver, BackWaits DEF Phase

\* Nothing has been undone when the unwinding begins.
LEMMA QuietUndo ==
    ASSUME NEW b, NEW t, \A j \in DOMAIN t.rows : t.rows[j].undo = "none",
           t.parent # "COMPENSATED"
    PROVE  SpawnUndo(b, t) /\ Lifo(b, t)
BY DEF SpawnUndo, Lifo

\* A step that is due, or runs, fails.
LEMMA FailGood ==
    ASSUME NEW b, NEW e, NEW t \in Tx(b), NEW i \in DOMAIN t.rows, NEW er \in StepErrors,
           Sound(b, t), EndingOk(t.child, e), Around(t, i), ~ Done(t.rows[i])
    PROVE  GoodCall(b, e, Fail(t, i, er))
<1>1. PICK u \in Tx(b) :
              /\ Shape(t, u) /\ u.cursor = t.cursor /\ u.loops = t.loops /\ u.child = t.child
              /\ \A j \in DOMAIN t.rows :
                    /\ u.rows[j].error = IF j = i /\ t.rows[i].error = "none" THEN er
                                         ELSE t.rows[j].error
                    /\ u.rows[j].undo = t.rows[j].undo
              /\ \/ /\ Fail(t, i, er) = Over(u) /\ u.parent = "FAILED"
                    /\ i = 1 /\ er = "clean"
                    /\ \A j \in DOMAIN t.rows :
                          u.rows[j].status = IF j = i THEN FailedAs(er)
                                             ELSE IF t.rows[j].status = "PENDING" THEN "SKIPPED"
                                             ELSE t.rows[j].status
                 \/ /\ u.parent = "COMPENSATING"
                    /\ \/ er = "clean" /\ i > 1 /\ Fail(t, i, er) = ThenUnwind(u, i - 1)
                       \/ er # "clean" /\ Fail(t, i, er) = ThenUnwind(u, i)
                    /\ \A j \in DOMAIN t.rows :
                          u.rows[j].status = IF j = i THEN FailedAs(er) ELSE t.rows[j].status
  BY FailWrites
<1>2. FailedAs(er) \notin {"COMPLETED", "SKIPPED", "IN_PROGRESS", "PENDING"}
  BY DEF FailedAs
<1>3. i \in Nat /\ i >= 1 /\ \A j \in DOMAIN t.rows : j \in Nat
  BY RowTypes
<1>4. \A j \in DOMAIN t.rows :
         \/ u.rows[j].status = t.rows[j].status
         \/ /\ u.rows[j].status \notin {"COMPLETED", "IN_PROGRESS"}
            /\ t.rows[j].status # "COMPLETED"
  BY <1>1, <1>2 DEF Done
<1>5. Sound(b, u)
  <2>1. u.parent \notin {"PENDING", "RUNNING"}
    BY <1>1
  <2>2. \A j \in DOMAIN t.rows :
           u.rows[j].status = "COMPLETED" <=> t.rows[j].status = "COMPLETED"
    BY <1>4
  <2> QED BY <1>1, <2>1, <2>2, SoundKept
<1>6. Back(b, u)
  <2>1. u.parent \in {"COMPENSATING", "COMPENSATED", "FAILED"}
    BY <1>1
  <2>2. DOMAIN u.rows = DOMAIN t.rows
    BY <1>1 DEF Shape
  <2>3. \A j \in DOMAIN t.rows : u.rows[j].error # "LOOP_EXHAUSTED"
    BY <1>1 DEF Around, Quiet, StepErrors
  <2>4. \A j \in DOMAIN t.rows : j # i => t.rows[j].status # "IN_PROGRESS"
    BY <1>3 DEF Around, Done
  <2>5. \A j \in DOMAIN t.rows : u.rows[j].status # "IN_PROGRESS"
    BY <1>1, <1>2, <2>4
  <2>6. SpawnUndo(b, u) /\ Lifo(b, u)
    <3>1. \A j \in DOMAIN u.rows : u.rows[j].undo = "none"
      BY <1>1, <2>2 DEF Around, Quiet
    <3>2. u.parent # "COMPENSATED"
      BY <1>1
    <3> QED BY <3>1, <3>2, QuietUndo
  <2> QED BY <2>1, <2>2, <2>3, <2>5, <2>6 DEF Back, GivenUp
<1>7. EndingOk(u.child, e)
  BY <1>1
<1>8. i - 1 \in Nat
  BY <1>3
<1>9. \/ Fail(t, i, er) = Over(u)
      \/ Fail(t, i, er) = ThenUnwind(u, i - 1) /\ Unwinds(b, u, i - 1)
      \/ Fail(t, i, er) = ThenUnwind(u, i) /\ Unwinds(b, u, i)
  <2>1. \A j \in DOMAIN t.rows : j > i => t.rows[j].status = "PENDING"
    BY DEF Around
  <2>2. \A j \in DOMAIN u.rows : j > i => ~ Owed(b, u.rows[j])
    BY <1>1, <1>3, <2>1 DEF Shape, Owed, FailedAs
  <2>3. UndoneAbove(b, u, i)
    BY <2>2 DEF UndoneAbove
  <2>4. ASSUME er = "clean" PROVE UndoneAbove(b, u, i - 1)
    <3>1. ~ Owed(b, u.rows[i])
      BY <1>1, <2>4 DEF Owed, FailedAs
    <3>2. DOMAIN u.rows = DOMAIN t.rows
      BY <1>1 DEF Shape
    <3>3. \A j \in DOMAIN u.rows : j > i - 1 => j = i \/ j > i
      BY ONLY <1>3, <3>2
    <3> QED BY ONLY <2>2, <3>1, <3>3 DEF UndoneAbove
  <2>5. i \in 0 .. Len(u.rows) /\ i - 1 \in 0 .. Len(u.rows)
    BY <1>1, RowTypes DEF Shape
  <2> QED BY <1>1, <1>6, <2>3, <2>4, <2>5 DEF Unwinds
<1> QED BY <1>3, <1>5, <1>6, <1>7, <1>8, <1>9, GoodBack, GoodUnwind

-----------------------------------------------------------------------------
(* Minted rows *)

LEMMA NewRowFacts ==
    ASSUME NEW n \in Nodes, NEW pos \in Nat, NEW iter \in Nat
    PROVE  LET r == NewRow(n, pos, iter)
           IN  /\ r \in Row /\ r.node = n /\ r.pos = pos /\ r.iter = iter
               /\ r.status = "PENDING" /\ r.error = "none" /\ r.undo = "none"
BY DEF NewRow, Row

\* Rows with rows appended.
LEMMA AppendFacts ==
    ASSUME NEW old \in Seq(Row), NEW new \in Seq(Row)
    PROVE  LET all == old \o new
           IN  /\ all \in Seq(Row) /\ Len(all) = Len(old) + Len(new)
               /\ Len(old) \in Nat /\ Len(new) \in Nat
               /\ DOMAIN old = 1 .. Len(old) /\ DOMAIN new = 1 .. Len(new)
               /\ DOMAIN all = 1 .. Len(old) + Len(new)
               /\ \A j \in DOMAIN old : j \in DOMAIN all /\ all[j] = old[j]
               /\ \A k \in DOMAIN new : Len(old) + k \in DOMAIN all /\ all[Len(old) + k] = new[k]
               /\ \A j \in DOMAIN all :
                     \/ j \in DOMAIN old /\ all[j] = old[j]
                     \/ /\ j - Len(old) \in DOMAIN new /\ j > Len(old)
                        /\ all[j] = new[j - Len(old)]
<1>1. /\ Len(old) \in Nat /\ Len(new) \in Nat
      /\ DOMAIN old = 1 .. Len(old) /\ DOMAIN new = 1 .. Len(new)
  OBVIOUS
<1>2. (old \o new) \in Seq(Row) /\ Len(old \o new) = Len(old) + Len(new)
  OBVIOUS
<1>3. DOMAIN (old \o new) = 1 .. Len(old) + Len(new)
  BY <1>1, <1>2
<1>4. \A j \in 1 .. Len(old) + Len(new) :
         (old \o new)[j] = IF j <= Len(old) THEN old[j] ELSE new[j - Len(old)]
  OBVIOUS
<1> QED BY <1>1, <1>2, <1>3, <1>4

LEMMA Appended ==
    ASSUME NEW t, NEW u, NEW new \in Seq(Row), t.rows \in Seq(Row), u.rows = t.rows \o new
    PROVE  /\ Len(t.rows) \in Nat /\ Len(new) \in Nat
           /\ u.rows \in Seq(Row) /\ Len(u.rows) = Len(t.rows) + Len(new)
           /\ DOMAIN t.rows = 1 .. Len(t.rows) /\ DOMAIN new = 1 .. Len(new)
           /\ DOMAIN u.rows = 1 .. Len(t.rows) + Len(new)
           /\ \A j \in DOMAIN t.rows : j \in DOMAIN u.rows /\ u.rows[j] = t.rows[j]
           /\ \A k \in DOMAIN new : /\ Len(t.rows) + k \in DOMAIN u.rows
                                    /\ u.rows[Len(t.rows) + k] = new[k]
           /\ \A j \in DOMAIN u.rows :
                 \/ j \in DOMAIN t.rows /\ u.rows[j] = t.rows[j]
                 \/ /\ j - Len(t.rows) \in DOMAIN new /\ j > Len(t.rows)
                    /\ u.rows[j] = new[j - Len(t.rows)]
<1>1. PICK old : old = t.rows
  OBVIOUS
<1>2. PICK all : all = u.rows
  OBVIOUS
<1>3. old \in Seq(Row) /\ all = old \o new
  BY <1>1, <1>2
<1>4. /\ Len(old) \in Nat /\ Len(new) \in Nat
      /\ all \in Seq(Row) /\ Len(all) = Len(old) + Len(new)
      /\ DOMAIN old = 1 .. Len(old) /\ DOMAIN new = 1 .. Len(new)
      /\ DOMAIN all = 1 .. Len(old) + Len(new)
      /\ \A j \in DOMAIN old : j \in DOMAIN all /\ all[j] = old[j]
      /\ \A k \in DOMAIN new : Len(old) + k \in DOMAIN all /\ all[Len(old) + k] = new[k]
      /\ \A j \in DOMAIN all :
            \/ j \in DOMAIN old /\ all[j] = old[j]
            \/ /\ j - Len(old) \in DOMAIN new /\ j > Len(old)
               /\ all[j] = new[j - Len(old)]
  BY ONLY <1>3, new \in Seq(Row), AppendFacts
<1> QED BY ONLY <1>1, <1>2, <1>4

\* The rows of one pass of a loop.
LEMMA BodyFacts ==
    ASSUME NEW b \in Blueprints, NEW n \in LoopNodes(b), NEW iter \in Nat
    PROVE  LET new == Body(b, n, iter)
           IN  /\ new \in Seq(Row) /\ Len(new) = Len(b[n].body)
               /\ DOMAIN new = 1 .. Len(b[n].body)
               /\ \A p \in DOMAIN new : new[p] = NewRow(n, p, iter)
<1> DEFINE new == Body(b, n, iter)
<1>1. n \in Nodes /\ Len(b[n].body) \in Nat /\ DOMAIN b[n].body = 1 .. Len(b[n].body)
  BY BlueprintFacts DEF LoopNodes
<1>2. new = [p \in 1 .. Len(b[n].body) |-> NewRow(n, p, iter)]
  BY <1>1 DEF Body
<1>3. \A p \in 1 .. Len(b[n].body) : NewRow(n, p, iter) \in Row
  BY <1>1, NewRowFacts
<1> HIDE DEF new
<1>4. new \in [1 .. Len(b[n].body) -> Row]
  BY <1>2, <1>3
<1> QED BY <1>1, <1>2, <1>4 DEF new

LEMMA SegmentEndFacts ==
    ASSUME NEW b \in Blueprints, NEW from \in 1 .. Len(b)
    PROVE  /\ SegmentEnd(b, from) \in from .. Len(b)
           /\ \A n \in from .. SegmentEnd(b, from) - 1 : n \notin LoopNodes(b)
           /\ SegmentEnd(b, from) \notin LoopNodes(b) => SegmentEnd(b, from) = Len(b)
           /\ CursorAfter(b, from) = SegmentEnd(b, from) + 1
<1> DEFINE S == {n \in from .. Len(b) : b[n].kind = "loop"} \cup {Len(b)}
<1>1. Len(b) \in Nat \ {0} /\ DOMAIN b = 1 .. Len(b)
  BY BlueprintFacts
<1>2. S \in SUBSET Nat /\ S # {}
  BY <1>1
<1>3. \E x \in S : \A y \in S : x <= y
  <2> HIDE DEF S
  <2> QED BY <1>2, LeastOf
<1>4. SegmentEnd(b, from) = CHOOSE x \in S : \A y \in S : x <= y
  BY DEF SegmentEnd, Min
<1>5. SegmentEnd(b, from) \in S /\ \A y \in S : SegmentEnd(b, from) <= y
  <2> HIDE DEF S
  <2> QED BY <1>3, <1>4
<1>6. \A n \in from .. Len(b) : n \in LoopNodes(b) <=> b[n].kind = "loop"
  BY <1>1 DEF LoopNodes
<1>7. SegmentEnd(b, from) \in from .. Len(b)
  <2>1. S \subseteq from .. Len(b)
    BY <1>1
  <2> HIDE DEF S
  <2> QED BY <1>5, <2>1
<1>8. ASSUME NEW n \in from .. SegmentEnd(b, from) - 1
      PROVE  n \notin LoopNodes(b)
  <2>1. n \in from .. Len(b) /\ ~ (SegmentEnd(b, from) <= n)
    BY <1>1, <1>7
  <2>2. n \notin S
    <3> HIDE DEF S
    <3> QED BY <1>5, <2>1
  <2> QED BY <1>6, <2>1, <2>2
<1>9. SegmentEnd(b, from) \notin LoopNodes(b) => SegmentEnd(b, from) = Len(b)
  BY <1>1, <1>5, <1>6, <1>7
<1> QED BY <1>1, <1>7, <1>8, <1>9 DEF CursorAfter

\* The rows up to the next loop, with its first pass.
LEMMA SegmentFacts ==
    ASSUME NEW b \in Blueprints, NEW from \in 1 .. Len(b)
    PROVE  LET end == SegmentEnd(b, from)
               plain == IF end \in LoopNodes(b) THEN end - from ELSE end - from + 1
               new == Segment(b, from)
           IN  /\ new \in Seq(Row)
               /\ plain \in Nat
               /\ Len(new) = plain + IF end \in LoopNodes(b) THEN Len(b[end].body) ELSE 0
               /\ \A k \in DOMAIN new :
                     new[k] = IF k <= plain THEN NewRow(from + k - 1, 0, 0)
                              ELSE NewRow(end, k - plain, 1)
<1> DEFINE end == SegmentEnd(b, from)
           plain == IF end \in LoopNodes(b) THEN end - from ELSE end - from + 1
           first == [i \in 1 .. plain |-> NewRow(from + i - 1, 0, 0)]
           body == IF end \in LoopNodes(b) THEN Body(b, end, 1) ELSE << >>
           new == Segment(b, from)
<1>1. Len(b) \in Nat \ {0} /\ DOMAIN b = 1 .. Len(b) /\ DOMAIN b \subseteq Nodes
  BY BlueprintFacts
<1>2. end \in from .. Len(b)
  BY SegmentEndFacts
<1>3. b[end].kind = "loop" <=> end \in LoopNodes(b)
  BY <1>1, <1>2 DEF LoopNodes
<1>4. ~ (from > Len(b))
  BY <1>1
<1>5. new = first \o body
  <2> DEFINE last == IF b[end].kind = "loop" THEN end - 1 ELSE end
             shown == [i \in 1 .. last - from + 1 |-> NewRow(from + i - 1, 0, 0)]
  <2>1. new = shown \o (IF b[end].kind = "loop" THEN Body(b, end, 1) ELSE << >>)
    BY <1>4 DEF Segment
  <2>2. last - from + 1 = plain
    BY <1>1, <1>2, <1>3
  <2>3. shown = first
    BY <2>2
  <2> QED BY <1>3, <2>1, <2>3
<1>6. plain \in Nat
  BY <1>1, <1>2
<1> HIDE DEF plain, end
<1>7. first \in Seq(Row) /\ Len(first) = plain /\ DOMAIN first = 1 .. plain
      /\ \A k \in 1 .. plain : first[k] = NewRow(from + k - 1, 0, 0)
  <2>1. \A k \in 1 .. plain : from + k - 1 \in Nodes
    BY <1>1, <1>2, <1>6 DEF plain
  <2>2. \A k \in 1 .. plain : NewRow(from + k - 1, 0, 0) \in Row
    BY <2>1, NewRowFacts
  <2>3. first \in [1 .. plain -> Row]
    BY <2>2
  <2>4. \A k \in 1 .. plain : first[k] = NewRow(from + k - 1, 0, 0)
    OBVIOUS
  <2> HIDE DEF first
  <2> QED BY <1>6, <2>3, <2>4
<1>8. /\ body \in Seq(Row)
      /\ Len(body) = IF end \in LoopNodes(b) THEN Len(b[end].body) ELSE 0
      /\ \A p \in DOMAIN body : body[p] = NewRow(end, p, 1)
  <2>1. CASE end \in LoopNodes(b)
    <3>1. body = Body(b, end, 1)
      BY <2>1
    <3> HIDE DEF body
    <3> QED BY <2>1, <3>1, BodyFacts
  <2>2. CASE end \notin LoopNodes(b)
    <3>1. body = << >>
      BY <2>2
    <3> HIDE DEF body
    <3> QED BY <2>2, <3>1
  <2> QED BY <2>1, <2>2
<1> HIDE DEF first, body
<1> HIDE DEF new
<1>9. new \in Seq(Row) /\ Len(new) = plain + Len(body)
  BY <1>5, <1>7, <1>8, AppendFacts
<1>10. \A k \in DOMAIN new : new[k] = IF k <= plain THEN NewRow(from + k - 1, 0, 0)
                                     ELSE NewRow(end, k - plain, 1)
  <2> SUFFICES ASSUME NEW k \in DOMAIN new
               PROVE  new[k] = IF k <= plain THEN NewRow(from + k - 1, 0, 0)
                               ELSE NewRow(end, k - plain, 1)
    OBVIOUS
  <2>1. k \in 1 .. plain + Len(body) /\ Len(body) \in Nat /\ DOMAIN body = 1 .. Len(body)
    BY <1>8, <1>9
  <2>2. CASE k <= plain
    BY <1>5, <1>6, <1>7, <1>8, <2>1, <2>2
  <2>3. CASE k > plain
    <3>1. k - plain \in DOMAIN body
      BY <1>6, <2>1, <2>3
    <3>2. new[k] = body[k - plain]
      BY <1>5, <1>6, <1>7, <1>8, <2>1, <2>3
    <3> QED BY <1>6, <1>8, <2>1, <2>3, <3>1, <3>2
  <2> QED BY <1>6, <2>1, <2>2, <2>3
<1> QED BY <1>6, <1>8, <1>9, <1>10 DEF plain, end, new

\* Rows are added behind those there are.
LEMMA Extended ==
    ASSUME NEW b, NEW t, NEW u, NEW new \in Seq(Row),
           t.rows \in Seq(Row), u.rows = t.rows \o new,
           Placed(b, t), Sorted(t), Whole(b, t),
           \A k \in DOMAIN new : Fits(b, new[k]),
           \A k, m \in DOMAIN new : k < m => Before(new[k], new[m]),
           \A i \in DOMAIN t.rows : \A k \in DOMAIN new : Before(t.rows[i], new[k]),
           \A k \in DOMAIN new : b[new[k].node].kind = "loop" =>
               \A it \in 1 .. new[k].iter : \A p \in 1 .. Len(b[new[k].node].body) :
                   Held(t.rows, new[k].node, it, p) \/ Held(new, new[k].node, it, p)
    PROVE  Placed(b, u) /\ Sorted(u) /\ Whole(b, u)
<1> DEFINE old == t.rows
           n == Len(old)
<1>1. /\ n \in Nat /\ DOMAIN old = 1 .. n /\ Len(new) \in Nat /\ DOMAIN new = 1 .. Len(new)
      /\ DOMAIN u.rows = 1 .. n + Len(new)
      /\ \A j \in DOMAIN old : j \in DOMAIN u.rows /\ u.rows[j] = old[j]
      /\ \A k \in DOMAIN new : n + k \in DOMAIN u.rows /\ u.rows[n + k] = new[k]
      /\ \A j \in DOMAIN u.rows :
            \/ j \in DOMAIN old /\ u.rows[j] = old[j]
            \/ /\ j - n \in DOMAIN new /\ j > n
               /\ u.rows[j] = new[j - n]
  BY ONLY new \in Seq(Row), t.rows \in Seq(Row), u.rows = t.rows \o new, AppendFacts
<1>2. Placed(b, u)
  <2> SUFFICES ASSUME NEW j \in DOMAIN u.rows PROVE Fits(b, u.rows[j])
    BY DEF Placed
  <2> QED BY <1>1 DEF Placed
<1>3. Sorted(u)
  <2> SUFFICES ASSUME NEW i \in DOMAIN u.rows, NEW j \in DOMAIN u.rows, i < j
               PROVE  Before(u.rows[i], u.rows[j])
    BY DEF Sorted
  <2>1. CASE j \in DOMAIN old
    <3>1. i \in DOMAIN old
      BY <1>1, <2>1
    <3>2. u.rows[i] = old[i] /\ u.rows[j] = old[j]
      BY <1>1, <2>1, <3>1
    <3> QED BY <2>1, <3>1, <3>2 DEF Sorted
  <2>2. CASE i \in DOMAIN old /\ j \notin DOMAIN old
    <3>1. u.rows[i] = old[i] /\ j - n \in DOMAIN new /\ u.rows[j] = new[j - n]
      BY <1>1, <2>2
    <3> QED BY <2>2, <3>1
  <2>3. CASE i \notin DOMAIN old /\ j \notin DOMAIN old
    <3>1. /\ i - n \in DOMAIN new /\ u.rows[i] = new[i - n]
          /\ j - n \in DOMAIN new /\ u.rows[j] = new[j - n]
      BY <1>1, <2>3
    <3>2. i - n < j - n
      BY <1>1
    <3> QED BY <3>1, <3>2
  <2> QED BY <2>1, <2>2, <2>3
<1>4. Whole(b, u)
  <2>1. \A m, it, p : Held(old, m, it, p) \/ Held(new, m, it, p) => Held(u.rows, m, it, p)
    <3> SUFFICES ASSUME NEW m, NEW it, NEW p, Held(old, m, it, p) \/ Held(new, m, it, p)
                 PROVE  Held(u.rows, m, it, p)
      OBVIOUS
    <3>1. CASE Held(old, m, it, p)
      BY ONLY <1>1, <3>1 DEF Held
    <3>2. CASE Held(new, m, it, p)
      <4>1. PICK k \in DOMAIN new : new[k].node = m /\ new[k].iter = it /\ new[k].pos = p
        BY ONLY <3>2 DEF Held
      <4>2. n + k \in DOMAIN u.rows /\ u.rows[n + k] = new[k]
        BY <1>1
      <4> QED BY ONLY <4>1, <4>2 DEF Held
    <3> QED BY <3>1, <3>2
  <2> SUFFICES ASSUME NEW i \in DOMAIN u.rows, b[u.rows[i].node].kind = "loop",
                      NEW it \in 1 .. u.rows[i].iter,
                      NEW p \in 1 .. Len(b[u.rows[i].node].body)
               PROVE  Held(u.rows, u.rows[i].node, it, p)
    BY DEF Whole
  <2>2. CASE i \in DOMAIN old
    <3>1. u.rows[i] = t.rows[i]
      BY <1>1, <2>2
    <3> QED BY <2>1, <2>2, <3>1 DEF Whole
  <2>3. CASE i \notin DOMAIN old
    <3>1. i - n \in DOMAIN new /\ u.rows[i] = new[i - n]
      BY <1>1, <2>3
    <3> QED BY <2>1, <3>1
  <2> QED BY <2>2, <2>3
<1> QED BY <1>2, <1>3, <1>4

\* What a pass adds fits the blueprint, and is whole.
LEMMA BodyFits ==
    ASSUME NEW b \in Blueprints, NEW n \in LoopNodes(b), NEW iter \in Nat, iter >= 1
    PROVE  LET new == Body(b, n, iter)
           IN  /\ new # << >>
               /\ \A k \in DOMAIN new : /\ Fits(b, new[k])
                                        /\ new[k].node = n /\ new[k].iter = iter
                                        /\ new[k].pos = k
                                        /\ new[k].status = "PENDING"
                                        /\ new[k].error = "none" /\ new[k].undo = "none"
               /\ \A k, m \in DOMAIN new : k < m => Before(new[k], new[m])
<1> DEFINE new == Body(b, n, iter)
<1>1. /\ new \in Seq(Row) /\ DOMAIN new = 1 .. Len(b[n].body) /\ Len(new) = Len(b[n].body)
      /\ \A p \in DOMAIN new : new[p] = NewRow(n, p, iter)
  BY BodyFacts
<1>2. n \in Nodes /\ n \in DOMAIN b /\ b[n].kind = "loop" /\ Len(b[n].body) \in Nat \ {0}
  BY BlueprintFacts DEF LoopNodes
<1> HIDE DEF new
<1>3. \A k \in DOMAIN new : /\ new[k].node = n /\ new[k].iter = iter /\ new[k].pos = k
                            /\ new[k].status = "PENDING"
                            /\ new[k].error = "none" /\ new[k].undo = "none"
  <2> TAKE k \in DOMAIN new
  <2>1. k \in Nat /\ new[k] = NewRow(n, k, iter)
    BY <1>1, <1>2
  <2> QED BY <1>2, <2>1, NewRowFacts
<1>4. \A k \in DOMAIN new : Fits(b, new[k])
  BY <1>1, <1>2, <1>3 DEF Fits
<1>5. \A k, m \in DOMAIN new : k < m => Before(new[k], new[m])
  BY <1>1, <1>3 DEF Before
<1>6. new # << >>
  BY <1>1, <1>2
<1> QED BY <1>3, <1>4, <1>5, <1>6 DEF new

\* What a segment adds fits the blueprint, reaches from one step to another, and
\* ends with the first pass of a loop or with the blueprint.
LEMMA SegmentFits ==
    ASSUME NEW b \in Blueprints, NEW from \in 1 .. Len(b)
    PROVE  LET new == Segment(b, from)
               end == SegmentEnd(b, from)
           IN  /\ new \in Seq(Row) /\ new # << >>
               /\ \A k \in DOMAIN new : /\ Fits(b, new[k])
                                        /\ new[k].node \in from .. end
                                        /\ new[k].node \in LoopNodes(b) =>
                                              new[k].node = end /\ new[k].iter = 1
                                        /\ new[k].status = "PENDING"
                                        /\ new[k].error = "none" /\ new[k].undo = "none"
               /\ \A k, m \in DOMAIN new : k < m => Before(new[k], new[m])
               /\ \A n \in from .. end : \E k \in DOMAIN new : new[k].node = n
               /\ end \in LoopNodes(b) =>
                     \A p \in 1 .. Len(b[end].body) : Held(new, end, 1, p)
               /\ new[Len(new)].node = end
               /\ end \in LoopNodes(b) => new[Len(new)].pos = Len(b[end].body)
<1> DEFINE new == Segment(b, from)
           end == SegmentEnd(b, from)
           plain == IF end \in LoopNodes(b) THEN end - from ELSE end - from + 1
           size == IF end \in LoopNodes(b) THEN Len(b[end].body) ELSE 0
<1>1. Len(b) \in Nat \ {0} /\ DOMAIN b = 1 .. Len(b) /\ DOMAIN b \subseteq Nodes
  BY BlueprintFacts
<1>2. /\ end \in from .. Len(b)
      /\ \A n \in from .. end - 1 : n \notin LoopNodes(b)
      /\ end \notin LoopNodes(b) => end = Len(b)
  BY SegmentEndFacts
<1>0. /\ from \in Nat /\ from >= 1 /\ end \in Nat /\ from <= end /\ end <= Len(b)
      /\ end \in 1 .. Len(b) /\ end \in from .. end
  <2> HIDE DEF end
  <2>1. Len(b) \in Nat \ {0}
    BY <1>1
  <2>2. end \in from .. Len(b)
    BY <1>2
  <2> QED BY <2>1, <2>2
<1>00. /\ end \in LoopNodes(b) => \A n \in from .. end - 1 : n \notin LoopNodes(b)
       /\ end \notin LoopNodes(b) => /\ end = Len(b)
                                      /\ \A n \in from .. end - 1 : n \notin LoopNodes(b)
  BY <1>2
<1>01. \A n \in from .. end : n \in Nat /\ from <= n /\ n <= end /\ n \in DOMAIN b /\ n \in Nodes
  <2> HIDE DEF end
  <2>1. DOMAIN b = 1 .. Len(b) /\ DOMAIN b \subseteq Nodes /\ Len(b) \in Nat
    BY <1>1
  <2> TAKE n \in from .. end
  <2>2. n \in Nat /\ from <= n /\ n <= end /\ n >= 1 /\ n <= Len(b)
    BY <1>0, <2>1
  <2> QED BY <2>1, <2>2
<1>3. size \in Nat /\ (end \in LoopNodes(b) => size = Len(b[end].body) /\ size > 0)
  BY BlueprintFacts
<1>4. /\ new \in Seq(Row) /\ plain \in Nat /\ Len(new) = plain + size
      /\ \A k \in DOMAIN new : new[k] = IF k <= plain THEN NewRow(from + k - 1, 0, 0)
                                        ELSE NewRow(end, k - plain, 1)
  BY SegmentFacts
<1>5. /\ end \in LoopNodes(b) => plain = end - from
      /\ end \notin LoopNodes(b) => plain = end - from + 1 /\ size = 0
  OBVIOUS
<1>6. \A n \in DOMAIN b : n \in LoopNodes(b) <=> b[n].kind = "loop"
  BY DEF LoopNodes
<1> HIDE DEF new, end, plain, size
<1>7. DOMAIN new = 1 .. plain + size
  BY <1>3, <1>4
<1>8. \A k \in DOMAIN new :
         /\ new[k].status = "PENDING" /\ new[k].error = "none" /\ new[k].undo = "none"
         /\ k <= plain => /\ new[k].node = from + k - 1 /\ new[k].pos = 0 /\ new[k].iter = 0
                          /\ new[k].node \in from .. end /\ new[k].node \notin LoopNodes(b)
         /\ k > plain => /\ new[k].node = end /\ new[k].pos = k - plain /\ new[k].iter = 1
                         /\ end \in LoopNodes(b)
  <2> TAKE k \in DOMAIN new
  <2>1. k \in 1 .. plain + size
    BY <1>7
  <2>2. CASE k <= plain
    <3>1. from + k - 1 \in Nat /\ from + k - 1 \in from .. end
          /\ (end \in LoopNodes(b) => from + k - 1 \in from .. end - 1)
      BY <1>0, <1>4, <1>5, <2>1, <2>2
    <3>2. from + k - 1 \in Nodes
      BY <1>01, <3>1
    <3>3. new[k] = NewRow(from + k - 1, 0, 0)
      BY <1>4, <2>2
    <3>4. from + k - 1 \notin LoopNodes(b)
      <4>1. from + k - 1 \in from .. end - 1 \/ from + k - 1 = end
        BY <1>0, <3>1
      <4> QED BY <1>00, <3>1, <4>1
    <3>5. ~ (k > plain)
      BY <1>4, <2>1, <2>2
    <3> QED BY <3>1, <3>2, <3>3, <3>4, <3>5, NewRowFacts
  <2>3. CASE k > plain
    <3>1. end \in LoopNodes(b) /\ k - plain \in Nat /\ ~ (k <= plain)
      BY <1>3, <1>4, <1>5, <2>1, <2>3
    <3>2. new[k] = NewRow(end, k - plain, 1)
      BY <1>4, <3>1
    <3>3. end \in Nodes
      BY <1>0, <1>1
    <3> QED BY <3>1, <3>2, <3>3, NewRowFacts
  <2> QED BY <1>4, <2>1, <2>2, <2>3
<1>9. new # << >>
  <2>1. plain + size > 0
    <3>1. CASE end \in LoopNodes(b)
      BY <1>3, <1>4, <3>1
    <3>2. CASE end \notin LoopNodes(b)
      BY <1>0, <1>3, <1>5, <3>2
    <3> QED BY <3>1, <3>2
  <2> QED BY <1>4, <2>1
<1>10. ASSUME NEW k \in DOMAIN new
       PROVE  /\ Fits(b, new[k]) /\ new[k].node \in from .. end
              /\ new[k].node \in LoopNodes(b) => new[k].node = end /\ new[k].iter = 1
  <2>1. k \in 1 .. plain + size
    BY <1>7
  <2>2. CASE k <= plain
    <3>1. new[k].node \in DOMAIN b
      BY <1>01, <1>8, <2>2
    <3> QED BY <1>6, <1>8, <2>2, <3>1 DEF Fits
  <2>3. CASE k > plain
    <3>1. new[k].node = end /\ new[k].pos = k - plain /\ new[k].iter = 1 /\ end \in LoopNodes(b)
      BY <1>8, <2>3
    <3>2. end \in DOMAIN b /\ end \in from .. end /\ b[end].kind = "loop"
      BY <1>0, <1>1, <1>2, <1>6, <3>1
    <3>3. k - plain \in 1 .. Len(b[end].body)
      BY <1>3, <1>4, <2>1, <2>3, <3>1
    <3> QED BY <3>1, <3>2, <3>3 DEF Fits
  <2> QED BY <1>4, <2>1, <2>2, <2>3
<1>11. \A k, m \in DOMAIN new : k < m => Before(new[k], new[m])
  <2> SUFFICES ASSUME NEW k \in DOMAIN new, NEW m \in DOMAIN new, k < m
               PROVE  Before(new[k], new[m])
    OBVIOUS
  <2>1. k \in 1 .. plain + size /\ m \in 1 .. plain + size
    BY <1>7
  <2>2. CASE m <= plain
    BY <1>0, <1>4, <1>8, <2>1, <2>2 DEF Before
  <2>3. CASE m > plain /\ k <= plain
    <3>1. k <= end - from
      BY <1>5, <1>8, <2>3
    <3> QED BY <1>0, <1>4, <1>8, <2>1, <2>3, <3>1 DEF Before
  <2>4. CASE m > plain /\ k > plain
    BY <1>4, <1>8, <2>1, <2>4 DEF Before
  <2> QED BY <1>4, <2>1, <2>2, <2>3, <2>4
<1>12. \A p \in 1 .. size : /\ plain + p \in DOMAIN new /\ new[plain + p].node = end
                            /\ new[plain + p].iter = 1 /\ new[plain + p].pos = p
  <2> TAKE p \in 1 .. size
  <2>1. plain + p \in DOMAIN new /\ plain + p > plain /\ plain + p - plain = p
    BY <1>3, <1>4, <1>7
  <2>2. end \in LoopNodes(b) \/ size = 0
    BY <1>5
  <2> QED BY <1>4, <1>8, <2>1, <2>2
<1>13. ASSUME NEW n \in from .. end PROVE \E k \in DOMAIN new : new[k].node = n
  <2>1. CASE n - from + 1 <= plain
    <3>0. n \in Nat /\ from <= n /\ n <= end
      BY <1>0
    <3>1. n - from + 1 \in DOMAIN new /\ from + (n - from + 1) - 1 = n
      BY <1>0, <1>3, <1>4, <1>7, <2>1, <3>0
    <3> QED BY <1>8, <2>1, <3>1
  <2>2. CASE ~ (n - from + 1 <= plain)
    <3>1. end \in LoopNodes(b) /\ n = end
      <4>1. n \in Nat /\ from <= n /\ n <= end
        BY <1>0
      <4> QED BY <1>0, <1>5, <2>2, <4>1
    <3>2. 1 \in 1 .. size
      BY <1>3, <3>1
    <3> QED BY <1>12, <3>1, <3>2
  <2> QED BY <2>1, <2>2
<1>14. /\ new[Len(new)].node = end
       /\ end \in LoopNodes(b) => new[Len(new)].pos = Len(b[end].body)
  <2>1. CASE end \in LoopNodes(b)
    <3>1. size \in 1 .. size
      BY <1>3, <2>1
    <3> QED BY <1>3, <1>4, <1>12, <2>1, <3>1
  <2>2. CASE end \notin LoopNodes(b)
    <3>1. Len(new) = plain /\ plain \in DOMAIN new /\ from + plain - 1 = end
      BY <1>0, <1>1, <1>2, <1>4, <1>5, <1>7, <2>2
    <3> QED BY <1>4, <1>8, <2>2, <3>1
  <2> QED BY <2>1, <2>2
<1>15. end \in LoopNodes(b) =>
         \A p \in 1 .. Len(b[end].body) : Held(new, end, 1, p)
  BY <1>3, <1>12 DEF Held
<1> QED BY <1>4, <1>8, <1>9, <1>10, <1>11, <1>13, <1>14, <1>15 DEF new, end

-----------------------------------------------------------------------------
(* The boundary of a loop *)

\* A loop is counted on, and rows are minted.
MintedTx(t, n, x, cur, new) ==
    [[t EXCEPT !.loops[n] = x, !.cursor = cur] EXCEPT !.rows = @ \o new]

LEMMA MintWrites ==
    ASSUME NEW b, NEW t \in Tx(b), NEW new \in Seq(Row), NEW n \in LoopNodes(b),
           NEW x \in LoopState, NEW cur \in Nat
    PROVE  LET u == MintedTx(t, n, x, cur, new)
           IN  /\ u \in Tx(b) /\ u.rows = t.rows \o new /\ u.cursor = cur
               /\ u.parent = t.parent /\ u.child = t.child
               /\ \A m \in LoopNodes(b) : u.loops[m] = IF m = n THEN x ELSE t.loops[m]
<1> DEFINE all == t.rows \o new
           lps == [t.loops EXCEPT ![n] = x]
           u == MintedTx(t, n, x, cur, new)
<1>1. all \in Seq(Row)
  BY AppendFacts DEF Tx
<1>2. /\ lps \in [LoopNodes(b) -> LoopState]
      /\ \A m \in LoopNodes(b) : lps[m] = IF m = n THEN x ELSE t.loops[m]
  BY DEF Tx
<1>3. u = [t EXCEPT !.loops = lps, !.cursor = cur, !.rows = all]
  BY DEF Tx, MintedTx
<1> HIDE DEF all, lps, u
<1>4. /\ u \in Tx(b) /\ u.rows = all /\ u.cursor = cur /\ u.parent = t.parent
      /\ u.child = t.child /\ u.loops = lps
  BY <1>1, <1>2, <1>3 DEF Tx
<1> QED BY <1>2, <1>4 DEF u, all

\* The rows that are minted are reached.
LEMMA MintedReached ==
    ASSUME NEW b, NEW t, NEW u, NEW new \in Seq(Row), new # << >>,
           t.rows \in Seq(Row), u.rows = t.rows \o new,
           u.parent = t.parent, u.child = t.child,
           Passed(b, t, Len(t.rows)), Born(b, t), JoinsDone(b, t),
           \A k \in DOMAIN new : /\ new[k].status = "PENDING"
                                 /\ new[k].error = "none" /\ new[k].undo = "none",
           \A k, m \in DOMAIN new : k < m /\ new[k].node \in LoopNodes(b) =>
               new[m].node = new[k].node /\ new[m].iter = new[k].iter
    PROVE  /\ Reached(b, u, Len(t.rows) + 1)
           /\ Born(b, u) /\ JoinsDone(b, u) /\ DelayTail(b, u)
<1> DEFINE old == t.rows
           n == Len(old)
<1>1. /\ n \in Nat /\ DOMAIN old = 1 .. n /\ Len(new) \in Nat /\ DOMAIN new = 1 .. Len(new)
      /\ Len(u.rows) = n + Len(new) /\ DOMAIN u.rows = 1 .. n + Len(new)
      /\ \A j \in DOMAIN old : j \in DOMAIN u.rows /\ u.rows[j] = old[j]
      /\ \A k \in DOMAIN new : n + k \in DOMAIN u.rows /\ u.rows[n + k] = new[k]
      /\ \A j \in DOMAIN u.rows :
            \/ j \in DOMAIN old /\ u.rows[j] = old[j]
            \/ /\ j - n \in DOMAIN new /\ j > n
               /\ u.rows[j] = new[j - n]
  BY ONLY new \in Seq(Row), t.rows \in Seq(Row), u.rows = t.rows \o new, AppendFacts
<1>2. Len(new) > 0
  BY ONLY new \in Seq(Row), new # << >>
<1>3. \A j \in DOMAIN old : Done(old[j]) /\ old[j].error = "none" /\ old[j].undo = "none"
  <2>1. Passed(b, t, n)
    OBVIOUS
  <2> QED BY ONLY <1>1, <2>1 DEF Passed, Around, Quiet
<1>4. \A k \in DOMAIN new : /\ new[k].status = "PENDING"
                            /\ new[k].error = "none" /\ new[k].undo = "none"
  OBVIOUS
<1>5. u.parent = "RUNNING"
  BY DEF Passed, Around
<1>6. \A j \in DOMAIN u.rows : /\ u.rows[j].error = "none" /\ u.rows[j].undo = "none"
                               /\ j < n + 1 => Done(u.rows[j])
                               /\ j >= n + 1 => u.rows[j].status = "PENDING"
  <2> TAKE j \in DOMAIN u.rows
  <2>1. CASE j \in DOMAIN old
    BY ONLY <1>1, <1>3, <2>1
  <2>2. CASE j \notin DOMAIN old
    <3>1. j - n \in DOMAIN new /\ j > n /\ u.rows[j] = new[j - n] /\ j \in Nat
      BY ONLY <1>1, <2>2
    <3> QED BY ONLY <1>1, <1>4, <3>1
  <2> QED BY <2>1, <2>2
<1>7. Reached(b, u, n + 1)
  <2>1. n + 1 \in DOMAIN u.rows /\ n + 1 \in 1 .. Len(u.rows) + 1 /\ n + 1 # Len(u.rows) + 1
    BY ONLY <1>1, <1>2
  <2>2. Around(u, n + 1)
    BY ONLY <1>1, <1>5, <1>6 DEF Around, Quiet
  <2>3. u.rows[n + 1].status = "PENDING"
    BY ONLY <1>1, <1>6, <2>1
  <2> QED BY ONLY <2>1, <2>2, <2>3 DEF Reached
<1>8. Born(b, u)
  <2>1. Born(b, t) /\ u.child = t.child
    OBVIOUS
  <2> QED BY ONLY <1>1, <2>1 DEF Born
<1>9. JoinsDone(b, u)
  <2>1. JoinsDone(b, t) /\ u.child = t.child
    OBVIOUS
  <2> SUFFICES ASSUME NEW i \in DOMAIN u.rows, b[u.rows[i].node].kind = "join",
                      u.rows[i].status = "COMPLETED"
               PROVE  /\ KidsOf(u, b[u.rows[i].node].of) # {}
                      /\ \A c \in KidsOf(u, b[u.rows[i].node].of) : u.child[c] # "RUNNING"
    BY DEF JoinsDone
  <2>2. i \in DOMAIN old /\ u.rows[i] = old[i]
    <3>1. ~ (i >= n + 1)
      BY ONLY <1>6, u.rows[i].status = "COMPLETED", i \in DOMAIN u.rows
    <3> QED BY ONLY <1>1, <3>1, i \in DOMAIN u.rows
  <2> QED BY <2>1, <2>2 DEF JoinsDone, KidsOf
<1>10. DelayTail(b, u)
  <2> SUFFICES ASSUME NEW i \in DOMAIN u.rows, NEW j \in DOMAIN u.rows, i < j,
                      u.rows[i].node \in LoopNodes(b),
                      u.rows[j].node # u.rows[i].node \/ u.rows[j].iter # u.rows[i].iter
               PROVE  Done(u.rows[i])
    BY DEF DelayTail
  <2>1. CASE i < n + 1
    BY <1>6, <2>1
  <2>2. CASE i >= n + 1
    <3>1. /\ i - n \in DOMAIN new /\ j - n \in DOMAIN new /\ i - n < j - n
          /\ u.rows[i] = new[i - n] /\ u.rows[j] = new[j - n]
      <4>1. i \in DOMAIN u.rows /\ j \in DOMAIN u.rows /\ i < j
        OBVIOUS
      <4>2. i \in Nat /\ j \in Nat /\ i > n /\ j > n
        BY ONLY <1>1, <2>2, <4>1
      <4>3. i \notin DOMAIN old /\ j \notin DOMAIN old
        BY ONLY <1>1, <4>2
      <4>4. /\ i - n \in DOMAIN new /\ u.rows[i] = new[i - n]
            /\ j - n \in DOMAIN new /\ u.rows[j] = new[j - n]
        BY ONLY <1>1, <4>1, <4>3
      <4> QED BY ONLY <1>1, <4>1, <4>2, <4>4
    <3>2. \A k, m \in DOMAIN new : k < m /\ new[k].node \in LoopNodes(b) =>
             new[m].node = new[k].node /\ new[m].iter = new[k].iter
      OBVIOUS
    <3>3. new[i - n].node \in LoopNodes(b)
      BY <3>1
    <3>4. new[j - n].node = new[i - n].node /\ new[j - n].iter = new[i - n].iter
      BY ONLY <3>1, <3>2, <3>3
    <3> QED BY <3>1, <3>4
  <2>3. n \in Nat /\ i \in Nat
    BY ONLY <1>1, i \in DOMAIN u.rows
  <2> QED BY <2>1, <2>2, <2>3
<1> QED BY <1>7, <1>8, <1>9, <1>10

\* The rows end with a pass of a loop: it is the last pass there is, and no row
\* stands behind the loop.
LEMMA AtTheEnd ==
    ASSUME NEW b \in Blueprints, NEW t \in Tx(b), Layout(b, t)
    PROVE  LET i == Len(t.rows)
               n == t.rows[i].node
           IN  /\ i \in DOMAIN t.rows /\ n \in DOMAIN b /\ n = t.cursor - 1
               /\ t.cursor \in 1 .. Len(b) + 1
               /\ \A j \in DOMAIN t.rows : t.rows[j].node <= n
               /\ n \notin LoopNodes(b) => t.cursor = Len(b) + 1
               /\ n \in LoopNodes(b) =>
                     /\ t.rows[i].pos = Len(b[n].body) /\ t.rows[i].iter >= 1
                     /\ t.rows[i].iter <= t.loops[n].iter /\ t.loops[n].iter <= b[n].max
                     /\ b[n].max \in Nat /\ t.loops[n].iter \in Nat
                     /\ \A j \in DOMAIN t.rows : t.rows[j].node = n =>
                           t.rows[j].iter <= t.rows[i].iter
<1> DEFINE i == Len(t.rows)
           n == t.rows[i].node
<1>1. /\ t.rows # << >> /\ t.rows \in Seq(Row) /\ i \in Nat
      /\ DOMAIN t.rows = 1 .. i
  BY DEF Layout, Covered, Tx
<1>2. i \in DOMAIN t.rows /\ i >= 1
  BY ONLY <1>1
<1>3. n \in DOMAIN b /\ Fits(b, t.rows[i])
  BY <1>2 DEF Layout, Placed, Fits
<1>4. \A j \in DOMAIN t.rows :
         /\ t.rows[j].node \in Nat /\ t.rows[j].iter \in Nat /\ t.rows[j].pos \in Nat
  <2> TAKE j \in DOMAIN t.rows
  <2>1. t.rows[j].node \in Nodes /\ t.rows[j].iter \in Nat /\ t.rows[j].pos \in Nat
    BY RowTypes
  <2>2. t.rows[j].node \in DOMAIN b
    BY DEF Layout, Placed, Fits
  <2>3. DOMAIN b \subseteq Nat
    BY BlueprintFacts
  <2> QED BY <2>1, <2>2, <2>3
<1>5. \A j \in DOMAIN t.rows :
         t.rows[j].node <= n /\ (t.rows[j].node = n => t.rows[j].iter <= t.rows[i].iter)
  <2>1. Sorted(t)
    BY DEF Layout
  <2> SUFFICES ASSUME NEW j \in DOMAIN t.rows
               PROVE  t.rows[j].node <= n /\ (t.rows[j].node = n => t.rows[j].iter <= t.rows[i].iter)
    OBVIOUS
  <2>2. CASE j = i
    BY <1>2, <1>4, <2>2
  <2>3. CASE j # i
    <3>1. j < i
      BY ONLY <1>1, <2>3, j \in DOMAIN t.rows
    <3>2. Before(t.rows[j], t.rows[i])
      BY <1>2, <2>1, <3>1 DEF Sorted
    <3> QED BY ONLY <1>2, <1>4, <3>2, j \in DOMAIN t.rows DEF Before
  <2> QED BY <2>2, <2>3
<1>6. n \in LoopNodes(b) <=> b[n].kind = "loop"
  BY <1>3 DEF LoopNodes
<1>7. /\ n = t.cursor - 1
      /\ b[n].kind = "loop" => t.rows[i].pos = Len(b[n].body)
      /\ b[n].kind # "loop" => t.cursor = Len(b) + 1
  BY DEF Layout, EndsWhole
<1>8. t.cursor \in 1 .. Len(b) + 1
  BY DEF Layout, Covered
<1>9. ASSUME n \in LoopNodes(b)
      PROVE  /\ t.loops[n].iter \in 1 .. b[n].max /\ b[n].max \in Nat
             /\ t.rows[i].iter <= t.loops[n].iter
             /\ t.rows[i].iter >= 1
  <2>1. Counted(b, t)
    BY DEF Layout
  <2>2. t.loops[n].iter \in 1 .. b[n].max /\ t.rows[i].iter <= t.loops[n].iter
    BY ONLY <1>2, <1>9, <2>1 DEF Counted
  <2>3. b[n].max \in Nat
    BY <1>9, BlueprintFacts
  <2>4. t.rows[i].iter >= 1
    BY ONLY <1>3, <1>6, <1>9 DEF Fits
  <2> QED BY <2>2, <2>3, <2>4
<1>10. n \in LoopNodes(b) => t.loops[n].iter \in Nat /\ t.loops[n].iter <= b[n].max
  BY ONLY <1>9
<1> HIDE DEF i, n
<1>11. /\ i \in DOMAIN t.rows /\ n \in DOMAIN b /\ n = t.cursor - 1
       /\ \A j \in DOMAIN t.rows : t.rows[j].node <= n
       /\ n \notin LoopNodes(b) => t.cursor = Len(b) + 1
  BY ONLY <1>2, <1>3, <1>5, <1>6, <1>7
<1>12. n \in LoopNodes(b) =>
          /\ t.rows[i].pos = Len(b[n].body) /\ t.rows[i].iter >= 1
          /\ t.rows[i].iter <= t.loops[n].iter /\ t.loops[n].iter <= b[n].max
          /\ b[n].max \in Nat /\ t.loops[n].iter \in Nat
          /\ \A j \in DOMAIN t.rows : t.rows[j].node = n => t.rows[j].iter <= t.rows[i].iter
  BY ONLY <1>5, <1>6, <1>7, <1>9, <1>10
<1> QED BY ONLY <1>8, <1>11, <1>12 DEF i, n

\* The rows of a transaction, by number.
LEMMA Numbers ==
    ASSUME NEW b \in Blueprints, NEW t \in Tx(b), Placed(b, t)
    PROVE  /\ \A j \in DOMAIN t.rows : /\ t.rows[j].node \in Nat /\ t.rows[j].node \in DOMAIN b
                                       /\ t.rows[j].iter \in Nat /\ t.rows[j].pos \in Nat
           /\ t.rows \in Seq(Row) /\ Len(t.rows) \in Nat /\ DOMAIN t.rows = 1 .. Len(t.rows)
<1>1. ASSUME NEW j \in DOMAIN t.rows
      PROVE  /\ t.rows[j].node \in Nat /\ t.rows[j].node \in DOMAIN b
             /\ t.rows[j].iter \in Nat /\ t.rows[j].pos \in Nat
  <2>1. t.rows[j].iter \in Nat /\ t.rows[j].pos \in Nat
    BY RowTypes
  <2>2. t.rows[j].node \in DOMAIN b /\ DOMAIN b \subseteq Nat
    BY BlueprintFacts DEF Placed, Fits
  <2> QED BY <2>1, <2>2
<1>2. t.rows \in Seq(Row)
  BY DEF Tx
<1>3. Len(t.rows) \in Nat /\ DOMAIN t.rows = 1 .. Len(t.rows)
  BY ONLY <1>2
<1> QED BY <1>1, <1>2, <1>3

LEMMA MintedCovered ==
    ASSUME NEW b, NEW t, NEW u, NEW new \in Seq(Row), t.rows \in Seq(Row), u.rows = t.rows \o new,
           Covered(b, t), Len(b) \in Nat, u.cursor \in 1 .. Len(b) + 1, t.cursor <= u.cursor,
           \A j \in DOMAIN t.rows : t.rows[j].node \in Nat,
           \A k \in DOMAIN new : new[k].node < u.cursor,
           \A m \in t.cursor .. u.cursor - 1 : \E k \in DOMAIN new : new[k].node = m
    PROVE  Covered(b, u)
<1>1. /\ Len(t.rows) \in Nat /\ Len(new) \in Nat /\ DOMAIN t.rows = 1 .. Len(t.rows)
      /\ Len(u.rows) = Len(t.rows) + Len(new) /\ u.rows \in Seq(Row)
      /\ \A j \in DOMAIN t.rows : j \in DOMAIN u.rows /\ u.rows[j] = t.rows[j]
      /\ \A k \in DOMAIN new : /\ Len(t.rows) + k \in DOMAIN u.rows
                               /\ u.rows[Len(t.rows) + k] = new[k]
      /\ \A j \in DOMAIN u.rows :
            \/ j \in DOMAIN t.rows /\ u.rows[j] = t.rows[j]
            \/ /\ j - Len(t.rows) \in DOMAIN new /\ j > Len(t.rows)
               /\ u.rows[j] = new[j - Len(t.rows)]
  BY ONLY new \in Seq(Row), t.rows \in Seq(Row), u.rows = t.rows \o new, Appended
<1>2. t.cursor \in 1 .. Len(b) + 1
  BY DEF Covered
<1>3. t.cursor \in Nat /\ u.cursor \in Nat /\ t.cursor >= 1
  BY ONLY <1>2, Len(b) \in Nat, u.cursor \in 1 .. Len(b) + 1
<1>4. ASSUME NEW j \in DOMAIN u.rows PROVE u.rows[j].node < u.cursor
  <2>1. CASE j \in DOMAIN t.rows /\ u.rows[j] = t.rows[j]
    <3>1. t.rows[j].node < t.cursor /\ t.rows[j].node \in Nat
      BY <2>1 DEF Covered
    <3> QED BY <1>3, <2>1, <3>1
  <2>2. CASE j - Len(t.rows) \in DOMAIN new /\ u.rows[j] = new[j - Len(t.rows)]
    BY <2>2
  <2> QED BY <1>1, <2>1, <2>2
<1>5. ASSUME NEW m \in 1 .. u.cursor - 1 PROVE \E j \in DOMAIN u.rows : u.rows[j].node = m
  <2>1. CASE m < t.cursor
    <3>1. m \in 1 .. t.cursor - 1
      BY <1>3, <2>1
    <3>2. PICK j \in DOMAIN t.rows : t.rows[j].node = m
      BY <3>1 DEF Covered
    <3> QED BY <1>1, <3>2
  <2>2. CASE m >= t.cursor
    <3>1. m \in t.cursor .. u.cursor - 1
      BY <1>3, <2>2
    <3>2. PICK k \in DOMAIN new : new[k].node = m
      BY <3>1
    <3> QED BY <1>1, <3>2
  <2> QED BY <1>3, <2>1, <2>2
<1>6. u.rows # << >>
  <2>1. t.rows # << >>
    BY DEF Covered
  <2>2. Len(u.rows) > 0
    BY ONLY <1>1, <2>1, t.rows \in Seq(Row)
  <2> QED BY ONLY <1>1, <2>2
<1> QED BY <1>4, <1>5, <1>6 DEF Covered

LEMMA MintedEnds ==
    ASSUME NEW b, NEW t, NEW u, NEW new \in Seq(Row), t.rows \in Seq(Row), u.rows = t.rows \o new,
           new # << >>,
           new[Len(new)].node = u.cursor - 1,
           b[new[Len(new)].node].kind = "loop" =>
               new[Len(new)].pos = Len(b[new[Len(new)].node].body),
           b[new[Len(new)].node].kind # "loop" => u.cursor = Len(b) + 1
    PROVE  EndsWhole(b, u)
<1>1. u.rows[Len(u.rows)] = new[Len(new)]
  <2>1. Len(new) \in DOMAIN new
    BY ONLY new \in Seq(Row), new # << >>
  <2> QED BY ONLY new \in Seq(Row), t.rows \in Seq(Row), u.rows = t.rows \o new, Appended, <2>1
<1> QED BY <1>1 DEF EndsWhole

LEMMA MintedCounted ==
    ASSUME NEW b, NEW t, NEW u, NEW new \in Seq(Row), t.rows \in Seq(Row), u.rows = t.rows \o new,
           \A m \in LoopNodes(b) : u.loops[m].iter \in 1 .. b[m].max,
           \A j \in DOMAIN t.rows : t.rows[j].node \in LoopNodes(b) =>
               t.rows[j].iter <= u.loops[t.rows[j].node].iter,
           \A k \in DOMAIN new : new[k].node \in LoopNodes(b) =>
               new[k].iter <= u.loops[new[k].node].iter
    PROVE  Counted(b, u)
<1>1. \A j \in DOMAIN u.rows :
            \/ j \in DOMAIN t.rows /\ u.rows[j] = t.rows[j]
            \/ /\ j - Len(t.rows) \in DOMAIN new /\ j > Len(t.rows)
               /\ u.rows[j] = new[j - Len(t.rows)]
  BY ONLY new \in Seq(Row), t.rows \in Seq(Row), u.rows = t.rows \o new, Appended
<1>2. ASSUME NEW j \in DOMAIN u.rows, u.rows[j].node \in LoopNodes(b)
      PROVE  u.rows[j].iter <= u.loops[u.rows[j].node].iter
  <2>1. CASE j \in DOMAIN t.rows /\ u.rows[j] = t.rows[j]
    BY <1>2, <2>1
  <2>2. CASE j - Len(t.rows) \in DOMAIN new /\ u.rows[j] = new[j - Len(t.rows)]
    BY <1>2, <2>2
  <2> QED BY <1>1, <2>1, <2>2
<1> QED BY <1>2 DEF Counted

\* All that the minted rows of the step n, or behind it, have to do with Left.
LeftAlone(b, t, u, new, n) ==
    /\ Left(b, t) /\ n = t.rows[Len(t.rows)].node /\ Len(t.rows) \in DOMAIN t.rows
    /\ \A m \in LoopNodes(b) : m # n => u.loops[m] = t.loops[m]
    /\ \/ \A k \in DOMAIN new : new[k].node = n
       \/ u.loops[n].status = "exited"
    /\ \A k, m \in DOMAIN new : k < m /\ new[k].node \in LoopNodes(b) =>
           new[m].node = new[k].node
    /\ \A j, m \in DOMAIN t.rows : j < m /\ t.rows[j].node = n => t.rows[m].node = n

\* Behind the last loop n there are rows of n only, or n has been left.
LEMMA MintedLeft ==
    ASSUME NEW b, NEW t, NEW u, NEW new \in Seq(Row), t.rows \in Seq(Row), u.rows = t.rows \o new,
           NEW n, LeftAlone(b, t, u, new, n)
    PROVE  Left(b, u)
<1>1. /\ Len(t.rows) \in Nat /\ Len(new) \in Nat /\ DOMAIN t.rows = 1 .. Len(t.rows)
      /\ DOMAIN u.rows = 1 .. Len(t.rows) + Len(new)
      /\ \A j \in DOMAIN u.rows :
            \/ j \in DOMAIN t.rows /\ u.rows[j] = t.rows[j]
            \/ /\ j - Len(t.rows) \in DOMAIN new /\ j > Len(t.rows)
               /\ u.rows[j] = new[j - Len(t.rows)]
  BY ONLY new \in Seq(Row), t.rows \in Seq(Row), u.rows = t.rows \o new, Appended
<1>0. /\ Left(b, t) /\ n = t.rows[Len(t.rows)].node /\ Len(t.rows) \in DOMAIN t.rows
      /\ \A m \in LoopNodes(b) : m # n => u.loops[m] = t.loops[m]
      /\ \/ \A k \in DOMAIN new : new[k].node = n
         \/ u.loops[n].status = "exited"
      /\ \A k, m \in DOMAIN new : k < m /\ new[k].node \in LoopNodes(b) =>
             new[m].node = new[k].node
      /\ \A j, m \in DOMAIN t.rows : j < m /\ t.rows[j].node = n => t.rows[m].node = n
  BY DEF LeftAlone
<1> SUFFICES ASSUME NEW j \in DOMAIN u.rows, NEW k \in DOMAIN u.rows, j < k,
                    u.rows[j].node \in LoopNodes(b), u.rows[k].node # u.rows[j].node
             PROVE  u.loops[u.rows[j].node].status = "exited"
  BY DEF Left
<1>2. j \in Nat /\ k \in Nat
  BY ONLY <1>1, j \in DOMAIN u.rows, k \in DOMAIN u.rows
<1>3. CASE j \notin DOMAIN t.rows
  <2>1. j > Len(t.rows) /\ j - Len(t.rows) \in DOMAIN new /\ u.rows[j] = new[j - Len(t.rows)]
    BY ONLY <1>1, <1>3, j \in DOMAIN u.rows
  <2>2. k \notin DOMAIN t.rows
    BY ONLY <1>1, <1>2, <2>1, j < k
  <2>3. k - Len(t.rows) \in DOMAIN new /\ u.rows[k] = new[k - Len(t.rows)]
    BY ONLY <1>1, <2>2, k \in DOMAIN u.rows
  <2>4. j - Len(t.rows) < k - Len(t.rows)
    BY ONLY <1>1, <1>2, j < k
  <2> QED BY <1>0, <2>1, <2>3, <2>4
<1>4. CASE j \in DOMAIN t.rows
  <2>1. u.rows[j] = t.rows[j]
    BY ONLY <1>1, <1>4, j \in DOMAIN u.rows
  <2>2. CASE t.rows[j].node = n
    <3>1. k \notin DOMAIN t.rows
      <4> SUFFICES ASSUME k \in DOMAIN t.rows PROVE FALSE
        OBVIOUS
      <4>1. u.rows[k] = t.rows[k]
        BY ONLY <1>1, k \in DOMAIN u.rows, k \in DOMAIN t.rows
      <4>3. t.rows[k].node = n
        BY <1>0, <1>4, <2>2
      <4> QED BY <2>1, <2>2, <4>1, <4>3
    <3>2. k - Len(t.rows) \in DOMAIN new /\ u.rows[k] = new[k - Len(t.rows)]
      BY ONLY <1>1, <3>1, k \in DOMAIN u.rows
    <3>3. new[k - Len(t.rows)].node # n
      BY <2>1, <2>2, <3>2
    <3> QED BY <1>0, <2>1, <2>2, <3>2, <3>3
  <2>3. CASE t.rows[j].node # n
    <3>1. Len(t.rows) > j
      BY <1>0, <1>1, <1>4, <2>3
    <3>2. t.loops[t.rows[j].node].status = "exited"
      BY <1>0, <1>4, <2>1, <2>3, <3>1 DEF Left
    <3> QED BY <1>0, <2>1, <2>3, <3>2
  <2> QED BY <2>2, <2>3
<1> QED BY <1>3, <1>4

\* The next pass begins.
LEMMA ContinueLoopGood ==
    ASSUME blueprint \in Blueprints, NEW e, NEW t \in Tx(blueprint),
           Sound(blueprint, t), EndingOk(t.child, e), NEW i, i = Len(t.rows),
           Passed(blueprint, t, i), t.rows[i].node \in LoopNodes(blueprint),
           ~ Exhausted(t.rows[i])
    PROVE  GoodCall(blueprint, e, ContinueLoop(t, i))
<1>0. PICK b \in Blueprints : b = blueprint
  OBVIOUS
<1>1. PICK n : n = t.rows[i].node
  OBVIOUS
<1>2. PICK next : next = t.rows[i].iter + 1
  OBVIOUS
<1>3. /\ t \in Tx(b) /\ Sound(b, t) /\ Passed(b, t, Len(t.rows)) /\ n \in LoopNodes(b)
      /\ Layout(b, t) /\ Placed(b, t) /\ Sorted(t) /\ Whole(b, t) /\ Counted(b, t)
      /\ Left(b, t) /\ Covered(b, t) /\ Born(b, t) /\ JoinsDone(b, t)
  BY <1>0, <1>1 DEF Sound, Layout
<1>4. /\ i \in DOMAIN t.rows /\ n \in DOMAIN b /\ n = t.cursor - 1
      /\ t.cursor \in 1 .. Len(b) + 1
      /\ \A j \in DOMAIN t.rows : t.rows[j].node <= n
      /\ t.rows[i].pos = Len(b[n].body) /\ t.rows[i].iter >= 1
      /\ t.rows[i].iter <= t.loops[n].iter /\ t.loops[n].iter <= b[n].max
      /\ b[n].max \in Nat /\ t.loops[n].iter \in Nat
      /\ \A j \in DOMAIN t.rows : t.rows[j].node = n => t.rows[j].iter <= t.rows[i].iter
  BY <1>0, <1>1, <1>3, AtTheEnd
<1>5. /\ \A j \in DOMAIN t.rows : /\ t.rows[j].node \in Nat /\ t.rows[j].node \in DOMAIN b
                                  /\ t.rows[j].iter \in Nat /\ t.rows[j].pos \in Nat
      /\ t.rows \in Seq(Row) /\ Len(t.rows) \in Nat /\ DOMAIN t.rows = 1 .. Len(t.rows)
  BY ONLY <1>0, <1>3, Numbers
<1>6. t.rows[i].iter \in Nat /\ t.cursor \in Nat /\ n \in Nat /\ t.rows \in Seq(Row)
      /\ Len(b) \in Nat /\ b[n].kind = "loop" /\ n = t.rows[Len(t.rows)].node
  BY <1>1, <1>3, <1>4, <1>5, BlueprintFacts DEF Tx, LoopNodes
<1>7. next \in Nat /\ next >= 1 /\ next \in 1 .. b[n].max /\ t.rows[i].iter = next - 1
  <2>1. ~ (t.rows[i].iter >= b[n].max)
    BY <1>0, <1>1 DEF Exhausted
  <2>2. t.rows[i].iter \in Nat /\ t.rows[i].iter >= 1 /\ b[n].max \in Nat
    BY <1>4, <1>6
  <2> QED BY ONLY <1>2, <2>1, <2>2
<1>8. PICK x \in LoopState : x = [iter |-> next, status |-> "running"]
  BY <1>7 DEF LoopState
<1>9. PICK new \in Seq(Row) : new = Body(b, n, next)
  BY <1>3, <1>7, BodyFacts
<1>10. PICK u : u = MintedTx(t, n, x, t.cursor, new)
  OBVIOUS
<1>11. ContinueLoop(t, i) = ThenSchedule(u, Len(t.rows) + 1)
  <2>1. [t EXCEPT !.loops[n] = x] = [t EXCEPT !.loops[n] = x, !.cursor = t.cursor]
    BY DEF Tx
  <2>2. ContinueLoop(t, i) = Mint([t EXCEPT !.loops[n] = x], new)
    BY <1>0, <1>1, <1>2, <1>8, <1>9 DEF ContinueLoop
  <2>3. [t EXCEPT !.loops[n] = x, !.cursor = t.cursor].rows = t.rows
    BY DEF Tx
  <2> QED BY ONLY <1>10, <2>1, <2>2, <2>3 DEF Mint, MintedTx
<1>12. /\ u \in Tx(b) /\ u.rows = t.rows \o new /\ u.cursor = t.cursor
       /\ u.parent = t.parent /\ u.child = t.child
       /\ \A m \in LoopNodes(b) : u.loops[m] = IF m = n THEN x ELSE t.loops[m]
  <2>1. t \in Tx(b) /\ n \in LoopNodes(b) /\ t.cursor \in Nat
    BY <1>3, <1>6
  <2> QED BY ONLY <1>10, <2>1, new \in Seq(Row), x \in LoopState, MintWrites
<1>13. /\ Len(new) = Len(b[n].body) /\ DOMAIN new = 1 .. Len(b[n].body) /\ new # << >>
       /\ \A k \in DOMAIN new : /\ Fits(b, new[k])
                                /\ new[k].node = n /\ new[k].iter = next
                                /\ new[k].pos = k
                                /\ new[k].status = "PENDING"
                                /\ new[k].error = "none" /\ new[k].undo = "none"
       /\ \A k, m \in DOMAIN new : k < m => Before(new[k], new[m])
  BY <1>3, <1>7, <1>9, BodyFacts, BodyFits
<1>14. u.rows = t.rows \o new /\ new # << >> /\ Len(b[n].body) \in Nat
  BY <1>3, <1>12, <1>13, BlueprintFacts
<1>15. \A k, m \in DOMAIN new : k < m /\ new[k].node \in LoopNodes(b) =>
           new[m].node = new[k].node /\ new[m].iter = new[k].iter
  BY ONLY <1>13
<1>16. /\ Reached(b, u, Len(t.rows) + 1)
       /\ Born(b, u) /\ JoinsDone(b, u) /\ DelayTail(b, u)
  <2>1. \A k \in DOMAIN new : /\ new[k].status = "PENDING"
                              /\ new[k].error = "none" /\ new[k].undo = "none"
    BY ONLY <1>13
  <2>2. u.parent = t.parent /\ u.child = t.child /\ t.rows \in Seq(Row)
    BY <1>6, <1>12
  <2>3. Passed(b, t, Len(t.rows)) /\ Born(b, t) /\ JoinsDone(b, t)
    BY <1>3
  <2> QED BY ONLY <1>14, <1>15, <2>1, <2>2, <2>3, new \in Seq(Row), MintedReached
<1>17. \A j \in DOMAIN t.rows : \A k \in DOMAIN new : Before(t.rows[j], new[k])
  <2> SUFFICES ASSUME NEW j \in DOMAIN t.rows, NEW k \in DOMAIN new
               PROVE  Before(t.rows[j], new[k])
    OBVIOUS
  <2>1. /\ t.rows[j].node <= n /\ (t.rows[j].node = n => t.rows[j].iter <= next - 1)
        /\ t.rows[j].node \in Nat /\ t.rows[j].iter \in Nat
    BY <1>4, <1>5, <1>7
  <2>2. new[k].node = n /\ new[k].iter = next
    BY <1>13
  <2> QED BY ONLY <1>6, <1>7, <2>1, <2>2 DEF Before
<1>18. Placed(b, u) /\ Sorted(u) /\ Whole(b, u)
  <2>1. Placed(b, t) /\ Sorted(t) /\ Whole(b, t) /\ t.rows \in Seq(Row)
    BY <1>3, <1>6
  <2>2. /\ \A k \in DOMAIN new : Fits(b, new[k])
        /\ \A k, m \in DOMAIN new : k < m => Before(new[k], new[m])
    BY ONLY <1>13
  <2>3. ASSUME NEW k \in DOMAIN new, b[new[k].node].kind = "loop",
               NEW it \in 1 .. new[k].iter, NEW p \in 1 .. Len(b[new[k].node].body)
        PROVE  Held(t.rows, new[k].node, it, p) \/ Held(new, new[k].node, it, p)
    <3>1. new[k].node = n /\ new[k].iter = next
      BY <1>13
    <3>2. p \in 1 .. Len(b[n].body) /\ it \in 1 .. next
      BY <3>1
    <3>3. CASE it = next
      <4>1. p \in DOMAIN new
        BY <1>13, <3>2
      <4>2. new[p].node = n /\ new[p].iter = it /\ new[p].pos = p
        BY <1>13, <3>3, <4>1
      <4> QED BY ONLY <3>1, <4>1, <4>2 DEF Held
    <3>4. CASE it # next
      <4>1. it \in 1 .. t.rows[i].iter
        BY ONLY <1>6, <1>7, <3>2, <3>4
      <4>2. t.rows[i].node = n /\ i \in DOMAIN t.rows
        BY <1>1, <1>4
      <4>3. Held(t.rows, n, it, p)
        BY ONLY <1>6, <2>1, <3>2, <4>1, <4>2 DEF Whole
      <4> QED BY ONLY <3>1, <4>3
    <3> QED BY <3>3, <3>4
  <2> QED BY ONLY <1>14, <1>17, <2>1, <2>2, <2>3, new \in Seq(Row), Extended
<1>19. Covered(b, u)
  <2>1. \A k \in DOMAIN new : new[k].node < u.cursor
    BY ONLY <1>4, <1>6, <1>12, <1>13
  <2>2. t.cursor <= u.cursor /\ u.cursor \in 1 .. Len(b) + 1
    BY ONLY <1>4, <1>6, <1>12
  <2>3. \A m \in t.cursor .. u.cursor - 1 : \E k \in DOMAIN new : new[k].node = m
    BY ONLY <1>6, <1>12
  <2>4. \A j \in DOMAIN t.rows : t.rows[j].node \in Nat
    BY <1>5
  <2>5. Covered(b, t) /\ t.rows \in Seq(Row) /\ Len(b) \in Nat
    BY <1>3, <1>6
  <2> QED BY ONLY <1>14, <2>1, <2>2, <2>3, <2>4, <2>5, new \in Seq(Row), MintedCovered
<1>20. EndsWhole(b, u)
  <2>1. Len(new) \in DOMAIN new
    BY ONLY <1>13, new \in Seq(Row)
  <2>2. new[Len(new)].node = n /\ new[Len(new)].pos = Len(b[n].body)
    BY <1>13, <2>1
  <2>3. new[Len(new)].node = u.cursor - 1
    BY <1>4, <1>12, <2>2
  <2>4. b[new[Len(new)].node].kind = "loop" => new[Len(new)].pos = Len(b[new[Len(new)].node].body)
    BY <2>2
  <2>5. b[new[Len(new)].node].kind # "loop" => u.cursor = Len(b) + 1
    BY <1>6, <2>2
  <2> QED BY ONLY <1>6, <1>14, <2>3, <2>4, <2>5, new \in Seq(Row), MintedEnds
<1>21. x.iter = next
  BY <1>8
<1>22. Counted(b, u)
  <2>1. \A m \in LoopNodes(b) : t.loops[m].iter \in 1 .. b[m].max
    BY <1>3 DEF Counted
  <2>2. \A m \in LoopNodes(b) : u.loops[m].iter \in 1 .. b[m].max
    BY ONLY <1>7, <1>12, <1>21, <2>1
  <2>3. ASSUME NEW j \in DOMAIN t.rows, t.rows[j].node \in LoopNodes(b)
        PROVE  t.rows[j].iter <= u.loops[t.rows[j].node].iter
    <3>1. CASE t.rows[j].node = n
      <4>1. u.loops[n].iter = next /\ t.rows[j].iter <= next - 1 /\ t.rows[j].iter \in Nat
        BY <1>3, <1>4, <1>5, <1>7, <1>12, <1>21, <3>1
      <4> QED BY ONLY <1>7, <3>1, <4>1
    <3>2. CASE t.rows[j].node # n
      <4>1. u.loops[t.rows[j].node] = t.loops[t.rows[j].node]
        BY <1>12, <2>3, <3>2
      <4> QED BY <1>3, <2>3, <4>1 DEF Counted
    <3> QED BY <3>1, <3>2
  <2>4. ASSUME NEW k \in DOMAIN new, new[k].node \in LoopNodes(b)
        PROVE  new[k].iter <= u.loops[new[k].node].iter
    <3>1. new[k].node = n /\ new[k].iter = next
      BY <1>13
    <3>2. u.loops[n].iter = next
      BY <1>3, <1>12, <1>21
    <3> QED BY ONLY <1>7, <3>1, <3>2
  <2> QED BY ONLY <1>6, <1>14, <2>2, <2>3, <2>4, new \in Seq(Row), MintedCounted
<1>23. Left(b, u)
  <2>1. \A m \in LoopNodes(b) : m # n => u.loops[m] = t.loops[m]
    BY <1>12
  <2>2. \A k \in DOMAIN new : new[k].node = n
    BY <1>13
  <2>3. \A k, m \in DOMAIN new : k < m /\ new[k].node \in LoopNodes(b) =>
           new[m].node = new[k].node
    BY <2>2
  <2>4. \A j, m \in DOMAIN t.rows : j < m /\ t.rows[j].node = n => t.rows[m].node = n
    <3> SUFFICES ASSUME NEW j \in DOMAIN t.rows, NEW m \in DOMAIN t.rows, j < m,
                        t.rows[j].node = n
                 PROVE  t.rows[m].node = n
      OBVIOUS
    <3>1. Before(t.rows[j], t.rows[m])
      BY <1>3 DEF Sorted
    <3>2. t.rows[m].node <= n /\ t.rows[m].node \in Nat /\ t.rows[j].node = n
      BY <1>4, <1>5
    <3> QED BY ONLY <1>6, <3>1, <3>2 DEF Before
  <2>5. Left(b, t) /\ t.rows \in Seq(Row) /\ n = t.rows[Len(t.rows)].node
        /\ Len(t.rows) \in DOMAIN t.rows
    BY <1>3, <1>4, <1>6
  <2>6. (\A k \in DOMAIN new : new[k].node = n) \/ u.loops[n].status = "exited"
    BY <2>2
  <2>7. u.rows = t.rows \o new
    BY <1>14
  <2>8. LeftAlone(b, t, u, new, n)
    BY ONLY <2>1, <2>3, <2>4, <2>5, <2>6 DEF LeftAlone
  <2> QED BY ONLY <2>5, <2>7, <2>8, new \in Seq(Row), MintedLeft
<1>24. Sound(b, u)
  BY ONLY <1>12, <1>16, <1>18, <1>19, <1>20, <1>22, <1>23 DEF Sound, Layout
<1>25. Len(t.rows) + 1 \in Nat /\ EndingOk(u.child, e)
  BY <1>5, <1>12
<1> QED BY <1>0, <1>11, <1>12, <1>16, <1>24, <1>25, GoodSchedule

\* A loop is counted on, and no rows are minted.
CountedTx(t, n, x) == [t EXCEPT !.loops[n] = x, !.cursor = t.cursor]

LEMMA CountWrites ==
    ASSUME NEW b, NEW t \in Tx(b), NEW n \in LoopNodes(b), NEW x \in LoopState
    PROVE  LET u == CountedTx(t, n, x)
           IN  /\ u \in Tx(b) /\ u.rows = t.rows /\ u.cursor = t.cursor
               /\ u.parent = t.parent /\ u.child = t.child
               /\ \A m \in LoopNodes(b) : u.loops[m] = IF m = n THEN x ELSE t.loops[m]
<1> DEFINE lps == [t.loops EXCEPT ![n] = x]
           u == CountedTx(t, n, x)
<1>1. /\ lps \in [LoopNodes(b) -> LoopState]
      /\ \A m \in LoopNodes(b) : lps[m] = IF m = n THEN x ELSE t.loops[m]
  BY DEF Tx
<1>2. u = [t EXCEPT !.loops = lps]
  BY DEF Tx, CountedTx
<1> HIDE DEF lps, u
<1>3. /\ u \in Tx(b) /\ u.rows = t.rows /\ u.cursor = t.cursor /\ u.parent = t.parent
      /\ u.child = t.child /\ u.loops = lps
  BY <1>1, <1>2 DEF Tx
<1> QED BY <1>1, <1>3 DEF u

\* The last pass is what context.loops counts.
LEMMA CountedLayout ==
    ASSUME NEW b \in Blueprints, NEW t \in Tx(b), Layout(b, t), NEW n,
           n = t.rows[Len(t.rows)].node, n \in LoopNodes(b), NEW x \in LoopState,
           x.iter = t.rows[Len(t.rows)].iter
    PROVE  Layout(b, CountedTx(t, n, x))
<1>1. PICK i : i = Len(t.rows)
  OBVIOUS
<1>2. PICK u : u = CountedTx(t, n, x)
  OBVIOUS
<1>3. /\ u \in Tx(b) /\ u.rows = t.rows /\ u.cursor = t.cursor
      /\ \A m \in LoopNodes(b) : u.loops[m] = IF m = n THEN x ELSE t.loops[m]
  BY <1>2, CountWrites
<1>4. /\ i \in DOMAIN t.rows /\ n \in DOMAIN b
      /\ \A j \in DOMAIN t.rows : t.rows[j].node <= n
      /\ t.rows[i].iter >= 1
      /\ t.rows[i].iter <= t.loops[n].iter /\ t.loops[n].iter <= b[n].max
      /\ b[n].max \in Nat /\ t.loops[n].iter \in Nat
      /\ \A j \in DOMAIN t.rows : t.rows[j].node = n => t.rows[j].iter <= t.rows[i].iter
  BY <1>1, AtTheEnd
<1>5. /\ Placed(b, t) /\ Sorted(t) /\ Covered(b, t) /\ Whole(b, t) /\ Counted(b, t)
      /\ Left(b, t) /\ EndsWhole(b, t)
  BY DEF Layout
<1>6. /\ \A j \in DOMAIN t.rows : t.rows[j].node \in Nat /\ t.rows[j].iter \in Nat
      /\ x.iter = t.rows[i].iter
  BY <1>1, <1>5, Numbers
<1>7. n \in LoopNodes(b) /\ n \in Nat
  BY <1>4, BlueprintFacts
<1>8. Placed(b, u) /\ Sorted(u) /\ Covered(b, u) /\ Whole(b, u)
  BY ONLY <1>3, <1>5 DEF Placed, Sorted, Covered, Whole
<1>9. EndsWhole(b, u)
  BY ONLY <1>3, <1>5 DEF EndsWhole
<1>10. Counted(b, u)
  <2>1. \A m \in LoopNodes(b) : u.loops[m].iter \in 1 .. b[m].max
    <3>1. x.iter \in 1 .. b[n].max
      BY ONLY <1>4, <1>6
    <3> QED BY ONLY <1>3, <1>5, <3>1 DEF Counted
  <2>2. ASSUME NEW j \in DOMAIN u.rows, u.rows[j].node \in LoopNodes(b)
        PROVE  u.rows[j].iter <= u.loops[u.rows[j].node].iter
    <3>1. CASE t.rows[j].node = n
      BY ONLY <1>3, <1>4, <1>6, <1>7, <3>1, j \in DOMAIN u.rows
    <3>2. CASE t.rows[j].node # n
      BY ONLY <1>3, <1>5, <2>2, <3>2 DEF Counted
    <3> QED BY <3>1, <3>2
  <2> QED BY <2>1, <2>2 DEF Counted
<1>11. Left(b, u)
  <2> SUFFICES ASSUME NEW j \in DOMAIN t.rows, NEW k \in DOMAIN t.rows, j < k,
                      t.rows[j].node \in LoopNodes(b), t.rows[k].node # t.rows[j].node
               PROVE  u.loops[t.rows[j].node].status = "exited"
    BY <1>3 DEF Left
  <2>1. Before(t.rows[j], t.rows[k])
    BY <1>5 DEF Sorted
  <2>2. t.rows[j].node # n
    <3>1. t.rows[k].node <= n /\ t.rows[k].node \in Nat /\ t.rows[j].node \in Nat
      BY <1>4, <1>6
    <3>2. t.rows[j].node < t.rows[k].node
      BY <2>1 DEF Before
    <3> QED BY ONLY <1>7, <3>1, <3>2
  <2>3. t.loops[t.rows[j].node].status = "exited"
    BY <1>5 DEF Left
  <2> QED BY <1>3, <2>2, <2>3
<1> QED BY <1>2, <1>8, <1>9, <1>5, <1>10, <1>11 DEF Layout

\* The loop is left.
LEMMA ExitLoopGood ==
    ASSUME blueprint \in Blueprints, NEW e, NEW t \in Tx(blueprint),
           Sound(blueprint, t), EndingOk(t.child, e), NEW i, i = Len(t.rows),
           Passed(blueprint, t, i), t.rows[i].node \in LoopNodes(blueprint)
    PROVE  GoodCall(blueprint, e, ExitLoop(t, i))
<1>0. PICK b \in Blueprints : b = blueprint
  OBVIOUS
<1>1. PICK n : n = t.rows[i].node
  OBVIOUS
<1>2. PICK from : from = t.cursor
  OBVIOUS
<1>3. /\ t \in Tx(b) /\ Sound(b, t) /\ Passed(b, t, Len(t.rows)) /\ n \in LoopNodes(b)
      /\ Layout(b, t) /\ Placed(b, t) /\ Sorted(t) /\ Whole(b, t) /\ Counted(b, t)
      /\ Left(b, t) /\ Covered(b, t) /\ Born(b, t) /\ JoinsDone(b, t)
  BY <1>0, <1>1 DEF Sound, Layout
<1>4. /\ i \in DOMAIN t.rows /\ n \in DOMAIN b /\ n = t.cursor - 1
      /\ t.cursor \in 1 .. Len(b) + 1
      /\ \A j \in DOMAIN t.rows : t.rows[j].node <= n
      /\ t.rows[i].pos = Len(b[n].body) /\ t.rows[i].iter >= 1
      /\ t.rows[i].iter <= t.loops[n].iter /\ t.loops[n].iter <= b[n].max
      /\ b[n].max \in Nat /\ t.loops[n].iter \in Nat
      /\ \A j \in DOMAIN t.rows : t.rows[j].node = n => t.rows[j].iter <= t.rows[i].iter
  BY <1>0, <1>1, <1>3, AtTheEnd
<1>5. /\ \A j \in DOMAIN t.rows : /\ t.rows[j].node \in Nat /\ t.rows[j].node \in DOMAIN b
                                  /\ t.rows[j].iter \in Nat /\ t.rows[j].pos \in Nat
      /\ t.rows \in Seq(Row) /\ Len(t.rows) \in Nat /\ DOMAIN t.rows = 1 .. Len(t.rows)
  BY ONLY <1>0, <1>3, Numbers
<1>6. t.rows[i].iter \in Nat /\ t.cursor \in Nat /\ n \in Nat /\ t.rows \in Seq(Row)
      /\ Len(b) \in Nat /\ b[n].kind = "loop" /\ n = t.rows[Len(t.rows)].node
  BY <1>1, <1>3, <1>4, <1>5, BlueprintFacts DEF Tx, LoopNodes
<1>7. PICK x \in LoopState : x = [iter |-> t.rows[i].iter, status |-> "exited"]
  BY <1>6 DEF LoopState
<1>8. x.iter = t.rows[i].iter /\ x.status = "exited"
  BY <1>7
<1>9. CASE from = Len(b) + 1
  <2>1. ExitLoop(t, i) = ThenSchedule(CountedTx(t, n, x), i + 1)
    <3>1. from > Len(b)
      BY <1>6, <1>9
    <3>2. Segment(b, t.cursor) = << >> /\ CursorAfter(b, t.cursor) = t.cursor
      BY ONLY <1>2, <3>1 DEF Segment, CursorAfter
    <3> QED BY ONLY <1>0, <1>1, <1>7, <3>2 DEF ExitLoop, CountedTx
  <2>2. PICK u : u = CountedTx(t, n, x)
    OBVIOUS
  <2>3. /\ u \in Tx(b) /\ u.rows = t.rows /\ u.cursor = t.cursor
        /\ u.parent = t.parent /\ u.child = t.child
        /\ \A m \in LoopNodes(b) : u.loops[m] = IF m = n THEN x ELSE t.loops[m]
    BY <1>3, <2>2, CountWrites
  <2>4. Layout(b, u)
    <3>1. x.iter = t.rows[Len(t.rows)].iter
      BY <1>8
    <3> QED BY <1>3, <1>6, <2>2, <3>1, CountedLayout
  <2>8. Born(b, u) /\ JoinsDone(b, u) /\ DelayTail(b, u)
    <3>1. Born(b, u) /\ JoinsDone(b, u)
      BY ONLY <1>3, <2>3 DEF Born, JoinsDone, KidsOf
    <3>2. DelayTail(b, u)
      BY ONLY <1>3, <2>3 DEF DelayTail, Sound
    <3> QED BY <3>1, <3>2
  <2>9. Sound(b, u)
    BY ONLY <2>3, <2>4, <2>8 DEF Sound
  <2>10. Reached(b, u, i + 1)
    <3>1. i = Len(u.rows) /\ i \in Nat /\ u.cursor = Len(b) + 1 /\ DOMAIN u.rows = 1 .. i
      BY <1>2, <1>5, <1>9, <2>3
    <3>2. Around(u, i + 1)
      <4>1. Around(t, i) /\ Done(t.rows[i])
        BY <1>3 DEF Passed
      <4> QED BY ONLY <2>3, <3>1, <4>1 DEF Around, Quiet
    <3> QED BY ONLY <3>1, <3>2 DEF Reached
  <2>11. i + 1 \in Nat /\ EndingOk(u.child, e)
    BY <1>5, <2>3
  <2> QED BY <1>0, <2>1, <2>2, <2>3, <2>9, <2>10, <2>11, GoodSchedule
<1>10. CASE from # Len(b) + 1
  <2>1. from \in 1 .. Len(b) /\ from \in Nat
    BY ONLY <1>2, <1>4, <1>6, <1>10
  <2>2. PICK end : end = SegmentEnd(b, from)
    OBVIOUS
  <2>3. PICK new : new = Segment(b, from)
    OBVIOUS
  <2>4. PICK cur : cur = CursorAfter(b, from)
    OBVIOUS
  <2>5. /\ end \in from .. Len(b) /\ cur = end + 1
        /\ end \notin LoopNodes(b) => end = Len(b)
    BY <2>1, <2>2, <2>4, SegmentEndFacts
  <2>6. end \in Nat /\ cur \in Nat /\ from <= end /\ end <= Len(b)
        /\ cur \in 1 .. Len(b) + 1 /\ from <= cur /\ n < from /\ n = from - 1
    <3>1. end \in from .. Len(b) /\ cur = end + 1 /\ n = from - 1
      BY <1>2, <1>4, <2>5
    <3> QED BY ONLY <1>6, <2>1, <3>1
  <2>7. /\ new \in Seq(Row) /\ new # << >>
        /\ \A k \in DOMAIN new : /\ Fits(b, new[k])
                                 /\ new[k].node \in from .. end
                                 /\ new[k].node \in LoopNodes(b) =>
                                       new[k].node = end /\ new[k].iter = 1
                                 /\ new[k].status = "PENDING"
                                 /\ new[k].error = "none" /\ new[k].undo = "none"
        /\ \A k, m \in DOMAIN new : k < m => Before(new[k], new[m])
        /\ \A m \in from .. end : \E k \in DOMAIN new : new[k].node = m
        /\ end \in LoopNodes(b) =>
              \A p \in 1 .. Len(b[end].body) : Held(new, end, 1, p)
        /\ new[Len(new)].node = end
        /\ end \in LoopNodes(b) => new[Len(new)].pos = Len(b[end].body)
    BY <2>1, <2>2, <2>3, SegmentFits
  <2>8. PICK u : u = MintedTx(t, n, x, cur, new)
    OBVIOUS
  <2>9. ExitLoop(t, i) = ThenSchedule(u, Len(t.rows) + 1)
    <3>1. new # << >>
      BY <2>7
    <3>2. ExitLoop(t, i) = Mint([t EXCEPT !.loops[n] = x, !.cursor = cur], new)
      BY ONLY <1>0, <1>1, <1>2, <1>7, <2>3, <2>4, <3>1 DEF ExitLoop
    <3>3. [t EXCEPT !.loops[n] = x, !.cursor = cur].rows = t.rows
      BY DEF Tx
    <3> QED BY ONLY <2>8, <3>2, <3>3 DEF Mint, MintedTx
  <2>10. new \in Seq(Row) /\ new # << >> /\ t.rows \in Seq(Row) /\ Len(b) \in Nat
    BY <1>6, <2>7
  <2>11. /\ u \in Tx(b) /\ u.rows = t.rows \o new /\ u.cursor = cur
         /\ u.parent = t.parent /\ u.child = t.child
         /\ \A m \in LoopNodes(b) : u.loops[m] = IF m = n THEN x ELSE t.loops[m]
    <3>1. t \in Tx(b) /\ n \in LoopNodes(b) /\ new \in Seq(Row) /\ cur \in Nat
      BY <1>3, <2>6, <2>7
    <3> QED BY ONLY <2>8, <3>1, x \in LoopState, MintWrites
  <2>12. u.rows = t.rows \o new
    BY <2>11
  <2>13. \A k \in DOMAIN new : new[k].node \in Nat /\ from <= new[k].node /\ new[k].node <= end
                                /\ new[k].node > n
    <3> TAKE k \in DOMAIN new
    <3>1. new[k].node \in from .. end
      BY <2>7
    <3> QED BY ONLY <1>6, <2>1, <2>6, <3>1
  <2>14. \A k, m \in DOMAIN new : k < m /\ new[k].node \in LoopNodes(b) =>
            new[m].node = new[k].node /\ new[m].iter = new[k].iter
    <3> SUFFICES ASSUME NEW k \in DOMAIN new, NEW m \in DOMAIN new, k < m,
                        new[k].node \in LoopNodes(b)
                 PROVE  new[m].node = new[k].node /\ new[m].iter = new[k].iter
      OBVIOUS
    <3>1. new[k].node = end /\ new[k].iter = 1 /\ Before(new[k], new[m])
      BY <2>7
    <3>2. new[m].node = end
      BY ONLY <2>6, <2>13, <3>1, m \in DOMAIN new DEF Before
    <3> QED BY <2>7, <3>1, <3>2
  <2>15. /\ Reached(b, u, Len(t.rows) + 1)
         /\ Born(b, u) /\ JoinsDone(b, u) /\ DelayTail(b, u)
    <3>1. \A k \in DOMAIN new : /\ new[k].status = "PENDING"
                                /\ new[k].error = "none" /\ new[k].undo = "none"
      BY ONLY <2>7
    <3>2. u.parent = t.parent /\ u.child = t.child /\ t.rows \in Seq(Row)
      BY <1>6, <2>11
    <3>3. Passed(b, t, Len(t.rows)) /\ Born(b, t) /\ JoinsDone(b, t)
      BY <1>3
    <3> QED BY ONLY <2>10, <2>12, <2>14, <3>1, <3>2, <3>3, MintedReached
  <2>16. \A j \in DOMAIN t.rows : \A k \in DOMAIN new : Before(t.rows[j], new[k])
    <3> TAKE j \in DOMAIN t.rows
    <3> TAKE k \in DOMAIN new
    <3>1. t.rows[j].node <= n /\ t.rows[j].node \in Nat
      BY <1>4, <1>5
    <3>2. new[k].node > n /\ new[k].node \in Nat
      BY <2>13
    <3> QED BY ONLY <1>6, <3>1, <3>2 DEF Before
  <2>17. Placed(b, u) /\ Sorted(u) /\ Whole(b, u)
    <3>1. Placed(b, t) /\ Sorted(t) /\ Whole(b, t)
      BY <1>3
    <3>2. /\ \A k \in DOMAIN new : Fits(b, new[k])
          /\ \A k, m \in DOMAIN new : k < m => Before(new[k], new[m])
      BY ONLY <2>7
    <3>3. ASSUME NEW k \in DOMAIN new, b[new[k].node].kind = "loop",
                 NEW it \in 1 .. new[k].iter, NEW p \in 1 .. Len(b[new[k].node].body)
          PROVE  Held(t.rows, new[k].node, it, p) \/ Held(new, new[k].node, it, p)
      <4>1. new[k].node \in LoopNodes(b)
        BY <2>7, <3>3 DEF Fits, LoopNodes
      <4>2. new[k].node = end /\ it = 1 /\ end \in LoopNodes(b) /\ p \in 1 .. Len(b[end].body)
        BY <2>7, <4>1
      <4>3. Held(new, end, 1, p)
        BY <2>7, <4>2
      <4> QED BY ONLY <4>2, <4>3
    <3> QED BY ONLY <2>10, <2>12, <2>16, <3>1, <3>2, <3>3, Extended
  <2>18. Covered(b, u)
    <3>1. \A k \in DOMAIN new : new[k].node < u.cursor
      BY ONLY <2>5, <2>6, <2>11, <2>13
    <3>2. t.cursor <= u.cursor /\ u.cursor \in 1 .. Len(b) + 1
      BY ONLY <1>2, <2>6, <2>11
    <3>3. \A m \in t.cursor .. u.cursor - 1 : \E k \in DOMAIN new : new[k].node = m
      <4>1. u.cursor - 1 = end
        BY ONLY <2>5, <2>6, <2>11
      <4> QED BY <1>2, <2>7, <4>1
    <3>4. \A j \in DOMAIN t.rows : t.rows[j].node \in Nat
      BY <1>5
    <3>5. Covered(b, t)
      BY <1>3
    <3> QED BY ONLY <2>10, <2>12, <3>1, <3>2, <3>3, <3>4, <3>5, MintedCovered
  <2>19. EndsWhole(b, u)
    <3>1. new[Len(new)].node = end
      BY <2>7
    <3>2. new[Len(new)].node = u.cursor - 1
      BY ONLY <2>5, <2>6, <2>11, <3>1
    <3>3. end \in LoopNodes(b) <=> b[end].kind = "loop"
      <4>1. end \in DOMAIN b
        BY <2>6, <2>1, BlueprintFacts
      <4> QED BY <4>1 DEF LoopNodes
    <3>4. b[new[Len(new)].node].kind = "loop" => new[Len(new)].pos = Len(b[new[Len(new)].node].body)
      BY <2>7, <3>1, <3>3
    <3>5. b[new[Len(new)].node].kind # "loop" => u.cursor = Len(b) + 1
      BY ONLY <2>5, <2>11, <3>1, <3>3
    <3> QED BY ONLY <2>10, <2>12, <3>2, <3>4, <3>5, MintedEnds
  <2>20. Counted(b, u)
    <3>1. \A m \in LoopNodes(b) : u.loops[m].iter \in 1 .. b[m].max
      <4>1. t.rows[i].iter \in 1 .. b[n].max
        BY ONLY <1>4, <1>6
      <4> QED BY ONLY <1>3, <1>8, <2>11, <4>1 DEF Counted
    <3>2. ASSUME NEW j \in DOMAIN t.rows, t.rows[j].node \in LoopNodes(b)
          PROVE  t.rows[j].iter <= u.loops[t.rows[j].node].iter
      <4>1. CASE t.rows[j].node = n
        BY ONLY <1>3, <1>4, <1>8, <2>11, <4>1, j \in DOMAIN t.rows
      <4>2. CASE t.rows[j].node # n
        BY ONLY <1>3, <2>11, <3>2, <4>2 DEF Counted
      <4> QED BY <4>1, <4>2
    <3>3. ASSUME NEW k \in DOMAIN new, new[k].node \in LoopNodes(b)
          PROVE  new[k].iter <= u.loops[new[k].node].iter
      <4>1. new[k].iter = 1
        BY <2>7, <3>3
      <4>2. u.loops[new[k].node].iter \in 1 .. b[new[k].node].max
        BY <3>1, <3>3
      <4>3. b[new[k].node].max \in Nat
        BY <3>3, BlueprintFacts
      <4> QED BY ONLY <4>1, <4>2, <4>3
    <3> QED BY ONLY <2>10, <2>12, <3>1, <3>2, <3>3, MintedCounted
  <2>21. Left(b, u)
    <3>1. \A m \in LoopNodes(b) : m # n => u.loops[m] = t.loops[m]
      BY <2>11
    <3>2. u.loops[n].status = "exited"
      BY <1>3, <1>8, <2>11
    <3>3. \A k, m \in DOMAIN new : k < m /\ new[k].node \in LoopNodes(b) =>
             new[m].node = new[k].node
      BY ONLY <2>14
    <3>4. \A j, m \in DOMAIN t.rows : j < m /\ t.rows[j].node = n => t.rows[m].node = n
      <4> SUFFICES ASSUME NEW j \in DOMAIN t.rows, NEW m \in DOMAIN t.rows, j < m,
                          t.rows[j].node = n
                   PROVE  t.rows[m].node = n
        OBVIOUS
      <4>1. Before(t.rows[j], t.rows[m])
        BY <1>3 DEF Sorted
      <4>2. t.rows[m].node <= n /\ t.rows[m].node \in Nat /\ t.rows[j].node = n
        BY <1>4, <1>5
      <4> QED BY ONLY <1>6, <4>1, <4>2 DEF Before
    <3>5. Left(b, t) /\ n = t.rows[Len(t.rows)].node /\ Len(t.rows) \in DOMAIN t.rows
      BY <1>3, <1>4, <1>6
    <3>6. LeftAlone(b, t, u, new, n)
      BY ONLY <3>1, <3>2, <3>3, <3>4, <3>5 DEF LeftAlone
    <3> QED BY ONLY <2>10, <2>12, <3>6, MintedLeft
  <2>22. Sound(b, u)
    BY ONLY <2>11, <2>15, <2>17, <2>18, <2>19, <2>20, <2>21 DEF Sound, Layout
  <2>23. Len(t.rows) + 1 \in Nat /\ EndingOk(u.child, e)
    BY <1>5, <2>11
  <2> QED BY <1>0, <2>9, <2>11, <2>15, <2>22, <2>23, GoodSchedule
<1> QED BY <1>9, <1>10

\* The loop is given up: its last row says why, and the saga is unwound.
LEMMA FailLoopWrites ==
    ASSUME NEW b, NEW t \in Tx(b), NEW i \in DOMAIN t.rows, t.rows[i].node \in LoopNodes(b),
           t.rows[i].error = "none", NEW code \in {"LOOP_EXHAUSTED", "UNTIL_EVALUATION_FAILED"},
           NEW x \in LoopState, x = [iter |-> t.rows[i].iter, status |-> "exhausted"]
    PROVE  \E u \in Tx(b) :
              /\ FailLoop(t, i, code) = ThenUnwind(u, i)
              /\ Shape(t, u) /\ u.parent = "COMPENSATING" /\ u.child = t.child
              /\ u.cursor = CountedTx(t, t.rows[i].node, x).cursor
              /\ u.loops = CountedTx(t, t.rows[i].node, x).loops
              /\ \A j \in DOMAIN t.rows :
                    /\ u.rows[j].status = t.rows[j].status
                    /\ u.rows[j].undo = t.rows[j].undo
                    /\ u.rows[j].error = IF j = i THEN code ELSE t.rows[j].error
<1>1. PICK n : n = t.rows[i].node
  OBVIOUS
<1>2. PICK v : v = CountedTx(t, n, x)
  OBVIOUS
<1>3. /\ v \in Tx(b) /\ v.rows = t.rows /\ v.cursor = t.cursor
      /\ v.parent = t.parent /\ v.child = t.child
  BY <1>1, <1>2, CountWrites
<1> DEFINE r == [t.rows[i] EXCEPT !.error = code]
           w == [v EXCEPT !.rows = [v.rows EXCEPT ![i] = r]]
           u == [w EXCEPT !.parent = "COMPENSATING"]
<1>4. /\ r \in Row /\ r.status = t.rows[i].status /\ r.error = code /\ r.undo = t.rows[i].undo
      /\ r.node = t.rows[i].node /\ r.pos = t.rows[i].pos /\ r.iter = t.rows[i].iter
  <2>1. t.rows[i] \in Row
    BY RowTypes
  <2> QED BY <2>1 DEF Row
<1>5. FailLoop(t, i, code) = ThenUnwind(u, i)
  <2>1. FailLoop(t, i, code) =
            ThenUnwind([t EXCEPT !.loops[n] = x, !.parent = "COMPENSATING",
                                 !.rows[i].error = IF @ = "none" THEN code ELSE @], i)
    BY <1>1 DEF FailLoop
  <2>2. [t EXCEPT !.loops[n] = x, !.parent = "COMPENSATING",
                  !.rows[i].error = IF @ = "none" THEN code ELSE @]
        = [[[t EXCEPT !.loops[n] = x] EXCEPT !.rows = [t.rows EXCEPT ![i] = r]]
              EXCEPT !.parent = "COMPENSATING"]
    BY DEF Tx
  <2>3. v = [t EXCEPT !.loops[n] = x]
    BY <1>2 DEF CountedTx, Tx
  <2>4. u = [[[t EXCEPT !.loops[n] = x] EXCEPT !.rows = [t.rows EXCEPT ![i] = r]]
              EXCEPT !.parent = "COMPENSATING"]
    BY <1>3, <2>3
  <2> HIDE DEF u
  <2> QED BY ONLY <2>1, <2>2, <2>4
<1> HIDE DEF r
<1>6. /\ w \in Tx(b) /\ w.parent = v.parent /\ w.cursor = v.cursor
      /\ w.loops = v.loops /\ w.child = v.child
      /\ DOMAIN w.rows = DOMAIN t.rows /\ Len(w.rows) = Len(t.rows)
      /\ \A j \in DOMAIN t.rows : w.rows[j] = IF j = i THEN r ELSE t.rows[j]
  <2>1. i \in DOMAIN v.rows
    BY <1>3
  <2>2. r \in Row
    BY <1>4
  <2> QED BY <1>3, <2>1, <2>2, RowWrites
<1> HIDE DEF w
<1>7. /\ u \in Tx(b) /\ u.parent = "COMPENSATING" /\ u.cursor = v.cursor
      /\ u.loops = v.loops /\ u.child = v.child /\ u.rows = w.rows
  BY <1>6 DEF Tx, SagaStatus
<1> HIDE DEF u
<1>8. Shape(t, u)
  BY <1>4, <1>6, <1>7 DEF Shape
<1>9. \A j \in DOMAIN t.rows :
         /\ u.rows[j].status = t.rows[j].status
         /\ u.rows[j].undo = t.rows[j].undo
         /\ u.rows[j].error = IF j = i THEN code ELSE t.rows[j].error
  BY <1>4, <1>6, <1>7
<1> QED BY <1>1, <1>2, <1>3, <1>5, <1>7, <1>8, <1>9

LEMMA FailLoopGood ==
    ASSUME blueprint \in Blueprints, NEW e, NEW t \in Tx(blueprint),
           Sound(blueprint, t), EndingOk(t.child, e), NEW i, i = Len(t.rows),
           Passed(blueprint, t, i), t.rows[i].node \in LoopNodes(blueprint),
           NEW code \in {"LOOP_EXHAUSTED", "UNTIL_EVALUATION_FAILED"},
           code = "LOOP_EXHAUSTED" => Exhausted(t.rows[i])
    PROVE  GoodCall(blueprint, e, FailLoop(t, i, code))
<1>0. PICK b \in Blueprints : b = blueprint
  OBVIOUS
<1>1. PICK n : n = t.rows[i].node
  OBVIOUS
<1>2. /\ t \in Tx(b) /\ Sound(b, t) /\ Passed(b, t, i) /\ n \in LoopNodes(b) /\ Layout(b, t)
      /\ i \in DOMAIN t.rows /\ Around(t, i) /\ Done(t.rows[i]) /\ Quiet(t)
      /\ i = Len(t.rows)
  BY <1>0, <1>1 DEF Sound, Passed, Around
<1>3. t.rows[i].iter \in Nat /\ t.rows[i].error = "none"
  BY <1>2, RowTypes DEF Quiet
<1>4. PICK x \in LoopState : x = [iter |-> t.rows[i].iter, status |-> "exhausted"]
  BY <1>3 DEF LoopState
<1>5. PICK v : v = CountedTx(t, n, x)
  OBVIOUS
<1>6. /\ v \in Tx(b) /\ v.rows = t.rows /\ v.cursor = t.cursor
      /\ v.parent = t.parent /\ v.child = t.child
  BY <1>1, <1>2, <1>5, CountWrites
<1>7. Sound(b, v)
  <2>1. x.iter = t.rows[Len(t.rows)].iter
    BY <1>2, <1>4
  <2>2. Layout(b, v)
    BY <1>1, <1>2, <1>5, <2>1, CountedLayout
  <2>3. DelayTail(b, v)
    BY ONLY <1>2, <1>6 DEF Sound, DelayTail
  <2>4. Born(b, v) /\ JoinsDone(b, v)
    BY ONLY <1>2, <1>6 DEF Sound, Born, JoinsDone, KidsOf
  <2> QED BY <1>6, <2>2, <2>3, <2>4 DEF Sound
<1>8. PICK u \in Tx(b) :
              /\ FailLoop(t, i, code) = ThenUnwind(u, i)
              /\ Shape(t, u) /\ u.parent = "COMPENSATING" /\ u.child = t.child
              /\ u.cursor = v.cursor /\ u.loops = v.loops
              /\ \A j \in DOMAIN t.rows :
                    /\ u.rows[j].status = t.rows[j].status
                    /\ u.rows[j].undo = t.rows[j].undo
                    /\ u.rows[j].error = IF j = i THEN code ELSE t.rows[j].error
  BY <1>1, <1>2, <1>3, <1>4, <1>5, FailLoopWrites
<1>9. Sound(b, u)
  <2>1. Shape(v, u) /\ u.cursor = v.cursor /\ u.loops = v.loops /\ u.child = v.child
    BY <1>6, <1>8 DEF Shape
  <2>2. \A j \in DOMAIN v.rows : u.rows[j].status = v.rows[j].status
    BY <1>6, <1>8
  <2>3. u.parent \notin {"PENDING", "RUNNING"}
    BY <1>8
  <2> QED BY <1>7, <2>1, <2>2, <2>3, SoundKept
<1>10. \A j \in DOMAIN t.rows : Done(t.rows[j])
  <2>1. t.rows \in Seq(Row)
    BY <1>2 DEF Tx
  <2>2. \A j \in DOMAIN t.rows : j < i \/ j = i
    BY ONLY <1>2, <2>1
  <2> QED BY <1>2, <2>2 DEF Around
<1>11. Back(b, u)
  <2>1. DOMAIN u.rows = DOMAIN t.rows /\ \A j \in DOMAIN t.rows : /\ Done(u.rows[j])
                                                                 /\ u.rows[j].node = t.rows[j].node
                                                                 /\ u.rows[j].iter = t.rows[j].iter
    BY ONLY <1>8, <1>10 DEF Done, Shape
  <2>2. \A j \in DOMAIN u.rows : u.rows[j].status # "IN_PROGRESS"
    BY ONLY <2>1 DEF Done
  <2>3. code = "LOOP_EXHAUSTED" => t.rows[i].iter = b[n].max
    <3>1. ASSUME code = "LOOP_EXHAUSTED" PROVE t.rows[i].iter >= b[n].max
      BY <1>0, <1>1, <3>1 DEF Exhausted
    <3>2. t.rows[i].iter <= t.loops[n].iter /\ t.loops[n].iter <= b[n].max
          /\ b[n].max \in Nat /\ t.loops[n].iter \in Nat
      BY <1>1, <1>2, AtTheEnd
    <3> QED BY ONLY <1>3, <3>1, <3>2
  <2>4. GivenUp(b, u)
    <3> SUFFICES ASSUME NEW j \in DOMAIN u.rows, u.rows[j].error = "LOOP_EXHAUSTED"
                 PROVE  /\ u.rows[j].node \in LoopNodes(b)
                        /\ u.rows[j].iter = b[u.rows[j].node].max
                        /\ \A k \in DOMAIN u.rows : u.rows[k].node = u.rows[j].node =>
                              Done(u.rows[k]) \/ u.rows[k].error = "clean"
      BY DEF GivenUp
    <3>1. j = i /\ code = "LOOP_EXHAUSTED"
      BY <1>2, <1>8, <2>1 DEF Quiet
    <3> QED BY <1>1, <1>2, <2>1, <2>3, <3>1
  <2>5. SpawnUndo(b, u) /\ Lifo(b, u)
    <3>1. \A j \in DOMAIN u.rows : u.rows[j].undo = "none"
      BY <1>2, <1>8, <2>1 DEF Quiet
    <3>2. u.parent # "COMPENSATED"
      BY <1>8
    <3> QED BY <3>1, <3>2, QuietUndo
  <2> QED BY <1>8, <2>2, <2>4, <2>5 DEF Back
<1>12. i \in Nat /\ EndingOk(u.child, e)
  BY <1>2, <1>8, RowTypes
<1>13. Unwinds(b, u, i)
  <2>1. i \in 0 .. Len(u.rows) /\ DOMAIN u.rows = 1 .. i
    <3>1. u.rows \in Seq(Row) /\ Len(u.rows) = i
      BY <1>2, <1>8 DEF Shape, Tx
    <3> QED BY ONLY <1>12, <3>1
  <2>2. UndoneAbove(b, u, i)
    BY ONLY <1>12, <2>1 DEF UndoneAbove
  <2> QED BY <1>11, <2>1, <2>2 DEF Unwinds
<1> QED BY <1>0, <1>8, <1>9, <1>12, <1>13, GoodUnwind

\* What may follow a row that is done.
LEMMA ContinueGood ==
    ASSUME blueprint \in Blueprints, NEW e, NEW t \in Tx(blueprint), NEW i,
           Sound(blueprint, t), EndingOk(t.child, e), Passed(blueprint, t, i)
    PROVE  \A c \in Continue(t, i) : GoodCall(blueprint, e, c)
<1>1. i \in DOMAIN t.rows /\ Layout(blueprint, t) /\ Placed(blueprint, t)
  BY DEF Passed, Sound, Layout
<1>2. EndsBody(t.rows[i]) <=> /\ t.rows[i].node \in LoopNodes(blueprint)
                              /\ t.rows[i].pos = Len(blueprint[t.rows[i].node].body)
  BY <1>1, RowKinds DEF Placed
<1>3. CASE EndsBody(t.rows[i])
  <2>1. i = Len(t.rows) /\ t.rows[i].node \in LoopNodes(blueprint)
    BY <1>2, <1>3 DEF Passed
  <2>2. Continue(t, i) = {FailLoop(t, i, "UNTIL_EVALUATION_FAILED"),
                          ExitLoop(t, i),
                          IF Exhausted(t.rows[i]) THEN FailLoop(t, i, "LOOP_EXHAUSTED")
                          ELSE ContinueLoop(t, i)}
    BY <1>3 DEF Continue, Boundary
  <2>3. GoodCall(blueprint, e, FailLoop(t, i, "UNTIL_EVALUATION_FAILED"))
    BY <2>1, FailLoopGood
  <2>4. GoodCall(blueprint, e, ExitLoop(t, i))
    BY <2>1, ExitLoopGood
  <2>5. Exhausted(t.rows[i]) => GoodCall(blueprint, e, FailLoop(t, i, "LOOP_EXHAUSTED"))
    BY <2>1, FailLoopGood
  <2>6. ~ Exhausted(t.rows[i]) => GoodCall(blueprint, e, ContinueLoop(t, i))
    BY <2>1, ContinueLoopGood
  <2> QED BY <2>2, <2>3, <2>4, <2>5, <2>6
<1>4. CASE ~ EndsBody(t.rows[i])
  <2>1. Continue(t, i) = {ThenSchedule(t, i + 1)}
    BY <1>4 DEF Continue
  <2>2. t.rows \in Seq(Row) /\ i \in Nat /\ i >= 1 /\ i <= Len(t.rows)
        /\ Len(t.rows) \in Nat /\ DOMAIN t.rows = 1 .. Len(t.rows)
    BY <1>1, RowTypes
  <2>3. /\ t.parent = "RUNNING" /\ Quiet(t) /\ Done(t.rows[i])
        /\ \A j \in DOMAIN t.rows : /\ j < i => Done(t.rows[j])
                                    /\ j > i => t.rows[j].status = "PENDING"
    BY DEF Passed, Around
  <2>4. Around(t, i + 1)
    <3>1. \A j \in DOMAIN t.rows : /\ j < i + 1 => Done(t.rows[j])
                                   /\ j > i + 1 => t.rows[j].status = "PENDING"
      BY ONLY <2>2, <2>3
    <3> QED BY <2>3, <3>1 DEF Around
  <2>5. Reached(blueprint, t, i + 1)
    <3>1. CASE i = Len(t.rows)
      <4>1. t.cursor = Len(blueprint) + 1
        BY <1>1, <1>2, <1>4, <3>1, AtTheEnd
      <4> QED BY <2>2, <2>4, <3>1, <4>1 DEF Reached
    <3>2. CASE i # Len(t.rows)
      <4>1. i + 1 \in DOMAIN t.rows /\ i + 1 # Len(t.rows) + 1 /\ i + 1 > i
            /\ i + 1 \in 1 .. Len(t.rows) + 1
        BY ONLY <2>2, <3>2
      <4>2. t.rows[i + 1].status = "PENDING"
        BY <2>3, <4>1
      <4> QED BY <2>4, <4>1, <4>2 DEF Reached
    <3> QED BY <3>1, <3>2
  <2>6. i + 1 \in Nat
    BY <2>2
  <2>7. GoodCall(blueprint, e, ThenSchedule(t, i + 1))
    BY <2>5, <2>6, GoodSchedule
  <2> QED BY <2>1, <2>7
<1> QED BY <1>3, <1>4

-----------------------------------------------------------------------------
(* The forward run *)

\* A row that is still to be done and ends a pass is the last row.
LEMMA LastOfPass ==
    ASSUME NEW b \in Blueprints, NEW t \in Tx(b), Sound(b, t), NEW i \in DOMAIN t.rows,
           t.parent = "RUNNING", ~ Done(t.rows[i]),
           t.rows[i].node \in LoopNodes(b), t.rows[i].pos = Len(b[t.rows[i].node].body)
    PROVE  i = Len(t.rows)
<1>1. Placed(b, t) /\ Sorted(t) /\ DelayTail(b, t)
  BY DEF Sound, Layout
<1>2. /\ \A j \in DOMAIN t.rows : /\ t.rows[j].node \in Nat /\ t.rows[j].node \in DOMAIN b
                                  /\ t.rows[j].iter \in Nat /\ t.rows[j].pos \in Nat
      /\ t.rows \in Seq(Row) /\ Len(t.rows) \in Nat /\ DOMAIN t.rows = 1 .. Len(t.rows)
  BY <1>1, Numbers
<1> SUFFICES ASSUME i # Len(t.rows) PROVE FALSE
  OBVIOUS
<1>3. PICK j : j = i + 1
  OBVIOUS
<1>4. j \in DOMAIN t.rows /\ i < j
  BY <1>2, <1>3
<1>5. t.rows[j].node = t.rows[i].node /\ t.rows[j].iter = t.rows[i].iter
  BY <1>1, <1>4 DEF DelayTail
<1>6. t.rows[i].pos < t.rows[j].pos
  <2>1. Before(t.rows[i], t.rows[j])
    BY <1>1, <1>4 DEF Sorted
  <2> QED BY <1>2, <1>4, <1>5, <2>1 DEF Before
<1>7. t.rows[j].pos \in 1 .. Len(b[t.rows[i].node].body)
  <2>1. Fits(b, t.rows[j])
    BY <1>1, <1>4 DEF Placed
  <2> QED BY <1>5, <2>1 DEF Fits, LoopNodes
<1>8. Len(b[t.rows[i].node].body) \in Nat
  BY BlueprintFacts
<1> QED BY ONLY <1>6, <1>7, <1>8, t.rows[i].pos = Len(b[t.rows[i].node].body)

\* A row moves on.
LEMMA MarkSound ==
    ASSUME NEW b \in Blueprints, NEW t \in Tx(b), Sound(b, t), NEW i \in DOMAIN t.rows,
           t.parent = "RUNNING", ~ Done(t.rows[i]), NEW s \in Statuses,
           b[t.rows[i].node].kind = "join" /\ s = "COMPLETED" =>
               /\ KidsOf(t, b[t.rows[i].node].of) # {}
               /\ \A c \in KidsOf(t, b[t.rows[i].node].of) : t.child[c] # "RUNNING"
    PROVE  Sound(b, Mark(t, i, s))
<1>1. PICK u : u = Mark(t, i, s)
  OBVIOUS
<1>2. /\ u \in Tx(b) /\ Shape(t, u)
      /\ u.parent = t.parent /\ u.cursor = t.cursor
      /\ u.loops = t.loops /\ u.child = t.child
      /\ \A j \in DOMAIN t.rows :
            /\ u.rows[j].status = IF j = i THEN s ELSE t.rows[j].status
            /\ u.rows[j].error = t.rows[j].error
            /\ u.rows[j].undo = t.rows[j].undo
  BY <1>1, MarkWrites
<1>3. Layout(b, u)
  <2>1. t.rows \in Seq(Row) /\ u.rows \in Seq(Row) /\ Layout(b, t)
    BY <1>2 DEF Tx, Sound
  <2> QED BY <1>2, <2>1, LayoutKept
<1>4. t.rows[i].status \notin {"COMPLETED", "SKIPPED"}
  BY DEF Done
<1>5. Born(b, u)
  <2> SUFFICES ASSUME NEW c \in Children, u.child[c] # "none"
               PROVE  \E k \in DOMAIN u.rows : /\ u.rows[k].node = c[1]
                                               /\ b[c[1]].kind = "spawn"
                                               /\ u.rows[k].status = "COMPLETED"
    BY DEF Born
  <2>1. PICK k \in DOMAIN t.rows : /\ t.rows[k].node = c[1] /\ b[c[1]].kind = "spawn"
                                   /\ t.rows[k].status = "COMPLETED"
    BY <1>2 DEF Sound, Born
  <2> QED BY <1>2, <1>4, <2>1 DEF Shape
<1>6. JoinsDone(b, u)
  <2>1. \A n : KidsOf(u, n) = KidsOf(t, n)
    BY <1>2 DEF KidsOf
  <2>2. ASSUME NEW j \in DOMAIN u.rows, b[u.rows[j].node].kind = "join",
               u.rows[j].status = "COMPLETED"
        PROVE  /\ KidsOf(u, b[u.rows[j].node].of) # {}
               /\ \A c \in KidsOf(u, b[u.rows[j].node].of) : u.child[c] # "RUNNING"
    <3>1. j \in DOMAIN t.rows /\ u.rows[j].node = t.rows[j].node
      BY <1>2 DEF Shape
    <3>2. CASE j = i
      BY <1>2, <2>1, <2>2, <3>1, <3>2
    <3>3. CASE j # i
      <4>1. t.rows[j].status = "COMPLETED"
        BY <1>2, <2>2, <3>1, <3>3
      <4>2. /\ KidsOf(t, b[t.rows[j].node].of) # {}
            /\ \A c \in KidsOf(t, b[t.rows[j].node].of) : t.child[c] # "RUNNING"
        BY <2>2, <3>1, <4>1 DEF Sound, JoinsDone
      <4> QED BY <1>2, <2>1, <3>1, <4>2
    <3> QED BY <3>2, <3>3
  <2> QED BY <2>2 DEF JoinsDone
<1>7. DelayTail(b, u)
  <2>1. \A j \in DOMAIN t.rows : Done(t.rows[j]) => Done(u.rows[j])
    BY <1>2, <1>4 DEF Done
  <2> QED BY <1>2, <2>1 DEF Sound, DelayTail, Shape
<1> QED BY <1>1, <1>2, <1>3, <1>5, <1>6, <1>7 DEF Sound

\* A row that is done, with what is known of the others.
LEMMA MarkPassed ==
    ASSUME NEW b \in Blueprints, NEW t \in Tx(b), Sound(b, t), NEW i \in DOMAIN t.rows,
           Around(t, i), ~ Done(t.rows[i]), NEW s \in {"COMPLETED", "SKIPPED"}
    PROVE  Passed(b, Mark(t, i, s), i)
<1>1. PICK u : u = Mark(t, i, s)
  OBVIOUS
<1>2. s \in Statuses
  BY DEF Statuses
<1>3. /\ Shape(t, u) /\ u.parent = t.parent
      /\ \A j \in DOMAIN t.rows :
            /\ u.rows[j].status = IF j = i THEN s ELSE t.rows[j].status
            /\ u.rows[j].error = t.rows[j].error
            /\ u.rows[j].undo = t.rows[j].undo
  BY <1>1, <1>2, MarkWrites
<1>4. t.parent = "RUNNING"
  BY DEF Around
<1>5. u.rows[i].node \in LoopNodes(b) /\ u.rows[i].pos = Len(b[u.rows[i].node].body)
         => i = Len(u.rows)
  BY <1>3, <1>4, LastOfPass DEF Shape
<1>6. Around(u, i) /\ Done(u.rows[i]) /\ i \in DOMAIN u.rows
  <2>1. i \in Nat /\ \A j \in DOMAIN t.rows : j \in Nat
    BY RowTypes
  <2> QED BY <1>3, <2>1 DEF Around, Quiet, Done, Shape
<1> QED BY <1>1, <1>5, <1>6 DEF Passed

\* A row that is started.
LEMMA MarkRuns ==
    ASSUME NEW b \in Blueprints, NEW t \in Tx(b), NEW i \in DOMAIN t.rows, Around(t, i)
    PROVE  Runs(Mark(t, i, "IN_PROGRESS"), i)
<1>1. PICK u : u = Mark(t, i, "IN_PROGRESS")
  OBVIOUS
<1>2. "IN_PROGRESS" \in Statuses
  BY DEF Statuses
<1>3. /\ Shape(t, u) /\ u.parent = t.parent
      /\ \A j \in DOMAIN t.rows :
            /\ u.rows[j].status = IF j = i THEN "IN_PROGRESS" ELSE t.rows[j].status
            /\ u.rows[j].error = t.rows[j].error
            /\ u.rows[j].undo = t.rows[j].undo
  BY <1>1, <1>2, MarkWrites
<1>4. i \in Nat /\ \A j \in DOMAIN t.rows : j \in Nat
  BY RowTypes
<1>5. Around(u, i) /\ u.rows[i].status = "IN_PROGRESS" /\ i \in DOMAIN u.rows
  BY <1>3, <1>4 DEF Around, Quiet, Done, Shape
<1> QED BY <1>1, <1>5 DEF Runs

\* A row that ran, and completes.
LEMMA FinalizeGood ==
    ASSUME blueprint \in Blueprints, NEW e, NEW t \in Tx(blueprint), NEW i,
           Sound(blueprint, t), EndingOk(t.child, e), Runs(t, i),
           blueprint[t.rows[i].node].kind = "join" =>
               /\ KidsOf(t, blueprint[t.rows[i].node].of) # {}
               /\ \A c \in KidsOf(t, blueprint[t.rows[i].node].of) : t.child[c] # "RUNNING"
    PROVE  \A c \in Finalize(t, i) : GoodCall(blueprint, e, c)
<1>1. PICK u : u = Mark(t, i, "COMPLETED")
  OBVIOUS
<1>2. /\ i \in DOMAIN t.rows /\ Around(t, i) /\ ~ Done(t.rows[i]) /\ t.parent = "RUNNING"
      /\ "COMPLETED" \in Statuses
  BY DEF Runs, Done, Around, Statuses
<1>3. Sound(blueprint, u)
  BY <1>1, <1>2, MarkSound
<1>4. Passed(blueprint, u, i)
  BY <1>1, <1>2, MarkPassed
<1>5. u \in Tx(blueprint) /\ EndingOk(u.child, e)
  BY <1>1, <1>2, MarkWrites
<1>6. Finalize(t, i) = Continue(u, i)
  BY <1>1 DEF Finalize
<1> QED BY <1>3, <1>4, <1>5, <1>6, ContinueGood

\* The kids of a node, as the model and as this module write them.
LEMMA TerminalKids ==
    ASSUME NEW t, NEW n
    PROVE  /\ Kids(t, n) = KidsOf(t, n)
           /\ AllTerminal(t, n) <=> /\ KidsOf(t, n) # {}
                                    /\ \A c \in KidsOf(t, n) : t.child[c] \in Terminal
BY DEF Kids, KidsOf, AllTerminal

\* A join completes, fails or waits.
LEMMA TryJoinGood ==
    ASSUME blueprint \in Blueprints, NEW e, NEW t \in Tx(blueprint), NEW i,
           Sound(blueprint, t), EndingOk(t.child, e), Runs(t, i),
           Manifest(t.rows[i]).kind = "join"
    PROVE  \A c \in TryJoin(t, i) : GoodCall(blueprint, e, c)
<1>1. PICK of : of = Manifest(t.rows[i]).of
  OBVIOUS
<1>2. /\ i \in DOMAIN t.rows /\ Around(t, i) /\ ~ Done(t.rows[i])
      /\ t.rows[i].status = "IN_PROGRESS"
  BY DEF Runs, Done
<1>3. /\ Manifest(t.rows[i]) = RowSpec(blueprint, t.rows[i])
      /\ blueprint[t.rows[i].node].kind = "join"
  BY <1>2, RowKinds DEF Sound, Layout, Placed
<1>4. blueprint[t.rows[i].node].of = of
  BY <1>1, <1>3 DEF RowSpec
<1>5. CASE ~ AllTerminal(t, of)
  <2>1. TryJoin(t, i) = {Over(t)}
    BY <1>1, <1>5 DEF TryJoin
  <2>2. Phase(blueprint, t)
    <3>1. RowSpec(blueprint, t.rows[i]).kind \in {"worker", "join"}
      BY <1>3
    <3>2. Runs(t, i) /\ i \in DOMAIN t.rows
      BY <1>2
    <3> QED BY ONLY <3>1, <3>2 DEF Phase, Busy
  <2>3. Waits(blueprint, t, e)
    <3> SUFFICES ASSUME NEW j \in DOMAIN t.rows, t.rows[j].status = "IN_PROGRESS",
                        KidsOf(t, blueprint[t.rows[j].node].of) # {}
                 PROVE  \E c \in KidsOf(t, blueprint[t.rows[j].node].of) :
                            t.child[c] \notin Terminal \/ e[c] # "none"
      BY DEF Waits
    <3>1. j = i
      <4>1. j \in Nat /\ i \in Nat
        BY <1>2, RowTypes
      <4> QED BY <1>2, <4>1 DEF Around, Done
    <3> QED BY <1>4, <1>5, <3>1, TerminalKids
  <2>4. GoodCall(blueprint, e, Over(t))
    BY <2>2, <2>3, GoodOver
  <2> QED BY <2>1, <2>4
<1>6. CASE AllTerminal(t, of)
  <2>1. "clean" \in StepErrors
    BY DEF StepErrors
  <2>2. GoodCall(blueprint, e, Fail(t, i, "clean"))
    BY <1>2, <2>1, FailGood
  <2>3. /\ KidsOf(t, of) # {}
        /\ \A c \in KidsOf(t, of) : t.child[c] # "RUNNING"
    BY <1>6, TerminalKids DEF Terminal
  <2>4. \A c \in Finalize(t, i) : GoodCall(blueprint, e, c)
    BY <1>4, <2>3, FinalizeGood
  <2>5. TryJoin(t, i) = {Fail(t, i, "clean")} \/ TryJoin(t, i) = Finalize(t, i)
    BY <1>1, <1>6 DEF TryJoin
  <2> QED BY <2>2, <2>4, <2>5
<1> QED BY <1>5, <1>6

\* The children of a spawn step are created with it.
SpawnedTx(t, i, S) ==
    [t EXCEPT !.child = [c \in Children |-> IF c \in {t.rows[i].node} \X S THEN "RUNNING"
                                            ELSE @[c]]]

LEMMA SpawnWrites ==
    ASSUME NEW b, NEW t \in Tx(b), NEW i, NEW S
    PROVE  LET u == SpawnedTx(t, i, S)
           IN  /\ u \in Tx(b) /\ u.parent = t.parent /\ u.rows = t.rows
               /\ u.cursor = t.cursor /\ u.loops = t.loops
               /\ \A c \in Children :
                     u.child[c] = IF c \in {t.rows[i].node} \X S THEN "RUNNING" ELSE t.child[c]
<1> DEFINE ch == [c \in Children |-> IF c \in {t.rows[i].node} \X S THEN "RUNNING"
                                     ELSE t.child[c]]
           u == SpawnedTx(t, i, S)
<1>1. u = [t EXCEPT !.child = ch]
  BY DEF SpawnedTx
<1>2. ch \in [Children -> SagaStatus \cup {"none"}]
  <2>1. "RUNNING" \in SagaStatus
    BY DEF SagaStatus
  <2>2. t.child \in [Children -> SagaStatus \cup {"none"}]
    BY DEF Tx
  <2> QED BY <2>1, <2>2
<1>3. \A c \in Children : ch[c] = IF c \in {t.rows[i].node} \X S THEN "RUNNING" ELSE t.child[c]
  OBVIOUS
<1> HIDE DEF ch, u
<1>4. /\ u \in Tx(b) /\ u.parent = t.parent /\ u.rows = t.rows
      /\ u.cursor = t.cursor /\ u.loops = t.loops /\ u.child = ch
  BY <1>1, <1>2 DEF Tx
<1> QED BY <1>3, <1>4 DEF u

\* A step of the blueprint that is no loop has one row.
LEMMA OneRow ==
    ASSUME NEW b \in Blueprints, NEW t \in Tx(b), Layout(b, t),
           NEW i \in DOMAIN t.rows, NEW j \in DOMAIN t.rows,
           t.rows[i].node = t.rows[j].node, b[t.rows[i].node].kind # "loop"
    PROVE  i = j
<1>1. Placed(b, t) /\ Sorted(t)
  BY DEF Layout
<1>2. /\ \A k \in DOMAIN t.rows : /\ t.rows[k].node \in Nat /\ t.rows[k].node \in DOMAIN b
                                  /\ t.rows[k].iter \in Nat /\ t.rows[k].pos \in Nat
      /\ t.rows \in Seq(Row) /\ Len(t.rows) \in Nat /\ DOMAIN t.rows = 1 .. Len(t.rows)
  BY <1>1, Numbers
<1>3. /\ t.rows[i].iter = 0 /\ t.rows[i].pos = 0 /\ t.rows[j].iter = 0 /\ t.rows[j].pos = 0
  BY <1>1 DEF Placed, Fits
<1>4. ~ Before(t.rows[i], t.rows[j]) /\ ~ Before(t.rows[j], t.rows[i])
  BY <1>2, <1>3 DEF Before
<1>5. ~ (i < j) /\ ~ (j < i)
  BY <1>1, <1>4 DEF Sorted
<1> QED BY ONLY <1>2, <1>5, i \in DOMAIN t.rows, j \in DOMAIN t.rows

\* A spawn step creates the children of the items S and completes.
LEMMA SpawnedGood ==
    ASSUME blueprint \in Blueprints, NEW e, NEW t \in Tx(blueprint), NEW i,
           Sound(blueprint, t), EndingOk(t.child, e), Runs(t, i),
           Manifest(t.rows[i]).kind = "spawn", NEW S \in SUBSET Items
    PROVE  \E u \in Tx(blueprint) :
              /\ u = SpawnedTx(Mark(t, i, "COMPLETED"), i, S)
              /\ Finalize(SpawnedTx(t, i, S), i) = Continue(u, i)
              /\ Sound(blueprint, u) /\ EndingOk(u.child, e) /\ Passed(blueprint, u, i)
<1>1. PICK b \in Blueprints : b = blueprint
  OBVIOUS
<1>2. PICK n : n = t.rows[i].node
  OBVIOUS
<1>3. /\ i \in DOMAIN t.rows /\ Around(t, i) /\ ~ Done(t.rows[i]) /\ t.parent = "RUNNING"
      /\ t.rows[i].status = "IN_PROGRESS" /\ "COMPLETED" \in Statuses
      /\ t \in Tx(b) /\ Sound(b, t) /\ EndingOk(t.child, e)
  BY <1>1 DEF Runs, Done, Around, Statuses
<1>4. b[n].kind = "spawn"
  BY <1>1, <1>2, <1>3, RowKinds DEF Sound, Layout, Placed
<1>5. PICK v : v = Mark(t, i, "COMPLETED")
  OBVIOUS
<1>6. Sound(b, v) /\ Passed(b, v, i)
  <2>1. b[t.rows[i].node].kind # "join"
    BY <1>2, <1>4
  <2> QED BY <1>3, <1>5, <2>1, MarkSound, MarkPassed
<1>7. /\ v \in Tx(b) /\ Shape(t, v) /\ v.child = t.child /\ v.parent = t.parent
      /\ v.rows[i].status = "COMPLETED"
      /\ \A j \in DOMAIN t.rows : j # i => v.rows[j].status = t.rows[j].status
  BY <1>3, <1>5, MarkWrites
<1>8. v.rows[i].node = n /\ i \in DOMAIN v.rows
  BY <1>2, <1>3, <1>7 DEF Shape
\* No child of n was there before.
<1>9. KidsOf(t, n) = {}
  <2> SUFFICES ASSUME NEW c \in Children, c[1] = n, t.child[c] # "none" PROVE FALSE
    BY DEF KidsOf
  <2>1. PICK k \in DOMAIN t.rows : t.rows[k].node = n /\ t.rows[k].status = "COMPLETED"
    BY <1>3 DEF Sound, Born
  <2>2. k = i
    BY <1>2, <1>3, <1>4, <2>1, OneRow DEF Sound
  <2> QED BY <1>3, <2>1, <2>2
<1>11. PICK u : u = SpawnedTx(v, i, S)
  OBVIOUS
<1>12. Finalize(SpawnedTx(t, i, S), i) = Continue(u, i)
  <2>1. Mark(SpawnedTx(t, i, S), i, "COMPLETED") = SpawnedTx(v, i, S)
    <3>1. v.rows[i].node = t.rows[i].node
      BY <1>2, <1>8
    <3>2. PICK ch : ch = [c \in Children |-> IF c \in {t.rows[i].node} \X S THEN "RUNNING"
                                             ELSE t.child[c]]
      OBVIOUS
    <3>3. SpawnedTx(v, i, S) = [v EXCEPT !.child = ch]
      BY <1>7, <3>1, <3>2 DEF SpawnedTx
    <3>4. SpawnedTx(t, i, S) = [t EXCEPT !.child = ch]
      BY <3>2 DEF SpawnedTx
    <3>5. [[t EXCEPT !.child = ch] EXCEPT !.rows[i].status = "COMPLETED"]
          = [[t EXCEPT !.rows[i].status = "COMPLETED"] EXCEPT !.child = ch]
      BY DEF Tx
    <3> QED BY ONLY <1>5, <3>3, <3>4, <3>5 DEF Mark
  <2> QED BY <1>11, <2>1 DEF Finalize
<1>13. /\ u \in Tx(b) /\ u.parent = v.parent /\ u.rows = v.rows
       /\ u.cursor = v.cursor /\ u.loops = v.loops
       /\ \A c \in Children :
             u.child[c] = IF c \in {n} \X S THEN "RUNNING" ELSE t.child[c]
  BY <1>7, <1>8, <1>11, SpawnWrites
<1>14. Layout(b, u) /\ DelayTail(b, u)
  <2>1. Layout(b, v) /\ DelayTail(b, v)
    BY <1>6 DEF Sound
  <2> QED BY ONLY <1>13, <2>1 DEF Layout, Placed, Sorted, Covered, EndsWhole, Whole, Counted,
                                 Left, DelayTail
<1>15. Born(b, u)
  <2> SUFFICES ASSUME NEW c \in Children, u.child[c] # "none"
               PROVE  \E k \in DOMAIN u.rows : /\ u.rows[k].node = c[1]
                                               /\ b[c[1]].kind = "spawn"
                                               /\ u.rows[k].status = "COMPLETED"
    BY DEF Born
  <2>1. CASE c \in {n} \X S
    <3>1. c[1] = n
      BY <2>1
    <3> QED BY <1>4, <1>7, <1>8, <1>13, <3>1
  <2>2. CASE c \notin {n} \X S
    <3>1. v.child[c] # "none"
      BY <1>7, <1>13, <2>2
    <3> QED BY <1>6, <1>13, <3>1 DEF Sound, Born
  <2> QED BY <2>1, <2>2
<1>16. JoinsDone(b, u)
  <2> SUFFICES ASSUME NEW j \in DOMAIN v.rows, b[v.rows[j].node].kind = "join",
                      v.rows[j].status = "COMPLETED"
               PROVE  /\ KidsOf(u, b[v.rows[j].node].of) # {}
                      /\ \A c \in KidsOf(u, b[v.rows[j].node].of) : u.child[c] # "RUNNING"
    BY <1>13 DEF JoinsDone
  <2>1. PICK of : of = b[v.rows[j].node].of
    OBVIOUS
  <2>2. /\ KidsOf(v, of) # {}
        /\ \A c \in KidsOf(v, of) : v.child[c] # "RUNNING"
    BY <1>6, <2>1 DEF Sound, JoinsDone
  <2>3. of # n
    BY <1>7, <1>9, <2>2 DEF KidsOf
  <2>4. \A c \in Children : c[1] = of => u.child[c] = v.child[c]
    BY <1>7, <1>13, <2>3
  <2>5. KidsOf(u, of) = KidsOf(v, of)
    BY <2>4 DEF KidsOf
  <2>6. \A c \in KidsOf(u, of) : u.child[c] # "RUNNING"
    BY <2>2, <2>4, <2>5 DEF KidsOf
  <2> QED BY <2>1, <2>2, <2>5, <2>6
<1>17. Passed(b, u, i)
  BY ONLY <1>6, <1>13 DEF Passed, Around, Quiet
<1>18. EndingOk(u.child, e)
  BY <1>3, <1>13 DEF EndingOk
<1>19. Sound(b, u)
  BY <1>13, <1>14, <1>15, <1>16 DEF Sound
<1> QED BY <1>1, <1>5, <1>11, <1>12, <1>13, <1>17, <1>18, <1>19

\* A spawn step creates children and completes, or fails.
LEMMA SpawnGood ==
    ASSUME blueprint \in Blueprints, NEW e, NEW t \in Tx(blueprint), NEW i,
           Sound(blueprint, t), EndingOk(t.child, e), Runs(t, i),
           Manifest(t.rows[i]).kind = "spawn"
    PROVE  \A c \in SpawnChildren(t, i) : GoodCall(blueprint, e, c)
<1>1. PICK b \in Blueprints : b = blueprint
  OBVIOUS
<1>2. /\ i \in DOMAIN t.rows /\ Around(t, i) /\ ~ Done(t.rows[i])
      /\ t \in Tx(b) /\ Sound(b, t) /\ EndingOk(t.child, e)
  BY <1>1 DEF Runs, Done
<1>3. ASSUME NEW S \in SUBSET Items
      PROVE  \A c \in Finalize(SpawnedTx(t, i, S), i) : GoodCall(b, e, c)
  <2>1. PICK u \in Tx(blueprint) :
           /\ u = SpawnedTx(Mark(t, i, "COMPLETED"), i, S)
           /\ Finalize(SpawnedTx(t, i, S), i) = Continue(u, i)
           /\ Sound(blueprint, u) /\ EndingOk(u.child, e) /\ Passed(blueprint, u, i)
    BY SpawnedGood
  <2>2. \A c \in Continue(u, i) : GoodCall(blueprint, e, c)
    BY <2>1, ContinueGood
  <2> QED BY <1>1, <2>1, <2>2
<1>4. ASSUME NEW er \in SpawnErrors PROVE GoodCall(b, e, Fail(t, i, er))
  <2>1. er \in StepErrors
    BY ErrorAssumption DEF EngineErrors, StepErrors
  <2> QED BY <1>2, <2>1, FailGood
<1> DEFINE made == {Finalize(SpawnedTx(t, i, S), i) : S \in (SUBSET Items) \ {{}}}
           failed == {Fail(t, i, er) : er \in SpawnErrors}
<1>5. SpawnChildren(t, i) = (UNION made) \cup failed
  BY DEF SpawnChildren, SpawnedTx
<1>6. \A W \in made : \E S \in SUBSET Items : W = Finalize(SpawnedTx(t, i, S), i)
  OBVIOUS
<1>7. \A c \in failed : \E er \in SpawnErrors : c = Fail(t, i, er)
  OBVIOUS
<1> HIDE DEF made, failed
<1> TAKE c \in SpawnChildren(t, i)
<1>8. \/ \E S \in SUBSET Items : c \in Finalize(SpawnedTx(t, i, S), i)
      \/ \E er \in SpawnErrors : c = Fail(t, i, er)
  <2>1. (\E W \in made : c \in W) \/ c \in failed
    BY ONLY <1>5, c \in SpawnChildren(t, i)
  <2> QED BY ONLY <1>6, <1>7, <2>1
<1>9. GoodCall(b, e, c)
  BY <1>3, <1>4, <1>8
<1> QED BY <1>1, <1>9

\* The next row is started, skipped or fails, or the saga completes.
LEMMA ScheduleGood ==
    ASSUME blueprint \in Blueprints, NEW e, NEW t \in Tx(blueprint), NEW i,
           Sound(blueprint, t), EndingOk(t.child, e), Reached(blueprint, t, i)
    PROVE  \A c \in Schedule(t, i) : GoodCall(blueprint, e, c)
<1>1. PICK b \in Blueprints : b = blueprint
  OBVIOUS
<1>2. /\ t \in Tx(b) /\ Sound(b, t) /\ t.rows \in Seq(Row) /\ Len(t.rows) \in Nat
      /\ DOMAIN t.rows = 1 .. Len(t.rows) /\ i \in 1 .. Len(t.rows) + 1 /\ Around(t, i)
      /\ t.parent = "RUNNING"
  <2>1. t.rows \in Seq(Row)
    BY DEF Tx
  <2>2. Len(t.rows) \in Nat /\ DOMAIN t.rows = 1 .. Len(t.rows)
    BY ONLY <2>1
  <2> QED BY <1>1, <2>1, <2>2 DEF Reached, Around
<1>3. CASE i > Len(t.rows)
  <2>1. Schedule(t, i) = {Over(Close(t, "COMPLETED"))}
    BY <1>3 DEF Schedule
  <2>2. PICK u : u = Close(t, "COMPLETED")
    OBVIOUS
  <2>3. i = Len(t.rows) + 1
    BY ONLY <1>2, <1>3
  <2>4. t.cursor = Len(b) + 1
    BY <1>1, <2>3 DEF Reached
  <2>5. \A j \in DOMAIN t.rows : Done(t.rows[j])
    BY ONLY <1>2, <2>3 DEF Around
  <2>6. /\ u \in Tx(b) /\ Shape(t, u) /\ u.parent = "COMPLETED" /\ u.cursor = t.cursor
        /\ u.loops = t.loops /\ u.child = t.child
        /\ \A j \in DOMAIN t.rows :
              /\ u.rows[j].status = t.rows[j].status
              /\ u.rows[j].error = t.rows[j].error
              /\ u.rows[j].undo = t.rows[j].undo
    <3>1. "COMPLETED" \in SagaStatus
      BY DEF SagaStatus, Terminal
    <3>2. \A j \in DOMAIN t.rows : t.rows[j].status # "PENDING"
      BY <2>5 DEF Done
    <3> QED BY <1>2, <2>2, <3>1, <3>2, CloseWrites
  <2>7. Sound(b, u)
    <3>1. \A j \in DOMAIN t.rows : b[t.rows[j].node].kind \in {"spawn", "join"} =>
             (u.rows[j].status = "COMPLETED" <=> t.rows[j].status = "COMPLETED")
      BY <2>6
    <3>2. u.parent \notin {"PENDING", "RUNNING"}
      BY <2>6
    <3> QED BY <1>2, <2>6, <3>1, <3>2, SoundKept
  <2>8. Finished(b, u)
    <3>1. Quiet(t)
      BY <1>2 DEF Around
    <3> QED BY ONLY <2>4, <2>5, <2>6, <3>1 DEF Finished, Quiet, Done, Shape
  <2>9. Waits(b, u, e)
    BY ONLY <2>8 DEF Finished, Waits, Done
  <2>10. GoodCall(b, e, Over(u))
    BY <2>6, <2>7, <2>8, <2>9, GoodOver DEF Phase
  <2> QED BY <1>1, <2>1, <2>2, <2>10
<1>4. CASE ~ (i > Len(t.rows))
  <2>1. i \in DOMAIN t.rows
    BY ONLY <1>2, <1>4
  <2>2. t.rows[i].status = "PENDING" /\ ~ Done(t.rows[i])
    BY <1>2, <1>4 DEF Reached, Done
  <2>3. PICK u : u = Mark(t, i, "IN_PROGRESS")
    OBVIOUS
  <2>4. "IN_PROGRESS" \in Statuses /\ "SKIPPED" \in Statuses
    BY DEF Statuses
  <2>5. /\ u \in Tx(b) /\ u.child = t.child /\ Shape(t, u)
    <3>1. t \in Tx(b)
      BY <1>2
    <3>2. "IN_PROGRESS" \in Statuses
      BY <2>4
    <3> QED BY ONLY <2>1, <2>3, <3>1, <3>2, MarkWrites
  <2>6. Sound(b, u) /\ Runs(u, i)
    BY <1>2, <2>1, <2>2, <2>3, <2>4, MarkSound, MarkRuns
  <2>7. EndingOk(u.child, e)
    BY <2>5
  <2>8. Manifest(u.rows[i]) = Manifest(t.rows[i])
    BY <2>1, <2>5 DEF Manifest, Shape
  <2>9. /\ Manifest(u.rows[i]) = RowSpec(b, u.rows[i])
        /\ Manifest(u.rows[i]).kind \in {"worker", "spawn", "join"}
    <3>1. Fits(b, u.rows[i])
      BY <2>1, <2>5, <2>6 DEF Sound, Layout, Placed, Shape
    <3> QED BY <1>1, <3>1, RowKinds
  <2>10. ASSUME NEW er \in EngineErrors
         PROVE  GoodCall(b, e, Fail(u, i, er)) /\ GoodCall(b, e, Fail(t, i, er))
    <3>1. er \in StepErrors
      BY DEF EngineErrors, StepErrors
    <3>2. i \in DOMAIN u.rows /\ Around(u, i) /\ ~ Done(u.rows[i])
      BY <2>6 DEF Runs, Done
    <3> QED BY <1>2, <2>1, <2>2, <2>5, <2>6, <2>7, <3>1, <3>2, FailGood
  <2>11. ASSUME NEW c \in Trigger(t, i) PROVE GoodCall(b, e, c)
    <3>1. CASE Manifest(t.rows[i]).kind = "spawn"
      <4>1. Trigger(t, i) = SpawnChildren(u, i)
        BY <2>3, <3>1 DEF Trigger
      <4> QED BY <1>1, <2>5, <2>6, <2>7, <2>8, <2>11, <3>1, <4>1, SpawnGood
    <3>2. CASE Manifest(t.rows[i]).kind = "join"
      <4>1. Trigger(t, i) = TryJoin(u, i)
        BY <2>3, <3>2 DEF Trigger
      <4> QED BY <1>1, <2>5, <2>6, <2>7, <2>8, <2>11, <3>2, <4>1, TryJoinGood
    <3>3. CASE Manifest(t.rows[i]).kind = "worker"
      <4>1. Trigger(t, i) = {Over(u)} \cup {Fail(u, i, er) : er \in EngineErrors}
        BY <2>3, <3>3 DEF Trigger
      <4>2. Phase(b, u)
        <5>1. RowSpec(b, u.rows[i]).kind \in {"worker", "join"}
          BY <2>8, <2>9, <3>3
        <5>2. i \in DOMAIN u.rows
          BY <2>6 DEF Runs
        <5> QED BY ONLY <2>6, <5>1, <5>2 DEF Phase, Busy
      <4>3. Waits(b, u, e)
        <5>1. b[u.rows[i].node].kind # "join"
          BY <2>8, <2>9, <3>3 DEF RowSpec
        <5>2. \A j \in DOMAIN u.rows : j # i => u.rows[j].status # "IN_PROGRESS"
          <6>1. i \in DOMAIN u.rows /\ Around(u, i) /\ \A j \in DOMAIN u.rows : j \in Nat
            BY <2>5, <2>6, RowTypes DEF Runs
          <6>2. i \in Nat
            BY <6>1
          <6> QED BY ONLY <6>1, <6>2 DEF Around, Done
        <5> QED BY ONLY <5>1, <5>2 DEF Waits
      <4>4. GoodCall(b, e, Over(u))
        BY <2>5, <2>6, <2>7, <4>2, <4>3, GoodOver
      <4> QED BY <2>10, <2>11, <4>1, <4>4
    <3> QED BY <2>8, <2>9, <3>1, <3>2, <3>3
  <2>12. ASSUME NEW c \in Continue(Mark(t, i, "SKIPPED"), i) PROVE GoodCall(b, e, c)
    <3>1. PICK v : v = Mark(t, i, "SKIPPED")
      OBVIOUS
    <3>2. v \in Tx(b) /\ v.child = t.child
      <4>1. t \in Tx(b)
        BY <1>2
      <4>2. "SKIPPED" \in Statuses
        BY <2>4
      <4> QED BY ONLY <2>1, <3>1, <4>1, <4>2, MarkWrites
    <3>3. Sound(b, v) /\ Passed(b, v, i)
      BY <1>2, <2>1, <2>2, <2>4, <3>1, MarkSound, MarkPassed
    <3> QED BY <1>1, <2>12, <3>1, <3>2, <3>3, ContinueGood
  <2>13. \A c \in Schedule(t, i) :
            \/ c \in Trigger(t, i) \/ c \in Continue(Mark(t, i, "SKIPPED"), i)
            \/ \E er \in EngineErrors : c = Fail(t, i, er)
    BY <1>4 DEF Schedule
  <2> QED BY <1>1, <2>10, <2>11, <2>12, <2>13
<1> QED BY <1>3, <1>4

-----------------------------------------------------------------------------
(* Unwinding *)

\* Whether a row is owed depends on its place and its status.
LEMMA OwedKept ==
    ASSUME NEW b, NEW r, NEW s, r.node = s.node, r.pos = s.pos,
           s.status \in {"COMPLETED", "TIMED_OUT"} => s.status = r.status
    PROVE  Owed(b, s) => Owed(b, r)
BY DEF Owed, RowSpec

\* Writes that undo nothing, and complete nothing.
LEMMA BackKept ==
    ASSUME NEW b, NEW t \in Tx(b), NEW u \in Tx(b), Back(b, t), Shape(t, u), u.child = t.child,
           u.parent \in {"COMPENSATING", "COMPENSATED", "FAILED"},
           \A j \in DOMAIN t.rows :
              /\ u.rows[j].status # "IN_PROGRESS"
              /\ u.rows[j].status \in {"COMPLETED", "TIMED_OUT"} =>
                    u.rows[j].status = t.rows[j].status
              /\ u.rows[j].error = "LOOP_EXHAUSTED" => t.rows[j].error = "LOOP_EXHAUSTED"
              /\ Done(t.rows[j]) => Done(u.rows[j]) \/ u.rows[j].error = "clean"
              /\ t.rows[j].error = "clean" => u.rows[j].error = "clean"
              /\ u.rows[j].undo = t.rows[j].undo,
           u.parent = "COMPENSATED" /\ NoneBehind(b) => UndoneAbove(b, t, 0)
    PROVE  Back(b, u)
<1>1. DOMAIN u.rows = DOMAIN t.rows /\ \A j \in DOMAIN t.rows : /\ u.rows[j].node = t.rows[j].node
                                                               /\ u.rows[j].iter = t.rows[j].iter
                                                               /\ u.rows[j].pos = t.rows[j].pos
  BY DEF Shape
<1>2. GivenUp(b, u)
  <2> SUFFICES ASSUME NEW i \in DOMAIN u.rows, u.rows[i].error = "LOOP_EXHAUSTED"
               PROVE  /\ u.rows[i].node \in LoopNodes(b)
                      /\ u.rows[i].iter = b[u.rows[i].node].max
                      /\ \A j \in DOMAIN u.rows : u.rows[j].node = u.rows[i].node =>
                            Done(u.rows[j]) \/ u.rows[j].error = "clean"
    BY DEF GivenUp
  <2>1. /\ t.rows[i].node \in LoopNodes(b)
        /\ t.rows[i].iter = b[t.rows[i].node].max
        /\ \A j \in DOMAIN t.rows : t.rows[j].node = t.rows[i].node =>
              Done(t.rows[j]) \/ t.rows[j].error = "clean"
    BY <1>1 DEF Back, GivenUp
  <2> QED BY <1>1, <2>1
<1>3. SpawnUndo(b, u)
  <2>1. SpawnUndo(b, t)
    BY DEF Back
  <2> QED BY <1>1, <2>1 DEF SpawnUndo, KidsOf
<1>4. ASSUME NEW from, UndoneAbove(b, t, from) PROVE UndoneAbove(b, u, from)
  <2> SUFFICES ASSUME NEW j \in DOMAIN t.rows, j > from, Owed(b, u.rows[j])
               PROVE  u.rows[j].undo = "COMPENSATED"
    BY <1>1 DEF UndoneAbove
  <2>1. Owed(b, t.rows[j])
    BY <1>1, OwedKept
  <2> QED BY <1>4, <2>1 DEF UndoneAbove
<1>5. ASSUME NoneBehind(b) PROVE Lifo(b, u)
  <2>1. Lifo(b, t)
    BY <1>5 DEF Back
  <2>2. \A i \in DOMAIN u.rows : u.rows[i].undo # "none" => UndoneAbove(b, u, i)
    BY <1>1, <1>4, <2>1 DEF Lifo
  <2>3. u.parent = "COMPENSATED" => UndoneAbove(b, u, 0)
    BY <1>4, <1>5
  <2> QED BY <2>2, <2>3 DEF Lifo
<1>6. \A j \in DOMAIN u.rows : u.rows[j].status # "IN_PROGRESS"
  BY <1>1
<1> QED BY <1>2, <1>3, <1>5, <1>6 DEF Back

\* The saga ends on the way back.
LEMMA CloseGood ==
    ASSUME NEW b \in Blueprints, NEW e, NEW t \in Tx(b), Sound(b, t), EndingOk(t.child, e),
           Back(b, t), NEW p \in {"COMPENSATED", "FAILED"},
           p = "COMPENSATED" /\ NoneBehind(b) => UndoneAbove(b, t, 0)
    PROVE  GoodCall(b, e, Over(Close(t, p)))
<1>1. PICK u : u = Close(t, p)
  OBVIOUS
<1>2. p \in SagaStatus
  BY DEF SagaStatus, Terminal
<1>3. /\ u \in Tx(b) /\ Shape(t, u)
      /\ u.parent = p /\ u.cursor = t.cursor
      /\ u.loops = t.loops /\ u.child = t.child
      /\ \A j \in DOMAIN t.rows :
            /\ u.rows[j].status = IF t.rows[j].status = "PENDING" THEN "SKIPPED"
                                  ELSE t.rows[j].status
            /\ u.rows[j].error = t.rows[j].error
            /\ u.rows[j].undo = t.rows[j].undo
  BY <1>1, <1>2, CloseWrites
<1>4. \A j \in DOMAIN t.rows : t.rows[j].status # "IN_PROGRESS"
  BY DEF Back
<1>5. Back(b, u)
  <2>1. u.parent \in {"COMPENSATING", "COMPENSATED", "FAILED"}
    BY <1>3
  <2>2. \A j \in DOMAIN t.rows :
           /\ u.rows[j].status # "IN_PROGRESS"
           /\ u.rows[j].status \in {"COMPLETED", "TIMED_OUT"} =>
                 u.rows[j].status = t.rows[j].status
           /\ u.rows[j].error = "LOOP_EXHAUSTED" => t.rows[j].error = "LOOP_EXHAUSTED"
           /\ Done(t.rows[j]) => Done(u.rows[j]) \/ u.rows[j].error = "clean"
           /\ t.rows[j].error = "clean" => u.rows[j].error = "clean"
           /\ u.rows[j].undo = t.rows[j].undo
    BY ONLY <1>3, <1>4 DEF Done
  <2>3. u.parent = "COMPENSATED" /\ NoneBehind(b) => UndoneAbove(b, t, 0)
    BY <1>3
  <2> QED BY <1>3, <2>1, <2>2, <2>3, BackKept
<1>6. Sound(b, u)
  <2>1. u.parent \notin {"PENDING", "RUNNING"}
    BY <1>3
  <2>2. \A j \in DOMAIN t.rows :
           u.rows[j].status = "COMPLETED" <=> t.rows[j].status = "COMPLETED"
    BY <1>3
  <2> QED BY <1>3, <2>1, <2>2, SoundKept
<1> QED BY <1>1, <1>3, <1>5, <1>6, GoodBack

\* The undo command of a row cannot be built.
LEMMA Unbuildable ==
    ASSUME NEW b \in Blueprints, NEW t \in Tx(b), Sound(b, t), Back(b, t),
           NEW i \in DOMAIN t.rows, b[t.rows[i].node].kind \notin {"spawn", "join"}
    PROVE  LET u == [Mark(t, i, "FAILED") EXCEPT !.rows[i].error = "clean"]
           IN  u \in Tx(b) /\ Sound(b, u) /\ Back(b, u) /\ u.child = t.child
<1>1. PICK v : v = Mark(t, i, "FAILED")
  OBVIOUS
<1>2. "FAILED" \in Statuses
  BY DEF Statuses
<1>3. /\ v \in Tx(b) /\ Shape(t, v) /\ v.parent = t.parent /\ v.cursor = t.cursor
      /\ v.loops = t.loops /\ v.child = t.child
      /\ \A j \in DOMAIN t.rows :
            /\ v.rows[j].status = IF j = i THEN "FAILED" ELSE t.rows[j].status
            /\ v.rows[j].error = t.rows[j].error
            /\ v.rows[j].undo = t.rows[j].undo
  BY ONLY <1>1, <1>2, t \in Tx(b), i \in DOMAIN t.rows, MarkWrites
<1>4. i \in DOMAIN v.rows
  BY <1>3 DEF Shape
<1> DEFINE r == [v.rows[i] EXCEPT !.error = "clean"]
<1>5. /\ r \in Row /\ r.status = "FAILED" /\ r.error = "clean" /\ r.undo = t.rows[i].undo
      /\ r.node = t.rows[i].node /\ r.pos = t.rows[i].pos /\ r.iter = t.rows[i].iter
  <2>1. v.rows[i] \in Row
    BY <1>3, <1>4, RowTypes
  <2>2. "clean" \in StepErrors
    BY DEF StepErrors
  <2>3. r \in Row /\ r.status = v.rows[i].status /\ r.error = "clean" /\ r.undo = v.rows[i].undo
        /\ r.node = v.rows[i].node /\ r.pos = v.rows[i].pos /\ r.iter = v.rows[i].iter
    BY <2>1, <2>2 DEF Row
  <2> QED BY <1>3, <2>3 DEF Shape
<1>6. [Mark(t, i, "FAILED") EXCEPT !.rows[i].error = "clean"]
      = [v EXCEPT !.rows = [v.rows EXCEPT ![i] = r]]
  BY ONLY <1>1, <1>3, <1>4 DEF Tx
<1> HIDE DEF r
<1>7. PICK u : u = [v EXCEPT !.rows = [v.rows EXCEPT ![i] = r]]
  OBVIOUS
<1>8. /\ u \in Tx(b) /\ u.parent = v.parent /\ u.cursor = v.cursor
      /\ u.loops = v.loops /\ u.child = v.child
      /\ DOMAIN u.rows = DOMAIN v.rows /\ Len(u.rows) = Len(v.rows)
      /\ \A j \in DOMAIN v.rows : u.rows[j] = IF j = i THEN r ELSE v.rows[j]
  BY ONLY <1>3, <1>4, <1>5, <1>7, RowWrites
<1>9. /\ Shape(t, u) /\ u.parent = t.parent /\ u.cursor = t.cursor
      /\ u.loops = t.loops /\ u.child = t.child
      /\ \A j \in DOMAIN t.rows :
            /\ u.rows[j].status = IF j = i THEN "FAILED" ELSE t.rows[j].status
            /\ u.rows[j].error = IF j = i THEN "clean" ELSE t.rows[j].error
            /\ u.rows[j].undo = t.rows[j].undo
  BY ONLY <1>3, <1>5, <1>8 DEF Shape
<1>10. t.parent \in {"COMPENSATING", "COMPENSATED", "FAILED"}
       /\ \A j \in DOMAIN t.rows : t.rows[j].status # "IN_PROGRESS"
  BY DEF Back
<1>11. Back(b, u)
  <2>1. \A j \in DOMAIN t.rows :
           /\ u.rows[j].status # "IN_PROGRESS"
           /\ u.rows[j].status \in {"COMPLETED", "TIMED_OUT"} =>
                 u.rows[j].status = t.rows[j].status
           /\ u.rows[j].error = "LOOP_EXHAUSTED" => t.rows[j].error = "LOOP_EXHAUSTED"
           /\ Done(t.rows[j]) => Done(u.rows[j]) \/ u.rows[j].error = "clean"
           /\ t.rows[j].error = "clean" => u.rows[j].error = "clean"
           /\ u.rows[j].undo = t.rows[j].undo
    BY ONLY <1>9, <1>10 DEF Done
  <2>2. u.parent = "COMPENSATED" /\ NoneBehind(b) => UndoneAbove(b, t, 0)
    BY <1>9 DEF Back, Lifo
  <2> QED BY <1>8, <1>9, <1>10, <2>1, <2>2, BackKept
<1>12. Sound(b, u)
  <2>1. u.parent \notin {"PENDING", "RUNNING"}
    BY <1>9, <1>10
  <2>2. \A j \in DOMAIN t.rows : b[t.rows[j].node].kind \in {"spawn", "join"} =>
           (u.rows[j].status = "COMPLETED" <=> t.rows[j].status = "COMPLETED")
    BY <1>9
  <2> QED BY <1>8, <1>9, <2>1, <2>2, SoundKept
<1> QED BY <1>6, <1>7, <1>8, <1>9, <1>11, <1>12

\* The undo of a row begins, or is done.
LEMMA UndoGood ==
    ASSUME NEW b \in Blueprints, NEW t \in Tx(b), Sound(b, t), Back(b, t),
           NEW i \in DOMAIN t.rows, NEW x \in Undos,
           NoneBehind(b) => UndoneAbove(b, t, i),
           t.rows[i].undo # "COMPENSATED" \/ x = "COMPENSATED",
           b[t.rows[i].node].kind = "spawn" =>
               /\ x = "COMPENSATED"
               /\ \A c \in KidsOf(t, t.rows[i].node) : t.child[c] # "RUNNING"
    PROVE  LET u == [t EXCEPT !.rows[i].undo = x]
           IN  /\ u \in Tx(b) /\ Sound(b, u) /\ Back(b, u) /\ u.child = t.child
               /\ x = "COMPENSATED" => i - 1 \in Nat /\ Unwinds(b, u, i - 1)
<1>1. PICK u : u = [t EXCEPT !.rows[i].undo = x]
  OBVIOUS
<1>2. /\ u \in Tx(b) /\ Shape(t, u)
      /\ u.parent = t.parent /\ u.cursor = t.cursor
      /\ u.loops = t.loops /\ u.child = t.child
      /\ \A j \in DOMAIN t.rows :
            /\ u.rows[j].status = t.rows[j].status
            /\ u.rows[j].error = t.rows[j].error
            /\ u.rows[j].undo = IF j = i THEN x ELSE t.rows[j].undo
  BY ONLY <1>1, t \in Tx(b), i \in DOMAIN t.rows, x \in Undos, UndoWrites
<1>3. /\ DOMAIN u.rows = DOMAIN t.rows /\ Len(u.rows) = Len(t.rows)
      /\ \A j \in DOMAIN t.rows : /\ u.rows[j].node = t.rows[j].node
                                  /\ u.rows[j].iter = t.rows[j].iter
                                  /\ u.rows[j].pos = t.rows[j].pos
  BY <1>2 DEF Shape
<1>4. /\ t.parent \in {"COMPENSATING", "COMPENSATED", "FAILED"}
      /\ \A j \in DOMAIN t.rows : t.rows[j].status # "IN_PROGRESS"
      /\ GivenUp(b, t) /\ SpawnUndo(b, t) /\ (NoneBehind(b) => Lifo(b, t))
  BY DEF Back
<1>5. /\ i \in Nat /\ i >= 1 /\ i <= Len(t.rows) /\ Len(t.rows) \in Nat
      /\ \A j \in DOMAIN t.rows : j \in Nat
  BY RowTypes
<1>6. Sound(b, u)
  <2>1. u.parent \notin {"PENDING", "RUNNING"}
    BY <1>2, <1>4
  <2>2. \A j \in DOMAIN t.rows : b[t.rows[j].node].kind \in {"spawn", "join"} =>
           (u.rows[j].status = "COMPLETED" <=> t.rows[j].status = "COMPLETED")
    BY <1>2
  <2> QED BY <1>2, <2>1, <2>2, SoundKept
<1>7. GivenUp(b, u)
  BY ONLY <1>2, <1>3, <1>4 DEF GivenUp, Done
<1>8. SpawnUndo(b, u)
  BY <1>2, <1>3, <1>4 DEF SpawnUndo, KidsOf
<1>9. \A j \in DOMAIN t.rows : Owed(b, u.rows[j]) => Owed(b, t.rows[j])
  BY <1>2, <1>3, OwedKept
<1>10. ASSUME NoneBehind(b) PROVE Lifo(b, u)
  <2>1. Lifo(b, t) /\ UndoneAbove(b, t, i)
    BY <1>4, <1>10
  <2>2. ASSUME NEW k \in DOMAIN u.rows, u.rows[k].undo # "none"
        PROVE  UndoneAbove(b, u, k)
    <3> SUFFICES ASSUME NEW j \in DOMAIN t.rows, j > k, Owed(b, u.rows[j])
                 PROVE  u.rows[j].undo = "COMPENSATED"
      BY <1>3 DEF UndoneAbove
    <3>1. Owed(b, t.rows[j])
      BY <1>9
    <3>2. CASE k = i
      <4>1. t.rows[j].undo = "COMPENSATED" /\ j # i
        BY <1>5, <2>1, <3>1, <3>2 DEF UndoneAbove
      <4> QED BY <1>2, <4>1
    <3>3. CASE k # i
      <4>1. k \in DOMAIN t.rows /\ t.rows[k].undo # "none"
        BY <1>2, <1>3, <2>2, <3>3
      <4>2. t.rows[j].undo = "COMPENSATED"
        BY <2>1, <3>1, <4>1 DEF Lifo, UndoneAbove
      <4> QED BY <1>2, <4>2
    <3> QED BY <3>2, <3>3
  <2>3. ASSUME u.parent = "COMPENSATED" PROVE UndoneAbove(b, u, 0)
    <3> SUFFICES ASSUME NEW j \in DOMAIN t.rows, j > 0, Owed(b, u.rows[j])
                 PROVE  u.rows[j].undo = "COMPENSATED"
      BY <1>3 DEF UndoneAbove
    <3>1. t.rows[j].undo = "COMPENSATED"
      BY <1>2, <1>9, <2>1, <2>3 DEF Lifo, UndoneAbove
    <3> QED BY <1>2, <3>1
  <2> QED BY <2>2, <2>3 DEF Lifo
<1>11. Back(b, u)
  <2>1. \A j \in DOMAIN u.rows : u.rows[j].status # "IN_PROGRESS"
    BY <1>2, <1>3, <1>4
  <2>2. u.parent \in {"COMPENSATING", "COMPENSATED", "FAILED"}
    BY <1>2, <1>4
  <2> QED BY <1>7, <1>8, <1>10, <2>1, <2>2 DEF Back
<1>12. ASSUME x = "COMPENSATED" PROVE i - 1 \in Nat /\ Unwinds(b, u, i - 1)
  <2>1. i - 1 \in Nat /\ i - 1 \in 0 .. Len(u.rows)
    BY <1>3, <1>5
  <2>2. ASSUME NoneBehind(b) PROVE UndoneAbove(b, u, i - 1)
    <3> SUFFICES ASSUME NEW j \in DOMAIN t.rows, j > i - 1, Owed(b, u.rows[j])
                 PROVE  u.rows[j].undo = "COMPENSATED"
      BY <1>3 DEF UndoneAbove
    <3>1. j = i \/ j > i
      BY <1>5
    <3>2. j > i => t.rows[j].undo = "COMPENSATED"
      BY <1>9, <2>2 DEF UndoneAbove
    <3> QED BY <1>2, <1>12, <3>1, <3>2
  <2> QED BY <1>11, <2>1, <2>2 DEF Unwinds
<1> QED BY <1>1, <1>2, <1>6, <1>11, <1>12

\* The children of a spawn step whose row is owed are all that has to end.
LEMMA CompensateSpawnGood ==
    ASSUME blueprint \in Blueprints, NEW e, NEW t \in Tx(blueprint),
           Sound(blueprint, t), EndingOk(t.child, e), Back(blueprint, t),
           NEW i \in DOMAIN t.rows, blueprint[t.rows[i].node].kind = "spawn",
           NoneBehind(blueprint) => UndoneAbove(blueprint, t, i)
    PROVE  GoodCall(blueprint, e, CompensateSpawn(t, i))
<1>1. PICK b \in Blueprints : b = blueprint
  OBVIOUS
<1>2. t \in Tx(b) /\ Sound(b, t) /\ Back(b, t)
  BY <1>1
<1>3. CASE ~ AllTerminal(t, t.rows[i].node)
  <2>1. CompensateSpawn(t, i) = Over(t)
    BY <1>3 DEF CompensateSpawn
  <2> QED BY <1>1, <1>2, <2>1, GoodBack
<1>4. CASE AllTerminal(t, t.rows[i].node)
  <2>1. PICK u : u = [t EXCEPT !.rows[i].undo = "COMPENSATED"]
    OBVIOUS
  <2>2. CompensateSpawn(t, i) = ThenUnwind(u, i - 1)
    BY <1>4, <2>1 DEF CompensateSpawn
  <2>3. \A c \in KidsOf(t, t.rows[i].node) : t.child[c] # "RUNNING"
    BY <1>4, TerminalKids DEF Terminal
  <2>4. "COMPENSATED" \in Undos
    BY DEF Undos
  <2>5. NoneBehind(b) => UndoneAbove(b, t, i)
    BY <1>1
  <2>6. /\ u \in Tx(b) /\ Sound(b, u) /\ u.child = t.child
        /\ i - 1 \in Nat /\ Unwinds(b, u, i - 1)
    BY ONLY <1>2, <2>1, <2>3, <2>4, <2>5, b \in Blueprints, i \in DOMAIN t.rows, UndoGood
  <2>7. EndingOk(u.child, e)
    BY <2>6
  <2>8. GoodCall(b, e, ThenUnwind(u, i - 1))
    BY ONLY <2>6, <2>7, GoodUnwind
  <2> QED BY <1>1, <2>2, <2>8
<1> QED BY <1>3, <1>4

\* The walk downwards stops at the last row that is due, if there is one.
LEMMA ToUndoFacts ==
    ASSUME blueprint \in Blueprints, NEW t \in Tx(blueprint), Placed(blueprint, t),
           NEW from \in 0 .. Len(t.rows)
    PROVE  LET due == {i \in 1 .. from : /\ HasCompensation(t.rows[i])
                                         /\ Eligible(t.rows[i])
                                         /\ t.rows[i].undo # "COMPENSATED"}
           IN  /\ ToUndo(t, from) = {} => due = {}
               /\ \A i \in ToUndo(t, from) : /\ i \in due /\ i \in DOMAIN t.rows
                                             /\ \A j \in due : j <= i
               /\ \A j \in DOMAIN t.rows :
                     j <= from /\ Owed(blueprint, t.rows[j]) /\ t.rows[j].undo # "COMPENSATED"
                         => j \in due
<1> DEFINE due == {i \in 1 .. from : /\ HasCompensation(t.rows[i])
                                     /\ Eligible(t.rows[i])
                                     /\ t.rows[i].undo # "COMPENSATED"}
<1>1. ToUndo(t, from) = {i \in due : \A j \in due : j <= i}
  BY DEF ToUndo
<1>2. from \in Nat /\ due \in SUBSET (0 .. from)
  <2>1. t.rows \in Seq(Row)
    BY DEF Tx
  <2>2. Len(t.rows) \in Nat
    BY ONLY <2>1
  <2> QED BY <2>2
<1>3. ASSUME ToUndo(t, from) = {} PROVE due = {}
  <2> HIDE DEF due
  <2> SUFFICES ASSUME due # {} PROVE FALSE
    OBVIOUS
  <2>1. \E x \in due : \A y \in due : y <= x
    BY <1>2, GreatestOf
  <2> QED BY <1>1, <1>3, <2>1
<1>4. \A i \in due : i \in DOMAIN t.rows
  <2>1. t.rows \in Seq(Row)
    BY DEF Tx
  <2>2. DOMAIN t.rows = 1 .. Len(t.rows) /\ Len(t.rows) \in Nat
    BY ONLY <2>1
  <2>3. \A i \in due : i \in 1 .. from
    OBVIOUS
  <2> QED BY ONLY <2>2, <2>3, from \in 0 .. Len(t.rows)
<1>5. ASSUME NEW j \in DOMAIN t.rows, j <= from, Owed(blueprint, t.rows[j]),
             t.rows[j].undo # "COMPENSATED"
      PROVE  j \in due
  <2>1. j \in 1 .. from
    BY <1>2, <1>5, RowTypes
  <2>2. Manifest(t.rows[j]) = RowSpec(blueprint, t.rows[j])
    BY RowKinds DEF Placed
  <2>3. HasCompensation(t.rows[j]) /\ Eligible(t.rows[j])
    BY <1>5, <2>2 DEF Owed, HasCompensation, Eligible
  <2> QED BY <1>5, <2>1, <2>3
<1> QED
  <2> HIDE DEF due
  <2> QED BY <1>1, <1>3, <1>4, <1>5 DEF due

LEMMA UnwindGood ==
    ASSUME blueprint \in Blueprints, NEW e, NEW t \in Tx(blueprint), NEW from \in Nat,
           Sound(blueprint, t), EndingOk(t.child, e), Unwinds(blueprint, t, from)
    PROVE  \A c \in Unwind(t, from) : GoodCall(blueprint, e, c)
<1>1. PICK b \in Blueprints : b = blueprint
  OBVIOUS
<1>2. /\ t \in Tx(b) /\ Sound(b, t) /\ Back(b, t) /\ Placed(b, t) /\ from \in 0 .. Len(t.rows)
      /\ NoneBehind(b) => UndoneAbove(b, t, from)
  BY <1>1 DEF Unwinds, Sound, Layout
<1>3. PICK due : due = {i \in 1 .. from : /\ HasCompensation(t.rows[i])
                                          /\ Eligible(t.rows[i])
                                          /\ t.rows[i].undo # "COMPENSATED"}
  OBVIOUS
<1>4. /\ ToUndo(t, from) = {} => due = {}
      /\ \A i \in ToUndo(t, from) : /\ i \in due /\ i \in DOMAIN t.rows
                                    /\ \A j \in due : j <= i
      /\ \A j \in DOMAIN t.rows :
            j <= from /\ Owed(b, t.rows[j]) /\ t.rows[j].undo # "COMPENSATED" => j \in due
  BY <1>1, <1>2, <1>3, ToUndoFacts
<1>5. from \in Nat /\ \A j \in DOMAIN t.rows : j \in Nat /\ j >= 1
  BY <1>2, RowTypes
<1>6. CASE ToUndo(t, from) = {}
  <2>1. Unwind(t, from) = {Over(Close(t, "COMPENSATED"))}
    BY <1>6 DEF Unwind
  <2>2. ASSUME NoneBehind(b) PROVE UndoneAbove(b, t, 0)
    <3> SUFFICES ASSUME NEW j \in DOMAIN t.rows, Owed(b, t.rows[j])
                 PROVE  t.rows[j].undo = "COMPENSATED"
      BY DEF UndoneAbove
    <3>1. CASE j <= from
      BY <1>4, <1>6, <3>1
    <3>2. CASE ~ (j <= from)
      <4>1. j > from
        BY <1>5, <3>2
      <4> QED BY <1>2, <2>2, <4>1 DEF UndoneAbove
    <3> QED BY <3>1, <3>2
  <2>3. GoodCall(b, e, Over(Close(t, "COMPENSATED")))
    BY <1>2, <2>2, CloseGood
  <2> QED BY <1>1, <2>1, <2>3
<1>7. CASE ToUndo(t, from) # {}
  <2>1. PICK i : i = CHOOSE s \in ToUndo(t, from) : TRUE
    OBVIOUS
  <2>2. i \in ToUndo(t, from)
    BY <1>7, <2>1
  <2>3. /\ i \in due /\ i \in DOMAIN t.rows /\ \A j \in due : j <= i
    BY <1>4, <2>2
  <2>4. /\ HasCompensation(t.rows[i]) /\ t.rows[i].undo # "COMPENSATED" /\ i <= from
    BY <1>3, <1>5, <2>3
  <2>5. /\ Manifest(t.rows[i]).kind \in {"spawn", "worker"}
        /\ Manifest(t.rows[i]).kind = "spawn" <=> b[t.rows[i].node].kind = "spawn"
        /\ Manifest(t.rows[i]).kind = "worker" <=> b[t.rows[i].node].kind \in {"worker", "loop"}
    <3>1. Fits(blueprint, t.rows[i])
      BY <1>1, <1>2, <2>3 DEF Placed
    <3> QED BY <1>1, <2>4, <3>1, RowKinds DEF HasCompensation
  <2>6. ASSUME NoneBehind(b) PROVE UndoneAbove(b, t, i)
    <3> SUFFICES ASSUME NEW j \in DOMAIN t.rows, j > i, Owed(b, t.rows[j])
                 PROVE  t.rows[j].undo = "COMPENSATED"
      BY DEF UndoneAbove
    <3>1. CASE j <= from
      <4>1. j \notin due
        BY <1>5, <2>3
      <4> QED BY <1>4, <3>1, <4>1
    <3>2. CASE ~ (j <= from)
      <4>1. j > from
        BY <1>5, <3>2
      <4> QED BY <1>2, <2>6, <4>1 DEF UndoneAbove
    <3> QED BY <3>1, <3>2
  <2>7. CASE t.rows[i].undo = "COMPENSATING"
    <3>1. Unwind(t, from) = {Over(t)}
      BY <1>7, <2>1, <2>7 DEF Unwind
    <3>2. GoodCall(b, e, Over(t))
      BY <1>2, GoodBack
    <3> QED BY <1>1, <3>1, <3>2
  <2>8. CASE t.rows[i].undo # "COMPENSATING" /\ Manifest(t.rows[i]).kind = "spawn"
    <3>1. Unwind(t, from) = {CompensateSpawn(t, i)}
      BY <1>7, <2>1, <2>8 DEF Unwind
    <3>2. b[t.rows[i].node].kind = "spawn"
      BY <2>5, <2>8
    <3>3. GoodCall(b, e, CompensateSpawn(t, i))
      BY <1>1, <1>2, <2>3, <2>6, <3>2, CompensateSpawnGood
    <3> QED BY <1>1, <3>1, <3>3
  <2>9. CASE t.rows[i].undo # "COMPENSATING" /\ Manifest(t.rows[i]).kind # "spawn"
    <3>1. Unwind(t, from) = ScheduleUndo(t, i)
      BY <1>7, <2>1, <2>9 DEF Unwind
    <3>2. b[t.rows[i].node].kind \notin {"spawn", "join"}
      BY <2>5, <2>9
    <3>3. PICK u : u = [t EXCEPT !.rows[i].undo = "COMPENSATING"]
      OBVIOUS
    <3>4. PICK w : w = [Mark(t, i, "FAILED") EXCEPT !.rows[i].error = "clean"]
      OBVIOUS
    <3>5. ScheduleUndo(t, i) = {Over(u), Over(Close(w, "FAILED"))}
      BY <3>3, <3>4 DEF ScheduleUndo
    <3>6. u \in Tx(b) /\ Sound(b, u) /\ Back(b, u) /\ u.child = t.child
      <4>1. "COMPENSATING" \in Undos
        BY DEF Undos
      <4>2. b[t.rows[i].node].kind # "spawn" /\ i \in DOMAIN t.rows /\ t.rows[i].undo # "COMPENSATED"
        BY <2>3, <2>4, <3>2
      <4>3. t \in Tx(b) /\ Sound(b, t) /\ Back(b, t)
        BY <1>2
      <4> QED BY ONLY <2>6, <3>3, <4>1, <4>2, <4>3, b \in Blueprints, UndoGood
    <3>7. w \in Tx(b) /\ Sound(b, w) /\ Back(b, w) /\ w.child = t.child
      BY <1>2, <2>3, <3>2, <3>4, Unbuildable
    <3>8. GoodCall(b, e, Over(u))
      BY <3>6, GoodBack
    <3>9. GoodCall(b, e, Over(Close(w, "FAILED")))
      BY <3>7, CloseGood
    <3> QED BY <1>1, <3>1, <3>5, <3>8, <3>9
  <2> QED BY <2>7, <2>8, <2>9
<1> QED BY <1>6, <1>7

\* Good calls end with good calls.
LEMMA StepGood ==
    ASSUME blueprint \in Blueprints, NEW e, NEW c, GoodCall(blueprint, e, c)
    PROVE  \A d \in Step(c) : GoodCall(blueprint, e, d)
<1>1. /\ c.todo \in {"schedule", "unwind", "return"} /\ c.tx \in Tx(blueprint) /\ c.at \in Nat
      /\ Sound(blueprint, c.tx) /\ EndingOk(c.tx.child, e)
  BY DEF GoodCall
<1>2. CASE c.todo = "schedule"
  <2>1. Step(c) = Schedule(c.tx, c.at) /\ Reached(blueprint, c.tx, c.at)
    BY <1>2 DEF Step, GoodCall
  <2> QED BY <1>1, <2>1, ScheduleGood
<1>3. CASE c.todo = "unwind"
  <2>1. Step(c) = Unwind(c.tx, c.at) /\ Unwinds(blueprint, c.tx, c.at)
    BY <1>3 DEF Step, GoodCall
  <2> QED BY <1>1, <2>1, UnwindGood
<1>4. CASE c.todo = "return"
  BY <1>4 DEF Step
<1> QED BY <1>1, <1>2, <1>3, <1>4

\* What a transaction may commit.
GoodTx(b, e, t) ==
    /\ t \in Tx(b) /\ Sound(b, t) /\ EndingOk(t.child, e) /\ Phase(b, t) /\ Waits(b, t, e)

LEMMA HandlerGood ==
    ASSUME blueprint \in Blueprints, NEW e, NEW calls,
           \A c \in calls : GoodCall(blueprint, e, c)
    PROVE  \A t \in Returned(calls) : GoodTx(blueprint, e, t)
<1> DEFINE G == {c \in [todo : {"schedule", "unwind", "return"}, tx : Tx(blueprint), at : Nat] :
                    GoodCall(blueprint, e, c)}
<1>1. calls \subseteq G
  BY DEF GoodCall
<1>2. \A c \in G : Step(c) \subseteq G
  <2> TAKE c \in G
  <2>1. \A d \in Step(c) : GoodCall(blueprint, e, d)
    BY StepGood
  <2> QED BY <2>1 DEF GoodCall
<1>3. \A d \in G : d.todo = "return" => GoodTx(blueprint, e, d.tx)
  BY DEF GoodCall, GoodTx
<1> HIDE DEF G
<1>4. \A t \in Returned(calls) : \E d \in G : d.todo = "return" /\ d.tx = t
  BY <1>1, <1>2, ReturnedFrom
<1> QED BY <1>3, <1>4

-----------------------------------------------------------------------------
(* The children *)

\* Of the spawn steps that ran, the last is resumed.
LEMMA ResumeSpawnGood ==
    ASSUME blueprint \in Blueprints, NEW e, NEW t, GoodTx(blueprint, e, t),
           t.parent = "COMPENSATING"
    PROVE  GoodCall(blueprint, e, ResumeSpawn(t))
<1>1. PICK b \in Blueprints : b = blueprint
  OBVIOUS
<1>2. /\ t \in Tx(b) /\ Sound(b, t) /\ EndingOk(t.child, e) /\ Layout(b, t)
      /\ Placed(b, t) /\ Sorted(t)
  BY <1>1 DEF GoodTx, Sound, Layout
<1>3. Back(b, t)
  BY <1>1 DEF GoodTx, Phase, Fresh, Busy, Finished, Runs, Around
<1>4. GoodCall(b, e, Over(t))
  BY <1>2, <1>3, GoodBack
<1>5. PICK ran : ran = {i \in DOMAIN t.rows : /\ Manifest(t.rows[i]).kind = "spawn"
                                              /\ Eligible(t.rows[i])}
  OBVIOUS
<1>6. CASE ran = {} \/ t.rows[Max(ran)].undo = "COMPENSATED"
  BY <1>1, <1>4, <1>5, <1>6 DEF ResumeSpawn
<1>7. CASE ran # {} /\ t.rows[Max(ran)].undo # "COMPENSATED"
  <2>1. PICK m : m = Max(ran)
    OBVIOUS
  <2>2. \A j \in DOMAIN t.rows : /\ j \in Nat /\ j <= Len(t.rows) /\ Len(t.rows) \in Nat
                                 /\ t.rows[j].node \in Nat /\ t.rows[j].iter \in Nat
                                 /\ t.rows[j].pos \in Nat /\ t.rows[j].node \in DOMAIN b
    BY <1>2, RowTypes, Numbers
  <2>3. ran \subseteq DOMAIN t.rows
    BY <1>5
  <2>4. Len(t.rows) \in Nat /\ ran \in SUBSET (0 .. Len(t.rows))
    BY <1>7, <2>2, <2>3
  <2>5. \E x \in ran : \A y \in ran : y <= x
    BY <1>7, <2>4, GreatestOf
  <2>6. \E x \in ran : \A y \in ran : x >= y
    BY ONLY <2>2, <2>3, <2>5
  <2>7. m \in ran /\ \A y \in ran : m >= y
    BY ONLY <2>1, <2>6 DEF Max
  <2>8. m \in DOMAIN t.rows /\ Manifest(t.rows[m]).kind = "spawn"
    BY <1>5, <2>7
  <2>9. \A j \in DOMAIN t.rows :
           /\ Manifest(t.rows[j]) = RowSpec(b, t.rows[j])
           /\ Manifest(t.rows[j]).kind = "spawn" <=> b[t.rows[j].node].kind = "spawn"
    BY <1>1, <1>2, RowKinds DEF Placed
  <2>10. b[t.rows[m].node].kind = "spawn"
    BY <2>8, <2>9
  <2>11. ASSUME NoneBehind(b) PROVE UndoneAbove(b, t, m)
    <3> SUFFICES ASSUME NEW j \in DOMAIN t.rows, j > m, Owed(b, t.rows[j])
                 PROVE  FALSE
      BY DEF UndoneAbove
    <3>1. j \notin ran
      BY <2>2, <2>7, <2>8
    <3>2. Eligible(t.rows[j])
      BY DEF Owed, Eligible
    <3>3. RowSpec(b, t.rows[j]).kind = "worker" /\ RowSpec(b, t.rows[j]).comp
      BY <1>5, <2>9, <3>1, <3>2 DEF Owed
    <3>4. t.rows[m].node # t.rows[j].node
      <4>1. m # j
        BY <2>2, <2>8
      <4>2. b[t.rows[m].node].kind # "loop"
        BY <2>10
      <4> QED BY <1>2, <2>8, <4>1, <4>2, OneRow
    <3>5. Before(t.rows[m], t.rows[j])
      BY <1>2, <2>2, <2>8 DEF Sorted
    <3>6. t.rows[m].node < t.rows[j].node
      BY <3>4, <3>5 DEF Before
    <3>7. PICK n \in DOMAIN b : n = t.rows[j].node
      BY <2>2
    <3>8. PICK k \in DOMAIN b : k = t.rows[m].node
      BY <2>2, <2>8
    <3>9. /\ b[n].kind = "worker" => ~ b[n].comp
          /\ b[n].kind = "loop" => \A p \in DOMAIN b[n].body : ~ b[n].body[p].comp
      BY <2>10, <2>11, <3>6, <3>7, <3>8 DEF NoneBehind
    <3>10. CASE b[n].kind = "loop"
      <4>1. t.rows[j].pos \in DOMAIN b[n].body
        BY <1>2, <3>7, <3>10 DEF Placed, Fits
      <4>2. RowSpec(b, t.rows[j]) = b[n].body[t.rows[j].pos]
        BY <3>7, <3>10 DEF RowSpec
      <4> QED BY <3>3, <3>9, <3>10, <4>1, <4>2
    <3>11. CASE b[n].kind # "loop"
      <4>1. RowSpec(b, t.rows[j]) = b[n]
        BY <3>7, <3>11 DEF RowSpec
      <4> QED BY <3>3, <3>9, <4>1
    <3> QED BY <3>10, <3>11
  <2>12. ResumeSpawn(t) = CompensateSpawn(t, m)
    BY <1>5, <1>7, <2>1 DEF ResumeSpawn
  <2>13. GoodCall(b, e, CompensateSpawn(t, m))
    BY <1>1, <1>2, <1>3, <2>8, <2>10, <2>11, CompensateSpawnGood
  <2> QED BY <1>1, <2>12, <2>13
<1> QED BY <1>6, <1>7

\* Steps run one after the other.
LEMMA ParkedFacts ==
    ASSUME blueprint \in Blueprints, NEW t \in Tx(blueprint), Sound(blueprint, t),
           Phase(blueprint, t), Parked(t) # {}
    PROVE  \E k \in DOMAIN t.rows : /\ Parked(t) = {k} /\ Min(Parked(t)) = k
                                    /\ Runs(t, k) /\ Manifest(t.rows[k]).kind = "join"
<1>1. PICK k \in Parked(t) : TRUE
  OBVIOUS
<1>2. k \in DOMAIN t.rows /\ Manifest(t.rows[k]).kind = "join" /\ t.rows[k].status = "IN_PROGRESS"
  BY <1>1 DEF Parked
<1>3. \A j \in DOMAIN t.rows : j \in Nat
  BY RowTypes
<1>4. PICK i \in DOMAIN t.rows : Runs(t, i)
  BY <1>2 DEF Phase, Fresh, Busy, Finished, Back, Done
<1>5. \A j \in DOMAIN t.rows : t.rows[j].status = "IN_PROGRESS" => j = i
  BY <1>3, <1>4 DEF Runs, Around, Done
<1>6. k = i /\ Parked(t) = {k}
  BY <1>2, <1>5 DEF Parked
<1>7. Min(Parked(t)) = k
  <2>1. \A x \in {k} : k <= x
    BY <1>2, <1>3
  <2> QED BY ONLY <1>6, <2>1 DEF Min
<1> QED BY <1>2, <1>4, <1>6, <1>7

\* A child that there is goes on, and does not start again.
LEMMA ChildWrites ==
    ASSUME NEW b \in Blueprints, NEW t \in Tx(b), Sound(b, t), Phase(b, t), NEW c \in Children,
           t.child[c] # "none", NEW x \in Terminal \cup {"COMPENSATING"}
    PROVE  LET u == [t EXCEPT !.child[c] = x]
           IN  /\ u \in Tx(b) /\ Sound(b, u) /\ Phase(b, u)
               /\ u.parent = t.parent /\ u.rows = t.rows
               /\ u.child = [t.child EXCEPT ![c] = x]
<1> DEFINE ch == [t.child EXCEPT ![c] = x]
<1>1. PICK u : u = [t EXCEPT !.child[c] = x]
  OBVIOUS
<1>2. x # "none" /\ x # "RUNNING" /\ x \in SagaStatus
  BY DEF Terminal, SagaStatus
<1>3. u = [t EXCEPT !.child = ch]
  BY <1>1 DEF Tx
<1>4. ch \in [Children -> SagaStatus \cup {"none"}]
  BY <1>2 DEF Tx
<1>5. \A d \in Children : ch[d] = IF d = c THEN x ELSE t.child[d]
  BY DEF Tx
<1>6. \A n : KidsOf([child |-> ch], n) = KidsOf(t, n)
  BY <1>2, <1>5 DEF KidsOf
<1> HIDE DEF ch
<1>7. /\ u \in Tx(b) /\ u.parent = t.parent /\ u.rows = t.rows /\ u.cursor = t.cursor
      /\ u.loops = t.loops /\ u.child = ch
  BY <1>3, <1>4 DEF Tx
<1>8. \A n : KidsOf(u, n) = KidsOf(t, n)
  BY <1>6, <1>7 DEF KidsOf
<1>9. \A d \in Children : /\ u.child[d] # "none" <=> t.child[d] # "none"
                          /\ u.child[d] = "RUNNING" => t.child[d] = "RUNNING"
  BY <1>2, <1>5, <1>7
<1>10. Layout(b, u) /\ DelayTail(b, u)
  <2>1. Layout(b, t) /\ DelayTail(b, t)
    BY DEF Sound
  <2> QED BY ONLY <1>7, <2>1 DEF Layout, Placed, Sorted, Covered, EndsWhole, Whole, Counted,
                                 Left, DelayTail
<1>11. Born(b, u)
  BY <1>7, <1>9 DEF Sound, Born
<1>12. \A n : \A d \in KidsOf(t, n) : d \in Children
  BY DEF KidsOf
<1>13. JoinsDone(b, u)
  <2>1. JoinsDone(b, t)
    BY DEF Sound
  <2> QED BY ONLY <1>7, <1>8, <1>9, <1>12, <2>1 DEF JoinsDone
<1>14. SpawnUndo(b, t) => SpawnUndo(b, u)
  BY ONLY <1>7, <1>8, <1>9, <1>12 DEF SpawnUndo
<1>15. Phase(b, u)
  <2>1. CASE Fresh(t)
    BY <2>1 DEF Fresh
  <2>2. CASE Busy(b, t)
    BY ONLY <1>7, <2>2 DEF Phase, Busy, Runs, Around, Quiet
  <2>3. CASE Finished(b, t)
    BY ONLY <1>7, <2>3 DEF Phase, Finished, Quiet
  <2>4. CASE Back(b, t)
    BY ONLY <1>7, <1>14, <2>4 DEF Phase, Back, GivenUp, Lifo, UndoneAbove
  <2> QED BY <2>1, <2>2, <2>3, <2>4 DEF Phase
<1>16. Sound(b, u)
  BY <1>7, <1>10, <1>11, <1>13 DEF Sound
<1> QED BY <1>1, <1>7, <1>15, <1>16 DEF ch

\* The parent is woken by a child that has ended.
LEMMA OnChildTerminalGood ==
    ASSUME blueprint \in Blueprints, NEW e, NEW t \in Tx(blueprint), NEW c,
           Sound(blueprint, t), EndingOk(t.child, e), Phase(blueprint, t)
    PROVE  \A u \in OnChildTerminal(t, c) : GoodTx(blueprint, e, u)
<1> DEFINE tried == IF Parked(t) = {} THEN {t} ELSE Returned(TryJoin(t, Min(Parked(t))))
           woken == {IF u.parent = "COMPENSATING" THEN ResumeSpawn(u) ELSE Over(u) : u \in tried}
<1>1. OnChildTerminal(t, c) = Returned(woken)
  BY DEF OnChildTerminal
<1>2. \A u \in tried : GoodTx(blueprint, e, u)
  <2>1. CASE Parked(t) = {}
    <3>1. \A j \in DOMAIN t.rows : ~ (/\ blueprint[t.rows[j].node].kind = "join"
                                      /\ t.rows[j].status = "IN_PROGRESS")
      BY <2>1, RowKinds DEF Parked, Sound, Layout, Placed
    <3>2. Waits(blueprint, t, e)
      BY <3>1 DEF Waits
    <3> QED BY <2>1, <3>2 DEF GoodTx
  <2>2. CASE Parked(t) # {}
    <3>1. PICK k \in DOMAIN t.rows : /\ Min(Parked(t)) = k
                                     /\ Runs(t, k) /\ Manifest(t.rows[k]).kind = "join"
      BY <2>2, ParkedFacts
    <3>2. \A d \in TryJoin(t, k) : GoodCall(blueprint, e, d)
      BY <3>1, TryJoinGood
    <3>3. tried = Returned(TryJoin(t, k))
      BY <2>2, <3>1
    <3> QED BY <3>2, <3>3, HandlerGood
  <2> QED BY <2>1, <2>2
<1> HIDE DEF tried
<1>3. ASSUME NEW u \in tried
      PROVE  GoodCall(blueprint, e, IF u.parent = "COMPENSATING" THEN ResumeSpawn(u) ELSE Over(u))
  <2>1. GoodTx(blueprint, e, u)
    BY <1>2
  <2>2. GoodCall(blueprint, e, Over(u))
    BY <2>1, GoodOver DEF GoodTx
  <2>3. u.parent = "COMPENSATING" => GoodCall(blueprint, e, ResumeSpawn(u))
    BY <2>1, ResumeSpawnGood
  <2> QED BY <2>2, <2>3
<1>4. \A d \in woken : GoodCall(blueprint, e, d)
  BY <1>3
<1> HIDE DEF woken
<1> QED BY <1>1, <1>4, HandlerGood

-----------------------------------------------------------------------------
(* The invariant *)

\* The rows a saga starts with.
LEMMA BeginGood ==
    ASSUME NEW b \in Blueprints, NEW t,
           t = [parent |-> "PENDING", rows |-> Segment(b, 1), cursor |-> CursorAfter(b, 1),
                loops |-> InitialLoops(b), child |-> [c \in Children |-> "none"]]
    PROVE  Sound(b, t) /\ Fresh(t)
<1>1. Len(b) \in Nat \ {0} /\ DOMAIN b = 1 .. Len(b) /\ 1 \in 1 .. Len(b)
  BY BlueprintFacts
<1>2. PICK end : end = SegmentEnd(b, 1)
  OBVIOUS
<1>3. PICK new : new = Segment(b, 1)
  OBVIOUS
<1>4. /\ end \in 1 .. Len(b) /\ CursorAfter(b, 1) = end + 1
      /\ end \notin LoopNodes(b) => end = Len(b)
  BY <1>1, <1>2, SegmentEndFacts
<1>5. /\ new \in Seq(Row) /\ new # << >>
      /\ \A k \in DOMAIN new : /\ Fits(b, new[k])
                               /\ new[k].node \in 1 .. end
                               /\ new[k].node \in LoopNodes(b) =>
                                     new[k].node = end /\ new[k].iter = 1
                               /\ new[k].status = "PENDING"
                               /\ new[k].error = "none" /\ new[k].undo = "none"
      /\ \A k, m \in DOMAIN new : k < m => Before(new[k], new[m])
      /\ \A m \in 1 .. end : \E k \in DOMAIN new : new[k].node = m
      /\ end \in LoopNodes(b) => \A p \in 1 .. Len(b[end].body) : Held(new, end, 1, p)
      /\ new[Len(new)].node = end
      /\ end \in LoopNodes(b) => new[Len(new)].pos = Len(b[end].body)
  BY <1>1, <1>2, <1>3, SegmentFits
<1>6. /\ t.parent = "PENDING" /\ t.rows = new /\ t.cursor = end + 1
      /\ t.loops = InitialLoops(b) /\ t.child = [c \in Children |-> "none"]
  BY <1>3, <1>4
<1>7. t.loops \in [LoopNodes(b) -> LoopState]
      /\ \A n \in LoopNodes(b) : t.loops[n].iter = 1
  BY <1>6 DEF InitialLoops, LoopNodes, LoopState
<1>8. \A c \in Children : t.child[c] = "none"
  BY <1>6
<1>9. t \in Tx(b)
  <2>1. "PENDING" \in SagaStatus /\ "none" \in SagaStatus \cup {"none"}
    BY DEF SagaStatus
  <2>2. t.child \in [Children -> SagaStatus \cup {"none"}]
    BY <1>6, <2>1
  <2>3. t.cursor \in Nat
    <3>1. end \in 1 .. Len(b) /\ t.cursor = end + 1 /\ Len(b) \in Nat
      BY <1>1, <1>4, <1>6
    <3> QED BY ONLY <3>1
  <2> QED BY <1>5, <1>6, <1>7, <2>1, <2>2, <2>3 DEF Tx
<1>10. end \in Nat /\ \A k \in DOMAIN new : /\ new[k].node \in Nat /\ new[k].node <= end
                                           /\ new[k].iter \in Nat
  <2>1. end \in 1 .. Len(b) /\ Len(b) \in Nat
    BY <1>1, <1>4
  <2>2. end \in Nat
    BY ONLY <2>1
  <2>3. new \in Seq(Row) /\ \A k \in DOMAIN new : new[k].node \in 1 .. end
    BY <1>5
  <2>4. \A k \in DOMAIN new : new[k] \in Row
    BY ONLY <2>3
  <2>5. \A k \in DOMAIN new : new[k].iter \in Nat
    BY ONLY <2>4 DEF Row
  <2> QED BY ONLY <2>2, <2>3, <2>5
<1>11. Placed(b, t) /\ Sorted(t)
  BY <1>5, <1>6 DEF Placed, Sorted
<1>12. Covered(b, t)
  <2>1. end + 1 \in 1 .. Len(b) + 1
    <3>1. end \in 1 .. Len(b) /\ Len(b) \in Nat
      BY <1>1, <1>4
    <3> QED BY ONLY <3>1
  <2>2. \A k \in DOMAIN new : new[k].node < end + 1
    BY ONLY <1>10
  <2>3. (end + 1) - 1 = end
    BY ONLY <1>10
  <2> QED BY ONLY <1>5, <1>6, <2>1, <2>2, <2>3 DEF Covered
<1>13. b[end].kind = "loop" <=> end \in LoopNodes(b)
  BY <1>1, <1>4 DEF LoopNodes
<1>14. EndsWhole(b, t)
  <2>1. (end + 1) - 1 = end
    BY ONLY <1>10
  <2> QED BY ONLY <1>4, <1>5, <1>6, <1>13, <2>1 DEF EndsWhole
<1>15. Whole(b, t)
  <2> SUFFICES ASSUME NEW i \in DOMAIN new, b[new[i].node].kind = "loop",
                      NEW it \in 1 .. new[i].iter, NEW p \in 1 .. Len(b[new[i].node].body)
               PROVE  Held(new, new[i].node, it, p)
    BY <1>6 DEF Whole
  <2>1. new[i].node \in LoopNodes(b)
    BY <1>5 DEF Fits, LoopNodes
  <2>2. new[i].node = end /\ new[i].iter = 1
    BY <1>5, <2>1
  <2>3. it = 1
    BY <2>2
  <2> QED BY <1>5, <2>1, <2>2, <2>3
<1>16. Counted(b, t)
  <2>1. \A n \in LoopNodes(b) : 1 \in 1 .. b[n].max
    BY BlueprintFacts
  <2>2. \A k \in DOMAIN new : new[k].node \in LoopNodes(b) => new[k].iter <= 1
    BY <1>5
  <2> QED BY <1>6, <1>7, <2>1, <2>2 DEF Counted
<1>17. ASSUME NEW i \in DOMAIN new, NEW j \in DOMAIN new, i < j, new[i].node \in LoopNodes(b)
       PROVE  new[j].node = new[i].node /\ new[j].iter = new[i].iter
  <2>1. new[i].node = end /\ new[i].iter = 1 /\ Before(new[i], new[j])
    BY <1>5, <1>17
  <2>2. new[j].node = end
    BY ONLY <1>10, <2>1, j \in DOMAIN new DEF Before
  <2> QED BY <1>5, <1>17, <2>1, <2>2
<1>18. Left(b, t) /\ DelayTail(b, t)
  BY ONLY <1>6, <1>17 DEF Left, DelayTail
<1>19. Born(b, t)
  BY <1>8 DEF Born
<1>20. JoinsDone(b, t)
  BY <1>5, <1>6 DEF JoinsDone
<1>21. Fresh(t)
  BY ONLY <1>5, <1>6, <1>8 DEF Fresh, Quiet
<1> QED BY <1>9, <1>11, <1>12, <1>14, <1>15, <1>16, <1>18, <1>19, <1>20, <1>21 DEF Sound, Layout

LEMMA InitFlow == Init => FlowInv
<1> SUFFICES ASSUME Init PROVE FlowInv
  OBVIOUS
<1>1. PICK b \in Blueprints : b = blueprint
  BY DEF Init
<1>2. Db = [parent |-> "PENDING", rows |-> Segment(b, 1), cursor |-> CursorAfter(b, 1),
            loops |-> InitialLoops(b), child |-> [c \in Children |-> "none"]]
  BY <1>1 DEF Init, Db
<1>3. Sound(b, Db) /\ Fresh(Db)
  BY <1>2, BeginGood
<1>4. Waits(b, Db, ending)
  BY <1>3 DEF Fresh, Waits
<1>5. EndingOk(child, ending)
  BY DEF Init, EndingOk
<1>6. reopened \in 0 .. MaxReopen /\ rolledBack \in 0 .. MaxRollback
  BY BoundAssumption DEF Init
<1> QED BY <1>1, <1>3, <1>4, <1>5, <1>6 DEF FlowInv, Phase

\* A handler of the parent commits.
LEMMA Committed ==
    ASSUME blueprint \in Blueprints, NEW t, GoodTx(blueprint, ending', t), Commit(t),
           blueprint' = blueprint,
           reopened' \in 0 .. MaxReopen, rolledBack' \in 0 .. MaxRollback
    PROVE  FlowInv'
<1>1. Db' = t
  BY DEF Commit, Db, GoodTx, Tx
<1>2. child' = t.child
  BY DEF Commit
<1> QED BY <1>1, <1>2 DEF FlowInv, GoodTx

\* What a handler starts from.
LEMMA DbGood ==
    ASSUME FlowInv
    PROVE  /\ blueprint \in Blueprints /\ Db \in Tx(blueprint) /\ Sound(blueprint, Db)
           /\ Phase(blueprint, Db) /\ EndingOk(Db.child, ending) /\ Waits(blueprint, Db, ending)
           /\ Db.parent = parent /\ Db.rows = rows /\ Db.child = child
           /\ reopened \in 0 .. MaxReopen /\ rolledBack \in 0 .. MaxRollback
BY DEF FlowInv, Sound, Db

\* The parent's handlers commit what their calls return.
LEMMA Handled ==
    ASSUME FlowInv, NEW calls, \A c \in calls : GoodCall(blueprint, ending, c),
           NEW t \in Returned(calls), Commit(t),
           UNCHANGED <<blueprint, ending, reopened, rolledBack>>
    PROVE  FlowInv'
<1>1. GoodTx(blueprint, ending, t) /\ blueprint \in Blueprints
  BY DbGood, HandlerGood
<1>2. GoodTx(blueprint, ending', t)
  BY <1>1
<1>3. /\ reopened' \in 0 .. MaxReopen /\ rolledBack' \in 0 .. MaxRollback
      /\ blueprint' = blueprint
  BY DbGood
<1> QED BY <1>1, <1>2, <1>3, Committed

\* The saga starts with its first row.
LEMMA StartGood ==
    ASSUME FlowInv, parent = "PENDING"
    PROVE  GoodCall(blueprint, ending, ThenSchedule([Db EXCEPT !.parent = "RUNNING"], 1))
<1>1. PICK b \in Blueprints : b = blueprint
  BY DbGood
<1>2. PICK d : d = Db
  OBVIOUS
<1>3. /\ d \in Tx(b) /\ Sound(b, d) /\ Phase(b, d) /\ EndingOk(d.child, ending)
      /\ d.parent = "PENDING"
  BY <1>1, <1>2, DbGood
<1>4. Fresh(d)
  BY <1>3 DEF Phase, Busy, Runs, Around, Finished, Back
<1>5. PICK u : u = [d EXCEPT !.parent = "RUNNING"]
  OBVIOUS
<1>6. /\ u \in Tx(b) /\ u.parent = "RUNNING" /\ u.rows = d.rows /\ u.cursor = d.cursor
      /\ u.loops = d.loops /\ u.child = d.child
  BY <1>3, <1>5 DEF Tx, SagaStatus
<1>7. Sound(b, u)
  <2>1. Shape(d, u)
    BY <1>6 DEF Shape
  <2> QED BY <1>3, <1>6, <2>1, SoundKept
<1>8. d.rows \in Seq(Row) /\ d.rows # << >>
  BY <1>3 DEF Tx, Sound, Layout, Covered
<1>9. Len(d.rows) \in Nat \ {0} /\ DOMAIN d.rows = 1 .. Len(d.rows)
  BY ONLY <1>8
<1>10. Reached(b, u, 1)
  <2>1. Around(u, 1)
    <3>1. \A j \in DOMAIN d.rows : ~ (j < 1)
      BY <1>9
    <3> QED BY ONLY <1>4, <1>6, <3>1 DEF Fresh, Around, Quiet
  <2>2. 1 \in 1 .. Len(d.rows) + 1 /\ 1 # Len(d.rows) + 1 /\ 1 \in DOMAIN d.rows
    BY ONLY <1>9
  <2> QED BY ONLY <1>4, <1>6, <2>1, <2>2 DEF Reached, Fresh
<1>11. GoodCall(b, ending, ThenSchedule(u, 1))
  <2>1. 1 \in Nat /\ EndingOk(u.child, ending)
    BY <1>3, <1>6
  <2> QED BY <1>6, <1>7, <1>10, <2>1, GoodSchedule
<1> QED BY <1>1, <1>2, <1>5, <1>11

LEMMA StartFlow == FlowInv /\ Start => FlowInv'
<1> SUFFICES ASSUME FlowInv, Start PROVE FlowInv'
  OBVIOUS
<1>1. PICK c : c = ThenSchedule([Db EXCEPT !.parent = "RUNNING"], 1)
  OBVIOUS
<1>2. GoodCall(blueprint, ending, c)
  BY <1>1, StartGood DEF Start
<1>3. PICK t \in Returned({c}) : Commit(t)
  BY <1>1 DEF Start
<1> QED BY <1>2, <1>3, Handled DEF Start

\* The row a worker has, or a join that waits.
LEMMA RunningRow ==
    ASSUME FlowInv, NEW i \in DOMAIN rows, rows[i].status = "IN_PROGRESS"
    PROVE  Runs(Db, i) /\ i \in DOMAIN Db.rows /\ Db.rows[i] = rows[i]
<1>1. /\ Db \in Tx(blueprint) /\ Phase(blueprint, Db) /\ Db.rows = rows
  BY DbGood
<1>2. PICK k \in DOMAIN Db.rows : Runs(Db, k)
  BY <1>1 DEF Phase, Fresh, Busy, Finished, Back, Done
<1>3. i \in Nat /\ k \in Nat
  BY <1>1, <1>2, RowTypes
<1>4. k = i
  BY <1>1, <1>2, <1>3 DEF Runs, Around, Done
<1> QED BY <1>1, <1>2, <1>4

LEMMA StepCompletedFlow ==
    ASSUME FlowInv, NEW i \in DOMAIN rows, StepCompleted(i)
    PROVE  FlowInv'
<1>1. rows[i].status = "IN_PROGRESS" /\ Manifest(rows[i]).kind = "worker"
  BY DEF StepCompleted
<1>2. Runs(Db, i) /\ i \in DOMAIN Db.rows /\ Db.rows[i] = rows[i]
  BY <1>1, RunningRow
<1>3. blueprint[Db.rows[i].node].kind # "join"
  BY <1>1, <1>2, DbGood, RowKinds DEF Sound, Layout, Placed
<1>4. \A c \in Finalize(Db, i) : GoodCall(blueprint, ending, c)
  BY <1>2, <1>3, DbGood, FinalizeGood
<1>5. PICK t \in Returned(Finalize(Db, i)) : Commit(t)
  BY DEF StepCompleted
<1> QED BY <1>4, <1>5, Handled DEF StepCompleted

LEMMA StepFailedFlow ==
    ASSUME FlowInv, NEW i \in DOMAIN rows, StepFailed(i)
    PROVE  FlowInv'
<1>1. PICK er \in StepErrors : \E t \in Returned({Fail(Db, i, er)}) : Commit(t)
  BY DEF StepFailed
<1>2. Runs(Db, i) /\ i \in DOMAIN Db.rows
  BY RunningRow DEF StepFailed
<1>3. Around(Db, i) /\ ~ Done(Db.rows[i])
  BY <1>2 DEF Runs, Done
<1>4. GoodCall(blueprint, ending, Fail(Db, i, er))
  BY <1>2, <1>3, DbGood, FailGood
<1>5. PICK t \in Returned({Fail(Db, i, er)}) : Commit(t)
  BY <1>1
<1> QED BY <1>4, <1>5, Handled DEF StepFailed

LEMMA RetryJoinFlow ==
    ASSUME FlowInv, NEW i \in DOMAIN rows, RetryJoin(i)
    PROVE  FlowInv'
<1>1. Runs(Db, i) /\ Db.rows[i] = rows[i] /\ Manifest(rows[i]).kind = "join"
  BY RunningRow DEF RetryJoin
<1>2. \A c \in TryJoin(Db, i) : GoodCall(blueprint, ending, c)
  BY <1>1, DbGood, TryJoinGood
<1>3. PICK t \in Returned(TryJoin(Db, i)) : Commit(t)
  BY DEF RetryJoin
<1> QED BY <1>2, <1>3, Handled DEF RetryJoin

\* The row whose undo command is out.
LEMMA UndoneRow ==
    ASSUME FlowInv, NEW i \in DOMAIN rows, rows[i].undo = "COMPENSATING"
    PROVE  /\ i \in DOMAIN Db.rows /\ Back(blueprint, Db)
           /\ Db.rows[i].undo # "COMPENSATED" /\ blueprint[Db.rows[i].node].kind # "spawn"
           /\ NoneBehind(blueprint) => UndoneAbove(blueprint, Db, i)
<1>1. /\ Db \in Tx(blueprint) /\ Phase(blueprint, Db) /\ Db.rows = rows
  BY DbGood
<1>2. Back(blueprint, Db)
  BY <1>1 DEF Phase, Fresh, Busy, Finished, Runs, Around, Quiet
<1> QED BY <1>1, <1>2 DEF Back, SpawnUndo, Lifo

\* The walk goes on below the row that was undone.
LEMMA UndoneGood ==
    ASSUME FlowInv, NEW i \in DOMAIN rows, rows[i].undo = "COMPENSATING"
    PROVE  GoodCall(blueprint, ending,
                    ThenUnwind([Db EXCEPT !.rows[i].undo = "COMPENSATED"], i - 1))
<1>1. PICK b \in Blueprints : b = blueprint
  BY DbGood
<1>2. PICK d : d = Db
  OBVIOUS
<1>3. /\ i \in DOMAIN d.rows /\ Back(b, d)
      /\ d.rows[i].undo # "COMPENSATED" /\ b[d.rows[i].node].kind # "spawn"
      /\ NoneBehind(b) => UndoneAbove(b, d, i)
  BY <1>1, <1>2, UndoneRow
<1>4. d \in Tx(b) /\ Sound(b, d) /\ EndingOk(d.child, ending) /\ "COMPENSATED" \in Undos
  BY <1>1, <1>2, DbGood DEF Undos
<1>5. PICK u : u = [d EXCEPT !.rows[i].undo = "COMPENSATED"]
  OBVIOUS
<1>6. /\ u \in Tx(b) /\ Sound(b, u) /\ Back(b, u) /\ u.child = d.child
      /\ i - 1 \in Nat /\ Unwinds(b, u, i - 1)
  BY ONLY <1>3, <1>4, <1>5, b \in Blueprints, UndoGood
<1>7. GoodCall(b, ending, ThenUnwind(u, i - 1))
  BY <1>4, <1>6, GoodUnwind
<1> QED BY <1>1, <1>2, <1>5, <1>7

LEMMA StepCompensatedFlow ==
    ASSUME FlowInv, NEW i \in DOMAIN rows, StepCompensated(i)
    PROVE  FlowInv'
<1>1. PICK c : c = ThenUnwind([Db EXCEPT !.rows[i].undo = "COMPENSATED"], i - 1)
  OBVIOUS
<1>2. GoodCall(blueprint, ending, c)
  BY <1>1, UndoneGood DEF StepCompensated
<1>3. PICK t \in Returned({c}) : Commit(t)
  BY <1>1 DEF StepCompensated
<1> QED BY <1>2, <1>3, Handled DEF StepCompensated

LEMMA CompensationFailedFlow ==
    ASSUME FlowInv, NEW i \in DOMAIN rows, CompensationFailed(i)
    PROVE  FlowInv'
<1>1. PICK b \in Blueprints : b = blueprint
  BY DbGood
<1>2. PICK d : d = Db
  OBVIOUS
<1>3. /\ i \in DOMAIN d.rows /\ Back(b, d)
      /\ d.rows[i].undo # "COMPENSATED" /\ b[d.rows[i].node].kind # "spawn"
      /\ NoneBehind(b) => UndoneAbove(b, d, i)
  BY <1>1, <1>2, UndoneRow DEF CompensationFailed
<1>4. d \in Tx(b) /\ Sound(b, d) /\ EndingOk(d.child, ending) /\ "FAILED" \in Undos
  BY <1>1, <1>2, DbGood DEF Undos
<1>5. PICK u : u = [d EXCEPT !.rows[i].undo = "FAILED"]
  OBVIOUS
<1>6. /\ u \in Tx(b) /\ Sound(b, u) /\ Back(b, u) /\ u.child = d.child
  BY ONLY <1>3, <1>4, <1>5, b \in Blueprints, UndoGood
<1>7. PICK t : t = Close(u, "FAILED")
  OBVIOUS
<1>8. GoodCall(b, ending, Over(t))
  BY <1>4, <1>6, <1>7, CloseGood
<1>9. GoodTx(b, ending, t)
  BY <1>8 DEF GoodCall, GoodTx, Over, Call
<1>10. Commit(t) /\ UNCHANGED <<blueprint, ending, reopened, rolledBack>>
  BY <1>2, <1>5, <1>7 DEF CompensationFailed
<1>11. GoodTx(blueprint, ending', t)
  BY <1>1, <1>9, <1>10
<1>12. /\ reopened' \in 0 .. MaxReopen /\ rolledBack' \in 0 .. MaxRollback
       /\ blueprint' = blueprint
  BY <1>10, DbGood
<1> QED BY <1>1, <1>10, <1>11, <1>12, Committed

\* A child goes on, and the parent is left alone.
LEMMA ChildMoves ==
    ASSUME FlowInv, NEW c \in Children, child[c] # "none",
           NEW x \in Terminal \cup {"COMPENSATING"}
    PROVE  LET u == [Db EXCEPT !.child[c] = x]
           IN  /\ u \in Tx(blueprint) /\ Sound(blueprint, u) /\ Phase(blueprint, u)
               /\ u.parent = parent /\ u.rows = rows /\ u.cursor = cursor /\ u.loops = loops
               /\ u.child = [child EXCEPT ![c] = x]
<1>1. PICK d : d = Db
  OBVIOUS
<1>2. /\ blueprint \in Blueprints /\ d \in Tx(blueprint) /\ Sound(blueprint, d)
      /\ Phase(blueprint, d) /\ d.child = child
      /\ d.parent = parent /\ d.rows = rows
  BY <1>1, DbGood
<1>3. LET u == [d EXCEPT !.child[c] = x]
      IN  /\ u \in Tx(blueprint) /\ Sound(blueprint, u) /\ Phase(blueprint, u)
          /\ u.parent = d.parent /\ u.rows = d.rows /\ u.child = [d.child EXCEPT ![c] = x]
  BY <1>2, ChildWrites
<1>4. LET u == [Db EXCEPT !.child[c] = x] IN u.cursor = cursor /\ u.loops = loops
  BY DEF Db
<1> QED BY <1>1, <1>2, <1>3, <1>4

\* A child that runs or ends is there.
LEMMA ChildThere ==
    ASSUME FlowInv, NEW c \in Children
    PROVE  /\ child \in [Children -> SagaStatus \cup {"none"}]
           /\ ending \in [Children -> Terminal \cup {"none"}]
           /\ ending[c] # "none" => /\ child[c] \in {"RUNNING", "COMPENSATING"}
                                    /\ ending[c] \in Terminal
BY DEF FlowInv, EndingOk, Sound, Tx, Db

LEMMA ChildUnwindsFlow ==
    ASSUME FlowInv, NEW c \in Children, ChildUnwinds(c)
    PROVE  FlowInv'
<1>1. PICK u : u = [Db EXCEPT !.child[c] = "COMPENSATING"]
  OBVIOUS
<1>2. child[c] # "none"
  BY DEF ChildUnwinds
<1>3. /\ u \in Tx(blueprint) /\ Sound(blueprint, u) /\ Phase(blueprint, u)
      /\ u.parent = parent /\ u.rows = rows /\ u.cursor = cursor /\ u.loops = loops
      /\ u.child = [child EXCEPT ![c] = "COMPENSATING"]
  BY <1>1, <1>2, ChildMoves
<1>4. Commit(u)
  BY <1>3 DEF ChildUnwinds, Commit
<1>5. child \in [Children -> SagaStatus \cup {"none"}] /\ EndingOk(child, ending)
      /\ Waits(blueprint, Db, ending) /\ Db.child = child /\ Db.rows = rows
  BY ChildThere, DbGood
<1>6. \A d \in Children : u.child[d] = IF d = c THEN "COMPENSATING" ELSE child[d]
  BY <1>3, <1>5
<1>7. EndingOk(u.child, ending)
  BY <1>5, <1>6 DEF EndingOk
<1>8. Waits(blueprint, u, ending)
  <2>1. \A n : KidsOf(u, n) = KidsOf(Db, n)
    BY <1>2, <1>5, <1>6 DEF KidsOf
  <2>2. \A n : \A d \in KidsOf(Db, n) : d \in Children
    BY DEF KidsOf
  <2>3. "COMPENSATING" \notin Terminal
    BY DEF Terminal
  <2>4. \A d \in Children : child[d] \notin Terminal => u.child[d] \notin Terminal
    BY <1>6, <2>3
  <2> QED BY ONLY <1>3, <1>5, <2>1, <2>2, <2>4 DEF Waits
<1>9. ending' = ending /\ blueprint' = blueprint
      /\ reopened' \in 0 .. MaxReopen /\ rolledBack' \in 0 .. MaxRollback
  BY DbGood DEF ChildUnwinds
<1>10. GoodTx(blueprint, ending', u)
  BY <1>3, <1>7, <1>8, <1>9 DEF GoodTx
<1>11. blueprint \in Blueprints
  BY DbGood
<1> QED BY <1>4, <1>9, <1>10, <1>11, Committed

LEMMA ChildReopenedFlow ==
    ASSUME FlowInv, NEW c \in Children, ChildReopened(c)
    PROVE  FlowInv'
<1>1. PICK u : u = [Db EXCEPT !.child[c] = "COMPENSATING"]
  OBVIOUS
<1>2. child[c] # "none"
  BY DEF ChildReopened
<1>3. /\ u \in Tx(blueprint) /\ Sound(blueprint, u) /\ Phase(blueprint, u)
      /\ u.parent = parent /\ u.rows = rows /\ u.cursor = cursor /\ u.loops = loops
      /\ u.child = [child EXCEPT ![c] = "COMPENSATING"]
  BY <1>1, <1>2, ChildMoves
<1>4. Commit(u)
  BY <1>3 DEF ChildReopened, Commit
<1>5. child \in [Children -> SagaStatus \cup {"none"}] /\ EndingOk(child, ending)
      /\ Waits(blueprint, Db, ending) /\ Db.child = child /\ Db.rows = rows
  BY ChildThere, DbGood
<1>6. \A d \in Children : u.child[d] = IF d = c THEN "COMPENSATING" ELSE child[d]
  BY <1>3, <1>5
<1>7. EndingOk(u.child, ending)
  BY <1>5, <1>6 DEF EndingOk
<1>8. Waits(blueprint, u, ending)
  <2>1. \A n : KidsOf(u, n) = KidsOf(Db, n)
    BY <1>2, <1>5, <1>6 DEF KidsOf
  <2>2. \A n : \A d \in KidsOf(Db, n) : d \in Children
    BY DEF KidsOf
  <2>3. "COMPENSATING" \notin Terminal
    BY DEF Terminal
  <2>4. \A d \in Children : child[d] \notin Terminal => u.child[d] \notin Terminal
    BY <1>6, <2>3
  <2> QED BY ONLY <1>3, <1>5, <2>1, <2>2, <2>4 DEF Waits
<1>9. ending' = ending /\ blueprint' = blueprint
      /\ reopened' \in 0 .. MaxReopen /\ rolledBack' \in 0 .. MaxRollback
  <2>1. reopened + 1 \in 0 .. MaxReopen
    BY DbGood, BoundAssumption DEF ChildReopened
  <2> QED BY <2>1, DbGood DEF ChildReopened
<1>10. GoodTx(blueprint, ending', u)
  BY <1>3, <1>7, <1>8, <1>9 DEF GoodTx
<1>11. blueprint \in Blueprints
  BY DbGood
<1> QED BY <1>4, <1>9, <1>10, <1>11, Committed

\* A child's open transaction is nothing that the parent sees.
LEMMA EndingMoves ==
    ASSUME FlowInv, NEW c \in Children, NEW x \in Terminal \cup {"none"},
           child[c] \in {"RUNNING", "COMPENSATING"}, ending' = [ending EXCEPT ![c] = x],
           UNCHANGED <<blueprint, parent, rows, cursor, loops, child>>,
           reopened' \in 0 .. MaxReopen, rolledBack' \in 0 .. MaxRollback
    PROVE  FlowInv'
<1>1. Commit(Db)
  BY DEF Commit, Db
<1>2. /\ blueprint \in Blueprints /\ Db \in Tx(blueprint) /\ Sound(blueprint, Db)
      /\ Phase(blueprint, Db) /\ EndingOk(child, ending) /\ Waits(blueprint, Db, ending)
      /\ Db.child = child
  BY DbGood
<1>3. \A d \in Children : ending'[d] = IF d = c THEN x ELSE ending[d]
  BY ChildThere
<1>4. EndingOk(Db.child, ending')
  BY <1>2, <1>3 DEF EndingOk
<1>5. Waits(blueprint, Db, ending')
  <2>1. \A n : \A d \in KidsOf(Db, n) : d \in Children
    BY DEF KidsOf
  <2>2. \A d \in Children : ending[d] # "none" =>
           Db.child[d] \notin Terminal \/ ending'[d] # "none"
    BY <1>2, <1>3 DEF Terminal
  <2> QED BY ONLY <1>2, <2>1, <2>2 DEF Waits
<1>6. GoodTx(blueprint, ending', Db)
  BY <1>2, <1>4, <1>5 DEF GoodTx
<1> QED BY <1>1, <1>2, <1>6, Committed

LEMMA ChildEndsFlow ==
    ASSUME FlowInv, NEW c \in Children, ChildEnds(c)
    PROVE  FlowInv'
<1>1. PICK o \in Outcomes(child[c]) : ending' = [ending EXCEPT ![c] = o]
  BY DEF ChildEnds
<1>2. o \in Terminal \cup {"none"} /\ child[c] \in {"RUNNING", "COMPENSATING"}
  BY <1>1 DEF Outcomes, Terminal
<1>3. UNCHANGED <<blueprint, parent, rows, cursor, loops, child>>
      /\ reopened' \in 0 .. MaxReopen /\ rolledBack' \in 0 .. MaxRollback
  BY DbGood DEF ChildEnds
<1> QED BY <1>1, <1>2, <1>3, EndingMoves

LEMMA ChildRollsBackFlow ==
    ASSUME FlowInv, NEW c \in Children, ChildRollsBack(c)
    PROVE  FlowInv'
<1>1. ending' = [ending EXCEPT ![c] = "none"] /\ child[c] \in {"RUNNING", "COMPENSATING"}
  BY ChildThere DEF ChildRollsBack
<1>2. UNCHANGED <<blueprint, parent, rows, cursor, loops, child>>
      /\ reopened' \in 0 .. MaxReopen /\ rolledBack' \in 0 .. MaxRollback
  <2>1. rolledBack + 1 \in 0 .. MaxRollback
    BY DbGood, BoundAssumption DEF ChildRollsBack
  <2> QED BY <2>1, DbGood DEF ChildRollsBack
<1> QED BY <1>1, <1>2, EndingMoves

\* What the parent's row lock protects when a child that ends gets it.
LEMMA ChildEnded ==
    ASSUME FlowInv, NEW c \in Children, ending[c] # "none"
    PROVE  LET u == [Db EXCEPT !.child[c] = ending[c]]
               e == [ending EXCEPT ![c] = "none"]
           IN  /\ u \in Tx(blueprint) /\ Sound(blueprint, u) /\ Phase(blueprint, u)
               /\ EndingOk(u.child, e) /\ u.parent = parent /\ u.rows = rows
               /\ u.child = [child EXCEPT ![c] = ending[c]]
<1>1. PICK u : u = [Db EXCEPT !.child[c] = ending[c]]
  OBVIOUS
<1>2. child[c] # "none" /\ ending[c] \in Terminal \cup {"COMPENSATING"}
  BY ChildThere
<1>3. /\ u \in Tx(blueprint) /\ Sound(blueprint, u) /\ Phase(blueprint, u)
      /\ u.parent = parent /\ u.rows = rows /\ u.child = [child EXCEPT ![c] = ending[c]]
  BY <1>1, <1>2, ChildMoves
<1>4. PICK e : e = [ending EXCEPT ![c] = "none"]
  OBVIOUS
<1>5. EndingOk(u.child, e)
  <2>1. EndingOk(child, ending)
    BY DbGood
  <2>2. /\ child \in [Children -> SagaStatus \cup {"none"}]
        /\ ending \in [Children -> Terminal \cup {"none"}]
    BY ChildThere
  <2> QED BY <1>3, <1>4, <2>1, <2>2 DEF EndingOk
<1> QED BY <1>1, <1>3, <1>4, <1>5

LEMMA ChildCommitsFlow ==
    ASSUME FlowInv, NEW c \in Children, ChildCommits(c)
    PROVE  FlowInv'
<1>1. PICK u : u = [Db EXCEPT !.child[c] = ending[c]]
  OBVIOUS
<1>2. PICK e : e = [ending EXCEPT ![c] = "none"]
  OBVIOUS
<1>3. /\ u \in Tx(blueprint) /\ Sound(blueprint, u) /\ Phase(blueprint, u)
      /\ EndingOk(u.child, e)
  BY <1>1, <1>2, ChildEnded DEF ChildCommits
<1>4. PICK t \in OnChildTerminal(u, c) : Commit(t)
  BY <1>1 DEF ChildCommits
<1>5. blueprint \in Blueprints
  BY DbGood
<1>6. GoodTx(blueprint, e, t)
  BY <1>3, <1>4, <1>5, OnChildTerminalGood
<1>7. GoodTx(blueprint, ending', t)
  BY <1>2, <1>6 DEF ChildCommits
<1>8. blueprint' = blueprint /\ reopened' \in 0 .. MaxReopen /\ rolledBack' \in 0 .. MaxRollback
  BY DbGood DEF ChildCommits
<1> QED BY <1>4, <1>5, <1>7, <1>8, Committed

LEMMA NextFlow == FlowInv /\ [Next]_vars => FlowInv'
<1> SUFFICES ASSUME FlowInv, [Next]_vars PROVE FlowInv'
  OBVIOUS
<1>1. CASE Start
  BY <1>1, StartFlow
<1>2. ASSUME NEW i \in DOMAIN rows,
             \/ StepCompleted(i) \/ StepFailed(i) \/ StepCompensated(i)
             \/ CompensationFailed(i) \/ RetryJoin(i)
      PROVE  FlowInv'
  BY <1>2, StepCompletedFlow, StepFailedFlow, StepCompensatedFlow, CompensationFailedFlow,
     RetryJoinFlow
<1>3. ASSUME NEW c \in Children,
             \/ ChildUnwinds(c) \/ ChildEnds(c) \/ ChildCommits(c)
             \/ ChildRollsBack(c) \/ ChildReopened(c)
      PROVE  FlowInv'
  BY <1>3, ChildUnwindsFlow, ChildEndsFlow, ChildCommitsFlow, ChildRollsBackFlow,
     ChildReopenedFlow
<1>4. CASE UNCHANGED vars
  BY <1>4 DEF vars, FlowInv, Db
<1> QED BY <1>1, <1>2, <1>3, <1>4 DEF Next

LEMMA AlwaysFlow == Spec => []FlowInv
BY InitFlow, NextFlow, PTL DEF Spec

-----------------------------------------------------------------------------
(* Theorems *)

\* The tables have the types of the schema, in every state: the engine mints
\* only rows of the frozen blueprint, and moves the cursor within it.
THEOREM FlowTypes == Spec => []TypeOK
<1>1. FlowInv => TypeOK
  <2> SUFFICES ASSUME FlowInv PROVE TypeOK
    OBVIOUS
  <2>1. /\ blueprint \in Blueprints /\ Db \in Tx(blueprint) /\ EndingOk(child, ending)
        /\ reopened \in 0 .. MaxReopen /\ rolledBack \in 0 .. MaxRollback
    BY DbGood DEF FlowInv
  <2>2. /\ parent \in SagaStatus /\ rows \in Seq(Row) /\ loops \in [LoopNodes(blueprint) -> LoopState]
        /\ child \in [Children -> SagaStatus \cup {"none"}]
    BY <2>1 DEF Tx, Db
  <2>3. cursor \in 1 .. Len(blueprint) + 1
    BY DEF FlowInv, Sound, Layout, Covered, Db
  <2>4. ending \in [Children -> Terminal \cup {"none"}]
    BY <2>1 DEF EndingOk
  <2> QED BY <2>1, <2>2, <2>3, <2>4 DEF TypeOK, LoopNodes
<1> QED BY <1>1, AlwaysFlow, PTL

\* A loop unfolds pass by pass, and nothing behind it is minted before it has
\* exited (common/loops.py and engine/loop_control.py); a step of the blueprint
\* has one row in a pass, so that no two commands of a saga share the
\* forward_idempotency_key that _step_create_fields derives from them.
THEOREM LoopsUnfoldInOrder == Spec => []LoopDiscipline
<1>1. FlowInv => LoopDiscipline
  <2> SUFFICES ASSUME FlowInv PROVE LoopDiscipline
    OBVIOUS
  <2>1. PICK b \in Blueprints : b = blueprint
    BY DbGood
  <2>2. PICK d : d = Db
    OBVIOUS
  <2>3. /\ d \in Tx(b) /\ Sound(b, d) /\ d.rows = rows /\ d.parent = parent /\ d.loops = loops
    BY <2>1, <2>2, DbGood DEF Db
  <2>4. Placed(b, d) /\ Sorted(d) /\ Counted(b, d) /\ Left(b, d) /\ DelayTail(b, d)
    BY <2>3 DEF Sound, Layout
  <2>5. /\ \A j \in DOMAIN rows : /\ rows[j].node \in Nat /\ rows[j].node \in DOMAIN b
                                  /\ rows[j].iter \in Nat /\ rows[j].pos \in Nat
        /\ Len(rows) \in Nat /\ DOMAIN rows = 1 .. Len(rows)
    BY <2>3, <2>4, Numbers
  <2>6. ASSUME NEW i \in DOMAIN rows, NEW j \in DOMAIN rows,
               rows[i].node = rows[j].node, rows[i].pos = rows[j].pos, rows[i].iter = rows[j].iter
        PROVE  i = j
    <3>1. ~ Before(rows[i], rows[j]) /\ ~ Before(rows[j], rows[i])
      BY <2>5, <2>6 DEF Before
    <3>2. ~ (i < j) /\ ~ (j < i)
      BY <2>3, <2>4, <3>1 DEF Sorted
    <3> QED BY ONLY <2>5, <3>2, i \in DOMAIN rows, j \in DOMAIN rows
  <2>7. ASSUME parent = "RUNNING", NEW i \in DOMAIN rows, b[rows[i].node].kind = "loop"
        PROVE  /\ rows[i].iter <= loops[rows[i].node].iter
               /\ loops[rows[i].node].iter <= b[rows[i].node].max
               /\ \A j \in i + 1 .. Len(rows) :
                     \/ rows[j].node = rows[i].node /\ rows[j].iter = rows[i].iter
                     \/ /\ Done(rows[i])
                        /\ \/ rows[j].node = rows[i].node
                           \/ loops[rows[i].node].status = "exited"
    <3>1. rows[i].node \in LoopNodes(b)
      BY <2>5, <2>7 DEF LoopNodes
    <3>2. rows[i].iter <= loops[rows[i].node].iter
      BY <2>3, <2>4, <3>1 DEF Counted
    <3>3. loops[rows[i].node].iter <= b[rows[i].node].max
      <4>1. loops[rows[i].node].iter \in 1 .. b[rows[i].node].max
        BY <2>3, <2>4, <3>1 DEF Counted
      <4>2. b[rows[i].node].max \in Nat
        BY <3>1, BlueprintFacts
      <4> QED BY ONLY <4>1, <4>2
    <3>4. ASSUME NEW j \in i + 1 .. Len(rows)
          PROVE  \/ rows[j].node = rows[i].node /\ rows[j].iter = rows[i].iter
                 \/ /\ Done(rows[i])
                    /\ \/ rows[j].node = rows[i].node
                       \/ loops[rows[i].node].status = "exited"
      <4>1. j \in DOMAIN rows /\ i < j
        BY ONLY <2>5, i \in DOMAIN rows, j \in i + 1 .. Len(rows)
      <4>2. \/ rows[j].node = rows[i].node /\ rows[j].iter = rows[i].iter
            \/ Done(rows[i])
        BY <2>3, <2>4, <2>7, <3>1, <4>1 DEF DelayTail
      <4>3. rows[j].node = rows[i].node \/ loops[rows[i].node].status = "exited"
        BY <2>3, <2>4, <3>1, <4>1 DEF Left
      <4> QED BY ONLY <4>2, <4>3
    <3> QED BY <3>2, <3>3, <3>4
  <2> QED BY <2>1, <2>6, <2>7 DEF LoopDiscipline
<1> QED BY <1>1, AlwaysFlow, PTL

\* An interval from 1 has as many members as its end says.
LEMMA UpTo ==
    ASSUME NEW m \in Nat
    PROVE  IsFiniteSet(1 .. m) /\ Cardinality(1 .. m) = m
<1>1. 1 \in Int /\ m \in Int
  OBVIOUS
<1>2. /\ IsFiniteSet(1 .. m)
      /\ Cardinality(1 .. m) = IF 1 > m THEN 0 ELSE m - 1 + 1
  BY ONLY <1>1, FS_Interval
<1> QED BY <1>2

\* The rows of a loop are as many as its passes have steps.
LEMMA PassesCounted ==
    ASSUME NEW b \in Blueprints, NEW t \in Tx(b), Layout(b, t), NEW i \in DOMAIN t.rows,
           NEW n \in LoopNodes(b), t.rows[i].node = n, t.rows[i].iter = b[n].max
    PROVE  Cardinality({j \in DOMAIN t.rows : t.rows[j].node = n}) = b[n].max * Len(b[n].body)
<1> DEFINE passes == {j \in DOMAIN t.rows : t.rows[j].node = n}
           grid == (1 .. b[n].max) \X (1 .. Len(b[n].body))
           f == [j \in passes |-> <<t.rows[j].iter, t.rows[j].pos>>]
<1>1. Placed(b, t) /\ Sorted(t) /\ Whole(b, t) /\ Counted(b, t)
  BY DEF Layout
<1>2. /\ \A j \in DOMAIN t.rows : /\ t.rows[j].node \in Nat
                                  /\ t.rows[j].iter \in Nat /\ t.rows[j].pos \in Nat
      /\ Len(t.rows) \in Nat /\ DOMAIN t.rows = 1 .. Len(t.rows)
  BY <1>1, Numbers
<1>3. /\ b[n].max \in Nat \ {0} /\ Len(b[n].body) \in Nat /\ b[n].kind = "loop"
  BY BlueprintFacts DEF LoopNodes
<1>4. ASSUME NEW j \in passes PROVE f[j] \in grid
  <2>1. t.rows[j].iter >= 1 /\ t.rows[j].pos \in 1 .. Len(b[n].body)
    BY <1>1, <1>3 DEF Placed, Fits
  <2>2. t.rows[j].iter <= t.loops[n].iter /\ t.loops[n].iter \in 1 .. b[n].max
    BY <1>1 DEF Counted
  <2>3. t.rows[j].iter \in 1 .. b[n].max
    BY <1>2, <1>3, <2>1, <2>2
  <2> QED BY <2>1, <2>3
<1>5. ASSUME NEW j \in passes, NEW k \in passes, f[j] = f[k] PROVE j = k
  <2>1. t.rows[j].node = t.rows[k].node /\ t.rows[j].iter = t.rows[k].iter
        /\ t.rows[j].pos = t.rows[k].pos /\ j \in DOMAIN t.rows /\ k \in DOMAIN t.rows
    BY <1>5
  <2>2. ~ Before(t.rows[j], t.rows[k]) /\ ~ Before(t.rows[k], t.rows[j])
    BY ONLY <1>2, <2>1 DEF Before
  <2>3. ~ (j < k) /\ ~ (k < j)
    BY <1>1, <2>1, <2>2 DEF Sorted
  <2> QED BY ONLY <1>2, <2>1, <2>3
<1>6. ASSUME NEW g \in grid PROVE \E j \in passes : f[j] = g
  <2>1. PICK it \in 1 .. b[n].max, p \in 1 .. Len(b[n].body) : g = <<it, p>>
    OBVIOUS
  <2>2. Held(t.rows, n, it, p)
    BY <1>1, <1>3 DEF Whole
  <2>3. PICK k \in DOMAIN t.rows : t.rows[k].node = n /\ t.rows[k].iter = it /\ t.rows[k].pos = p
    BY <2>2 DEF Held
  <2> QED BY <2>1, <2>3
<1>7. IsFiniteSet(grid) /\ Cardinality(grid) = b[n].max * Len(b[n].body)
  <2>1. PICK m \in Nat : m = b[n].max /\ m >= 1
    BY <1>3
  <2>2. PICK k \in Nat : k = Len(b[n].body)
    BY <1>3
  <2>3. IsFiniteSet(1 .. m) /\ Cardinality(1 .. m) = m
    BY ONLY m \in Nat, UpTo
  <2>4. IsFiniteSet(1 .. k) /\ Cardinality(1 .. k) = k
    BY ONLY k \in Nat, UpTo
  <2>5. PICK A : A = 1 .. m
    OBVIOUS
  <2>6. PICK B : B = 1 .. k
    OBVIOUS
  <2>7. IsFiniteSet(A) /\ Cardinality(A) = m /\ IsFiniteSet(B) /\ Cardinality(B) = k
    BY ONLY <2>3, <2>4, <2>5, <2>6
  <2>8. IsFiniteSet(A \X B) /\ Cardinality(A \X B) = Cardinality(A) * Cardinality(B)
    BY ONLY <2>7, FS_Product
  <2>9. grid = A \X B
    BY <2>1, <2>2, <2>5, <2>6
  <2>10. Cardinality(grid) = m * k
    <3> HIDE DEF grid
    <3> QED BY ONLY <2>7, <2>8, <2>9
  <2>11. IsFiniteSet(grid)
    <3> HIDE DEF grid
    <3> QED BY ONLY <2>8, <2>9
  <2> QED BY ONLY <2>1, <2>2, <2>10, <2>11
<1>8. IsFiniteSet(passes)
  <2>1. IsFiniteSet(1 .. Len(t.rows))
    BY <1>2, FS_Interval
  <2>2. passes \subseteq 1 .. Len(t.rows)
    BY <1>2
  <2> HIDE DEF passes
  <2> QED BY <2>1, <2>2, FS_Subset
<1>9. f \in Bijection(passes, grid)
  <2>1. f \in [passes -> grid]
    BY <1>4
  <2> HIDE DEF f, passes, grid
  <2> QED BY <1>5, <1>6, <2>1 DEF Bijection, Injection, Surjection, IsInjective
<1> HIDE DEF f, passes, grid
<1>10. Cardinality(grid) = Cardinality(passes)
  BY <1>8, <1>9, FS_Bijection DEF ExistsBijection
<1> QED BY <1>7, <1>10 DEF passes

\* A loop that is given up with LOOP_EXHAUSTED has gone through its body
\* max_iterations times, no more and no less, and every step of every pass is
\* done (handle_possible_loop_boundary).
THEOREM GivenUpAfterAllPasses == Spec => []ExhaustedAfterAllPasses
<1>1. FlowInv => ExhaustedAfterAllPasses
  <2> SUFFICES ASSUME FlowInv, NEW i \in DOMAIN rows, rows[i].error = "LOOP_EXHAUSTED"
               PROVE  LET n == rows[i].node
                          passes == {j \in DOMAIN rows : rows[j].node = n}
                      IN  /\ Cardinality(passes) = blueprint[n].max * Len(blueprint[n].body)
                          /\ \A j \in passes : Done(rows[j]) \/ rows[j].error = "clean"
    BY DEF ExhaustedAfterAllPasses
  <2>1. PICK b \in Blueprints : b = blueprint
    BY DbGood
  <2>2. PICK d : d = Db
    OBVIOUS
  <2>3. /\ d \in Tx(b) /\ Sound(b, d) /\ Layout(b, d) /\ Phase(b, d) /\ d.rows = rows
    BY <2>1, <2>2, DbGood DEF Sound
  <2>4. GivenUp(b, d)
    BY <2>3 DEF Phase, Fresh, Busy, Finished, Runs, Around, Quiet, Back
  <2>5. PICK n : n = rows[i].node
    OBVIOUS
  <2>6. /\ n \in LoopNodes(b) /\ rows[i].iter = b[n].max
        /\ \A j \in DOMAIN rows : rows[j].node = n => Done(rows[j]) \/ rows[j].error = "clean"
    BY <2>3, <2>4, <2>5 DEF GivenUp
  <2>7. Cardinality({j \in DOMAIN rows : rows[j].node = n}) = b[n].max * Len(b[n].body)
    BY <2>3, <2>5, <2>6, PassesCounted
  <2> QED BY <2>1, <2>5, <2>6, <2>7
<1> QED BY <1>1, AlwaysFlow, PTL

\* handle_saga_completion is reached only when the blueprint is used up: the
\* rows of a saga that COMPLETED are all done, and there is one for every step,
\* behind the loops too.
THEOREM CompletionIsWhole == Spec => []CompletedCoversBlueprint
<1>1. FlowInv => CompletedCoversBlueprint
  <2> SUFFICES ASSUME FlowInv, parent = "COMPLETED"
               PROVE  /\ \A i \in DOMAIN rows : Done(rows[i])
                      /\ {rows[i].node : i \in DOMAIN rows} = DOMAIN blueprint
    BY DEF CompletedCoversBlueprint
  <2>1. PICK b \in Blueprints : b = blueprint
    BY DbGood
  <2>2. PICK d : d = Db
    OBVIOUS
  <2>3. /\ Placed(b, d) /\ Covered(b, d) /\ Phase(b, d) /\ d.rows = rows /\ d.parent = parent
    BY <2>1, <2>2, DbGood DEF Sound, Layout
  <2>4. Finished(b, d)
    BY <2>3 DEF Phase, Fresh, Busy, Runs, Around, Back
  <2>5. \A i \in DOMAIN rows : Done(rows[i]) /\ rows[i].node \in DOMAIN b
    BY <2>3, <2>4 DEF Finished, Placed, Fits
  <2>6. \A n \in DOMAIN b : \E i \in DOMAIN rows : rows[i].node = n
    <3>1. DOMAIN b = 1 .. Len(b) /\ Len(b) \in Nat
      BY BlueprintFacts
    <3>2. d.cursor - 1 = Len(b)
      BY <2>4, <3>1 DEF Finished
    <3> QED BY <2>3, <3>1, <3>2 DEF Covered
  <2> QED BY <2>1, <2>5, <2>6
<1> QED BY <1>1, AlwaysFlow, PTL

\* on_child_saga_terminal and park_or_complete_join meet under the lock of the
\* parent's row: a join that is parked has a child to wait for, and one that
\* completed has left none in its forward run.
THEOREM JoinsAreWoken == Spec => []JoinFollowsChildren
<1>1. FlowInv => JoinFollowsChildren
  <2> SUFFICES ASSUME FlowInv, NEW i \in DOMAIN rows, Manifest(rows[i]).kind = "join"
               PROVE  LET kids == Kids(Db, Manifest(rows[i]).of)
                      IN  /\ rows[i].status = "IN_PROGRESS" /\ kids # {}
                             => \E c \in kids : child[c] \notin Terminal \/ ending[c] # "none"
                          /\ rows[i].status = "COMPLETED"
                             => \A c \in kids : child[c] # "RUNNING"
    BY DEF JoinFollowsChildren
  <2>1. /\ blueprint \in Blueprints /\ Sound(blueprint, Db) /\ Waits(blueprint, Db, ending)
        /\ Db.rows = rows /\ Db.child = child
    BY DbGood
  <2>2. /\ Manifest(rows[i]) = RowSpec(blueprint, rows[i])
        /\ blueprint[rows[i].node].kind = "join"
    BY <2>1, RowKinds DEF Sound, Layout, Placed
  <2>3. PICK of : of = blueprint[rows[i].node].of
    OBVIOUS
  <2>4. Manifest(rows[i]).of = of /\ Kids(Db, of) = KidsOf(Db, of)
    BY <2>2, <2>3, TerminalKids DEF RowSpec
  <2>5. rows[i].status = "IN_PROGRESS" /\ KidsOf(Db, of) # {}
        => \E c \in KidsOf(Db, of) : child[c] \notin Terminal \/ ending[c] # "none"
    BY <2>1, <2>2, <2>3 DEF Waits
  <2>6. rows[i].status = "COMPLETED" => \A c \in KidsOf(Db, of) : child[c] # "RUNNING"
    BY <2>1, <2>2, <2>3 DEF Sound, JoinsDone
  <2> QED BY <2>4, <2>5, <2>6
<1> QED BY <1>1, AlwaysFlow, PTL

\* _advance_lifo_compensation undoes the rows from the last to the first,
\* through the passes of loops and around spawn steps, where nothing undoable
\* follows a spawn step.  Where something does, a child that ends may resume the
\* walk below an undo that is still out: the run overtaken_undo shows it.
THEOREM UndoneInOrder ==
    ASSUME \A b \in Blueprints : NoneBehind(b)
    PROVE  Spec => []UndoOrder
<1>1. FlowInv => UndoOrder
  <2> SUFFICES ASSUME FlowInv, NEW i \in DOMAIN rows, rows[i].undo # "none",
                      NEW j \in i + 1 .. Len(rows),
                      HasCompensation(rows[j]), rows[j].status = "COMPLETED"
               PROVE  rows[j].undo = "COMPENSATED"
    BY DEF UndoOrder
  <2>1. /\ blueprint \in Blueprints /\ Db \in Tx(blueprint) /\ Placed(blueprint, Db)
        /\ Phase(blueprint, Db) /\ Db.rows = rows
    BY DbGood DEF Sound, Layout
  <2>2. Lifo(blueprint, Db)
    BY <2>1 DEF Phase, Fresh, Busy, Finished, Runs, Around, Quiet, Back
  <2>3. j \in DOMAIN rows /\ j > i
    BY <2>1, RowTypes
  <2>4. Owed(blueprint, rows[j])
    <3>1. Manifest(rows[j]) = RowSpec(blueprint, rows[j])
      BY <2>1, <2>3, RowKinds DEF Placed
    <3> QED BY <3>1 DEF Owed, HasCompensation
  <2> QED BY <2>1, <2>2, <2>3, <2>4 DEF Lifo, UndoneAbove
<1> QED BY <1>1, AlwaysFlow, PTL

\* _finalize_saga_compensated tells the truth, under the same condition: every
\* step with an undo that may have had effects was undone, in every pass of its
\* loop, and no child of the saga is left in its forward run.
THEOREM CompensatedMeansUndone ==
    ASSUME \A b \in Blueprints : NoneBehind(b)
    PROVE  Spec => []RestoredMeansUndone
<1>1. FlowInv => RestoredMeansUndone
  <2> SUFFICES ASSUME FlowInv, parent = "COMPENSATED", NEW i \in DOMAIN rows
               PROVE  /\ /\ HasCompensation(rows[i])
                         /\ rows[i].status \in {"COMPLETED", "TIMED_OUT", "IN_PROGRESS"}
                         => rows[i].undo = "COMPENSATED"
                      /\ Manifest(rows[i]).kind = "spawn"
                         => \A c \in Kids(Db, rows[i].node) : child[c] # "RUNNING"
    BY DEF RestoredMeansUndone
  <2>1. PICK b \in Blueprints : b = blueprint
    BY DbGood
  <2>2. PICK d : d = Db
    OBVIOUS
  <2>3. /\ d \in Tx(b) /\ Sound(b, d) /\ Layout(b, d) /\ Placed(b, d) /\ Born(b, d) /\ Phase(b, d)
        /\ d.rows = rows /\ d.parent = parent /\ d.child = child
    BY <2>1, <2>2, DbGood DEF Sound, Layout
  <2>4. Back(b, d)
    BY <2>3 DEF Phase, Fresh, Busy, Finished, Runs, Around
  <2>5. /\ rows[i].status # "IN_PROGRESS" /\ SpawnUndo(b, d) /\ UndoneAbove(b, d, 0)
    BY <2>3, <2>4 DEF Back, Lifo
  <2>6. i > 0
    BY <2>3, RowTypes
  <2>7. Owed(b, rows[i]) => rows[i].undo = "COMPENSATED"
    BY <2>3, <2>5, <2>6 DEF UndoneAbove
  <2>8. /\ Manifest(rows[i]) = RowSpec(b, rows[i])
        /\ Manifest(rows[i]).kind = "spawn" <=> b[rows[i].node].kind = "spawn"
    BY <2>1, <2>3, RowKinds DEF Placed
  <2>9. ASSUME Manifest(rows[i]).kind = "spawn", NEW c \in Kids(d, rows[i].node)
        PROVE  child[c] # "RUNNING"
    <3>1. c \in Children /\ c[1] = rows[i].node /\ d.child[c] # "none" /\ c \in KidsOf(d, rows[i].node)
      BY <2>9, TerminalKids DEF KidsOf
    <3>2. PICK k \in DOMAIN rows : rows[k].node = rows[i].node /\ rows[k].status = "COMPLETED"
      BY <2>3, <3>1 DEF Born
    <3>3. k = i
      BY <2>3, <2>8, <2>9, <3>2, OneRow
    <3>4. Owed(b, rows[i])
      BY <2>8, <2>9, <3>2, <3>3 DEF Owed
    <3> QED BY <2>3, <2>5, <2>7, <2>8, <2>9, <3>1, <3>4 DEF SpawnUndo
  <2>10. HasCompensation(rows[i]) /\ rows[i].status \in {"COMPLETED", "TIMED_OUT"}
         => Owed(b, rows[i])
    BY <2>8 DEF Owed, HasCompensation
  <2> QED BY <2>2, <2>5, <2>7, <2>9, <2>10
<1> QED BY <1>1, AlwaysFlow, PTL

=============================================================================
