----------------------- MODULE CommandDeliveryProofs -----------------------
(***************************************************************************)
(* Theorems about CommandDelivery, for any number of commands, workers and *)
(* deliveries and for every set of faults: the success of a command is     *)
(* written once, and the protocol implements CommandContract.              *)
(***************************************************************************)
EXTENDS CommandDelivery, TLAPS

-----------------------------------------------------------------------------
(* Types *)

\* A poll starts tasks of its own process, whatever it has taken.
LEMMA TakeType ==
    ASSUME TypeOK, NEW p \in Consumers, NEW taken \in SUBSET Commands, Take(p, taken)
    PROVE  /\ row' \in [Commands -> RowStatus]
           /\ task' \in [Deliveries -> TaskStatus]
           /\ owner' \in [Deliveries -> Consumers \cup {Nobody}]
           /\ \A d \in Deliveries : task'[d] \in Live <=> owner'[d] # Nobody
  BY ConsumerAssumption DEF TypeOK, Take, RowStatus, TaskStatus, Live

\* A notification changes the events only.
LEMMA NotifiedType ==
    ASSUME TypeOK, Notified
    PROVE  notify' \in [Consumers -> BOOLEAN]
  BY DEF TypeOK, Notified

\* The consumer loop of a process keeps the types.
LEMMA ConsumeType ==
    ASSUME TypeOK, NEW p \in Consumers, Consume(p) \/ PollCutShort(p) \/ Stop(p) \/ Crash(p)
    PROVE  TypeOK'
  <1>1. CASE Poll(p)
    <2>1. Batch \in SUBSET Commands
      BY DEF Batch
    <2>2. QED
      BY <1>1, <2>1, TakeType DEF Poll, TypeOK
  <1>2. CASE PollCutShort(p)
    <2>1. PICK c \in Batch : Take(p, {b \in Batch : b < c})
      BY <1>2 DEF PollCutShort
    <2>2. {b \in Batch : b < c} \in SUBSET Commands
      BY DEF Batch
    <2>3. mishaps' \in 0 .. MaxMishaps
      BY <1>2, SizeAssumption DEF PollCutShort, TypeOK
    <2>4. QED
      BY <1>2, <2>1, <2>2, <2>3, TakeType DEF PollCutShort, TypeOK, LoopStatus
  <1>3. CASE PollEmpty(p) \/ IdleWait(p) \/ Wake(p) \/ Restart(p)
    BY <1>3 DEF PollEmpty, IdleWait, Wake, Restart, TypeOK, LoopStatus
  <1>4. CASE Stop(p)
    <2>1. mishaps' \in 0 .. MaxMishaps
      BY <1>4, SizeAssumption DEF Stop, TypeOK
    <2>2. QED
      BY <1>4, <2>1 DEF Stop, TypeOK, LoopStatus
  <1>5. CASE Crash(p)
    <2>1. mishaps' \in 0 .. MaxMishaps
      BY <1>5, SizeAssumption DEF Crash, TypeOK
    <2>2. \A d \in Deliveries : task'[d] \in Live <=> owner'[d] # Nobody
      BY <1>5, ConsumerAssumption DEF Crash, TypeOK, Live
    <2>3. QED
      BY <1>5, <2>1, <2>2 DEF Crash, TypeOK, LoopStatus, TaskStatus
  <1>6. QED
    BY <1>1, <1>2, <1>3, <1>4, <1>5 DEF Consume

\* A free key has no token and no answer.
LEMMA FreeKey == NoClaim \in Claims /\ NoClaim.by = 0 /\ ~ NoClaim.emitted
  BY SizeAssumption DEF NoClaim, Claims

\* A key may get a new claim.
LEMMA ClaimsType ==
    ASSUME TypeOK, NEW c \in Commands, NEW v \in Claims, v.emitted => v.by # 0,
           claim' = [claim EXCEPT ![c] = v]
    PROVE  /\ claim' \in [Commands -> Claims]
           /\ \A b \in Commands : claim'[b].emitted => claim'[b].by # 0
  BY DEF TypeOK

\* A delivery owns the key while the claim has its token and no answer.
LEMMA OwnedMeans ==
    ASSUME NEW c \in Commands, NEW k \in Tries, claim[c] \in Claims
    PROVE  Owned(<<c, k>>) <=> claim[c].by = k /\ ~ claim[c].emitted
  <1>1. Owned(<<c, k>>) => claim[c].by = k /\ ~ claim[c].emitted
    BY DEF Owned
  <1>2. claim[c].by = k /\ ~ claim[c].emitted => Owned(<<c, k>>)
    BY DEF Owned, Claims
  <1>3. QED
    BY <1>1, <1>2

\* An answer is recorded in the claim of the key.
LEMMA AnsweredClaim ==
    ASSUME NEW r \in Claims
    PROVE  /\ [r EXCEPT !.emitted = TRUE] \in Claims
           /\ [r EXCEPT !.emitted = TRUE].by = r.by
           /\ [r EXCEPT !.emitted = TRUE].emitted
  BY DEF Claims

\* The life of a task keeps the types.
LEMMA HandleType ==
    ASSUME TypeOK, NEW d \in Deliveries, Handle(d) \/ Raise(d)
    PROVE  TypeOK'
  <1> USE DEF Move, TaskStatus, Live
  <1>1. PICK c \in Commands, k \in Tries : d = <<c, k>>
    BY DEF Deliveries
  <1>2. d[1] = c /\ d[2] = k /\ k \in 0 .. MaxDeliveries /\ k # 0
    BY <1>1, SizeAssumption DEF Tries
  <1>3. CASE Acquire(d) \/ VerifyFailure(d)
    BY <1>3 DEF Acquire, VerifyFailure, TypeOK
  <1>4. CASE Claim(d)
    <2>1. claim' = [claim EXCEPT ![c] = [by |-> k, emitted |-> FALSE]] \/ UNCHANGED claim
      BY <1>2, <1>4 DEF Claim
    <2>2. [by |-> k, emitted |-> FALSE] \in Claims
      BY <1>2 DEF Claims
    <2>3. /\ claim' \in [Commands -> Claims]
          /\ \A b \in Commands : claim'[b].emitted => claim'[b].by # 0
      BY <2>1, <2>2, ClaimsType DEF TypeOK
    <2>4. QED
      BY <1>4, <2>3 DEF Claim, TypeOK
  <1>5. CASE Succeed(d)
    <2>1. CASE Owned(d)
      <3>1. claim[c] \in Claims /\ claim[c].by = k
        <4>1. claim[c] \in Claims
          BY DEF TypeOK
        <4>2. QED
          BY <1>1, <2>1, <4>1, OwnedMeans
      <3>2. claim' = [claim EXCEPT ![c] = [claim[c] EXCEPT !.emitted = TRUE]]
        BY <1>2, <1>5, <2>1 DEF Succeed, TypeOK
      <3>3. /\ [claim[c] EXCEPT !.emitted = TRUE] \in Claims
            /\ [claim[c] EXCEPT !.emitted = TRUE].by # 0
        BY <1>2, <3>1, AnsweredClaim
      <3>4. /\ claim' \in [Commands -> Claims]
            /\ \A b \in Commands : claim'[b].emitted => claim'[b].by # 0
        BY <3>2, <3>3, ClaimsType
      <3>5. QED
        BY <1>2, <1>5, <2>1, <3>4 DEF Succeed, TypeOK
    <2>2. CASE ~ Owned(d)
      BY <1>5, <2>2 DEF Succeed, TypeOK
    <2>3. QED
      BY <2>1, <2>2
  <1>6. CASE EmitFailure(d)
    <2>1. Release(d) \in Claims /\ (Release(d).emitted => Release(d).by # 0)
      BY <1>2, FreeKey DEF Release, TypeOK
    <2>2. QED
      BY <1>2, <1>6, <2>1, ClaimsType DEF EmitFailure, TypeOK
  <1>7. CASE Ack(d)
    BY <1>2, <1>7 DEF Ack, RowStatus, TypeOK
  <1>8. CASE Raise(d)
    <2>1. mishaps' \in 0 .. MaxMishaps
      BY <1>8, SizeAssumption DEF Raise, TypeOK
    <2>2. QED
      BY <1>8, <2>1 DEF Raise, TypeOK
  <1>9. QED
    BY <1>3, <1>4, <1>5, <1>6, <1>7, <1>8 DEF Handle

\* Publishing and reaping keep the types.
LEMMA CommandType ==
    ASSUME TypeOK, NEW c \in Commands, Publish(c) \/ ReapRow(c) \/ ReapClaim(c)
    PROVE  TypeOK'
  <1>1. NoClaim \in Claims /\ ~ NoClaim.emitted
    BY FreeKey
  <1>2. CASE Publish(c)
    BY <1>2, NotifiedType DEF Publish, TypeOK, RowStatus
  <1>3. Stale(c) => mishaps' \in 0 .. MaxMishaps
    BY SizeAssumption DEF Stale, TypeOK
  <1>4. CASE ReapRow(c)
    <2>1. Evicted(c) \in Claims /\ (Evicted(c).emitted => Evicted(c).by # 0)
      BY <1>1 DEF Evicted, TypeOK
    <2>2. QED
      BY <1>3, <1>4, <2>1, NotifiedType DEF ReapRow, TypeOK, RowStatus
  <1>5. CASE ReapClaim(c)
    BY <1>1, <1>3, <1>5 DEF ReapClaim, TypeOK
  <1>6. QED
    BY <1>2, <1>4, <1>5

\* The tables keep their types, an answered key its token, and every task that
\* has not ended its process (the consumer and the reapers of the workers).
THEOREM TypeCorrect == Spec => []TypeOK
  <1>1. Init => TypeOK
    <2> SUFFICES ASSUME Init PROVE TypeOK
      OBVIOUS
    <2>1. NoClaim \in Claims /\ ~ NoClaim.emitted
      BY FreeKey
    <2>2. mishaps \in 0 .. MaxMishaps
      BY SizeAssumption DEF Init
    <2>3. QED
      BY <2>1, <2>2 DEF Init, TypeOK, RowStatus, TaskStatus, LoopStatus, Live
  <1>2. TypeOK /\ [Next]_vars => TypeOK'
    <2>1. TypeOK /\ UNCHANGED vars => TypeOK'
      BY DEF vars, TypeOK
    <2>2. QED
      BY <2>1, ConsumeType, HandleType, CommandType DEF Next
  <1>3. QED
    BY <1>1, <1>2, PTL DEF Spec

-----------------------------------------------------------------------------
(* A success is written once *)

\* Exactly the answered keys have their success, and the delivery that holds
\* an answered key is past its last look at the claim: it can neither write a
\* second success nor give the key back.
WrittenInv ==
    \A c \in Commands :
        /\ wins[c] = IF claim[c].emitted THEN 1 ELSE 0
        /\ \A k \in Tries : claim[c].emitted /\ claim[c].by = k
                                => task[<<c, k>>] \notin {"claimed", "verified"}

\* A step that writes no claim and lets no delivery into the critical part.
LEMMA WrittenFrame ==
    ASSUME WrittenInv, UNCHANGED <<claim, wins>>,
           \A e \in Deliveries : task'[e] \in {"claimed", "verified"}
                                    => task[e] \in {"claimed", "verified"}
    PROVE  WrittenInv'
  BY DEF WrittenInv, Deliveries

\* The consumer loop hands out new deliveries and drops those of a process.
LEMMA WrittenConsume ==
    ASSUME TypeOK, WrittenInv, NEW p \in Consumers,
           Consume(p) \/ PollCutShort(p) \/ Stop(p) \/ Crash(p)
    PROVE  WrittenInv'
  <1>1. UNCHANGED <<claim, wins>>
    BY DEF Consume, Poll, PollCutShort, PollEmpty, IdleWait, Wake, Restart, Stop, Crash
  <1>2. ASSUME NEW e \in Deliveries
        PROVE  task'[e] \in {task[e], "queued", "gone"}
    <2>1. CASE Poll(p) \/ PollCutShort(p)
      BY <2>1 DEF Poll, PollCutShort, Take
    <2>2. CASE PollEmpty(p) \/ IdleWait(p) \/ Wake(p) \/ Restart(p) \/ Stop(p) \/ Crash(p)
      BY <2>2 DEF PollEmpty, IdleWait, Wake, Restart, Stop, Crash
    <2>3. QED
      BY <2>1, <2>2 DEF Consume
  <1>3. QED
    BY <1>1, <1>2, WrittenFrame

\* A delivery claims a free key, and succeeds or gives up while it owns it.
LEMMA WrittenHandle ==
    ASSUME TypeOK, WrittenInv, NEW d \in Deliveries, Handle(d) \/ Raise(d)
    PROVE  WrittenInv'
  <1>1. PICK c \in Commands, k \in Tries : d = <<c, k>>
    BY DEF Deliveries
  <1>2. d[1] = c /\ d[2] = k /\ k # 0 /\ claim[c] \in Claims
    BY <1>1, SizeAssumption DEF Tries, TypeOK
  <1>3. \A b \in Commands, l \in Tries : <<b, l>> \in Deliveries
    BY DEF Deliveries
  <1>4. CASE Acquire(d) \/ VerifyFailure(d) \/ Ack(d) \/ Raise(d)
    <2>1. UNCHANGED <<claim, wins>>
      BY <1>4 DEF Acquire, VerifyFailure, Ack, Raise
    <2>2. \A e \in Deliveries : task'[e] \in {"claimed", "verified"}
                                   => task[e] \in {"claimed", "verified"}
      BY <1>4 DEF Acquire, VerifyFailure, Ack, Raise, Move, TypeOK
    <2>3. QED
      BY <2>1, <2>2, WrittenFrame
  <1>5. CASE Claim(d)
    <2>1. CASE claim[c].by = 0
      <3>1. claim' = [claim EXCEPT ![c] = [by |-> k, emitted |-> FALSE]] /\ UNCHANGED wins
        BY <1>2, <1>5, <2>1 DEF Claim
      <3>2. ~ claim[c].emitted
        BY <2>1 DEF TypeOK
      <3>3. \A e \in Deliveries : e # d => task'[e] = task[e]
        BY <1>5 DEF Claim, Move, TypeOK
      <3>4. \A b \in Commands, l \in Tries : b # c => <<b, l>> # d
        BY <1>1
      <3>5. QED
        BY <1>3, <3>1, <3>2, <3>3, <3>4 DEF WrittenInv, TypeOK
    <2>2. CASE claim[c].by # 0
      <3>1. UNCHANGED <<claim, wins>>
        BY <1>2, <1>5, <2>2 DEF Claim
      <3>2. \A e \in Deliveries : task'[e] \in {"claimed", "verified"}
                                     => task[e] \in {"claimed", "verified"}
        BY <1>2, <1>5, <2>2 DEF Claim, Move, TypeOK
      <3>3. QED
        BY <3>1, <3>2, WrittenFrame
    <2>3. QED
      BY <2>1, <2>2
  <1>6. CASE Succeed(d)
    <2>1. \A e \in Deliveries : task'[e] \in {"claimed", "verified"} => task[e] = task'[e]
      BY <1>6 DEF Succeed, Move, TypeOK
    <2>2. task'[d] = "returned"
      BY <1>6 DEF Succeed, Move, TypeOK
    <2>3. CASE Owned(d)
      <3>1. claim[c].by = k /\ ~ claim[c].emitted
        BY <1>1, <1>2, <2>3, OwnedMeans
      <3>2. /\ claim' = [claim EXCEPT ![c] = [claim[c] EXCEPT !.emitted = TRUE]]
            /\ wins' = [wins EXCEPT ![c] = wins[c] + 1]
        BY <1>2, <1>6, <2>3 DEF Succeed, TypeOK
      <3>3. wins[c] = 0
        BY <3>1 DEF WrittenInv
      <3>4. claim'[c].by = k /\ claim'[c].emitted /\ wins'[c] = 1
        BY <1>2, <3>1, <3>2, <3>3, AnsweredClaim DEF TypeOK
      <3>5. \A b \in Commands : b # c => claim'[b] = claim[b] /\ wins'[b] = wins[b]
        BY <3>2 DEF TypeOK
      <3>6. QED
        BY <1>1, <1>3, <2>1, <2>2, <3>4, <3>5 DEF WrittenInv
    <2>4. CASE ~ Owned(d)
      BY <1>6, <2>1, <2>4, WrittenFrame DEF Succeed
    <2>5. QED
      BY <2>3, <2>4
  <1>7. CASE EmitFailure(d)
    <2>1. \A e \in Deliveries : task'[e] \in {"claimed", "verified"} => task[e] = task'[e]
      BY <1>7 DEF EmitFailure, Move, TypeOK
    <2>2. task[d] = "verified" /\ UNCHANGED wins /\ claim' = [claim EXCEPT ![c] = Release(d)]
      BY <1>2, <1>7 DEF EmitFailure
    <2>3. claim[c].by = k => ~ claim[c].emitted
      BY <1>1, <2>2 DEF WrittenInv
    <2>4. CASE claim[c].by = k
      <3>1. Release(d) = NoClaim
        BY <1>2, <2>4 DEF Release
      <3>2. ~ claim[c].emitted /\ ~ claim'[c].emitted
        BY <2>2, <2>3, <2>4, <3>1, FreeKey DEF TypeOK
      <3>3. QED
        BY <1>3, <2>1, <2>2, <3>2 DEF WrittenInv, TypeOK
    <2>5. CASE claim[c].by # k
      <3>1. Release(d) = claim[c]
        BY <1>2, <2>5 DEF Release
      <3>2. UNCHANGED <<claim, wins>>
        BY <2>2, <3>1 DEF TypeOK
      <3>3. QED
        BY <2>1, <3>2, WrittenFrame
    <2>6. QED
      BY <2>4, <2>5
  <1>8. QED
    BY <1>4, <1>5, <1>6, <1>7 DEF Handle

\* The reapers free keys that have no answer.
LEMMA WrittenCommand ==
    ASSUME TypeOK, WrittenInv, NEW c \in Commands, Publish(c) \/ ReapRow(c) \/ ReapClaim(c)
    PROVE  WrittenInv'
  <1>1. UNCHANGED <<task, wins>>
    BY DEF Publish, ReapRow, ReapClaim
  <1>2. \A b \in Commands : \/ claim'[b] = claim[b]
                            \/ ~ claim[b].emitted /\ claim'[b] = NoClaim
    BY DEF Publish, ReapRow, ReapClaim, Evicted, TypeOK
  <1>3. \A b \in Commands : \/ claim'[b] = claim[b]
                            \/ ~ claim[b].emitted /\ ~ claim'[b].emitted
    BY <1>2, FreeKey
  <1>4. QED
    BY <1>1, <1>3 DEF WrittenInv

\* However often a command is delivered and however late a superseded worker
\* answers, its success is written once: the claim of an answered key is never
\* cleared, neither by a reaper nor by a delivery that gives the key back.
THEOREM SuccessIsUnique == Spec => []SucceedsOnce
  <1>1. Init => WrittenInv
    BY DEF Init, WrittenInv, NoClaim
  <1>2. TypeOK /\ WrittenInv /\ [Next]_vars => WrittenInv'
    <2>1. WrittenInv /\ UNCHANGED vars => WrittenInv'
      BY DEF vars, WrittenInv
    <2>2. QED
      BY <2>1, WrittenConsume, WrittenHandle, WrittenCommand DEF Next
  <1>3. WrittenInv => SucceedsOnce
    BY DEF WrittenInv, SucceedsOnce
  <1>4. QED
    BY <1>1, <1>2, <1>3, TypeCorrect, PTL DEF Spec

-----------------------------------------------------------------------------
(* No command is lost: the invariant behind the refinement *)

\* Of a command c while the reapers' timeouts hold and nothing raises: a live
\* delivery is alone, works on a row that is taken, and has the claim unless
\* the key is free or answered; a row that waits has no unanswered claim.
OnTime(c) ==
    /\ \A k \in Tries : task[<<c, k>>] \in Live =>
          /\ row[c] = "IN_PROGRESS"
          /\ \A l \in Tries : task[<<c, l>>] \in Live => l = k
          /\ task[<<c, k>>] # "raised"
          /\ task[<<c, k>>] = "returned" => result[c] # {}
          /\ IF task[<<c, k>>] \in {"claimed", "verified"}
             THEN claim[c].by = k /\ ~ claim[c].emitted
             ELSE claim[c].by = 0 \/ claim[c].emitted
    /\ row[c] = "PENDING" => claim[c].by = 0 \/ claim[c].emitted
    /\ row[c] \in {"COMPLETED", "FAILED"} => result[c] # {}

\* Of a command c in any behaviour: nothing happens before it is published,
\* and an answered key has its result.
Served(c) ==
    /\ row[c] = "none" => /\ result[c] = {} /\ claim[c].by = 0
                          /\ \A k \in Tries : task[<<c, k>>] = "none"
    /\ claim[c].emitted => result[c] # {}
    /\ InTime => OnTime(c)

ServedInv == \A c \in Commands : Served(c)

\* A step that does no more to a command than to end some of its deliveries.
LEMMA ServedFrame ==
    ASSUME NEW c \in Commands, Served(c), UNCHANGED faults,
           row'[c] = row[c], claim'[c] = claim[c], result'[c] = result[c],
           \A k \in Tries : \/ task'[<<c, k>>] = task[<<c, k>>]
                            \/ task[<<c, k>>] # "none" /\ task'[<<c, k>>] = "gone"
    PROVE  Served(c)'
  BY DEF Served, OnTime, InTime, Live

\* A poll takes rows that nobody works on.
LEMMA ServedTake ==
    ASSUME TypeOK, NEW p \in Consumers, NEW taken \in SUBSET Batch, Take(p, taken),
           UNCHANGED <<faults, claim, result>>, NEW c \in Commands, Served(c)
    PROVE  Served(c)'
  <1> DEFINE new == Delivered(c) + 1
  <1>1. \A k \in Tries : <<c, k>> \in Deliveries
    BY DEF Deliveries
  <1>2. row'[c] = IF c \in Batch THEN "IN_PROGRESS" ELSE row[c]
    BY DEF Take
  <1>3. \A k \in Tries :
           task'[<<c, k>>] = IF c \in taken /\ k = new THEN "queued" ELSE task[<<c, k>>]
    BY <1>1 DEF Take
  <1> HIDE DEF new
  <1>4. CASE c \notin Batch
    BY <1>2, <1>3, <1>4, ServedFrame
  <1>5. CASE c \in Batch
    <2>1. row[c] = "PENDING"
      BY <1>5 DEF Batch
    <2>2. ASSUME InTime PROVE OnTime(c)'
      <3>1. \A k \in Tries : task[<<c, k>>] \notin Live
        BY <2>1, <2>2 DEF Served, OnTime
      <3>2. \A k \in Tries : task'[<<c, k>>] \in Live => task'[<<c, k>>] = "queued" /\ k = new
        BY <1>3, <3>1
      <3>3. claim[c].by = 0 \/ claim[c].emitted
        BY <2>1, <2>2 DEF Served, OnTime
      <3>4. QED
        BY <1>2, <1>5, <3>2, <3>3 DEF OnTime
    <2>3. QED
      BY <1>2, <1>5, <2>2 DEF Served, InTime
  <1>6. QED
    BY <1>4, <1>5

\* The consumer loops lose nothing, whether they stop or crash.
LEMMA ServedConsume ==
    ASSUME TypeOK, ServedInv, NEW p \in Consumers,
           Consume(p) \/ PollCutShort(p) \/ Stop(p) \/ Crash(p)
    PROVE  ServedInv'
  <1> SUFFICES ASSUME NEW c \in Commands PROVE Served(c)'
    BY DEF ServedInv
  <1>1. Served(c)
    BY DEF ServedInv
  <1>2. \A k \in Tries : <<c, k>> \in Deliveries
    BY DEF Deliveries
  <1>3. CASE Poll(p)
    BY <1>1, <1>3, ServedTake DEF Poll
  <1>4. CASE PollCutShort(p)
    <2>1. PICK b \in Batch : Take(p, {a \in Batch : a < b})
      BY <1>4 DEF PollCutShort
    <2>2. {a \in Batch : a < b} \in SUBSET Batch
      OBVIOUS
    <2>3. QED
      BY <1>1, <1>4, <2>1, <2>2, ServedTake DEF PollCutShort
  <1>5. CASE PollEmpty(p) \/ IdleWait(p) \/ Wake(p) \/ Restart(p) \/ Stop(p)
    BY <1>1, <1>5, ServedFrame DEF PollEmpty, IdleWait, Wake, Restart, Stop
  <1>6. CASE Crash(p)
    <2>1. \A k \in Tries : \/ task'[<<c, k>>] = task[<<c, k>>]
                           \/ task[<<c, k>>] # "none" /\ task'[<<c, k>>] = "gone"
      BY <1>2, <1>6, ConsumerAssumption DEF Crash, TypeOK, Live
    <2>2. QED
      BY <1>1, <1>6, <2>1, ServedFrame DEF Crash
  <1>7. QED
    BY <1>3, <1>4, <1>5, <1>6 DEF Consume

\* A delivery changes its own command only.
LEMMA HandleOthers ==
    ASSUME TypeOK, NEW c \in Commands, NEW k \in Tries, Handle(<<c, k>>) \/ Raise(<<c, k>>)
    PROVE  /\ UNCHANGED faults
           /\ \A b \in Commands \ {c} :
                  row'[b] = row[b] /\ claim'[b] = claim[b] /\ result'[b] = result[b]
           /\ \A b \in Commands, l \in Tries :
                  <<b, l>> # <<c, k>> => task'[<<b, l>>] = task[<<b, l>>]
  <1> DEFINE d == <<c, k>>
  <1>1. d[1] = c /\ \A b \in Commands, l \in Tries : <<b, l>> \in Deliveries
    BY DEF Deliveries
  <1> HIDE DEF d
  <1>2. CASE Acquire(d) \/ VerifyFailure(d) \/ Raise(d)
    BY <1>1, <1>2 DEF Acquire, VerifyFailure, Raise, Move, TypeOK, d
  <1>3. CASE Claim(d)
    BY <1>1, <1>3 DEF Claim, Move, TypeOK, d
  <1>4. CASE Succeed(d)
    BY <1>1, <1>4 DEF Succeed, Move, TypeOK, d
  <1>5. CASE EmitFailure(d)
    BY <1>1, <1>5 DEF EmitFailure, Move, TypeOK, d
  <1>6. CASE Ack(d)
    BY <1>1, <1>6 DEF Ack, TypeOK, d
  <1>7. QED
    BY <1>2, <1>3, <1>4, <1>5, <1>6 DEF Handle, d

\* A delivery that returns has a result behind it, its own or that of the
\* delivery that holds the key.
LEMMA ServedOwn ==
    ASSUME TypeOK, NEW c \in Commands, NEW k \in Tries, Served(c),
           Handle(<<c, k>>) \/ Raise(<<c, k>>)
    PROVE  Served(c)'
  <1> DEFINE d == <<c, k>>
  <1>1. d \in Deliveries /\ d[1] = c /\ d[2] = k /\ k # 0 /\ claim[c] \in Claims
    BY SizeAssumption DEF Deliveries, Tries, TypeOK
  <1>2. UNCHANGED faults /\ \A l \in Tries : l # k => task'[<<c, l>>] = task[<<c, l>>]
    BY HandleOthers
  <1>3. task[d] = "none" => FALSE
    BY DEF Handle, Acquire, Claim, Succeed, VerifyFailure, EmitFailure, Ack, Raise
  <1>4. row[c] # "none" /\ row'[c] # "none"
    <2>1. row[c] # "none"
      BY <1>3 DEF Served
    <2>2. row' = row \/ Ack(d)
      BY DEF Handle, Acquire, Claim, Succeed, VerifyFailure, EmitFailure, Raise
    <2>3. QED
      BY <1>1, <2>1, <2>2 DEF Ack, TypeOK
  <1> HIDE DEF d
  <1>5. CASE Acquire(d) \/ VerifyFailure(d) \/ Raise(d)
    <2>1. row' = row /\ claim' = claim /\ result' = result
      BY <1>5 DEF Acquire, VerifyFailure, Raise
    <2>2. ASSUME InTime
          PROVE  \/ task[d] = "queued" /\ task'[d] = "started"
                 \/ task[d] = "claimed" /\ task'[d] = "verified"
      <3>1. CASE Acquire(d)
        BY <1>1, <3>1 DEF Acquire, Move, TypeOK
      <3>2. CASE VerifyFailure(d)
        <4>1. Owned(d)
          BY <1>1, <2>2, <3>2, OwnedMeans DEF VerifyFailure, Served, OnTime, Live, d
        <4>2. QED
          BY <1>1, <3>2, <4>1 DEF VerifyFailure, Move, TypeOK
      <3>3. ~ Raise(d)
        BY <2>2 DEF Raise, InTime
      <3>4. QED
        BY <1>5, <3>1, <3>2, <3>3
    <2>3. ASSUME InTime PROVE OnTime(c)'
      BY <1>2, <2>1, <2>2, <2>3 DEF Served, OnTime, Live, d
    <2>4. QED
      BY <1>2, <1>4, <2>1, <2>3 DEF Served, InTime
  <1>6. CASE Claim(d)
    <2>1. UNCHANGED <<row, result>> /\ task[d] = "started"
      BY <1>6 DEF Claim
    <2>2. CASE claim[c].by = 0
      <3>1. claim'[c] = [by |-> k, emitted |-> FALSE] /\ task'[d] = "claimed"
        BY <1>1, <1>6, <2>2 DEF Claim, Move, TypeOK
      <3>2. claim'[c].by = k /\ ~ claim'[c].emitted
        BY <3>1
      <3>3. ASSUME InTime PROVE OnTime(c)'
        BY <1>2, <2>1, <3>1, <3>2, <3>3 DEF Served, OnTime, Live, d
      <3>4. QED
        BY <1>4, <2>1, <3>2, <3>3, <1>2 DEF Served, InTime
    <2>3. CASE claim[c].by # 0
      <3>1. claim' = claim /\ task'[d] = "returned"
        BY <1>1, <1>6, <2>3 DEF Claim, Move, TypeOK
      <3>2. ASSUME InTime PROVE OnTime(c)'
        <4>1. claim[c].emitted /\ result[c] # {}
          BY <2>1, <2>3, <3>2 DEF Served, OnTime, Live, d
        <4>2. QED
          BY <1>2, <2>1, <3>1, <3>2, <4>1 DEF Served, OnTime, Live, d
      <3>3. QED
        BY <1>2, <1>4, <2>1, <3>1, <3>2 DEF Served, InTime
    <2>4. QED
      BY <2>2, <2>3
  <1>7. CASE Succeed(d)
    <2>1. row' = row /\ task[d] = "claimed" /\ task'[d] = "returned"
      BY <1>1, <1>7 DEF Succeed, Move, TypeOK
    <2>2. CASE Owned(d)
      <3>1. claim'[c] = [claim[c] EXCEPT !.emitted = TRUE] /\ result'[c] # {}
        <4>1. claim'[c] = [claim[c] EXCEPT !.emitted = TRUE]
          BY <1>1, <1>7, <2>2 DEF Succeed, TypeOK
        <4>2. result' = [result EXCEPT ![c] = result[c] \cup {"COMPLETED"}]
          BY <1>1, <1>7, <2>2 DEF Succeed, TypeOK
        <4>3. QED
          BY <4>1, <4>2 DEF TypeOK
      <3>2. claim'[c].emitted
        BY <1>1, <3>1, AnsweredClaim
      <3>3. ASSUME InTime PROVE OnTime(c)'
        BY <1>2, <2>1, <3>1, <3>2, <3>3 DEF Served, OnTime, Live, d
      <3>4. QED
        BY <1>2, <1>4, <3>1, <3>3 DEF Served, InTime
    <2>3. CASE ~ Owned(d)
      <3>1. claim' = claim /\ result' = result
        BY <1>7, <2>3 DEF Succeed
      <3>2. ~ InTime
        BY <1>1, <2>1, <2>3, OwnedMeans DEF Served, OnTime, Live, d
      <3>3. QED
        BY <1>2, <1>4, <3>1, <3>2 DEF Served, InTime
    <2>4. QED
      BY <2>2, <2>3
  <1>8. CASE EmitFailure(d)
    <2>1. /\ row' = row /\ task[d] = "verified" /\ task'[d] = "returned"
          /\ result'[c] # {} /\ claim'[c] = Release(d)
      BY <1>1, <1>8 DEF EmitFailure, Move, TypeOK
    <2>2. ASSUME InTime PROVE OnTime(c)'
      <3>1. claim[c].by = k
        BY <2>1, <2>2 DEF Served, OnTime, Live, d
      <3>2. claim'[c].by = 0
        BY <1>1, <2>1, <3>1, FreeKey DEF Release
      <3>3. QED
        BY <1>2, <2>1, <2>2, <3>2 DEF Served, OnTime, Live, d
    <2>3. QED
      BY <1>2, <1>4, <2>1, <2>2 DEF Served, InTime
  <1>9. CASE Ack(d)
    <2>1. /\ claim' = claim /\ result' = result
          /\ task[d] \in {"returned", "raised"} /\ task'[d] = "gone"
      BY <1>1, <1>9 DEF Ack, TypeOK
    <2>2. ASSUME InTime PROVE OnTime(c)'
      <3>1. result[c] # {} /\ row[c] = "IN_PROGRESS"
        BY <2>1, <2>2 DEF Served, OnTime, Live, d
      <3>2. \A l \in Tries : task'[<<c, l>>] \notin Live
        BY <1>2, <2>1, <2>2 DEF Served, OnTime, Live, d
      <3>3. row'[c] # "PENDING"
        BY <1>1, <1>9, <3>1 DEF Ack, TypeOK
      <3>4. QED
        BY <2>1, <3>1, <3>2, <3>3 DEF OnTime
    <2>3. QED
      BY <1>2, <1>4, <2>1, <2>2 DEF Served, InTime
  <1>10. QED
    BY <1>5, <1>6, <1>7, <1>8, <1>9 DEF Handle, d

\* A step of a delivery keeps what holds of every command.
LEMMA ServedHandle ==
    ASSUME TypeOK, ServedInv, NEW d \in Deliveries, Handle(d) \/ Raise(d)
    PROVE  ServedInv'
  <1> SUFFICES ASSUME NEW b \in Commands PROVE Served(b)'
    BY DEF ServedInv
  <1>1. PICK c \in Commands, k \in Tries : d = <<c, k>>
    BY DEF Deliveries
  <1>2. CASE b = c
    BY <1>1, <1>2, ServedOwn DEF ServedInv
  <1>3. CASE b # c
    BY <1>1, <1>3, HandleOthers, ServedFrame DEF ServedInv
  <1>4. QED
    BY <1>2, <1>3

\* In time the reapers touch a command only when nobody works on it; a row that
\* becomes deliverable again is rid of the claim that would block it.
LEMMA ServedCommand ==
    ASSUME TypeOK, ServedInv, NEW c \in Commands, Publish(c) \/ ReapRow(c) \/ ReapClaim(c)
    PROVE  ServedInv'
  <1> SUFFICES ASSUME NEW b \in Commands PROVE Served(b)'
    BY DEF ServedInv
  <1>1. Served(b)
    BY DEF ServedInv
  <1>2. UNCHANGED <<faults, result, task>>
    BY DEF Publish, ReapRow, ReapClaim
  <1>3. CASE b # c
    <2>1. row'[b] = row[b] /\ claim'[b] = claim[b]
      BY <1>3 DEF Publish, ReapRow, ReapClaim, TypeOK
    <2>2. QED
      BY <1>1, <1>2, <2>1, ServedFrame
  <1>4. CASE b = c /\ Publish(c)
    <2>1. row[b] = "none" /\ row'[b] = "PENDING" /\ claim' = claim
      BY <1>4 DEF Publish, TypeOK
    <2>2. QED
      BY <1>1, <1>2, <2>1 DEF Served, OnTime, InTime, Live
  <1>5. CASE b = c /\ ReapRow(c)
    <2>1. row[b] = "IN_PROGRESS" /\ row'[b] = "PENDING" /\ claim'[b] = Evicted(b)
      BY <1>5 DEF ReapRow, TypeOK
    <2>2. InTime => \A k \in Tries : task[<<b, k>>] \notin Live
      BY <1>5 DEF ReapRow, Stale, InTime, LiveOf
    <2>3. \/ claim'[b] = claim[b] /\ claim[b].emitted
          \/ claim'[b].by = 0 /\ ~ claim'[b].emitted
      BY <2>1, FreeKey DEF Evicted
    <2>4. QED
      BY <1>1, <1>2, <2>1, <2>2, <2>3 DEF Served, OnTime, InTime
  <1>6. CASE b = c /\ ReapClaim(c)
    <2>1. row' = row /\ claim'[b] = NoClaim
      BY <1>6 DEF ReapClaim, TypeOK
    <2>2. InTime => \A k \in Tries : task[<<b, k>>] \notin Live
      BY <1>6 DEF ReapClaim, Stale, InTime, LiveOf
    <2>3. QED
      BY <1>1, <1>2, <2>1, <2>2, FreeKey DEF Served, OnTime, InTime
  <1>7. QED
    BY <1>3, <1>4, <1>5, <1>6

\* Every reachable state is served.
THEOREM EveryCommandServed == Spec => []ServedInv
  <1>1. Init => ServedInv
    <2> SUFFICES ASSUME Init, NEW c \in Commands PROVE Served(c)
      BY DEF ServedInv
    <2>1. /\ \A k \in Tries : task[<<c, k>>] = "none"
          /\ row[c] = "none" /\ result[c] = {} /\ claim[c] = NoClaim
      BY DEF Init, Deliveries
    <2>2. QED
      BY <2>1, FreeKey DEF Served, OnTime, Live
  <1>2. TypeOK /\ ServedInv /\ [Next]_vars => ServedInv'
    <2>1. ServedInv /\ UNCHANGED vars => ServedInv'
      BY DEF vars, ServedInv, Served, OnTime, InTime
    <2>2. QED
      BY <2>1, ServedConsume, ServedHandle, ServedCommand DEF Next
  <1>3. QED
    BY <1>1, <1>2, TypeCorrect, PTL DEF Spec

\* While a task is faster than the reapers and no handler raises, a row is
\* settled only when its command has a result: workers that crash or are
\* stopped lose no command (NotLost fails only for the other faults).
THEOREM NothingLostInTime == Spec => [](InTime => NotLost)
  <1>1. ServedInv => (InTime => NotLost)
    BY DEF ServedInv, Served, OnTime, NotLost
  <1>2. QED
    BY <1>1, EveryCommandServed, PTL

-----------------------------------------------------------------------------
(* The refinement of CommandContract *)

\* A command is owed exactly while its row is to be taken or is taken, and for
\* good when a fault may lose it.
OwedRows ==
    {c \in Commands : \/ row[c] \in {"PENDING", "IN_PROGRESS"}
                      \/ row[c] # "none" /\ ~ InTime}

\* Whoever may still answer a command works on a row that is taken.
LEMMA OwedMeans == ServedInv => Owed = OwedRows
  <1> SUFFICES ASSUME ServedInv, NEW c \in Commands, Holder(c)
               PROVE  row[c] # "none" /\ (InTime => row[c] = "IN_PROGRESS")
    BY DEF Owed, OwedRows
  <1>1. PICK k \in Tries : task[<<c, k>>] \in Live
    BY DEF Holder, LiveOf
  <1>2. QED
    BY <1>1 DEF ServedInv, Served, OnTime, Live

\* The consumer loops are not seen by the engine.
LEMMA ConsumeIsQuiet ==
    ASSUME TypeOK, NEW p \in Consumers, Consume(p) \/ PollCutShort(p) \/ Stop(p) \/ Crash(p)
    PROVE  UNCHANGED <<OwedRows, Reported>>
  <1>1. UNCHANGED <<faults, result>>
    BY DEF Consume, Poll, PollCutShort, PollEmpty, IdleWait, Wake, Restart, Stop, Crash
  <1>2. \A c \in Commands : \/ row'[c] = row[c]
                            \/ row[c] = "PENDING" /\ row'[c] = "IN_PROGRESS"
    <2>1. CASE Poll(p) \/ PollCutShort(p)
      BY <2>1 DEF Poll, PollCutShort, Take, Batch
    <2>2. CASE PollEmpty(p) \/ IdleWait(p) \/ Wake(p) \/ Restart(p) \/ Stop(p) \/ Crash(p)
      BY <2>2 DEF PollEmpty, IdleWait, Wake, Restart, Stop, Crash
    <2>3. QED
      BY <2>1, <2>2 DEF Consume
  <1>3. QED
    BY <1>1, <1>2 DEF OwedRows, Reported, InTime

\* A delivery reports a command that is owed, and settles one that has a result.
LEMMA HandleIsReport ==
    ASSUME TypeOK, ServedInv, NEW c \in Commands, NEW k \in Tries,
           Handle(<<c, k>>) \/ Raise(<<c, k>>)
    PROVE  \/ UNCHANGED <<OwedRows, Reported>>
           \/ c \in OwedRows /\ OwedRows' = OwedRows /\ Reported' = Reported \cup {c}
           \/ c \in Reported /\ OwedRows' = OwedRows \ {c} /\ Reported' = Reported
  <1> DEFINE d == <<c, k>>
  <1>1. d \in Deliveries /\ d[1] = c /\ Served(c)
    BY DEF Deliveries, ServedInv
  <1>2. UNCHANGED faults
    BY HandleOthers
  <1> HIDE DEF d
  <1>3. CASE Acquire(d) \/ Claim(d) \/ VerifyFailure(d) \/ Raise(d)
    BY <1>2, <1>3 DEF Acquire, Claim, VerifyFailure, Raise, OwedRows, Reported, InTime
  <1>4. CASE Succeed(d) \/ EmitFailure(d)
    <2>1. UNCHANGED row
      BY <1>4 DEF Succeed, EmitFailure
    <2>2. OwedRows' = OwedRows
      BY <1>2, <2>1 DEF OwedRows, InTime
    <2>3. task[d] \in Live
      BY <1>4 DEF Succeed, EmitFailure, Live
    <2>4. c \in OwedRows
      BY <1>1, <2>3 DEF Served, OnTime, OwedRows, Live, d
    <2>5. \/ UNCHANGED result
          \/ result' = [result EXCEPT ![c] = result[c] \cup {"COMPLETED"}]
          \/ result' = [result EXCEPT ![c] = result[c] \cup {"FAILED"}]
      BY <1>1, <1>4 DEF Succeed, EmitFailure, TypeOK
    <2>6. UNCHANGED Reported \/ Reported' = Reported \cup {c}
      BY <2>5 DEF Reported, TypeOK
    <2>7. QED
      BY <2>2, <2>4, <2>6
  <1>5. CASE Ack(d)
    <2>1. UNCHANGED result /\ task[d] \in {"returned", "raised"}
      BY <1>5 DEF Ack
    <2>2. row' = [row EXCEPT ![c] =
                     IF row[c] # "IN_PROGRESS" THEN row[c]
                     ELSE IF task[d] = "returned" THEN "COMPLETED" ELSE "FAILED"]
      BY <1>1, <1>5 DEF Ack, TypeOK
    <2>3. Reported' = Reported
      BY <2>1 DEF Reported
    <2>4. row[c] # "none"
      BY <1>1, <2>1 DEF Served, d
    <2>5. CASE InTime
      <3>1. row[c] = "IN_PROGRESS" /\ c \in Reported
        BY <1>1, <2>1, <2>5 DEF Served, OnTime, Reported, Live, d
      <3>2. OwedRows' = OwedRows \ {c}
        BY <1>2, <2>2, <2>5, <3>1 DEF OwedRows, InTime, TypeOK
      <3>3. QED
        BY <2>3, <3>1, <3>2
    <2>6. CASE ~ InTime
      BY <1>2, <2>2, <2>3, <2>4, <2>6 DEF OwedRows, InTime, TypeOK
    <2>7. QED
      BY <2>5, <2>6
  <1>6. QED
    BY <1>3, <1>4, <1>5 DEF Handle, d

\* Publishing asks; the reapers only make deliverable what was owed already.
LEMMA CommandIsAsk ==
    ASSUME TypeOK, ServedInv, NEW c \in Commands, Publish(c) \/ ReapRow(c) \/ ReapClaim(c)
    PROVE  \/ UNCHANGED <<OwedRows, Reported>>
           \/ c \notin Reported /\ OwedRows' = OwedRows \cup {c} /\ Reported' = Reported
  <1>1. UNCHANGED <<faults, result>>
    BY DEF Publish, ReapRow, ReapClaim
  <1>2. CASE Publish(c)
    <2>1. row[c] = "none" /\ row' = [row EXCEPT ![c] = "PENDING"] /\ result[c] = {}
      BY <1>2 DEF Publish, ServedInv, Served
    <2>2. OwedRows' = OwedRows \cup {c}
      BY <1>1, <2>1 DEF OwedRows, InTime, TypeOK
    <2>3. QED
      BY <1>1, <2>1, <2>2 DEF Reported
  <1>3. CASE ReapRow(c) \/ ReapClaim(c)
    <2>1. \A b \in Commands : \/ row'[b] = row[b]
                              \/ row[b] = "IN_PROGRESS" /\ row'[b] = "PENDING"
      BY <1>3 DEF ReapRow, ReapClaim, TypeOK
    <2>2. QED
      BY <1>1, <2>1 DEF OwedRows, Reported, InTime
  <1>4. QED
    BY <1>2, <1>3

\* The delivery protocol implements the promise of the outbox, for any number
\* of commands and workers and for every set of faults.
THEOREM ProtocolKeepsContract == Spec => KeepsContract
  <1>1. Init => Contract!Init
    <2> SUFFICES ASSUME Init PROVE Owed = {} /\ Reported = {}
      BY DEF Contract!Init
    <2>1. \A c \in Commands : row[c] = "none" /\ result[c] = {}
      BY DEF Init
    <2>2. \A c \in Commands, k \in Tries : task[<<c, k>>] \notin Live
      BY DEF Init, Deliveries, Live
    <2>3. QED
      BY <2>1, <2>2 DEF Owed, Reported, Holder, LiveOf
  <1>2. TypeOK /\ ServedInv /\ (Owed = OwedRows) /\ (Owed = OwedRows)' /\ [Next]_vars
        => [Contract!Next]_(Contract!vars)
    <2> SUFFICES ASSUME TypeOK, ServedInv, Owed = OwedRows, (Owed = OwedRows)', [Next]_vars
                 PROVE  Contract!Next \/ UNCHANGED <<Owed, Reported>>
      BY DEF Contract!vars
    <2>1. ASSUME NEW c \in Commands, Publish(c) \/ ReapRow(c) \/ ReapClaim(c)
          PROVE  Contract!Next \/ UNCHANGED <<Owed, Reported>>
      BY <2>1, CommandIsAsk DEF Contract!Next, Contract!Ask
    <2>2. ASSUME NEW p \in Consumers, Consume(p) \/ PollCutShort(p) \/ Stop(p) \/ Crash(p)
          PROVE  UNCHANGED <<Owed, Reported>>
      BY <2>2, ConsumeIsQuiet
    <2>3. ASSUME NEW d \in Deliveries, Handle(d) \/ Raise(d)
          PROVE  Contract!Next \/ UNCHANGED <<Owed, Reported>>
      <3>1. PICK c \in Commands, k \in Tries : d = <<c, k>>
        BY DEF Deliveries
      <3>2. CASE c \in Reported /\ OwedRows' = OwedRows \ {c} /\ Reported' = Reported
        <4>1. Contract!Settle({c})
          BY <3>2 DEF Contract!Settle
        <4>2. QED
          BY <3>2, <4>1 DEF Contract!Next
      <3>3. CASE c \in OwedRows /\ OwedRows' = OwedRows /\ Reported' = Reported \cup {c}
        BY <3>3 DEF Contract!Next, Contract!Report
      <3>4. QED
        BY <2>3, <3>1, <3>2, <3>3, HandleIsReport
    <2>4. UNCHANGED vars => UNCHANGED <<Owed, Reported>>
      BY DEF vars, Owed, Reported, Holder, LiveOf, Owned, InTime
    <2>5. QED
      BY <2>1, <2>2, <2>3, <2>4 DEF Next
  <1>3. QED
    BY <1>1, <1>2, TypeCorrect, EveryCommandServed, OwedMeans, PTL
    DEF Spec, KeepsContract, Contract!Spec

=============================================================================
