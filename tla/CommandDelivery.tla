--------------------------- MODULE CommandDelivery ---------------------------
(***************************************************************************)
(* How a worker command gets from its outbox row to a result: the polling  *)
(* consumer with its LISTEN/NOTIFY wake-up (common/messaging/postgres.py), *)
(* the claim on the idempotency key and its token                          *)
(* (common/processed_command_claim.py, workers/logic.py), and the reapers  *)
(* that make a command deliverable again (common/outbox_reap.py,           *)
(* common/processed_command_reap.py).                                      *)
(*                                                                         *)
(* Every time a consumer takes a row it starts a task, here a delivery:    *)
(* the k-th delivery of command c is <<c, k>>, and k stands for the claim  *)
(* token the task would draw.  SagaEngine has the engine's side of this    *)
(* protocol, for one claim at a time.                                      *)
(***************************************************************************)
EXTENDS Integers, FiniteSets

CONSTANTS
    N,              \* number of commands, numbered in the order of created_at
    Consumers,      \* worker processes
    BatchSize,      \* rows a poll takes at most
    MaxInFlight,    \* handlers a consumer runs at a time
    MaxDeliveries,  \* bound: deliveries of one command
    MaxMishaps,       \* bound: crashes, shutdowns, stalls and exceptions
    FaultModes      \* what may go wrong in a behaviour: sets of fault names

Commands == 1 .. N
Tries == 1 .. MaxDeliveries
Deliveries == Commands \X Tries

\* "crash": a worker process is gone with all its tasks; "shutdown": it is
\* asked to stop; "stall": a task is slower than the reapers' timeouts;
\* "raise": a handler ends with an exception; "deaf": a LISTEN connection is
\* down and its process hears no notification.
FaultNames == {"crash", "shutdown", "stall", "raise", "deaf"}

ASSUME SizeAssumption ==
    /\ N \in Nat /\ BatchSize \in Nat \ {0} /\ MaxInFlight \in Nat \ {0}
    /\ MaxDeliveries \in Nat \ {0} /\ MaxMishaps \in Nat
ASSUME FaultAssumption == FaultModes \subseteq SUBSET FaultNames

RowStatus == {"none", "PENDING", "IN_PROGRESS", "COMPLETED", "FAILED"}
TaskStatus == {"none",      \* never started
               "queued",    \* waits for the semaphore
               "started",   \* before the claim
               "claimed",   \* holds its token, runs the adapter
               "verified",  \* about to report a failure
               "returned",  \* the handler has returned
               "raised",    \* the handler has raised
               "gone"}      \* ended, or lost with its process
Live == {"queued", "started", "claimed", "verified", "returned", "raised"}

Nobody == "nobody"
ASSUME ConsumerAssumption == Nobody \notin Consumers

NoClaim == [by |-> 0, emitted |-> FALSE]
Claims == [by : 0 .. MaxDeliveries, emitted : BOOLEAN]

VARIABLES
    faults,     \* what may go wrong in this behaviour
    row,        \* outbox_events.status on worker-commands
    claim,      \* processed_commands: the token that holds the key
    result,     \* the result events written for a command
    task,       \* the tasks of the deliveries
    owner,      \* the process that runs a delivery
    loop,       \* where the consumer loop of a process is
    notify,     \* _notify_event of a process
    mishaps,      \* crashes, shutdowns, stalls and exceptions so far
    wins        \* history: successful results written

vars == <<faults, row, claim, result, task, owner, loop, notify, mishaps, wins>>

\* "poll": before _poll_and_dispatch; "empty": it found nothing; "wait": in
\* _idle_wait; "drain": shut down, waiting for the tasks in flight.
LoopStatus == {"poll", "empty", "wait", "drain"}

Init ==
    /\ faults \in FaultModes
    /\ row = [c \in Commands |-> "none"]
    /\ claim = [c \in Commands |-> NoClaim]
    /\ result = [c \in Commands |-> {}]
    /\ task = [d \in Deliveries |-> "none"]
    /\ owner = [d \in Deliveries |-> Nobody]
    /\ loop = [p \in Consumers |-> "poll"]
    /\ notify = [p \in Consumers |-> FALSE]
    /\ mishaps = 0
    /\ wins = [c \in Commands |-> 0]

Delivered(c) == Cardinality({k \in Tries : task[<<c, k>>] # "none"})
LiveOf(c) == {k \in Tries : task[<<c, k>>] \in Live}

\* The trigger on outbox_events: rows that become PENDING notify the listeners
\* that have a connection at that moment.
Notified == \E heard \in IF "deaf" \in faults THEN SUBSET Consumers ELSE {Consumers} :
    notify' = [p \in Consumers |-> notify[p] \/ p \in heard]

-----------------------------------------------------------------------------
(* Publishing and polling *)

\* _insert_outbox_row
Publish(c) ==
    /\ row[c] = "none"
    /\ row' = [row EXCEPT ![c] = "PENDING"]
    /\ Notified
    /\ UNCHANGED <<faults, claim, result, task, owner, loop, mishaps, wins>>

\* The rows a poll selects: the oldest, up to the batch size.
Batch ==
    LET due == {c \in Commands : row[c] = "PENDING"}
    IN  {c \in due : Cardinality({b \in due : b < c}) < BatchSize}

\* The first rows of the batch get a task, the rest are only marked.
Take(p, taken) ==
    /\ row' = [c \in Commands |-> IF c \in Batch THEN "IN_PROGRESS" ELSE row[c]]
    /\ LET new == {<<c, Delivered(c) + 1>> : c \in taken}
       IN  /\ task' = [d \in Deliveries |-> IF d \in new THEN "queued" ELSE task[d]]
           /\ owner' = [d \in Deliveries |-> IF d \in new THEN p ELSE owner[d]]

\* _poll_and_dispatch
Poll(p) ==
    /\ loop[p] = "poll"
    /\ Batch # {}
    /\ Take(p, Batch)
    /\ UNCHANGED <<faults, claim, result, loop, notify, mishaps, wins>>

\* _poll_and_dispatch when stop() is called before all rows have their task
PollCutShort(p) ==
    /\ "shutdown" \in faults /\ mishaps < MaxMishaps
    /\ loop[p] = "poll"
    /\ \E c \in Batch : Take(p, {b \in Batch : b < c})
    /\ loop' = [loop EXCEPT ![p] = "drain"]
    /\ mishaps' = mishaps + 1
    /\ UNCHANGED <<faults, claim, result, notify, wins>>

PollEmpty(p) ==
    /\ loop[p] = "poll"
    /\ Batch = {}
    /\ loop' = [loop EXCEPT ![p] = "empty"]
    /\ UNCHANGED <<faults, row, claim, result, task, owner, notify, mishaps, wins>>

\* _idle_wait up to the wait: what was notified since the poll is forgotten.
IdleWait(p) ==
    /\ loop[p] = "empty"
    /\ notify' = [notify EXCEPT ![p] = FALSE]
    /\ loop' = [loop EXCEPT ![p] = "wait"]
    /\ UNCHANGED <<faults, row, claim, result, task, owner, mishaps, wins>>

\* mutant: there is no safety poll
WakeNotified(p) ==
    /\ loop[p] = "wait"
    /\ notify[p]
    /\ loop' = [loop EXCEPT ![p] = "poll"]
    /\ UNCHANGED <<faults, row, claim, result, task, owner, notify, mishaps, wins>>

\* _await_first_or_timeout: a notification, or poll_interval has passed.
Wake(p) ==
    /\ loop[p] = "wait"
    /\ loop' = [loop EXCEPT ![p] = "poll"]
    /\ UNCHANGED <<faults, row, claim, result, task, owner, notify, mishaps, wins>>

\* stop() elsewhere in the loop
Stop(p) ==
    /\ "shutdown" \in faults /\ mishaps < MaxMishaps
    /\ loop[p] # "drain"
    /\ loop' = [loop EXCEPT ![p] = "drain"]
    /\ mishaps' = mishaps + 1
    /\ UNCHANGED <<faults, row, claim, result, task, owner, notify, wins>>

\* _drain_in_flight is over and the process is started again.
Restart(p) ==
    /\ loop[p] = "drain"
    /\ \A d \in Deliveries : owner[d] # p
    /\ loop' = [loop EXCEPT ![p] = "poll"]
    /\ notify' = [notify EXCEPT ![p] = FALSE]
    /\ UNCHANGED <<faults, row, claim, result, task, owner, mishaps, wins>>

\* A process is gone with its tasks, and is started again.
Crash(p) ==
    /\ "crash" \in faults /\ mishaps < MaxMishaps
    /\ task' = [d \in Deliveries |-> IF owner[d] = p THEN "gone" ELSE task[d]]
    /\ owner' = [d \in Deliveries |-> IF owner[d] = p THEN Nobody ELSE owner[d]]
    /\ loop' = [loop EXCEPT ![p] = "poll"]
    /\ notify' = [notify EXCEPT ![p] = FALSE]
    /\ mishaps' = mishaps + 1
    /\ UNCHANGED <<faults, row, claim, result, wins>>

-----------------------------------------------------------------------------
(* Handling a delivery.  d is <<command, try>>. *)

Move(d, status) == task' = [task EXCEPT ![d] = status]

\* The semaphore of _process_row
Acquire(d) ==
    /\ task[d] = "queued"
    /\ Cardinality({e \in Deliveries : /\ owner[e] = owner[d]
                                       /\ task[e] \in Live \ {"queued"}}) < MaxInFlight
    /\ Move(d, "started")
    /\ UNCHANGED <<faults, row, claim, result, owner, loop, notify, mishaps, wins>>

\* _claim_idempotency_key: the key is free, or held by another delivery; then
\* the handler returns and the command is taken for handled.
Claim(d) ==
    /\ task[d] = "started"
    /\ IF claim[d[1]].by = 0
       THEN /\ claim' = [claim EXCEPT ![d[1]] = [by |-> d[2], emitted |-> FALSE]]
            /\ Move(d, "claimed")
       ELSE /\ Move(d, "returned")
            /\ UNCHANGED claim
    /\ UNCHANGED <<faults, row, result, owner, loop, notify, mishaps, wins>>

\* mutant: the token is not compared
OwnedByAny(d) == claim[d[1]].by # 0

\* claim_still_owned
Owned(d) == claim[d[1]] = [by |-> d[2], emitted |-> FALSE]

\* _finalize_success: the claim and the result change in one transaction, or
\* neither when the delivery was superseded.
Succeed(d) ==
    /\ task[d] = "claimed"
    /\ IF Owned(d)
       THEN /\ claim' = [claim EXCEPT ![d[1]].emitted = TRUE]
            /\ result' = [result EXCEPT ![d[1]] = @ \cup {"COMPLETED"}]
            /\ wins' = [wins EXCEPT ![d[1]] = @ + 1]
       ELSE UNCHANGED <<claim, result, wins>>
    /\ Move(d, "returned")
    /\ UNCHANGED <<faults, row, owner, loop, notify, mishaps>>

\* verify_claim_before_emit reads the claim and locks nothing: what is written
\* after it is a step of its own.
VerifyFailure(d) ==
    /\ task[d] = "claimed"
    /\ Move(d, IF Owned(d) THEN "verified" ELSE "returned")
    /\ UNCHANGED <<faults, row, claim, result, owner, loop, notify, mishaps, wins>>

\* _release_command_claim
Release(d) == IF claim[d[1]].by = d[2] THEN NoClaim ELSE claim[d[1]]

\* _finalize_failure after the check
EmitFailure(d) ==
    /\ task[d] = "verified"
    /\ result' = [result EXCEPT ![d[1]] = @ \cup {"FAILED"}]
    /\ claim' = [claim EXCEPT ![d[1]] = Release(d)]
    /\ Move(d, "returned")
    /\ UNCHANGED <<faults, row, owner, loop, notify, mishaps, wins>>

\* Anything else that raises: a hook, a lost connection
Raise(d) ==
    /\ "raise" \in faults /\ mishaps < MaxMishaps
    /\ task[d] \in {"started", "claimed", "verified"}
    /\ Move(d, "raised")
    /\ mishaps' = mishaps + 1
    /\ UNCHANGED <<faults, row, claim, result, owner, loop, notify, wins>>

\* _process_row after the handler: the row is settled if it is IN_PROGRESS,
\* for this delivery or for another.
Ack(d) ==
    /\ task[d] \in {"returned", "raised"}
    /\ row' = [row EXCEPT ![d[1]] =
                  IF @ # "IN_PROGRESS" THEN @
                  ELSE IF task[d] = "returned" THEN "COMPLETED" ELSE "FAILED"]
    /\ task' = [task EXCEPT ![d] = "gone"]
    /\ owner' = [owner EXCEPT ![d] = Nobody]
    /\ UNCHANGED <<faults, claim, result, loop, notify, mishaps, wins>>

-----------------------------------------------------------------------------
(* The reapers *)

\* Older than OUTBOX_STALE_IN_PROGRESS_SECONDS or
\* processed_command_stale_claim_seconds: nobody works on it any more, or a
\* task stalls.
Stale(c) ==
    \/ LiveOf(c) = {} /\ UNCHANGED mishaps
    \/ /\ LiveOf(c) # {} /\ "stall" \in faults
       /\ mishaps < MaxMishaps /\ mishaps' = mishaps + 1

\* mutant: the row is reset alone
EvictedNever(c) == claim[c]

\* The claim that goes with a row that is reset, unless it has its result
Evicted(c) == IF claim[c].emitted THEN claim[c] ELSE NoClaim

\* reap_paired_worker_commands_outbox
ReapRow(c) ==
    /\ row[c] = "IN_PROGRESS"
    /\ Stale(c)
    /\ Delivered(c) < MaxDeliveries
    /\ row' = [row EXCEPT ![c] = "PENDING"]
    /\ claim' = [claim EXCEPT ![c] = Evicted(c)]
    /\ Notified
    /\ UNCHANGED <<faults, result, task, owner, loop, wins>>

\* reap_stale_processed_commands and reap_stale_claim_by_key
ReapClaim(c) ==
    /\ claim[c].by # 0 /\ ~ claim[c].emitted
    /\ Stale(c)
    /\ claim' = [claim EXCEPT ![c] = NoClaim]
    /\ UNCHANGED <<faults, row, result, task, owner, loop, notify, wins>>

-----------------------------------------------------------------------------

Consume(p) == Poll(p) \/ PollEmpty(p) \/ IdleWait(p) \/ Wake(p) \/ Restart(p)

Handle(d) ==
    \/ Acquire(d) \/ Claim(d) \/ Succeed(d) \/ VerifyFailure(d)
    \/ EmitFailure(d) \/ Ack(d)

Next ==
    \/ \E c \in Commands : Publish(c) \/ ReapRow(c) \/ ReapClaim(c)
    \/ \E p \in Consumers : Consume(p) \/ PollCutShort(p) \/ Stop(p) \/ Crash(p)
    \/ \E d \in Deliveries : Handle(d) \/ Raise(d)

Spec == Init /\ [][Next]_vars

\* Every process polls, every task goes on, and the maintenance tick of the
\* workers runs; the engine publishes its commands.
FairSpec ==
    /\ Spec
    /\ \A c \in Commands : WF_vars(Publish(c)) /\ WF_vars(ReapRow(c))
    /\ \A p \in Consumers : WF_vars(Consume(p))
    /\ \A d \in Deliveries : WF_vars(Handle(d))

-----------------------------------------------------------------------------
(* Properties *)

\* The types of the tables and of the tasks; an answered key keeps its token,
\* and a task runs in some process.
TypeOK ==
    /\ faults \in FaultModes
    /\ row \in [Commands -> RowStatus]
    /\ claim \in [Commands -> Claims]
    /\ result \in [Commands -> SUBSET {"COMPLETED", "FAILED"}]
    /\ task \in [Deliveries -> TaskStatus]
    /\ owner \in [Deliveries -> Consumers \cup {Nobody}]
    /\ loop \in [Consumers -> LoopStatus]
    /\ notify \in [Consumers -> BOOLEAN]
    /\ mishaps \in 0 .. MaxMishaps
    /\ wins \in [Commands -> Nat]
    /\ \A c \in Commands : claim[c].emitted => claim[c].by # 0
    /\ \A d \in Deliveries : task[d] \in Live <=> owner[d] # Nobody

\* However often a command is delivered, and however late a superseded worker
\* answers, its success is written once (the claim token of _finalize_success
\* against the reapers).
SucceedsOnce == \A c \in Commands : wins[c] <= 1

\* A delivery that holds the key, or may still get it and start over.
Holder(c) == \E k \in LiveOf(c) :
    \/ task[<<c, k>>] \in {"queued", "started", "verified"}
    \/ task[<<c, k>>] = "claimed" /\ Owned(<<c, k>>)

\* At-least-once delivery: a row is settled only when a result was written or
\* somebody who will write one is at work.
NotLost ==
    \A c \in Commands :
        row[c] \in {"COMPLETED", "FAILED"} => result[c] # {} \/ Holder(c)

\* The reapers' timeouts are longer than a task, and no handler raises: what
\* the documentation asks of the configuration.
InTime == faults \cap {"stall", "raise"} = {}

\* Every command is answered, although a notification may be missed between an
\* empty poll and the wait, and processes stop.
Answered == \A c \in Commands : <>(InTime => result[c] # {})

\* The refinement: a command is reported when it has a result, and owed while
\* its row is to be taken or somebody holds it.  Without InTime it stays owed:
\* what is lost then is the subject of NotLost.
Owed ==
    {c \in Commands : \/ row[c] \in {"PENDING", "IN_PROGRESS"}
                      \/ Holder(c)
                      \/ row[c] # "none" /\ ~ InTime}
Reported == {c \in Commands : result[c] # {}}

Contract == INSTANCE CommandContract WITH owed <- Owed, reported <- Reported

\* The delivery protocol keeps the promise of the outbox: workers that stop at
\* any point, between the poll and the acknowledgement, lose no command (the
\* paired reap of row and claim).
KeepsContract == Contract!Spec

=============================================================================
