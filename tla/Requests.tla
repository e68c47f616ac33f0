------------------------------ MODULE Requests ------------------------------
\* The write requests of the engine's HTTP API that are not the state machine
\* of one saga: deploying manifests, switching definitions on and off, starting
\* sagas and the idempotency of operator recovery.  Several requests are handled
\* at once; every committed read and every transaction is a step of its own, so
\* that all the races between them are explored.
\*
\* A row of the catalogue is [state |-> "absent" | "active" | "inactive", ...].
\* PostgreSQL runs at READ COMMITTED: a statement sees what is committed, a
\* unique index decides at the insert, and a failed statement ends its
\* transaction.
EXTENDS Blueprint, Integers

CONSTANTS
    Clients,        \* requests handled at the same time
    Worlds,         \* what the catalogue holds at first and what is requested
    MaxRequests,    \* bound: requests sent in a behaviour
    MaxCrashes      \* bound: crashes of the engine process

NoKey == "no key"

\* The rows W, S and G of the three tables of definitions.  A name that is not
\* registered has a row too, its state is "absent".
RowStates == {"absent", "active", "inactive"}
Taken(rows, id) == rows[id].state # "absent"

CapFields == {"kind", "adapter", "tools", "bind", "ports", "fits", "required", "worker",
              "undo", "extras", "hitl", "guidance", "limit"}

CapFits(cap, W) ==
    /\ cap = [f \in CapFields |-> cap[f]]
    /\ {cap.worker} \cup cap.undo \subseteq DOMAIN W
    /\ cap.limit \in [Limits -> SUBSET Nat]

GraphFits(graph, S, G) ==
    /\ \A n \in Uses(graph) : n.use \in DOMAIN S /\ n.over.limit \in [Limits -> SUBSET Nat]
    /\ Spawned(graph) \subseteq DOMAIN G

\* What a deployment has checked of the graph it stores.
Deployed(graph, W, S, G) ==
    /\ \A n \in Uses(graph) :
          /\ Taken(S, n.use)
          /\ BindsPorts(S[n.use].cap, n.with) /\ Narrows(S[n.use].cap, n.over)
          /\ \A w \in {S[n.use].cap.worker} \cup S[n.use].cap.undo : Taken(W, w)
    /\ \A t \in Spawned(graph) : Taken(G, t)

CatalogFits(W, S, G) ==
    /\ \A w \in DOMAIN W : DOMAIN W[w] = {"state"} /\ W[w].state \in RowStates
    /\ \A s \in DOMAIN S :
          /\ DOMAIN S[s] = {"state", "cap"} /\ S[s].state \in RowStates
          /\ CapFits(S[s].cap, W)
          /\ Taken(S, s) => StepParses(S[s].cap)
    /\ \A g \in DOMAIN G :
          /\ DOMAIN G[g] = {"state", "graph"} /\ G[g].state \in RowStates
          /\ GraphFits(G[g].graph, S, G)
          /\ Taken(G, g) => GraphParses(G[g].graph) /\ Deployed(G[g].graph, W, S, G)

RequestFits(r, W, S, G) ==
    \/ r.op = "worker" /\ r.id \in DOMAIN W
    \/ r.op = "step" /\ r.id \in DOMAIN S /\ CapFits(r.cap, W)
    \/ r.op = "saga" /\ r.id \in DOMAIN G /\ GraphFits(r.graph, S, G)
    \/ r.op = "active" /\ \/ r.kind = "worker" /\ r.id \in DOMAIN W
                          \/ r.kind = "step" /\ r.id \in DOMAIN S
                          \/ r.kind = "saga" /\ r.id \in DOMAIN G
    \/ r.op = "start" /\ r.saga \in DOMAIN G
    \/ r.op = "recover"

\* A world is a catalogue that deployments have built, requests about names it
\* has rows for, and a target whose rows nobody has locked.
WorldFits(w) ==
    /\ DOMAIN w = {"workers", "steps", "sagas", "requests", "target"}
    /\ CatalogFits(w.workers, w.steps, w.sagas)
    /\ \A r \in w.requests : RequestFits(r, w.workers, w.steps, w.sagas)
    /\ DOMAIN w.target = {"status", "claim", "lock", "recoveries"} /\ w.target.lock = {}

ASSUME RequestsAssumption ==
    /\ MaxRequests \in Nat /\ MaxCrashes \in Nat
    /\ \A w \in Worlds : WorldFits(w)

VARIABLES
    workers,    \* worker_definitions: worker -> row
    steps,      \* step_definitions: step -> row with its capability
    sagas,      \* saga_definitions: saga -> row with its authoring graph
    instances,  \* saga_instances, in the order of creation
    target,     \* the saga and step that operators try to recover
    tokens,     \* processed_operator_recoveries
    client,     \* what each request being handled is doing
    answers,    \* the answers given so far
    sent,       \* number of requests sent
    crashes,
    requests    \* the requests of this world

vars == <<workers, steps, sagas, instances, target, tokens, client, answers, sent,
          crashes, requests>>
catalog == <<workers, steps, sagas>>

None == [op |-> "none"]
Idle == [pc |-> "idle", req |-> None, todo |-> {}, caps |-> <<>>, missing |-> {},
         inactive |-> {}, row |-> {}, off |-> {}]

Init ==
    \E w \in Worlds :
       /\ workers = w.workers /\ steps = w.steps /\ sagas = w.sagas
       /\ requests = w.requests /\ target = w.target
       /\ instances = <<>> /\ tokens = {} /\ answers = {}
       /\ client = [c \in Clients |-> Idle]
       /\ sent = 0 /\ crashes = 0

-----------------------------------------------------------------------------
\* Steps of a request.

At(c, pc) == client[c].pc = pc

Goto(c, pc) == client' = [client EXCEPT ![c].pc = pc]

\* The request ends with an answer; what it names is its value.
Answer(c, code, value) ==
    /\ answers' = answers \cup {[req |-> client[c].req, code |-> code, value |-> value]}
    /\ client' = [client EXCEPT ![c] = Idle]

\* The request ends with nothing committed.
Refuse(c, code) ==
    /\ Answer(c, code, 0)
    /\ UNCHANGED <<catalog, instances, target, tokens, sent, crashes, requests>>

Proceed(c, pc) ==
    /\ Goto(c, pc)
    /\ UNCHANGED <<catalog, instances, target, tokens, answers, sent, crashes, requests>>

First(req) ==
    CASE req.op = "worker"  -> "create"
      [] req.op = "step"    -> "step worker"
      [] req.op = "saga"    -> "load"
      [] req.op = "active"  -> "read"
      [] req.op = "start"   -> "definition"
      [] req.op = "recover" -> "token"

\* The manifest of a deployment passes the validators of its kind.
Parses(req) ==
    /\ req.op = "step" => StepParses(req.cap)
    /\ req.op = "saga" => GraphParses(req.graph)

\* Definitions that are switched off.
Off ==
    {<<"saga", s>> : s \in {t \in DOMAIN sagas : sagas[t].state = "inactive"}}
      \cup {<<"step", s>> : s \in {t \in DOMAIN steps : steps[t].state = "inactive"}}

\* A request arrives.  `off` remembers, for the property ActiveAtStart, what was
\* switched off when it did.
Send(c) ==
    /\ At(c, "idle") /\ sent < MaxRequests
    /\ \E req \in requests :
          client' = [client EXCEPT ![c] =
              [Idle EXCEPT
                  !.pc = IF Parses(req) THEN First(req) ELSE "invalid",
                  !.req = req,
                  !.todo = IF req.op = "saga" THEN {n.use : n \in Uses(req.graph)} ELSE {},
                  !.off = Off]]
    /\ sent' = sent + 1
    /\ UNCHANGED <<catalog, instances, target, tokens, answers, crashes, requests>>

Reject(c) == At(c, "invalid") /\ Refuse(c, "invalid")

-----------------------------------------------------------------------------
\* Deploying workers and steps: a version is written once.

CreateWorker(c) ==
    LET req == client[c].req
    IN  /\ At(c, "create")
        /\ \/ req.dry /\ Refuse(c, "dry")
           \/ ~ req.dry /\ Taken(workers, req.id) /\ Refuse(c, "immutable")
           \/ /\ ~ req.dry /\ ~ Taken(workers, req.id)
              /\ workers' = [workers EXCEPT ![req.id] = [state |-> "active"]]
              /\ Answer(c, "ok", 0)
              /\ UNCHANGED <<steps, sagas, instances, target, tokens, sent, crashes, requests>>

\* The worker of the step is registered and active, and its files are readable
\* (what is on disk is not modelled: reading may fail).
StepWorker(c) ==
    LET row == workers[client[c].req.cap.worker]
    IN  /\ At(c, "step worker")
        /\ \/ row.state = "absent" /\ Refuse(c, "no worker")
           \/ row.state = "inactive" /\ Refuse(c, "inactive worker")
           \/ row.state = "active" /\ Refuse(c, "assets")
           \/ /\ row.state = "active"
              /\ IF client[c].req.dry THEN Refuse(c, "dry") ELSE Proceed(c, "create step")

WriteStep(c) ==
    /\ steps' = [steps EXCEPT ![client[c].req.id] =
                    [state |-> "active", cap |-> client[c].req.cap]]
    /\ Answer(c, "ok", 0)
    /\ UNCHANGED <<workers, sagas, instances, target, tokens, sent, crashes, requests>>

CreateStep(c) ==
    /\ At(c, "create step")
    /\ IF Taken(steps, client[c].req.id) THEN Refuse(c, "immutable") ELSE WriteStep(c)

-----------------------------------------------------------------------------
\* Resolving the references of a graph, at deployment and at start: one read of
\* the catalogue per step.

LoadStep(c) ==
    /\ At(c, "load")
    /\ \E s \in client[c].todo :
          client' = [client EXCEPT
              ![c].todo = @ \ {s},
              ![c].caps = [u \in DOMAIN @ \cup {s} |-> IF u = s THEN steps[s].cap ELSE @[u]],
              ![c].missing = IF Taken(steps, s) THEN @ ELSE @ \cup {s},
              ![c].inactive = IF steps[s].state = "inactive" THEN @ \cup {s} ELSE @]
    /\ UNCHANGED <<catalog, instances, target, tokens, answers, sent, crashes, requests>>

\* All steps were read: the graph hydrates and its files are readable, or the
\* request is refused.
Linked(c, graph, next) ==
    /\ At(c, "load") /\ client[c].todo = {}
    /\ \/ client[c].missing # {} /\ Refuse(c, "no step")
       \/ client[c].missing = {} /\ client[c].inactive # {} /\ Refuse(c, "inactive step")
       \/ /\ client[c].missing \cup client[c].inactive = {}
          /\ \/ ~ Hydrates(graph, client[c].caps) /\ Refuse(c, "unhydratable")
             \/ Hydrates(graph, client[c].caps) /\ Refuse(c, "assets")
             \/ Hydrates(graph, client[c].caps) /\ Proceed(c, next)

-----------------------------------------------------------------------------
\* Deploying a saga: the graph is linked against the catalogue and stored as it
\* was written; a deployment of a known version replaces it.

\* Mutant: deployments do not check that the references fit their steps.
LinkGraphLoosely(c) ==
    /\ client[c].req.op = "saga" /\ At(c, "load") /\ client[c].todo = {}
    /\ \/ client[c].missing # {} /\ Refuse(c, "no step")
       \/ client[c].missing = {} /\ client[c].inactive # {} /\ Refuse(c, "inactive step")
       \/ client[c].missing \cup client[c].inactive = {} /\ Proceed(c, "saga workers")

LinkGraph(c) ==
    client[c].req.op = "saga" /\ Linked(c, client[c].req.graph, "saga workers")

SagaWorkers(c) ==
    LET need == Workers(client[c].req.graph, client[c].caps)
    IN  /\ At(c, "saga workers")
        /\ \/ (\E w \in need : workers[w].state = "absent") /\ Refuse(c, "no worker")
           \/ /\ \A w \in need : workers[w].state # "absent"
              /\ IF \E w \in need : workers[w].state = "inactive"
                 THEN Refuse(c, "inactive worker")
                 ELSE Proceed(c, "children")

\* Mutant: the definitions of the children are not looked up.
ChildrenAssumed(c) ==
    At(c, "children") /\ IF client[c].req.dry THEN Refuse(c, "dry") ELSE Proceed(c, "upsert")

Children(c) ==
    LET kids == Spawned(client[c].req.graph)
    IN  /\ At(c, "children")
        /\ \/ (\E s \in kids : sagas[s].state = "absent") /\ Refuse(c, "no saga")
           \/ /\ \A s \in kids : sagas[s].state # "absent"
              /\ IF \E s \in kids : sagas[s].state = "inactive"
                 THEN Refuse(c, "inactive saga")
                 ELSE IF client[c].req.dry THEN Refuse(c, "dry") ELSE Proceed(c, "upsert")

StoreGraph(c, state) ==
    /\ sagas' = [sagas EXCEPT ![client[c].req.id] =
                    [state |-> state, graph |-> client[c].req.graph]]
    /\ Answer(c, "ok", 0)
    /\ UNCHANGED <<workers, steps, instances, target, tokens, sent, crashes, requests>>

\* The row is locked and updated when there is one; the flag is left alone.
UpsertSaga(c) ==
    /\ At(c, "upsert")
    /\ IF Taken(sagas, client[c].req.id)
       THEN StoreGraph(c, sagas[client[c].req.id].state)
       ELSE Proceed(c, "insert")

\* There was none: the row is inserted.  When another deployment was faster the
\* insert violates the unique index, the transaction is over and the update that
\* was to follow in it fails as well.
InsertSaga(c) ==
    /\ At(c, "insert")
    /\ IF Taken(sagas, client[c].req.id) THEN Refuse(c, "error") ELSE StoreGraph(c, "active")

-----------------------------------------------------------------------------
\* Switching a definition on or off: a read, then an update of that one column.

RowsOf(kind) == IF kind = "worker" THEN workers ELSE IF kind = "step" THEN steps ELSE sagas

Flag(on) == IF on THEN "active" ELSE "inactive"

ReadRow(c) ==
    LET req == client[c].req
        row == RowsOf(req.kind)[req.id]
    IN  /\ At(c, "read")
        /\ \/ row.state = "absent" /\ Refuse(c, "not found")
           \/ row.state = Flag(req.on) /\ Refuse(c, "ok")
           \/ /\ row.state \notin {"absent", Flag(req.on)}
              /\ client' = [client EXCEPT ![c].pc = "write", ![c].row = {row}]
              /\ UNCHANGED <<catalog, instances, target, tokens, answers, sent, crashes, requests>>

WithFlag(rows, req) == [rows EXCEPT ![req.id].state = Flag(req.on)]

\* What is switched on again no longer counts as off for the requests under way.
Forget(c, req) ==
    client' = [d \in Clients |->
        IF d = c THEN Idle
        ELSE IF req.on THEN [client[d] EXCEPT !.off = @ \ {<<req.kind, req.id>>}]
        ELSE client[d]]

\* Mutant: the row is saved as it was read.
WriteRow(c) ==
    LET req == client[c].req
        row == CHOOSE r \in client[c].row : TRUE
    IN  /\ At(c, "write")
        /\ workers' = IF req.kind = "worker" THEN WithFlag(workers, req) ELSE workers
        /\ steps' = IF req.kind = "step" THEN WithFlag(steps, req) ELSE steps
        /\ sagas' = IF req.kind = "saga"
                    THEN [sagas EXCEPT ![req.id] = [row EXCEPT !.state = Flag(req.on)]]
                    ELSE sagas
        /\ answers' = answers \cup {[req |-> req, code |-> "ok", value |-> 0]}
        /\ Forget(c, req)
        /\ UNCHANGED <<instances, target, tokens, sent, crashes, requests>>

WriteFlag(c) ==
    LET req == client[c].req
    IN  /\ At(c, "write")
        /\ workers' = IF req.kind = "worker" THEN WithFlag(workers, req) ELSE workers
        /\ steps' = IF req.kind = "step" THEN WithFlag(steps, req) ELSE steps
        /\ sagas' = IF req.kind = "saga" THEN WithFlag(sagas, req) ELSE sagas
        /\ answers' = answers \cup {[req |-> req, code |-> "ok", value |-> 0]}
        /\ Forget(c, req)
        /\ UNCHANGED <<instances, target, tokens, sent, crashes, requests>>

-----------------------------------------------------------------------------
\* Starting a saga: the definition and the key are looked up before the
\* transaction and again in it.

\* Mutant: an inactive definition is found as well.
FindAny(c, next) ==
    LET req == client[c].req
    IN  \/ sagas[req.saga].state = "absent" /\ Refuse(c, "no saga")
        \/ /\ sagas[req.saga].state # "absent"
           /\ client' = [client EXCEPT ![c].pc = next, ![c].row = {sagas[req.saga]}]
           /\ UNCHANGED <<catalog, instances, target, tokens, answers, sent, crashes, requests>>

FindDefinition(c, next) ==
    LET req == client[c].req
    IN  \/ sagas[req.saga].state = "absent" /\ Refuse(c, "no saga")
        \/ sagas[req.saga].state = "inactive" /\ Refuse(c, "inactive saga")
        \/ /\ sagas[req.saga].state = "active"
           /\ client' = [client EXCEPT ![c].pc = next, ![c].row = {sagas[req.saga]}]
           /\ UNCHANGED <<catalog, instances, target, tokens, answers, sent, crashes, requests>>

\* Instances started under the key of a request, by any definition.
Keyed(req) ==
    {i \in DOMAIN instances : req.key # NoKey /\ instances[i].key = req.key}

Started(req) == {i \in Keyed(req) : instances[i].saga = req.saga}

\* The answer to a repeated start is the saga that exists; a key used by another
\* definition is refused.
Repeated(c) ==
    LET req == client[c].req
    IN  \/ /\ Started(req) # {}
           /\ Answer(c, "ok", CHOOSE i \in Started(req) : TRUE)
           /\ UNCHANGED <<catalog, instances, target, tokens, sent, crashes, requests>>
        \/ Started(req) = {} /\ Keyed(req) # {} /\ Refuse(c, "key conflict")

Definition(c) == At(c, "definition") /\ FindDefinition(c, "key")

Key(c) ==
    /\ At(c, "key")
    /\ Repeated(c) \/ (Keyed(client[c].req) = {} /\ Proceed(c, "tx definition"))

TxDefinition(c) == At(c, "tx definition") /\ FindDefinition(c, "tx key")

\* The graph that the transaction read.
Graph(c) == (CHOOSE r \in client[c].row : TRUE).graph

TxKey(c) ==
    /\ At(c, "tx key")
    /\ \/ Repeated(c)
       \/ /\ Keyed(client[c].req) = {}
          /\ client' = [client EXCEPT ![c].pc = "load",
                                      ![c].todo = {n.use : n \in Uses(Graph(c))}]
          /\ UNCHANGED <<catalog, instances, target, tokens, answers, sent, crashes, requests>>

Freeze(c) == client[c].req.op = "start" /\ Linked(c, Graph(c), "commit")

NewInstance(c) ==
    [saga |-> client[c].req.saga, key |-> client[c].req.key,
     frozen |-> Hydrated(Graph(c), client[c].caps)]

\* Mutant: no unique index on the key of a start.
CommitStartAlways(c) ==
    /\ At(c, "commit")
    /\ instances' = Append(instances, NewInstance(c))
    /\ Answer(c, "ok", Len(instances) + 1)
    /\ UNCHANGED <<catalog, target, tokens, sent, crashes, requests>>

\* The saga, its steps and SAGA_STARTED are committed together; the unique index
\* on (definition, key) refuses a second saga, which is an error to the caller.
CommitStart(c) ==
    /\ At(c, "commit")
    /\ IF Started(client[c].req) # {}
       THEN Refuse(c, "error")
       ELSE /\ instances' = Append(instances, NewInstance(c))
            /\ Answer(c, "ok", Len(instances) + 1)
            /\ UNCHANGED <<catalog, target, tokens, sent, crashes, requests>>

-----------------------------------------------------------------------------
\* Operator recovery under a client-supplied token.  The target is
\* [status, claim, lock, recoveries]: the saga and step as far as recovery looks
\* at it, whether a worker holds a live claim on its command, the request that
\* has its rows locked, and the number of recoveries carried out so far.  What a
\* recovery does to the rows of the saga and of its command is in SagaEngine.

DedupKey(req) == <<req.kind, req.token>>

Fingerprint(req) == <<req.kind, req.force>>

ReplayOrConflict(c, stored) ==
    IF stored.fingerprint # Fingerprint(client[c].req)
    THEN Refuse(c, "conflict")
    ELSE /\ Answer(c, "ok", stored.value)
         /\ UNCHANGED <<catalog, instances, target, tokens, sent, crashes, requests>>

\* The transaction looks for an answer stored under the token.  Locking the row
\* locks nothing when there is none.
FindToken(c) ==
    LET req == client[c].req
        stored == {t \in tokens : t.key = DedupKey(req)}
    IN  /\ At(c, "token")
        /\ \/ req.token # NoKey /\ \E t \in stored : ReplayOrConflict(c, t)
           \/ (req.token = NoKey \/ stored = {}) /\ Proceed(c, "apply")

\* What a recovery expects of the saga; an undo that failed may be retried also
\* when it has made the saga FAILED.
Expected(kind) ==
    CASE kind = "retry-step" -> {"running"}
      [] kind \in {"retry-forward", "start-compensation"} -> {"held"}
      [] kind = "retry-compensation" -> {"undoing", "failed"}

\* The rows of the saga and the step are locked, then the request is judged by
\* what they hold now.
Apply(c) ==
    LET req == client[c].req
    IN  /\ At(c, "apply") /\ target.lock = {}
        /\ \/ target.status \notin Expected(req.kind) /\ Refuse(c, "conflict")
           \/ /\ target.status \in Expected(req.kind)
              /\ target' = [target EXCEPT !.lock = {c}]
              /\ Goto(c, "save")
              /\ UNCHANGED <<catalog, instances, tokens, answers, sent, crashes, requests>>

\* A live claim is left to its worker: a forward step is answered with
\* "claim_active", an undo with an error.
Claimed(req) == target.claim /\ ~ req.force /\ req.kind # "start-compensation"

\* The recovery is carried out; the claim it found is released, or is that of
\* another command.
Recovered(req) ==
    IF Claimed(req)
    THEN [target EXCEPT !.lock = {}]
    ELSE [target EXCEPT
            !.lock = {}, !.claim = FALSE, !.recoveries = @ + 1,
            !.status = IF req.kind \in {"retry-step", "retry-forward"}
                       THEN "running" ELSE "undoing"]

\* The answer: which recovery was carried out, or 0 for "claim_active".
Outcome(req) == IF Claimed(req) THEN 0 ELSE target.recoveries + 1

Store(req) ==
    IF req.token = NoKey THEN tokens
    ELSE tokens \cup {[key |-> DedupKey(req), fingerprint |-> Fingerprint(req),
                       value |-> Outcome(req)]}

\* Mutant: the answer is stored without a unique key.
SaveAlways(c) ==
    LET req == client[c].req
    IN  /\ At(c, "save")
        /\ target' = Recovered(req) /\ tokens' = Store(req)
        /\ Answer(c, "ok", Outcome(req))
        /\ UNCHANGED <<catalog, instances, sent, crashes, requests>>

\* The answer is stored and the transaction committed.  An undo that a worker
\* has claimed, and the primary key that refuses a second answer for the token,
\* are errors: everything is rolled back.
Save(c) ==
    LET req == client[c].req
    IN  /\ At(c, "save")
        /\ IF \/ req.kind = "retry-compensation" /\ Claimed(req)
              \/ req.token # NoKey /\ \E t \in tokens : t.key = DedupKey(req)
           THEN /\ target' = [target EXCEPT !.lock = {}]
                /\ Answer(c, "error", 0)
                /\ UNCHANGED <<catalog, instances, tokens, sent, crashes, requests>>
           ELSE /\ target' = Recovered(req) /\ tokens' = Store(req)
                /\ Answer(c, "ok", Outcome(req))
                /\ UNCHANGED <<catalog, instances, sent, crashes, requests>>

\* Meanwhile a worker claims the command or its claim lapses, which no lock on
\* the saga keeps from happening, or the engine takes a reported failure, which
\* waits for the lock (SagaEngine).
WorkerActs ==
    /\ target.status # "ended"
    /\ \/ target' = [target EXCEPT !.claim = ~ @]
       \/ /\ target.lock = {} /\ target.status \in {"running", "undoing"}
          /\ target' = [target EXCEPT !.claim = FALSE,
                           !.status = IF @ = "running" THEN "held" ELSE "failed"]
    /\ UNCHANGED <<catalog, instances, tokens, client, answers, sent, crashes, requests>>

-----------------------------------------------------------------------------

\* The engine process dies: the requests under way are never answered and their
\* transactions are rolled back.
Crash ==
    /\ crashes < MaxCrashes
    /\ \E c \in Clients : ~ At(c, "idle")
    /\ crashes' = crashes + 1
    /\ client' = [c \in Clients |-> Idle]
    /\ target' = [target EXCEPT !.lock = {}]
    /\ UNCHANGED <<catalog, instances, tokens, answers, sent, requests>>

Handle(c) ==
    \/ Send(c) \/ Reject(c)
    \/ CreateWorker(c) \/ StepWorker(c) \/ CreateStep(c)
    \/ LoadStep(c) \/ LinkGraph(c) \/ SagaWorkers(c) \/ Children(c)
    \/ UpsertSaga(c) \/ InsertSaga(c)
    \/ ReadRow(c) \/ WriteFlag(c)
    \/ Definition(c) \/ Key(c) \/ TxDefinition(c) \/ TxKey(c) \/ Freeze(c) \/ CommitStart(c)
    \/ FindToken(c) \/ Apply(c) \/ Save(c)

Next == (\E c \in Clients : Handle(c)) \/ WorkerActs \/ Crash

Spec == Init /\ [][Next]_vars

-----------------------------------------------------------------------------
\* Properties.

\* Type invariant of the tables and of the requests under way.
TypeOK ==
    /\ \A w \in DOMAIN workers : workers[w].state \in {"absent", "active", "inactive"}
    /\ \A s \in DOMAIN steps : steps[s].state = "absent" \/ StepParses(steps[s].cap)
    /\ \A s \in DOMAIN sagas : sagas[s].state = "absent" \/ GraphParses(sagas[s].graph)
    /\ \A i \in DOMAIN instances : instances[i].saga \in DOMAIN sagas
    /\ target.lock \subseteq {c \in Clients : At(c, "save")}
    /\ \A c \in Clients : At(c, "save") => target.lock = {c}
    /\ sent \in 0 .. MaxRequests /\ crashes \in 0 .. MaxCrashes

\* What a deployed saga refers to is in the catalogue: its steps, the workers of
\* the steps and of their compensations, and the sagas it spawns.  Deployments check this before they
\* store the graph, with other deployments in between.
CatalogClosed ==
    \A s \in DOMAIN sagas : sagas[s].state # "absent" =>
       LET capOf == [n \in DOMAIN steps |-> steps[n].cap]
           graph == sagas[s].graph
       IN  /\ \A n \in Uses(graph) : Taken(steps, n.use)
           /\ \A w \in Workers(graph, capOf) : Taken(workers, w)
           /\ \A t \in Spawned(graph) : Taken(sagas, t)

\* A saga that was deployed can be frozen whenever it is started: a start is
\* never refused because a step is missing or no longer fits.  It rests on steps
\* being immutable while the graph is hydrated at every start.
StartsLinked ==
    \A a \in answers : a.req.op = "start" => a.code \notin {"no step", "unhydratable"}

\* The frozen steps of an instance are at least as strict as their catalogue
\* steps: review is not dropped and no guardrail is widened by an override.
TightenOnly ==
    \A i \in DOMAIN instances : \A id \in DOMAIN instances[i].frozen :
       LET f == instances[i].frozen[id] IN NoLooser(f.cap, steps[f.use].cap)

\* A key starts one saga of a definition, however many requests carry it, and
\* every accepted request is answered with that saga.
StartedOnce ==
    /\ \A i, j \in DOMAIN instances :
          /\ instances[i].saga = instances[j].saga
          /\ instances[i].key = instances[j].key /\ instances[i].key # NoKey
          => i = j
    /\ \A a \in answers : a.req.op = "start" /\ a.code = "ok" =>
          /\ instances[a.value].saga = a.req.saga
          /\ instances[a.value].key = a.req.key

\* Requests accepted under one recovery token are one recovery: they have the
\* same parameters and the same answer, so one of them was carried out, also when
\* they raced for the stored answer.
RecoveredOnce ==
    LET accepted == {a \in answers : /\ a.req.op = "recover" /\ a.code = "ok"
                                     /\ a.req.token # NoKey}
    IN  \A a, b \in accepted : DedupKey(a.req) = DedupKey(b.req) =>
           a.value = b.value /\ Fingerprint(a.req) = Fingerprint(b.req)

\* A deployment does not switch a definition on, and switching one does not undo
\* a deployment it overlaps with: the two write different columns.
SeparateWrites ==
    [][\A s \in DOMAIN sagas : sagas[s].state # "absent" =>
          \/ sagas'[s].graph = sagas[s].graph
          \/ sagas'[s].state = sagas[s].state]_vars

Needs(c) ==
    {<<"saga", client[c].req.saga>>} \cup {<<"step", n.use>> : n \in Uses(Graph(c))}

\* A request that arrived after the definition, or a step it uses, was switched
\* off starts nothing (unless it is switched on again meanwhile).
ActiveAtStart ==
    [][\A c \in Clients : At(c, "commit") /\ client'[c] # client[c] /\ instances' # instances
          => client[c].off \cap Needs(c) = {}]_vars

\* A start key belongs to one definition of the namespace: reusing it for
\* another is refused (docs/guides/api/start-and-monitor.md).
KeyNamesOneSaga ==
    \A i, j \in DOMAIN instances :
       instances[i].key = instances[j].key /\ instances[i].key # NoKey
       => instances[i].saga = instances[j].saga
=============================================================================
