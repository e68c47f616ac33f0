--------------------------- MODULE RequestsProofs ---------------------------
\* Theorems about Requests, for any number of requests handled at once and any
\* catalogue, with every race between their reads and their transactions.
EXTENDS Requests, TLAPS

-----------------------------------------------------------------------------
\* Hydration.

\* A graph hydrates alike wherever the steps it uses have the same capability.
LEMMA HydratesAlike ==
    ASSUME NEW graph, NEW f, NEW g, \A n \in Uses(graph) : f[n.use] = g[n.use]
    PROVE  /\ Hydrates(graph, f) <=> Hydrates(graph, g)
           /\ Workers(graph, f) = Workers(graph, g)
  BY DEF Hydrates, Workers

\* An override that is accepted leaves every other field of the step alone and
\* makes no guardrail looser (the tighten-only checks of hydration).
LEMMA TightenNarrows ==
    ASSUME NEW cap, NEW over, cap = [f \in CapFields |-> cap[f]],
           cap.limit \in [Limits -> SUBSET Nat], over.limit \in [Limits -> SUBSET Nat],
           Narrows(cap, over)
    PROVE  NoLooser(Tighten(cap, over), cap)
  <1> DEFINE t == Tighten(cap, over)
             back == [t EXCEPT !.hitl = cap.hitl, !.guidance = cap.guidance,
                               !.limit = cap.limit]
  <1>1. /\ t = [f \in CapFields |-> t[f]] /\ DOMAIN t = CapFields
        /\ t.hitl = HitlAfter(cap, over)
        /\ t.limit = [l \in Limits |-> IF over.limit[l] = {} THEN cap.limit[l] ELSE over.limit[l]]
        /\ \A f \in CapFields \ {"hitl", "guidance", "limit"} : t[f] = cap[f]
    BY DEF Tighten, CapFields
  <1> HIDE DEF t
  <1>2. back = [f \in CapFields |-> back[f]] /\ \A f \in CapFields : back[f] = cap[f]
    BY <1>1 DEF CapFields
  <1>3. back = cap
    BY <1>2
  <1>4. cap.hitl => t.hitl
    BY <1>1 DEF HitlAfter
  <1>5. ASSUME NEW l \in Limits, NEW k \in cap.limit[l]
        PROVE  \E f \in t.limit[l] : f <= k
    <2>1. k \in Nat
      BY <1>5
    <2>2. CASE over.limit[l] = {}
      BY <1>1, <2>1, <2>2
    <2>3. CASE over.limit[l] # {}
      BY <1>1, <2>3 DEF Narrows, LimitsNarrow
    <2>4. QED
      BY <2>2, <2>3
  <1>6. QED
    BY <1>3, <1>4, <1>5 DEF NoLooser, t

\* Every frozen step comes from a reference of the graph.
LEMMA FrozenFrom ==
    ASSUME NEW graph, NEW capOf, NEW id \in DOMAIN Hydrated(graph, capOf)
    PROVE  \E n \in Uses(graph) :
              Hydrated(graph, capOf)[id]
                = [use |-> n.use, cap |-> Tighten(capOf[n.use], n.over)]
  <1>1. \E n \in Uses(graph) : n.id = id
    BY DEF Hydrated
  <1> DEFINE ref == CHOOSE n \in Uses(graph) : n.id = id
  <1>2. ref \in Uses(graph)
    BY <1>1
  <1>3. Hydrated(graph, capOf)[id] = [use |-> ref.use, cap |-> Tighten(capOf[ref.use], ref.over)]
    BY DEF Hydrated
  <1>4. QED
    BY <1>2, <1>3

-----------------------------------------------------------------------------
\* The inductive invariant: the tables and the requests under way.

ClientFields == {"pc", "req", "todo", "caps", "missing", "inactive", "row", "off"}

\* The steps of each kind of request.
Stage(pc, op) ==
    \/ pc = "invalid"
    \/ op = "worker" /\ pc = "create"
    \/ op = "step" /\ pc \in {"step worker", "create step"}
    \/ op = "saga" /\ pc \in {"load", "saga workers", "children", "upsert", "insert"}
    \/ op = "active" /\ pc \in {"read", "write"}
    \/ op = "start" /\ pc \in {"definition", "key", "tx definition", "tx key", "load", "commit"}
    \/ op = "recover" /\ pc \in {"token", "apply", "save"}

\* What each step of a deployment has established of its graph.
StepsFit(graph) ==
    \A n \in Uses(graph) :
       /\ Taken(steps, n.use)
       /\ BindsPorts(steps[n.use].cap, n.with) /\ Narrows(steps[n.use].cap, n.over)

WorkersFit(graph) ==
    \A n \in Uses(graph) :
       \A w \in {steps[n.use].cap.worker} \cup steps[n.use].cap.undo : Taken(workers, w)

ChildrenFit(graph) == \A t \in Spawned(graph) : Taken(sagas, t)

\* The steps that were read are held as the catalogue has them for good, or are
\* known to be missing.
Resolving(c, graph) ==
    /\ client[c].todo \subseteq {n.use : n \in Uses(graph)}
    /\ \A n \in Uses(graph) : n.use \notin client[c].todo =>
          /\ n.use \in DOMAIN client[c].caps
          /\ n.use \notin client[c].missing =>
                Taken(steps, n.use) /\ client[c].caps[n.use] = steps[n.use].cap

Resolved(c, graph) ==
    \A n \in Uses(graph) : client[c].caps[n.use] = steps[n.use].cap

ClientOK(c) ==
    /\ DOMAIN client[c] = ClientFields
    /\ ~ At(c, "idle") => /\ client[c].req \in requests
                          /\ Stage(client[c].pc, client[c].req.op)
                          /\ At(c, "invalid") \/ Parses(client[c].req)

DeployOK(c) ==
    client[c].req.op = "saga" =>
       LET graph == client[c].req.graph
       IN  /\ At(c, "load") => Resolving(c, graph)
           /\ client[c].pc \in {"saga workers", "children", "upsert", "insert"}
                => StepsFit(graph) /\ Resolved(c, graph)
           /\ client[c].pc \in {"children", "upsert", "insert"} => WorkersFit(graph)
           /\ client[c].pc \in {"upsert", "insert"} => ChildrenFit(graph)

\* A start holds the graph of a saga that was deployed, so its steps are there
\* and fit.
StartOK(c) ==
    client[c].req.op = "start" =>
       /\ client[c].pc \in {"tx key", "load", "commit"}
            => StepsFit(Graph(c)) /\ GraphFits(Graph(c), steps, sagas)
       /\ client[c].missing = {}
       /\ At(c, "load") => Resolving(c, Graph(c))
       /\ At(c, "commit") => Resolved(c, Graph(c))

\* A definition that is being switched was found.
SwitchOK(c) == At(c, "write") => Taken(RowsOf(client[c].req.kind), client[c].req.id)

RequestsOK == \A r \in requests : RequestFits(r, workers, steps, sagas)

CatalogOK == CatalogFits(workers, steps, sagas)

ClientsOK ==
    /\ DOMAIN client = Clients
    /\ \A c \in Clients : ClientOK(c) /\ DeployOK(c) /\ StartOK(c) /\ SwitchOK(c)

LinkInv == RequestsOK /\ CatalogOK /\ ClientsOK

\* The catalogue only grows: what is registered stays, and a step is immutable.
Grows ==
    /\ DOMAIN workers' = DOMAIN workers
    /\ DOMAIN steps' = DOMAIN steps
    /\ DOMAIN sagas' = DOMAIN sagas
    /\ \A w \in DOMAIN workers : Taken(workers, w) => Taken(workers', w)
    /\ \A s \in DOMAIN steps :
          Taken(steps, s) => Taken(steps', s) /\ steps'[s].cap = steps[s].cap
    /\ \A g \in DOMAIN sagas : Taken(sagas, g) => Taken(sagas', g)

\* What a deployment has established, stays.
LEMMA FitStays ==
    ASSUME CatalogOK, Grows, NEW graph, GraphFits(graph, steps, sagas)
    PROVE  /\ StepsFit(graph) => StepsFit(graph)'
           /\ StepsFit(graph) /\ WorkersFit(graph) => WorkersFit(graph)'
           /\ ChildrenFit(graph) => ChildrenFit(graph)'
           /\ GraphFits(graph, steps, sagas)'
  BY DEF CatalogOK, CatalogFits, CapFits, Grows, GraphFits, StepsFit, WorkersFit, ChildrenFit, Taken

\* The two forms of what a deployment checks.
LEMMA DeployedFits ==
    ASSUME NEW graph
    PROVE  Deployed(graph, workers, steps, sagas)
             <=> StepsFit(graph) /\ WorkersFit(graph) /\ ChildrenFit(graph)
  BY DEF Deployed, StepsFit, WorkersFit, ChildrenFit

-----------------------------------------------------------------------------
\* Writes to the catalogue.

\* A write keeps the catalogue in order when rows keep their shape and every
\* graph is an old one or one whose deployment has checked it.
LEMMA CatalogStep ==
    ASSUME CatalogOK, Grows,
           \A w \in DOMAIN workers : DOMAIN workers'[w] = {"state"} /\ workers'[w].state \in RowStates,
           \A s \in DOMAIN steps :
              /\ DOMAIN steps'[s] = {"state", "cap"} /\ steps'[s].state \in RowStates
              /\ CapFits(steps'[s].cap, workers)
              /\ Taken(steps', s) => StepParses(steps'[s].cap),
           \A g \in DOMAIN sagas :
              /\ DOMAIN sagas'[g] = {"state", "graph"} /\ sagas'[g].state \in RowStates
              /\ \/ /\ sagas'[g].graph = sagas[g].graph
                    /\ Taken(sagas', g) => Taken(sagas, g)
                 \/ LET graph == sagas'[g].graph
                    IN  /\ GraphParses(graph) /\ GraphFits(graph, steps, sagas)
                        /\ StepsFit(graph) /\ WorkersFit(graph) /\ ChildrenFit(graph)
    PROVE  CatalogOK'
  <1>1. \A s \in DOMAIN steps : CapFits(steps'[s].cap, workers')
    BY DEF CapFits, Grows
  <1>2. ASSUME NEW g \in DOMAIN sagas
        PROVE  /\ GraphFits(sagas'[g].graph, steps', sagas')
               /\ Taken(sagas', g) => /\ GraphParses(sagas'[g].graph)
                                      /\ Deployed(sagas'[g].graph, workers', steps', sagas')
    <2> DEFINE graph == sagas'[g].graph
    <2>1. /\ GraphFits(graph, steps, sagas)
          /\ Taken(sagas', g) => /\ GraphParses(graph)
                                 /\ StepsFit(graph) /\ WorkersFit(graph) /\ ChildrenFit(graph)
      BY DeployedFits DEF CatalogOK, CatalogFits
    <2> HIDE DEF graph
    <2>2. /\ GraphFits(graph, steps', sagas')
          /\ StepsFit(graph) /\ WorkersFit(graph) /\ ChildrenFit(graph)
             => Deployed(graph, workers', steps', sagas')
      <3>1. GraphFits(graph, steps', sagas')
        BY <2>1 DEF Grows, GraphFits
      <3>2. ASSUME StepsFit(graph), WorkersFit(graph), ChildrenFit(graph)
            PROVE  Deployed(graph, workers', steps', sagas')
        BY <2>1, <3>2
        DEF Deployed, CatalogOK, CatalogFits, CapFits, Grows, GraphFits, StepsFit, WorkersFit,
            ChildrenFit
      <3>3. QED
        BY <3>1, <3>2
    <2>3. QED
      BY <2>1, <2>2 DEF graph
  <1>3. QED
    BY <1>1, <1>2 DEF CatalogOK, CatalogFits, Grows

\* The shape of the tables.
LEMMA Shapes ==
    ASSUME CatalogOK
    PROVE  /\ \A w \in DOMAIN workers :
                 DOMAIN workers[w] = {"state"} /\ workers[w].state \in RowStates
           /\ \A s \in DOMAIN steps :
                 /\ DOMAIN steps[s] = {"state", "cap"} /\ steps[s].state \in RowStates
                 /\ CapFits(steps[s].cap, workers)
                 /\ Taken(steps, s) => StepParses(steps[s].cap)
           /\ \A g \in DOMAIN sagas :
                 DOMAIN sagas[g] = {"state", "graph"} /\ sagas[g].state \in RowStates
  BY DEF CatalogOK, CatalogFits

\* A worker is registered once.
LEMMA WorkerWritten ==
    ASSUME CatalogOK, NEW id \in DOMAIN workers,
           workers' = [workers EXCEPT ![id] = [state |-> "active"]], UNCHANGED <<steps, sagas>>
    PROVE  Grows /\ CatalogOK'
  <1>1. Grows
    BY DEF Grows, Taken
  <1>2. \A w \in DOMAIN workers : DOMAIN workers'[w] = {"state"} /\ workers'[w].state \in RowStates
    BY Shapes DEF RowStates
  <1>3. QED
    BY <1>1, <1>2, Shapes, CatalogStep

\* A step is written under a name that is free.
LEMMA StepWritten ==
    ASSUME CatalogOK, NEW id \in DOMAIN steps, ~ Taken(steps, id), NEW cap,
           CapFits(cap, workers), StepParses(cap),
           steps' = [steps EXCEPT ![id] = [state |-> "active", cap |-> cap]],
           UNCHANGED <<workers, sagas>>
    PROVE  Grows /\ CatalogOK'
  <1>1. Grows
    BY DEF Grows, Taken
  <1>2. ASSUME NEW s \in DOMAIN steps
        PROVE  /\ DOMAIN steps'[s] = {"state", "cap"} /\ steps'[s].state \in RowStates
               /\ CapFits(steps'[s].cap, workers)
               /\ Taken(steps', s) => StepParses(steps'[s].cap)
    <2>1. CASE s = id
      BY <2>1 DEF RowStates
    <2>2. CASE s # id
      <3>1. steps'[s] = steps[s]
        BY <2>2
      <3>2. QED
        BY <3>1, Shapes DEF Taken
    <2>3. QED
      BY <2>1, <2>2
  <1>3. QED
    BY <1>1, <1>2, Shapes, CatalogStep

\* A saga is written when its graph was checked against the catalogue.
LEMMA SagaWritten ==
    ASSUME CatalogOK, NEW id \in DOMAIN sagas, NEW state \in RowStates \ {"absent"}, NEW graph,
           GraphParses(graph), GraphFits(graph, steps, sagas),
           StepsFit(graph), WorkersFit(graph), ChildrenFit(graph),
           sagas' = [sagas EXCEPT ![id] = [state |-> state, graph |-> graph]],
           UNCHANGED <<workers, steps>>
    PROVE  Grows /\ CatalogOK'
  <1>1. Grows
    BY DEF Grows, Taken
  <1>2. ASSUME NEW g \in DOMAIN sagas
        PROVE  \/ g = id /\ sagas'[g] = [state |-> state, graph |-> graph]
               \/ g # id /\ sagas'[g] = sagas[g]
    OBVIOUS
  <1>3. ASSUME NEW g \in DOMAIN sagas
        PROVE  /\ DOMAIN sagas'[g] = {"state", "graph"} /\ sagas'[g].state \in RowStates
               /\ \/ /\ sagas'[g].graph = sagas[g].graph
                     /\ Taken(sagas', g) => Taken(sagas, g)
                  \/ sagas'[g].graph = graph
    <2>1. CASE g = id
      BY <1>2, <2>1
    <2>2. CASE g # id
      BY <1>2, <2>2, Shapes DEF Taken
    <2>3. QED
      BY <2>1, <2>2
  <1>4. QED
    <2>1. ASSUME NEW g \in DOMAIN sagas, sagas'[g].graph = graph
          PROVE  LET new == sagas'[g].graph
                 IN  /\ GraphParses(new) /\ GraphFits(new, steps, sagas)
                     /\ StepsFit(new) /\ WorkersFit(new) /\ ChildrenFit(new)
      BY <2>1
    <2>2. QED
      BY <1>1, <1>3, <2>1, Shapes, CatalogStep

\* A switch changes the flag of one row that is there.
LEMMA FlagWritten ==
    ASSUME CatalogOK, NEW req, RequestFits(req, workers, steps, sagas), req.op = "active",
           Taken(RowsOf(req.kind), req.id),
           workers' = IF req.kind = "worker" THEN WithFlag(workers, req) ELSE workers,
           steps' = IF req.kind = "step" THEN WithFlag(steps, req) ELSE steps,
           sagas' = IF req.kind = "saga" THEN WithFlag(sagas, req) ELSE sagas
    PROVE  Grows /\ CatalogOK'
  <1>1. Flag(req.on) \in {"active", "inactive"}
    BY DEF Flag
  <1>2. CASE req.kind = "worker"
    <2>1. \A w \in DOMAIN workers :
             /\ DOMAIN workers'[w] = {"state"} /\ workers'[w].state \in RowStates
             /\ Taken(workers, w) => Taken(workers', w)
      BY <1>1, <1>2, Shapes DEF WithFlag, RowStates, Taken
    <2>2. DOMAIN workers' = DOMAIN workers /\ UNCHANGED <<steps, sagas>>
      BY <1>2 DEF WithFlag
    <2>3. Grows
      BY <2>1, <2>2 DEF Grows
    <2>4. QED
      BY <2>1, <2>2, <2>3, Shapes, CatalogStep
  <1>3. CASE req.kind = "step"
    <2>1. \A s \in DOMAIN steps :
             /\ DOMAIN steps'[s] = {"state", "cap"} /\ steps'[s].state \in RowStates
             /\ steps'[s].cap = steps[s].cap
             /\ Taken(steps, s) <=> Taken(steps', s)
      BY <1>1, <1>3, Shapes DEF WithFlag, RowStates, Taken, RowsOf
    <2>2. DOMAIN steps' = DOMAIN steps /\ UNCHANGED <<workers, sagas>>
      BY <1>3 DEF WithFlag
    <2>3. Grows
      BY <2>1, <2>2 DEF Grows
    <2>4. QED
      BY <2>1, <2>2, <2>3, Shapes, CatalogStep
  <1>4. CASE req.kind = "saga"
    <2>1. \A g \in DOMAIN sagas :
             /\ DOMAIN sagas'[g] = {"state", "graph"} /\ sagas'[g].state \in RowStates
             /\ sagas'[g].graph = sagas[g].graph
             /\ Taken(sagas, g) <=> Taken(sagas', g)
      BY <1>1, <1>4, Shapes DEF WithFlag, RowStates, Taken, RowsOf
    <2>2. DOMAIN sagas' = DOMAIN sagas /\ UNCHANGED <<workers, steps>>
      BY <1>4 DEF WithFlag
    <2>3. Grows
      BY <2>1, <2>2 DEF Grows
    <2>4. QED
      BY <2>1, <2>2, <2>3, Shapes, CatalogStep
  <1>5. QED
    BY <1>2, <1>3, <1>4 DEF RequestFits

-----------------------------------------------------------------------------
\* The requests under way.

\* A request that another one does not touch, except that a definition which is
\* switched on again is off no more.
Still(d) ==
    /\ DOMAIN client'[d] = DOMAIN client[d]
    /\ client'[d].pc = client[d].pc /\ client'[d].req = client[d].req
    /\ client'[d].todo = client[d].todo /\ client'[d].caps = client[d].caps
    /\ client'[d].missing = client[d].missing /\ client'[d].inactive = client[d].inactive
    /\ client'[d].row = client[d].row

ClientLinked(c) == ClientOK(c) /\ DeployOK(c) /\ StartOK(c) /\ SwitchOK(c)

\* What a request knows of the catalogue stays true while others write to it.
LEMMA Bystander ==
    ASSUME RequestsOK, CatalogOK, Grows, UNCHANGED requests, NEW d \in Clients,
           ClientLinked(d), Still(d)
    PROVE  ClientLinked(d)'
  <1> USE DEF ClientLinked
  <1>1. ClientOK(d)'
    BY DEF ClientOK, Still, At
  <1>2. DeployOK(d)'
    <2> SUFFICES ASSUME client[d].req.op = "saga", ~ At(d, "idle") PROVE DeployOK(d)'
      BY DEF DeployOK, Still, At
    <2>1. PICK graph : graph = client[d].req.graph
      OBVIOUS
    <2>2. GraphFits(graph, steps, sagas)
      BY <2>1 DEF ClientOK, RequestsOK, RequestFits
    <2>3. /\ StepsFit(graph) => StepsFit(graph)'
          /\ StepsFit(graph) /\ WorkersFit(graph) => WorkersFit(graph)'
          /\ ChildrenFit(graph) => ChildrenFit(graph)'
      BY <2>2, FitStays
    <2>4. Resolving(d, graph) => Resolving(d, graph)'
      BY <2>2 DEF Resolving, Still, Grows, GraphFits
    <2>5. StepsFit(graph) /\ Resolved(d, graph) => Resolved(d, graph)'
      BY <2>2 DEF Resolved, StepsFit, Still, Grows, GraphFits
    <2>6. client'[d].req.graph = graph
      BY <2>1 DEF Still
    <2>7. QED
      BY <2>1, <2>3, <2>4, <2>5, <2>6 DEF DeployOK, Still, At
  <1>3. StartOK(d)'
    <2> SUFFICES ASSUME client[d].req.op = "start",
                        client[d].pc \in {"tx key", "load", "commit"}
                 PROVE  StartOK(d)'
      BY DEF StartOK, Still, At
    <2>1. PICK graph : graph = Graph(d)
      OBVIOUS
    <2>2. Graph(d)' = graph
      BY <2>1 DEF Graph, Still
    <2>3. GraphFits(graph, steps, sagas) /\ StepsFit(graph)
      BY <2>1 DEF StartOK
    <2>4. StepsFit(graph)' /\ GraphFits(graph, steps, sagas)'
      BY <2>3, FitStays
    <2>5. Resolving(d, graph) => Resolving(d, graph)'
      BY <2>3 DEF Resolving, Still, Grows, GraphFits
    <2>6. Resolved(d, graph) => Resolved(d, graph)'
      BY <2>3 DEF Resolved, StepsFit, Still, Grows, GraphFits
    <2>7. QED
      BY <2>1, <2>2, <2>4, <2>5, <2>6 DEF StartOK, Still, At
  <1>4. SwitchOK(d)'
    <2> SUFFICES ASSUME At(d, "write") PROVE SwitchOK(d)'
      BY DEF SwitchOK, Still, At
    <2>1. PICK req : req = client[d].req
      OBVIOUS
    <2>2. /\ RequestFits(req, workers, steps, sagas) /\ req.op = "active"
          /\ Taken(RowsOf(req.kind), req.id)
      BY <2>1 DEF ClientOK, RequestsOK, SwitchOK, At, Stage
    <2>3. Taken(RowsOf(req.kind), req.id)'
      BY <2>2 DEF RequestFits, RowsOf, Grows
    <2>4. QED
      BY <2>1, <2>3 DEF SwitchOK, Still, At
  <1>5. QED
    BY <1>1, <1>2, <1>3, <1>4

\* A request that has ended is idle.
LEMMA EndedLinked ==
    ASSUME NEW c \in Clients, client'[c] = Idle
    PROVE  ClientLinked(c)'
  <1>1. /\ client'[c].pc = "idle" /\ client'[c].req = None /\ DOMAIN client'[c] = ClientFields
    BY DEF Idle, ClientFields
  <1>2. QED
    BY <1>1 DEF ClientLinked, ClientOK, DeployOK, StartOK, SwitchOK, At, None

\* A step of one request keeps the invariant when it does for that request.
LEMMA OneMoves ==
    ASSUME LinkInv, Grows, CatalogOK', UNCHANGED requests, NEW c \in Clients,
           DOMAIN client' = Clients, ClientLinked(c)', \A d \in Clients \ {c} : Still(d)
    PROVE  LinkInv'
  <1>1. RequestsOK'
    BY DEF LinkInv, RequestsOK, RequestFits, CapFits, GraphFits, Grows
  <1>2. \A d \in Clients : ClientLinked(d)'
    BY Bystander DEF LinkInv, ClientsOK, ClientLinked
  <1>3. QED
    BY <1>1, <1>2 DEF LinkInv, ClientsOK, ClientLinked

\* The same for a step that writes nothing to the catalogue.
LEMMA QuietMove ==
    ASSUME LinkInv, UNCHANGED <<workers, steps, sagas, requests>>, NEW c \in Clients, NEW v,
           client' = [client EXCEPT ![c] = v], ClientLinked(c)'
    PROVE  LinkInv' /\ Grows
  <1>1. Grows
    BY DEF Grows
  <1>2. CatalogOK'
    BY DEF LinkInv, CatalogOK
  <1>3. DOMAIN client' = Clients /\ \A d \in Clients \ {c} : Still(d)
    BY DEF LinkInv, ClientsOK, Still
  <1>4. QED
    BY <1>1, <1>2, <1>3, OneMoves

\* A request that ends without a write to the catalogue.
LEMMA QuietEnd ==
    ASSUME LinkInv, UNCHANGED <<workers, steps, sagas, requests>>, NEW c \in Clients,
           client' = [client EXCEPT ![c] = Idle]
    PROVE  LinkInv' /\ Grows
  <1>1. client'[c] = Idle
    BY DEF LinkInv, ClientsOK
  <1>2. QED
    BY <1>1, EndedLinked, QuietMove

\* A refusal is such an end.
LEMMA RefusalEnds ==
    ASSUME LinkInv, NEW c \in Clients, NEW code, Refuse(c, code)
    PROVE  LinkInv' /\ Grows
  BY QuietEnd DEF Refuse, Answer, catalog

\* A step that moves on and changes nothing else.
LEMMA ProceedMoves ==
    ASSUME LinkInv, NEW c \in Clients, NEW pc, Proceed(c, pc),
           Stage(pc, client[c].req.op), pc \notin {"load", "invalid", "tx key", "write"},
           ~ At(c, "idle"), ~ At(c, "invalid"),
           client[c].req.op = "saga" =>
              LET graph == client[c].req.graph
              IN  /\ pc \in {"saga workers", "children", "upsert", "insert"}
                       => StepsFit(graph) /\ Resolved(c, graph)
                  /\ pc \in {"children", "upsert", "insert"} => WorkersFit(graph)
                  /\ pc \in {"upsert", "insert"} => ChildrenFit(graph),
           client[c].req.op = "start" /\ pc = "commit" =>
              /\ StepsFit(Graph(c)) /\ GraphFits(Graph(c), steps, sagas)
              /\ Resolved(c, Graph(c))
    PROVE  LinkInv' /\ Grows
  <1>1. /\ UNCHANGED <<workers, steps, sagas, requests>>
        /\ client' = [client EXCEPT ![c] = [client[c] EXCEPT !.pc = pc]]
    BY DEF Proceed, Goto, catalog, LinkInv, ClientsOK
  <1>2. ClientOK(c) /\ StartOK(c) /\ DOMAIN client = Clients
    BY DEF LinkInv, ClientsOK
  <1>3. /\ DOMAIN client'[c] = ClientFields /\ client'[c].pc = pc
        /\ client'[c].req = client[c].req /\ client'[c].missing = client[c].missing
        /\ client'[c].caps = client[c].caps /\ client'[c].row = client[c].row
    BY <1>1, <1>2 DEF ClientOK, ClientFields
  <1>4. ClientOK(c)'
    <2>1. client[c].req \in requests /\ Parses(client[c].req)
      BY <1>2 DEF ClientOK
    <2>2. requests' = requests
      BY <1>1
    <2>3. QED
      BY <1>3, <2>1, <2>2 DEF ClientOK, At
  <1>5. DeployOK(c)'
    BY <1>1, <1>3 DEF DeployOK, At, StepsFit, WorkersFit, ChildrenFit, Resolved
  <1>6. Graph(c)' = Graph(c)
    BY <1>3 DEF Graph
  <1>7. StartOK(c)'
    BY <1>1, <1>2, <1>3, <1>6 DEF StartOK, At, StepsFit, Resolved
  <1>8. SwitchOK(c)'
    BY <1>3 DEF SwitchOK, At
  <1>9. QED
    BY <1>1, <1>4, <1>5, <1>7, <1>8, QuietMove DEF ClientLinked

\* A request arrives.
LEMMA SendLinked ==
    ASSUME LinkInv, NEW c \in Clients, Send(c)
    PROVE  LinkInv' /\ Grows
  <1>1. PICK req \in requests :
           client' = [client EXCEPT ![c] =
              [Idle EXCEPT
                  !.pc = IF Parses(req) THEN First(req) ELSE "invalid",
                  !.req = req,
                  !.todo = IF req.op = "saga" THEN {n.use : n \in Uses(req.graph)} ELSE {},
                  !.off = Off]]
    BY DEF Send
  <1>2. UNCHANGED <<workers, steps, sagas, requests>>
    BY DEF Send, catalog
  <1>3. c \in DOMAIN client
    BY DEF LinkInv, ClientsOK
  <1>4. /\ DOMAIN client'[c] = ClientFields
        /\ client'[c].pc = IF Parses(req) THEN First(req) ELSE "invalid"
        /\ client'[c].req = req /\ client'[c].missing = {}
        /\ client'[c].todo = IF req.op = "saga" THEN {n.use : n \in Uses(req.graph)} ELSE {}
    BY <1>1, <1>3 DEF Idle, ClientFields
  <1>5. RequestFits(req, workers, steps, sagas)
    BY DEF LinkInv, RequestsOK
  <1>6. /\ Stage(First(req), req.op)
        /\ First(req) \in {"create", "step worker", "load", "read", "definition", "token"}
        /\ First(req) = "load" => req.op = "saga"
    BY <1>5 DEF RequestFits, First, Stage
  <1>7. ClientOK(c)'
    <2>1. Stage("invalid", req.op) /\ requests' = requests
      BY <1>2 DEF Stage
    <2>2. QED
      BY <1>4, <1>6, <2>1 DEF ClientOK, At
  <1>8. DeployOK(c)'
    BY <1>4, <1>6 DEF DeployOK, At, Resolving
  <1>9. StartOK(c)' /\ SwitchOK(c)'
    BY <1>4, <1>6 DEF StartOK, SwitchOK, At
  <1>10. QED
    BY <1>1, <1>2, <1>7, <1>8, <1>9, QuietMove DEF ClientLinked

\* Deploying a worker or a step.
LEMMA DefineLinked ==
    ASSUME LinkInv, NEW c \in Clients, CreateWorker(c) \/ StepWorker(c) \/ CreateStep(c)
    PROVE  LinkInv' /\ Grows
  <1>1. PICK req : req = client[c].req
    OBVIOUS
  <1>2. /\ DOMAIN client = Clients /\ CatalogOK /\ ~ At(c, "idle") /\ ~ At(c, "invalid")
        /\ RequestFits(req, workers, steps, sagas) /\ Parses(req)
        /\ Stage(client[c].pc, req.op)
    BY <1>1 DEF LinkInv, ClientsOK, ClientOK, RequestsOK, CreateWorker, StepWorker, CreateStep, At
  <1>3. CASE \E code : Refuse(c, code)
    BY <1>3, RefusalEnds
  <1>4. CASE /\ CreateWorker(c) /\ workers' = [workers EXCEPT ![req.id] = [state |-> "active"]]
             /\ Answer(c, "ok", 0) /\ UNCHANGED <<steps, sagas, requests>>
    <2>1. req.id \in DOMAIN workers
      BY <1>2, <1>4 DEF RequestFits, Stage, CreateWorker, At
    <2>2. Grows /\ CatalogOK'
      BY <1>2, <1>4, <2>1, WorkerWritten
    <2>3. client' = [client EXCEPT ![c] = Idle]
      BY <1>4 DEF Answer
    <2>4. client'[c] = Idle /\ DOMAIN client' = Clients /\ \A d \in Clients \ {c} : Still(d)
      BY <1>2, <2>3 DEF Still
    <2>5. QED
      BY <1>4, <2>2, <2>4, EndedLinked, OneMoves
  <1>5. CASE StepWorker(c) /\ Proceed(c, "create step")
    <2>1. req.op = "step"
      BY <1>2, <1>5 DEF StepWorker, At, Stage
    <2>2. Stage("create step", req.op)
      BY <2>1 DEF Stage
    <2>3. QED
      BY <1>1, <1>2, <1>5, <2>1, <2>2, ProceedMoves
  <1>6. CASE CreateStep(c) /\ ~ Taken(steps, req.id) /\ WriteStep(c)
    <2>1. req.op = "step"
      BY <1>2, <1>6 DEF CreateStep, At, Stage
    <2>2. req.id \in DOMAIN steps /\ CapFits(req.cap, workers) /\ StepParses(req.cap)
      BY <1>2, <2>1 DEF RequestFits, Parses
    <2>3. /\ steps' = [steps EXCEPT ![req.id] = [state |-> "active", cap |-> req.cap]]
          /\ UNCHANGED <<workers, sagas>> /\ UNCHANGED requests
          /\ client' = [client EXCEPT ![c] = Idle]
      BY <1>1, <1>6 DEF WriteStep, Answer
    <2>4. Grows /\ CatalogOK'
      BY <1>2, <1>6, <2>2, <2>3, StepWritten
    <2>5. client'[c] = Idle /\ DOMAIN client' = Clients /\ \A d \in Clients \ {c} : Still(d)
      BY <1>2, <2>3 DEF Still
    <2>6. QED
      BY <2>3, <2>4, <2>5, EndedLinked, OneMoves
  <1>7. QED
    BY <1>1, <1>3, <1>4, <1>5, <1>6 DEF CreateWorker, StepWorker, CreateStep

\* The fields of a request after one step was read.
LEMMA LoadFields ==
    ASSUME LinkInv, NEW c \in Clients, LoadStep(c)
    PROVE  \E s \in client[c].todo :
              /\ DOMAIN client'[c] = ClientFields
              /\ client'[c].pc = "load" /\ client'[c].req = client[c].req
              /\ client'[c].row = client[c].row /\ client'[c].off = client[c].off
              /\ client'[c].todo = client[c].todo \ {s}
              /\ client'[c].caps = [u \in DOMAIN client[c].caps \cup {s} |->
                                       IF u = s THEN steps[s].cap ELSE client[c].caps[u]]
              /\ client'[c].missing = IF Taken(steps, s) THEN client[c].missing
                                      ELSE client[c].missing \cup {s}
              /\ client'[c].inactive = IF steps[s].state = "inactive"
                                       THEN client[c].inactive \cup {s}
                                       ELSE client[c].inactive
  <1>1. DOMAIN client = Clients /\ DOMAIN client[c] = ClientFields
    BY DEF LinkInv, ClientsOK, ClientOK
  <1>2. PICK s \in client[c].todo :
           client' = [client EXCEPT
              ![c].todo = @ \ {s},
              ![c].caps = [u \in DOMAIN @ \cup {s} |-> IF u = s THEN steps[s].cap ELSE @[u]],
              ![c].missing = IF Taken(steps, s) THEN @ ELSE @ \cup {s},
              ![c].inactive = IF steps[s].state = "inactive" THEN @ \cup {s} ELSE @]
    BY DEF LoadStep
  <1>3. client'[c] = [client[c] EXCEPT
              !.todo = @ \ {s},
              !.caps = [u \in DOMAIN @ \cup {s} |-> IF u = s THEN steps[s].cap ELSE @[u]],
              !.missing = IF Taken(steps, s) THEN @ ELSE @ \cup {s},
              !.inactive = IF steps[s].state = "inactive" THEN @ \cup {s} ELSE @]
    BY <1>1, <1>2
  <1>4. client[c].pc = "load"
    BY DEF LoadStep, At
  <1>5. QED
    BY <1>1, <1>3, <1>4 DEF ClientFields

\* One more step was read.
LEMMA LoadLinked ==
    ASSUME LinkInv, NEW c \in Clients, LoadStep(c)
    PROVE  LinkInv' /\ Grows
  <1>1. PICK s \in client[c].todo :
              /\ DOMAIN client'[c] = ClientFields
              /\ client'[c].pc = "load" /\ client'[c].req = client[c].req
              /\ client'[c].row = client[c].row /\ client'[c].off = client[c].off
              /\ client'[c].todo = client[c].todo \ {s}
              /\ client'[c].caps = [u \in DOMAIN client[c].caps \cup {s} |->
                                       IF u = s THEN steps[s].cap ELSE client[c].caps[u]]
              /\ client'[c].missing = IF Taken(steps, s) THEN client[c].missing
                                      ELSE client[c].missing \cup {s}
    BY LoadFields
  <1>2. /\ UNCHANGED <<workers, steps, sagas>> /\ UNCHANGED requests
        /\ At(c, "load")
    BY DEF LoadStep, catalog
  <1>3. ClientOK(c) /\ DeployOK(c) /\ StartOK(c) /\ DOMAIN client = Clients
    BY DEF LinkInv, ClientsOK
  <1>4. ASSUME NEW graph, Resolving(c, graph)
        PROVE  Resolving(c, graph)'
    <2>1. ASSUME NEW n \in Uses(graph), n.use \notin client'[c].todo,
                 n.use \notin client'[c].missing
          PROVE  /\ Taken(steps, n.use)
                 /\ n.use \in DOMAIN client'[c].caps
                 /\ client'[c].caps[n.use] = steps[n.use].cap
      <3>1. CASE n.use = s
        BY <1>1, <2>1, <3>1
      <3>2. CASE n.use # s
        BY <1>1, <1>4, <2>1, <3>2 DEF Resolving
      <3>3. QED
        BY <3>1, <3>2
    <2>2. ASSUME NEW n \in Uses(graph), n.use \notin client'[c].todo
          PROVE  n.use \in DOMAIN client'[c].caps
      BY <1>1, <1>4, <2>2 DEF Resolving
    <2>3. client'[c].todo \subseteq {n.use : n \in Uses(graph)}
      BY <1>1, <1>4 DEF Resolving
    <2>4. QED
      BY <1>2, <2>1, <2>2, <2>3 DEF Resolving
  <1>5. ClientOK(c)'
    BY <1>1, <1>2, <1>3 DEF ClientOK, At
  <1>6. DeployOK(c)'
    <2> SUFFICES ASSUME client[c].req.op = "saga" PROVE DeployOK(c)'
      BY <1>1 DEF DeployOK
    <2>1. PICK graph : graph = client[c].req.graph
      OBVIOUS
    <2>2. Resolving(c, graph)'
      BY <1>2, <1>3, <1>4, <2>1 DEF DeployOK
    <2>3. QED
      BY <1>1, <2>1, <2>2 DEF DeployOK, At
  <1>7. StartOK(c)'
    <2> SUFFICES ASSUME client[c].req.op = "start" PROVE StartOK(c)'
      BY <1>1 DEF StartOK
    <2>1. PICK graph : graph = Graph(c)
      OBVIOUS
    <2>2. Graph(c)' = graph
      BY <1>1, <2>1 DEF Graph
    <2>3. /\ StepsFit(graph) /\ GraphFits(graph, steps, sagas)
          /\ Resolving(c, graph) /\ client[c].missing = {}
      BY <1>2, <1>3, <2>1 DEF StartOK, At
    <2>4. Taken(steps, s)
      BY <2>3 DEF Resolving, StepsFit
    <2>5. client'[c].missing = {}
      BY <1>1, <2>3, <2>4
    <2>6. Resolving(c, graph)' /\ StepsFit(graph)' /\ GraphFits(graph, steps, sagas)'
      BY <1>2, <1>4, <2>3 DEF StepsFit
    <2>7. QED
      BY <1>1, <2>2, <2>5, <2>6 DEF StartOK, At
  <1>8. SwitchOK(c)'
    BY <1>1 DEF SwitchOK, At
  <1>9. PICK v : client' = [client EXCEPT ![c] = v]
    BY DEF LoadStep
  <1>10. QED
    BY <1>2, <1>5, <1>6, <1>7, <1>8, <1>9, QuietMove DEF ClientLinked

\* When all steps were read and none is missing, the graph was resolved against
\* steps that stay as they were read.
LEMMA AllRead ==
    ASSUME NEW c \in Clients, NEW graph, Resolving(c, graph), client[c].todo = {},
           client[c].missing = {}
    PROVE  Resolved(c, graph) /\ \A n \in Uses(graph) : Taken(steps, n.use)
  BY DEF Resolving, Resolved

\* A resolved graph that hydrates fits its steps.
LEMMA HydratesFits ==
    ASSUME NEW c \in Clients, NEW graph, Resolved(c, graph),
           \A n \in Uses(graph) : Taken(steps, n.use)
    PROVE  Hydrates(graph, client[c].caps) <=> StepsFit(graph)
  BY DEF Resolved, Hydrates, StepsFit

\* Linking the graph of a deployment and looking for its workers and children.
LEMMA LinkLinked ==
    ASSUME LinkInv, NEW c \in Clients, LinkGraph(c) \/ SagaWorkers(c) \/ Children(c)
    PROVE  LinkInv' /\ Grows
  <1>1. PICK graph : graph = client[c].req.graph
    OBVIOUS
  <1>2. ClientOK(c) /\ DeployOK(c) /\ ~ At(c, "idle") /\ ~ At(c, "invalid")
    BY DEF LinkInv, ClientsOK, LinkGraph, Linked, SagaWorkers, Children, At
  <1>3. client[c].req.op = "saga"
    BY <1>2 DEF ClientOK, Stage, LinkGraph, SagaWorkers, Children, At
  <1>4. CASE \E code : Refuse(c, code)
    BY <1>4, RefusalEnds
  <1>5. CASE /\ LinkGraph(c) /\ Proceed(c, "saga workers")
             /\ client[c].missing = {} /\ Hydrates(graph, client[c].caps)
    <2>1. Resolving(c, graph) /\ client[c].todo = {}
      BY <1>1, <1>2, <1>3, <1>5 DEF DeployOK, LinkGraph, Linked
    <2>2. StepsFit(graph) /\ Resolved(c, graph)
      BY <1>5, <2>1, AllRead, HydratesFits
    <2>3. Stage("saga workers", client[c].req.op)
      BY <1>3 DEF Stage
    <2>4. QED
      BY <1>1, <1>2, <1>3, <1>5, <2>2, <2>3, ProceedMoves
  <1>6. CASE /\ SagaWorkers(c) /\ Proceed(c, "children")
             /\ \A w \in Workers(graph, client[c].caps) : workers[w].state # "absent"
    <2>1. StepsFit(graph) /\ Resolved(c, graph)
      BY <1>1, <1>2, <1>3, <1>6 DEF DeployOK, SagaWorkers, At
    <2>2. WorkersFit(graph)
      BY <1>6, <2>1 DEF Workers, WorkersFit, Resolved, Taken
    <2>3. Stage("children", client[c].req.op)
      BY <1>3 DEF Stage
    <2>4. QED
      BY <1>1, <1>2, <1>3, <1>6, <2>1, <2>2, <2>3, ProceedMoves
  <1>7. CASE /\ Children(c) /\ Proceed(c, "upsert")
             /\ \A t \in Spawned(graph) : sagas[t].state # "absent"
    <2>1. StepsFit(graph) /\ Resolved(c, graph) /\ WorkersFit(graph)
      BY <1>1, <1>2, <1>3, <1>7 DEF DeployOK, Children, At
    <2>2. ChildrenFit(graph)
      BY <1>7 DEF ChildrenFit, Taken
    <2>3. Stage("upsert", client[c].req.op)
      BY <1>3 DEF Stage
    <2>4. QED
      BY <1>1, <1>2, <1>3, <1>7, <2>1, <2>2, <2>3, ProceedMoves
  <1>8. QED
    <2>1. LinkGraph(c) => \/ \E code : Refuse(c, code)
                          \/ /\ Proceed(c, "saga workers") /\ client[c].missing = {}
                             /\ Hydrates(graph, client[c].caps)
      BY <1>1 DEF LinkGraph, Linked
    <2>2. SagaWorkers(c) =>
             \/ \E code : Refuse(c, code)
             \/ /\ Proceed(c, "children")
                /\ \A w \in Workers(graph, client[c].caps) : workers[w].state # "absent"
      BY <1>1 DEF SagaWorkers
    <2>3. Children(c) => \/ \E code : Refuse(c, code)
                         \/ /\ Proceed(c, "upsert")
                            /\ \A t \in Spawned(graph) : sagas[t].state # "absent"
      BY <1>1 DEF Children
    <2>4. QED
      BY <1>4, <1>5, <1>6, <1>7, <2>1, <2>2, <2>3

\* Storing the graph of a deployment.
LEMMA UpsertLinked ==
    ASSUME LinkInv, NEW c \in Clients, UpsertSaga(c) \/ InsertSaga(c)
    PROVE  LinkInv' /\ Grows
  <1>1. PICK req, graph : req = client[c].req /\ graph = req.graph
    OBVIOUS
  <1>2. /\ ClientOK(c) /\ DeployOK(c) /\ ~ At(c, "idle") /\ ~ At(c, "invalid")
        /\ CatalogOK /\ DOMAIN client = Clients
    BY DEF LinkInv, ClientsOK, UpsertSaga, InsertSaga, At
  <1>3. req.op = "saga"
    BY <1>1, <1>2 DEF ClientOK, Stage, UpsertSaga, InsertSaga, At
  <1>4. /\ req.id \in DOMAIN sagas /\ GraphFits(graph, steps, sagas) /\ GraphParses(graph)
    BY <1>1, <1>2, <1>3 DEF LinkInv, RequestsOK, ClientOK, RequestFits, Parses
  <1>5. StepsFit(graph) /\ Resolved(c, graph) /\ WorkersFit(graph) /\ ChildrenFit(graph)
    BY <1>1, <1>2, <1>3 DEF DeployOK, UpsertSaga, InsertSaga, At
  <1>6. CASE \E code : Refuse(c, code)
    BY <1>6, RefusalEnds
  <1>7. CASE \E state \in RowStates \ {"absent"} : StoreGraph(c, state)
    <2>1. PICK state \in RowStates \ {"absent"} : StoreGraph(c, state)
      BY <1>7
    <2>2. /\ sagas' = [sagas EXCEPT ![req.id] = [state |-> state, graph |-> graph]]
          /\ UNCHANGED <<workers, steps>> /\ UNCHANGED requests
          /\ client' = [client EXCEPT ![c] = Idle]
      BY <1>1, <2>1 DEF StoreGraph, Answer
    <2>3. Grows /\ CatalogOK'
      BY <1>2, <1>4, <1>5, <2>2, SagaWritten
    <2>4. client'[c] = Idle /\ DOMAIN client' = Clients /\ \A d \in Clients \ {c} : Still(d)
      BY <1>2, <2>2 DEF Still
    <2>5. QED
      BY <2>2, <2>3, <2>4, EndedLinked, OneMoves
  <1>8. CASE UpsertSaga(c) /\ Proceed(c, "insert")
    <2>1. Stage("insert", client[c].req.op)
      BY <1>1, <1>3 DEF Stage
    <2>2. QED
      BY <1>1, <1>2, <1>3, <1>5, <1>8, <2>1, ProceedMoves
  <1>9. QED
    <2>1. UpsertSaga(c) => \/ Proceed(c, "insert")
                           \/ /\ Taken(sagas, req.id) /\ StoreGraph(c, sagas[req.id].state)
      BY <1>1 DEF UpsertSaga
    <2>2. InsertSaga(c) => (\E code : Refuse(c, code)) \/ StoreGraph(c, "active")
      BY DEF InsertSaga
    <2>3. Taken(sagas, req.id) => sagas[req.id].state \in RowStates \ {"absent"}
      BY <1>2, <1>4, Shapes DEF Taken
    <2>4. "active" \in RowStates \ {"absent"}
      BY DEF RowStates
    <2>5. QED
      BY <1>6, <1>7, <1>8, <2>1, <2>2, <2>3, <2>4

\* Switching a definition on or off.
LEMMA SwitchLinked ==
    ASSUME LinkInv, NEW c \in Clients, ReadRow(c) \/ WriteFlag(c)
    PROVE  LinkInv' /\ Grows
  <1>1. PICK req : req = client[c].req
    OBVIOUS
  <1>2. /\ ClientOK(c) /\ SwitchOK(c) /\ ~ At(c, "idle") /\ ~ At(c, "invalid")
        /\ CatalogOK /\ DOMAIN client = Clients
    BY DEF LinkInv, ClientsOK, ReadRow, WriteFlag, At
  <1>3. /\ req \in requests /\ RequestFits(req, workers, steps, sagas) /\ req.op = "active"
        /\ Parses(req)
    BY <1>1, <1>2 DEF LinkInv, RequestsOK, ClientOK, Stage, ReadRow, WriteFlag, At
  <1>4. CASE \E code : Refuse(c, code)
    BY <1>4, RefusalEnds
  <1>5. CASE /\ ReadRow(c) /\ RowsOf(req.kind)[req.id].state # "absent"
             /\ client' = [client EXCEPT ![c].pc = "write",
                                         ![c].row = {RowsOf(req.kind)[req.id]}]
             /\ UNCHANGED <<workers, steps, sagas, requests>>
    <2>1. client'[c] = [client[c] EXCEPT !.pc = "write", !.row = {RowsOf(req.kind)[req.id]}]
      BY <1>2, <1>5
    <2>2. DOMAIN client'[c] = ClientFields /\ client'[c].pc = "write" /\ client'[c].req = req
      BY <1>1, <1>2, <2>1 DEF ClientOK, ClientFields
    <2>3. requests' = requests
      BY <1>5
    <2>4. Stage("write", req.op)
      BY <1>3 DEF Stage
    <2>5. ClientOK(c)'
      BY <1>3, <2>2, <2>3, <2>4 DEF ClientOK, At
    <2>6. DeployOK(c)' /\ StartOK(c)'
      BY <1>3, <2>2 DEF DeployOK, StartOK
    <2>7. SwitchOK(c)'
      BY <1>5, <2>2 DEF SwitchOK, RowsOf, Taken
    <2>8. PICK v : client' = [client EXCEPT ![c] = v]
      BY <1>5
    <2>9. QED
      BY <1>5, <2>5, <2>6, <2>7, <2>8, QuietMove DEF ClientLinked
  <1>6. CASE WriteFlag(c)
    <2>1. /\ workers' = IF req.kind = "worker" THEN WithFlag(workers, req) ELSE workers
          /\ steps' = IF req.kind = "step" THEN WithFlag(steps, req) ELSE steps
          /\ sagas' = IF req.kind = "saga" THEN WithFlag(sagas, req) ELSE sagas
          /\ Forget(c, req) /\ UNCHANGED requests
      BY <1>1, <1>6 DEF WriteFlag
    <2>2. Taken(RowsOf(req.kind), req.id)
      BY <1>1, <1>2, <1>6 DEF SwitchOK, WriteFlag
    <2>3. Grows /\ CatalogOK'
      BY <1>2, <1>3, <2>1, <2>2, FlagWritten
    <2>4. client'[c] = Idle /\ DOMAIN client' = Clients
      BY <2>1 DEF Forget
    <2>5. ASSUME NEW d \in Clients \ {c} PROVE Still(d)
      <3>1. DOMAIN client[d] = ClientFields
        BY DEF LinkInv, ClientsOK, ClientOK
      <3>2. \/ client'[d] = client[d]
            \/ client'[d] = [client[d] EXCEPT !.off = @ \ {<<req.kind, req.id>>}]
        BY <2>1 DEF Forget
      <3>3. QED
        BY <3>1, <3>2 DEF Still, ClientFields
    <2>6. QED
      BY <2>1, <2>3, <2>4, <2>5, EndedLinked, OneMoves
  <1>7. QED
    BY <1>1, <1>4, <1>5, <1>6 DEF ReadRow, catalog

\* A start finds a definition that was deployed.
LEMMA FindLinked ==
    ASSUME LinkInv, NEW c \in Clients, NEW next \in {"key", "tx key"},
           FindDefinition(c, next), ~ At(c, "idle"), ~ At(c, "invalid"),
           client[c].req.op = "start"
    PROVE  LinkInv' /\ Grows
  <1>1. PICK req : req = client[c].req
    OBVIOUS
  <1>2. /\ ClientOK(c) /\ StartOK(c) /\ CatalogOK /\ DOMAIN client = Clients
    BY DEF LinkInv, ClientsOK
  <1>3. req \in requests /\ req.saga \in DOMAIN sagas /\ Parses(req)
    BY <1>1, <1>2 DEF LinkInv, RequestsOK, RequestFits, ClientOK
  <1>4. CASE \E code : Refuse(c, code)
    BY <1>4, RefusalEnds
  <1>5. CASE /\ sagas[req.saga].state = "active"
             /\ client' = [client EXCEPT ![c].pc = next, ![c].row = {sagas[req.saga]}]
             /\ UNCHANGED <<workers, steps, sagas, requests>>
    <2>1. client'[c] = [client[c] EXCEPT !.pc = next, !.row = {sagas[req.saga]}]
      BY <1>2, <1>5
    <2>2. /\ DOMAIN client'[c] = ClientFields /\ client'[c].pc = next /\ client'[c].req = req
          /\ client'[c].missing = client[c].missing /\ client'[c].row = {sagas[req.saga]}
      BY <1>1, <1>2, <2>1 DEF ClientOK, ClientFields
    <2>3. requests' = requests
      BY <1>5
    <2>4. Stage(next, req.op)
      BY <1>1 DEF Stage
    <2>5. ClientOK(c)'
      BY <1>3, <2>2, <2>3, <2>4 DEF ClientOK, At
    <2>6. PICK graph : graph = sagas[req.saga].graph
      OBVIOUS
    <2>7. GraphFits(graph, steps, sagas) /\ StepsFit(graph)
      BY <1>2, <1>3, <1>5, <2>6, DeployedFits DEF CatalogOK, CatalogFits, Taken
    <2>8. Graph(c)' = graph
      BY <2>2, <2>6 DEF Graph
    <2>9. StepsFit(graph)' /\ GraphFits(graph, steps, sagas)'
      BY <1>5, <2>7 DEF StepsFit
    <2>10. StartOK(c)'
      BY <1>1, <1>2, <2>2, <2>8, <2>9 DEF StartOK, At
    <2>11. DeployOK(c)' /\ SwitchOK(c)'
      BY <1>1, <2>2 DEF DeployOK, SwitchOK, At
    <2>12. PICK v : client' = [client EXCEPT ![c] = v]
      BY <1>5
    <2>13. QED
      BY <1>5, <2>5, <2>10, <2>11, <2>12, QuietMove DEF ClientLinked
  <1>6. QED
    BY <1>1, <1>4, <1>5 DEF FindDefinition, catalog

\* A repeated start is answered or refused.
LEMMA RepeatLinked ==
    ASSUME LinkInv, NEW c \in Clients, Repeated(c)
    PROVE  LinkInv' /\ Grows
  <1>1. CASE \E code : Refuse(c, code)
    BY <1>1, RefusalEnds
  <1>2. CASE /\ client' = [client EXCEPT ![c] = Idle]
             /\ UNCHANGED <<workers, steps, sagas, requests>>
    BY <1>2, QuietEnd
  <1>3. QED
    BY <1>1, <1>2 DEF Repeated, Answer, catalog

\* Starting a saga.
LEMMA StartLinked ==
    ASSUME LinkInv, NEW c \in Clients,
           Definition(c) \/ Key(c) \/ TxDefinition(c) \/ TxKey(c) \/ Freeze(c) \/ CommitStart(c)
    PROVE  LinkInv' /\ Grows
  <1>1. /\ ClientOK(c) /\ StartOK(c) /\ ~ At(c, "idle") /\ ~ At(c, "invalid")
        /\ DOMAIN client = Clients
    BY DEF LinkInv, ClientsOK, Definition, Key, TxDefinition, TxKey, Freeze, Linked,
           CommitStart, At
  <1>2. client[c].req.op = "start"
    BY <1>1 DEF ClientOK, Stage, Definition, Key, TxDefinition, TxKey, Freeze, CommitStart, At
  <1>3. CASE \E code : Refuse(c, code)
    BY <1>3, RefusalEnds
  <1>4. CASE Definition(c) \/ TxDefinition(c)
    BY <1>1, <1>2, <1>4, FindLinked DEF Definition, TxDefinition
  <1>5. CASE Repeated(c)
    BY <1>5, RepeatLinked
  <1>6. CASE Key(c) /\ Proceed(c, "tx definition")
    <2>1. Stage("tx definition", client[c].req.op)
      BY <1>2 DEF Stage
    <2>2. QED
      BY <1>1, <1>2, <1>6, <2>1, ProceedMoves
  <1>7. CASE /\ TxKey(c)
             /\ client' = [client EXCEPT ![c].pc = "load",
                                         ![c].todo = {n.use : n \in Uses(Graph(c))}]
             /\ UNCHANGED <<workers, steps, sagas, requests>>
    <2>1. client'[c] = [client[c] EXCEPT !.pc = "load", !.todo = {n.use : n \in Uses(Graph(c))}]
      BY <1>1, <1>7
    <2>2. PICK graph : graph = Graph(c)
      OBVIOUS
    <2>3. /\ DOMAIN client'[c] = ClientFields /\ client'[c].pc = "load"
          /\ client'[c].req = client[c].req /\ client'[c].row = client[c].row
          /\ client'[c].missing = client[c].missing
          /\ client'[c].todo = {n.use : n \in Uses(graph)}
      BY <1>1, <2>1, <2>2 DEF ClientOK, ClientFields
    <2>4. requests' = requests /\ Stage("load", client[c].req.op)
      BY <1>2, <1>7 DEF Stage
    <2>5. ClientOK(c)'
      BY <1>1, <2>3, <2>4 DEF ClientOK, At
    <2>6. Graph(c)' = graph
      BY <2>2, <2>3 DEF Graph
    <2>7. StepsFit(graph) /\ GraphFits(graph, steps, sagas)
      BY <1>1, <1>2, <1>7, <2>2 DEF StartOK, TxKey, At
    <2>8. StepsFit(graph)' /\ GraphFits(graph, steps, sagas)'
      BY <1>7, <2>7 DEF StepsFit
    <2>9. Resolving(c, graph)'
      BY <2>3 DEF Resolving
    <2>10. StartOK(c)'
      BY <1>1, <1>2, <2>3, <2>6, <2>8, <2>9 DEF StartOK, At
    <2>11. DeployOK(c)' /\ SwitchOK(c)'
      BY <1>2, <2>3 DEF DeployOK, SwitchOK, At
    <2>12. PICK v : client' = [client EXCEPT ![c] = v]
      BY <1>7
    <2>13. QED
      BY <1>7, <2>5, <2>10, <2>11, <2>12, QuietMove DEF ClientLinked
  <1>8. CASE Freeze(c) /\ Proceed(c, "commit")
    <2>1. PICK graph : graph = Graph(c)
      OBVIOUS
    <2>2. /\ Resolving(c, graph) /\ client[c].todo = {} /\ client[c].missing = {}
          /\ StepsFit(graph) /\ GraphFits(graph, steps, sagas)
      BY <1>1, <1>2, <1>8, <2>1 DEF StartOK, Freeze, Linked, At
    <2>3. Resolved(c, graph)
      BY <2>2, AllRead
    <2>4. Stage("commit", client[c].req.op)
      BY <1>2 DEF Stage
    <2>5. QED
      BY <1>1, <1>2, <1>8, <2>1, <2>2, <2>3, <2>4, ProceedMoves
  <1>9. CASE /\ client' = [client EXCEPT ![c] = Idle]
             /\ UNCHANGED <<workers, steps, sagas, requests>>
    BY <1>9, QuietEnd
  <1>10. QED
    <2>1. Key(c) => Repeated(c) \/ Proceed(c, "tx definition")
      BY DEF Key
    <2>2. TxKey(c) => \/ Repeated(c)
                      \/ /\ client' = [client EXCEPT ![c].pc = "load",
                                              ![c].todo = {n.use : n \in Uses(Graph(c))}]
                         /\ UNCHANGED <<workers, steps, sagas, requests>>
      BY DEF TxKey, catalog
    <2>3. Freeze(c) => (\E code : Refuse(c, code)) \/ Proceed(c, "commit")
      BY DEF Freeze, Linked
    <2>4. CommitStart(c) => \/ \E code : Refuse(c, code)
                            \/ /\ client' = [client EXCEPT ![c] = Idle]
                               /\ UNCHANGED <<workers, steps, sagas, requests>>
      BY DEF CommitStart, Answer, catalog
    <2>5. QED
      BY <1>3, <1>4, <1>5, <1>6, <1>7, <1>8, <1>9, <2>1, <2>2, <2>3, <2>4

\* Operator recovery.
LEMMA RecoverLinked ==
    ASSUME LinkInv, NEW c \in Clients, FindToken(c) \/ Apply(c) \/ Save(c)
    PROVE  LinkInv' /\ Grows
  <1>1. ClientOK(c) /\ StartOK(c) /\ ~ At(c, "idle") /\ ~ At(c, "invalid") /\ DOMAIN client = Clients
    BY DEF LinkInv, ClientsOK, FindToken, Apply, Save, At
  <1>2. client[c].req.op = "recover"
    BY <1>1 DEF ClientOK, Stage, FindToken, Apply, Save, At
  <1>3. CASE \E code : Refuse(c, code)
    BY <1>3, RefusalEnds
  <1>4. CASE /\ client' = [client EXCEPT ![c] = Idle]
             /\ UNCHANGED <<workers, steps, sagas, requests>>
    BY <1>4, QuietEnd
  <1>5. CASE FindToken(c) /\ Proceed(c, "apply")
    <2>1. Stage("apply", client[c].req.op)
      BY <1>2 DEF Stage
    <2>2. QED
      BY <1>1, <1>2, <1>5, <2>1, ProceedMoves
  <1>6. CASE Goto(c, "save") /\ UNCHANGED <<workers, steps, sagas, requests>>
    <2>1. client'[c] = [client[c] EXCEPT !.pc = "save"]
      BY <1>1, <1>6 DEF Goto
    <2>2. DOMAIN client'[c] = ClientFields /\ client'[c].pc = "save" /\ client'[c].req = client[c].req
      BY <1>1, <2>1 DEF ClientOK, ClientFields
    <2>3. requests' = requests /\ Stage("save", client[c].req.op)
      BY <1>2, <1>6 DEF Stage
    <2>4. ClientLinked(c)'
      BY <1>1, <1>2, <2>2, <2>3
      DEF ClientLinked, ClientOK, DeployOK, StartOK, SwitchOK, At
    <2>5. PICK v : client' = [client EXCEPT ![c] = v]
      BY <1>6 DEF Goto
    <2>6. QED
      BY <1>6, <2>4, <2>5, QuietMove
  <1>7. QED
    <2>1. FindToken(c) => \/ \E code : Refuse(c, code)
                          \/ /\ client' = [client EXCEPT ![c] = Idle]
                             /\ UNCHANGED <<workers, steps, sagas, requests>>
                          \/ Proceed(c, "apply")
      BY DEF FindToken, ReplayOrConflict, Answer, catalog
    <2>2. Apply(c) => \/ \E code : Refuse(c, code)
                      \/ Goto(c, "save") /\ UNCHANGED <<workers, steps, sagas, requests>>
      BY DEF Apply, catalog
    <2>3. Save(c) => /\ client' = [client EXCEPT ![c] = Idle]
                     /\ UNCHANGED <<workers, steps, sagas, requests>>
      BY DEF Save, Answer, catalog
    <2>4. QED
      BY <1>3, <1>4, <1>5, <1>6, <2>1, <2>2, <2>3

\* Any step of a request.
LEMMA HandleLinked ==
    ASSUME LinkInv, NEW c \in Clients, Handle(c)
    PROVE  LinkInv' /\ Grows
  <1>1. CASE Reject(c)
    BY <1>1, RefusalEnds DEF Reject
  <1>2. QED
    BY <1>1, SendLinked, DefineLinked, LoadLinked, LinkLinked, UpsertLinked, SwitchLinked,
       StartLinked, RecoverLinked DEF Handle

\* The engine process dies, or a worker acts: the catalogue is left alone.
LEMMA OutsideLinked ==
    ASSUME LinkInv, WorkerActs \/ Crash \/ UNCHANGED vars
    PROVE  LinkInv' /\ Grows
  <1>1. UNCHANGED <<workers, steps, sagas, requests>>
    BY DEF WorkerActs, Crash, vars, catalog
  <1>2. Grows /\ RequestsOK' /\ CatalogOK'
    BY <1>1 DEF Grows, LinkInv, RequestsOK, CatalogOK
  <1>3. CASE UNCHANGED client
    <2>1. \A d \in Clients : Still(d) /\ ClientLinked(d)
      BY <1>3 DEF Still, LinkInv, ClientsOK, ClientLinked
    <2>2. \A d \in Clients : ClientLinked(d)'
      BY <1>1, <1>2, <2>1, Bystander DEF LinkInv
    <2>3. QED
      BY <1>2, <1>3, <2>2 DEF LinkInv, ClientsOK, ClientLinked
  <1>4. CASE Crash
    <2>1. DOMAIN client' = Clients /\ \A d \in Clients : client'[d] = Idle
      BY <1>4 DEF Crash
    <2>2. \A d \in Clients : ClientLinked(d)'
      BY <2>1, EndedLinked
    <2>3. QED
      BY <1>2, <2>1, <2>2 DEF LinkInv, ClientsOK, ClientLinked
  <1>5. QED
    BY <1>3, <1>4 DEF WorkerActs, vars

\* Any step of the system.
LEMMA StepLinked == LinkInv /\ [Next]_vars => LinkInv' /\ Grows
  BY HandleLinked, OutsideLinked DEF Next

\* At first the catalogue is the one of a world, and nobody has asked anything.
LEMMA InitLinked == Init => LinkInv
  <1> SUFFICES ASSUME Init PROVE LinkInv
    OBVIOUS
  <1>1. PICK w \in Worlds :
           /\ workers = w.workers /\ steps = w.steps /\ sagas = w.sagas
           /\ requests = w.requests
           /\ client = [c \in Clients |-> Idle]
    BY DEF Init
  <1>2. WorldFits(w)
    BY RequestsAssumption
  <1>3. RequestsOK /\ CatalogOK
    BY <1>1, <1>2 DEF WorldFits, RequestsOK, CatalogOK
  <1>4. \A c \in Clients : /\ client[c].pc = "idle" /\ client[c].req.op = "none"
                           /\ DOMAIN client[c] = ClientFields
    BY <1>1 DEF Idle, ClientFields, None
  <1>5. ASSUME NEW c \in Clients
        PROVE  ClientOK(c) /\ DeployOK(c) /\ StartOK(c) /\ SwitchOK(c)
    BY <1>4 DEF ClientOK, DeployOK, StartOK, SwitchOK, At
  <1>6. QED
    BY <1>1, <1>3, <1>5 DEF LinkInv, ClientsOK

\* Every request knows of the catalogue what it has read, and it stays so.
THEOREM Linkage == Spec => []LinkInv
  BY InitLinked, StepLinked, PTL DEF Spec

\* What a deployed saga refers to is in the catalogue, with deployments racing
\* with each other and with switches.
THEOREM CatalogIsClosed == Spec => []CatalogClosed
  <1>1. LinkInv => CatalogClosed
    <2> SUFFICES ASSUME CatalogOK, NEW s \in DOMAIN sagas, Taken(sagas, s)
                 PROVE  LET capOf == [n \in DOMAIN steps |-> steps[n].cap]
                            graph == sagas[s].graph
                        IN  /\ \A n \in Uses(graph) : Taken(steps, n.use)
                            /\ \A w \in Workers(graph, capOf) : Taken(workers, w)
                            /\ \A t \in Spawned(graph) : Taken(sagas, t)
      BY DEF LinkInv, CatalogClosed, Taken
    <2> DEFINE graph == sagas[s].graph
               capOf == [n \in DOMAIN steps |-> steps[n].cap]
    <2>1. /\ GraphFits(graph, steps, sagas)
          /\ StepsFit(graph) /\ WorkersFit(graph) /\ ChildrenFit(graph)
      BY DeployedFits DEF CatalogOK, CatalogFits
    <2> HIDE DEF graph
    <2>2. \A n \in Uses(graph) : capOf[n.use] = steps[n.use].cap
      BY <2>1 DEF GraphFits
    <2> HIDE DEF capOf
    <2>3. \A w \in Workers(graph, capOf) : Taken(workers, w)
      BY <2>1, <2>2 DEF Workers, WorkersFit
    <2>4. QED
      BY <2>1, <2>3 DEF StepsFit, ChildrenFit, graph, capOf
  <1>2. QED
    BY <1>1, Linkage, PTL

-----------------------------------------------------------------------------
\* Answers.

\* The one answer a step may give.
Answers(c, code, value) ==
    answers' = answers \cup {[req |-> client[c].req, code |-> code, value |-> value]}

\* The answers after it are the old ones and this one.
LEMMA OneAnswer ==
    ASSUME NEW c, NEW code, NEW value, Answers(c, code, value), NEW a \in answers'
    PROVE  \/ a \in answers
           \/ a.req = client[c].req /\ a.code = code /\ a.value = value
  BY DEF Answers

Unlinked == {"no step", "unhydratable"}

\* Only the resolution of a graph answers that a step is missing or does not
\* fit.
LEMMA UnlinkedAnswers ==
    ASSUME NEW c \in Clients, Handle(c)
    PROVE  \/ UNCHANGED answers
           \/ \E code, value : code \notin Unlinked /\ Answers(c, code, value)
           \/ LinkGraph(c)
           \/ Freeze(c)
  <1> USE DEF Answers, Refuse, Answer, Proceed, Unlinked
  <1>1. CASE Send(c) \/ LoadStep(c)
    BY <1>1 DEF Send, LoadStep
  <1>2. CASE Reject(c)
    BY <1>2 DEF Reject
  <1>3. CASE CreateWorker(c)
    BY <1>3 DEF CreateWorker
  <1>4. CASE StepWorker(c)
    BY <1>4 DEF StepWorker
  <1>5. CASE CreateStep(c)
    BY <1>5 DEF CreateStep, WriteStep
  <1>6. CASE SagaWorkers(c)
    BY <1>6 DEF SagaWorkers
  <1>7. CASE Children(c)
    BY <1>7 DEF Children
  <1>8. CASE UpsertSaga(c)
    BY <1>8 DEF UpsertSaga, StoreGraph
  <1>9. CASE InsertSaga(c)
    BY <1>9 DEF InsertSaga, StoreGraph
  <1>10. CASE ReadRow(c)
    BY <1>10 DEF ReadRow
  <1>11. CASE WriteFlag(c)
    BY <1>11 DEF WriteFlag
  <1>12. CASE Definition(c) \/ TxDefinition(c)
    BY <1>12 DEF Definition, TxDefinition, FindDefinition
  <1>13. CASE Key(c)
    BY <1>13 DEF Key, Repeated
  <1>14. CASE TxKey(c)
    BY <1>14 DEF TxKey, Repeated
  <1>15. CASE CommitStart(c)
    BY <1>15 DEF CommitStart
  <1>16. CASE FindToken(c)
    BY <1>16 DEF FindToken, ReplayOrConflict
  <1>17. CASE Apply(c)
    BY <1>17 DEF Apply
  <1>18. CASE Save(c)
    BY <1>18 DEF Save
  <1>19. QED
    BY <1>1, <1>2, <1>3, <1>4, <1>5, <1>6, <1>7, <1>8, <1>9, <1>10, <1>11, <1>12, <1>13,
       <1>14, <1>15, <1>16, <1>17, <1>18 DEF Handle

\* A start that has read every step of its graph finds them there and fitting.
LEMMA FreezeFits ==
    ASSUME LinkInv, NEW c \in Clients, Freeze(c)
    PROVE  \/ UNCHANGED answers
           \/ \E code, value : code \notin Unlinked /\ Answers(c, code, value)
  <1>1. /\ StartOK(c) /\ client[c].req.op = "start" /\ At(c, "load") /\ client[c].todo = {}
    BY DEF LinkInv, ClientsOK, Freeze, Linked
  <1>2. PICK graph : graph = Graph(c)
    OBVIOUS
  <1>3. Resolving(c, graph) /\ client[c].missing = {} /\ StepsFit(graph)
    BY <1>1, <1>2 DEF StartOK, At
  <1>4. Hydrates(graph, client[c].caps)
    BY <1>1, <1>3, AllRead, HydratesFits
  <1>5. \/ Refuse(c, "inactive step")
        \/ Refuse(c, "assets")
        \/ Proceed(c, "commit")
    BY <1>2, <1>3, <1>4 DEF Freeze, Linked
  <1>6. QED
    BY <1>5 DEF Refuse, Answer, Proceed, Answers, Unlinked

\* A saga that was deployed can be frozen whenever it is started: a step is
\* immutable, and the graph was checked when it was stored.
THEOREM StartsAreLinked == Spec => []StartsLinked
  <1>1. Init => StartsLinked
    BY DEF Init, StartsLinked
  <1>2. LinkInv /\ StartsLinked /\ [Next]_vars => StartsLinked'
    <2> SUFFICES ASSUME LinkInv, StartsLinked, [Next]_vars PROVE StartsLinked'
      OBVIOUS
    <2>1. CASE UNCHANGED answers
      BY <2>1 DEF StartsLinked
    <2>2. ASSUME NEW c \in Clients, Handle(c) PROVE StartsLinked'
      <3>1. CASE \E code, value : code \notin Unlinked /\ Answers(c, code, value)
        <4>1. PICK code, value : code \notin Unlinked /\ Answers(c, code, value)
          BY <3>1
        <4>2. QED
          BY <4>1, OneAnswer DEF StartsLinked, Unlinked
      <3>2. CASE LinkGraph(c)
        <4>1. client[c].req.op = "saga"
          BY <3>2 DEF LinkGraph
        <4>2. UNCHANGED answers \/ \E code : Answers(c, code, 0)
          BY <3>2 DEF LinkGraph, Linked, Refuse, Answer, Proceed, Answers
        <4>3. QED
          BY <2>1, <4>1, <4>2, OneAnswer DEF StartsLinked
      <3>3. QED
        BY <2>1, <2>2, <3>1, <3>2, UnlinkedAnswers, FreezeFits
    <2>3. WorkerActs \/ Crash \/ UNCHANGED vars => UNCHANGED answers
      BY DEF WorkerActs, Crash, vars
    <2>4. QED
      BY <2>1, <2>2, <2>3 DEF Next
  <1>3. QED
    BY <1>1, <1>2, Linkage, PTL DEF Spec

-----------------------------------------------------------------------------
\* The instances.

IsSequence(s) == s \in Seq({s[i] : i \in DOMAIN s})

\* One more row at the end.
LEMMA Appended ==
    ASSUME NEW s, IsSequence(s), NEW e
    PROVE  /\ IsSequence(Append(s, e))
           /\ DOMAIN Append(s, e) = DOMAIN s \cup {Len(s) + 1}
           /\ Len(s) + 1 \notin DOMAIN s
           /\ Append(s, e)[Len(s) + 1] = e
           /\ \A i \in DOMAIN s : Append(s, e)[i] = s[i]
  <1> DEFINE S == {s[i] : i \in DOMAIN s} \cup {e}
             t == Append(s, e)
  <1>1. s \in Seq(S) /\ e \in S
    BY DEF IsSequence
  <1> HIDE DEF S
  <1>2. /\ t \in Seq(S) /\ Len(t) = Len(s) + 1 /\ Len(s) \in Nat
        /\ DOMAIN s = 1 .. Len(s) /\ DOMAIN t = 1 .. Len(t)
        /\ t[Len(s) + 1] = e /\ \A i \in 1 .. Len(s) : t[i] = s[i]
    BY <1>1
  <1> HIDE DEF t
  <1>3. DOMAIN t = DOMAIN s \cup {Len(s) + 1} /\ Len(s) + 1 \notin DOMAIN s
    BY <1>2
  <1>4. \A i \in 1 .. Len(t) : t[i] \in {t[j] : j \in DOMAIN t}
    BY <1>2
  <1>5. t \in Seq({t[j] : j \in DOMAIN t})
    BY <1>2, <1>4
  <1>6. QED
    BY <1>2, <1>3, <1>5 DEF IsSequence, t

\* Only a start that commits adds an instance.
LEMMA InstancesStep ==
    ASSUME [Next]_vars
    PROVE  \/ UNCHANGED instances
           \/ \E c \in Clients : /\ CommitStart(c) /\ Started(client[c].req) = {}
                                 /\ instances' = Append(instances, NewInstance(c))
                                 /\ Answers(c, "ok", Len(instances) + 1)
  <1>1. ASSUME NEW c \in Clients, Handle(c), ~ CommitStart(c)
        PROVE  UNCHANGED instances
    <2> USE DEF Refuse, Proceed
    <2>1. CASE Send(c) \/ Reject(c) \/ CreateWorker(c) \/ StepWorker(c) \/ CreateStep(c)
      BY <2>1 DEF Send, Reject, CreateWorker, StepWorker, CreateStep, WriteStep
    <2>2. CASE LoadStep(c) \/ LinkGraph(c) \/ SagaWorkers(c) \/ Children(c)
      BY <2>2 DEF LoadStep, LinkGraph, Linked, SagaWorkers, Children
    <2>3. CASE UpsertSaga(c) \/ InsertSaga(c) \/ ReadRow(c) \/ WriteFlag(c)
      BY <2>3 DEF UpsertSaga, InsertSaga, StoreGraph, ReadRow, WriteFlag
    <2>4. CASE Definition(c) \/ Key(c) \/ TxDefinition(c) \/ TxKey(c) \/ Freeze(c)
      BY <2>4 DEF Definition, FindDefinition, Key, Repeated, TxDefinition, TxKey, Freeze, Linked
    <2>5. CASE FindToken(c) \/ Apply(c) \/ Save(c)
      BY <2>5 DEF FindToken, ReplayOrConflict, Apply, Save
    <2>6. QED
      BY <1>1, <2>1, <2>2, <2>3, <2>4, <2>5 DEF Handle
  <1>2. ASSUME NEW c \in Clients, CommitStart(c)
        PROVE  \/ UNCHANGED instances
               \/ /\ Started(client[c].req) = {}
                  /\ instances' = Append(instances, NewInstance(c))
                  /\ Answers(c, "ok", Len(instances) + 1)
    BY <1>2 DEF CommitStart, Refuse, Answer, Answers
  <1>3. WorkerActs \/ Crash \/ UNCHANGED vars => UNCHANGED instances
    BY DEF WorkerActs, Crash, vars
  <1>4. QED
    BY <1>1, <1>2, <1>3 DEF Next

\* The frozen steps of every instance, in the catalogue they were frozen from.
FrozenInv ==
    /\ IsSequence(instances)
    /\ \A i \in DOMAIN instances : \A id \in DOMAIN instances[i].frozen :
          LET f == instances[i].frozen[id]
          IN  f.use \in DOMAIN steps /\ Taken(steps, f.use) /\ NoLooser(f.cap, steps[f.use].cap)

\* What a start freezes is at least as strict as the catalogue.
LEMMA FrozenStrict ==
    ASSUME LinkInv, NEW c \in Clients, CommitStart(c), NEW id \in DOMAIN NewInstance(c).frozen
    PROVE  LET f == NewInstance(c).frozen[id]
           IN  f.use \in DOMAIN steps /\ Taken(steps, f.use) /\ NoLooser(f.cap, steps[f.use].cap)
  <1>1. ClientOK(c) /\ StartOK(c) /\ At(c, "commit") /\ CatalogOK
    BY DEF LinkInv, ClientsOK, CommitStart
  <1>2. client[c].req.op = "start"
    BY <1>1 DEF ClientOK, Stage, At
  <1>3. PICK graph, caps : graph = Graph(c) /\ caps = client[c].caps
    OBVIOUS
  <1>4. /\ StepsFit(graph) /\ GraphFits(graph, steps, sagas)
        /\ \A n \in Uses(graph) : caps[n.use] = steps[n.use].cap
    BY <1>1, <1>2, <1>3 DEF StartOK, At, Resolved
  <1>5. NewInstance(c).frozen = Hydrated(graph, caps)
    BY <1>3 DEF NewInstance
  <1>6. PICK n \in Uses(graph) :
           NewInstance(c).frozen[id] = [use |-> n.use, cap |-> Tighten(caps[n.use], n.over)]
    BY <1>5, FrozenFrom
  <1>7. PICK cap, over : cap = steps[n.use].cap /\ over = n.over
    OBVIOUS
  <1>8. /\ n.use \in DOMAIN steps /\ Taken(steps, n.use) /\ Narrows(cap, over)
        /\ over.limit \in [Limits -> SUBSET Nat] /\ caps[n.use] = cap
    BY <1>4, <1>7 DEF StepsFit, GraphFits
  <1>9. cap = [f \in CapFields |-> cap[f]] /\ cap.limit \in [Limits -> SUBSET Nat]
    BY <1>1, <1>7, <1>8, Shapes DEF CapFits
  <1>10. NoLooser(Tighten(cap, over), cap)
    BY <1>8, <1>9, TightenNarrows
  <1>11. QED
    BY <1>6, <1>7, <1>8, <1>10

\* The guardrails of an instance stay at least as strict as those of the steps
\* it was frozen from, whatever an override says.
THEOREM FrozenStepsAreTight == Spec => []TightenOnly
  <1>1. Init => FrozenInv
    BY DEF Init, FrozenInv, IsSequence
  <1>2. LinkInv /\ FrozenInv /\ Grows /\ [Next]_vars => FrozenInv'
    <2> SUFFICES ASSUME LinkInv, FrozenInv, Grows, [Next]_vars PROVE FrozenInv'
      OBVIOUS
    <2>1. CASE UNCHANGED instances
      BY <2>1 DEF FrozenInv, Grows
    <2>2. ASSUME NEW c \in Clients, CommitStart(c),
                 instances' = Append(instances, NewInstance(c))
          PROVE  FrozenInv'
      <3>1. UNCHANGED steps
        BY <2>2 DEF CommitStart, Refuse, catalog
      <3>2. PICK new : new = NewInstance(c)
        OBVIOUS
      <3>3. /\ IsSequence(instances')
            /\ DOMAIN instances' = DOMAIN instances \cup {Len(instances) + 1}
            /\ instances'[Len(instances) + 1] = new
            /\ \A i \in DOMAIN instances : instances'[i] = instances[i]
        BY <2>2, <3>2, Appended DEF FrozenInv
      <3>4. \A id \in DOMAIN new.frozen :
               /\ new.frozen[id].use \in DOMAIN steps /\ Taken(steps, new.frozen[id].use)
               /\ NoLooser(new.frozen[id].cap, steps[new.frozen[id].use].cap)
        BY <2>2, <3>2, FrozenStrict
      <3>5. QED
        BY <3>1, <3>3, <3>4 DEF FrozenInv
    <2>3. QED
      BY <2>1, <2>2, InstancesStep
  <1>3. FrozenInv => TightenOnly
    BY DEF FrozenInv, TightenOnly
  <1>4. QED
    BY <1>1, <1>2, <1>3, StepLinked, Linkage, PTL DEF Spec

-----------------------------------------------------------------------------
\* Keys of starts.

\* Instances with a key are one of a kind, and every accepted start is answered
\* with the instance of its key.
KeyedInv ==
    /\ IsSequence(instances)
    /\ \A i, j \in DOMAIN instances :
          /\ instances[i].saga = instances[j].saga
          /\ instances[i].key = instances[j].key /\ instances[i].key # NoKey
          => i = j
    /\ \A a \in answers : a.req.op = "start" /\ a.code = "ok" =>
          /\ a.value \in DOMAIN instances
          /\ instances[a.value].saga = a.req.saga
          /\ instances[a.value].key = a.req.key

\* A start is accepted with an instance that exists, unless it commits its own.
LEMMA StartAnswers ==
    ASSUME LinkInv, NEW c \in Clients, Handle(c), client[c].req.op = "start"
    PROVE  \/ UNCHANGED answers
           \/ \E code, value : code # "ok" /\ Answers(c, code, value)
           \/ \E i \in Started(client[c].req) : Answers(c, "ok", i)
           \/ CommitStart(c) /\ instances' = Append(instances, NewInstance(c))
  <1> USE DEF Answers, Refuse, Answer, Proceed
  <1>1. ClientOK(c)
    BY DEF LinkInv, ClientsOK
  <1>2. At(c, "idle") \/ Stage(client[c].pc, "start")
    BY <1>1 DEF ClientOK
  <1>3. CASE Send(c) \/ LoadStep(c)
    BY <1>3 DEF Send, LoadStep
  <1>4. CASE Reject(c)
    BY <1>4 DEF Reject
  <1>5. CASE Definition(c) \/ TxDefinition(c)
    BY <1>5 DEF Definition, TxDefinition, FindDefinition
  <1>6. CASE Key(c) \/ TxKey(c)
    <2>1. CASE Repeated(c)
      <3>1. CASE Started(client[c].req) # {}
        <4>1. (CHOOSE i \in Started(client[c].req) : TRUE) \in Started(client[c].req)
          BY <3>1
        <4>2. Answers(c, "ok", CHOOSE i \in Started(client[c].req) : TRUE)
          BY <2>1, <3>1 DEF Repeated
        <4>3. QED
          BY <4>1, <4>2
      <3>2. CASE Started(client[c].req) = {}
        BY <2>1, <3>2 DEF Repeated
      <3>3. QED
        BY <3>1, <3>2
    <2>2. CASE UNCHANGED answers
      BY <2>2
    <2>3. QED
      BY <1>6, <2>1, <2>2 DEF Key, TxKey
  <1>7. CASE Freeze(c)
    BY <1>7 DEF Freeze, Linked
  <1>8. CASE CommitStart(c)
    BY <1>8 DEF CommitStart
  <1>9. /\ ~ CreateWorker(c) /\ ~ StepWorker(c) /\ ~ CreateStep(c) /\ ~ LinkGraph(c)
        /\ ~ SagaWorkers(c) /\ ~ Children(c) /\ ~ UpsertSaga(c) /\ ~ InsertSaga(c)
        /\ ~ ReadRow(c) /\ ~ WriteFlag(c) /\ ~ FindToken(c) /\ ~ Apply(c) /\ ~ Save(c)
    BY <1>2 DEF CreateWorker, StepWorker, CreateStep, LinkGraph, SagaWorkers, Children,
                UpsertSaga, InsertSaga, ReadRow, WriteFlag, FindToken, Apply, Save, At, Stage
  <1>10. QED
    BY <1>3, <1>4, <1>5, <1>6, <1>7, <1>8, <1>9 DEF Handle

\* Whatever a step does, it gives one answer at most.
LEMMA SomeAnswer ==
    ASSUME NEW c \in Clients, Handle(c)
    PROVE  UNCHANGED answers \/ \E code, value : Answers(c, code, value)
  <1>1. LinkGraph(c) \/ Freeze(c) => UNCHANGED answers \/ \E code : Answers(c, code, 0)
    BY DEF LinkGraph, Freeze, Linked, Refuse, Answer, Proceed, Answers
  <1>2. QED
    BY <1>1, UnlinkedAnswers

\* A key starts one saga of a definition, however many requests carry it: the
\* unique index decides when they pass the look-ups together, and everybody who
\* is accepted is told that saga.
THEOREM StartsAreUnique == Spec => []StartedOnce
  <1>1. Init => KeyedInv
    BY DEF Init, KeyedInv, IsSequence
  <1>2. LinkInv /\ KeyedInv /\ [Next]_vars => KeyedInv'
    <2> SUFFICES ASSUME LinkInv, KeyedInv, [Next]_vars PROVE KeyedInv'
      OBVIOUS
    <2>1. CASE UNCHANGED <<instances, answers>>
      BY <2>1 DEF KeyedInv
    <2>2. ASSUME NEW c \in Clients, UNCHANGED instances, NEW code, NEW value,
                 Answers(c, code, value),
                 client[c].req.op = "start" /\ code = "ok" => value \in Started(client[c].req)
          PROVE  KeyedInv'
      <3>1. ASSUME NEW a \in answers', a.req.op = "start", a.code = "ok"
            PROVE  /\ a.value \in DOMAIN instances
                   /\ instances[a.value].saga = a.req.saga
                   /\ instances[a.value].key = a.req.key
        BY <2>2, <3>1, OneAnswer DEF KeyedInv, Started, Keyed
      <3>2. QED
        BY <2>2, <3>1 DEF KeyedInv
    <2>3. ASSUME NEW c \in Clients, Started(client[c].req) = {},
                 instances' = Append(instances, NewInstance(c)),
                 Answers(c, "ok", Len(instances) + 1)
          PROVE  KeyedInv'
      <3>1. PICK new, last : new = NewInstance(c) /\ last = Len(instances) + 1
        OBVIOUS
      <3>2. new.saga = client[c].req.saga /\ new.key = client[c].req.key
        BY <3>1 DEF NewInstance
      <3>3. /\ IsSequence(instances')
            /\ DOMAIN instances' = DOMAIN instances \cup {last} /\ last \notin DOMAIN instances
            /\ instances'[last] = new
            /\ \A i \in DOMAIN instances : instances'[i] = instances[i]
        BY <2>3, <3>1, Appended DEF KeyedInv
      <3>4. \A i \in DOMAIN instances :
               ~ (instances[i].saga = new.saga /\ instances[i].key = new.key /\ new.key # NoKey)
        BY <2>3, <3>2 DEF Started, Keyed
      <3>5. ASSUME NEW i \in DOMAIN instances', NEW j \in DOMAIN instances',
                   instances'[i].saga = instances'[j].saga,
                   instances'[i].key = instances'[j].key, instances'[i].key # NoKey
            PROVE  i = j
        BY <3>3, <3>4, <3>5 DEF KeyedInv
      <3>6. ASSUME NEW a \in answers', a.req.op = "start", a.code = "ok"
            PROVE  /\ a.value \in DOMAIN instances'
                   /\ instances'[a.value].saga = a.req.saga
                   /\ instances'[a.value].key = a.req.key
        <4>1. CASE a \in answers
          BY <3>3, <3>6, <4>1 DEF KeyedInv
        <4>2. CASE a.req = client[c].req /\ a.value = last
          BY <3>2, <3>3, <4>2
        <4>3. QED
          BY <2>3, <3>1, <4>1, <4>2, OneAnswer
      <3>7. QED
        BY <3>3, <3>5, <3>6 DEF KeyedInv
    <2>4. WorkerActs \/ Crash \/ UNCHANGED vars => UNCHANGED <<instances, answers>>
      BY DEF WorkerActs, Crash, vars
    <2>5. ASSUME NEW c \in Clients, Handle(c), UNCHANGED instances PROVE KeyedInv'
      <3>1. CASE client[c].req.op = "start"
        <4>1. ~ (CommitStart(c) /\ instances' = Append(instances, NewInstance(c)))
          BY <2>5, Appended DEF KeyedInv
        <4>2. QED
          BY <2>1, <2>2, <2>5, <3>1, <4>1, StartAnswers
      <3>2. CASE client[c].req.op # "start"
        BY <2>1, <2>2, <2>5, <3>2, SomeAnswer
      <3>3. QED
        BY <3>1, <3>2
    <2>6. QED
      BY <2>1, <2>3, <2>4, <2>5, InstancesStep DEF Next
  <1>3. KeyedInv => StartedOnce
    BY DEF KeyedInv, StartedOnce
  <1>4. QED
    BY <1>1, <1>2, <1>3, Linkage, PTL DEF Spec

-----------------------------------------------------------------------------
\* Recovery tokens.

\* A token has one stored answer, and a recovery accepted under a token was
\* answered with it.
TokensInv ==
    /\ \A t, u \in tokens : t.key = u.key => t = u
    /\ \A a \in answers : a.req.op = "recover" /\ a.code = "ok" /\ a.req.token # NoKey =>
          \E t \in tokens : /\ t.key = DedupKey(a.req) /\ t.fingerprint = Fingerprint(a.req)
                            /\ t.value = a.value

Stored(req, value) ==
    [key |-> DedupKey(req), fingerprint |-> Fingerprint(req), value |-> value]

\* A recovery is accepted with the answer stored under its token, or stores its
\* own under a token nobody used.
LEMMA RecoverAnswers ==
    ASSUME LinkInv, NEW c \in Clients, Handle(c), client[c].req.op = "recover"
    PROVE  LET req == client[c].req
           IN  \/ UNCHANGED <<answers, tokens>>
               \/ /\ UNCHANGED tokens
                  /\ \E code, value : /\ code = "ok" => req.token = NoKey
                                      /\ Answers(c, code, value)
               \/ /\ UNCHANGED tokens
                  /\ \E t \in tokens : /\ t.key = DedupKey(req)
                                       /\ t.fingerprint = Fingerprint(req)
                                       /\ Answers(c, "ok", t.value)
               \/ \E value : /\ \A t \in tokens : t.key # DedupKey(req)
                             /\ tokens' = tokens \cup {Stored(req, value)}
                             /\ Answers(c, "ok", value)
  <1>1. PICK req : req = client[c].req
    OBVIOUS
  <1>2. At(c, "idle") \/ Stage(client[c].pc, "recover")
    BY DEF LinkInv, ClientsOK, ClientOK
  <1>3. ASSUME NEW code, Refuse(c, code) PROVE UNCHANGED tokens /\ Answers(c, code, 0)
    BY <1>3 DEF Refuse, Answer, Answers
  <1>4. CASE Send(c)
    BY <1>4 DEF Send
  <1>5. CASE Reject(c)
    BY <1>3, <1>5 DEF Reject
  <1>6. CASE FindToken(c)
    <2>1. CASE Proceed(c, "apply")
      BY <2>1 DEF Proceed
    <2>2. ASSUME NEW t \in tokens, t.key = DedupKey(req), ReplayOrConflict(c, t)
          PROVE  \/ UNCHANGED tokens /\ Answers(c, "conflict", 0)
                 \/ /\ UNCHANGED tokens /\ t.fingerprint = Fingerprint(req)
                    /\ Answers(c, "ok", t.value)
      BY <1>1, <1>3, <2>2 DEF ReplayOrConflict, Answer, Answers
    <2>3. \/ Proceed(c, "apply")
          \/ \E t \in tokens : t.key = DedupKey(req) /\ ReplayOrConflict(c, t)
      BY <1>1, <1>6 DEF FindToken
    <2>4. QED
      BY <1>1, <2>1, <2>2, <2>3
  <1>7. CASE Apply(c)
    <2>1. Apply(c) => UNCHANGED <<answers, tokens>> \/ Refuse(c, "conflict")
      BY DEF Apply
    <2>2. QED
      BY <1>3, <1>7, <2>1
  <1>8. CASE Save(c)
    <2> DEFINE refused == \/ req.kind = "retry-compensation" /\ Claimed(req)
                          \/ req.token # NoKey /\ \E t \in tokens : t.key = DedupKey(req)
    <2>1. CASE refused
      <3>1. UNCHANGED tokens /\ Answers(c, "error", 0)
        BY <1>1, <1>8, <2>1 DEF Save, Answer, Answers
      <3>2. QED
        BY <3>1
    <2>2. CASE ~ refused
      <3>1. tokens' = Store(req) /\ Answers(c, "ok", Outcome(req))
        BY <1>1, <1>8, <2>2 DEF Save, Answer, Answers
      <3>2. CASE req.token = NoKey
        BY <1>1, <3>1, <3>2 DEF Store
      <3>3. CASE req.token # NoKey
        BY <1>1, <2>2, <3>1, <3>3 DEF Store, Stored
      <3>4. QED
        BY <3>2, <3>3
    <2>3. QED
      BY <2>1, <2>2
  <1>9. ~ At(c, "idle") => client[c].pc \in {"invalid", "token", "apply", "save"}
    BY <1>2 DEF Stage
  <1>10. /\ ~ CreateWorker(c) /\ ~ StepWorker(c) /\ ~ CreateStep(c) /\ ~ LinkGraph(c)
         /\ ~ SagaWorkers(c) /\ ~ Children(c) /\ ~ UpsertSaga(c) /\ ~ InsertSaga(c)
         /\ ~ ReadRow(c) /\ ~ WriteFlag(c) /\ ~ LoadStep(c)
    BY <1>9 DEF CreateWorker, StepWorker, CreateStep, LinkGraph, SagaWorkers, Children,
                UpsertSaga, InsertSaga, ReadRow, WriteFlag, LoadStep, Linked, At
  <1>11. /\ ~ Definition(c) /\ ~ Key(c) /\ ~ TxDefinition(c) /\ ~ TxKey(c) /\ ~ Freeze(c)
         /\ ~ CommitStart(c)
    BY <1>9 DEF Definition, Key, TxDefinition, TxKey, Freeze, Linked, CommitStart, At
  <1>12. QED
    BY <1>4, <1>5, <1>6, <1>7, <1>8, <1>10, <1>11 DEF Handle

\* Only a recovery stores an answer.
LEMMA TokensStep ==
    ASSUME LinkInv, NEW c \in Clients, Handle(c), client[c].req.op # "recover"
    PROVE  UNCHANGED tokens
  <1> USE DEF Refuse, Proceed
  <1>1. CASE Send(c) \/ Reject(c) \/ CreateWorker(c) \/ StepWorker(c) \/ CreateStep(c)
    BY <1>1 DEF Send, Reject, CreateWorker, StepWorker, CreateStep, WriteStep
  <1>2. CASE LoadStep(c) \/ LinkGraph(c) \/ SagaWorkers(c) \/ Children(c)
    BY <1>2 DEF LoadStep, LinkGraph, Linked, SagaWorkers, Children
  <1>3. CASE UpsertSaga(c) \/ InsertSaga(c) \/ ReadRow(c) \/ WriteFlag(c)
    BY <1>3 DEF UpsertSaga, InsertSaga, StoreGraph, ReadRow, WriteFlag
  <1>4. CASE Definition(c) \/ Key(c) \/ TxDefinition(c) \/ TxKey(c) \/ Freeze(c)
    BY <1>4 DEF Definition, FindDefinition, Key, Repeated, TxDefinition, TxKey, Freeze, Linked
  <1>5. CASE CommitStart(c)
    BY <1>5 DEF CommitStart
  <1>6. ~ FindToken(c) /\ ~ Apply(c) /\ ~ Save(c)
    BY DEF LinkInv, ClientsOK, ClientOK, Stage, FindToken, Apply, Save, At
  <1>7. QED
    BY <1>1, <1>2, <1>3, <1>4, <1>5, <1>6 DEF Handle

\* Requests accepted under one recovery token are one recovery, also when they
\* raced past the look-up of the stored answer.
THEOREM RecoveriesAreUnique == Spec => []RecoveredOnce
  <1>1. Init => TokensInv
    BY DEF Init, TokensInv
  <1>2. LinkInv /\ TokensInv /\ [Next]_vars => TokensInv'
    <2> SUFFICES ASSUME LinkInv, TokensInv, [Next]_vars PROVE TokensInv'
      OBVIOUS
    <2>1. CASE UNCHANGED <<answers, tokens>>
      BY <2>1 DEF TokensInv
    <2>2. ASSUME NEW c \in Clients, NEW code, NEW value, Answers(c, code, value),
                 UNCHANGED tokens,
                 client[c].req.op = "recover" /\ code = "ok" /\ client[c].req.token # NoKey =>
                    \E t \in tokens : /\ t.key = DedupKey(client[c].req)
                                      /\ t.fingerprint = Fingerprint(client[c].req)
                                      /\ t.value = value
          PROVE  TokensInv'
      <3>1. ASSUME NEW a \in answers', a.req.op = "recover", a.code = "ok", a.req.token # NoKey
            PROVE  \E t \in tokens : /\ t.key = DedupKey(a.req)
                                     /\ t.fingerprint = Fingerprint(a.req)
                                     /\ t.value = a.value
        BY <2>2, <3>1, OneAnswer DEF TokensInv
      <3>2. QED
        BY <2>2, <3>1 DEF TokensInv, DedupKey, Fingerprint
    <2>3. ASSUME NEW c \in Clients, NEW value, Answers(c, "ok", value),
                 \A t \in tokens : t.key # DedupKey(client[c].req),
                 tokens' = tokens \cup {Stored(client[c].req, value)}
          PROVE  TokensInv'
      <3>1. PICK new : new = Stored(client[c].req, value)
        OBVIOUS
      <3>2. /\ new.key = DedupKey(client[c].req) /\ new.value = value
            /\ new.fingerprint = Fingerprint(client[c].req)
        BY <3>1 DEF Stored
      <3>3. \A t \in tokens : t.key # new.key
        BY <2>3, <3>2
      <3>4. \A t, u \in tokens' : t.key = u.key => t = u
        BY <2>3, <3>1, <3>3 DEF TokensInv
      <3>5. ASSUME NEW a \in answers', a.req.op = "recover", a.code = "ok", a.req.token # NoKey
            PROVE  \E t \in tokens' : /\ t.key = DedupKey(a.req)
                                      /\ t.fingerprint = Fingerprint(a.req)
                                      /\ t.value = a.value
        BY <2>3, <3>1, <3>2, <3>5, OneAnswer DEF TokensInv
      <3>6. QED
        BY <3>4, <3>5 DEF TokensInv, DedupKey, Fingerprint
    <2>4. WorkerActs \/ Crash \/ UNCHANGED vars => UNCHANGED <<answers, tokens>>
      BY DEF WorkerActs, Crash, vars
    <2>5. ASSUME NEW c \in Clients, Handle(c) PROVE TokensInv'
      <3>1. CASE client[c].req.op = "recover"
        BY <2>1, <2>2, <2>3, <2>5, <3>1, RecoverAnswers
      <3>2. CASE client[c].req.op # "recover"
        BY <2>1, <2>2, <2>5, <3>2, SomeAnswer, TokensStep
      <3>3. QED
        BY <3>1, <3>2
    <2>6. QED
      BY <2>1, <2>4, <2>5 DEF Next
  <1>3. TokensInv => RecoveredOnce
    BY DEF TokensInv, RecoveredOnce
  <1>4. QED
    BY <1>1, <1>2, <1>3, Linkage, PTL DEF Spec

-----------------------------------------------------------------------------
\* Switches.

\* Deployments keep the flag of a row that is there, and register active rows.
LEMMA SagasKept ==
    ASSUME LinkInv, NEW c \in Clients, Handle(c), ~ WriteFlag(c)
    PROVE  \/ UNCHANGED sagas
           \/ \E id \in DOMAIN sagas :
                 /\ DOMAIN sagas' = DOMAIN sagas
                 /\ \A g \in DOMAIN sagas \ {id} : sagas'[g] = sagas[g]
                 /\ \/ ~ Taken(sagas, id) /\ sagas'[id].state = "active"
                    \/ sagas'[id].state = sagas[id].state
  <1>1. CASE ~ UpsertSaga(c) /\ ~ InsertSaga(c)
    <2> USE DEF Refuse, Proceed, catalog
    <2>1. CASE Send(c) \/ Reject(c) \/ CreateWorker(c) \/ StepWorker(c) \/ CreateStep(c)
      BY <2>1 DEF Send, Reject, CreateWorker, StepWorker, CreateStep, WriteStep
    <2>2. CASE LoadStep(c) \/ LinkGraph(c) \/ SagaWorkers(c) \/ Children(c) \/ ReadRow(c)
      BY <2>2 DEF LoadStep, LinkGraph, Linked, SagaWorkers, Children, ReadRow
    <2>3. CASE Definition(c) \/ Key(c) \/ TxDefinition(c) \/ TxKey(c) \/ Freeze(c)
      BY <2>3 DEF Definition, FindDefinition, Key, Repeated, TxDefinition, TxKey, Freeze, Linked
    <2>4. CASE CommitStart(c) \/ FindToken(c) \/ Apply(c) \/ Save(c)
      BY <2>4 DEF CommitStart, FindToken, ReplayOrConflict, Apply, Save
    <2>5. QED
      BY <1>1, <2>1, <2>2, <2>3, <2>4 DEF Handle
  <1>2. CASE UpsertSaga(c) \/ InsertSaga(c)
    <2>1. PICK id : id = client[c].req.id
      OBVIOUS
    <2>2. client[c].pc \in {"upsert", "insert"} /\ ClientOK(c)
      BY <1>2 DEF UpsertSaga, InsertSaga, At, LinkInv, ClientsOK
    <2>3. client[c].req.op = "saga" /\ client[c].req \in requests
      BY <2>2 DEF ClientOK, Stage, At
    <2>4. id \in DOMAIN sagas
      BY <2>1, <2>3 DEF LinkInv, RequestsOK, RequestFits
    <2>5. \/ UNCHANGED sagas
          \/ StoreGraph(c, sagas[id].state)
          \/ ~ Taken(sagas, id) /\ StoreGraph(c, "active")
      BY <1>2, <2>1 DEF UpsertSaga, InsertSaga, Refuse, Proceed, catalog
    <2>6. ASSUME NEW state, StoreGraph(c, state)
          PROVE  /\ DOMAIN sagas' = DOMAIN sagas /\ sagas'[id].state = state
                 /\ \A g \in DOMAIN sagas \ {id} : sagas'[g] = sagas[g]
      BY <2>1, <2>4, <2>6 DEF StoreGraph
    <2>7. QED
      BY <2>4, <2>5, <2>6
  <1>3. QED
    BY <1>1, <1>2

\* A definition of a saga is written by a deployment, which keeps the flag of a
\* row that is there, or by a switch, which keeps its graph.
LEMMA SagasStep ==
    ASSUME LinkInv, [Next]_vars
    PROVE  \/ UNCHANGED sagas
           \/ \E id \in DOMAIN sagas :
                 /\ DOMAIN sagas' = DOMAIN sagas
                 /\ \A g \in DOMAIN sagas \ {id} : sagas'[g] = sagas[g]
                 /\ \/ ~ Taken(sagas, id) /\ sagas'[id].state = "active"
                    \/ sagas'[id].state = sagas[id].state
                    \/ sagas'[id].graph = sagas[id].graph
  <1>1. ASSUME NEW c \in Clients, WriteFlag(c)
        PROVE  \/ UNCHANGED sagas
               \/ \E id \in DOMAIN sagas :
                     /\ DOMAIN sagas' = DOMAIN sagas
                     /\ \A g \in DOMAIN sagas \ {id} : sagas'[g] = sagas[g]
                     /\ sagas'[id].graph = sagas[id].graph
    <2>1. PICK req : req = client[c].req
      OBVIOUS
    <2>2. /\ req.op = "active" /\ RequestFits(req, workers, steps, sagas)
          /\ CatalogOK
      BY <1>1, <2>1 DEF LinkInv, ClientsOK, ClientOK, Stage, RequestsOK, WriteFlag, At
    <2>3. CASE req.kind = "saga"
      <3>1. req.id \in DOMAIN sagas
        BY <2>2, <2>3 DEF RequestFits
      <3>2. sagas' = [sagas EXCEPT ![req.id].state = Flag(req.on)]
        BY <1>1, <2>1, <2>3 DEF WriteFlag, WithFlag
      <3>3. DOMAIN sagas[req.id] = {"state", "graph"}
        BY <2>2, <3>1, Shapes
      <3>4. QED
        BY <3>1, <3>2, <3>3
    <2>4. CASE req.kind # "saga"
      BY <1>1, <2>1, <2>4 DEF WriteFlag
    <2>5. QED
      BY <2>3, <2>4
  <1>2. WorkerActs \/ Crash \/ UNCHANGED vars => UNCHANGED sagas
    BY DEF WorkerActs, Crash, vars, catalog
  <1>3. QED
    BY <1>1, <1>2, SagasKept DEF Next

\* A deployment never moves the flag of a definition, and a switch never undoes
\* a deployment it overlaps with.
THEOREM WritesAreSeparate == Spec => SeparateWrites
  <1>1. LinkInv /\ [Next]_vars =>
           [\A s \in DOMAIN sagas : sagas[s].state # "absent" =>
               \/ sagas'[s].graph = sagas[s].graph
               \/ sagas'[s].state = sagas[s].state]_vars
    BY SagasStep DEF Taken
  <1>2. QED
    BY <1>1, Linkage, PTL DEF Spec, SeparateWrites

-----------------------------------------------------------------------------
\* What was switched off before a start arrived.

\* A request that is under way starts nothing that was off when it arrived: what
\* it has found active was not, or has been switched on again.
ActiveSoFar(c) ==
    client[c].req.op = "start" =>
       /\ client[c].pc \in {"key", "tx definition", "tx key", "load", "commit"}
            => <<"saga", client[c].req.saga>> \notin client[c].off
       /\ client[c].pc \in {"load", "commit"} =>
            \A n \in Uses(Graph(c)) : n.use \notin client[c].todo =>
               n.use \in client[c].inactive \/ <<"step", n.use>> \notin client[c].off
       /\ At(c, "commit") => client[c].todo = {} /\ client[c].inactive = {}

SwitchedInv == \A c \in Clients : client[c].off \subseteq Off /\ ActiveSoFar(c)

\* Only a switch changes a step that is registered.
LEMMA StepsKept ==
    ASSUME LinkInv, NEW c \in Clients, Handle(c), ~ WriteFlag(c)
    PROVE  /\ DOMAIN steps' = DOMAIN steps
           /\ \A s \in DOMAIN steps : Taken(steps, s) => steps'[s] = steps[s]
  <1> USE DEF Refuse, Proceed, catalog
  <1>1. CASE Send(c) \/ Reject(c) \/ CreateWorker(c) \/ StepWorker(c)
    BY <1>1 DEF Send, Reject, CreateWorker, StepWorker
  <1>2. CASE CreateStep(c)
    BY <1>2 DEF CreateStep, WriteStep
  <1>3. CASE LoadStep(c) \/ LinkGraph(c) \/ SagaWorkers(c) \/ Children(c) \/ ReadRow(c)
    BY <1>3 DEF LoadStep, LinkGraph, Linked, SagaWorkers, Children, ReadRow
  <1>4. CASE UpsertSaga(c) \/ InsertSaga(c)
    BY <1>4 DEF UpsertSaga, InsertSaga, StoreGraph
  <1>5. CASE Definition(c) \/ Key(c) \/ TxDefinition(c) \/ TxKey(c) \/ Freeze(c)
    BY <1>5 DEF Definition, FindDefinition, Key, Repeated, TxDefinition, TxKey, Freeze, Linked
  <1>6. CASE CommitStart(c) \/ FindToken(c) \/ Apply(c) \/ Save(c)
    BY <1>6 DEF CommitStart, FindToken, ReplayOrConflict, Apply, Save
  <1>7. QED
    BY <1>1, <1>2, <1>3, <1>4, <1>5, <1>6 DEF Handle

\* What is off stays off unless it is switched on.
LEMMA OffKept ==
    ASSUME LinkInv, NEW c \in Clients, Handle(c), ~ WriteFlag(c)
    PROVE  Off \subseteq Off'
  <1>1. \A g \in DOMAIN sagas : sagas[g].state = "inactive" =>
           g \in DOMAIN sagas' /\ sagas'[g].state = "inactive"
    BY SagasKept DEF Taken
  <1>2. \A s \in DOMAIN steps : steps[s].state = "inactive" =>
           s \in DOMAIN steps' /\ steps'[s].state = "inactive"
    BY StepsKept DEF Taken
  <1>3. QED
    BY <1>1, <1>2 DEF Off

\* What a switch turns on is all that is off no more.
LEMMA OffSwitched ==
    ASSUME LinkInv, NEW c \in Clients, WriteFlag(c), NEW x \in Off, x \notin Off'
    PROVE  client[c].req.on /\ x = <<client[c].req.kind, client[c].req.id>>
  <1>1. PICK req : req = client[c].req
    OBVIOUS
  <1>2. /\ req.op = "active" /\ RequestFits(req, workers, steps, sagas)
        /\ CatalogOK
    BY <1>1 DEF LinkInv, ClientsOK, ClientOK, Stage, RequestsOK, WriteFlag, At
  <1>3. /\ steps' = IF req.kind = "step" THEN WithFlag(steps, req) ELSE steps
        /\ sagas' = IF req.kind = "saga" THEN WithFlag(sagas, req) ELSE sagas
    BY <1>1 DEF WriteFlag
  <1>4. /\ \A s \in DOMAIN steps : DOMAIN steps[s] = {"state", "cap"}
        /\ \A g \in DOMAIN sagas : DOMAIN sagas[g] = {"state", "graph"}
    BY <1>2, Shapes
  <1>5. ASSUME NEW s \in DOMAIN steps, steps[s].state = "inactive"
        PROVE  \/ s \in DOMAIN steps' /\ steps'[s].state = "inactive"
               \/ req.on /\ req.kind = "step" /\ s = req.id
    BY <1>3, <1>4, <1>5 DEF WithFlag, Flag
  <1>6. ASSUME NEW g \in DOMAIN sagas, sagas[g].state = "inactive"
        PROVE  \/ g \in DOMAIN sagas' /\ sagas'[g].state = "inactive"
               \/ req.on /\ req.kind = "saga" /\ g = req.id
    BY <1>3, <1>4, <1>6 DEF WithFlag, Flag
  <1>7. CASE \E s \in DOMAIN steps : steps[s].state = "inactive" /\ x = <<"step", s>>
    BY <1>1, <1>5, <1>7 DEF Off
  <1>8. CASE \E g \in DOMAIN sagas : sagas[g].state = "inactive" /\ x = <<"saga", g>>
    BY <1>1, <1>6, <1>8 DEF Off
  <1>9. QED
    BY <1>7, <1>8 DEF Off

\* A request that another one does not touch has found nothing else.
LEMMA StaysActive ==
    ASSUME NEW d \in Clients, Still(d), ActiveSoFar(d), client'[d].off \subseteq client[d].off
    PROVE  ActiveSoFar(d)'
  <1>1. Graph(d)' = Graph(d)
    BY DEF Graph, Still
  <1>2. QED
    BY <1>1 DEF ActiveSoFar, Still, At

\* An ended request remembers nothing.
LEMMA EndedActive ==
    ASSUME NEW c \in Clients, client'[c] = Idle
    PROVE  client'[c].off = {} /\ ActiveSoFar(c)'
  <1>1. client'[c].off = {} /\ client'[c].req.op = "none"
    BY DEF Idle, None
  <1>2. QED
    BY <1>1 DEF ActiveSoFar

\* A request that is not a start only has to remember what it did.
LEMMA OthersActive ==
    ASSUME NEW c \in Clients, client'[c].req = client[c].req, client[c].req.op # "start"
    PROVE  ActiveSoFar(c)'
  BY DEF ActiveSoFar

\* A request goes on to the next check, or to the write.
Advances(c) ==
    \/ \E pc \in {"create step", "saga workers", "children", "upsert", "insert", "apply"} :
          Goto(c, pc)
    \/ Apply(c) /\ Goto(c, "save")

\* The ways a request moves on that is not switching a definition.
LEMMA RequestMoves ==
    ASSUME LinkInv, NEW c \in Clients, Handle(c), ~ WriteFlag(c)
    PROVE  \/ client' = [client EXCEPT ![c] = Idle]
           \/ Send(c)
           \/ LoadStep(c)
           \/ ReadRow(c) /\ \E row : client' = [client EXCEPT ![c].pc = "write", ![c].row = row]
           \/ client[c].req.op # "start" /\ Advances(c)
           \/ Definition(c) /\ FindDefinition(c, "key")
           \/ TxDefinition(c) /\ FindDefinition(c, "tx key")
           \/ Key(c) /\ client' = [client EXCEPT ![c].pc = "tx definition"]
           \/ TxKey(c) /\ client' = [client EXCEPT ![c].pc = "load",
                                                   ![c].todo = {n.use : n \in Uses(Graph(c))}]
           \/ /\ At(c, "load") /\ client[c].todo = {} /\ client[c].inactive = {}
              /\ client' = [client EXCEPT ![c].pc = "commit"]
  <1> DEFINE Ended == client' = [client EXCEPT ![c] = Idle]
  <1>1. ASSUME NEW code, Refuse(c, code) PROVE Ended
    BY <1>1 DEF Refuse, Answer
  <1>2. ASSUME NEW code, NEW value, Answer(c, code, value) PROVE Ended
    BY <1>2 DEF Answer
  <1>3. ASSUME NEW pc, Proceed(c, pc) PROVE Goto(c, pc)
    BY <1>3 DEF Proceed
  <1>4. Reject(c) \/ CreateWorker(c) \/ CommitStart(c) \/ Save(c) \/ InsertSaga(c)
          \/ CreateStep(c) => Ended
    BY <1>1, <1>2 DEF Reject, CreateWorker, CommitStart, Save, InsertSaga, StoreGraph,
                      CreateStep, WriteStep
  <1>5. StepWorker(c) \/ SagaWorkers(c) \/ Children(c) \/ UpsertSaga(c) \/ LinkGraph(c)
          \/ FindToken(c) \/ Apply(c) => Ended \/ Advances(c)
    <2>1. StepWorker(c) => Ended \/ Goto(c, "create step")
      BY <1>1, <1>3 DEF StepWorker
    <2>2. SagaWorkers(c) => Ended \/ Goto(c, "children")
      BY <1>1, <1>3 DEF SagaWorkers
    <2>3. Children(c) => Ended \/ Goto(c, "upsert")
      BY <1>1, <1>3 DEF Children
    <2>4. UpsertSaga(c) => Ended \/ Goto(c, "insert")
      BY <1>2, <1>3 DEF UpsertSaga, StoreGraph
    <2>5. LinkGraph(c) => Ended \/ Goto(c, "saga workers")
      BY <1>1, <1>3 DEF LinkGraph, Linked
    <2>6. FindToken(c) => Ended \/ Goto(c, "apply")
      BY <1>1, <1>2, <1>3 DEF FindToken, ReplayOrConflict
    <2>7. Apply(c) => Ended \/ Goto(c, "save")
      BY <1>1 DEF Apply
    <2>8. QED
      BY <2>1, <2>2, <2>3, <2>4, <2>5, <2>6, <2>7 DEF Advances
  <1>6. StepWorker(c) \/ SagaWorkers(c) \/ Children(c) \/ UpsertSaga(c) \/ LinkGraph(c)
          \/ FindToken(c) \/ Apply(c) => client[c].req.op # "start"
    <2>1. ClientOK(c)
      BY DEF LinkInv, ClientsOK
    <2>2. StepWorker(c) \/ SagaWorkers(c) \/ Children(c) \/ UpsertSaga(c) \/ FindToken(c)
            \/ Apply(c)
          => client[c].pc \in {"step worker", "saga workers", "children", "upsert", "token", "apply"}
      BY DEF StepWorker, SagaWorkers, Children, UpsertSaga, FindToken, Apply, At
    <2>3. QED
      BY <2>1, <2>2 DEF ClientOK, Stage, At, LinkGraph
  <1>7. ReadRow(c) => Ended \/ \E row : client' = [client EXCEPT ![c].pc = "write", ![c].row = row]
    BY <1>1 DEF ReadRow
  <1>8. /\ Definition(c) => FindDefinition(c, "key")
        /\ TxDefinition(c) => FindDefinition(c, "tx key")
    BY DEF Definition, TxDefinition
  <1>9. Repeated(c) => Ended
    BY <1>1, <1>2 DEF Repeated
  <1>10. Key(c) => Ended \/ client' = [client EXCEPT ![c].pc = "tx definition"]
    BY <1>3, <1>9 DEF Key, Goto
  <1>11. TxKey(c) => \/ Ended
                     \/ client' = [client EXCEPT ![c].pc = "load",
                                                 ![c].todo = {n.use : n \in Uses(Graph(c))}]
    BY <1>9 DEF TxKey
  <1>12. Freeze(c) => \/ Ended
                      \/ /\ At(c, "load") /\ client[c].todo = {} /\ client[c].inactive = {}
                         /\ client' = [client EXCEPT ![c].pc = "commit"]
    BY <1>1, <1>3 DEF Freeze, Linked, Goto
  <1> HIDE DEF Ended
  <1>13. QED
    BY <1>4, <1>5, <1>6, <1>7, <1>8, <1>10, <1>11, <1>12 DEF Handle, Ended

\* A step of a start finds its definition and its steps active, or gives up.
LEMMA MoverActive ==
    ASSUME LinkInv, NEW c \in Clients, Handle(c), ~ WriteFlag(c),
           client[c].off \subseteq Off, ActiveSoFar(c)
    PROVE  /\ DOMAIN client' = Clients /\ \A d \in Clients \ {c} : client'[d] = client[d]
           /\ client'[c].off \subseteq Off
           /\ ActiveSoFar(c)'
  <1>1. PICK req : req = client[c].req
    OBVIOUS
  <1>2. /\ DOMAIN client = Clients /\ ClientOK(c)
        /\ DOMAIN client[c] = ClientFields
    BY DEF LinkInv, ClientsOK, ClientOK
  <1>3. CASE client' = [client EXCEPT ![c] = Idle]
    <2>1. client'[c] = Idle /\ DOMAIN client' = Clients
      BY <1>2, <1>3
    <2>2. QED
      BY <1>3, <2>1, EndedActive
  <1>4. CASE Send(c)
    <2>1. PICK r \in requests : client' = [client EXCEPT ![c] =
              [Idle EXCEPT
                  !.pc = IF Parses(r) THEN First(r) ELSE "invalid",
                  !.req = r,
                  !.todo = IF r.op = "saga" THEN {n.use : n \in Uses(r.graph)} ELSE {},
                  !.off = Off]]
      BY <1>4 DEF Send
    <2>2. /\ client'[c].pc = IF Parses(r) THEN First(r) ELSE "invalid"
          /\ client'[c].req = r /\ client'[c].off = Off
      BY <1>2, <2>1 DEF Idle
    <2>3. r.op = "start" => First(r) = "definition"
      BY DEF First
    <2>4. ActiveSoFar(c)'
      BY <2>2, <2>3 DEF ActiveSoFar, At
    <2>5. DOMAIN client' = Clients /\ \A d \in Clients \ {c} : client'[d] = client[d]
      BY <1>2, <2>1
    <2>6. QED
      BY <2>2, <2>4, <2>5
  <1>5. CASE LoadStep(c)
    <2>1. PICK s \in client[c].todo :
              /\ client'[c].pc = "load" /\ client'[c].req = client[c].req
              /\ client'[c].row = client[c].row /\ client'[c].off = client[c].off
              /\ client'[c].todo = client[c].todo \ {s}
              /\ client'[c].inactive = IF steps[s].state = "inactive"
                                       THEN client[c].inactive \cup {s}
                                       ELSE client[c].inactive
      BY <1>5, LoadFields
    <2>2. DOMAIN client' = Clients /\ \A d \in Clients \ {c} : client'[d] = client[d]
      BY <1>2, <1>5 DEF LoadStep
    <2>3. ASSUME req.op = "start" PROVE ActiveSoFar(c)'
      <3>1. PICK graph : graph = Graph(c)
        OBVIOUS
      <3>2. Graph(c)' = graph
        BY <2>1, <3>1 DEF Graph
      <3>3. /\ <<"saga", req.saga>> \notin client[c].off
            /\ \A n \in Uses(graph) : n.use \notin client[c].todo =>
                  n.use \in client[c].inactive \/ <<"step", n.use>> \notin client[c].off
        BY <1>1, <1>5, <2>3, <3>1 DEF ActiveSoFar, LoadStep, At
      <3>4. steps[s].state = "inactive" \/ <<"step", s>> \notin Off
        BY DEF Off
      <3>5. ASSUME NEW n \in Uses(graph), n.use \notin client'[c].todo
            PROVE  n.use \in client'[c].inactive \/ <<"step", n.use>> \notin client'[c].off
        BY <2>1, <3>3, <3>4, <3>5
      <3>6. QED
        BY <1>1, <2>1, <3>2, <3>3, <3>5 DEF ActiveSoFar, At
    <2>4. QED
      BY <1>1, <2>1, <2>2, <2>3, OthersActive
  <1>6. CASE ReadRow(c) /\ \E row : client' = [client EXCEPT ![c].pc = "write", ![c].row = row]
    <2>1. PICK row : client' = [client EXCEPT ![c].pc = "write", ![c].row = row]
      BY <1>6
    <2>2. client'[c] = [client[c] EXCEPT !.pc = "write", !.row = row]
      BY <1>2, <2>1
    <2>3. client'[c].req = client[c].req /\ client'[c].off = client[c].off
      BY <1>2, <2>2 DEF ClientFields
    <2>4. client[c].req.op # "start"
      BY <1>2, <1>6 DEF ReadRow, ClientOK, Stage, At
    <2>5. DOMAIN client' = Clients /\ \A d \in Clients \ {c} : client'[d] = client[d]
      BY <1>2, <2>1
    <2>6. QED
      BY <2>3, <2>4, <2>5, OthersActive
  <1>7. ASSUME NEW pc, client' = [client EXCEPT ![c].pc = pc],
               \/ req.op # "start"
               \/ pc = "tx definition" /\ Key(c)
               \/ pc = "commit" /\ At(c, "load") /\ client[c].todo = {} /\ client[c].inactive = {}
        PROVE  /\ DOMAIN client' = Clients /\ \A d \in Clients \ {c} : client'[d] = client[d]
               /\ client'[c].off \subseteq Off
               /\ ActiveSoFar(c)'
    <2>1. client'[c] = [client[c] EXCEPT !.pc = pc]
      BY <1>2, <1>7
    <2>2. /\ client'[c].pc = pc /\ client'[c].req = req /\ client'[c].off = client[c].off
          /\ client'[c].todo = client[c].todo /\ client'[c].inactive = client[c].inactive
          /\ client'[c].row = client[c].row
      BY <1>1, <1>2, <2>1 DEF ClientFields
    <2>3. Graph(c)' = Graph(c)
      BY <2>2 DEF Graph
    <2>4. DOMAIN client' = Clients /\ \A d \in Clients \ {c} : client'[d] = client[d]
      BY <1>2, <1>7
    <2>5. CASE req.op # "start"
      BY <1>1, <2>2, <2>4, <2>5, OthersActive
    <2>6. CASE pc = "tx definition" /\ Key(c)
      BY <1>1, <2>2, <2>4, <2>6 DEF ActiveSoFar, Key, At
    <2>7. CASE pc = "commit" /\ At(c, "load") /\ client[c].todo = {} /\ client[c].inactive = {}
      BY <1>1, <2>2, <2>3, <2>4, <2>7 DEF ActiveSoFar, At
    <2>8. QED
      BY <1>7, <2>5, <2>6, <2>7
  <1>8. ASSUME NEW next \in {"key", "tx key"}, FindDefinition(c, next),
               client[c].req.op = "start"
        PROVE  /\ DOMAIN client' = Clients /\ \A d \in Clients \ {c} : client'[d] = client[d]
               /\ client'[c].off \subseteq Off
               /\ ActiveSoFar(c)'
    <2>1. CASE \E code : Refuse(c, code)
      BY <1>3, <2>1 DEF Refuse, Answer
    <2>2. CASE /\ sagas[req.saga].state = "active"
               /\ client' = [client EXCEPT ![c].pc = next, ![c].row = {sagas[req.saga]}]
      <3>1. client'[c] = [client[c] EXCEPT !.pc = next, !.row = {sagas[req.saga]}]
        BY <1>2, <2>2
      <3>2. client'[c].pc = next /\ client'[c].req = req /\ client'[c].off = client[c].off
        BY <1>1, <1>2, <3>1 DEF ClientFields
      <3>3. <<"saga", req.saga>> \notin Off
        BY <2>2 DEF Off
      <3>4. ActiveSoFar(c)'
        BY <3>2, <3>3 DEF ActiveSoFar, At
      <3>5. DOMAIN client' = Clients /\ \A d \in Clients \ {c} : client'[d] = client[d]
        BY <1>2, <2>2
      <3>6. QED
        BY <3>2, <3>4, <3>5
    <2>3. QED
      BY <1>1, <1>8, <2>1, <2>2 DEF FindDefinition
  <1>9. Definition(c) \/ TxDefinition(c) => client[c].req.op = "start"
    BY <1>2 DEF Definition, TxDefinition, ClientOK, Stage, At
  <1>10. CASE TxKey(c) /\ client' = [client EXCEPT ![c].pc = "load",
                                                   ![c].todo = {n.use : n \in Uses(Graph(c))}]
    <2>1. PICK graph : graph = Graph(c)
      OBVIOUS
    <2>2. client'[c] = [client[c] EXCEPT !.pc = "load", !.todo = {n.use : n \in Uses(graph)}]
      BY <1>2, <1>10, <2>1
    <2>3. /\ client'[c].pc = "load" /\ client'[c].req = req /\ client'[c].off = client[c].off
          /\ client'[c].todo = {n.use : n \in Uses(graph)} /\ client'[c].row = client[c].row
      BY <1>1, <1>2, <2>2 DEF ClientFields
    <2>4. Graph(c)' = graph
      BY <2>1, <2>3 DEF Graph
    <2>5. ActiveSoFar(c)'
      BY <1>1, <1>10, <2>3, <2>4 DEF ActiveSoFar, TxKey, At
    <2>6. DOMAIN client' = Clients /\ \A d \in Clients \ {c} : client'[d] = client[d]
      BY <1>2, <1>10
    <2>7. QED
      BY <2>3, <2>5, <2>6
  <1>11. ASSUME client[c].req.op # "start", Advances(c)
         PROVE  /\ DOMAIN client' = Clients /\ \A d \in Clients \ {c} : client'[d] = client[d]
                /\ client'[c].off \subseteq Off
                /\ ActiveSoFar(c)'
    <2>1. PICK pc : Goto(c, pc)
      BY <1>11 DEF Advances
    <2>2. client' = [client EXCEPT ![c].pc = pc]
      BY <2>1 DEF Goto
    <2>3. QED
      BY <1>1, <1>7, <1>11, <2>2
  <1>12. QED
    BY <1>1, <1>3, <1>4, <1>5, <1>6, <1>7, <1>8, <1>9, <1>10, <1>11, RequestMoves

\* A step that switches a definition, or is taken outside of the requests.
LEMMA SwitchedStep == LinkInv /\ SwitchedInv /\ [Next]_vars => SwitchedInv'
  <1> SUFFICES ASSUME LinkInv, SwitchedInv, [Next]_vars PROVE SwitchedInv'
    OBVIOUS
  <1>1. ASSUME NEW c \in Clients, Handle(c), ~ WriteFlag(c) PROVE SwitchedInv'
    <2>1. Off \subseteq Off'
      BY <1>1, OffKept
    <2>2. /\ DOMAIN client' = Clients /\ \A d \in Clients \ {c} : client'[d] = client[d]
          /\ client'[c].off \subseteq Off
          /\ ActiveSoFar(c)'
      BY <1>1, MoverActive DEF SwitchedInv
    <2>3. ASSUME NEW d \in Clients \ {c} PROVE client'[d].off \subseteq Off /\ ActiveSoFar(d)'
      <3>1. client[d].off \subseteq Off /\ ActiveSoFar(d) /\ client'[d] = client[d]
        BY <2>2 DEF SwitchedInv
      <3>2. Still(d)
        BY <3>1 DEF Still
      <3>3. QED
        BY <3>1, <3>2, StaysActive
    <2>4. QED
      BY <2>1, <2>2, <2>3 DEF SwitchedInv
  <1>2. ASSUME NEW c \in Clients, WriteFlag(c) PROVE SwitchedInv'
    <2>1. PICK req : req = client[c].req
      OBVIOUS
    <2>2. Forget(c, req)
      BY <1>2, <2>1 DEF WriteFlag
    <2>3. client'[c] = Idle
      BY <2>2 DEF Forget
    <2>4. ASSUME NEW d \in Clients \ {c}
          PROVE  client'[d].off \subseteq Off' /\ ActiveSoFar(d)'
      <3>1. DOMAIN client[d] = ClientFields /\ client[d].off \subseteq Off /\ ActiveSoFar(d)
        BY DEF LinkInv, ClientsOK, ClientOK, SwitchedInv
      <3>2. client'[d] = IF req.on THEN [client[d] EXCEPT !.off = @ \ {<<req.kind, req.id>>}]
                         ELSE client[d]
        BY <2>2 DEF Forget
      <3>3. Still(d)
        BY <3>1, <3>2 DEF Still, ClientFields
      <3>4. client'[d].off = IF req.on THEN client[d].off \ {<<req.kind, req.id>>}
                             ELSE client[d].off
        BY <3>1, <3>2 DEF ClientFields
      <3>5. client'[d].off \subseteq Off'
        BY <1>2, <2>1, <3>1, <3>4, OffSwitched
      <3>6. QED
        BY <3>1, <3>3, <3>4, <3>5, StaysActive
    <2>5. QED
      BY <2>3, <2>4, EndedActive DEF SwitchedInv
  <1>3. CASE WorkerActs \/ UNCHANGED vars
    <2>1. UNCHANGED client /\ UNCHANGED <<steps, sagas>>
      BY <1>3 DEF WorkerActs, vars, catalog
    <2>2. \A d \in Clients : client'[d].off \subseteq Off' /\ Still(d)
      BY <2>1 DEF SwitchedInv, Off, Still
    <2>3. QED
      BY <2>1, <2>2, StaysActive DEF SwitchedInv
  <1>4. CASE Crash
    <2>1. \A d \in Clients : client'[d] = Idle
      BY <1>4 DEF Crash
    <2>2. QED
      BY <2>1, EndedActive DEF SwitchedInv
  <1>5. QED
    BY <1>1, <1>2, <1>3, <1>4 DEF Next

\* A start that commits needs nothing that was switched off before it arrived
\* and was off ever since, whatever was read before the transaction.
THEOREM StartsAreActive == Spec => ActiveAtStart
  <1>1. Init => SwitchedInv
    <2> SUFFICES ASSUME Init, NEW c \in Clients PROVE client[c].off \subseteq Off /\ ActiveSoFar(c)
      BY DEF SwitchedInv
    <2>1. client[c] = Idle
      BY DEF Init
    <2>2. client[c].off = {} /\ client[c].req.op = "none"
      BY <2>1 DEF Idle, None
    <2>3. QED
      BY <2>2 DEF ActiveSoFar
  <1>2. LinkInv /\ SwitchedInv =>
           \A c \in Clients : At(c, "commit") => client[c].off \cap Needs(c) = {}
    <2> SUFFICES ASSUME LinkInv, SwitchedInv, NEW c \in Clients, At(c, "commit")
                 PROVE  client[c].off \cap Needs(c) = {}
      OBVIOUS
    <2>1. ClientOK(c)
      BY DEF LinkInv, ClientsOK
    <2>2. client[c].req.op = "start"
      BY <2>1 DEF ClientOK, Stage, At
    <2>3. ActiveSoFar(c)
      BY DEF SwitchedInv
    <2>4. /\ <<"saga", client[c].req.saga>> \notin client[c].off
          /\ \A n \in Uses(Graph(c)) : <<"step", n.use>> \notin client[c].off
      BY <2>2, <2>3 DEF ActiveSoFar, At
    <2>5. QED
      BY <2>4 DEF Needs
  <1>3. (\A c \in Clients : At(c, "commit") => client[c].off \cap Needs(c) = {}) =>
           [\A c \in Clients :
               At(c, "commit") /\ client'[c] # client[c] /\ instances' # instances
               => client[c].off \cap Needs(c) = {}]_vars
    OBVIOUS
  <1>4. QED
    BY <1>1, <1>2, <1>3, SwitchedStep, Linkage, PTL DEF Spec, ActiveAtStart

-----------------------------------------------------------------------------
\* The type invariant, the lock on the target of recovery and the bounds.

TargetFields == {"status", "claim", "lock", "recoveries"}

\* The transaction that has judged the target holds its rows, and no other.
LockOK ==
    /\ DOMAIN target = TargetFields
    /\ target.lock \subseteq {c \in Clients : At(c, "save")}
    /\ \A c \in Clients : At(c, "save") => target.lock = {c}

BoundsOK == sent \in 0 .. MaxRequests /\ crashes \in 0 .. MaxCrashes

\* An instance is one of a definition that has a row.
OriginOK == IsSequence(instances) /\ \A i \in DOMAIN instances : instances[i].saga \in DOMAIN sagas

TypeInv == LockOK /\ BoundsOK /\ OriginOK

\* Only a recovery touches the target, and only a new request the bounds.
LEMMA TargetKept ==
    ASSUME NEW c \in Clients, Handle(c), ~ Apply(c), ~ Save(c)
    PROVE  UNCHANGED <<target, crashes>> /\ (UNCHANGED sent \/ Send(c)) /\ ~ At(c, "save")
  <1> USE DEF Refuse, Proceed, At
  <1>1. CASE Send(c)
    BY <1>1 DEF Send
  <1>2. CASE Reject(c) \/ CreateWorker(c) \/ StepWorker(c)
    BY <1>2 DEF Reject, CreateWorker, StepWorker
  <1>3. CASE CreateStep(c)
    BY <1>3 DEF CreateStep, WriteStep
  <1>4. CASE LoadStep(c) \/ LinkGraph(c)
    BY <1>4 DEF LoadStep, LinkGraph, Linked
  <1>5. CASE SagaWorkers(c) \/ Children(c)
    BY <1>5 DEF SagaWorkers, Children
  <1>6. CASE UpsertSaga(c) \/ InsertSaga(c)
    BY <1>6 DEF UpsertSaga, InsertSaga, StoreGraph
  <1>7. CASE ReadRow(c) \/ WriteFlag(c)
    BY <1>7 DEF ReadRow, WriteFlag
  <1>8. CASE Definition(c) \/ TxDefinition(c)
    BY <1>8 DEF Definition, TxDefinition, FindDefinition
  <1>9. CASE Key(c) \/ TxKey(c)
    BY <1>9 DEF Key, TxKey, Repeated
  <1>10. CASE Freeze(c) \/ CommitStart(c)
    BY <1>10 DEF Freeze, Linked, CommitStart
  <1>11. CASE FindToken(c)
    BY <1>11 DEF FindToken, ReplayOrConflict
  <1>12. QED
    BY <1>1, <1>2, <1>3, <1>4, <1>5, <1>6, <1>7, <1>8, <1>9, <1>10, <1>11 DEF Handle

\* A request that is not about to save, and has moved no other.
Calm(c) == ~ At(c, "save")' /\ \A d \in Clients \ {c} : client'[d].pc = client[d].pc

\* Only the judgement of the target leads to the step that saves.
LEMMA SavingKept ==
    ASSUME LinkInv, NEW c \in Clients, Handle(c), ~ Apply(c)
    PROVE  Calm(c)
  <1>1. DOMAIN client = Clients /\ \A d \in Clients : DOMAIN client[d] = ClientFields
    BY DEF LinkInv, ClientsOK, ClientOK
  <1> USE DEF At, Calm
  <1>2. CASE WriteFlag(c)
    <2>1. Forget(c, client[c].req)
      BY <1>2 DEF WriteFlag
    <2>2. client'[c].pc = "idle"
      BY <2>1 DEF Forget, Idle
    <2>3. ASSUME NEW d \in Clients \ {c} PROVE client'[d].pc = client[d].pc
      BY <1>1, <2>1 DEF Forget, ClientFields
    <2>4. QED
      BY <2>2, <2>3
  <1>3. CASE client' = [client EXCEPT ![c] = Idle]
    BY <1>1, <1>3 DEF Idle
  <1>4. CASE Send(c)
    <2>1. \A d \in Clients \ {c} : client'[d] = client[d]
      BY <1>1, <1>4 DEF Send
    <2>2. PICK r \in requests : client'[c].pc \in {First(r), "invalid"}
      BY <1>1, <1>4 DEF Send, Idle
    <2>3. RequestFits(r, workers, steps, sagas)
      BY DEF LinkInv, RequestsOK
    <2>4. First(r) # "save"
      BY <2>3 DEF RequestFits, First
    <2>5. QED
      BY <1>1, <2>1, <2>2, <2>4
  <1>5. CASE LoadStep(c)
    <2>1. client'[c].pc = "load"
      BY <1>5, LoadFields
    <2>2. \A d \in Clients \ {c} : client'[d] = client[d]
      BY <1>1, <1>5 DEF LoadStep
    <2>3. QED
      BY <2>1, <2>2
  <1>6. ASSUME NEW pc, pc # "save",
               \/ client' = [client EXCEPT ![c].pc = pc]
               \/ \E row : client' = [client EXCEPT ![c].pc = pc, ![c].row = row]
               \/ \E todo : client' = [client EXCEPT ![c].pc = pc, ![c].todo = todo]
        PROVE  Calm(c)
    <2>1. \/ client'[c] = [client[c] EXCEPT !.pc = pc]
          \/ \E row : client'[c] = [client[c] EXCEPT !.pc = pc, !.row = row]
          \/ \E todo : client'[c] = [client[c] EXCEPT !.pc = pc, !.todo = todo]
      BY <1>1, <1>6
    <2>2. client'[c].pc = pc
      BY <1>1, <2>1 DEF ClientFields
    <2>3. \A d \in Clients \ {c} : client'[d] = client[d]
      BY <1>1, <1>6
    <2>4. QED
      BY <1>6, <2>2, <2>3
  <1>7. Definition(c) /\ FindDefinition(c, "key") =>
           \/ client' = [client EXCEPT ![c] = Idle]
           \/ \E row : client' = [client EXCEPT ![c].pc = "key", ![c].row = row]
    BY DEF FindDefinition, Refuse, Answer
  <1>8. TxDefinition(c) /\ FindDefinition(c, "tx key") =>
           \/ client' = [client EXCEPT ![c] = Idle]
           \/ \E row : client' = [client EXCEPT ![c].pc = "tx key", ![c].row = row]
    BY DEF FindDefinition, Refuse, Answer
  <1>9. CASE ~ WriteFlag(c)
    <2>1. ASSUME Advances(c)
          PROVE  Calm(c)
      <3>1. PICK pc : Goto(c, pc) /\ pc # "save"
        BY <2>1 DEF Advances
      <3>2. QED
        BY <1>6, <3>1 DEF Goto
    <2>2. \A row : client' = [client EXCEPT ![c].pc = "write", ![c].row = row] => Calm(c)
      BY <1>6
    <2>3. client' = [client EXCEPT ![c].pc = "tx definition"] => Calm(c)
      BY <1>6
    <2>4. \A todo : client' = [client EXCEPT ![c].pc = "load", ![c].todo = todo] => Calm(c)
      BY <1>6
    <2>5. client' = [client EXCEPT ![c].pc = "commit"] => Calm(c)
      BY <1>6
    <2>6. Definition(c) /\ FindDefinition(c, "key") => Calm(c)
      BY <1>3, <1>6, <1>7
    <2>7. TxDefinition(c) /\ FindDefinition(c, "tx key") => Calm(c)
      BY <1>3, <1>6, <1>8
    <2> HIDE DEF Calm
    <2>8. QED
      BY <1>3, <1>4, <1>5, <1>9, <2>1, <2>2, <2>3, <2>4, <2>5, <2>6, <2>7, RequestMoves
  <1>10. QED
    BY <1>2, <1>9

\* The steps of a recovery: the rows are locked, or they are let go with the
\* answer.
LEMMA TargetStep ==
    ASSUME LinkInv, LockOK, NEW c \in Clients, Apply(c) \/ Save(c)
    PROVE  LockOK' /\ UNCHANGED <<sent, crashes>>
  <1>1. DOMAIN client = Clients /\ DOMAIN client[c] = ClientFields
    BY DEF LinkInv, ClientsOK, ClientOK
  <1>2. CASE \E code : At(c, "apply") /\ target.lock = {} /\ Refuse(c, code)
    <2>1. client'[c].pc = "idle" /\ \A d \in Clients \ {c} : client'[d] = client[d]
      BY <1>1, <1>2 DEF Refuse, Answer, Idle
    <2>2. UNCHANGED <<target, sent, crashes>>
      BY <1>2 DEF Refuse
    <2>3. QED
      BY <1>2, <2>1, <2>2 DEF LockOK, At
  <1>3. CASE /\ target.lock = {} /\ target' = [target EXCEPT !.lock = {c}]
             /\ Goto(c, "save") /\ UNCHANGED <<sent, crashes>>
    <2>1. client'[c].pc = "save" /\ \A d \in Clients \ {c} : client'[d] = client[d]
      BY <1>1, <1>3 DEF Goto, ClientFields
    <2>2. target'.lock = {c} /\ DOMAIN target' = TargetFields
      BY <1>3 DEF LockOK, TargetFields
    <2>3. \A d \in Clients : ~ At(d, "save")
      BY <1>3 DEF LockOK
    <2>4. QED
      BY <1>3, <2>1, <2>2, <2>3 DEF LockOK, At
  <1>4. CASE Save(c)
    <2>1. PICK req : req = client[c].req
      OBVIOUS
    <2>2. DOMAIN Recovered(req) = TargetFields /\ Recovered(req).lock = {}
      BY DEF Recovered, LockOK, TargetFields
    <2>3. target' = [target EXCEPT !.lock = {}] \/ target' = Recovered(req)
      BY <1>4, <2>1 DEF Save
    <2>4. DOMAIN target' = TargetFields /\ target'.lock = {}
      BY <2>2, <2>3 DEF LockOK, TargetFields
    <2>5. client'[c].pc = "idle" /\ \A d \in Clients \ {c} : client'[d] = client[d]
      BY <1>1, <1>4 DEF Save, Answer, Idle
    <2>6. target.lock = {c}
      BY <1>4 DEF LockOK, Save
    <2>7. \A d \in Clients \ {c} : ~ At(d, "save")
      BY <2>6 DEF LockOK
    <2>8. UNCHANGED <<sent, crashes>>
      BY <1>4 DEF Save
    <2>9. QED
      BY <2>4, <2>5, <2>7, <2>8 DEF LockOK, At
  <1>5. QED
    BY <1>2, <1>3, <1>4 DEF Apply

\* The catalogue holds what the validators let pass, an instance belongs to a
\* definition, and one transaction at a time holds the target of recovery.
THEOREM TypeCorrect == Spec => []TypeOK
  <1>1. Init => TypeInv
    <2> SUFFICES ASSUME Init PROVE TypeInv
      OBVIOUS
    <2>1. PICK w \in Worlds : target = w.target
      BY DEF Init
    <2>2. WorldFits(w)
      BY RequestsAssumption
    <2>3. DOMAIN target = TargetFields /\ target.lock = {}
      BY <2>1, <2>2 DEF WorldFits, TargetFields
    <2>4. \A c \in Clients : ~ At(c, "save")
      BY DEF Init, Idle, At
    <2>5. instances = <<>> /\ sent = 0 /\ crashes = 0
      BY DEF Init
    <2>6. QED
      BY <2>3, <2>4, <2>5, RequestsAssumption
      DEF TypeInv, LockOK, BoundsOK, OriginOK, IsSequence
  <1>2. LinkInv /\ TypeInv /\ Grows /\ [Next]_vars => TypeInv'
    <2> SUFFICES ASSUME LinkInv, TypeInv, Grows, [Next]_vars PROVE TypeInv'
      OBVIOUS
    <2>1. LockOK /\ BoundsOK /\ OriginOK
      BY DEF TypeInv
    <2>2. LockOK' /\ BoundsOK'
      <3>1. ASSUME NEW c \in Clients, Handle(c), ~ Apply(c), ~ Save(c)
            PROVE  LockOK' /\ BoundsOK'
        <4>1. /\ UNCHANGED <<target, crashes>> /\ (UNCHANGED sent \/ Send(c))
              /\ ~ At(c, "save") /\ ~ At(c, "save")'
              /\ \A d \in Clients \ {c} : client'[d].pc = client[d].pc
          BY <3>1, TargetKept, SavingKept DEF Calm
        <4>2. LockOK'
          BY <2>1, <4>1 DEF LockOK, At
        <4>3. sent' = sent \/ (sent < MaxRequests /\ sent' = sent + 1)
          BY <4>1 DEF Send
        <4>4. QED
          BY <2>1, <4>1, <4>2, <4>3, RequestsAssumption DEF BoundsOK
      <3>2. ASSUME NEW c \in Clients, Apply(c) \/ Save(c) PROVE LockOK' /\ BoundsOK'
        BY <2>1, <3>2, TargetStep DEF BoundsOK
      <3>3. CASE WorkerActs
        <4>1. UNCHANGED <<client, sent, crashes>>
          BY <3>3 DEF WorkerActs
        <4>2. DOMAIN target' = TargetFields /\ target'.lock = target.lock
          BY <2>1, <3>3 DEF WorkerActs, LockOK, TargetFields
        <4>3. QED
          BY <2>1, <4>1, <4>2 DEF LockOK, BoundsOK, At
      <3>4. CASE Crash
        <4>1. DOMAIN target' = TargetFields /\ target'.lock = {}
          BY <2>1, <3>4 DEF Crash, LockOK, TargetFields
        <4>2. \A c \in Clients : ~ At(c, "save")'
          BY <3>4 DEF Crash, Idle, At
        <4>3. crashes < MaxCrashes /\ crashes' = crashes + 1 /\ sent' = sent
          BY <3>4 DEF Crash
        <4>4. QED
          BY <2>1, <4>1, <4>2, <4>3, RequestsAssumption DEF LockOK, BoundsOK
      <3>5. CASE UNCHANGED vars
        <4>1. UNCHANGED <<target, client, sent, crashes>>
          BY <3>5 DEF vars
        <4>2. QED
          BY <2>1, <4>1 DEF LockOK, BoundsOK, At
      <3>6. QED
        BY <3>1, <3>2, <3>3, <3>4, <3>5 DEF Next
    <2>3. OriginOK'
      <3>1. CASE UNCHANGED instances
        BY <2>1, <3>1 DEF OriginOK, Grows
      <3>2. ASSUME NEW c \in Clients, CommitStart(c),
                   instances' = Append(instances, NewInstance(c))
            PROVE  OriginOK'
        <4>1. PICK new : new = NewInstance(c)
          OBVIOUS
        <4>2. ClientOK(c) /\ At(c, "commit")
          BY <3>2 DEF LinkInv, ClientsOK, CommitStart
        <4>3. client[c].req \in requests /\ client[c].req.op = "start"
          BY <4>2 DEF ClientOK, Stage, At
        <4>4. new.saga \in DOMAIN sagas
          BY <4>1, <4>3 DEF NewInstance, LinkInv, RequestsOK, RequestFits
        <4>5. /\ IsSequence(instances')
              /\ DOMAIN instances' = DOMAIN instances \cup {Len(instances) + 1}
              /\ instances'[Len(instances) + 1] = new
              /\ \A i \in DOMAIN instances : instances'[i] = instances[i]
          BY <2>1, <3>2, <4>1, Appended DEF OriginOK
        <4>6. DOMAIN sagas' = DOMAIN sagas
          BY DEF Grows
        <4>7. QED
          BY <2>1, <4>4, <4>5, <4>6 DEF OriginOK
      <3>3. QED
        BY <3>1, <3>2, InstancesStep
    <2>4. QED
      BY <2>2, <2>3 DEF TypeInv
  <1>3. LinkInv /\ TypeInv => TypeOK
    <2> SUFFICES ASSUME LinkInv, TypeInv PROVE TypeOK
      OBVIOUS
    <2>1. /\ \A w \in DOMAIN workers : workers[w].state \in {"absent", "active", "inactive"}
          /\ \A s \in DOMAIN steps : steps[s].state = "absent" \/ StepParses(steps[s].cap)
      BY Shapes DEF LinkInv, RowStates, Taken
    <2>2. \A s \in DOMAIN sagas : sagas[s].state = "absent" \/ GraphParses(sagas[s].graph)
      BY DEF LinkInv, CatalogOK, CatalogFits, Taken
    <2>3. QED
      BY <2>1, <2>2 DEF TypeInv, LockOK, BoundsOK, OriginOK, TypeOK
  <1>4. QED
    BY <1>1, <1>2, <1>3, StepLinked, Linkage, PTL DEF Spec

=============================================================================
