----------------------------- MODULE Blueprint -----------------------------
\* The manifests of the catalogue and what the engine computes from them: which
\* step and saga manifests are accepted, and the frozen steps that a saga graph
\* becomes once its references are resolved (hydration with tighten-only
\* overrides).  Pure operators: the requests that use them are in Requests.
\*
\* A step capability is a record
\*   [kind, adapter, tools, bind, ports, fits, required, worker, undo, extras,
\*    hitl, guidance, limit]
\* where fits has the pairs of a port and a literal that its schema accepts,
\* extras says which of "resources", "skills" and "facts" the step lists, and
\* limit gives every numeric guardrail as a set of at most one value (the empty
\* set: not set).  The set undo holds the worker of the step's compensation, if
\* it has one.  The code reads that worker from a file whenever a graph is
\* hydrated; that the files do not change once steps that name them are deployed
\* is assumed.  A reference of a saga to a step is a record
\*   [kind |-> "use", id, use, with, over]
\* where with.keys are the bound ports and with.literals the pairs of a port and
\* the literal it is bound to; the override over has the fields hitl (a set of
\* at most one Boolean), guidance and limit.  A loop holds a sequence of references, a spawn names the
\* saga of its children and a join the spawn it waits for.
EXTENDS Naturals, FiniteSets, Sequences
LOCAL INSTANCE Functions
LOCAL INSTANCE SequencesExt

-----------------------------------------------------------------------------
\* Guardrails.

TokenCaps == {"max_step_tokens", "max_completion_tokens"}
ReasonOnly == TokenCaps \cup {"max_turns"}
Limits == ReasonOnly \cup {"hitl_max_retries", "timeout_seconds"}

NoLimits == [l \in Limits |-> {}]
NoOverride == [hitl |-> {}, guidance |-> FALSE, limit |-> NoLimits]

-----------------------------------------------------------------------------
\* Step manifests.

\* The validators of a catalogue step.
StepParses(cap) ==
    /\ cap.hitl \/ (cap.limit["hitl_max_retries"] = {} /\ ~ cap.guidance)
    /\ "load_skill" \notin cap.tools
    /\ cap.kind = "commit" => Cardinality(cap.tools) = 1 /\ cap.bind = {}
    /\ cap.kind = "reason" => cap.bind \subseteq cap.ports
    /\ cap.adapter = "simple" => cap.tools = {} /\ cap.bind = {} /\ cap.extras = {}

\* Every `with` key is a declared port, every required port is bound, a literal
\* fits its port, and the keys pinned onto tool arguments are bound too.
BindsPorts(cap, with) ==
    /\ with.keys \subseteq cap.ports
    /\ cap.required \subseteq with.keys
    /\ with.literals \subseteq cap.fits
    /\ cap.bind \subseteq with.keys

\* Whether the step waits for a human once the override is applied.
HitlAfter(cap, over) == cap.hitl \/ TRUE \in over.hitl

\* The human-review part of an override is accepted: it cannot clear the
\* catalogue's hitl, and its retry fields need hitl.
ReviewNarrows(cap, over) ==
    /\ FALSE \in over.hitl => ~ cap.hitl
    /\ over.limit["hitl_max_retries"] # {} \/ over.guidance => HitlAfter(cap, over)

\* Mutant: the limit of a human review is not compared with the catalogue's.
LimitsNarrowButRetries(cap, over) ==
    /\ \A l \in ReasonOnly : over.limit[l] # {} => cap.kind = "reason"
    /\ \A l \in TokenCaps : over.limit[l] # {} => cap.limit[l] # {}
    /\ \A l \in Limits \ {"hitl_max_retries"} :
          \A o \in over.limit[l], c \in cap.limit[l] : o <= c

\* The numeric part is accepted: a token cap only where the catalogue sets one,
\* and nothing above the catalogue's value.
LimitsNarrow(cap, over) ==
    /\ \A l \in ReasonOnly : over.limit[l] # {} => cap.kind = "reason"
    /\ \A l \in TokenCaps : over.limit[l] # {} => cap.limit[l] # {}
    /\ \A l \in Limits : \A o \in over.limit[l], c \in cap.limit[l] : o <= c

Narrows(cap, over) == ReviewNarrows(cap, over) /\ LimitsNarrow(cap, over)

Tighten(cap, over) ==
    [cap EXCEPT
        !.hitl = HitlAfter(cap, over),
        !.guidance = @ \/ over.guidance,
        !.limit = [l \in Limits |-> IF over.limit[l] = {} THEN @[l] ELSE over.limit[l]]]

-----------------------------------------------------------------------------
\* Saga graphs.

Nodes(graph) == {graph[i] : i \in DOMAIN graph}

OfKind(graph, kind) == SelectSeq(graph, LAMBDA n : n.kind = kind)

\* The references of a graph, the ones in loop bodies included.
Uses(graph) ==
    {n \in Nodes(graph) : n.kind = "use"}
      \cup UNION {Nodes(n.body) : n \in {m \in Nodes(graph) : m.kind = "loop"}}

Spawned(graph) == {n.saga : n \in {m \in Nodes(graph) : m.kind = "spawn"}}

IdsOf(nodes) == [i \in DOMAIN nodes |-> nodes[i].id]

\* The ids of the executable steps, in order.
ExecutableIds(graph) ==
    FlattenSeq([i \in DOMAIN graph |->
        IF graph[i].kind = "loop" THEN IdsOf(graph[i].body) ELSE <<graph[i].id>>])

\* The validators of a saga manifest: unique ids, loop ids apart from step ids,
\* non-empty bodies, and every join waiting for a spawn of its own.
GraphParses(graph) ==
    LET loops == OfKind(graph, "loop")
        joins == OfKind(graph, "join")
    IN  /\ IsInjective(ExecutableIds(graph))
        /\ IsInjective(IdsOf(loops))
        /\ ToSet(IdsOf(loops)) \cap ToSet(ExecutableIds(graph)) = {}
        /\ \A i \in DOMAIN loops : loops[i].body # <<>>
        /\ {n.spawn : n \in Nodes(joins)} \subseteq ToSet(IdsOf(OfKind(graph, "spawn")))
        /\ IsInjective([i \in DOMAIN joins |-> joins[i].spawn])

\* Hydration: every reference binds the ports of its step and only narrows it.
Hydrates(graph, capOf) ==
    \A n \in Uses(graph) : BindsPorts(capOf[n.use], n.with) /\ Narrows(capOf[n.use], n.over)

\* The frozen steps, by step id.
Hydrated(graph, capOf) ==
    [id \in {n.id : n \in Uses(graph)} |->
        LET ref == CHOOSE n \in Uses(graph) : n.id = id
        IN  [use |-> ref.use, cap |-> Tighten(capOf[ref.use], ref.over)]]

\* The workers a graph needs: of its steps and of their compensations.
Workers(graph, capOf) ==
    UNION {{capOf[n.use].worker} \cup capOf[n.use].undo : n \in Uses(graph)}

-----------------------------------------------------------------------------
\* Reference definition: the frozen step is the catalogue step with guardrails
\* at least as strict.
NoLooser(frozen, cap) ==
    /\ [frozen EXCEPT !.hitl = cap.hitl, !.guidance = cap.guidance, !.limit = cap.limit] = cap
    /\ cap.hitl => frozen.hitl
    /\ \A l \in Limits : \A c \in cap.limit[l] : \E f \in frozen.limit[l] : f <= c
=============================================================================
