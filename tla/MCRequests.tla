---------------------------- MODULE MCRequests ----------------------------
\* Worlds for Requests: deployments, starts, overrides and recoveries.
EXTENDS Requests

Limit(retries, timeout, turns, spend) ==
    [NoLimits EXCEPT !["hitl_max_retries"] = retries, !["timeout_seconds"] = timeout,
                     !["max_turns"] = turns, !["max_step_tokens"] = spend]

\* A reason step under review with one required and one optional port.
Draft ==
    [kind |-> "reason", adapter |-> "react", tools |-> {"search"}, bind |-> {},
     ports |-> {"p", "q"}, fits |-> {<<"p", "text">>}, required |-> {"p"}, worker |-> "w",
     undo |-> {}, extras |-> {}, hitl |-> TRUE, guidance |-> FALSE,
     limit |-> Limit({1}, {2}, {2}, {2})]

\* The same name with another port: what a changed version would hold.
Changed == [Draft EXCEPT !.ports = {"q"}, !.fits = {}, !.required = {"q"}]

\* A commit step whose compensation has a worker of its own.
Charge ==
    [Draft EXCEPT !.kind = "commit", !.tools = {"pay"}, !.ports = {"p"}, !.undo = {"u"},
                  !.hitl = FALSE, !.limit = Limit({}, {2}, {}, {})]

Use(id, use, over) ==
    [kind |-> "use", id |-> id, use |-> use,
     with |-> [keys |-> {"p"}, literals |-> {<<"p", "text">>}], over |-> over]
Plain == <<Use("a", "draft", NoOverride)>>
Paid == <<Use("a", "draft", NoOverride), Use("b", "charge", NoOverride)>>
Nested == <<[kind |-> "loop", id |-> "l", body |-> Plain],
            [kind |-> "spawn", id |-> "s", saga |-> "h"],
            [kind |-> "join", id |-> "j", spawn |-> "s"]>>

Row(state) == [state |-> state]
Step(state, cap) == [state |-> state, cap |-> cap]
Saga(state, graph) == [state |-> state, graph |-> graph]

DeployStep(id, cap) == [op |-> "step", id |-> id, cap |-> cap, dry |-> FALSE]
DeploySaga(id, graph) == [op |-> "saga", id |-> id, graph |-> graph, dry |-> FALSE]
Start(saga, key) == [op |-> "start", saga |-> saga, key |-> key]
Switch(kind, id, on) == [op |-> "active", kind |-> kind, id |-> id, on |-> on]
Recover(kind, token, force) == [op |-> "recover", kind |-> kind, token |-> token, force |-> force]

Quiet == [status |-> "ended", claim |-> FALSE, lock |-> {}, recoveries |-> 0]

\* A catalogue that is being filled.
Deploying ==
    [workers |-> [w |-> Row("active"), u |-> Row("absent")],
     steps |-> [draft |-> Step("absent", Draft), charge |-> Step("active", Charge)],
     sagas |-> [g |-> Saga("absent", Plain), h |-> Saga("absent", Plain)],
     requests |-> {DeployStep("draft", Draft), DeployStep("draft", Changed),
                   DeployStep("draft", [Draft EXCEPT !.fits = {<<"p", "number">>}]),
                   DeployStep("draft", [Draft EXCEPT !.adapter = "simple", !.tools = {},
                                                     !.extras = {"skills"}]),
                   DeploySaga("g", Plain), DeploySaga("g", Paid), DeploySaga("g", Nested),
                   DeploySaga("h", Plain), [DeploySaga("h", Plain) EXCEPT !.dry = TRUE],
                   [op |-> "worker", id |-> "u", dry |-> FALSE],
                   [op |-> "worker", id |-> "u", dry |-> TRUE],
                   [DeployStep("draft", Draft) EXCEPT !.dry = TRUE],
                   Switch("worker", "w", FALSE), Start("g", NoKey)},
     target |-> Quiet]

\* A catalogue in use.
Starting ==
    [workers |-> [w |-> Row("active"), u |-> Row("active")],
     steps |-> [draft |-> Step("active", Draft), charge |-> Step("active", Charge)],
     sagas |-> [g |-> Saga("active", Plain), h |-> Saga("active", Paid)],
     requests |-> {Start("g", "k"), Start("h", "k"), Start("g", NoKey),
                   DeploySaga("g", Nested), DeployStep("draft", Changed),
                   Switch("saga", "g", FALSE), Switch("saga", "g", TRUE),
                   Switch("saga", "h", FALSE),
                   Switch("step", "draft", FALSE), Switch("step", "draft", TRUE)},
     target |-> Quiet]

\* Sagas that override a step.
Overrides ==
    [hitl : {{}, {TRUE}, {FALSE}}, guidance : {FALSE, TRUE},
     limit : {Limit(r, t, {}, k) : r \in {{}, {0}, {2}}, t \in {{}, {1}, {3}}, k \in {{}, {1}, {3}}}
             \cup {Limit({}, {}, n, {}) : n \in {{1}, {3}}}]

Overriding ==
    {[workers |-> [w |-> Row("active"), u |-> Row("active")],
      steps |-> [draft |-> Step("active", cap)],
      sagas |-> [g |-> Saga("absent", Plain)],
      requests |-> {DeploySaga("g", <<Use("a", "draft", over)>>), Start("g", NoKey)},
      target |-> Quiet] :
     cap \in {Draft, [Charge EXCEPT !.undo = {}],
              [Draft EXCEPT !.hitl = FALSE, !.limit = Limit({}, {2}, {2}, {})]},
     over \in Overrides}

\* A step that is being recovered by operators who repeat their requests.
Recovering(status) ==
    [workers |-> [w |-> Row("active")], steps |-> [draft |-> Step("absent", Draft)],
     sagas |-> [g |-> Saga("absent", Plain)],
     requests |-> {Recover("retry-step", "t", TRUE), Recover("retry-step", "t", FALSE),
                   Recover("retry-step", NoKey, FALSE),
                   Recover("retry-forward", "t", FALSE),
                   Recover("start-compensation", "t", FALSE),
                   Recover("retry-compensation", "t", FALSE),
                   Recover("retry-compensation", "t", TRUE)},
     target |-> [Quiet EXCEPT !.status = status]]

AllWorlds ==
    {Deploying, Starting} \cup Overriding \cup {Recovering("running"), Recovering("undoing")}

SharedKey == {Starting}
=============================================================================
