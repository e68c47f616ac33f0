------------------------------ MODULE MCSagaFlow ------------------------------
(***************************************************************************)
(* Instances of SagaFlow for TLC: the blueprints of the runs.              *)
(***************************************************************************)
EXTENDS SagaFlow

Undoable == [kind |-> "worker", comp |-> TRUE, when |-> FALSE]
Plain == [kind |-> "worker", comp |-> FALSE, when |-> FALSE]
Conditional == [kind |-> "worker", comp |-> TRUE, when |-> TRUE]
Fan == [kind |-> "spawn", when |-> FALSE]
Wait(n, zero, when) == [kind |-> "join", when |-> when, of |-> n, zero |-> zero]
Repeat(body, max) == [kind |-> "loop", body |-> body, max |-> max]

\* Two loops one after the other, with a conditional step ending a body.
TwoLoops == <<Undoable, Repeat(<<Undoable, Conditional>>, 3),
              Repeat(<<Conditional>>, 2), Plain>>
\* A fan-out that is joined, inside undoable steps and behind a loop.
Joined == <<Undoable, Fan, Wait(2, FALSE, TRUE), Plain>>
LoopedFan == <<Repeat(<<Undoable>>, 2), Fan, Wait(2, TRUE, FALSE), Plain>>
\* A fan-out that nobody joins.
Unjoined == <<Undoable, Fan, Plain>>

FlowBlueprints == {TwoLoops, Joined, LoopedFan, Unjoined}

\* An undoable step between the fan-out and its join.
OvertakenBlueprints == {<<Undoable, Fan, Undoable, Wait(2, TRUE, FALSE), Plain>>}

=============================================================================
