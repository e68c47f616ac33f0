---------------------------- MODULE MCSagaEngine ----------------------------
(***************************************************************************)
(* Instances of SagaEngine for TLC: the manifests the runs start from, and *)
(* a specification that gives a behaviour a budget of MaxFaults faults and *)
(* MaxCommands operator commands.                                          *)
(***************************************************************************)
EXTENDS SagaEngine

CONSTANTS MaxFaults, MaxCommands

ASSUME BudgetAssumption == MaxFaults \in Nat /\ MaxCommands \in Nat

\* A step that declares nothing, and a commit step with a compensation.
Plain == [kind |-> "reason", hitl |-> FALSE, comp |-> FALSE, hold |-> FALSE,
          when |-> FALSE, limit |-> 0]
Undoable == [Plain EXCEPT !.kind = "commit", !.comp = TRUE]

\* Three steps: the last one conditional or held on failure, the first and
\* the last one reviewed or not, the first two conditional or not, and the
\* middle one a reason or a commit step, with or without compensation.
ThreeSteps ==
    {[s \in 0 .. 2 |->
        CASE s = 0 -> [Plain EXCEPT !.comp = TRUE, !.hitl = h, !.when = w]
          [] s = 1 -> [Plain EXCEPT !.comp = c, !.kind = k, !.hold = d, !.when = w]
          [] s = 2 -> [Undoable EXCEPT !.hold = d, !.when = ~d, !.hitl = h]]
        : c \in BOOLEAN, h \in BOOLEAN, d \in BOOLEAN, w \in BOOLEAN,
          k \in {"reason", "commit"}}

\* Two steps that are undone or, on failure, held for the operator.
Recoverable == {[s \in 0 .. 1 |-> [Undoable EXCEPT !.hold = d]] : d \in BOOLEAN}

\* A reviewed reason step, then a reviewed commit step, with retries.
Reviewed ==
    {[s \in 0 .. 1 |->
        IF s = 0 THEN [Plain EXCEPT !.comp = TRUE, !.hitl = TRUE, !.limit = n]
        ELSE [Undoable EXCEPT !.hitl = TRUE, !.hold = d, !.limit = n]]
        : d \in BOOLEAN, n \in 0 .. 1}

\* One reviewed commit step, held on failure or not.
OneReviewed ==
    {[s \in 0 .. 0 |-> [Undoable EXCEPT !.hitl = TRUE, !.hold = d, !.limit = 2]]
        : d \in BOOLEAN}

-----------------------------------------------------------------------------

VARIABLES faults, commands

BudgetInit == Init /\ faults = 0 /\ commands = 0

\* Steps outside the budgets.
Free(A) == A /\ UNCHANGED <<faults, commands>>

BudgetNext ==
    \/ Free(Engine)
    \/ Free(Worker)
    \/ Free(Reviewer)
    \/ /\ faults < MaxFaults
       /\ Fault
       /\ faults' = faults + 1
       /\ UNCHANGED commands
    \/ /\ commands < MaxCommands
       /\ Operator
       /\ commands' = commands + 1
       /\ UNCHANGED faults

budgetVars == <<vars, faults, commands>>

BudgetSpec == BudgetInit /\ [][BudgetNext]_budgetVars

\* The engine and the workers do not stop; people may.
FairBudgetSpec ==
    BudgetSpec /\ WF_budgetVars(Free(Engine)) /\ WF_budgetVars(Free(Worker))
=============================================================================
