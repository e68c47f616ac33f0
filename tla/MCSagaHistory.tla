---------------------------- MODULE MCSagaHistory ----------------------------
(***************************************************************************)
(* MCSagaEngine with a history variable: a status of an undo row can be    *)
(* overwritten, and what it said before is then in no table.               *)
(***************************************************************************)
EXTENDS MCSagaEngine

VARIABLE undone  \* history: the undo rows that have been COMPENSATED

HistoryInit == BudgetInit /\ undone = {}

HistoryNext ==
    /\ BudgetNext
    /\ undone' = undone \cup {su \in Steps \X Undos :
                                undo'[su[1]][su[2]] = "COMPENSATED"}

HistorySpec == HistoryInit /\ [][HistoryNext]_<<budgetVars, undone>>

\* A step that has been undone is not undone again: no further undo row is made
\* for it.  The guide to compensation promises it ("The engine deduplicates
\* compensation rows that are already running or finished");
\* handle_compensation_failed makes a COMPENSATED row FAILED, which
\* _advance_lifo_compensation does not take for an undo.
UndoneOnce ==
    \A s \in Steps, u, v \in Undos :
        <<s, u>> \in undone /\ undo[s][v] # "none" => v <= u
=============================================================================
