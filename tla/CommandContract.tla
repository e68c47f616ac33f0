--------------------------- MODULE CommandContract ---------------------------
(***************************************************************************)
(* What the outbox promises the engine: a command stays owed until a       *)
(* result of it has been reported, whatever happens to the workers.  It    *)
(* may be reported more than once (delivery is at-least-once).             *)
(***************************************************************************)
CONSTANT Commands

VARIABLES owed, reported

vars == <<owed, reported>>

Init == owed = {} /\ reported = {}

Ask(c) ==
    /\ c \notin reported
    /\ owed' = owed \cup {c}
    /\ UNCHANGED reported

\* A result is reported; the command may be delivered again afterwards.
Report(c) ==
    /\ c \in owed
    /\ reported' = reported \cup {c}
    /\ owed' \in {owed, owed \ {c}}

\* Commands that have a result are dropped, or delivered once more; a worker
\* that stops drops several.
Settle(S) ==
    /\ owed' \in {owed \cup S, owed \ S}
    /\ UNCHANGED reported

Next ==
    \/ \E c \in Commands : Ask(c) \/ Report(c)
    \/ \E S \in SUBSET reported : Settle(S)

Spec == Init /\ [][Next]_vars

=============================================================================
