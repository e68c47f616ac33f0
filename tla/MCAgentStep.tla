----------------------------- MODULE MCAgentStep -----------------------------
(***************************************************************************)
(* Instances of AgentStep for TLC: the steps of each run.                  *)
(***************************************************************************)
EXTENDS AgentStep

Base == [kind |-> "react", allow |-> {"a"}, sources |-> <<{"a", "b"}>>,
         resources |-> FALSE, skills |-> FALSE, extract |-> {},
         turns |-> 3, recoveries |-> 0, attempts |-> 1,
         budget |-> 0, limit |-> 0, memory |-> TRUE]

\* Compression and soft-retries; the context limit; recoveries with compression
\* off; the token budget; two sources, resources and skills; the other kinds.
Mixed ==
    {[Base EXCEPT !.turns = 4, !.attempts = 2, !.recoveries = 1],
     [Base EXCEPT !.turns = 4, !.limit = 12],
     [Base EXCEPT !.memory = FALSE, !.attempts = 3, !.recoveries = 1, !.turns = 2],
     [Base EXCEPT !.budget = 2, !.attempts = 2, !.turns = 4],
     [Base EXCEPT !.allow = {"a", "b"}, !.sources = <<{"a"}, {"a", "b"}>>,
                  !.resources = TRUE, !.skills = TRUE, !.extract = {"a", "b"}, !.turns = 2],
     [Base EXCEPT !.allow = {}, !.sources = <<>>],
     [Base EXCEPT !.kind = "simple", !.allow = {}, !.sources = <<>>, !.attempts = 2, !.budget = 2],
     [Base EXCEPT !.kind = "commit", !.sources = <<{"b"}, {"a"}>>]}

\* A step with facts, and one soft-retry
Facts == {[Base EXCEPT !.extract = {"a"}, !.attempts = 2]}

=============================================================================
