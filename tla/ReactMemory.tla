----------------------------- MODULE ReactMemory -----------------------------
(***************************************************************************)
(* The transcript of a ReAct step and its golden-ratio compression         *)
(* (workers/adapters/react_memory.py).  A message has a role, the turn it  *)
(* belongs to, and what it is about: the ids of the tool calls of an       *)
(* assistant message, the id a tool message answers, the turns a digest    *)
(* has folded.                                                             *)
(*                                                                         *)
(* The estimator of characters per token is abstracted to a size: one per  *)
(* message, and one more per turn folded into the digest.                  *)
(***************************************************************************)
EXTENDS Integers, FiniteSets, Sequences, SequencesExt

Roles == {"system", "human", "digest", "assistant", "tool"}

Message(role, turn, of) == [role |-> role, turn |-> turn, of |-> of]

\* floor(n * PHI_INV) for the budgets that occur
PhiShare(n) == IF n <= 0 THEN 0 ELSE (n * 618034) \div 1000000

AtLeast(least, n) == IF n < least THEN least ELSE n

\* effective_context_limit with the default headroom; 0: the token axis is off
EffectiveLimit(limit) == IF limit <= 0 THEN 0 ELSE AtLeast(1, (limit * 9) \div 10)

-----------------------------------------------------------------------------
(* Anchors and turn groups *)

IsAnchor(m) == m.role \in {"system", "digest"}

\* One round of partition_messages: an assistant message opens a group; a digest
\* or a system message is an anchor, and so is all that comes before the first
\* group.
Placed(parts, m) ==
    LET n == Len(parts.groups)
    IN  IF m.role = "assistant"
        THEN [parts EXCEPT !.groups = Append(@, <<m>>)]
        ELSE IF IsAnchor(m) \/ n = 0
        THEN [parts EXCEPT !.anchors = Append(@, m)]
        ELSE [parts EXCEPT !.groups[n] = Append(@, m)]

NoParts == [anchors |-> <<>>, groups |-> <<>>]

\* partition_messages
Partition(msgs) ==
    LET after[i \in 0 .. Len(msgs)] ==
            IF i = 0 THEN NoParts
            ELSE CHOOSE parts \in {Placed(before, msgs[i]) : before \in {after[i - 1]}} : TRUE
    IN  after[Len(msgs)]

Reassemble(parts) == parts.anchors \o FlattenSeq(parts.groups)

\* The turns the digest among the messages holds
DigestOf(msgs) == UNION {msgs[i].of : i \in {j \in 1 .. Len(msgs) : msgs[j].role = "digest"}}

\* estimate_messages
Tokens(msgs) == Len(msgs) + Cardinality(DigestOf(msgs))

-----------------------------------------------------------------------------
(* Budgets *)

\* _compute_budgets: anchors that outgrow their share borrow from the working
\* memory, in tokens and in turns.
Budgets(maxTurns, anchors, limit) ==
    LET turns == AtLeast(1, PhiShare(maxTurns))
        base  == PhiShare(limit)
        left  == AtLeast(0, base - AtLeast(0, Tokens(anchors) - (limit - base)))
    IN  IF limit = 0 THEN [turns |-> turns, tokens |-> 0]
        ELSE IF base > 0 /\ left < base
        THEN [turns |-> AtLeast(1, (turns * left) \div base), tokens |-> left]
        ELSE [turns |-> turns, tokens |-> left]

\* _is_over_budget
IsOver(parts, maxTurns, limit) ==
    LET b == Budgets(maxTurns, parts.anchors, limit)
    IN  \/ Len(parts.groups) > b.turns
        \/ limit > 0 /\ Tokens(FlattenSeq(parts.groups)) > b.tokens

-----------------------------------------------------------------------------
(* Compression *)

\* _ensure_digest_message and the bullets: turns enter the digest, which is
\* created as the last anchor.
AddToDigest(anchors, turns) ==
    IF \E i \in 1 .. Len(anchors) : anchors[i].role = "digest"
    THEN [i \in 1 .. Len(anchors) |->
             IF anchors[i].role = "digest" THEN [anchors[i] EXCEPT !.of = @ \cup turns]
             ELSE anchors[i]]
    ELSE Append(anchors, Message("digest", 0, turns))

\* mutant: groups are dropped without a trace
FoldedDropping(parts, k) ==
    [parts EXCEPT !.groups = SubSeq(@, k + 1, Len(@))]

\* k rounds of _tier2_digest: the oldest k groups become bullets
Folded(parts, k) ==
    IF k = 0 THEN parts ELSE
    [anchors |-> AddToDigest(parts.anchors, {parts.groups[i][1].turn : i \in 1 .. k}),
     groups  |-> SubSeq(parts.groups, k + 1, Len(parts.groups))]

\* The rounds of compress_if_needed: until the budget holds or one group is
\* left.  _tier3_drop would go on under the condition that ended _tier2_digest,
\* so it never drops anything.
Rounds(parts, maxTurns, limit) ==
    LET last == AtLeast(0, Len(parts.groups) - 1)
        Over(k) == \E after \in {Folded(parts, k)} : IsOver(after, maxTurns, limit)
    IN  CHOOSE k \in 0 .. last :
            /\ k = last \/ ~ Over(k)
            /\ \A j \in 0 .. k - 1 : Over(j)

=============================================================================
