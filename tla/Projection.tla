----------------------------- MODULE Projection -----------------------------
(***************************************************************************)
(* What of the accepted knowledge is shown to the reconciler and the       *)
(* evaluator (internal/state/knowledge_projection.go): every partition and *)
(* every source in it gets a share of the budget, each source is walked    *)
(* for the largest subtrees that fit, and these are taken in rounds.  What *)
(* is left out makes the coverage of its source partial.                   *)
(*                                                                         *)
(* A source holds a tree: paths to its leaves, each with a size.  Sizes,   *)
(* shares and budget are in units: one entry of the inventory, and what    *)
(* surrounds a value, is one unit.  Key order is the order of the numbers  *)
(* paths are made of, the keys the walk prefers first.                     *)
(***************************************************************************)
EXTENDS Integers, Sequences, FiniteSets, SequencesExt, FiniteSetsExt

CONSTANTS
    Source,      \* <<partition, number>>: the sources by partition
    MaxEntries,  \* reconciliation.go maxReconciliationEvidence: 64
    MaxValue     \* reconciliation.go maxEvidenceValue, in units

ASSUME ProjectionAssumption == IsFiniteSet(Source) /\ MaxEntries \in Nat

Margin == 1      \* 256 bytes, kept for what surrounds values and inventory

PartitionOf(source) == source[1]
Siblings(source) == {s \in Source : PartitionOf(s) = PartitionOf(source)}

\* A tree: [leaves (a size for each path), text (the paths that repeat the
\* structured content as text)].
IsTree(tree) ==
    DOMAIN tree.leaves \subseteq Seq(Nat) /\ IsFiniteSet(DOMAIN tree.leaves)
Nodes(tree) == UNION {Prefixes(leaf) : leaf \in DOMAIN tree.leaves}
Under(tree, path) == {leaf \in DOMAIN tree.leaves : IsPrefix(path, leaf)}
Size(tree, path) == MapThenSumSet(LAMBDA leaf : tree.leaves[leaf], Under(tree, path))

Before(p, q) ==
    \/ IsStrictPrefix(p, q)
    \/ \E i \in DOMAIN p \cap DOMAIN q :
          p[i] < q[i] /\ \A j \in 1..(i - 1) : p[j] = q[j]

IsDuplicate(tree, path) == \E t \in tree.text : IsPrefix(t, path)
ContainsDuplicate(tree, path) == \E t \in tree.text : IsStrictPrefix(path, t)

-----------------------------------------------------------------------------
(* Inventory: partitions take turns, as long as a third of the budget lasts. *)

\* The members of S one after the other: each comes after those that precede it.
InOrder(S, Precedes(_, _)) ==
    [i \in 1..Cardinality(S) |->
       CHOOSE x \in S : Cardinality({y \in S : Precedes(y, x)}) = i - 1]

InventoryOrder == InOrder(Source, LAMBDA s, t : s[2] < t[2] \/ (s[2] = t[2] /\ s[1] < t[1]))

\* An entry is one unit.
Inventoried(budget) ==
    LET fitting == (budget \div 3) - Margin
    IN  IF fitting < 0 THEN 0 ELSE IF fitting < Cardinality(Source) THEN fitting ELSE Cardinality(Source)

Share(budget, source) ==
    (((budget * 2) \div 3) \div Cardinality({PartitionOf(s) : s \in Source}))
        \div Cardinality(Siblings(source))

-----------------------------------------------------------------------------
(* The walk of one source. *)

Full(walk) == Len(walk.queue) >= MaxEntries
Queued(walk) == ToSet(walk.queue)

Offer(tree, limit, walk, path) ==
    IF \/ Full(walk) \/ Size(tree, path) > limit
       \/ \E q \in Queued(walk) : IsPrefix(q, path) \/ IsPrefix(path, q)
      THEN walk ELSE [walk EXCEPT !.queue = Append(@, path)]

\* A path the plan cites is offered if it is there and repeats nothing.
Prefer(tree, limit, walk, path) ==
    IF path \in Nodes(tree) /\ ~ IsDuplicate(tree, path) /\ ~ ContainsDuplicate(tree, path)
    THEN Offer(tree, limit, walk, path) ELSE walk

\* A leaf that is not taken is omitted.
Try(tree, limit, walk, path) ==
    LET offered == IF ContainsDuplicate(tree, path) THEN walk ELSE Offer(tree, limit, walk, path)
    IN  IF offered = walk /\ path \in DOMAIN tree.leaves
          THEN [walk EXCEPT !.omitted = TRUE] ELSE offered

\* Mutant: a full queue ends the walk without a trace.
VisitSilently(tree, limit, walk, path) ==
    IF \/ IsDuplicate(tree, path) \/ Full(walk)
       \/ \E q \in Queued(walk) : IsPrefix(q, path)
    THEN walk
    ELSE Try(tree, limit, walk, path)

\* One node: what lies below a node that was taken is not visited.
Visit(tree, limit, walk, path) ==
    IF IsDuplicate(tree, path) \/ \E q \in Queued(walk) : IsStrictPrefix(q, path) THEN walk
    ELSE IF Full(walk) THEN [walk EXCEPT !.omitted = TRUE]
    ELSE IF path \in Queued(walk) THEN walk
    ELSE Try(tree, limit, walk, path)

Earlier(e, f) == e[1] < f[1] \/ (e[1] = f[1] /\ Before(e[2], f[2]))

\* The preferred paths first, each with its place in the plan, then the tree
\* in key order.
Walk(tree, limit, preferred) ==
    LET first == InOrder(preferred, Earlier)
        nodes == InOrder(Nodes(tree), Before)
        cited == Cardinality(preferred)
        walked[k \in 0..(cited + Cardinality(Nodes(tree)))] ==
          IF k = 0 THEN [queue |-> <<>>, omitted |-> FALSE]
          ELSE IF k <= cited THEN Prefer(tree, limit, walked[k - 1], first[k][2])
          ELSE Visit(tree, limit, walked[k - 1], nodes[k - cited])
    IN  walked[cited + Cardinality(Nodes(tree))]

-----------------------------------------------------------------------------
(* The projection. *)

\* What is shown so far, what each source has spent of its share, and which
\* sources something was left out of.
Nothing(walks) ==
    [evidence |-> {}, spent |-> [s \in DOMAIN walks |-> 0],
     omitted |-> {s \in DOMAIN walks : walks[s].omitted}]

SpentInAll(out) == MapThenSumSet(LAMBDA s : out.spent[s], DOMAIN out.spent)

\* The turn of a source in a round: its value of that round, if it has one.
Select(trees, walks, budget, out, source, round) ==
    IF round > Len(walks[source].queue) THEN out
    ELSE LET path == walks[source].queue[round]
             size == Size(trees[source], path) + 1
         IN  IF \/ Cardinality(out.evidence) >= MaxEntries
                \/ out.spent[source] + size > Share(budget, source)
                \/ Cardinality(DOMAIN walks) + SpentInAll(out) + size + 1 + Margin > budget
             THEN [evidence |-> out.evidence, spent |-> out.spent,
                   omitted |-> out.omitted \cup {source}]
             ELSE [evidence |-> out.evidence \cup {<<source, path>>},
                   spent |-> [out.spent EXCEPT ![source] = @ + size],
                   omitted |-> out.omitted]

\* ProjectKnowledge: current are the sources of partitions that are not stale.
\* The result: the values shown, and the sources shown completely.
ProjectKnowledge(trees, current, preferred, budget) ==
    LET n == Inventoried(budget)
        sources == InventoryOrder
        Limit(source) == Min({MaxValue, Max({0, Share(budget, source) - Margin})})
        walks == [s \in {sources[i] : i \in 1..n} |->
                    IF s \in current THEN Walk(trees[s], Limit(s), preferred[s])
                                     ELSE [queue |-> <<>>, omitted |-> TRUE]]
        selected[k \in 0..(MaxEntries * n)] ==
          IF k = 0 THEN Nothing(walks)
          ELSE Select(trees, walks, budget, selected[k - 1],
                      sources[((k - 1) % n) + 1], ((k - 1) \div n) + 1)
        out == selected[MaxEntries * n]
    IN  [evidence |-> out.evidence, complete |-> DOMAIN walks \ out.omitted]
=============================================================================
