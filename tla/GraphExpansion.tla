----------------------------- MODULE GraphExpansion ----------------------------
(***************************************************************************)
(* The part of a project's graph that a query ranks: what can be reached   *)
(* from the nodes it matched exactly, within a budget of nodes and edges,  *)
(* with the path by which each node was reached. The ranks themselves are  *)
(* real numbers and left out. A node is a number, for the order of its id. *)
(***************************************************************************)
EXTENDS Naturals, Sequences, FiniteSets, Functions, FiniteSetsExt, SequencesExt

CONSTANTS
    Nodes,      \* nodes of the candidate Cases
    Budgets     \* [nodes, edges] a query can be given

ASSUME ExpansionAssumption ==
    /\ IsFiniteSet(Nodes) /\ Nodes \subseteq Nat
    /\ \A b \in Budgets : b.nodes \in Nat \ {0} /\ b.edges \in Nat \ {0}

VARIABLE expansion   \* the last one: [done, seeds, edges, budget, result]

NoExpansion == [done |-> FALSE]

(* The nodes in the order of their ids. *)
Sorted(s) ==
    [i \in 1..Cardinality(s) |-> CHOOSE n \in s : Cardinality({m \in s : m < n}) = i - 1]
Neighbours(edges) == [n \in Nodes |-> {m \in Nodes \ {n} : {n, m} \in edges}]

EdgesFull(walk, budget) == Cardinality(walk.edges) >= budget.edges

VisitOverBudget(walk, current, neighbour, budget) ==
    IF EdgesFull(walk, budget) \/ (neighbour \notin walk.selected /\ Cardinality(walk.selected) > budget.nodes)
    THEN [walk EXCEPT !.reached = TRUE]
    ELSE [walk EXCEPT !.selected = @ \cup {neighbour}, !.edges = @ \cup {{current, neighbour}},
                      !.parents = IF neighbour \in walk.selected THEN @
                                  ELSE [n \in DOMAIN @ \cup {neighbour} |->
                                          IF n = neighbour THEN current ELSE @[n]],
                      !.queue = IF neighbour \in walk.selected THEN @ ELSE Append(@, neighbour)]

(* One neighbour of the node being expanded. The edge budget ends the loop  *)
(* over its neighbours, the node budget only passes over a new one.         *)
Visit(walk, current, neighbour, budget) ==
    IF EdgesFull(walk, budget) \/ (neighbour \notin walk.selected /\ Cardinality(walk.selected) >= budget.nodes)
    THEN [walk EXCEPT !.reached = TRUE]
    ELSE IF neighbour \in walk.selected THEN [walk EXCEPT !.edges = @ \cup {{current, neighbour}}]
    ELSE [walk EXCEPT !.selected = @ \cup {neighbour}, !.edges = @ \cup {{current, neighbour}},
                      !.parents = [n \in DOMAIN @ \cup {neighbour} |-> IF n = neighbour THEN current ELSE @[n]],
                      !.queue = Append(@, neighbour)]

(* One round of the outer loop, which is over when the queue is empty or,   *)
(* whatever is still queued, when the edges are used up.                    *)
Round(walk, neighbours, budget) ==
    IF walk.queue = <<>> \/ walk.over THEN walk
    ELSE LET current == Head(walk.queue)
             rest == [walk EXCEPT !.queue = Tail(@)]
             after == FoldLeft(LAMBDA w, n : Visit(w, current, n, budget),
                               rest, Sorted(neighbours[current]))
         IN [after EXCEPT !.over = EdgesFull(after, budget)]

ExpandBounded(seeds, edges, budget) ==
    FoldLeft(LAMBDA walk, i : Round(walk, Neighbours(edges), budget),
             [selected |-> seeds, edges |-> {}, parents |-> <<>>, queue |-> Sorted(seeds),
              reached |-> Cardinality(seeds) > budget.nodes, over |-> FALSE],
             [i \in 1..Cardinality(Nodes) |-> i])

(* From a seed to the node.                                                 *)
SupportingPath(node, walk) ==
    FoldLeft(LAMBDA path, i : IF Head(path) \in DOMAIN walk.parents
                              THEN <<walk.parents[Head(path)]>> \o path ELSE path,
             <<node>>, [i \in 1..Cardinality(Nodes) |-> i])

Expand(seeds, edges, budget) ==
    /\ ~expansion.done
    /\ seeds # {}
    /\ LET walk == ExpandBounded(seeds, edges, budget)
       IN expansion' = [done |-> TRUE, seeds |-> seeds, edges |-> edges, budget |-> budget,
                        visited |-> walk.selected, used |-> walk.edges, reached |-> walk.reached,
                        paths |-> [n \in walk.selected |-> SupportingPath(n, walk)]]

ExpansionInit == expansion = NoExpansion

ExpansionNext ==
    \E seeds \in SUBSET Nodes, edges \in SUBSET kSubset(2, Nodes), budget \in Budgets :
        Expand(seeds, edges, budget)
================================================================================
