-------------------------- MODULE WorkAggregatesReuse --------------------------
(***************************************************************************)
(* WorkAggregates for any calls, in any number, over any graph: whatever   *)
(* parts a final call reuses, the chain it reports is in the graph, and    *)
(* nothing that was regressed or retired comes back with them.  Two things *)
(* carry the first: a call reuses a node only after it has read the edge   *)
(* that ties it to the part before, and no call takes an edge away.        *)
(***************************************************************************)
EXTENDS WorkAggregatesAtomicity, FiniteSetTheorems, WellFoundedInduction

(* Some nodes have a newest one: strict inclusion of the intervals from a   *)
(* node to the last is well founded.                                       *)
LEMMA NewestIsMember ==
    ASSUME NEW k \in Nat, NEW S, S \subseteq 1..k, S # {}
    PROVE  Graph!Newest(S) \in S
<1> DEFINE T == {n..k : n \in S}
<1>1. T \subseteq FiniteSubsetsOf(Nat)
  <2>1. \A n \in S : n..k \subseteq Nat /\ IsFiniteSet(n..k)
    BY FS_Interval
  <2> QED
    BY <2>1 DEF FiniteSubsetsOf
<1>2. T # {}
  OBVIOUS
<1> HIDE DEF T
<1>3. PICK i \in T : \A y \in T : ~(<<y, i>> \in StrictSubsetOrdering(Nat))
  BY <1>1, <1>2, FS_StrictSubsetOrderingWellFounded, WFMin
<1>4. PICK n \in S : i = n..k
  BY DEF T
<1>5. ASSUME NEW m \in S, n < m
      PROVE  FALSE
  <2>1. m..k \in T /\ m..k \subseteq Nat /\ n..k \subseteq Nat
    BY DEF T
  <2>2. m..k \subseteq n..k /\ m..k # n..k
    BY <1>5
  <2> QED
    BY <1>3, <1>4, <2>1, <2>2 DEF StrictSubsetOrdering
<1>6. \A m \in S : m <= n
  BY <1>5
<1> QED
  BY <1>6 DEF Graph!Newest

LEMMA NewestOf ==
    ASSUME NEW ns, GoodNodes(ns), NEW S, S \subseteq DOMAIN ns, S # {}
    PROVE  Graph!Newest(S) \in S
<1>1. Len(ns) \in Nat /\ DOMAIN ns = 1..Len(ns)
  BY Length DEF GoodNodes
<1> QED
  BY <1>1, NewestIsMember

--------------------------------------------------------------------------------
(* The chain *)

(* The chain of a result, or of the locals of a call, in the given edges.   *)
ChainIn(v, es) ==
    /\ \A a \in v.attempts : <<a, "ATTEMPTS_TO_SOLVE", v.problem>> \in es
    /\ v.root # NoNode => /\ <<v.root, "CAUSES", v.problem>> \in es
                          /\ \A a \in v.failed : <<a, "FAILED_BECAUSE", v.root>> \in es
    /\ v.solution # NoNode => <<v.solution, "ADDRESSES", v.root>> \in es
    /\ \A n \in v.verifications : <<v.solution, "VERIFIED_BY", n>> \in es
    /\ \A n \in v.artifacts : <<v.problem, "REFERENCES", n>> \in es
ResultsChained(rs, es) ==
    \A r \in rs : r.part = Whole /\ r.kind = "finalize_work" => ChainIn(r.value, es)

(* The locals that a call has not come to yet.                              *)
Locals == {"at", "input", "problem", "attempts", "failed", "root", "solution", "verifications", "artifacts"}
NotYet(c) ==
    /\ c.at \in {"lookup", "batch", "anchor", "attempt", "evidence"} => c.attempts = {}
    /\ c.at \in {"lookup", "batch", "anchor", "attempt", "evidence", "failed", "root"} => c.root = NoNode
    /\ c.at \in {"lookup", "batch", "anchor", "attempt", "evidence", "failed", "root", "solution"} =>
          c.solution = NoNode /\ c.verifications = {}
    /\ c.at # "store" => c.artifacts = {}
Chaining ==
    /\ Locals \subseteq DOMAIN call /\ call.at # "idle"
    /\ \E before : saved = <<before>> /\ ResultsChained(before.results, before.edges)
    /\ ResultsChained(results, edges)
    /\ ChainIn(call, edges)
    /\ NotYet(call)

(* Others see chained results; a call has chained what it holds so far.     *)
ChainInv == (call = NoCall /\ saved = <<>> /\ ResultsChained(results, edges)) \/ Chaining

(* A graph that grows and rows that report no chain break none.             *)
LEMMA Linking ==
    ASSUME NEW es, edges \subseteq es, NEW rs, results \subseteq rs,
           \A r \in rs \ results : r.kind # "finalize_work",
           ResultsChained(results, edges)
    PROVE  ResultsChained(rs, es)
BY DEF ResultsChained, ChainIn

(* A step changes the locals it names, and keeps the chain of the others.   *)
LEMMA Kept ==
    ASSUME Chaining, edges \subseteq edges', NEW changes, Proceed(changes)
    PROVE  /\ Locals \subseteq DOMAIN call'
           /\ \A f \in Locals : call'[f] = IF f \in DOMAIN changes THEN changes[f] ELSE call[f]
           /\ \E before : saved' = <<before>> /\ ResultsChained(before.results, before.edges)
           /\ ChainIn(call, edges')
<1>1. ChainIn(call, edges')
  BY DEF Chaining, ChainIn
<1>2. /\ Locals \subseteq DOMAIN call /\ saved' = saved
      /\ call' = [part \in DOMAIN call |-> IF part \in DOMAIN changes THEN changes[part] ELSE call[part]]
  BY DEF Chaining, Proceed
<1>3. \E before : saved' = <<before>> /\ ResultsChained(before.results, before.edges)
  BY <1>2 DEF Chaining
<1> QED
  BY <1>1, <1>2, <1>3

(* A record call of the aggregate adds its edges and a row of its own kind. *)
LEMMA RowsAdded ==
    ASSUME NEW part, NEW kind, kind # "finalize_work", NEW t,
           Said(part, kind, t) \/ results' = results \cup {Row(part, kind, t)} \/ results' = results
    PROVE  results \subseteq results' /\ \A r \in results' \ results : r.kind # "finalize_work"
BY DEF Said, Row

(* The steps of a call, each with the edges its part is tied with.          *)
LEMMA Chained ==
    ASSUME IsSeq(cases), GoodNodes(nodes), Chaining,
           \/ StartWork \/ LoadCheckpointWork \/ CaseAnchor \/ RecordProblem \/ CheckpointAttempt
           \/ GatherEvidence \/ FailedAttempt \/ SucceededAttempt
           \/ RootCause \/ Solution \/ Verify \/ Deliver \/ BatchWrite \/ BatchDone
    PROVE  Chaining'
<1>1. CASE StartWork
  <2>1. /\ edges' = edges /\ results' = results /\ call.at = "lookup"
        /\ Proceed([at |-> "batch"]) \/ Proceed([at |-> "anchor"])
    BY <1>1 DEF StartWork, NothingSaid, graphVars
  <2>2. /\ Locals \subseteq DOMAIN call' /\ call'.at \in {"batch", "anchor"}
        /\ \A f \in Locals \ {"at"} : call'[f] = call[f]
        /\ \E before : saved' = <<before>> /\ ResultsChained(before.results, before.edges)
    BY <2>1, Kept DEF Locals
  <2>3. ChainIn(call', edges') /\ NotYet(call')
    BY <2>1, <2>2 DEF Chaining, ChainIn, NotYet, Locals
  <2> QED
    BY <2>1, <2>2, <2>3 DEF Chaining
<1>2. CASE LoadCheckpointWork
  <2>1. PICK row : Proceed([at |-> "anchor", case |-> row.value.case, checkpoint |-> row.value])
    BY <1>2 DEF LoadCheckpointWork
  <2>2. edges' = edges /\ results' = results /\ call.at = "lookup"
    BY <1>2 DEF LoadCheckpointWork, NothingSaid, graphVars
  <2>3. /\ Locals \subseteq DOMAIN call' /\ call'.at = "anchor"
        /\ \A f \in Locals \ {"at"} : call'[f] = call[f]
        /\ \E before : saved' = <<before>> /\ ResultsChained(before.results, before.edges)
    BY <2>1, <2>2, Kept DEF Locals
  <2>4. ChainIn(call', edges') /\ NotYet(call')
    BY <2>2, <2>3 DEF Chaining, ChainIn, NotYet, Locals
  <2> QED
    BY <2>2, <2>3, <2>4 DEF Chaining
<1>3. CASE CaseAnchor \/ RecordProblem
  <2>1. call.at = "anchor" /\ edges \subseteq edges' /\ ResultsChained(results', edges')
    <3>1. call.at = "anchor" /\ edges \subseteq edges'
      BY <1>3 DEF CaseAnchor, RecordProblem, NothingSaid, graphVars, Graph!OpenCase, Graph!AddProblem
    <3>2. results' = results \/ \E part, n : \/ results' = results \cup {Row(part, "record_problem", n)}
                                            \/ Said(part, "record_problem", n)
      BY <1>3 DEF CaseAnchor, RecordProblem, NothingSaid
    <3>3. results \subseteq results' /\ \A r \in results' \ results : r.kind # "finalize_work"
      BY <3>2, RowsAdded
    <3> QED
      BY <3>1, <3>3, Linking DEF Chaining
  <2>2. PICK problem, case, previous, created :
           \/ Proceed([at |-> AfterAnchor, problem |-> problem, previous |-> previous])
           \/ Proceed([at |-> AfterAnchor, case |-> case, problem |-> problem])
           \/ Proceed([at |-> AfterAnchor, case |-> case, problem |-> problem, created |-> created])
    BY <1>3 DEF CaseAnchor, RecordProblem
  <2>3. /\ Locals \subseteq DOMAIN call' /\ call'.at = AfterAnchor
        /\ \A f \in Locals \ {"at", "problem"} : call'[f] = call[f]
        /\ \E before : saved' = <<before>> /\ ResultsChained(before.results, before.edges)
    BY <2>1, <2>2, Kept DEF Locals
  <2>4. ChainIn(call', edges') /\ NotYet(call') /\ call'.at # "idle"
    BY <2>1, <2>3 DEF Chaining, ChainIn, NotYet, Locals, AfterAnchor
  <2> QED
    BY <2>1, <2>3, <2>4 DEF Chaining
<1>4. CASE CheckpointAttempt
  <2> DEFINE n == Len(nodes) + 1
  <2>1. /\ call.at = "attempt" /\ edges \subseteq edges' /\ <<n, "ATTEMPTS_TO_SOLVE", call.problem>> \in edges'
        /\ \E part, t : Said(part, "record_attempt", t)
        /\ \E failed : Proceed([at |-> "root", attempts |-> {n}, failed |-> failed])
    BY <1>4 DEF CheckpointAttempt, RecordAttempt, Graph!RecordAttempt
  <2> HIDE DEF n
  <2>2. ResultsChained(results', edges')
    <3>1. results \subseteq results' /\ \A r \in results' \ results : r.kind # "finalize_work"
      BY <2>1, RowsAdded
    <3> QED
      BY <2>1, <3>1, Linking DEF Chaining
  <2>3. /\ Locals \subseteq DOMAIN call' /\ call'.at = "root" /\ call'.attempts = {n}
        /\ \A f \in Locals \ {"at", "attempts", "failed"} : call'[f] = call[f]
        /\ \E before : saved' = <<before>> /\ ResultsChained(before.results, before.edges)
    BY <2>1, Kept DEF Locals
  <2>4. ChainIn(call', edges') /\ NotYet(call')
    BY <2>1, <2>3 DEF Chaining, ChainIn, NotYet, Locals
  <2> QED
    BY <2>2, <2>3, <2>4 DEF Chaining
<1>5. CASE GatherEvidence
  <2>1. PICK attempts, failed : /\ Proceed([at |-> "failed", attempts |-> attempts, failed |-> failed])
                                /\ \A a \in attempts : <<a, "ATTEMPTS_TO_SOLVE", call.problem>> \in edges
    <3> DEFINE all == call.failedIds \cup CheckpointAttempts
    <3>1. \E failed : Proceed([at |-> "failed", attempts |-> all, failed |-> failed])
      BY <1>5 DEF GatherEvidence
    <3>2. \A a \in all : <<a, "ATTEMPTS_TO_SOLVE", call.problem>> \in edges
      BY <1>5 DEF GatherEvidence, Solves
    <3> HIDE DEF all
    <3> QED
      BY <3>1, <3>2
  <2>2. edges' = edges /\ results' = results /\ call.at = "evidence"
    BY <1>5 DEF GatherEvidence, NothingSaid, graphVars
  <2>3. /\ Locals \subseteq DOMAIN call' /\ call'.at = "failed" /\ call'.attempts = attempts
        /\ \A f \in Locals \ {"at", "attempts", "failed"} : call'[f] = call[f]
        /\ \E before : saved' = <<before>> /\ ResultsChained(before.results, before.edges)
    BY <2>1, <2>2, Kept DEF Locals
  <2>4. ChainIn(call', edges') /\ NotYet(call')
    BY <2>1, <2>2, <2>3 DEF Chaining, ChainIn, NotYet, Locals
  <2> QED
    BY <2>2, <2>3, <2>4 DEF Chaining
(* One more Attempt, reused or new.                                         *)
<1>6. ASSUME call.at = "failed", edges \subseteq edges', NEW at \in {"failed", "root"},
             NEW changes, Proceed(changes), DOMAIN changes \cap Locals \subseteq {"at", "attempts", "failed"},
             "attempts" \in DOMAIN changes,
             at = IF "at" \in DOMAIN changes THEN changes.at ELSE call.at,
             \A a \in changes.attempts \ call.attempts : <<a, "ATTEMPTS_TO_SOLVE", call.problem>> \in edges',
             results' = results \/ \E part, t : Said(part, "record_attempt", t)
      PROVE  Chaining'
  <2>1. ResultsChained(results', edges')
    <3>1. results \subseteq results' /\ \A r \in results' \ results : r.kind # "finalize_work"
      BY <1>6, RowsAdded
    <3> QED
      BY <1>6, <3>1, Linking DEF Chaining
  <2>2. /\ Locals \subseteq DOMAIN call' /\ call'.at = at /\ call'.attempts = changes.attempts
        /\ \A f \in Locals \ {"at", "attempts", "failed"} : call'[f] = call[f]
        /\ \E before : saved' = <<before>> /\ ResultsChained(before.results, before.edges)
        /\ ChainIn(call, edges')
    BY <1>6, Kept DEF Locals
  <2>3. ChainIn(call', edges') /\ NotYet(call')
    BY <1>6, <2>2 DEF Chaining, ChainIn, NotYet, Locals
  <2> QED
    BY <2>1, <2>2, <2>3 DEF Chaining
<1>7. ASSUME NEW t, NEW outcome, EquivalentAttempts(t, outcome) # {}
      PROVE  <<Graph!Newest(EquivalentAttempts(t, outcome)), "ATTEMPTS_TO_SOLVE", call.problem>> \in edges
  <2>1. EquivalentAttempts(t, outcome) \subseteq DOMAIN nodes
    BY DEF EquivalentAttempts, Graph!OfType
  <2>2. Graph!Newest(EquivalentAttempts(t, outcome)) \in EquivalentAttempts(t, outcome)
    BY <1>7, <2>1, NewestOf
  <2> QED
    BY <2>2 DEF EquivalentAttempts, Solves
<1>8. ASSUME NEW part, NEW t, NEW outcome, RecordAttempt(part, t, outcome)
      PROVE  /\ edges \subseteq edges' /\ Said(part, "record_attempt", t)
             /\ <<Len(nodes) + 1, "ATTEMPTS_TO_SOLVE", call.problem>> \in edges'
  BY <1>8 DEF RecordAttempt, Graph!RecordAttempt
<1>9. CASE FailedAttempt
  <2>1. PICK a, failed :
           /\ call.at = "failed" /\ edges \subseteq edges'
           /\ Proceed([index |-> call.index + 1, previous |-> {a},
                       attempts |-> call.attempts \cup {a}, failed |-> failed])
           /\ <<a, "ATTEMPTS_TO_SOLVE", call.problem>> \in edges'
           /\ results' = results \/ \E part, t : Said(part, "record_attempt", t)
    <3> DEFINE t == call.input.failedAttempts[call.index]
               equivalent == EquivalentAttempts(t, "failed")
               n == Len(nodes) + 1
    <3>1. CASE equivalent # {} /\ NothingSaid
      <4> DEFINE a == Graph!Newest(equivalent)
      <4>1. Proceed([index |-> call.index + 1, previous |-> {a},
                    attempts |-> call.attempts \cup {a}, failed |-> call.failed \cup {a}])
        BY <1>9, <3>1 DEF FailedAttempt
      <4>2. <<a, "ATTEMPTS_TO_SOLVE", call.problem>> \in edges
        BY <1>7, <3>1
      <4> QED
        BY <1>9, <3>1, <4>1, <4>2 DEF FailedAttempt, NothingSaid, graphVars
    <3>2. CASE equivalent = {} /\ RecordAttempt(<<"failed-attempt", call.index>>, t, "failed")
      <4>1. /\ call.at = "failed"
            /\ Proceed([index |-> call.index + 1, previous |-> {n},
                        attempts |-> call.attempts \cup {n}, failed |-> call.failed \cup {n}])
        BY <1>9, <3>2 DEF FailedAttempt
      <4> QED
        BY <1>8, <3>2, <4>1
    <3> QED
      BY <1>9, <3>1, <3>2 DEF FailedAttempt
  <2> QED
    BY <1>6, <2>1 DEF Locals
<1>10. CASE SucceededAttempt
  <2> DEFINE equivalent == EquivalentAttempts(call.input.text, "succeeded")
             n == Len(nodes) + 1
  <2>0. call.at = "failed"
    BY <1>10 DEF SucceededAttempt
  <2>1. ASSUME NEW A, Proceed([at |-> "root", attempts |-> call.attempts \cup A]), edges \subseteq edges',
               \A a \in A : <<a, "ATTEMPTS_TO_SOLVE", call.problem>> \in edges',
               results' = results \/ \E part, t : Said(part, "record_attempt", t)
        PROVE  Chaining'
    BY <1>6, <2>0, <2>1 DEF Locals
  <2>2. CASE Proceed([at |-> "root", attempts |-> call.attempts \cup {}]) /\ NothingSaid
    <3> DEFINE A == {}
    <3>1. edges' = edges /\ results' = results
      BY <2>2 DEF NothingSaid, graphVars
    <3>2. \A a \in A : <<a, "ATTEMPTS_TO_SOLVE", call.problem>> \in edges'
      OBVIOUS
    <3>3. Proceed([at |-> "root", attempts |-> call.attempts \cup A])
      BY <2>2
    <3> HIDE DEF A
    <3> QED
      BY <2>1, <3>1, <3>2, <3>3
  <2>3. CASE /\ equivalent # {} /\ NothingSaid
             /\ Proceed([at |-> "root", attempts |-> call.attempts \cup {Graph!Newest(equivalent)}])
    <3> DEFINE A == {Graph!Newest(equivalent)}
    <3>1. edges' = edges /\ results' = results
      BY <2>3 DEF NothingSaid, graphVars
    <3>2. \A a \in A : <<a, "ATTEMPTS_TO_SOLVE", call.problem>> \in edges'
      BY <1>7, <2>3, <3>1
    <3>3. Proceed([at |-> "root", attempts |-> call.attempts \cup A])
      BY <2>3
    <3> HIDE DEF A
    <3> QED
      BY <2>1, <3>1, <3>2, <3>3
  <2>4. CASE /\ RecordAttempt(<<"succeeded-attempt", 0>>, call.input.text, "succeeded")
             /\ Proceed([at |-> "root", attempts |-> call.attempts \cup {n}])
    <3> DEFINE A == {n}
    <3>1. /\ edges \subseteq edges' /\ \A a \in A : <<a, "ATTEMPTS_TO_SOLVE", call.problem>> \in edges'
          /\ \E part, t : Said(part, "record_attempt", t)
      BY <1>8, <2>4
    <3>2. Proceed([at |-> "root", attempts |-> call.attempts \cup A])
      BY <2>4
    <3> HIDE DEF A
    <3> QED
      BY <2>1, <3>1, <3>2
  <2> QED
    BY <1>10, <2>2, <2>3, <2>4 DEF SucceededAttempt
<1>11. CASE RootCause
  <2>1. PICK root : /\ Proceed([at |-> "solution", root |-> root])
                    /\ call.at = "root" /\ edges \subseteq edges'
                    /\ root # NoNode => /\ <<root, "CAUSES", call.problem>> \in edges'
                                        /\ \A a \in call.failed : <<a, "FAILED_BECAUSE", root>> \in edges'
                    /\ results' = results \/ \E part, t : Said(part, "record_root_cause", t)
    <3> DEFINE equivalent == IF call.input.kind = "finalize_work"
                             THEN EquivalentNodes("RootCause", call.input.root, Graph!NoData, "CAUSES", call.problem)
                             ELSE {}
               checkpointed == IF call.input.kind = "finalize_work" THEN CheckpointNode("root") ELSE NoNode
               n == Len(nodes) + 1
    <3>1. CASE AfterRoot(NoNode) /\ NothingSaid
      BY <1>11, <3>1 DEF RootCause, AfterRoot, NothingSaid, graphVars
    <3>2. CASE /\ CausalEdge(checkpointed, "CAUSES", call.problem)
               /\ edges' = edges \cup Linked(checkpointed)
               /\ AfterRoot(checkpointed) /\ results' = results
      <4> HIDE DEF checkpointed
      <4> QED
        BY <1>11, <3>2 DEF RootCause, AfterRoot, CausalEdge, Linked
    <3>3. CASE /\ equivalent # {} /\ Covers(Graph!Newest(equivalent))
               /\ AfterRoot(Graph!Newest(equivalent)) /\ NothingSaid
      <4> DEFINE root == Graph!Newest(equivalent)
      <4>1. equivalent \subseteq DOMAIN nodes
        BY DEF EquivalentNodes, Graph!OfType
      <4>2. root \in equivalent
        BY <3>3, <4>1, NewestOf
      <4>3. CausalEdge(root, "CAUSES", call.problem)
        <5> HIDE DEF root
        <5> QED
          BY <4>2 DEF EquivalentNodes
      <4>4. Linked(root) \subseteq edges /\ AfterRoot(root) /\ NothingSaid
        BY <3>3 DEF Covers
      <4> HIDE DEF root
      <4> QED
        BY <1>11, <4>3, <4>4 DEF RootCause, AfterRoot, CausalEdge, Linked, NothingSaid, graphVars
    <3>4. CASE NewRootCause
      BY <1>11, <3>4 DEF RootCause, NewRootCause, NewRootCauseAs, AfterRoot,
                        Graph!RecordRootCause, Graph!Commit
    <3> QED
      BY <1>11, <3>1, <3>2, <3>3, <3>4 DEF RootCause
  <2>2. ResultsChained(results', edges')
    <3>1. results \subseteq results' /\ \A r \in results' \ results : r.kind # "finalize_work"
      BY <2>1, RowsAdded
    <3> QED
      BY <2>1, <3>1, Linking DEF Chaining
  <2>3. /\ Locals \subseteq DOMAIN call' /\ call'.at = "solution" /\ call'.root = root
        /\ \A f \in Locals \ {"at", "root"} : call'[f] = call[f]
        /\ \E before : saved' = <<before>> /\ ResultsChained(before.results, before.edges)
        /\ ChainIn(call, edges')
    BY <2>1, Kept DEF Locals
  <2>4. ChainIn(call', edges') /\ NotYet(call')
    BY <2>1, <2>3 DEF Chaining, ChainIn, NotYet, Locals
  <2> QED
    BY <2>2, <2>3, <2>4 DEF Chaining
<1>12. CASE Solution
  <2> DEFINE at == IF call.input.kind = "checkpoint_work" THEN "store" ELSE "verify"
  <2>1. PICK solution : /\ Proceed([at |-> at, solution |-> solution, index |-> 1])
                        /\ call.at = "solution" /\ edges \subseteq edges'
                        /\ solution # NoNode => <<solution, "ADDRESSES", call.root>> \in edges'
                        /\ results' = results \/ \E part, t : Said(part, "record_solution", t)
    <3> DEFINE data == SolutionDataOf(call.input)
               equivalent == IF call.input.kind = "finalize_work"
                             THEN EquivalentNodes("Solution", call.input.solution, data, "ADDRESSES", call.root)
                             ELSE {}
               checkpointed == IF call.input.kind = "finalize_work" THEN CheckpointNode("solution") ELSE NoNode
               n == Len(nodes) + 1
    <3>1. CASE AfterSolution(NoNode) /\ NothingSaid
      BY <1>12, <3>1 DEF Solution, AfterSolution, NothingSaid, graphVars
    <3>2. CASE /\ CausalEdge(checkpointed, "ADDRESSES", call.root)
               /\ AfterSolution(checkpointed) /\ NothingSaid
      <4> HIDE DEF checkpointed
      <4> QED
        BY <1>12, <3>2 DEF Solution, AfterSolution, CausalEdge, NothingSaid, graphVars
    <3>3. CASE equivalent # {} /\ AfterSolution(Graph!Newest(equivalent)) /\ NothingSaid
      <4> DEFINE solution == Graph!Newest(equivalent)
      <4>1. equivalent \subseteq DOMAIN nodes
        BY DEF EquivalentNodes, Graph!OfType
      <4>2. solution \in equivalent
        BY <3>3, <4>1, NewestOf
      <4>3. CausalEdge(solution, "ADDRESSES", call.root)
        <5> HIDE DEF solution
        <5> QED
          BY <4>2 DEF EquivalentNodes
      <4>4. AfterSolution(solution) /\ NothingSaid
        BY <3>3
      <4> HIDE DEF solution
      <4> QED
        BY <1>12, <4>3, <4>4 DEF Solution, AfterSolution, CausalEdge, NothingSaid, graphVars
    <3>4. CASE /\ Graph!RecordSolution(call.case, call.root, data)
               /\ Said(<<"solution", 0>>, "record_solution", call.input.solution)
               /\ AfterSolution(n)
      BY <1>12, <3>4 DEF Solution, AfterSolution, Graph!RecordSolution, Graph!Commit
    <3> QED
      BY <1>12, <3>1, <3>2, <3>3, <3>4 DEF Solution
  <2>2. ResultsChained(results', edges')
    <3>1. results \subseteq results' /\ \A r \in results' \ results : r.kind # "finalize_work"
      BY <2>1, RowsAdded
    <3> QED
      BY <2>1, <3>1, Linking DEF Chaining
  <2>3. /\ Locals \subseteq DOMAIN call' /\ call'.at \in {"store", "verify"} /\ call'.solution = solution
        /\ \A f \in Locals \ {"at", "solution"} : call'[f] = call[f]
        /\ \E before : saved' = <<before>> /\ ResultsChained(before.results, before.edges)
        /\ ChainIn(call, edges')
    BY <2>1, Kept DEF Locals
  <2>4. ChainIn(call', edges') /\ NotYet(call')
    BY <2>1, <2>3 DEF Chaining, ChainIn, NotYet, Locals
  <2> QED
    BY <2>2, <2>3, <2>4 DEF Chaining
<1>13. CASE Verify
  <2> DEFINE n == Len(nodes) + 1
  <2>1. /\ call.at = "verify" /\ edges \subseteq edges' /\ <<call.solution, "VERIFIED_BY", n>> \in edges'
        /\ \E part, t : Said(part, "record_verification", t)
        /\ \E index : Proceed([index |-> index, verifications |-> call.verifications \cup {n}])
    BY <1>13 DEF Verify, Graph!RecordVerification, Graph!Commit
  <2> HIDE DEF n
  <2>2. ResultsChained(results', edges')
    <3>1. results \subseteq results' /\ \A r \in results' \ results : r.kind # "finalize_work"
      BY <2>1, RowsAdded
    <3> QED
      BY <2>1, <3>1, Linking DEF Chaining
  <2>3. /\ Locals \subseteq DOMAIN call' /\ call'.verifications = call.verifications \cup {n}
        /\ \A f \in Locals \ {"verifications"} : call'[f] = call[f]
        /\ \E before : saved' = <<before>> /\ ResultsChained(before.results, before.edges)
        /\ ChainIn(call, edges')
    BY <2>1, Kept DEF Locals
  <2>4. ChainIn(call', edges') /\ NotYet(call')
    BY <2>1, <2>3 DEF Chaining, ChainIn, NotYet, Locals
  <2> QED
    BY <2>1, <2>2, <2>3, <2>4 DEF Chaining, Locals
<1>14. CASE Deliver
  <2>1. PICK new : /\ call.at = "verify" /\ results' = results
                   /\ edges' = edges \cup {<<call.problem, "REFERENCES", n>> : n \in new}
                   /\ Proceed([at |-> "store", artifacts |-> new])
    BY <1>14 DEF Deliver
  <2>2. edges \subseteq edges' /\ \A n \in new : <<call.problem, "REFERENCES", n>> \in edges'
    BY <2>1
  <2>3. ResultsChained(results', edges')
    BY <2>1, <2>2, Linking DEF Chaining
  <2>4. /\ Locals \subseteq DOMAIN call' /\ call'.at = "store" /\ call'.artifacts = new
        /\ \A f \in Locals \ {"at", "artifacts"} : call'[f] = call[f]
        /\ \E before : saved' = <<before>> /\ ResultsChained(before.results, before.edges)
        /\ ChainIn(call, edges')
    BY <2>1, <2>2, Kept DEF Locals
  <2>5. ChainIn(call', edges') /\ NotYet(call')
    BY <2>2, <2>4 DEF ChainIn, NotYet, Locals
  <2> QED
    BY <2>3, <2>4, <2>5 DEF Chaining
<1>15. CASE BatchWrite
  <2>1. call.at = "batch" /\ results' = results /\ \E index : Proceed([index |-> index])
    BY <1>15 DEF BatchWrite
  <2>2. edges \subseteq edges'
    <3>1. CASE \E t, f : Graph!OpenCase(t, f)
      BY <3>1, Opening DEF Grown
    <3>2. CASE \E c : Graph!Record(c)
      BY <3>2, CaseGrows DEF Grown
    <3> QED
      BY <1>15, <3>1, <3>2 DEF BatchWrite
  <2>3. ResultsChained(results', edges')
    BY <2>1, <2>2, Linking DEF Chaining
  <2>4. /\ Locals \subseteq DOMAIN call' /\ \A f \in Locals : call'[f] = call[f]
        /\ \E before : saved' = <<before>> /\ ResultsChained(before.results, before.edges)
        /\ ChainIn(call, edges')
    BY <2>1, <2>2, Kept DEF Locals
  <2>5. ChainIn(call', edges') /\ NotYet(call')
    BY <2>4 DEF Chaining, ChainIn, NotYet, Locals
  <2> QED
    BY <2>1, <2>3, <2>4, <2>5 DEF Chaining, Locals
<1>16. CASE BatchDone
  <2>1. call.at = "batch" /\ results' = results /\ edges' = edges /\ Proceed([at |-> "store"])
    BY <1>16 DEF BatchDone, NothingSaid, graphVars
  <2>2. /\ Locals \subseteq DOMAIN call' /\ call'.at = "store"
        /\ \A f \in Locals \ {"at"} : call'[f] = call[f]
        /\ \E before : saved' = <<before>> /\ ResultsChained(before.results, before.edges)
    BY <2>1, Kept DEF Locals
  <2>3. ChainIn(call', edges') /\ NotYet(call')
    BY <2>1, <2>2 DEF Chaining, ChainIn, NotYet, Locals
  <2> QED
    BY <2>1, <2>2, <2>3 DEF Chaining
<1> QED
  BY <1>1, <1>2, <1>3, <1>4, <1>5, <1>9, <1>10, <1>11, <1>12, <1>13, <1>14, <1>15, <1>16

(* The locals of the call become its result.                                *)
LEMMA Storing ==
    ASSUME Chaining, StoreOperation
    PROVE  ResultsChained(results', edges')
<1> DEFINE row == Row(Whole, call.input.kind, Value)
<1>1. results' = results \cup {row} /\ edges' = edges
  BY DEF StoreOperation, graphVars
<1>2. ChainIn(Value, edges)
  BY DEF Chaining, ChainIn, Value
<1>3. row.value = Value
  BY DEF Row
<1> HIDE DEF row
<1> QED
  BY <1>1, <1>2, <1>3 DEF Chaining, ResultsChained

LEMMA ChainStep ==
    ASSUME WholeInv, ChainInv, [Next]_vars
    PROVE  ChainInv'
<1> DEFINE Writing == \/ StartWork \/ LoadCheckpointWork \/ CaseAnchor \/ RecordProblem \/ CheckpointAttempt
                      \/ GatherEvidence \/ FailedAttempt \/ SucceededAttempt
                      \/ RootCause \/ Solution \/ Verify \/ Deliver \/ BatchWrite \/ BatchDone
<1>0. IsSeq(cases) /\ GoodNodes(nodes)
  BY Fields DEF WholeInv, Ongoing, Consistent
<1>1. CASE \E input \in Inputs, case \in {0} \cup DOMAIN cases, failedIds \in Named :
              Begin(input, case, failedIds)
  <2>1. PICK input, case, failedIds : Begin(input, case, failedIds)
    BY <1>1
  <2>2. ResultsChained(results, edges)
    BY <2>1 DEF ChainInv, Chaining
  <2>3. /\ saved' = <<View>> /\ results' = results /\ edges' = edges
        /\ Locals \subseteq DOMAIN call' /\ call'.at = "lookup"
        /\ call'.attempts = {} /\ call'.root = NoNode /\ call'.solution = NoNode
        /\ call'.verifications = {} /\ call'.artifacts = {}
    BY <2>1 DEF Begin, graphVars, Locals
  <2>4. Chaining'
    BY <2>2, <2>3, Fields DEF Chaining, ChainIn, NotYet
  <2> QED
    BY <2>4 DEF ChainInv
<1>2. CASE Replay \/ SkipRoutineSuccess \/ StoreOperation \/ RollBack
  <2>1. call' = NoCall /\ saved' = <<>>
    BY <1>2 DEF Replay, SkipRoutineSuccess, StoreOperation, RollBack, Release
  <2>2. Chaining
    <3>1. NoCall.at = "idle"
      BY DEF NoCall
    <3> QED
      BY <1>2, <3>1 DEF Replay, SkipRoutineSuccess, StoreOperation, RollBack, ChainInv
  <2>3. CASE Replay
    BY <2>1, <2>2, <2>3 DEF Replay, NothingSaid, graphVars, ChainInv, Chaining
  <2>4. CASE SkipRoutineSuccess
    <3>1. /\ results' = results \cup {Row(Whole, "checkpoint_work", NoValue)} /\ edges' = edges
      BY <2>4 DEF SkipRoutineSuccess, graphVars
    <3>2. results \subseteq results' /\ \A r \in results' \ results : r.kind # "finalize_work"
      BY <3>1, RowsAdded
    <3> QED
      BY <2>1, <2>2, <3>1, <3>2, Linking DEF ChainInv, Chaining
  <2>5. CASE StoreOperation
    BY <2>1, <2>2, <2>5, Storing DEF ChainInv
  <2>6. CASE RollBack
    <3>1. PICK before : saved = <<before>> /\ ResultsChained(before.results, before.edges)
      BY <2>2 DEF Chaining
    <3>2. saved[1] = before
      BY <3>1
    <3>3. results' = before.results /\ edges' = before.edges
      BY <2>6, <3>2 DEF RollBack
    <3> QED
      BY <2>1, <3>1, <3>3 DEF ChainInv
  <2> QED
    BY <1>2, <2>3, <2>4, <2>5, <2>6
<1>3. CASE Writing
  <2>1. call.at # "idle"
    BY <1>3 DEF StartWork, LoadCheckpointWork, CaseAnchor, RecordProblem, CheckpointAttempt,
                GatherEvidence, FailedAttempt, SucceededAttempt, RootCause, Solution, Verify,
                Deliver, BatchWrite, BatchDone
  <2>2. Chaining
    BY <2>1 DEF ChainInv, NoCall
  <2>3. Chaining'
    BY <1>0, <1>3, <2>2, Chained
  <2> QED
    BY <2>3 DEF ChainInv
<1>4. CASE Curation
  <2>1. call = NoCall /\ call' = call /\ saved' = saved /\ results' = results
    BY <1>4 DEF Curation
  <2>2. saved = <<>> /\ ResultsChained(results, edges)
    BY <2>1 DEF ChainInv, Chaining, NoCall
  <2>3. PICK c : Graph!Curate(c) \/ \E root : Graph!PromoteRootCause(c, root)
    BY <1>4 DEF Curation
  <2>4. edges \subseteq edges'
    BY <1>0, <2>3, CaseGrows, Confirming DEF Grown
  <2> QED
    BY <2>1, <2>2, <2>4, Linking DEF ChainInv
<1>5. CASE UNCHANGED vars
  <2>1. call' = call /\ saved' = saved /\ results' = results /\ edges' = edges
    BY <1>5 DEF vars, graphVars
  <2> QED
    BY <2>1 DEF ChainInv, Chaining
<1> QED
  BY <1>1, <1>2, <1>3, <1>4, <1>5 DEF Next

LEMMA ChainInit == Init => ChainInv
BY DEF Init, Graph!Init, ChainInv, ResultsChained

LEMMA ChainShown == ChainInv => FinalizedChain
<1> SUFFICES ASSUME ChainInv
             PROVE  FinalizedChain
  OBVIOUS
<1>1. ResultsChained(Durable.results, Durable.edges)
  BY Fields DEF ChainInv, Chaining, Durable
<1> QED
  BY <1>1 DEF FinalizedChain, Finalized, ResultsChained, ChainIn

(* The chain that a final result reports is in the graph, for any calls over *)
(* any graph: each Attempt for the Problem, each failure explained by the   *)
(* RootCause, the Solution for that RootCause and checked by its            *)
(* Verifications (finalize_work of write.rs and the helpers that look for   *)
(* equivalent nodes).                                                       *)
THEOREM ChainCorrect == Spec => []FinalizedChain
<1>1. Init => WholeInv /\ ChainInv
  BY WholeInit, ChainInit
<1>2. (WholeInv /\ ChainInv) /\ [Next]_vars => (WholeInv /\ ChainInv)'
  BY WholeStep, ChainStep
<1>3. WholeInv /\ ChainInv => FinalizedChain
  BY ChainShown
<1> QED
  BY <1>1, <1>2, <1>3, PTL DEF Spec

--------------------------------------------------------------------------------
(* What is lost stays lost *)

(* Of the nodes a step leaves: those that were regressed or retired are so  *)
(* still, and no RootCause has become verified.                             *)
Lost == {"regressed", "retired"}
Unrevived(ns) ==
    \A n \in DOMAIN nodes : nodes[n].status \in Lost => ns[n].status = nodes[n].status
Unpromoted(ns) ==
    \A n \in DOMAIN ns : ns[n].type = "RootCause" /\ ns[n].status = "verified"
                            => n \in DOMAIN nodes /\ nodes[n].status = "verified"

(* A promotion changes one node: a Solution that is not lost.               *)
LEMMA PromotionRevives ==
    ASSUME IsSeq(cases), NEW ns, GoodNodes(ns), DOMAIN nodes \subseteq DOMAIN ns, NEW es, NEW c,
           Unrevived(ns)
    PROVE  LET new == Graph!Promote(cases, ns, es, c).nodes IN
           Unrevived(new) /\ (Unpromoted(ns) => Unpromoted(new))
<1> DEFINE promotable == Graph!Promotable(ns, es, c)
           new == Graph!Promote(cases, ns, es, c).nodes
           s == Graph!Newest(promotable)
<1>1. CASE promotable = {}
  <2>1. new = ns
    BY <1>1 DEF Graph!Promote
  <2> QED
    BY <2>1
<1>2. CASE promotable # {}
  <2>1. new = [ns EXCEPT ![s] = [ns[s] EXCEPT !.status = "verified"]]
    BY <1>2 DEF Graph!Promote, Graph!WithStatus
  <2>2. promotable \subseteq DOMAIN ns
    BY DEF Graph!Promotable
  <2>3. s \in promotable
    <3> HIDE DEF promotable
    <3> QED
      BY <1>2, <2>2, NewestOf
  <2>4. /\ s \in DOMAIN ns /\ ns[s].type = "Solution"
        /\ ns[s].status \in {"candidate", "verified"}
    <3> HIDE DEF s
    <3> QED
      BY <2>3 DEF Graph!Promotable, Graph!Active
  <2>5. DOMAIN new = DOMAIN ns /\ (\A n \in DOMAIN ns : n # s => new[n] = ns[n])
    <3> HIDE DEF s
    <3> QED
      BY <2>1
  <2>6. new[s].type = "Solution"
    BY <2>4, Promoted DEF SameNodes
  <2> HIDE DEF s, new
  <2>7. Unrevived(new) /\ (Unpromoted(ns) => Unpromoted(new))
    BY <2>4, <2>5, <2>6 DEF Unrevived, Unpromoted, Lost
  <2> QED
    BY <2>7 DEF new
<1> QED
  BY <1>1, <1>2

(* A call that leaves the nodes as they are, adds one or confirms a         *)
(* RootCause that is not lost, and ends there or with a promotion.          *)
LEMMA Reviving ==
    ASSUME IsSeq(cases), NEW ns, GoodNodes(ns), DOMAIN nodes \subseteq DOMAIN ns, Unrevived(ns),
           NEW es, NEW c, nodes' = ns \/ Graph!Commit(ns, es, c)
    PROVE  Unrevived(nodes') /\ (Unpromoted(ns) => Unpromoted(nodes'))
BY PromotionRevives DEF Graph!Commit

LEMMA NewNode ==
    ASSUME IsSeq(cases), GoodNodes(nodes), NEW type, NEW of, NEW status, NEW data,
           LET ns == Append(nodes, Graph!Node(type, of, status, data)) IN
           nodes' = ns \/ \E es, c : Graph!Commit(ns, es, c)
    PROVE  /\ Unrevived(nodes')
           /\ type # "RootCause" \/ status # "verified" => Unpromoted(nodes')
<1> DEFINE node == Graph!Node(type, of, status, data)
           ns == Append(nodes, node)
<1>1. GoodNodes(ns) /\ DOMAIN nodes \subseteq DOMAIN ns /\ \A n \in DOMAIN ns \ DOMAIN nodes : n = Len(nodes) + 1
  BY NodeAppended DEF SameNodes
<1>2. node.type = type /\ node.status = status
  BY DEF Graph!Node
<1> HIDE DEF node
<1>3. (\A n \in DOMAIN nodes : ns[n] = nodes[n]) /\ ns[Len(nodes) + 1] = node
  BY Appended DEF GoodNodes
<1>4. nodes' = ns \/ \E es, c : Graph!Commit(ns, es, c)
  BY DEF node
<1> HIDE DEF ns
<1>5. Unrevived(ns)
  BY <1>3 DEF Unrevived
<1>6. type # "RootCause" \/ status # "verified" => Unpromoted(ns)
  BY <1>1, <1>2, <1>3 DEF Unpromoted
<1> QED
  BY <1>1, <1>4, <1>5, <1>6, Reviving

LEMMA SameStatus ==
    ASSUME nodes' = nodes
    PROVE  Unrevived(nodes') /\ Unpromoted(nodes')
BY DEF Unrevived, Unpromoted

(* The record calls a batch may make.                                       *)
LEMMA RecordRevives ==
    ASSUME IsSeq(cases), GoodNodes(nodes), NEW c, Graph!Record(c)
    PROVE  Unrevived(nodes')
<1>1. CASE \E f : Graph!JoinCase(c, f)
  <2>1. \E data : nodes' = Append(nodes, Graph!Node("Problem", c, "open", data))
    BY <1>1 DEF Graph!JoinCase, Graph!AddProblem
  <2> QED
    BY <2>1, NewNode
<1>2. CASE \E problem, previous, outcome : Graph!RecordAttempt(c, problem, previous, outcome)
  <2>1. \E status, data : nodes' = Append(nodes, Graph!Node("Attempt", c, status, data))
    BY <1>2 DEF Graph!RecordAttempt
  <2> QED
    BY <2>1, NewNode
<1>3. CASE \E problem, failed, status : Graph!RecordRootCause(c, problem, failed, status)
  <2>1. \E status, es : Graph!Commit(Append(nodes, Graph!Node("RootCause", c, status, Graph!NoData)), es, c)
    BY <1>3 DEF Graph!RecordRootCause
  <2> QED
    BY <2>1, NewNode
<1>4. CASE \E root : Graph!PromoteRootCause(c, root)
  <2>1. PICK root : /\ root \in DOMAIN nodes /\ nodes[root].status \in {"candidate", "verified"}
                    /\ Graph!Commit(Graph!WithStatus(nodes, root, "verified"), edges, c)
    BY <1>4 DEF Graph!PromoteRootCause, Graph!IsNode
  <2> DEFINE ns == Graph!WithStatus(nodes, root, "verified")
  <2>2. GoodNodes(ns) /\ DOMAIN ns = DOMAIN nodes
    BY StatusSet
  <2>3. \A n \in DOMAIN nodes : n # root => ns[n] = nodes[n]
    BY DEF Graph!WithStatus
  <2> HIDE DEF ns
  <2>4. Unrevived(ns)
    BY <2>1, <2>3 DEF Unrevived, Lost
  <2>5. Graph!Commit(ns, edges, c)
    BY <2>1 DEF ns
  <2> QED
    BY <2>2, <2>4, <2>5, Reviving
<1>5. CASE \E root, data : Graph!RecordSolution(c, root, data)
  <2>1. \E data, es : Graph!Commit(Append(nodes, Graph!Node("Solution", c, "candidate", data)), es, c)
    BY <1>5 DEF Graph!RecordSolution
  <2> QED
    BY <2>1, NewNode
<1>6. CASE \E root, status : Graph!RecordGuardrail(c, root, status)
  <2>1. \E status : nodes' = Append(nodes, Graph!Node("Guardrail", c, status, Graph!NoData))
    BY <1>6 DEF Graph!RecordGuardrail
  <2> QED
    BY <2>1, NewNode
<1>7. CASE \E solution, data : Graph!RecordVerification(c, solution, data)
  <2>1. \E status, data, es : Graph!Commit(Append(nodes, Graph!Node("Verification", c, status, data)), es, c)
    BY <1>7 DEF Graph!RecordVerification
  <2> QED
    BY <2>1, NewNode
<1>8. CASE \E verification : Graph!RecordArtifact(c, verification)
  <2>1. nodes' = Append(nodes, Graph!Node("Artifact", c, "candidate", Graph!NoData))
    BY <1>8 DEF Graph!RecordArtifact
  <2> QED
    BY <2>1, NewNode
<1> QED
  BY <1>1, <1>2, <1>3, <1>4, <1>5, <1>6, <1>7, <1>8 DEF Graph!Record

(* The steps of a call.                                                     *)
LEMMA NothingRevived ==
    ASSUME Ongoing,
           \/ StartWork \/ LoadCheckpointWork \/ CaseAnchor \/ RecordProblem \/ CheckpointAttempt
           \/ GatherEvidence \/ FailedAttempt \/ SucceededAttempt
           \/ RootCause \/ Solution \/ Verify \/ Deliver \/ BatchWrite \/ BatchDone
    PROVE  Unrevived(nodes') /\ (call.input.kind # "record_checkpoint" => Unpromoted(nodes'))
<1>0. IsSeq(cases) /\ GoodNodes(nodes)
  BY Graphs
<1>1. CASE nodes' = nodes
  BY <1>1, SameStatus
<1>2. CASE \E t, f : Graph!OpenCase(t, f)
  <2>1. \E of, data : nodes' = Append(nodes, Graph!Node("Problem", of, "open", data))
    BY <1>2 DEF Graph!OpenCase, Graph!AddProblem
  <2> QED
    BY <1>0, <2>1, NewNode
<1>3. CASE \E part, t, outcome : RecordAttempt(part, t, outcome)
  <2>1. \E status, data : nodes' = Append(nodes, Graph!Node("Attempt", call.case, status, data))
    BY <1>3 DEF RecordAttempt, Graph!RecordAttempt
  <2> QED
    BY <1>0, <2>1, NewNode
<1>4. CASE NewRootCause
  <2>1. \E es : Graph!Commit(Append(nodes, Graph!Node("RootCause", call.case, "candidate", Graph!NoData)), es, call.case)
    BY <1>4 DEF NewRootCause, NewRootCauseAs, Graph!RecordRootCause
  <2> QED
    BY <1>0, <2>1, NewNode
<1>5. CASE \E data : Graph!RecordSolution(call.case, call.root, data)
  <2>1. \E data, es : Graph!Commit(Append(nodes, Graph!Node("Solution", call.case, "candidate", data)), es, call.case)
    BY <1>5 DEF Graph!RecordSolution
  <2> QED
    BY <1>0, <2>1, NewNode
<1>6. CASE Verify
  <2>1. \E status, data, es : Graph!Commit(Append(nodes, Graph!Node("Verification", call.case, status, data)), es, call.case)
    BY <1>6 DEF Verify, Graph!RecordVerification
  <2> QED
    BY <1>0, <2>1, NewNode
<1>7. CASE Deliver
  <2> DEFINE count == IF call.input.commit THEN 2 ELSE 1
             part == Graph!Node("Artifact", call.case, "candidate", Graph!NoData)
             parts == [i \in 1..count |-> part]
  <2>1. nodes' = nodes \o parts
    BY <1>7 DEF Deliver
  <2>2. count \in Nat /\ part.type = "Artifact"
    BY DEF Graph!Node
  <2> HIDE DEF count, part
  <2>3. parts \in Seq({part}) /\ Len(parts) = count /\ \A i \in 1..count : parts[i] = part
    BY <2>2
  <2> HIDE DEF parts
  <2>4. IsSeq(parts) /\ IsSeq(nodes) /\ Len(nodes) \in Nat /\ DOMAIN nodes = 1..Len(nodes)
    BY <1>0, <2>3, SequenceIsSeq, Length DEF GoodNodes
  <2>5. /\ DOMAIN nodes' = 1..Len(nodes) + count
        /\ \A i \in 1..Len(nodes) + count : nodes'[i] = IF i <= Len(nodes) THEN nodes[i] ELSE parts[i - Len(nodes)]
    BY <2>1, <2>3, <2>4, Concatenated
  <2>6. \A n \in DOMAIN nodes : nodes'[n] = nodes[n]
    BY <2>2, <2>4, <2>5
  <2>7. \A n \in DOMAIN nodes' \ DOMAIN nodes : nodes'[n].type = "Artifact"
    BY <2>2, <2>3, <2>4, <2>5
  <2> QED
    BY <2>6, <2>7 DEF Unrevived, Unpromoted
<1>8. CASE BatchWrite
  <2>1. call.input.kind = "record_checkpoint"
    BY <1>8 DEF BatchWrite, Ongoing, KindAt
  <2>2. CASE \E c : Graph!Record(c)
    BY <1>0, <2>1, <2>2, RecordRevives
  <2> QED
    BY <1>2, <1>8, <2>2 DEF BatchWrite
<1> QED
  BY <1>1, <1>2, <1>3, <1>4, <1>5, <1>6, <1>7, <1>8
     DEF StartWork, LoadCheckpointWork, CaseAnchor, RecordProblem, CheckpointAttempt, GatherEvidence,
         FailedAttempt, SucceededAttempt, RootCause, Solution, BatchDone, NothingSaid, graphVars

LEMMA ReuseStep ==
    ASSUME WholeInv, [Next]_vars, call # NoCall, call' # NoCall
    PROVE  /\ \A n \in DOMAIN nodes :
                 nodes[n].status \in {"regressed", "retired"} => nodes'[n].status = nodes[n].status
           /\ \A n \in DOMAIN nodes' :
                 /\ nodes'[n].type = "RootCause" /\ nodes'[n].status = "verified"
                 /\ call.input.kind # "record_checkpoint"
                 => n \in DOMAIN nodes /\ nodes[n].status = "verified"
<1>1. Ongoing
  BY DEF WholeInv
<1>2. Unrevived(nodes') /\ (call.input.kind # "record_checkpoint" => Unpromoted(nodes'))
  <2>1. ~Release /\ ~Curation /\ \A input, case, failedIds : ~Begin(input, case, failedIds)
    BY DEF Release, Curation, Begin
  <2>2. ~(Replay \/ SkipRoutineSuccess \/ StoreOperation \/ RollBack)
    BY <2>1 DEF Replay, SkipRoutineSuccess, StoreOperation, RollBack
  <2>3. CASE UNCHANGED vars
    <3>1. nodes' = nodes
      BY <2>3 DEF vars, graphVars
    <3> QED
      BY <3>1, SameStatus
  <2> QED
    BY <1>1, <2>1, <2>2, <2>3, NothingRevived DEF Next
<1> QED
  BY <1>2 DEF Unrevived, Unpromoted, Lost

(* A step of an aggregate neither revives what was regressed or retired nor, *)
(* unless it is a batch of record calls, verifies a RootCause, for any calls *)
(* over any graph (the promotion that ends the record calls of write.rs     *)
(* considers only Solutions that are candidates or verified).               *)
THEOREM ReuseCorrect == Spec => ReuseRevivesNothing
<1>1. WholeInv /\ [Next]_vars =>
         [call # NoCall /\ call' # NoCall =>
          /\ \A n \in DOMAIN nodes :
                nodes[n].status \in {"regressed", "retired"} => nodes'[n].status = nodes[n].status
          /\ \A n \in DOMAIN nodes' :
                /\ nodes'[n].type = "RootCause" /\ nodes'[n].status = "verified"
                /\ call.input.kind # "record_checkpoint"
                => n \in DOMAIN nodes /\ nodes[n].status = "verified"]_vars
  BY ReuseStep
<1>2. Init => WholeInv
  BY WholeInit
<1>3. WholeInv /\ [Next]_vars => WholeInv'
  BY WholeStep
<1> QED
  BY <1>1, <1>2, <1>3, PTL DEF Spec, ReuseRevivesNothing
================================================================================
