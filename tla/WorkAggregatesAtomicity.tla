------------------------ MODULE WorkAggregatesAtomicity ------------------------
(***************************************************************************)
(* WorkAggregates for any calls, in any number, over any graph: what others *)
(* see of an aggregate is all of it or nothing.  Its parts, their rows and  *)
(* its delivery artifacts are in the connection's own view until the result *)
(* is stored, and a rollback at any step takes them back.                   *)
(*                                                                         *)
(* The graph only has to keep its shape: a list of Cases, a list of nodes   *)
(* that keep their type and Case, and edges that stay.  The first sections  *)
(* show this of every record and curation call of CaseLifecycle.            *)
(***************************************************************************)
EXTENDS WorkAggregates, SequenceTheorems, TLAPS

--------------------------------------------------------------------------------
(* Lists, whatever they hold *)
IsSeq(s) == \E k \in Nat : s = [i \in 1..k |-> s[i]]
(* Nodes: a list of records, in which a node keeps its type and its Case.   *)
IsRecord(x) == x = Graph!Node(x.type, x.case, x.status, x.data)
GoodNodes(ns) == IsSeq(ns) /\ \A n \in DOMAIN ns : IsRecord(ns[n])
SameNodes(ns, new) ==
    DOMAIN ns \subseteq DOMAIN new /\ \A n \in DOMAIN ns : new[n].type = ns[n].type /\ new[n].case = ns[n].case

LEMMA Length ==
    ASSUME NEW s, IsSeq(s)
    PROVE  /\ Len(s) \in Nat /\ DOMAIN s = 1..Len(s) /\ s = [i \in 1..Len(s) |-> s[i]]
           /\ \A S : (\A i \in 1..Len(s) : s[i] \in S) => s \in Seq(S)
<1>1. PICK k \in Nat : s = [i \in 1..k |-> s[i]]
  BY DEF IsSeq
<1>2. \A S : (\A i \in 1..k : s[i] \in S) => s \in Seq(S)
  <2>1. ASSUME NEW S, \A i \in 1..k : s[i] \in S
        PROVE  s \in Seq(S)
    <3>1. s \in [1..k -> S]
      BY <1>1, <2>1
    <3> QED
      BY <3>1, SeqDef
  <2> QED
    BY <2>1
<1>3. DOMAIN s = 1..k
  BY <1>1
<1>4. s \in Seq({s[i] : i \in 1..k})
  BY <1>2
<1>5. Len(s) = k
  BY <1>3, <1>4, LenProperties
<1> QED
  BY <1>1, <1>2, <1>3, <1>5

LEMMA SequenceIsSeq ==
    ASSUME NEW S, NEW s \in Seq(S)
    PROVE  IsSeq(s)
<1>1. Len(s) \in Nat /\ s = [i \in 1..Len(s) |-> s[i]]
  OBVIOUS
<1> QED
  BY <1>1 DEF IsSeq

LEMMA Appended ==
    ASSUME NEW s, IsSeq(s), NEW e
    PROVE  /\ IsSeq(Append(s, e)) /\ Len(Append(s, e)) = Len(s) + 1
           /\ DOMAIN Append(s, e) = 1..Len(s) + 1
           /\ \A i \in DOMAIN s : i \in DOMAIN Append(s, e) /\ Append(s, e)[i] = s[i]
           /\ Append(s, e)[Len(s) + 1] = e
<1> DEFINE S == {s[i] : i \in 1..Len(s)} \cup {e}
<1>1. Len(s) \in Nat /\ DOMAIN s = 1..Len(s) /\ s \in Seq(S) /\ e \in S
  BY Length
<1> HIDE DEF S
<1>2. /\ Append(s, e) \in Seq(S) /\ Len(Append(s, e)) = Len(s) + 1
      /\ \A i \in 1..Len(s) : Append(s, e)[i] = s[i]
      /\ Append(s, e)[Len(s) + 1] = e
  BY <1>1, AppendProperties
<1>3. DOMAIN Append(s, e) = 1..Len(Append(s, e))
  BY <1>2, LenProperties
<1>4. 1..Len(s) \subseteq 1..Len(s) + 1
  BY <1>1
<1> QED
  BY <1>1, <1>2, <1>3, <1>4, SequenceIsSeq

(* A node's status is set, and nothing else of it.                          *)
LEMMA StatusSet ==
    ASSUME NEW ns, GoodNodes(ns), NEW n, NEW status
    PROVE  /\ GoodNodes(Graph!WithStatus(ns, n, status))
           /\ DOMAIN Graph!WithStatus(ns, n, status) = DOMAIN ns
           /\ SameNodes(ns, Graph!WithStatus(ns, n, status))
<1> DEFINE new == Graph!WithStatus(ns, n, status)
<1>1. new = [ns EXCEPT ![n] = [ns[n] EXCEPT !.status = status]]
  BY DEF Graph!WithStatus
<1>2. DOMAIN new = DOMAIN ns /\ new = [m \in DOMAIN ns |-> new[m]]
  BY <1>1
<1>3. IsSeq(new)
  <2>1. IsSeq(ns)
    BY DEF GoodNodes
  <2> HIDE DEF new
  <2>2. PICK k \in Nat : ns = [i \in 1..k |-> ns[i]]
    BY <2>1 DEF IsSeq
  <2>3. DOMAIN ns = 1..k
    BY <2>2
  <2> QED
    BY <1>2, <2>3 DEF IsSeq
<1>4. ASSUME NEW m \in DOMAIN ns
      PROVE  IsRecord(new[m]) /\ new[m].type = ns[m].type /\ new[m].case = ns[m].case
  <2>1. ns[m] = [type |-> ns[m].type, case |-> ns[m].case, status |-> ns[m].status, data |-> ns[m].data]
    BY <1>4 DEF GoodNodes, IsRecord, Graph!Node
  <2>2. CASE m # n
    <3>1. new[m] = ns[m]
      BY <1>1, <2>2
    <3> QED
      BY <3>1, <1>4 DEF GoodNodes
  <2>3. CASE m = n
    <3>1. new[m] = [ns[m] EXCEPT !.status = status]
      BY <1>1, <2>3
    <3>2. new[m] = [type |-> ns[m].type, case |-> ns[m].case, status |-> status, data |-> ns[m].data]
      BY <2>1, <3>1
    <3> HIDE DEF new
    <3> QED
      BY <3>2 DEF IsRecord, Graph!Node
  <2> QED
    BY <2>2, <2>3
<1> QED
  BY <1>2, <1>3, <1>4 DEF GoodNodes, SameNodes

--------------------------------------------------------------------------------
(* Record and curation calls *)

(* What any of them may do to the graph: an Artifact it adds belongs to a   *)
(* Verification, and a Case it adds has a Problem.                          *)
Evidence(n, ns, es) == \E e \in es : e[3] = n /\ e[1] \in DOMAIN ns /\ ns[e[1]].type = "Verification"
HasProblem(c, ns) == \E n \in DOMAIN ns : ns[n].case = c /\ ns[n].type = "Problem"
Grown ==
    /\ IsSeq(cases') /\ GoodNodes(nodes') /\ SameNodes(nodes, nodes') /\ edges \subseteq edges'
    /\ \A n \in DOMAIN nodes' \ DOMAIN nodes : nodes'[n].type = "Artifact" => Evidence(n, nodes', edges')
    /\ \A c \in DOMAIN cases' \ DOMAIN cases : HasProblem(c, nodes')

(* A promotion sets statuses only.                                          *)
LEMMA Promoted ==
    ASSUME IsSeq(cases), NEW ns, GoodNodes(ns), NEW es, NEW c
    PROVE  LET after == Graph!Promote(cases, ns, es, c) IN
           /\ IsSeq(after.cases) /\ DOMAIN after.cases = DOMAIN cases
           /\ GoodNodes(after.nodes) /\ DOMAIN after.nodes = DOMAIN ns /\ SameNodes(ns, after.nodes)
<1> DEFINE promotable == Graph!Promotable(ns, es, c)
           after == Graph!Promote(cases, ns, es, c)
           promoted == [cases EXCEPT ![c].status = "verified"]
<1>1. CASE promotable = {}
  <2>1. after = [cases |-> cases, nodes |-> ns]
    BY <1>1 DEF Graph!Promote
  <2> QED
    BY <2>1 DEF SameNodes
<1>2. CASE promotable # {}
  <2>1. /\ after.cases = promoted
        /\ after.nodes = Graph!WithStatus(ns, Graph!Newest(promotable), "verified")
    BY <1>2 DEF Graph!Promote
  <2>2. DOMAIN promoted = DOMAIN cases /\ promoted = [d \in DOMAIN cases |-> promoted[d]]
    OBVIOUS
  <2>3. IsSeq(promoted)
    <3> HIDE DEF promoted
    <3>1. DOMAIN cases = 1..Len(cases) /\ Len(cases) \in Nat
      BY Length
    <3> QED
      BY <2>2, <3>1 DEF IsSeq
  <2> HIDE DEF promotable, promoted, after
  <2> QED
    BY <2>1, <2>2, <2>3, StatusSet DEF after
<1> QED
  BY <1>1, <1>2

LEMMA SameTwice ==
    ASSUME NEW ns, NEW mid, NEW new, SameNodes(ns, mid), SameNodes(mid, new)
    PROVE  SameNodes(ns, new)
BY DEF SameNodes

LEMMA NodeAppended ==
    ASSUME NEW ns, GoodNodes(ns), NEW type, NEW c, NEW status, NEW data
    PROVE  LET new == Append(ns, Graph!Node(type, c, status, data)) IN
           /\ GoodNodes(new) /\ SameNodes(ns, new)
           /\ \A n \in DOMAIN new \ DOMAIN ns : n = Len(ns) + 1
           /\ new[Len(ns) + 1].type = type /\ new[Len(ns) + 1].case = c
           /\ Len(ns) + 1 \in DOMAIN new
<1> DEFINE node == Graph!Node(type, c, status, data)
           new == Append(ns, node)
<1>1. node.type = type /\ node.case = c /\ IsRecord(node)
  BY DEF IsRecord, Graph!Node
<1> HIDE DEF node
<1>2. /\ IsSeq(new) /\ DOMAIN new = 1..Len(ns) + 1
      /\ \A i \in DOMAIN ns : i \in DOMAIN new /\ new[i] = ns[i]
      /\ new[Len(ns) + 1] = node
  BY Appended DEF GoodNodes
<1>3. DOMAIN ns = 1..Len(ns) /\ Len(ns) \in Nat
  BY Length DEF GoodNodes
<1> HIDE DEF new
<1>4. Len(ns) + 1 \in DOMAIN new /\ \A n \in DOMAIN new \ DOMAIN ns : n = Len(ns) + 1
  BY <1>2, <1>3
<1>5. \A n \in DOMAIN new : IsRecord(new[n])
  BY <1>1, <1>2, <1>4 DEF GoodNodes
<1> QED
  BY <1>1, <1>2, <1>4, <1>5 DEF GoodNodes, SameNodes, new, node

(* A call that adds a node which is no Artifact, or sets a status, and ends *)
(* there or with a promotion.                                               *)
LEMMA Ending ==
    ASSUME IsSeq(cases), NEW ns, GoodNodes(ns), SameNodes(nodes, ns),
           \A n \in DOMAIN ns \ DOMAIN nodes : ns[n].type # "Artifact",
           NEW es, edges \subseteq es, NEW c,
           \/ cases' = cases /\ nodes' = ns /\ edges' = es
           \/ Graph!Commit(ns, es, c)
    PROVE  Grown
<1>1. CASE cases' = cases /\ nodes' = ns /\ edges' = es
  BY <1>1 DEF Grown
<1>2. CASE Graph!Commit(ns, es, c)
  <2> DEFINE after == Graph!Promote(cases, ns, es, c)
  <2>1. cases' = after.cases /\ nodes' = after.nodes /\ edges' = es
    BY <1>2 DEF Graph!Commit
  <2>2. /\ IsSeq(after.cases) /\ DOMAIN after.cases = DOMAIN cases
        /\ GoodNodes(after.nodes) /\ DOMAIN after.nodes = DOMAIN ns /\ SameNodes(ns, after.nodes)
    BY Promoted
  <2>3. SameNodes(nodes, after.nodes)
    BY <2>2, SameTwice
  <2> HIDE DEF after
  <2>4. \A n \in DOMAIN nodes' \ DOMAIN nodes : nodes'[n].type # "Artifact"
    BY <2>1, <2>2 DEF SameNodes
  <2> QED
    BY <2>1, <2>2, <2>3, <2>4 DEF Grown
<1> QED
  BY <1>1, <1>2

LEMMA NodeRecorded ==
    ASSUME IsSeq(cases), GoodNodes(nodes), NEW type, NEW of, NEW status, NEW data, type # "Artifact",
           NEW es, edges \subseteq es, NEW c,
           LET ns == Append(nodes, Graph!Node(type, of, status, data)) IN
           \/ cases' = cases /\ nodes' = ns /\ edges' = es
           \/ Graph!Commit(ns, es, c)
    PROVE  Grown
<1> DEFINE ns == Append(nodes, Graph!Node(type, of, status, data))
<1>1. /\ GoodNodes(ns) /\ SameNodes(nodes, ns)
      /\ \A n \in DOMAIN ns \ DOMAIN nodes : ns[n].type # "Artifact"
  BY NodeAppended
<1> HIDE DEF ns
<1>2. \/ cases' = cases /\ nodes' = ns /\ edges' = es
      \/ Graph!Commit(ns, es, c)
  BY DEF ns
<1> QED
  BY <1>1, <1>2, Ending

(* The record calls, one by one.                                            *)
LEMMA Opening ==
    ASSUME IsSeq(cases), GoodNodes(nodes), NEW title, NEW f, Graph!OpenCase(title, f)
    PROVE  Grown
<1> DEFINE c == Len(cases) + 1
           n == Len(nodes) + 1
<1>1. /\ cases' = Append(cases, Graph!Case(title, "open"))
      /\ nodes' = Append(nodes, Graph!Node("Problem", c, "open", [fingerprint |-> f]))
      /\ edges' = edges
  BY DEF Graph!OpenCase, Graph!AddProblem
<1>2. IsSeq(cases') /\ DOMAIN cases' = 1..c /\ DOMAIN cases = 1..Len(cases) /\ Len(cases) \in Nat
  BY <1>1, Appended, Length
<1> HIDE DEF c
<1>3. /\ GoodNodes(nodes') /\ SameNodes(nodes, nodes')
      /\ \A m \in DOMAIN nodes' \ DOMAIN nodes : m = n
      /\ nodes'[n].type = "Problem" /\ nodes'[n].case = c /\ n \in DOMAIN nodes'
  BY <1>1, NodeAppended
<1> HIDE DEF n
<1>4. \A d \in DOMAIN cases' \ DOMAIN cases : d = c
  BY <1>2 DEF c
<1>5. HasProblem(c, nodes')
  BY <1>3 DEF HasProblem
<1>6. \A m \in DOMAIN nodes' \ DOMAIN nodes : nodes'[m].type # "Artifact"
  BY <1>3
<1> QED
  BY <1>1, <1>2, <1>3, <1>4, <1>5, <1>6 DEF Grown

LEMMA Attempting ==
    ASSUME IsSeq(cases), GoodNodes(nodes), NEW c, NEW problem, NEW previous, NEW outcome,
           Graph!RecordAttempt(c, problem, previous, outcome)
    PROVE  Grown
<1>1. \E status, data, es :
          /\ cases' = cases /\ nodes' = Append(nodes, Graph!Node("Attempt", c, status, data))
          /\ edges' = es /\ edges \subseteq es
  BY DEF Graph!RecordAttempt
<1> QED
  BY <1>1, NodeRecorded

LEMMA Explaining ==
    ASSUME IsSeq(cases), GoodNodes(nodes), NEW c, NEW problem, NEW failed, NEW status,
           Graph!RecordRootCause(c, problem, failed, status)
    PROVE  Grown
<1>1. \E es : /\ edges \subseteq es
               /\ Graph!Commit(Append(nodes, Graph!Node("RootCause", c, status, Graph!NoData)), es, c)
  BY DEF Graph!RecordRootCause
<1> QED
  BY <1>1, NodeRecorded

LEMMA Solving ==
    ASSUME IsSeq(cases), GoodNodes(nodes), NEW c, NEW root, NEW data, Graph!RecordSolution(c, root, data)
    PROVE  Grown
<1>1. \E es : /\ edges \subseteq es
               /\ Graph!Commit(Append(nodes, Graph!Node("Solution", c, "candidate", data)), es, c)
  BY DEF Graph!RecordSolution
<1> QED
  BY <1>1, NodeRecorded

LEMMA Verifying ==
    ASSUME IsSeq(cases), GoodNodes(nodes), NEW c, NEW solution, NEW data,
           Graph!RecordVerification(c, solution, data)
    PROVE  Grown
<1>1. \E es, status :
          /\ edges \subseteq es
          /\ Graph!Commit(Append(nodes, Graph!Node("Verification", c, status, data)), es, c)
  BY DEF Graph!RecordVerification
<1> QED
  BY <1>1, NodeRecorded

LEMMA Guarding ==
    ASSUME IsSeq(cases), GoodNodes(nodes), NEW c, NEW root, NEW status,
           Graph!RecordGuardrail(c, root, status)
    PROVE  Grown
<1>1. \E es : /\ cases' = cases /\ nodes' = Append(nodes, Graph!Node("Guardrail", c, status, Graph!NoData))
               /\ edges' = es /\ edges \subseteq es
  BY DEF Graph!RecordGuardrail
<1> QED
  BY <1>1, NodeRecorded

LEMMA Joining ==
    ASSUME IsSeq(cases), GoodNodes(nodes), NEW c, NEW f, Graph!JoinCase(c, f)
    PROVE  Grown
<1>1. /\ cases' = cases /\ nodes' = Append(nodes, Graph!Node("Problem", c, "open", [fingerprint |-> f]))
      /\ edges' = edges
  BY DEF Graph!JoinCase, Graph!AddProblem
<1> QED
  BY <1>1, NodeRecorded

LEMMA Referring ==
    ASSUME IsSeq(cases), GoodNodes(nodes), NEW c, NEW verification, Graph!RecordArtifact(c, verification)
    PROVE  Grown
<1> DEFINE n == Len(nodes) + 1
<1>1. /\ cases' = cases /\ nodes' = Append(nodes, Graph!Node("Artifact", c, "candidate", Graph!NoData))
      /\ edges' = edges \cup {<<verification, "REFERENCES", n>>}
      /\ verification \in DOMAIN nodes /\ nodes[verification].type = "Verification"
  BY DEF Graph!RecordArtifact, Graph!IsNode
<1>2. /\ GoodNodes(nodes') /\ SameNodes(nodes, nodes')
      /\ \A m \in DOMAIN nodes' \ DOMAIN nodes : m = n
  BY <1>1, NodeAppended
<1> HIDE DEF n
<1>3. Evidence(n, nodes', edges')
  <2>1. <<verification, "REFERENCES", n>> \in edges'
    BY <1>1
  <2>2. verification \in DOMAIN nodes' /\ nodes'[verification].type = "Verification"
    BY <1>1, <1>2 DEF SameNodes
  <2> QED
    BY <2>1, <2>2 DEF Evidence
<1> QED
  BY <1>1, <1>2, <1>3 DEF Grown

LEMMA Confirming ==
    ASSUME IsSeq(cases), GoodNodes(nodes), NEW c,
           Graph!CloseCase(c) \/ \E root : Graph!PromoteRootCause(c, root)
    PROVE  Grown
<1>1. \E ns : /\ GoodNodes(ns) /\ SameNodes(nodes, ns) /\ DOMAIN ns = DOMAIN nodes
               /\ Graph!Commit(ns, edges, c)
  <2>1. CASE Graph!CloseCase(c)
    BY <2>1 DEF Graph!CloseCase, SameNodes
  <2>2. CASE \E root : Graph!PromoteRootCause(c, root)
    BY <2>2, StatusSet DEF Graph!PromoteRootCause
  <2> QED
    BY <2>1, <2>2
<1>2. PICK ns : /\ GoodNodes(ns) /\ SameNodes(nodes, ns) /\ DOMAIN ns = DOMAIN nodes
                /\ Graph!Commit(ns, edges, c)
  BY <1>1
<1> QED
  BY <1>2, Ending

LEMMA Retracting ==
    ASSUME IsSeq(cases), GoodNodes(nodes), NEW c,
           \/ \E solution, f : Graph!MarkRegression(c, solution, f)
           \/ \E prior, replacement : Graph!SupersedeSolution(c, prior, replacement)
    PROVE  Grown
<1> DEFINE regressed == [cases EXCEPT ![c].status = "regressed"]
<1>1. /\ edges \subseteq edges'
      /\ nodes' = nodes \/ \E n, status : nodes' = Graph!WithStatus(nodes, n, status)
      /\ cases' = cases \/ cases' = regressed
  BY DEF Graph!MarkRegression, Graph!SupersedeSolution
<1>2. GoodNodes(nodes') /\ SameNodes(nodes, nodes') /\ DOMAIN nodes' = DOMAIN nodes
  BY <1>1, StatusSet DEF SameNodes
<1>3. DOMAIN regressed = DOMAIN cases /\ regressed = [d \in DOMAIN cases |-> regressed[d]]
  OBVIOUS
<1> HIDE DEF regressed
<1>4. IsSeq(cases') /\ DOMAIN cases' = DOMAIN cases
  <2>1. DOMAIN cases = 1..Len(cases) /\ Len(cases) \in Nat
    BY Length
  <2>2. IsSeq(regressed)
    BY <1>3, <2>1 DEF IsSeq
  <2> QED
    BY <1>1, <1>3, <2>2
<1> QED
  BY <1>1, <1>2, <1>4 DEF Grown

(* Any call of CaseLifecycle on a Case.                                     *)
LEMMA CaseGrows ==
    ASSUME IsSeq(cases), GoodNodes(nodes), NEW c, Graph!Record(c) \/ Graph!Curate(c)
    PROVE  Grown
BY Attempting, Explaining, Solving, Verifying, Guarding, Joining, Referring, Confirming, Retracting
   DEF Graph!Record, Graph!Curate

LEMMA Concatenated ==
    ASSUME NEW s, NEW t, IsSeq(s), IsSeq(t)
    PROVE  /\ IsSeq(s \o t) /\ DOMAIN (s \o t) = 1..Len(s) + Len(t)
           /\ \A i \in 1..Len(s) + Len(t) :
                 (s \o t)[i] = IF i <= Len(s) THEN s[i] ELSE t[i - Len(s)]
<1> DEFINE S == {s[i] : i \in 1..Len(s)} \cup {t[i] : i \in 1..Len(t)}
<1>1. s \in Seq(S) /\ t \in Seq(S)
  <2>1. (\A i \in 1..Len(s) : s[i] \in S) /\ (\A i \in 1..Len(t) : t[i] \in S)
    OBVIOUS
  <2> HIDE DEF S
  <2> QED
    BY <2>1, Length
<1> HIDE DEF S
<1>2. /\ s \o t \in Seq(S) /\ Len(s \o t) = Len(s) + Len(t)
      /\ \A i \in 1..Len(s) + Len(t) : (s \o t)[i] = IF i <= Len(s) THEN s[i] ELSE t[i - Len(s)]
  BY <1>1, ConcatProperties
<1>3. DOMAIN (s \o t) = 1..Len(s \o t)
  BY <1>2, LenProperties
<1> QED
  BY <1>2, <1>3, SequenceIsSeq

--------------------------------------------------------------------------------
(* All or nothing *)

(* What must hold of a view of the database, but for the parts of the given *)
(* operations and the given Artifacts, whose result is still to come.       *)
Delivered(n, rs) == \E r \in rs : r.part = Whole /\ r.kind = "finalize_work" /\ n \in r.value.artifacts
RowsWhole(rs, ops) ==
    \A r \in rs : r.part # Whole => r.op \in ops \/ \E whole \in Own(rs, r.op) : whole.value.recorded
ArtifactsWhole(v, A) ==
    \A n \in DOMAIN v.nodes :
        v.nodes[n].type = "Artifact" => \/ n \in A \/ Delivered(n, v.results)
                                        \/ Evidence(n, v.nodes, v.edges)
CasesWhole(v) == \A c \in DOMAIN v.cases : HasProblem(c, v.nodes)
Consistent(v, ops, A) ==
    /\ IsSeq(v.cases) /\ GoodNodes(v.nodes)
    /\ RowsWhole(v.results, ops) /\ ArtifactsWhole(v, A) /\ CasesWhole(v)

(* The delivery is the last step before the result is stored.               *)
KindAt(at, kind) ==
    /\ at \in {"evidence", "failed", "verify"} => kind = "finalize_work"
    /\ at \in {"anchor", "attempt", "root", "solution"} => kind \in {"checkpoint_work", "finalize_work"}
    /\ at = "batch" => kind = "record_checkpoint"
Ongoing ==
    /\ {"at", "input", "artifacts"} \subseteq DOMAIN call /\ call.at # "idle"
    /\ \E before : /\ saved = <<before>> /\ Consistent(before, {}, {})
                   /\ call.at = "lookup" => View = before
    /\ Consistent(View, {call.input.op}, call.artifacts)
    /\ call.artifacts # {} => call.at = "store" /\ call.input.kind = "finalize_work"
    /\ KindAt(call.at, call.input.kind)
(* What others see is consistent; what the connection sees is so but for    *)
(* the rows of the call's own operation and its delivery Artifacts.         *)
WholeInv == (call = NoCall /\ saved = <<>> /\ Consistent(View, {}, {})) \/ Ongoing

LEMMA Fields ==
    /\ View.cases = cases /\ View.nodes = nodes /\ View.edges = edges
    /\ View.text = text /\ View.results = results
BY DEF View

LEMMA FieldsNext ==
    /\ View'.cases = cases' /\ View'.nodes = nodes' /\ View'.edges = edges'
    /\ View'.text = text' /\ View'.results = results'
BY DEF View

LEMMA NothingGrown ==
    ASSUME IsSeq(cases), GoodNodes(nodes), cases' = cases, nodes' = nodes, edges \subseteq edges'
    PROVE  Grown
BY DEF Grown, SameNodes

(* Rows that are added are of the given operations or results.              *)
LEMMA GrownConsistent ==
    ASSUME NEW ops, NEW A, Consistent(View, ops, A), Grown, results \subseteq results',
           \A r \in results' \ results : r.op \in ops \/ r.part = Whole
    PROVE  Consistent(View', ops, A)
<1>1. RowsWhole(results', ops)
  <2>1. RowsWhole(results, ops)
    BY Fields DEF Consistent
  <2>2. \A op : Own(results, op) \subseteq Own(results', op)
    BY DEF Own
  <2> QED
    BY <2>1, <2>2 DEF RowsWhole
<1>2. ArtifactsWhole(View', A)
  <2>1. ArtifactsWhole(View, A)
    BY DEF Consistent
  <2>2. SUFFICES ASSUME NEW n \in DOMAIN nodes', nodes'[n].type = "Artifact"
                 PROVE  \/ n \in A \/ Delivered(n, results') \/ Evidence(n, nodes', edges')
    BY FieldsNext DEF ArtifactsWhole
  <2>3. CASE n \notin DOMAIN nodes
    BY <2>2, <2>3 DEF Grown
  <2>4. CASE n \in DOMAIN nodes
    <3>1. nodes[n].type = "Artifact"
      BY <2>2, <2>4 DEF Grown, SameNodes
    <3>2. \/ n \in A \/ Delivered(n, results) \/ Evidence(n, nodes, edges)
      BY <2>1, <2>4, <3>1, Fields DEF ArtifactsWhole
    <3>3. Delivered(n, results) => Delivered(n, results')
      BY DEF Delivered
    <3>4. Evidence(n, nodes, edges) => Evidence(n, nodes', edges')
      BY DEF Evidence, Grown, SameNodes
    <3> QED
      BY <3>2, <3>3, <3>4
  <2> QED
    BY <2>3, <2>4
<1>3. CasesWhole(View')
  <2>1. CasesWhole(View)
    BY DEF Consistent
  <2>2. \A c : HasProblem(c, nodes) => HasProblem(c, nodes')
    BY DEF HasProblem, Grown, SameNodes
  <2> QED
    BY <2>1, <2>2, Fields, FieldsNext DEF CasesWhole, Grown
<1> QED
  BY <1>1, <1>2, <1>3, FieldsNext DEF Consistent, Grown

(* A view that is consistent is so with more to come.                       *)
LEMMA LessStrict ==
    ASSUME NEW v, NEW ops, NEW A, Consistent(v, {}, {})
    PROVE  Consistent(v, ops, A)
BY DEF Consistent, RowsWhole, ArtifactsWhole

(* A step inside a call: what it adds are rows of the call's operation.     *)
LEMMA Going ==
    ASSUME Ongoing, NEW changes, Proceed(changes),
           "input" \notin DOMAIN changes, "artifacts" \notin DOMAIN changes, call.at # "store",
           "at" \in DOMAIN changes =>
              changes.at \notin {"idle", "lookup"} /\ KindAt(changes.at, call.input.kind),
           call.at = "lookup" => "at" \in DOMAIN changes,
           Grown, results \subseteq results', \A r \in results' \ results : r.op = call.input.op
    PROVE  Ongoing'
<1>1. PICK before : /\ saved = <<before>> /\ Consistent(before, {}, {})
                    /\ call.at = "lookup" => View = before
  BY DEF Ongoing
<1>2. /\ call' = [part \in DOMAIN call |-> IF part \in DOMAIN changes THEN changes[part] ELSE call[part]]
      /\ saved' = <<before>>
  BY <1>1 DEF Proceed
<1>3. /\ {"at", "input", "artifacts"} \subseteq DOMAIN call'
      /\ call'.input = call.input /\ call'.artifacts = call.artifacts
      /\ call'.at = IF "at" \in DOMAIN changes THEN changes.at ELSE call.at
  BY <1>2 DEF Ongoing
<1>4. call'.at \notin {"idle", "lookup"} /\ KindAt(call'.at, call'.input.kind)
  BY <1>3 DEF Ongoing
<1>5. call'.artifacts = {}
  BY <1>3 DEF Ongoing
<1>6. Consistent(View', {call.input.op}, call.artifacts)
  <2>1. \A r \in results' \ results : r.op \in {call.input.op} \/ r.part = Whole
    OBVIOUS
  <2>2. Consistent(View, {call.input.op}, call.artifacts)
    BY DEF Ongoing
  <2> QED
    BY <2>1, <2>2, GrownConsistent
<1>7. Consistent(View', {call'.input.op}, call'.artifacts)
  BY <1>3, <1>6
<1> QED
  BY <1>1, <1>2, <1>3, <1>4, <1>5, <1>7 DEF Ongoing

LEMMA SaidRows ==
    ASSUME NEW part, NEW kind, NEW t,
           Said(part, kind, t) \/ results' = results \cup {Row(part, kind, t)} \/ results' = results
    PROVE  results \subseteq results' /\ \A r \in results' \ results : r.op = call.input.op
BY DEF Said, Row

LEMMA Graphs ==
    ASSUME Ongoing
    PROVE  IsSeq(cases) /\ GoodNodes(nodes)
BY Fields DEF Ongoing, Consistent

LEMMA NothingSaidGrown ==
    ASSUME IsSeq(cases), GoodNodes(nodes), NothingSaid
    PROVE  Grown /\ results' = results
BY NothingGrown DEF NothingSaid, graphVars

(* The steps of a call that lead on in it, but for the delivery.            *)
LEMMA GoingOn ==
    ASSUME Ongoing,
           \/ StartWork \/ LoadCheckpointWork \/ CaseAnchor \/ RecordProblem \/ CheckpointAttempt
           \/ GatherEvidence \/ FailedAttempt \/ SucceededAttempt
           \/ RootCause \/ Solution \/ Verify \/ BatchWrite \/ BatchDone
    PROVE  Ongoing'
<1>0. /\ IsSeq(cases) /\ GoodNodes(nodes) /\ KindAt(call.at, call.input.kind)
      /\ results \subseteq results /\ \A r \in results \ results : r.op = call.input.op
  BY Graphs DEF Ongoing
<1> USE <1>0
<1>a. ASSUME NEW part, NEW t, NEW outcome, RecordAttempt(part, t, outcome)
      PROVE  /\ Grown /\ results \subseteq results'
             /\ \A r \in results' \ results : r.op = call.input.op
  BY <1>a, Attempting, SaidRows DEF RecordAttempt
<1>1. CASE StartWork
  <2>1. /\ Grown /\ results' = results /\ call.at = "lookup"
        /\ \/ call.input.kind = "record_checkpoint" /\ Proceed([at |-> "batch"])
           \/ call.input.kind \in {"checkpoint_work", "finalize_work"} /\ Proceed([at |-> "anchor"])
    BY <1>1, NothingSaidGrown DEF StartWork
  <2>2. CASE Proceed([at |-> "batch"])
    BY <2>1, <2>2, Going DEF KindAt
  <2>3. CASE call.input.kind \in {"checkpoint_work", "finalize_work"} /\ Proceed([at |-> "anchor"])
    BY <2>1, <2>3, Going DEF KindAt
  <2> QED
    BY <2>1, <2>2, <2>3
<1>2. CASE LoadCheckpointWork
  <2>1. /\ Grown /\ results' = results /\ call.at = "lookup" /\ call.input.kind = "finalize_work"
        /\ \E row : Proceed([at |-> "anchor", case |-> row.value.case, checkpoint |-> row.value])
    BY <1>2, NothingSaidGrown DEF LoadCheckpointWork
  <2> QED
    BY <2>1, Going DEF KindAt
<1>3. CASE CaseAnchor
  <2>1. /\ Grown /\ results' = results /\ call.at = "anchor"
        /\ \E problem, previous :
              Proceed([at |-> AfterAnchor, problem |-> problem, previous |-> previous])
    BY <1>3, NothingSaidGrown DEF CaseAnchor
  <2>2. AfterAnchor \notin {"idle", "lookup"} /\ KindAt(AfterAnchor, call.input.kind)
    BY <2>1 DEF AfterAnchor, KindAt
  <2> QED
    BY <2>1, <2>2, Going
<1>4. CASE RecordProblem
  <2>1. call.at = "anchor"
    BY <1>4 DEF RecordProblem
  <2>2. AfterAnchor \notin {"idle", "lookup"} /\ KindAt(AfterAnchor, call.input.kind)
    BY <2>1 DEF AfterAnchor, KindAt
  <2>3. Grown /\ results \subseteq results' /\ \A r \in results' \ results : r.op = call.input.op
    <3>1. CASE \E n : /\ results' = results \cup {Row(<<"problem", 0>>, "record_problem", n)}
                     /\ UNCHANGED <<graphVars, text>>
      BY <3>1, NothingGrown, SaidRows DEF graphVars
    <3>2. CASE /\ Graph!OpenCase(call.input.text, call.input.fingerprint)
               /\ Said(<<"problem", 0>>, "record_problem", call.input.text)
      BY <3>2, Opening, SaidRows
    <3> QED
      BY <1>4, <3>1, <3>2 DEF RecordProblem
  <2>4. CASE \E n : Proceed([at |-> AfterAnchor, case |-> nodes[n].case, problem |-> n])
    BY <2>1, <2>2, <2>3, <2>4, Going
  <2>5. CASE Proceed([at |-> AfterAnchor, case |-> Len(cases) + 1, problem |-> Len(nodes) + 1, created |-> TRUE])
    BY <2>1, <2>2, <2>3, <2>5, Going
  <2> QED
    BY <1>4, <2>4, <2>5 DEF RecordProblem
<1>5. CASE CheckpointAttempt
  <2>1. /\ call.at = "attempt" /\ \E attempts, failed : Proceed([at |-> "root", attempts |-> attempts, failed |-> failed])
        /\ \E part, t, outcome : RecordAttempt(part, t, outcome)
    BY <1>5 DEF CheckpointAttempt
  <2>2. KindAt("root", call.input.kind)
    BY <2>1 DEF KindAt
  <2> QED
    BY <1>a, <2>1, <2>2, Going
<1>6. CASE GatherEvidence
  <2>1. /\ Grown /\ results' = results /\ call.at = "evidence"
        /\ \E attempts, failed : Proceed([at |-> "failed", attempts |-> attempts, failed |-> failed])
    BY <1>6, NothingSaidGrown DEF GatherEvidence
  <2>2. KindAt("failed", call.input.kind)
    BY <2>1 DEF KindAt
  <2> QED
    BY <2>1, <2>2, Going
<1>7. CASE FailedAttempt
  <2>1. /\ call.at = "failed"
        /\ \E index, previous, attempts, failed :
              Proceed([index |-> index, previous |-> previous, attempts |-> attempts, failed |-> failed])
        /\ NothingSaid \/ \E part, t, outcome : RecordAttempt(part, t, outcome)
    BY <1>7 DEF FailedAttempt
  <2>2. Grown /\ results \subseteq results' /\ \A r \in results' \ results : r.op = call.input.op
    BY <1>a, <2>1, NothingSaidGrown
  <2> QED
    BY <2>1, <2>2, Going
<1>8. CASE SucceededAttempt
  <2>1. /\ call.at = "failed" /\ \E attempts : Proceed([at |-> "root", attempts |-> attempts])
        /\ NothingSaid \/ \E part, t, outcome : RecordAttempt(part, t, outcome)
    BY <1>8 DEF SucceededAttempt
  <2>2. Grown /\ results \subseteq results' /\ \A r \in results' \ results : r.op = call.input.op
    BY <1>a, <2>1, NothingSaidGrown
  <2>3. KindAt("root", call.input.kind)
    BY <2>1 DEF KindAt
  <2> QED
    BY <2>1, <2>2, <2>3, Going
<1>9. CASE RootCause
  <2>1. call.at = "root" /\ \E root : Proceed([at |-> "solution", root |-> root])
    BY <1>9 DEF RootCause, AfterRoot, NewRootCause, NewRootCauseAs
  <2>2. \/ NothingSaid
        \/ cases' = cases /\ nodes' = nodes /\ edges \subseteq edges' /\ results' = results
        \/ NewRootCause
    BY <1>9 DEF RootCause
  <2>3. NewRootCause => /\ Grown /\ results \subseteq results'
                        /\ \A r \in results' \ results : r.op = call.input.op
    BY Explaining, SaidRows DEF NewRootCause, NewRootCauseAs
  <2>4. Grown /\ results \subseteq results' /\ \A r \in results' \ results : r.op = call.input.op
    BY <2>2, <2>3, NothingSaidGrown, NothingGrown
  <2>5. KindAt("solution", call.input.kind)
    BY <2>1 DEF KindAt
  <2> QED
    BY <2>1, <2>4, <2>5, Going
<1>10. CASE Solution
  <2> DEFINE at == IF call.input.kind = "checkpoint_work" THEN "store" ELSE "verify"
  <2>1. /\ call.at = "solution"
        /\ \E solution : Proceed([at |-> at, solution |-> solution, index |-> 1])
    BY <1>10 DEF Solution, AfterSolution
  <2>2. \/ NothingSaid
        \/ \E data : /\ Graph!RecordSolution(call.case, call.root, data)
                     /\ Said(<<"solution", 0>>, "record_solution", call.input.solution)
    BY <1>10 DEF Solution
  <2>3. Grown /\ results \subseteq results' /\ \A r \in results' \ results : r.op = call.input.op
    BY <2>2, NothingSaidGrown, Solving, SaidRows
  <2>4. at \notin {"idle", "lookup"} /\ KindAt(at, call.input.kind)
    BY <2>1 DEF KindAt
  <2> QED
    BY <2>1, <2>3, <2>4, Going
<1>11. CASE Verify
  <2>1. /\ call.at = "verify"
        /\ \E index, verifications : Proceed([index |-> index, verifications |-> verifications])
    BY <1>11 DEF Verify
  <2>2. Grown /\ results \subseteq results' /\ \A r \in results' \ results : r.op = call.input.op
    BY <1>11, Verifying, SaidRows DEF Verify
  <2> QED
    BY <2>1, <2>2, Going
<1>12. CASE BatchWrite
  <2>1. call.at = "batch" /\ results' = results /\ \E index : Proceed([index |-> index])
    BY <1>12 DEF BatchWrite
  <2>2. Grown
    BY <1>12, Opening, CaseGrows DEF BatchWrite
  <2> QED
    BY <2>1, <2>2, Going
<1>13. CASE BatchDone
  <2>1. call.at = "batch" /\ Grown /\ results' = results /\ Proceed([at |-> "store"])
    BY <1>13, NothingSaidGrown DEF BatchDone
  <2>2. KindAt("store", call.input.kind)
    BY DEF KindAt
  <2> QED
    BY <2>1, <2>2, Going
<1> QED
  BY <1>1, <1>2, <1>3, <1>4, <1>5, <1>6, <1>7, <1>8, <1>9, <1>10, <1>11, <1>12, <1>13

(* The delivery adds Artifacts that no Verification supports: the call has  *)
(* them in hand, and its next step stores the result that names them.       *)
LEMMA Delivering ==
    ASSUME Ongoing, Deliver
    PROVE  Ongoing'
<1> DEFINE count == IF call.input.commit THEN 2 ELSE 1
           new == Len(nodes) + 1 .. Len(nodes) + count
           parts == [i \in 1..count |-> Graph!Node("Artifact", call.case, "candidate", Graph!NoData)]
<1>1. /\ call.at = "verify" /\ call.input.kind = "finalize_work"
      /\ nodes' = nodes \o parts /\ edges \subseteq edges'
      /\ cases' = cases /\ results' = results
      /\ Proceed([at |-> "store", artifacts |-> new])
  BY DEF Deliver, Ongoing, KindAt
<1>2. PICK before : saved = <<before>> /\ Consistent(before, {}, {})
  BY DEF Ongoing
<1>3. IsSeq(cases) /\ GoodNodes(nodes) /\ Consistent(View, {call.input.op}, {})
  <2>1. call.artifacts = {}
    BY <1>1 DEF Ongoing
  <2> QED
    BY <2>1, Graphs DEF Ongoing
<1>4. /\ call'.at = "store" /\ call'.input = call.input /\ call'.artifacts = new
      /\ {"at", "input", "artifacts"} \subseteq DOMAIN call' /\ saved' = <<before>>
  BY <1>1, <1>2 DEF Ongoing, Proceed
<1>5. count \in Nat /\ Len(nodes) \in Nat /\ DOMAIN nodes = 1..Len(nodes) /\ IsSeq(nodes)
  BY <1>3, Length DEF GoodNodes
<1>6. /\ IsSeq(parts) /\ Len(parts) = count
      /\ \A i \in 1..count : IsRecord(parts[i])
  <2>1. \A i \in 1..count : parts[i] = Graph!Node("Artifact", call.case, "candidate", Graph!NoData)
    OBVIOUS
  <2>2. DOMAIN parts = 1..count /\ parts = [i \in 1..count |-> parts[i]]
    OBVIOUS
  <2> HIDE DEF parts
  <2>3. IsSeq(parts)
    BY <1>5, <2>2 DEF IsSeq
  <2>4. DOMAIN parts = 1..Len(parts) /\ Len(parts) \in Nat
    BY <2>3, Length
  <2>5. Len(parts) = count
    <3> HIDE DEF count
    <3> QED
      BY <1>5, <2>2, <2>4
  <2> QED
    BY <2>1, <2>3, <2>5 DEF IsRecord, Graph!Node
<1> HIDE DEF parts, count, new
<1>7. /\ IsSeq(nodes') /\ DOMAIN nodes' = 1..Len(nodes) + count
      /\ \A i \in 1..Len(nodes) + count :
            nodes'[i] = IF i <= Len(nodes) THEN nodes[i] ELSE parts[i - Len(nodes)]
  BY <1>1, <1>5, <1>6, Concatenated
<1>8. /\ DOMAIN nodes \subseteq DOMAIN nodes'
      /\ \A n \in DOMAIN nodes : nodes'[n] = nodes[n]
      /\ \A n \in DOMAIN nodes' \ DOMAIN nodes : n \in new /\ IsRecord(nodes'[n])
  BY <1>5, <1>6, <1>7 DEF new
<1>9. GoodNodes(nodes')
  BY <1>3, <1>7, <1>8 DEF GoodNodes
<1>10. RowsWhole(results', {call.input.op})
  BY <1>1, <1>3, Fields DEF Consistent
<1>11. ArtifactsWhole(View', new)
  <2>1. SUFFICES ASSUME NEW n \in DOMAIN nodes, nodes[n].type = "Artifact"
                 PROVE  Delivered(n, results') \/ Evidence(n, nodes', edges')
    BY <1>8, FieldsNext DEF ArtifactsWhole
  <2>2. Delivered(n, results) \/ Evidence(n, nodes, edges)
    BY <1>3, <2>1, Fields DEF Consistent, ArtifactsWhole
  <2> QED
    BY <1>1, <1>8, <2>2 DEF Evidence
<1>12. CasesWhole(View')
  <2>1. \A c \in DOMAIN cases : HasProblem(c, nodes)
    BY <1>3, Fields DEF Consistent, CasesWhole
  <2>2. \A c : HasProblem(c, nodes) => HasProblem(c, nodes')
    BY <1>8 DEF HasProblem
  <2> QED
    BY <1>1, <2>1, <2>2, FieldsNext DEF CasesWhole
<1>13. Consistent(View', {call'.input.op}, call'.artifacts)
  BY <1>1, <1>3, <1>4, <1>9, <1>10, <1>11, <1>12, FieldsNext DEF Consistent
<1> QED
  BY <1>1, <1>2, <1>4, <1>13 DEF Ongoing, KindAt

(* The savepoint keeps a view that lacks nothing.                           *)
LEMMA Entering ==
    ASSUME WholeInv, NEW input, NEW case, NEW failedIds, Begin(input, case, failedIds)
    PROVE  Ongoing'
<1>1. Consistent(View, {}, {})
  <2>1. ~Ongoing
    BY DEF Begin, NoCall, Ongoing
  <2> QED
    BY <2>1 DEF WholeInv
<1>2. /\ saved' = <<View>> /\ View' = View
      /\ call'.at = "lookup" /\ call'.artifacts = {}
      /\ {"at", "input", "artifacts"} \subseteq DOMAIN call'
  BY DEF Begin, View, graphVars
<1>3. Consistent(View', {call'.input.op}, call'.artifacts)
  BY <1>1, <1>2, LessStrict
<1>4. KindAt(call'.at, call'.input.kind)
  BY <1>2 DEF KindAt
<1> QED
  BY <1>1, <1>2, <1>3, <1>4 DEF Ongoing

(* The ends of a call: a stored result completes the view, a rollback       *)
(* brings back the one of the savepoint.                                    *)
LEMMA Ends ==
    ASSUME Ongoing, Replay \/ SkipRoutineSuccess \/ StoreOperation \/ RollBack
    PROVE  WholeInv'
<1>1. call' = NoCall /\ saved' = <<>>
  BY DEF Replay, SkipRoutineSuccess, StoreOperation, RollBack, Release
<1>2. PICK before : /\ saved = <<before>> /\ Consistent(before, {}, {})
                    /\ call.at = "lookup" => View = before
  BY DEF Ongoing
<1>3. IsSeq(cases) /\ GoodNodes(nodes)
  BY Graphs
<1>4. CASE Replay
  <2>1. View' = View /\ View = before
    BY <1>2, <1>4 DEF Replay, NothingSaid, graphVars, View
  <2> QED
    BY <1>1, <1>2, <2>1 DEF WholeInv
<1>5. CASE SkipRoutineSuccess
  <2>1. /\ View = before /\ cases' = cases /\ nodes' = nodes /\ edges' = edges
        /\ results' = results \cup {Row(Whole, call.input.kind, NoValue)}
    BY <1>2, <1>5 DEF SkipRoutineSuccess, graphVars
  <2>2. Grown
    BY <1>3, <2>1, NothingGrown
  <2>3. \A r \in results' \ results : r.part = Whole
    BY <2>1 DEF Row
  <2>4. results \subseteq results'
    BY <2>1
  <2>5. Consistent(View', {}, {})
    BY <1>2, <2>1, <2>2, <2>3, <2>4, GrownConsistent
  <2> QED
    BY <1>1, <2>5 DEF WholeInv
<1>6. CASE StoreOperation
  <2> DEFINE row == Row(Whole, call.input.kind, Value)
  <2>1. /\ call.at = "store" /\ cases' = cases /\ nodes' = nodes /\ edges' = edges
        /\ results' = results \cup {row}
    BY <1>6 DEF StoreOperation, graphVars
  <2>2. /\ row.op = call.input.op /\ row.part = Whole /\ row.kind = call.input.kind
        /\ row.value.recorded /\ row.value.artifacts = call.artifacts
    BY DEF Row, Value
  <2> HIDE DEF row
  <2>3. Consistent(View', {call.input.op}, call.artifacts)
    <3>1. Grown
      BY <1>3, <2>1, NothingGrown
    <3>2. \A r \in results' \ results : r.part = Whole
      BY <2>1, <2>2
    <3>3. results \subseteq results' /\ Consistent(View, {call.input.op}, call.artifacts)
      BY <2>1 DEF Ongoing
    <3> QED
      BY <3>1, <3>2, <3>3, GrownConsistent
  <2>4. RowsWhole(results', {})
    <3>1. row \in Own(results', call.input.op)
      BY <2>1, <2>2 DEF Own
    <3>2. RowsWhole(results', {call.input.op})
      BY <2>3, FieldsNext DEF Consistent
    <3> QED
      BY <2>2, <3>1, <3>2 DEF RowsWhole
  <2>5. ArtifactsWhole(View', {})
    <3>1. \A n \in call.artifacts : Delivered(n, results')
      BY <2>1, <2>2 DEF Ongoing, Delivered
    <3>2. ArtifactsWhole(View', call.artifacts)
      BY <2>3 DEF Consistent
    <3> QED
      BY <3>1, <3>2, FieldsNext DEF ArtifactsWhole
  <2>6. Consistent(View', {}, {})
    BY <2>3, <2>4, <2>5, FieldsNext DEF Consistent
  <2> QED
    BY <1>1, <2>6 DEF WholeInv
<1>7. CASE RollBack
  <2>1. saved[1] = before
    BY <1>2
  <2>2. /\ cases' = before.cases /\ nodes' = before.nodes /\ edges' = before.edges
        /\ results' = before.results
    BY <1>7, <2>1 DEF RollBack
  <2>3. Consistent(View', {}, {})
    BY <1>2, <2>2, FieldsNext DEF Consistent, ArtifactsWhole, CasesWhole
  <2> QED
    BY <1>1, <2>3 DEF WholeInv
<1> QED
  BY <1>4, <1>5, <1>6, <1>7

LEMMA WholeInit == Init => WholeInv
<1> SUFFICES ASSUME Init
             PROVE  WholeInv
  OBVIOUS
<1>1. /\ cases = <<>> /\ nodes = <<>> /\ results = {} /\ saved = <<>> /\ call = NoCall
  BY DEF Init, Graph!Init
<1>2. IsSeq(cases) /\ GoodNodes(nodes) /\ DOMAIN cases = {} /\ DOMAIN nodes = {}
  <2>1. <<>> \in Seq({})
    OBVIOUS
  <2>2. DOMAIN <<>> = {}
    OBVIOUS
  <2> QED
    BY <1>1, <2>1, <2>2, SequenceIsSeq DEF GoodNodes
<1>3. Consistent(View, {}, {})
  BY <1>1, <1>2, Fields DEF Consistent, RowsWhole, ArtifactsWhole, CasesWhole
<1> QED
  BY <1>1, <1>3 DEF WholeInv

LEMMA WholeStep ==
    ASSUME WholeInv, [Next]_vars
    PROVE  WholeInv'
<1> DEFINE Writing == \/ StartWork \/ LoadCheckpointWork \/ CaseAnchor \/ RecordProblem \/ CheckpointAttempt
                      \/ GatherEvidence \/ FailedAttempt \/ SucceededAttempt
                      \/ RootCause \/ Solution \/ Verify \/ BatchWrite \/ BatchDone
<1>1. CASE \E input \in Inputs, case \in {0} \cup DOMAIN cases, failedIds \in Named :
              Begin(input, case, failedIds)
  <2>1. PICK input, case, failedIds : Begin(input, case, failedIds)
    BY <1>1
  <2>2. Ongoing'
    BY <2>1, Entering
  <2> QED
    BY <2>2 DEF WholeInv
<1>2. CASE Replay \/ SkipRoutineSuccess \/ StoreOperation \/ RollBack
  <2>1. call # NoCall
    <3>1. NoCall.at = "idle"
      BY DEF NoCall
    <3> QED
      BY <1>2, <3>1 DEF Replay, SkipRoutineSuccess, StoreOperation, RollBack
  <2> QED
    BY <1>2, <2>1, Ends DEF WholeInv
<1>3. CASE Writing \/ Deliver
  <2>1. call.at # "idle"
    BY <1>3 DEF StartWork, LoadCheckpointWork, CaseAnchor, RecordProblem, CheckpointAttempt,
                GatherEvidence, FailedAttempt, SucceededAttempt, RootCause, Solution, Verify,
                Deliver, BatchWrite, BatchDone
  <2>2. Ongoing
    BY <2>1 DEF WholeInv, NoCall
  <2>3. Ongoing'
    BY <1>3, <2>2, GoingOn, Delivering
  <2> QED
    BY <2>3 DEF WholeInv
<1>4. CASE Curation
  <2>1. call = NoCall /\ call' = call /\ saved' = saved /\ results' = results
    BY <1>4 DEF Curation
  <2>2. saved = <<>> /\ Consistent(View, {}, {})
    BY <2>1 DEF WholeInv, Ongoing, NoCall
  <2>3. IsSeq(cases) /\ GoodNodes(nodes)
    BY <2>2, Fields DEF Consistent
  <2>4. PICK c : Graph!Curate(c) \/ \E root : Graph!PromoteRootCause(c, root)
    BY <1>4 DEF Curation
  <2>5. Grown
    BY <2>3, <2>4, CaseGrows, Confirming
  <2>6. Consistent(View', {}, {})
    BY <2>1, <2>2, <2>5, GrownConsistent
  <2> QED
    BY <2>1, <2>2, <2>6 DEF WholeInv
<1>5. CASE UNCHANGED vars
  <2>1. call' = call /\ saved' = saved /\ View' = View
    BY <1>5 DEF vars, graphVars, View
  <2>2. CASE call = NoCall /\ saved = <<>> /\ Consistent(View, {}, {})
    BY <2>1, <2>2 DEF WholeInv
  <2>3. CASE Ongoing
    <3>1. Ongoing'
      BY <2>1, <2>3 DEF Ongoing
    <3> QED
      BY <3>1 DEF WholeInv
  <2> QED
    BY <2>2, <2>3 DEF WholeInv
<1> QED
  BY <1>1, <1>2, <1>3, <1>4, <1>5 DEF Next

(* Others see the savepoint's view, or the connection's when it has none.   *)
LEMMA WholeShown == WholeInv => AllOrNothing
<1> SUFFICES ASSUME WholeInv
             PROVE  AllOrNothing
  OBVIOUS
<1>1. Consistent(Durable, {}, {})
  BY DEF WholeInv, Ongoing, Durable
<1>2. \A r \in Durable.results :
          r.part # Whole => \E whole \in Own(Durable.results, r.op) : whole.value.recorded
  BY <1>1 DEF Consistent, RowsWhole
<1>3. \A n \in DOMAIN Durable.nodes :
          Durable.nodes[n].type = "Artifact" =>
              \/ \E r \in Finalized : n \in r.value.artifacts
              \/ \E e \in Durable.edges : /\ e[3] = n
                                           /\ Durable.nodes[e[1]].type = "Verification"
  BY <1>1 DEF Consistent, ArtifactsWhole, Delivered, Evidence, Finalized
<1>4. \A c \in DOMAIN Durable.cases :
          \E n \in DOMAIN Durable.nodes :
              Durable.nodes[n].case = c /\ Durable.nodes[n].type = "Problem"
  BY <1>1 DEF Consistent, CasesWhole, HasProblem
<1> QED
  BY <1>2, <1>3, <1>4 DEF AllOrNothing

(* Whoever reads the database sees an aggregate whole or not at all, for    *)
(* any calls over any graph: no part without the result, no delivery        *)
(* artifact without the final call that made it, no Case without a Problem  *)
(* (the outer savepoint of record_checkpoint, checkpoint_work and           *)
(* finalize_work in write.rs).                                              *)
THEOREM AtomicityCorrect == Spec => []AllOrNothing
<1>1. Init => WholeInv
  BY WholeInit
<1>2. WholeInv /\ [Next]_vars => WholeInv'
  BY WholeStep
<1>3. WholeInv => AllOrNothing
  BY WholeShown
<1> QED
  BY <1>1, <1>2, <1>3, PTL DEF Spec
================================================================================
