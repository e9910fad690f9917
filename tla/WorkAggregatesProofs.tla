-------------------------- MODULE WorkAggregatesProofs -------------------------
(***************************************************************************)
(* WorkAggregates for any calls, in any number, over any graph.  First, an *)
(* aggregate that is repeated changes nothing, because it looks its        *)
(* operation up before its first write, under the savepoint that others    *)
(* see until it is released.  Then what a final result says: the Case and  *)
(* the nodes its checkpoint made are those it works on, and its outcome is *)
(* backed by the graph.  That needs what a checkpoint stored to outlive    *)
(* every later call, hence the chains of WorkAggregatesReuse.              *)
(***************************************************************************)
EXTENDS WorkAggregatesReuse

(* Past the lookup there is no result that the call could repeat.           *)
InProgress ==
    /\ "at" \in DOMAIN call /\ "input" \in DOMAIN call /\ call.at # "idle"
    /\ \E before : /\ saved = <<before>>
                   /\ call.at = "lookup" => View = before
                   /\ call.at # "lookup" => Own(before.results, call.input.op) = {}

CallInv == (call = NoCall /\ saved = <<>>) \/ InProgress

(* Proceed leaves the call's input and the savepoint as they are.           *)
LEMMA Proceeding ==
    ASSUME InProgress, NEW changes, Proceed(changes), "input" \notin DOMAIN changes,
           "at" \in DOMAIN changes => changes.at \notin {"idle", "lookup"},
           call.at = "lookup" => "at" \in DOMAIN changes /\ Stored(call.input.op) = {}
    PROVE  InProgress'
<1>1. PICK before : /\ saved = <<before>>
                    /\ call.at = "lookup" => View = before
                    /\ call.at # "lookup" => Own(before.results, call.input.op) = {}
  BY DEF InProgress
<1>2. /\ call' = [part \in DOMAIN call |-> IF part \in DOMAIN changes THEN changes[part] ELSE call[part]]
      /\ saved' = <<before>>
  BY <1>1 DEF Proceed
<1>3. /\ "at" \in DOMAIN call' /\ "input" \in DOMAIN call'
      /\ call'.input = call.input
      /\ call'.at = IF "at" \in DOMAIN changes THEN changes.at ELSE call.at
  BY <1>2 DEF InProgress
<1>4. call.at = "lookup" => Own(before.results, call.input.op) = {}
  BY <1>1 DEF View, Stored
<1>5. call'.at \notin {"idle", "lookup"}
  BY <1>3 DEF InProgress
<1> QED
  BY <1>1, <1>2, <1>3, <1>4, <1>5 DEF InProgress

LEMMA Calling ==
    ASSUME CallInv, NEW input, NEW case, NEW failedIds, Begin(input, case, failedIds)
    PROVE  InProgress'
<1>1. /\ saved' = <<View>> /\ View' = View
      /\ call'.at = "lookup" /\ "at" \in DOMAIN call' /\ "input" \in DOMAIN call'
  BY DEF Begin, View, graphVars
<1> QED
  BY <1>1 DEF InProgress

LEMMA Leaving == Release => CallInv'
BY DEF Release, CallInv

LEMMA CallGoesOn ==
    ASSUME InProgress,
           \/ StartWork \/ LoadCheckpointWork \/ CaseAnchor \/ RecordProblem \/ CheckpointAttempt
           \/ GatherEvidence \/ FailedAttempt \/ SucceededAttempt
           \/ RootCause \/ Solution \/ Verify \/ Deliver \/ BatchWrite \/ BatchDone
    PROVE  InProgress'
<1>1. CASE StartWork
  <2>1. PICK at \in {"batch", "anchor"} : Proceed([at |-> at])
    BY <1>1 DEF StartWork
  <2> QED
    BY <1>1, <2>1, Proceeding DEF StartWork
<1>2. CASE LoadCheckpointWork
  <2>1. PICK row : Proceed([at |-> "anchor", case |-> row.value.case, checkpoint |-> row.value])
    BY <1>2 DEF LoadCheckpointWork
  <2> QED
    BY <1>2, <2>1, Proceeding DEF LoadCheckpointWork
<1>3. CASE CaseAnchor
  <2>1. PICK problem, previous : Proceed([at |-> AfterAnchor, problem |-> problem, previous |-> previous])
    BY <1>3 DEF CaseAnchor
  <2> QED
    BY <1>3, <2>1, Proceeding DEF CaseAnchor, AfterAnchor
<1>4. CASE RecordProblem
  <2>1. call.at = "anchor"
    BY <1>4 DEF RecordProblem
  <2>2. CASE \E n : Proceed([at |-> AfterAnchor, case |-> nodes[n].case, problem |-> n])
    BY <2>1, <2>2, Proceeding DEF AfterAnchor
  <2>3. CASE Proceed([at |-> AfterAnchor, case |-> Len(cases) + 1, problem |-> Len(nodes) + 1, created |-> TRUE])
    BY <2>1, <2>3, Proceeding DEF AfterAnchor
  <2> QED
    BY <1>4, <2>2, <2>3 DEF RecordProblem
<1>5. CASE CheckpointAttempt
  <2>1. call.at = "attempt" /\ \E attempts, failed : Proceed([at |-> "root", attempts |-> attempts, failed |-> failed])
    BY <1>5 DEF CheckpointAttempt
  <2> QED
    BY <2>1, Proceeding
<1>6. CASE GatherEvidence
  <2>1. call.at = "evidence" /\ \E attempts, failed : Proceed([at |-> "failed", attempts |-> attempts, failed |-> failed])
    BY <1>6 DEF GatherEvidence
  <2> QED
    BY <2>1, Proceeding
<1>7. CASE FailedAttempt
  <2>1. /\ call.at = "failed"
        /\ \E index, previous, attempts, failed :
              Proceed([index |-> index, previous |-> previous, attempts |-> attempts, failed |-> failed])
    BY <1>7 DEF FailedAttempt
  <2> QED
    BY <2>1, Proceeding
<1>8. CASE SucceededAttempt
  <2>1. call.at = "failed" /\ \E attempts : Proceed([at |-> "root", attempts |-> attempts])
    BY <1>8 DEF SucceededAttempt
  <2> QED
    BY <2>1, Proceeding
<1>9. CASE RootCause
  <2>1. call.at = "root" /\ \E root : Proceed([at |-> "solution", root |-> root])
    BY <1>9 DEF RootCause, AfterRoot, NewRootCause, NewRootCauseAs
  <2> QED
    BY <2>1, Proceeding
<1>10. CASE Solution
  <2>1. /\ call.at = "solution"
        /\ \E at \in {"store", "verify"} : \E solution :
              Proceed([at |-> at, solution |-> solution, index |-> 1])
    BY <1>10 DEF Solution, AfterSolution
  <2> QED
    BY <2>1, Proceeding
<1>11. CASE Verify
  <2>1. /\ call.at = "verify"
        /\ \E index, verifications : Proceed([index |-> index, verifications |-> verifications])
    BY <1>11 DEF Verify
  <2> QED
    BY <2>1, Proceeding
<1>12. CASE Deliver
  <2>1. call.at = "verify" /\ \E artifacts : Proceed([at |-> "store", artifacts |-> artifacts])
    BY <1>12 DEF Deliver
  <2> QED
    BY <2>1, Proceeding
<1>13. CASE BatchWrite
  <2>1. call.at = "batch" /\ \E index : Proceed([index |-> index])
    BY <1>13 DEF BatchWrite
  <2> QED
    BY <2>1, Proceeding
<1>14. CASE BatchDone
  <2>1. call.at = "batch" /\ Proceed([at |-> "store"])
    BY <1>14 DEF BatchDone
  <2> QED
    BY <2>1, Proceeding
<1> QED
  BY <1>1, <1>2, <1>3, <1>4, <1>5, <1>6, <1>7, <1>8, <1>9, <1>10, <1>11, <1>12, <1>13, <1>14

LEMMA CallInit == Init => CallInv
BY DEF Init, CallInv

LEMMA CallStep ==
    ASSUME CallInv, [Next]_vars
    PROVE  CallInv'
<1> DEFINE Writing == \/ StartWork \/ LoadCheckpointWork \/ CaseAnchor \/ RecordProblem \/ CheckpointAttempt
                      \/ GatherEvidence \/ FailedAttempt \/ SucceededAttempt
                      \/ RootCause \/ Solution \/ Verify \/ Deliver \/ BatchWrite \/ BatchDone
<1>1. CASE \E input \in Inputs, case \in {0} \cup DOMAIN cases, failedIds \in Named :
              Begin(input, case, failedIds)
  <2>1. PICK input, case, failedIds : Begin(input, case, failedIds)
    BY <1>1
  <2>2. InProgress'
    BY <2>1, Calling
  <2> QED
    BY <2>2 DEF CallInv
<1>2. CASE Replay \/ SkipRoutineSuccess \/ StoreOperation \/ RollBack
  <2>1. Release
    BY <1>2 DEF Replay, SkipRoutineSuccess, StoreOperation, RollBack
  <2> QED
    BY <2>1, Leaving
<1>3. CASE Writing
  <2>1. call.at # "idle"
    BY <1>3 DEF StartWork, LoadCheckpointWork, CaseAnchor, RecordProblem, CheckpointAttempt,
                GatherEvidence, FailedAttempt, SucceededAttempt, RootCause, Solution, Verify,
                Deliver, BatchWrite, BatchDone
  <2>2. InProgress
    BY <2>1 DEF CallInv, NoCall
  <2>3. InProgress'
    BY <1>3, <2>2, CallGoesOn
  <2> QED
    BY <2>3 DEF CallInv
<1>4. CASE Curation
  <2>1. call = NoCall /\ call' = call /\ saved' = saved
    BY <1>4 DEF Curation
  <2>2. saved = <<>>
    BY <2>1 DEF CallInv, InProgress, NoCall
  <2> QED
    BY <2>1, <2>2 DEF CallInv
<1>5. CASE UNCHANGED vars
  <2>1. call' = call /\ saved' = saved /\ View' = View
    BY <1>5 DEF vars, graphVars, View
  <2>2. CASE call = NoCall /\ saved = <<>>
    BY <2>1, <2>2 DEF CallInv
  <2>3. CASE InProgress
    <3>1. InProgress'
      BY <2>1, <2>3 DEF InProgress
    <3> QED
      BY <3>1 DEF CallInv
  <2> QED
    BY <2>2, <2>3 DEF CallInv
<1> QED
  BY <1>1, <1>2, <1>3, <1>4, <1>5 DEF Next

(* A call whose operation id has a result that others can see is still at   *)
(* its lookup, and nothing but its own savepoint lies below it.             *)
LEMMA Repeating ==
    ASSUME CallInv, call # NoCall, Own(Durable.results, call.input.op) # {}
    PROVE  call.at = "lookup" /\ saved = <<View>> /\ Stored(call.input.op) # {}
<1>1. InProgress
  BY DEF CallInv
<1>2. PICK before : /\ saved = <<before>>
                    /\ call.at = "lookup" => View = before
                    /\ call.at # "lookup" => Own(before.results, call.input.op) = {}
  BY <1>1 DEF InProgress
<1>3. Durable = before
  BY <1>2 DEF Durable
<1>4. call.at = "lookup" /\ View = before
  BY <1>2, <1>3
<1>5. results = before.results
  BY <1>4 DEF View
<1> QED
  BY <1>2, <1>3, <1>4, <1>5 DEF Stored

LEMMA RepeatStep ==
    ASSUME CallInv, [Next]_vars, call # NoCall, Own(Durable.results, call.input.op) # {}
    PROVE  View' = View
<1>1. call.at = "lookup" /\ saved = <<View>> /\ Stored(call.input.op) # {}
  BY Repeating
<1>2. Replay \/ RollBack \/ UNCHANGED vars
  <2>1. /\ ~StartWork /\ ~LoadCheckpointWork /\ ~SkipRoutineSuccess
    BY <1>1 DEF StartWork, LoadCheckpointWork, SkipRoutineSuccess
  <2>2. /\ ~CaseAnchor /\ ~RecordProblem /\ ~CheckpointAttempt /\ ~GatherEvidence
        /\ ~FailedAttempt /\ ~SucceededAttempt /\ ~RootCause /\ ~Solution /\ ~Verify
        /\ ~Deliver /\ ~StoreOperation /\ ~BatchWrite /\ ~BatchDone
    BY <1>1 DEF CaseAnchor, RecordProblem, CheckpointAttempt, GatherEvidence, FailedAttempt,
                SucceededAttempt, RootCause, Solution, Verify, Deliver, StoreOperation,
                BatchWrite, BatchDone
  <2>3. ~Curation /\ \A input, case, failedIds : ~Begin(input, case, failedIds)
    BY DEF Curation, Begin
  <2> QED
    BY <2>1, <2>2, <2>3 DEF Next
<1>3. CASE Replay \/ UNCHANGED vars
  BY <1>3 DEF Replay, NothingSaid, vars, graphVars, View
<1>4. CASE RollBack
  <2>1. saved[1] = View
    BY <1>1
  <2>2. /\ cases' = View.cases /\ nodes' = View.nodes /\ edges' = View.edges
        /\ text' = View.text /\ results' = View.results
    BY <1>4, <2>1 DEF RollBack
  <2>3. /\ View.cases = cases /\ View.nodes = nodes /\ View.edges = edges
        /\ View.text = text /\ View.results = results
    BY DEF View
  <2> QED
    BY <2>2, <2>3 DEF View
<1> QED
  BY <1>2, <1>3, <1>4

(* A repeated aggregate changes nothing, for any calls over any graph: its  *)
(* operation id is looked up before its first write, and from then on the   *)
(* outer savepoint keeps what it found (record_checkpoint, checkpoint_work  *)
(* and finalize_work of write.rs).                                          *)
THEOREM RepetitionCorrect == Spec => RepeatChangesNothing
<1>1. CallInv /\ [Next]_vars => [call # NoCall /\ Own(Durable.results, call.input.op) # {} => View' = View]_vars
  BY RepeatStep
<1>2. Init => CallInv
  BY CallInit
<1>3. CallInv /\ [Next]_vars => CallInv'
  BY CallStep
<1> QED
  BY <1>1, <1>2, <1>3, PTL DEF Spec, RepeatChangesNothing

--------------------------------------------------------------------------------
(* What a call may take as settled in the graph *)

(* A node keeps its type, Case and data, and a Verification its status.     *)
Steady(ns, new) ==
    /\ DOMAIN ns \subseteq DOMAIN new
    /\ \A n \in DOMAIN ns :
          /\ new[n].type = ns[n].type /\ new[n].case = ns[n].case /\ new[n].data = ns[n].data
          /\ ns[n].type = "Verification" => new[n].status = ns[n].status

(* Every node is in a Case, and an Attempt is made at one Problem.          *)
Placed(ns) == \A n \in DOMAIN ns : ns[n].case # 0
Trying(e) == e[2] = "ATTEMPTS_TO_SOLVE"
OneProblem(ns, es) ==
    /\ \A e \in es : Trying(e) => e[1] \in DOMAIN ns
    /\ \A e, f \in es : Trying(e) /\ Trying(f) /\ e[1] = f[1] => e[3] = f[3]
Sound == IsSeq(cases) /\ GoodNodes(nodes) /\ Placed(nodes) /\ OneProblem(nodes, edges)

(* A step of the graph that adds k nodes.                                   *)
Advanced(k) ==
    /\ Steady(nodes, nodes') /\ GoodNodes(nodes') /\ Len(nodes') = Len(nodes) + k
    /\ Placed(nodes') /\ OneProblem(nodes', edges') /\ edges \subseteq edges'

LEMMA SteadyTwice ==
    ASSUME NEW ns, NEW mid, NEW new, Steady(ns, mid), Steady(mid, new)
    PROVE  Steady(ns, new)
BY DEF Steady

LEMMA StatusSteady ==
    ASSUME NEW ns, NEW n, NEW status, n \in DOMAIN ns => ns[n].type # "Verification", GoodNodes(ns)
    PROVE  Steady(ns, Graph!WithStatus(ns, n, status))
<1> DEFINE new == Graph!WithStatus(ns, n, status)
<1>1. new = [ns EXCEPT ![n] = [ns[n] EXCEPT !.status = status]] /\ DOMAIN new = DOMAIN ns
  BY DEF Graph!WithStatus
<1>2. ASSUME NEW m \in DOMAIN ns
      PROVE  /\ new[m].type = ns[m].type /\ new[m].case = ns[m].case /\ new[m].data = ns[m].data
             /\ ns[m].type = "Verification" => new[m].status = ns[m].status
  <2>1. CASE m # n
    <3>1. new[m] = ns[m]
      BY <1>1, <2>1
    <3> HIDE DEF new
    <3> QED
      BY <3>1
  <2>2. CASE m = n
    <3>1. ns[m] = [type |-> ns[m].type, case |-> ns[m].case, status |-> ns[m].status, data |-> ns[m].data]
      BY DEF GoodNodes, IsRecord, Graph!Node
    <3>2. new[m] = [ns[m] EXCEPT !.status = status]
      BY <1>1, <2>2
    <3>3. new[m] = [type |-> ns[m].type, case |-> ns[m].case, status |-> status, data |-> ns[m].data]
      BY <3>1, <3>2
    <3> HIDE DEF new
    <3> QED
      BY <2>2, <3>3
  <2> QED
    BY <2>1, <2>2
<1> HIDE DEF new
<1>3. Steady(ns, new)
  BY <1>1, <1>2 DEF Steady
<1> QED
  BY <1>3 DEF new

(* A promotion sets the status of a Solution.                               *)
LEMMA PromotionSteady ==
    ASSUME NEW ns, GoodNodes(ns), NEW es, NEW c
    PROVE  Steady(ns, Graph!Promote(cases, ns, es, c).nodes)
<1> DEFINE promotable == Graph!Promotable(ns, es, c)
           s == Graph!Newest(promotable)
<1>1. CASE promotable = {}
  <2>1. Graph!Promote(cases, ns, es, c).nodes = ns
    BY <1>1 DEF Graph!Promote
  <2> QED
    BY <2>1 DEF Steady
<1>2. CASE promotable # {}
  <2>1. Graph!Promote(cases, ns, es, c).nodes = Graph!WithStatus(ns, s, "verified")
    BY <1>2 DEF Graph!Promote
  <2>2. promotable \subseteq DOMAIN ns
    BY DEF Graph!Promotable
  <2>3. s \in promotable
    <3> HIDE DEF promotable
    <3> QED
      BY <1>2, <2>2, NewestOf
  <2>4. ns[s].type = "Solution"
    <3> HIDE DEF s
    <3> QED
      BY <2>3 DEF Graph!Promotable
  <2> HIDE DEF s
  <2> QED
    BY <2>1, <2>4, StatusSteady
<1> QED
  BY <1>1, <1>2

(* A call that leaves such nodes, and may end with a promotion of them.     *)
LEMMA Committed ==
    ASSUME IsSeq(cases), NEW ns, GoodNodes(ns), NEW es, NEW c, nodes' = ns \/ Graph!Commit(ns, es, c)
    PROVE  Steady(ns, nodes') /\ DOMAIN nodes' = DOMAIN ns /\ GoodNodes(nodes') /\ Len(nodes') = Len(ns)
<1>1. CASE nodes' = ns
  BY <1>1 DEF Steady
<1>2. CASE Graph!Commit(ns, es, c)
  <2>1. nodes' = Graph!Promote(cases, ns, es, c).nodes
    BY <1>2 DEF Graph!Commit
  <2>2. Steady(ns, nodes') /\ DOMAIN nodes' = DOMAIN ns /\ GoodNodes(nodes')
    BY <2>1, PromotionSteady, Promoted
  <2>3. Len(nodes') = Len(ns)
    BY <2>2, Length DEF GoodNodes
  <2> QED
    BY <2>2, <2>3
<1> QED
  BY <1>1, <1>2

(* A call that adds a node to a Case, with edges of its own, and may end    *)
(* with a promotion.                                                       *)
LEMMA NodeAdvances ==
    ASSUME Sound, NEW type, NEW of, of # 0, NEW status, NEW data, NEW es, NEW c,
           LET ns == Append(nodes, Graph!Node(type, of, status, data)) IN
           nodes' = ns \/ Graph!Commit(ns, es, c),
           edges \subseteq edges',
           \A e \in edges' \ edges : Trying(e) => e[1] = Len(nodes) + 1,
           \A e, f \in edges' \ edges : Trying(e) /\ Trying(f) => e[3] = f[3]
    PROVE  /\ Advanced(1)
           /\ Len(nodes) + 1 \in DOMAIN nodes' /\ nodes'[Len(nodes) + 1].type = type
           /\ nodes'[Len(nodes) + 1].case = of /\ nodes'[Len(nodes) + 1].data = data
           /\ type = "Verification" => nodes'[Len(nodes) + 1].status = status
<1> DEFINE node == Graph!Node(type, of, status, data)
           ns == Append(nodes, node)
           n == Len(nodes) + 1
<1>1. /\ GoodNodes(ns) /\ n \in DOMAIN ns /\ \A m \in DOMAIN ns \ DOMAIN nodes : m = n
  BY NodeAppended DEF Sound
<1>2. node.type = type /\ node.case = of /\ node.status = status /\ node.data = data
  BY DEF Graph!Node
<1>3. nodes' = ns \/ Graph!Commit(ns, es, c)
  OBVIOUS
<1> HIDE DEF node
<1>4. /\ Len(ns) = n /\ DOMAIN ns = 1..n /\ ns[n] = node
      /\ \A m \in DOMAIN nodes : m \in DOMAIN ns /\ ns[m] = nodes[m]
  BY Appended DEF Sound, GoodNodes
<1>5. Len(nodes) \in Nat /\ DOMAIN nodes = 1..Len(nodes)
  BY Length DEF Sound, GoodNodes
<1> HIDE DEF ns
<1>6. Steady(nodes, ns)
  BY <1>4 DEF Steady
<1>7. Steady(ns, nodes') /\ DOMAIN nodes' = DOMAIN ns /\ GoodNodes(nodes') /\ Len(nodes') = Len(ns)
  BY <1>1, <1>3, Committed DEF Sound
<1>8. Steady(nodes, nodes')
  BY <1>6, <1>7, SteadyTwice
<1>9. /\ n \in DOMAIN nodes' /\ nodes'[n].type = type /\ nodes'[n].case = of /\ nodes'[n].data = data
      /\ type = "Verification" => nodes'[n].status = status
  BY <1>1, <1>2, <1>4, <1>7 DEF Steady
<1>10. Placed(nodes')
  BY <1>1, <1>7, <1>8, <1>9 DEF Placed, Steady, Sound
<1>11. n \notin DOMAIN nodes
  BY <1>5
<1> HIDE DEF n
<1>12. \A e \in edges' \ edges : Trying(e) => e[1] = n
  BY DEF n
<1>13. OneProblem(nodes', edges')
  <2>1. \A e \in edges' : Trying(e) => e[1] \in DOMAIN nodes'
    BY <1>8, <1>9, <1>12 DEF Sound, OneProblem, Steady
  <2>2. ASSUME NEW e \in edges', NEW f \in edges', Trying(e), Trying(f), e[1] = f[1]
        PROVE  e[3] = f[3]
    BY <1>11, <1>12, <2>2 DEF Sound, OneProblem
  <2> QED
    BY <2>1, <2>2 DEF OneProblem
<1>14. Len(nodes') = Len(nodes) + 1
  BY <1>4, <1>7 DEF n
<1> QED
  BY <1>7, <1>8, <1>9, <1>10, <1>13, <1>14 DEF Advanced, n

(* A call that adds none: it sets the status of a node that is no           *)
(* Verification, or of none, and may end with a promotion.                  *)
LEMMA StatusAdvances ==
    ASSUME Sound, NEW ns, Steady(nodes, ns), GoodNodes(ns), DOMAIN ns = DOMAIN nodes,
           NEW es, NEW c, nodes' = ns \/ Graph!Commit(ns, es, c),
           edges \subseteq edges', \A e \in edges' \ edges : ~Trying(e)
    PROVE  Advanced(0)
<1>1. Steady(ns, nodes') /\ DOMAIN nodes' = DOMAIN ns /\ GoodNodes(nodes') /\ Len(nodes') = Len(ns)
  BY Committed DEF Sound
<1>2. Steady(nodes, nodes')
  BY <1>1, SteadyTwice
<1>3. Len(nodes') = Len(nodes) + 0
  BY <1>1, Length DEF Sound, GoodNodes
<1>4. Placed(nodes')
  BY <1>1, <1>2 DEF Placed, Steady, Sound
<1>5. OneProblem(nodes', edges')
  BY <1>1 DEF OneProblem, Sound
<1> QED
  BY <1>1, <1>2, <1>3, <1>4, <1>5 DEF Advanced

LEMMA NothingAdvances ==
    ASSUME Sound, nodes' = nodes, edges \subseteq edges', \A e \in edges' \ edges : ~Trying(e)
    PROVE  Advanced(0)
<1>1. Steady(nodes, nodes) /\ GoodNodes(nodes)
  BY DEF Steady, Sound
<1> QED
  BY <1>1, StatusAdvances

(* The record calls, one by one.                                            *)
LEMMA OpeningAdvances ==
    ASSUME Sound, NEW title, NEW f, Graph!OpenCase(title, f)
    PROVE  Advanced(1)
<1> DEFINE of == Len(cases) + 1
           data == [fingerprint |-> f]
<1>1. nodes' = Append(nodes, Graph!Node("Problem", of, "open", data)) /\ edges' = edges
  BY DEF Graph!OpenCase, Graph!AddProblem
<1>2. of # 0
  BY Length DEF Sound
<1> HIDE DEF of, data
<1> QED
  BY <1>1, <1>2, NodeAdvances

LEMMA JoiningAdvances ==
    ASSUME Sound, NEW c, NEW f, Graph!JoinCase(c, f)
    PROVE  Advanced(1)
<1> DEFINE data == [fingerprint |-> f]
<1>1. nodes' = Append(nodes, Graph!Node("Problem", c, "open", data)) /\ edges' = edges
  BY DEF Graph!JoinCase, Graph!AddProblem
<1>2. c # 0
  BY Length DEF Sound, Graph!JoinCase, Graph!CaseIds
<1> HIDE DEF data
<1> QED
  BY <1>1, <1>2, NodeAdvances

LEMMA AttemptAdvances ==
    ASSUME Sound, NEW c, NEW problem, NEW previous, NEW outcome,
           Graph!RecordAttempt(c, problem, previous, outcome)
    PROVE  /\ Advanced(1)
           /\ Len(nodes) + 1 \in DOMAIN nodes' /\ nodes'[Len(nodes) + 1].data.outcome = outcome
<1> DEFINE n == Len(nodes) + 1
           status == IF outcome = "succeeded" THEN "candidate" ELSE "open"
           data == [outcome |-> outcome]
<1>1. /\ nodes' = Append(nodes, Graph!Node("Attempt", c, status, data))
      /\ edges' = edges \cup {<<n, "ATTEMPTS_TO_SOLVE", problem>>}
                        \cup {<<n, "PRECEDED_BY", p>> : p \in previous}
  BY DEF Graph!RecordAttempt
<1>2. c # 0
  BY DEF Sound, Placed, Graph!RecordAttempt, Graph!IsNode
<1>3. data.outcome = outcome
  OBVIOUS
<1> HIDE DEF n
<1>4. ASSUME NEW e \in edges' \ edges
      PROVE  e[1] = n /\ (Trying(e) => e[3] = problem)
  BY <1>1 DEF Trying
<1> HIDE DEF data, status
<1>5. /\ Advanced(1) /\ Len(nodes) + 1 \in DOMAIN nodes' /\ nodes'[Len(nodes) + 1].data = data
  <2>1. edges \subseteq edges'
    BY <1>1
  <2> QED
    BY <1>1, <1>2, <1>4, <2>1, NodeAdvances DEF n
<1> QED
  BY <1>3, <1>5

LEMMA RootCauseAdvances ==
    ASSUME Sound, NEW c, NEW problem, NEW failed, NEW status,
           Graph!RecordRootCause(c, problem, failed, status)
    PROVE  Advanced(1)
<1> DEFINE n == Len(nodes) + 1
           es == edges \cup {<<n, "CAUSES", problem>>} \cup {<<a, "FAILED_BECAUSE", n>> : a \in failed}
<1>1. Graph!Commit(Append(nodes, Graph!Node("RootCause", c, status, Graph!NoData)), es, c)
  BY DEF Graph!RecordRootCause
<1>2. edges' = es
  BY <1>1 DEF Graph!Commit
<1>3. \A e \in es \ edges : ~Trying(e)
  BY DEF Trying
<1>4. c # 0
  BY DEF Sound, Placed, Graph!RecordRootCause, Graph!IsNode
<1>5. edges \subseteq es
  OBVIOUS
<1> HIDE DEF es
<1> QED
  BY <1>1, <1>2, <1>3, <1>4, <1>5, NodeAdvances

LEMMA SolutionAdvances ==
    ASSUME Sound, NEW c, NEW root, NEW data, Graph!RecordSolution(c, root, data)
    PROVE  Advanced(1)
<1> DEFINE es == edges \cup {<<Len(nodes) + 1, "ADDRESSES", root>>}
<1>1. Graph!Commit(Append(nodes, Graph!Node("Solution", c, "candidate", data)), es, c)
  BY DEF Graph!RecordSolution
<1>2. edges' = es
  BY <1>1 DEF Graph!Commit
<1>3. \A e \in es \ edges : ~Trying(e)
  BY DEF Trying
<1>4. c # 0
  BY DEF Sound, Placed, Graph!RecordSolution, Graph!IsNode
<1>5. edges \subseteq es
  OBVIOUS
<1> HIDE DEF es
<1> QED
  BY <1>1, <1>2, <1>3, <1>4, <1>5, NodeAdvances

LEMMA VerificationAdvances ==
    ASSUME Sound, NEW c, NEW solution, NEW data, Graph!RecordVerification(c, solution, data)
    PROVE  /\ Advanced(1)
           /\ Len(nodes) + 1 \in DOMAIN nodes' /\ nodes'[Len(nodes) + 1].type = "Verification"
           /\ data.succeeded => nodes'[Len(nodes) + 1].status = "verified"
<1> DEFINE es == edges \cup {<<solution, "VERIFIED_BY", Len(nodes) + 1>>}
           status == IF data.succeeded THEN "verified" ELSE "open"
<1>1. Graph!Commit(Append(nodes, Graph!Node("Verification", c, status, data)), es, c)
  BY DEF Graph!RecordVerification
<1>2. edges' = es
  BY <1>1 DEF Graph!Commit
<1>3. \A e \in es \ edges : ~Trying(e)
  BY DEF Trying
<1>4. c # 0
  BY DEF Sound, Placed, Graph!RecordVerification, Graph!IsNode
<1>5. edges \subseteq es
  OBVIOUS
<1>6. data.succeeded => status = "verified"
  OBVIOUS
<1> HIDE DEF es, status
<1> QED
  BY <1>1, <1>2, <1>3, <1>4, <1>5, <1>6, NodeAdvances

LEMMA GuardrailAdvances ==
    ASSUME Sound, NEW c, NEW root, NEW status, Graph!RecordGuardrail(c, root, status)
    PROVE  Advanced(1)
<1> DEFINE es == edges \cup {<<Len(nodes) + 1, "PREVENTS", root>>}
<1>1. nodes' = Append(nodes, Graph!Node("Guardrail", c, status, Graph!NoData)) /\ edges' = es
  BY DEF Graph!RecordGuardrail
<1>2. \A e \in es \ edges : ~Trying(e)
  BY DEF Trying
<1>3. c # 0
  BY DEF Sound, Placed, Graph!RecordGuardrail, Graph!IsNode
<1>4. edges \subseteq es
  OBVIOUS
<1> HIDE DEF es
<1> QED
  BY <1>1, <1>2, <1>3, <1>4, NodeAdvances

LEMMA ArtifactAdvances ==
    ASSUME Sound, NEW c, NEW verification, Graph!RecordArtifact(c, verification)
    PROVE  Advanced(1)
<1> DEFINE es == edges \cup {<<verification, "REFERENCES", Len(nodes) + 1>>}
<1>1. nodes' = Append(nodes, Graph!Node("Artifact", c, "candidate", Graph!NoData)) /\ edges' = es
  BY DEF Graph!RecordArtifact
<1>2. \A e \in es \ edges : ~Trying(e)
  BY DEF Trying
<1>3. c # 0
  BY DEF Sound, Placed, Graph!RecordArtifact, Graph!IsNode
<1>4. edges \subseteq es
  OBVIOUS
<1> HIDE DEF es
<1> QED
  BY <1>1, <1>2, <1>3, <1>4, NodeAdvances

(* The curation calls add no node.                                          *)
LEMMA ConfirmingAdvances ==
    ASSUME Sound, NEW c, NEW root, Graph!PromoteRootCause(c, root)
    PROVE  Advanced(0)
<1> DEFINE ns == Graph!WithStatus(nodes, root, "verified")
<1>1. Graph!Commit(ns, edges, c) /\ edges' = edges /\ nodes[root].type = "RootCause"
  BY DEF Graph!PromoteRootCause, Graph!Commit, Graph!IsNode
<1>2. Steady(nodes, ns) /\ GoodNodes(ns) /\ DOMAIN ns = DOMAIN nodes
  BY <1>1, StatusSteady, StatusSet DEF Sound
<1> HIDE DEF ns
<1> QED
  BY <1>1, <1>2, StatusAdvances

LEMMA CurationAdvances ==
    ASSUME Sound, NEW c, Graph!Curate(c)
    PROVE  Advanced(0)
<1>1. Steady(nodes, nodes) /\ GoodNodes(nodes)
  BY DEF Steady, Sound
<1>2. CASE Graph!CloseCase(c)
  <2>1. Graph!Commit(nodes, edges, c) /\ edges' = edges
    BY <1>2 DEF Graph!CloseCase, Graph!Commit
  <2> QED
    BY <1>1, <2>1, StatusAdvances
<1>3. CASE \E n, status : /\ nodes' = Graph!WithStatus(nodes, n, status) /\ nodes[n].type = "Solution"
                          /\ edges \subseteq edges' /\ \A e \in edges' \ edges : ~Trying(e)
  BY <1>3, StatusSteady, StatusSet, StatusAdvances DEF Sound
<1>4. CASE \E solution, f : Graph!MarkRegression(c, solution, f)
  <2>1. \E n : nodes' = Graph!WithStatus(nodes, n, "regressed") /\ nodes[n].type = "Solution"
    BY <1>4 DEF Graph!MarkRegression, Graph!IsNode
  <2>2. edges' = edges
    BY <1>4 DEF Graph!MarkRegression
  <2> QED
    BY <1>3, <2>1, <2>2
<1>5. CASE \E prior, replacement : Graph!SupersedeSolution(c, prior, replacement)
  <2>1. PICK prior, replacement :
           /\ nodes[prior].type = "Solution"
           /\ \/ nodes' = nodes /\ edges' = edges
              \/ /\ nodes' = Graph!WithStatus(nodes, prior, "retired")
                 /\ edges' = edges \cup {<<replacement, "SUPERSEDES", prior>>}
    BY <1>5 DEF Graph!SupersedeSolution, Graph!IsNode
  <2>2. edges \subseteq edges' /\ \A e \in edges' \ edges : ~Trying(e)
    BY <2>1 DEF Trying
  <2> QED
    BY <1>3, <2>1, <2>2, NothingAdvances
<1> QED
  BY <1>2, <1>4, <1>5 DEF Graph!Curate

LEMMA RecordAdvances ==
    ASSUME Sound, NEW c, Graph!Record(c)
    PROVE  Advanced(0) \/ Advanced(1)
BY JoiningAdvances, AttemptAdvances, RootCauseAdvances, ConfirmingAdvances, SolutionAdvances,
   GuardrailAdvances, VerificationAdvances, ArtifactAdvances DEF Graph!Record

--------------------------------------------------------------------------------
(* What is stored, and what a call has in hand *)

Worded(ts, ns) == IsSeq(ts) /\ Len(ts) = Len(ns) /\ \A n \in DOMAIN ts : ts[n] \in Texts

(* A checkpoint has one Attempt, which solves its Problem.                  *)
Checkpointed(v, es) ==
    v.case # 0 /\ \E a : v.attempts = {a} /\ <<a, "ATTEMPTS_TO_SOLVE", v.problem>> \in es

(* A final result goes on with the checkpoint it names.                     *)
Carries(v, c) ==
    /\ v.case = c.case /\ v.problem = c.problem /\ c.attempts \subseteq v.attempts
    /\ NoNode \notin {c.root, v.root} => v.root = c.root
    /\ NoNode \notin {c.solution, v.solution} => v.solution = c.solution
Carried(v, rs) ==
    v.checkpoint = NoOperation \/ \E c \in rs : c.op = v.checkpoint /\ c.part = Whole /\ Carries(v, c.value)

(* Its outcome has the Attempts and the Verification it takes.              *)
Ended(A, outcome, ns) == {a \in A : ns[a].data.outcome = outcome}
Attested(A, outcome, ns) ==
    /\ A \subseteq DOMAIN ns
    /\ outcome = "succeeded" => \E a : Ended(A, "succeeded", ns) = {a}
    /\ outcome = "failed" => Ended(A, "failed", ns) # {}
    /\ outcome = "inconclusive" => Ended(A, "failed", ns) \cup Ended(A, "inconclusive", ns) # {}
Passed(V, ns) == \E n \in V : n \in DOMAIN ns /\ ns[n].type = "Verification" /\ ns[n].status = "verified"
Borne(v, ns) ==
    /\ v.outcome \in Outcomes /\ Attested(v.attempts, v.outcome, ns)
    /\ v.outcome = "succeeded" => Passed(v.verifications, ns)

OneRowEach(rs) == \A r, s \in rs : r.op = s.op /\ r.part = s.part => r = s
RowsGood(rs, ns, es) ==
    /\ \A r \in rs : r.op \in Operations
    /\ OneRowEach(rs)
    /\ \A r \in rs : r.part = Whole /\ r.kind = "checkpoint_work" /\ r.value.recorded
                        => Checkpointed(r.value, es)
    /\ \A r \in rs : r.part = Whole /\ r.kind = "finalize_work"
                        => Carried(r.value, rs) /\ Borne(r.value, ns)
ViewGood(v) ==
    /\ Placed(v.nodes) /\ OneProblem(v.nodes, v.edges) /\ Worded(v.text, v.nodes)
    /\ RowsGood(v.results, v.nodes, v.edges)

(* The parts that a call may have recorded when it comes to a step.         *)
PartsBy(at) ==
    CASE at \in {"batch", "anchor"} -> {}
      [] at \in {"attempt", "evidence"} -> {"problem"}
      [] at = "failed" -> {"problem", "failed-attempt"}
      [] at = "root" -> {"problem", "attempt", "failed-attempt", "succeeded-attempt"}
      [] at = "solution" -> {"problem", "attempt", "failed-attempt", "succeeded-attempt", "root-cause"}
      [] OTHER -> {"problem", "attempt", "failed-attempt", "succeeded-attempt", "root-cause",
                   "solution", "verification"}
RowsBy(c, rs) ==
    c.at # "lookup" =>
        \A r \in rs : r.op = c.input.op =>
            /\ r.part[1] \in PartsBy(c.at)
            /\ c.at = "failed" /\ r.part[1] = "failed-attempt" => r.part[2] \in Nat /\ r.part[2] < c.index
            /\ c.at = "verify" /\ r.part[1] = "verification" => r.part[2] \in Nat /\ r.part[2] < c.index

(* The checkpoint it has loaded, and what it has taken over from it.        *)
IsFinal(c) == c.input.kind = "finalize_work"
Loaded(c, rs) ==
    /\ c.at = "lookup" => c.checkpoint = NoValue
    /\ IsFinal(c) /\ c.at # "lookup" =>
          \/ c.input.checkpoint = NoOperation /\ c.checkpoint = NoValue
          \/ /\ c.case = c.checkpoint.case /\ c.checkpoint.recorded
             /\ \E r \in rs : /\ r.op = c.input.checkpoint /\ r.part = Whole /\ r.kind = "checkpoint_work"
                              /\ r.value = c.checkpoint
Reusing(c) ==
    /\ c.input.kind # "record_checkpoint" /\ c.at \notin {"lookup", "anchor"} => c.case # 0
    /\ c.input.kind = "checkpoint_work" /\ c.at \in {"root", "solution", "store"} =>
          \E a : c.attempts = {a}
    /\ IsFinal(c) /\ c.checkpoint.recorded =>
          /\ c.at \in {"failed", "root", "solution", "verify", "store"} =>
                c.problem = c.checkpoint.problem /\ c.checkpoint.attempts \subseteq c.attempts
          /\ c.at \in {"solution", "verify", "store"} /\ NoNode \notin {c.checkpoint.root, c.root} =>
                c.root = c.checkpoint.root
          /\ c.at \in {"verify", "store"} /\ NoNode \notin {c.checkpoint.solution, c.solution} =>
                c.solution = c.checkpoint.solution

(* Up to which point the outcome it reports is borne out.                   *)
Proving(c, ns) ==
    IsFinal(c) =>
    /\ c.at = "failed" =>
          /\ c.attempts \subseteq DOMAIN ns
          /\ \A a \in Ended(c.attempts, "succeeded", ns) : c.checkpoint.recorded /\ a \in c.checkpoint.attempts
          /\ c.input.outcome # "succeeded" =>
                Attested(c.attempts, c.input.outcome, ns) \/ (c.index = 1 /\ c.input.failedAttempts # <<>>)
    /\ c.at \in {"root", "solution", "verify", "store"} => Attested(c.attempts, c.input.outcome, ns)
    /\ c.at = "verify" =>
          \A i \in DOMAIN c.input.verifications :
             i < c.index /\ c.input.verifications[i].succeeded => Passed(c.verifications, ns)
    /\ c.at = "store" /\ c.input.outcome = "succeeded" => Passed(c.verifications, ns)

CallFields == {"at", "input", "case", "failedIds", "problem", "checkpoint", "attempts", "index",
               "root", "solution", "verifications"}
Called(c) ==
    /\ CallFields \subseteq DOMAIN c /\ c.input \in Inputs
    /\ c.at = "attempt" => c.input.kind = "checkpoint_work"
    /\ c.index \in Nat \ {0} /\ (c.at \in {"lookup", "anchor", "evidence"} => c.index = 1)
    /\ IsFinal(c) => ValidFinalize(c.input, c.failedIds)
InHand(c, rs, ns) == Called(c) /\ RowsBy(c, rs) /\ Loaded(c, rs) /\ Reusing(c) /\ Proving(c, ns)

WorkInv ==
    /\ curations \in 0..MaxCurations
    /\ ViewGood(View)
    /\ \/ call = NoCall /\ saved = <<>>
       \/ InHand(call, results, nodes) /\ \E before : saved = <<before>> /\ ViewGood(before)

--------------------------------------------------------------------------------
(* What stays so when the graph and the results grow *)

LEMMA InputTyped ==
    ASSUME NEW i \in Inputs
    PROVE  /\ i.op \in Operations /\ i.kind \in {"checkpoint_work", "finalize_work", "record_checkpoint"}
           /\ i.kind # "record_checkpoint" =>
                 /\ i.text \in Texts /\ i.root \in Texts \cup {NoText} /\ i.solution \in Texts \cup {NoText}
                 /\ i.outcome \in Outcomes
           /\ i.kind = "finalize_work" =>
                 /\ i.checkpoint \in Operations \cup {NoOperation}
                 /\ i.failedAttempts \in Seq(Texts) /\ i.verifications \in Seq(VerificationData)
<1>1. i \in Checkpoints \/ i \in Finals \/ i \in Batches
  BY InputsAssumption
<1> QED
  BY <1>1 DEF Checkpoints, Finals, Batches

LEMMA EndedStays ==
    ASSUME NEW ns, NEW new, Steady(ns, new), NEW A, A \subseteq DOMAIN ns, NEW outcome
    PROVE  Ended(A, outcome, new) = Ended(A, outcome, ns)
BY DEF Steady, Ended

LEMMA AttestedStays ==
    ASSUME NEW ns, NEW new, Steady(ns, new), NEW A, NEW outcome, Attested(A, outcome, ns)
    PROVE  Attested(A, outcome, new)
<1>1. A \subseteq DOMAIN ns /\ A \subseteq DOMAIN new
  BY DEF Attested, Steady
<1>2. \A o : Ended(A, o, new) = Ended(A, o, ns)
  BY <1>1, EndedStays
<1> QED
  BY <1>1, <1>2 DEF Attested

LEMMA PassedStays ==
    ASSUME NEW ns, NEW new, Steady(ns, new), NEW V, Passed(V, ns)
    PROVE  Passed(V, new)
BY DEF Steady, Passed

(* Rows that are there stay good when more come.                            *)
LEMMA RowsStay ==
    ASSUME NEW ns, NEW new, Steady(ns, new), NEW es, NEW more, es \subseteq more, NEW rs, RowsGood(rs, ns, es)
    PROVE  RowsGood(rs, new, more)
<1>1. ASSUME NEW v, Checkpointed(v, es)
      PROVE  Checkpointed(v, more)
  BY <1>1 DEF Checkpointed
<1>2. ASSUME NEW v, Borne(v, ns)
      PROVE  Borne(v, new)
  BY <1>2, AttestedStays, PassedStays DEF Borne
<1> QED
  BY <1>1, <1>2 DEF RowsGood

LEMMA RowAdded ==
    ASSUME NEW ns, NEW es, NEW rs, RowsGood(rs, ns, es), NEW row, row.op \in Operations,
           \A r \in rs : r.op = row.op => r.part # row.part,
           row.part = Whole /\ row.kind = "checkpoint_work" /\ row.value.recorded => Checkpointed(row.value, es),
           row.part = Whole /\ row.kind = "finalize_work" => Carried(row.value, rs) /\ Borne(row.value, ns)
    PROVE  RowsGood(rs \cup {row}, ns, es)
<1> DEFINE new == rs \cup {row}
<1>1. \A v : Carried(v, rs) => Carried(v, new)
  BY DEF Carried
<1>2. OneRowEach(new)
  BY DEF OneRowEach, RowsGood
<1> QED
  BY <1>1, <1>2 DEF RowsGood

LEMMA WordAdded ==
    ASSUME NEW ts, NEW ns, Worded(ts, ns), NEW t \in Texts, NEW new, Len(new) = Len(ns) + 1
    PROVE  Worded(Append(ts, t), new)
<1>1. DOMAIN ts = 1..Len(ts) /\ Len(ts) \in Nat
  BY Length DEF Worded
<1>2. /\ IsSeq(Append(ts, t)) /\ Len(Append(ts, t)) = Len(ts) + 1
      /\ DOMAIN Append(ts, t) = 1..Len(ts) + 1
      /\ \A i \in DOMAIN ts : Append(ts, t)[i] = ts[i]
      /\ Append(ts, t)[Len(ts) + 1] = t
  BY Appended DEF Worded
<1>3. \A i \in DOMAIN Append(ts, t) : i \in DOMAIN ts \/ i = Len(ts) + 1
  BY <1>1, <1>2
<1> QED
  BY <1>2, <1>3 DEF Worded

LEMMA SoundView ==
    ASSUME ViewGood(View), IsSeq(cases), GoodNodes(nodes)
    PROVE  Sound
BY Fields DEF ViewGood, Sound

(* A step that changes the graph alone.                                     *)
LEMMA QuietStep ==
    ASSUME ViewGood(View), Advanced(0), text' = text, results' = results
    PROVE  ViewGood(View')
<1>1. RowsGood(results', nodes', edges')
  BY RowsStay, Fields DEF ViewGood, Advanced
<1>2. Worded(text', nodes')
  <2>1. Worded(text, nodes) /\ Len(nodes') = Len(nodes) + 0 /\ Len(text) \in Nat
    BY Fields, Length DEF ViewGood, Worded, Advanced
  <2> QED
    BY <2>1 DEF Worded
<1> QED
  BY <1>1, <1>2, FieldsNext DEF ViewGood, Advanced

(* A step that adds a node and says something of it.                        *)
LEMMA SpokenStep ==
    ASSUME ViewGood(View), Advanced(1), NEW t \in Texts, text' = Append(text, t),
           \/ results' = results
           \/ \E row : /\ results' = results \cup {row} /\ row.op \in Operations /\ row.part # Whole
                       /\ \A r \in results : r.op = row.op => r.part # row.part
    PROVE  ViewGood(View')
<1>1. RowsGood(results, nodes', edges')
  BY RowsStay, Fields DEF ViewGood, Advanced
<1>2. RowsGood(results', nodes', edges')
  BY <1>1, RowAdded
<1>3. Worded(text', nodes')
  <2>1. Worded(text, nodes) /\ Len(nodes') = Len(nodes) + 1
    BY Fields DEF ViewGood, Advanced
  <2> QED
    BY <2>1, WordAdded
<1> QED
  BY <1>2, <1>3, FieldsNext DEF ViewGood, Advanced

--------------------------------------------------------------------------------
(* The steps of a call *)

Working == Ongoing /\ ViewGood(View) /\ InHand(call, results, nodes)

LEMMA SoundCall ==
    ASSUME Working
    PROVE  Sound /\ IsSeq(cases) /\ GoodNodes(nodes) /\ Placed(nodes) /\ OneProblem(nodes, edges)
           /\ RowsGood(results, nodes, edges) /\ KindAt(call.at, call.input.kind)
BY Graphs, SoundView, Fields DEF Working, ViewGood, Ongoing

LEMMA Proceeds ==
    ASSUME CallFields \subseteq DOMAIN call, NEW changes, Proceed(changes)
    PROVE  /\ CallFields \subseteq DOMAIN call'
           /\ \A f \in CallFields : call'[f] = IF f \in DOMAIN changes THEN changes[f] ELSE call[f]
           /\ saved' = saved /\ curations' = curations
BY DEF Proceed

LEMMA LoadedStays ==
    ASSUME NEW c, NEW rs, Loaded(c, rs), NEW more, rs \subseteq more
    PROVE  Loaded(c, more)
BY DEF Loaded

LEMMA ProvingStays ==
    ASSUME NEW c, NEW ns, Proving(c, ns), NEW new, Steady(ns, new)
    PROVE  Proving(c, new)
<1>1. \A A, o : Attested(A, o, ns) => Attested(A, o, new)
  BY AttestedStays
<1>2. \A V : Passed(V, ns) => Passed(V, new)
  BY PassedStays
<1>3. \A A, o : A \subseteq DOMAIN ns => Ended(A, o, new) = Ended(A, o, ns) /\ A \subseteq DOMAIN new
  BY EndedStays DEF Steady
<1> QED
  BY <1>1, <1>2, <1>3 DEF Proving

(* A call that finds no result of its operation finds no row of it.         *)
LEMMA NothingOfIt ==
    ASSUME Ongoing, call.at = "lookup", Stored(call.input.op) = {}
    PROVE  \A r \in results : r.op # call.input.op
<1>1. Consistent(View, {}, {})
  BY DEF Ongoing
<1>2. RowsWhole(results, {})
  BY <1>1, Fields DEF Consistent
<1> QED
  BY <1>2 DEF RowsWhole, Stored, Own

LEMMA StartWorkOn ==
    ASSUME Working, StartWork
    PROVE  ViewGood(View') /\ InHand(call', results', nodes') /\ saved' = saved /\ curations' = curations
<1>1. CallFields \subseteq DOMAIN call /\ InHand(call, results, nodes)
  BY DEF Working, InHand, Called
<1>2. PICK at \in {"batch", "anchor"} :
         /\ Proceed([at |-> at])
         /\ call.input.kind = "finalize_work" => call.input.checkpoint = NoOperation
  BY DEF StartWork
<1>3. call.at = "lookup" /\ \A r \in results : r.op # call.input.op
  BY NothingOfIt DEF StartWork, Working
<1>4. View' = View /\ results' = results /\ nodes' = nodes
  BY DEF StartWork, NothingSaid, graphVars, View
<1>5. /\ CallFields \subseteq DOMAIN call' /\ saved' = saved /\ curations' = curations
      /\ call'.at = at /\ \A f \in CallFields \ {"at"} : call'[f] = call[f]
  BY <1>1, <1>2, Proceeds DEF CallFields
<1>6. Called(call')
  BY <1>1, <1>3, <1>5 DEF InHand, Called, CallFields, IsFinal
<1>7. RowsBy(call', results') /\ Loaded(call', results') /\ Reusing(call') /\ Proving(call', nodes')
  <2>1. call'.input = call.input /\ call'.checkpoint = call.checkpoint /\ call'.at = at
    BY <1>5 DEF CallFields
  <2>2. Loaded(call', results')
    BY <1>1, <1>2, <1>3, <2>1 DEF InHand, Loaded, IsFinal
  <2>3. KindAt("lookup", call.input.kind) /\ (at = "batch" => call.input.kind = "record_checkpoint")
    <3>1. at = "batch" => call.input.kind = "record_checkpoint"
      <4>1. CASE call.input.kind = "record_checkpoint"
        BY <4>1
      <4>2. CASE call.input.kind # "record_checkpoint"
        <5>1. Proceed([at |-> "anchor"])
          BY <4>2 DEF StartWork
        <5>2. call'.at = "anchor"
          BY <1>1, <5>1, Proceeds DEF CallFields
        <5> QED
          BY <2>1, <5>2
      <4> QED
        BY <4>1, <4>2
    <3> QED
      BY <3>1 DEF KindAt
  <2>4. RowsBy(call', results')
    BY <1>3, <1>4, <2>1 DEF RowsBy
  <2>5. Reusing(call') /\ Proving(call', nodes')
    BY <2>1, <2>3 DEF Reusing, Proving, IsFinal
  <2> QED
    BY <2>2, <2>4, <2>5
<1> QED
  BY <1>4, <1>5, <1>6, <1>7 DEF Working, InHand

LEMMA LoadingOn ==
    ASSUME Working, LoadCheckpointWork
    PROVE  ViewGood(View') /\ InHand(call', results', nodes') /\ saved' = saved /\ curations' = curations
<1>1. CallFields \subseteq DOMAIN call /\ InHand(call, results, nodes)
  BY DEF Working, InHand, Called
<1>2. PICK row \in Own(results, call.input.checkpoint) :
         /\ row.kind = "checkpoint_work" /\ row.value.recorded
         /\ Proceed([at |-> "anchor", case |-> row.value.case, checkpoint |-> row.value])
  BY DEF LoadCheckpointWork
<1>3. call.at = "lookup" /\ \A r \in results : r.op # call.input.op
  BY NothingOfIt DEF LoadCheckpointWork, Working
<1>4. View' = View /\ results' = results /\ nodes' = nodes
  BY DEF LoadCheckpointWork, NothingSaid, graphVars, View
<1>5. /\ CallFields \subseteq DOMAIN call' /\ saved' = saved /\ curations' = curations
      /\ call'.at = "anchor" /\ call'.case = row.value.case /\ call'.checkpoint = row.value
      /\ \A f \in CallFields \ {"at", "case", "checkpoint"} : call'[f] = call[f]
  BY <1>1, <1>2, Proceeds DEF CallFields
<1>6. Called(call')
  BY <1>1, <1>3, <1>5 DEF InHand, Called, CallFields, IsFinal
<1>7. call'.input = call.input
  BY <1>5 DEF CallFields
<1>8. Loaded(call', results')
  BY <1>2, <1>4, <1>5, <1>7 DEF Loaded, IsFinal, Own
<1>9. RowsBy(call', results')
  BY <1>3, <1>4, <1>7 DEF RowsBy
<1>10. Reusing(call') /\ Proving(call', nodes')
  BY <1>5 DEF Reusing, Proving, IsFinal
<1> QED
  BY <1>4, <1>5, <1>6, <1>8, <1>9, <1>10 DEF Working, InHand

LEMMA CaseAnchorOn ==
    ASSUME Working, CaseAnchor
    PROVE  ViewGood(View') /\ InHand(call', results', nodes') /\ saved' = saved /\ curations' = curations
<1>1. CallFields \subseteq DOMAIN call /\ InHand(call, results, nodes)
  BY DEF Working, InHand, Called
<1>2. PICK problem, previous :
         Proceed([at |-> AfterAnchor, problem |-> problem, previous |-> previous])
  BY DEF CaseAnchor
<1>3. call.at = "anchor" /\ call.case # 0
  BY DEF CaseAnchor
<1>4. View' = View /\ results' = results /\ nodes' = nodes
  BY DEF CaseAnchor, NothingSaid, graphVars, View
<1>5. /\ CallFields \subseteq DOMAIN call' /\ saved' = saved /\ curations' = curations
      /\ call'.at = AfterAnchor /\ \A f \in CallFields \ {"at", "problem"} : call'[f] = call[f]
  BY <1>1, <1>2, Proceeds DEF CallFields
<1>6. Called(call')
  BY <1>1, <1>3, <1>5 DEF InHand, Called, CallFields, IsFinal, AfterAnchor
<1>7. /\ call'.input = call.input /\ call'.case = call.case /\ call'.checkpoint = call.checkpoint
      /\ call'.at = IF call.input.kind = "checkpoint_work" THEN "attempt" ELSE "evidence"
  BY <1>5 DEF CallFields, AfterAnchor
<1>8. Loaded(call', results')
  BY <1>1, <1>3, <1>4, <1>7 DEF InHand, Loaded, IsFinal
<1>9. RowsBy(call', results')
  BY <1>1, <1>3, <1>4, <1>7 DEF InHand, RowsBy, PartsBy
<1>10. Reusing(call') /\ Proving(call', nodes')
  BY <1>3, <1>7 DEF Reusing, Proving, IsFinal
<1> QED
  BY <1>4, <1>5, <1>6, <1>8, <1>9, <1>10 DEF Working, InHand

LEMMA ProblemOn ==
    ASSUME Working, RecordProblem
    PROVE  ViewGood(View') /\ InHand(call', results', nodes') /\ saved' = saved /\ curations' = curations
<1> DEFINE part == <<"problem", 0>>
<1>0. /\ CallFields \subseteq DOMAIN call /\ InHand(call, results, nodes) /\ Sound
      /\ RowsGood(results, nodes, edges) /\ KindAt(call.at, call.input.kind)
      /\ call.input \in Inputs
  BY SoundCall DEF Working, InHand, Called
<1>1. call.at = "anchor" /\ call.case = 0
  BY DEF RecordProblem
<1>2. call.input.op \in Operations /\ call.input.text \in Texts
  BY <1>0, <1>1, InputTyped DEF KindAt
<1>3. \A r \in results : r.op # call.input.op
  BY <1>0, <1>1 DEF InHand, RowsBy, PartsBy
<1>4. PICK case, problem, value :
         /\ case # 0 /\ Steady(nodes, nodes') /\ ViewGood(View')
         /\ results' = results \cup {Row(part, "record_problem", value)}
         /\ \/ Proceed([at |-> AfterAnchor, case |-> case, problem |-> problem])
            \/ Proceed([at |-> AfterAnchor, case |-> case, problem |-> problem, created |-> TRUE])
  <2>1. CASE \E n \in DOMAIN nodes :
                /\ results' = results \cup {Row(part, "record_problem", n)}
                /\ Proceed([at |-> AfterAnchor, case |-> nodes[n].case, problem |-> n])
                /\ UNCHANGED <<graphVars, text>>
    <3>1. PICK n \in DOMAIN nodes :
                /\ results' = results \cup {Row(part, "record_problem", n)}
                /\ Proceed([at |-> AfterAnchor, case |-> nodes[n].case, problem |-> n])
                /\ UNCHANGED <<graphVars, text>>
      BY <2>1
    <3> DEFINE row == Row(part, "record_problem", n)
    <3>2. row.op = call.input.op /\ row.part = part
      BY DEF Row
    <3>3. row.part # Whole
      BY <3>2 DEF Whole
    <3>4. results' = results \cup {row}
      BY <3>1
    <3> HIDE DEF row
    <3>5. RowsGood(results', nodes, edges)
      BY <1>0, <1>2, <1>3, <3>2, <3>3, <3>4, RowAdded
    <3>6. nodes' = nodes /\ edges' = edges /\ text' = text
      BY <3>1 DEF graphVars
    <3>7. ViewGood(View') /\ Steady(nodes, nodes')
      BY <3>5, <3>6, Fields, FieldsNext DEF Working, ViewGood, Steady
    <3>8. nodes[n].case # 0
      BY <1>0 DEF Sound, Placed
    <3> QED
      BY <3>1, <3>7, <3>8
  <2>2. CASE /\ Graph!OpenCase(call.input.text, call.input.fingerprint)
             /\ Said(part, "record_problem", call.input.text)
             /\ Proceed([at |-> AfterAnchor, case |-> Len(cases) + 1, problem |-> Len(nodes) + 1,
                         created |-> TRUE])
    <3> DEFINE row == Row(part, "record_problem", Len(nodes) + 1)
    <3>1. Advanced(1)
      BY <1>0, <2>2, OpeningAdvances
    <3>2. row.op = call.input.op /\ row.part = part
      BY DEF Row
    <3>3. row.part # Whole
      BY <3>2 DEF Whole
    <3>4. results' = results \cup {row} /\ text' = Append(text, call.input.text)
      BY <2>2 DEF Said
    <3> HIDE DEF row
    <3>5. ViewGood(View')
      BY <1>2, <1>3, <3>1, <3>2, <3>3, <3>4, SpokenStep DEF Working
    <3>6. Len(cases) + 1 # 0
      BY <1>0, Length DEF Sound
    <3>7. results' = results \cup {Row(part, "record_problem", Len(nodes) + 1)}
      BY <3>4 DEF row
    <3> QED
      BY <2>2, <3>1, <3>5, <3>6, <3>7 DEF Advanced
  <2> QED
    BY <2>1, <2>2 DEF RecordProblem
<1>5. /\ CallFields \subseteq DOMAIN call' /\ saved' = saved /\ curations' = curations
      /\ call'.at = AfterAnchor /\ call'.case = case
      /\ \A f \in CallFields \ {"at", "case", "problem"} : call'[f] = call[f]
  BY <1>0, <1>4, Proceeds DEF CallFields
<1>6. Called(call')
  BY <1>0, <1>1, <1>5 DEF InHand, Called, CallFields, IsFinal, AfterAnchor
<1>7. /\ call'.input = call.input /\ call'.checkpoint = call.checkpoint
      /\ call'.at = IF call.input.kind = "checkpoint_work" THEN "attempt" ELSE "evidence"
  BY <1>5 DEF CallFields, AfterAnchor
<1>8. Loaded(call', results')
  <2>1. IsFinal(call) => call.input.checkpoint = NoOperation /\ call.checkpoint = NoValue
    <3>1. ASSUME IsFinal(call), NEW r \in results, r.part = Whole, r.kind = "checkpoint_work",
                 r.value = call.checkpoint, call.checkpoint.recorded, call.case = call.checkpoint.case
          PROVE  FALSE
      BY <1>0, <1>1, <3>1 DEF RowsGood, Checkpointed
    <3> QED
      BY <1>0, <1>1, <3>1 DEF InHand, Loaded
  <2> QED
    BY <1>7, <2>1 DEF Loaded, IsFinal
<1>9. RowsBy(call', results')
  <2>1. \A r \in results' : r.op = call.input.op => r.part = part
    BY <1>3, <1>4 DEF Row
  <2>2. part[1] = "problem"
    OBVIOUS
  <2> HIDE DEF part
  <2> QED
    BY <1>7, <2>1, <2>2 DEF RowsBy, PartsBy
<1>10. Reusing(call') /\ Proving(call', nodes')
  BY <1>4, <1>5, <1>7 DEF Reusing, Proving, IsFinal
<1> QED
  BY <1>4, <1>5, <1>6, <1>8, <1>9, <1>10 DEF InHand

(* A record call of the aggregate: its row is the first of its part.        *)
LEMMA Speaks ==
    ASSUME Working, Advanced(1), NEW part, part # Whole, NEW kind, NEW t \in Texts, Said(part, kind, t),
           \A r \in results : r.op = call.input.op => r.part # part
    PROVE  /\ ViewGood(View') /\ Steady(nodes, nodes') /\ results \subseteq results'
           /\ \A r \in results' : r \in results \/ (r.op = call.input.op /\ r.part = part)
<1> DEFINE row == Row(part, kind, Len(nodes) + 1)
<1>1. row.op = call.input.op /\ row.part = part
  BY DEF Row
<1>2. results' = results \cup {row} /\ text' = Append(text, t)
  BY DEF Said
<1>3. call.input.op \in Operations
  BY InputTyped DEF Working, InHand, Called
<1> HIDE DEF row
<1>4. ViewGood(View')
  BY <1>1, <1>2, <1>3, SpokenStep DEF Working
<1> QED
  BY <1>1, <1>2, <1>4 DEF Advanced

LEMMA Tries ==
    ASSUME Working, NEW part, part # Whole, NEW t \in Texts, NEW outcome, RecordAttempt(part, t, outcome),
           \A r \in results : r.op = call.input.op => r.part # part
    PROVE  /\ ViewGood(View') /\ Steady(nodes, nodes') /\ results \subseteq results'
           /\ \A r \in results' : r \in results \/ (r.op = call.input.op /\ r.part = part)
           /\ Len(nodes) + 1 \in DOMAIN nodes' /\ nodes'[Len(nodes) + 1].data.outcome = outcome
<1>1. /\ Graph!RecordAttempt(call.case, call.problem, call.previous, outcome)
      /\ Said(part, "record_attempt", t)
  BY DEF RecordAttempt
<1>2. /\ Advanced(1)
      /\ Len(nodes) + 1 \in DOMAIN nodes' /\ nodes'[Len(nodes) + 1].data.outcome = outcome
  BY <1>1, SoundCall, AttemptAdvances
<1> QED
  BY <1>1, <1>2, Speaks

LEMMA CheckpointAttemptOn ==
    ASSUME Working, CheckpointAttempt
    PROVE  ViewGood(View') /\ InHand(call', results', nodes') /\ saved' = saved /\ curations' = curations
<1> DEFINE part == <<"attempt", 0>>
           n == Len(nodes) + 1
<1>0. /\ CallFields \subseteq DOMAIN call /\ InHand(call, results, nodes) /\ call.at = "attempt"
      /\ call.input \in Inputs /\ KindAt(call.at, call.input.kind)
  BY SoundCall DEF Working, InHand, Called, CheckpointAttempt
<1>1. call.input.kind \in {"checkpoint_work", "finalize_work"}
  BY <1>0 DEF KindAt
<1>2. part # Whole /\ part[1] = "attempt"
  BY DEF Whole
<1>3. \A r \in results : r.op = call.input.op => r.part[1] = "problem"
  BY <1>0 DEF InHand, RowsBy, PartsBy
<1>4. /\ RecordAttempt(part, call.input.text, call.input.outcome)
      /\ \E failed : Proceed([at |-> "root", attempts |-> {n}, failed |-> failed])
  BY DEF CheckpointAttempt
<1> HIDE DEF part, n
<1>5. call.input.text \in Texts
  BY <1>0, <1>1, InputTyped
<1>6. /\ ViewGood(View') /\ Steady(nodes, nodes') /\ results \subseteq results'
      /\ \A r \in results' : r \in results \/ (r.op = call.input.op /\ r.part = part)
  <2>1. \A r \in results : r.op = call.input.op => r.part # part
    BY <1>2, <1>3
  <2> QED
    BY <1>2, <1>4, <1>5, <2>1, Tries
<1>7. /\ CallFields \subseteq DOMAIN call' /\ saved' = saved /\ curations' = curations
      /\ call'.at = "root" /\ call'.attempts = {n}
      /\ \A f \in CallFields \ {"at", "attempts"} : call'[f] = call[f]
  BY <1>0, <1>4, Proceeds DEF CallFields
<1>8. Called(call')
  BY <1>0, <1>7 DEF InHand, Called, CallFields, IsFinal
<1>9. call'.input = call.input /\ call'.case = call.case /\ call'.checkpoint = call.checkpoint
  BY <1>7 DEF CallFields
<1>10. call.input.kind = "checkpoint_work"
  BY <1>0 DEF InHand, Called
<1>11. RowsBy(call', results')
  BY <1>2, <1>3, <1>6, <1>7, <1>9 DEF RowsBy, PartsBy
<1>12. Loaded(call', results') /\ Proving(call', nodes') /\ Reusing(call')
  BY <1>0, <1>7, <1>9, <1>10 DEF InHand, Loaded, Proving, Reusing, IsFinal
<1> QED
  BY <1>6, <1>7, <1>8, <1>11, <1>12 DEF InHand

(* The checkpoint that a final call has loaded has one Attempt.             *)
LEMMA CheckpointKnown ==
    ASSUME Working, IsFinal(call), call.at # "lookup"
    PROVE  /\ call.input.checkpoint # NoOperation => call.checkpoint.recorded
           /\ call.checkpoint.recorded => Checkpointed(call.checkpoint, edges)
           /\ \A a \in CheckpointAttempts : call.checkpoint.recorded /\ call.checkpoint.attempts = {a}
           /\ call.checkpoint.recorded => CheckpointAttempts = call.checkpoint.attempts
           /\ call.checkpoint.recorded => CheckpointAttempts # {}
<1>1. Loaded(call, results) /\ RowsGood(results, nodes, edges)
  BY SoundCall DEF Working, InHand
<1>2. /\ call.input.checkpoint # NoOperation => call.checkpoint.recorded
      /\ call.checkpoint.recorded => Checkpointed(call.checkpoint, edges)
  BY <1>1 DEF Loaded, RowsGood, NoValue
<1>3. CASE call.checkpoint.recorded
  <2>1. CheckpointAttempts = call.checkpoint.attempts /\ \E a : call.checkpoint.attempts = {a}
    BY <1>2, <1>3 DEF CheckpointAttempts, Checkpointed
  <2> QED
    BY <1>2, <1>3, <2>1
<1>4. CASE ~call.checkpoint.recorded
  BY <1>2, <1>4 DEF CheckpointAttempts
<1> QED
  BY <1>3, <1>4

LEMMA GatheringOn ==
    ASSUME Working, GatherEvidence
    PROVE  ViewGood(View') /\ InHand(call', results', nodes') /\ saved' = saved /\ curations' = curations
<1> DEFINE all == call.failedIds \cup CheckpointAttempts
<1>0. /\ CallFields \subseteq DOMAIN call /\ InHand(call, results, nodes) /\ call.at = "evidence"
      /\ KindAt(call.at, call.input.kind) /\ OneProblem(nodes, edges)
  BY SoundCall DEF Working, InHand, Called, GatherEvidence
<1>1. IsFinal(call) /\ call.index = 1 /\ ValidFinalize(call.input, call.failedIds)
  BY <1>0 DEF KindAt, IsFinal, InHand, Called
<1>2. /\ \A a \in call.failedIds : Solves(a) /\ OutcomeOf(a) = "failed"
      /\ \A a \in CheckpointAttempts : Solves(a) /\ Supports(a)
      /\ \E failed : Proceed([at |-> "failed", attempts |-> all, failed |-> failed])
  BY DEF GatherEvidence
<1>3. View' = View /\ results' = results /\ nodes' = nodes
  BY DEF GatherEvidence, NothingSaid, graphVars, View
<1>4. all \subseteq DOMAIN nodes
  BY <1>2 DEF Solves, Graph!IsNode
<1>5. /\ CallFields \subseteq DOMAIN call' /\ saved' = saved /\ curations' = curations
      /\ call'.at = "failed" /\ call'.attempts = all
      /\ \A f \in CallFields \ {"at", "attempts"} : call'[f] = call[f]
  <2> HIDE DEF all
  <2> QED
    BY <1>0, <1>2, Proceeds DEF CallFields
<1>6. Called(call')
  BY <1>0, <1>5 DEF InHand, Called, CallFields, IsFinal
<1>7. /\ call'.input = call.input /\ call'.case = call.case /\ call'.checkpoint = call.checkpoint
      /\ call'.problem = call.problem /\ call'.index = 1
  BY <1>1, <1>5 DEF CallFields
<1>8. RowsBy(call', results') /\ Loaded(call', results')
  BY <1>0, <1>3, <1>5, <1>7 DEF InHand, RowsBy, PartsBy, Loaded, IsFinal
<1>9. Reusing(call')
  <2>1. ASSUME call.checkpoint.recorded
        PROVE  call.problem = call.checkpoint.problem /\ call.checkpoint.attempts \subseteq all
    <3>1. PICK a : /\ call.checkpoint.attempts = {a} /\ a \in CheckpointAttempts
                   /\ <<a, "ATTEMPTS_TO_SOLVE", call.checkpoint.problem>> \in edges
      BY <1>0, <1>1, <2>1, CheckpointKnown DEF Checkpointed
    <3> DEFINE e == <<a, "ATTEMPTS_TO_SOLVE", call.checkpoint.problem>>
               f == <<a, "ATTEMPTS_TO_SOLVE", call.problem>>
    <3>2. e \in edges /\ f \in edges
      BY <1>2, <3>1 DEF Solves
    <3>3. Trying(e) /\ Trying(f) /\ e[1] = f[1] /\ e[3] = call.checkpoint.problem /\ f[3] = call.problem
      BY DEF Trying
    <3> HIDE DEF e, f
    <3>4. call.problem = call.checkpoint.problem
      BY <1>0, <3>2, <3>3 DEF OneProblem
    <3> QED
      BY <3>1, <3>4
  <2> HIDE DEF all
  <2> QED
    BY <1>0, <1>1, <1>5, <1>7, <2>1 DEF InHand, Reusing, IsFinal
<1>10. Proving(call', nodes')
  <2>1. \A a \in Ended(all, "succeeded", nodes) : call.checkpoint.recorded /\ a \in call.checkpoint.attempts
    <3>1. ASSUME NEW a \in Ended(all, "succeeded", nodes)
          PROVE  a \in CheckpointAttempts
      BY <1>2 DEF Ended, OutcomeOf
    <3> QED
      BY <1>0, <1>1, <3>1, CheckpointKnown
  <2>2. ASSUME call.input.outcome # "succeeded"
        PROVE  Attested(all, call.input.outcome, nodes) \/ call.input.failedAttempts # <<>>
    <3>1. CASE call.failedIds # {}
      <4>1. PICK a : a \in call.failedIds /\ OutcomeOf(a) = "failed"
        BY <1>2, <3>1
      <4>2. a \in Ended(all, "failed", nodes)
        BY <4>1 DEF Ended, OutcomeOf
      <4> HIDE DEF all
      <4> QED
        BY <1>4, <2>2, <4>2 DEF Attested
    <3>2. CASE call.failedIds = {} /\ call.input.failedAttempts = <<>>
      <4>1. call.checkpoint.recorded
        BY <1>0, <1>1, <2>2, <3>2, CheckpointKnown DEF ValidFinalize
      <4>2. PICK a \in CheckpointAttempts : Supports(a)
        BY <1>0, <1>1, <1>2, <4>1, CheckpointKnown
      <4>3. \/ a \in Ended(all, "failed", nodes)
            \/ call.input.outcome = "inconclusive" /\ a \in Ended(all, "inconclusive", nodes)
        BY <2>2, <3>2, <4>2 DEF Supports, Ended, OutcomeOf
      <4> HIDE DEF all
      <4> QED
        BY <1>4, <2>2, <4>3 DEF Attested
    <3> QED
      BY <3>1, <3>2
  <2> HIDE DEF all
  <2> QED
    BY <1>3, <1>4, <1>5, <1>7, <2>1, <2>2 DEF Proving
<1> QED
  BY <1>3, <1>5, <1>6, <1>8, <1>9, <1>10 DEF Working, InHand

LEMMA FailedAttemptOn ==
    ASSUME Working, FailedAttempt
    PROVE  ViewGood(View') /\ InHand(call', results', nodes') /\ saved' = saved /\ curations' = curations
<1> DEFINE i == call.index
           t == call.input.failedAttempts[i]
           part == <<"failed-attempt", i>>
           equivalent == EquivalentAttempts(t, "failed")
<1>0. /\ CallFields \subseteq DOMAIN call /\ InHand(call, results, nodes) /\ call.at = "failed"
      /\ KindAt(call.at, call.input.kind) /\ call.input \in Inputs /\ i \in Nat \ {0}
      /\ i <= Len(call.input.failedAttempts) /\ GoodNodes(nodes)
  BY SoundCall DEF Working, InHand, Called, FailedAttempt
<1>1. IsFinal(call)
  BY <1>0 DEF KindAt, IsFinal
<1>2. t \in Texts /\ call.input.outcome \in Outcomes
  BY <1>0, <1>1, InputTyped DEF IsFinal
<1>3. part # Whole /\ part[1] = "failed-attempt" /\ part[2] = i
  BY DEF Whole
<1>4. \A r \in results : r.op = call.input.op =>
         /\ r.part[1] \in {"problem", "failed-attempt"}
         /\ r.part[1] = "failed-attempt" => r.part[2] \in Nat /\ r.part[2] < i
  BY <1>0 DEF InHand, RowsBy, PartsBy
<1>5. PICK a : /\ a \in DOMAIN nodes' /\ nodes'[a].data.outcome = "failed"
               /\ ViewGood(View') /\ Steady(nodes, nodes') /\ results \subseteq results'
               /\ \A r \in results' : r \in results \/ (r.op = call.input.op /\ r.part = part)
               /\ \E failed : Proceed([index |-> i + 1, previous |-> {a},
                                       attempts |-> call.attempts \cup {a}, failed |-> failed])
  <2>1. CASE equivalent # {} /\ NothingSaid
    <3> DEFINE a == Graph!Newest(equivalent)
    <3>1. \E failed : Proceed([index |-> i + 1, previous |-> {a},
                               attempts |-> call.attempts \cup {a}, failed |-> failed])
      BY <2>1 DEF FailedAttempt
    <3>2. equivalent \subseteq DOMAIN nodes
      BY DEF EquivalentAttempts, Graph!OfType
    <3>3. a \in equivalent
      <4> HIDE DEF equivalent
      <4> QED
        BY <1>0, <2>1, <3>2, NewestOf
    <3> HIDE DEF a
    <3>4. a \in DOMAIN nodes /\ nodes[a].data.outcome = "failed"
      BY <3>3 DEF EquivalentAttempts, Graph!OfType, OutcomeOf
    <3>5. View' = View /\ nodes' = nodes /\ results' = results
      BY <2>1 DEF NothingSaid, graphVars, View
    <3>6. ViewGood(View') /\ Steady(nodes, nodes')
      BY <3>5 DEF Working, Steady
    <3> QED
      BY <3>1, <3>4, <3>5, <3>6
  <2>2. CASE RecordAttempt(part, t, "failed")
    <3> DEFINE a == Len(nodes) + 1
    <3>1. \E failed : Proceed([index |-> i + 1, previous |-> {a},
                               attempts |-> call.attempts \cup {a}, failed |-> failed])
      <4>1. \/ equivalent # {} /\ NothingSaid
            \/ Proceed([index |-> i + 1, previous |-> {a},
                        attempts |-> call.attempts \cup {a}, failed |-> call.failed \cup {a}])
        BY DEF FailedAttempt
      <4>2. ~NothingSaid
        <5>1. Len(nodes') = Len(nodes) + 1 /\ Len(nodes) \in Nat
          BY <2>2, SoundCall, AttemptAdvances, Length DEF RecordAttempt, Advanced, GoodNodes
        <5> QED
          BY <5>1 DEF NothingSaid, graphVars
      <4> QED
        BY <4>1, <4>2
    <3>2. \A r \in results : r.op = call.input.op => r.part # part
      <4> HIDE DEF part
      <4> QED
        BY <1>0, <1>3, <1>4
    <3> HIDE DEF part, t
    <3>3. /\ ViewGood(View') /\ Steady(nodes, nodes') /\ results \subseteq results'
          /\ \A r \in results' : r \in results \/ (r.op = call.input.op /\ r.part = part)
          /\ a \in DOMAIN nodes' /\ nodes'[a].data.outcome = "failed"
      BY <1>2, <1>3, <2>2, <3>2, Tries
    <3> HIDE DEF a
    <3> QED
      BY <3>1, <3>3
  <2> QED
    BY <2>1, <2>2 DEF FailedAttempt
<1> HIDE DEF part, i, t
<1>6. /\ CallFields \subseteq DOMAIN call' /\ saved' = saved /\ curations' = curations
      /\ call'.index = i + 1 /\ call'.attempts = call.attempts \cup {a}
      /\ \A f \in CallFields \ {"index", "attempts"} : call'[f] = call[f]
  BY <1>0, <1>5, Proceeds DEF CallFields
<1>7. /\ call'.input = call.input /\ call'.case = call.case /\ call'.checkpoint = call.checkpoint
      /\ call'.problem = call.problem /\ call'.at = "failed" /\ call'.failedIds = call.failedIds
  BY <1>0, <1>6 DEF CallFields
<1>8. Called(call')
  BY <1>0, <1>6, <1>7 DEF InHand, Called, IsFinal
<1>9. RowsBy(call', results')
  <2>1. i \in Nat /\ i < i + 1 /\ \A j \in Nat : j < i => j < i + 1
    BY <1>0
  <2>2. ASSUME NEW r \in results', r.op = call.input.op
        PROVE  /\ r.part[1] \in {"problem", "failed-attempt"}
               /\ r.part[1] = "failed-attempt" => r.part[2] \in Nat /\ r.part[2] < i + 1
    <3>1. CASE r.part = part
      BY <1>3, <2>1, <3>1
    <3>2. CASE r \in results
      BY <1>0, <1>4, <2>2, <3>2
    <3> QED
      BY <1>5, <2>2, <3>1, <3>2
  <2> QED
    BY <1>6, <1>7, <2>2 DEF RowsBy, PartsBy
<1>10. Loaded(call', results')
  <2>1. Loaded(call, results')
    BY <1>0, <1>5, LoadedStays DEF InHand
  <2> QED
    BY <1>0, <1>7, <2>1 DEF Loaded, IsFinal
<1>11. Reusing(call')
  BY <1>0, <1>6, <1>7 DEF InHand, Reusing, IsFinal
<1>12. Proving(call', nodes')
  <2>1. Proving(call, nodes')
    BY <1>0, <1>5, ProvingStays DEF InHand
  <2>2. /\ call.attempts \subseteq DOMAIN nodes'
        /\ \A x \in Ended(call.attempts, "succeeded", nodes') :
              call.checkpoint.recorded /\ x \in call.checkpoint.attempts
    BY <1>0, <1>1, <2>1 DEF Proving
  <2>3. /\ Ended(call.attempts \cup {a}, "failed", nodes') = Ended(call.attempts, "failed", nodes') \cup {a}
        /\ Ended(call.attempts \cup {a}, "succeeded", nodes') = Ended(call.attempts, "succeeded", nodes')
    <3>1. nodes'[a].data.outcome = "failed" /\ a \in DOMAIN nodes' /\ call.attempts \subseteq DOMAIN nodes'
      BY <1>5, <2>2
    <3> QED
      BY <3>1 DEF Ended
  <2>4. call.attempts \cup {a} \subseteq DOMAIN nodes'
    BY <1>5, <2>2
  <2>5. call.input.outcome # "succeeded" => Attested(call.attempts \cup {a}, call.input.outcome, nodes')
    BY <1>2, <2>3, <2>4 DEF Attested
  <2> QED
    BY <1>6, <1>7, <2>2, <2>3, <2>4, <2>5 DEF Proving
<1> QED
  BY <1>5, <1>6, <1>8, <1>9, <1>10, <1>11, <1>12 DEF InHand

LEMMA SucceededAttemptOn ==
    ASSUME Working, SucceededAttempt
    PROVE  ViewGood(View') /\ InHand(call', results', nodes') /\ saved' = saved /\ curations' = curations
<1> DEFINE t == call.input.text
           part == <<"succeeded-attempt", 0>>
           equivalent == EquivalentAttempts(t, "succeeded")
           known == \E a \in CheckpointAttempts : OutcomeOf(a) = "succeeded"
           done == call.input.outcome # "succeeded" \/ known
           n == Len(nodes) + 1
<1>0. /\ CallFields \subseteq DOMAIN call /\ InHand(call, results, nodes) /\ call.at = "failed"
      /\ KindAt(call.at, call.input.kind) /\ call.input \in Inputs /\ call.index \in Nat \ {0}
      /\ call.index > Len(call.input.failedAttempts) /\ GoodNodes(nodes)
  BY SoundCall DEF Working, InHand, Called, SucceededAttempt
<1>1. IsFinal(call)
  BY <1>0 DEF KindAt, IsFinal
<1>2. t \in Texts /\ call.input.outcome \in Outcomes /\ call.input.failedAttempts \in Seq(Texts)
  BY <1>0, <1>1, InputTyped DEF IsFinal
<1>3. part # Whole /\ part[1] = "succeeded-attempt"
  BY DEF Whole
<1>4. \A r \in results : r.op = call.input.op => r.part[1] \in {"problem", "failed-attempt"}
  BY <1>0 DEF InHand, RowsBy, PartsBy
<1>5. PICK A : /\ ViewGood(View') /\ Steady(nodes, nodes') /\ results \subseteq results'
               /\ \A r \in results' : r \in results \/ (r.op = call.input.op /\ r.part = part)
               /\ Proceed([at |-> "root", attempts |-> call.attempts \cup A])
               /\ \/ done /\ A = {}
                  \/ ~done /\ \E a \in DOMAIN nodes' : A = {a} /\ nodes'[a].data.outcome = "succeeded"
  <2>1. NothingSaid => ViewGood(View') /\ Steady(nodes, nodes') /\ results' = results /\ nodes' = nodes
    <3>1. NothingSaid => View' = View /\ nodes' = nodes /\ results' = results
      BY DEF NothingSaid, graphVars, View
    <3> QED
      BY <3>1 DEF Working, Steady
  <2>2. CASE done /\ NothingSaid /\ Proceed([at |-> "root", attempts |-> call.attempts \cup {}])
    <3> HIDE DEF done, part
    <3> QED
      BY <2>1, <2>2
  <2>3. CASE /\ ~done /\ equivalent # {} /\ NothingSaid
             /\ Proceed([at |-> "root", attempts |-> call.attempts \cup {Graph!Newest(equivalent)}])
    <3> DEFINE a == Graph!Newest(equivalent)
    <3>1. equivalent \subseteq DOMAIN nodes
      BY DEF EquivalentAttempts, Graph!OfType
    <3>2. a \in equivalent
      <4> HIDE DEF equivalent
      <4> QED
        BY <1>0, <2>3, <3>1, NewestOf
    <3>3. Proceed([at |-> "root", attempts |-> call.attempts \cup {a}])
      BY <2>3
    <3> HIDE DEF a
    <3>4. a \in DOMAIN nodes /\ nodes[a].data.outcome = "succeeded"
      BY <3>2 DEF EquivalentAttempts, Graph!OfType, OutcomeOf
    <3> HIDE DEF done, part, equivalent
    <3> QED
      BY <2>1, <2>3, <3>3, <3>4
  <2>4. CASE /\ ~done /\ RecordAttempt(part, t, "succeeded")
             /\ Proceed([at |-> "root", attempts |-> call.attempts \cup {n}])
    <3>1. \A r \in results : r.op = call.input.op => r.part # part
      BY <1>3, <1>4
    <3> HIDE DEF done, part, t
    <3>2. /\ ViewGood(View') /\ Steady(nodes, nodes') /\ results \subseteq results'
          /\ \A r \in results' : r \in results \/ (r.op = call.input.op /\ r.part = part)
          /\ n \in DOMAIN nodes' /\ nodes'[n].data.outcome = "succeeded"
      BY <1>2, <1>3, <2>4, <3>1, Tries
    <3> HIDE DEF n
    <3> QED
      BY <2>4, <3>2
  <2> QED
    BY <2>2, <2>3, <2>4 DEF SucceededAttempt
<1> HIDE DEF part, t, equivalent, n
<1>6. /\ CallFields \subseteq DOMAIN call' /\ saved' = saved /\ curations' = curations
      /\ call'.at = "root" /\ call'.attempts = call.attempts \cup A
      /\ \A f \in CallFields \ {"at", "attempts"} : call'[f] = call[f]
  BY <1>0, <1>5, Proceeds DEF CallFields
<1>7. /\ call'.input = call.input /\ call'.case = call.case /\ call'.checkpoint = call.checkpoint
      /\ call'.problem = call.problem /\ call'.failedIds = call.failedIds /\ call'.index = call.index
  BY <1>0, <1>6 DEF CallFields
<1>8. Called(call')
  BY <1>0, <1>6, <1>7 DEF InHand, Called, IsFinal
<1>9. RowsBy(call', results')
  BY <1>3, <1>4, <1>5, <1>6, <1>7 DEF RowsBy, PartsBy
<1>10. Loaded(call', results')
  <2>1. Loaded(call, results')
    BY <1>0, <1>5, LoadedStays DEF InHand
  <2> QED
    BY <1>0, <1>6, <1>7, <2>1 DEF Loaded, IsFinal
<1>11. Reusing(call')
  BY <1>0, <1>1, <1>6, <1>7 DEF InHand, Reusing, IsFinal
<1>12. Attested(call.attempts \cup A, call.input.outcome, nodes')
  <2>1. Proving(call, nodes')
    BY <1>0, <1>5, ProvingStays DEF InHand
  <2>2. /\ call.attempts \subseteq DOMAIN nodes' /\ call.attempts \subseteq DOMAIN nodes
        /\ \A x \in Ended(call.attempts, "succeeded", nodes') :
              call.checkpoint.recorded /\ x \in call.checkpoint.attempts
    BY <1>0, <1>1, <2>1 DEF Proving, InHand
  <2>3. /\ \A a \in CheckpointAttempts : call.checkpoint.recorded /\ call.checkpoint.attempts = {a}
        /\ call.checkpoint.recorded => CheckpointAttempts = call.checkpoint.attempts
    BY <1>0, <1>1, CheckpointKnown
  <2>4. call.checkpoint.recorded => call.checkpoint.attempts \subseteq call.attempts
    BY <1>0, <1>1 DEF InHand, Reusing
  <2>5. CASE call.input.outcome # "succeeded"
    <3>1. A = {}
      BY <1>5, <2>5
    <3>2. ~(call.index = 1 /\ call.input.failedAttempts # <<>>)
      <4>1. call.input.failedAttempts # <<>> => Len(call.input.failedAttempts) >= 1
        BY <1>2, EmptySeq
      <4>2. Len(call.input.failedAttempts) \in Nat
        BY <1>2
      <4> QED
        BY <1>0, <4>1, <4>2
    <3>3. Attested(call.attempts, call.input.outcome, nodes')
      BY <1>0, <1>1, <2>1, <2>5, <3>2 DEF Proving
    <3>4. call.attempts \cup A = call.attempts
      BY <3>1
    <3> QED
      BY <3>3, <3>4
  <2>6. CASE call.input.outcome = "succeeded" /\ known
    <3>1. PICK a \in CheckpointAttempts : OutcomeOf(a) = "succeeded"
      BY <2>6
    <3>2. A = {} /\ call.checkpoint.attempts = {a} /\ a \in call.attempts
      BY <1>5, <2>3, <2>4, <2>6, <3>1
    <3>3. nodes'[a].data.outcome = "succeeded"
      BY <1>5, <2>2, <3>1, <3>2 DEF OutcomeOf, Steady
    <3>4. Ended(call.attempts \cup A, "succeeded", nodes') = {a}
      BY <2>2, <3>2, <3>3 DEF Ended
    <3> QED
      BY <2>2, <2>6, <3>2, <3>4 DEF Attested
  <2>7. CASE call.input.outcome = "succeeded" /\ ~known
    <3>1. PICK a \in DOMAIN nodes' : A = {a} /\ nodes'[a].data.outcome = "succeeded"
      BY <1>5, <2>7
    <3>2. Ended(call.attempts, "succeeded", nodes') = {}
      <4>1. ASSUME NEW x \in Ended(call.attempts, "succeeded", nodes')
            PROVE  FALSE
        <5>1. x \in CheckpointAttempts
          BY <2>2, <2>3, <4>1
        <5>2. nodes[x].data.outcome = "succeeded"
          BY <1>5, <2>2, <4>1 DEF Ended, Steady
        <5> QED
          BY <2>7, <5>1, <5>2 DEF OutcomeOf
      <4> QED
        BY <4>1
    <3>3. Ended(call.attempts \cup A, "succeeded", nodes') = {a}
      BY <3>1, <3>2 DEF Ended
    <3> QED
      BY <2>2, <2>7, <3>1, <3>3 DEF Attested
  <2> QED
    BY <2>5, <2>6, <2>7
<1>13. Proving(call', nodes')
  BY <1>6, <1>7, <1>12 DEF Proving
<1> QED
  BY <1>5, <1>6, <1>8, <1>9, <1>10, <1>11, <1>13 DEF InHand

LEMMA RootCauseOn ==
    ASSUME Working, RootCause
    PROVE  ViewGood(View') /\ InHand(call', results', nodes') /\ saved' = saved /\ curations' = curations
<1> DEFINE part == <<"root-cause", 0>>
           checkpointed == IF call.input.kind = "finalize_work" THEN CheckpointNode("root") ELSE NoNode
<1>0. /\ CallFields \subseteq DOMAIN call /\ InHand(call, results, nodes) /\ call.at = "root"
      /\ KindAt(call.at, call.input.kind) /\ call.input \in Inputs
  BY SoundCall DEF Working, InHand, Called, RootCause
<1>1. call.input.root \in Texts \cup {NoText}
  BY <1>0, InputTyped DEF KindAt
<1>2. part # Whole /\ part[1] = "root-cause"
  BY DEF Whole
<1>3. \A r \in results : r.op = call.input.op =>
         r.part[1] \in {"problem", "attempt", "failed-attempt", "succeeded-attempt"}
  BY <1>0 DEF InHand, RowsBy, PartsBy
<1>4. PICK root : /\ ViewGood(View') /\ Steady(nodes, nodes') /\ results \subseteq results'
                  /\ \A r \in results' : r \in results \/ (r.op = call.input.op /\ r.part = part)
                  /\ Proceed([at |-> "solution", root |-> root])
                  /\ NoNode \notin {checkpointed, root} => root = checkpointed
  <2>1. NothingSaid => ViewGood(View') /\ Steady(nodes, nodes') /\ results' = results
    <3>1. NothingSaid => View' = View /\ nodes' = nodes /\ results' = results
      BY DEF NothingSaid, graphVars, View
    <3> QED
      BY <3>1 DEF Working, Steady
  <2>2. CASE AfterRoot(NoNode) /\ NothingSaid
    <3> HIDE DEF checkpointed, part
    <3> QED
      BY <2>1, <2>2 DEF AfterRoot
  <2>3. CASE /\ edges' = edges \cup Linked(checkpointed) /\ AfterRoot(checkpointed)
             /\ UNCHANGED <<cases, nodes, proposals, applied, supersessions, published, text, results>>
    <3> HIDE DEF checkpointed, part
    <3>1. \A e \in edges' \ edges : ~Trying(e)
      BY <2>3 DEF Linked, Trying
    <3>2. Advanced(0) /\ text' = text /\ results' = results
      BY <2>3, <3>1, SoundCall, NothingAdvances
    <3>3. ViewGood(View')
      BY <3>2, QuietStep DEF Working
    <3> QED
      BY <2>3, <3>2, <3>3 DEF AfterRoot, Advanced
  <2>4. CASE checkpointed = NoNode /\ NothingSaid /\ \E root : AfterRoot(root)
    <3> HIDE DEF checkpointed, part
    <3> QED
      BY <2>1, <2>4 DEF AfterRoot
  <2>5. CASE checkpointed = NoNode /\ call.input.root # NoText /\ NewRootCause
    <3>1. /\ \E status : Graph!RecordRootCause(call.case, call.problem, call.failed, status)
          /\ Said(part, "record_root_cause", call.input.root) /\ AfterRoot(Len(nodes) + 1)
      BY <2>5 DEF NewRootCause, NewRootCauseAs
    <3>2. Advanced(1)
      BY <3>1, SoundCall, RootCauseAdvances
    <3>3. call.input.root \in Texts
      BY <1>1, <2>5
    <3>4. \A r \in results : r.op = call.input.op => r.part # part
      BY <1>2, <1>3
    <3> HIDE DEF part, checkpointed
    <3>5. /\ ViewGood(View') /\ Steady(nodes, nodes') /\ results \subseteq results'
          /\ \A r \in results' : r \in results \/ (r.op = call.input.op /\ r.part = part)
      BY <1>2, <3>1, <3>2, <3>3, <3>4, Speaks
    <3> QED
      BY <2>5, <3>1, <3>5 DEF AfterRoot
  <2> QED
    BY <2>2, <2>3, <2>4, <2>5 DEF RootCause
<1> HIDE DEF part
<1>5. /\ CallFields \subseteq DOMAIN call' /\ saved' = saved /\ curations' = curations
      /\ call'.at = "solution" /\ call'.root = root
      /\ \A f \in CallFields \ {"at", "root"} : call'[f] = call[f]
  BY <1>0, <1>4, Proceeds DEF CallFields
<1>6. /\ call'.input = call.input /\ call'.case = call.case /\ call'.checkpoint = call.checkpoint
      /\ call'.problem = call.problem /\ call'.failedIds = call.failedIds /\ call'.index = call.index
      /\ call'.attempts = call.attempts
  BY <1>0, <1>5 DEF CallFields
<1>7. Called(call')
  BY <1>0, <1>5, <1>6 DEF InHand, Called, IsFinal
<1>8. RowsBy(call', results')
  BY <1>2, <1>3, <1>4, <1>5, <1>6 DEF RowsBy, PartsBy
<1>9. Loaded(call', results')
  <2>1. Loaded(call, results')
    BY <1>0, <1>4, LoadedStays DEF InHand
  <2> QED
    BY <1>0, <1>5, <1>6, <2>1 DEF Loaded, IsFinal
<1>10. Reusing(call')
  <2>1. IsFinal(call) /\ call.checkpoint.recorded => checkpointed = call.checkpoint.root
    BY DEF IsFinal, CheckpointNode
  <2> HIDE DEF checkpointed
  <2> QED
    BY <1>0, <1>4, <1>5, <1>6, <2>1 DEF InHand, Reusing, IsFinal
<1>11. Proving(call', nodes')
  <2>1. Proving(call, nodes')
    BY <1>0, <1>4, ProvingStays DEF InHand
  <2> QED
    BY <1>0, <1>5, <1>6, <2>1 DEF Proving, IsFinal
<1> QED
  BY <1>4, <1>5, <1>7, <1>8, <1>9, <1>10, <1>11 DEF InHand

LEMMA SolutionOn ==
    ASSUME Working, Solution
    PROVE  ViewGood(View') /\ InHand(call', results', nodes') /\ saved' = saved /\ curations' = curations
<1> DEFINE part == <<"solution", 0>>
           checkpointed == IF call.input.kind = "finalize_work" THEN CheckpointNode("solution") ELSE NoNode
           at == IF call.input.kind = "checkpoint_work" THEN "store" ELSE "verify"
<1>0. /\ CallFields \subseteq DOMAIN call /\ InHand(call, results, nodes) /\ call.at = "solution"
      /\ KindAt(call.at, call.input.kind) /\ call.input \in Inputs
  BY SoundCall DEF Working, InHand, Called, Solution
<1>1. call.input.solution \in Texts \cup {NoText}
  BY <1>0, InputTyped DEF KindAt
<1>2. part # Whole /\ part[1] = "solution"
  BY DEF Whole
<1>3. \A r \in results : r.op = call.input.op =>
         r.part[1] \in {"problem", "attempt", "failed-attempt", "succeeded-attempt", "root-cause"}
  BY <1>0 DEF InHand, RowsBy, PartsBy
<1>4. PICK solution : /\ ViewGood(View') /\ Steady(nodes, nodes') /\ results \subseteq results'
                      /\ \A r \in results' : r \in results \/ (r.op = call.input.op /\ r.part = part)
                      /\ Proceed([at |-> at, solution |-> solution, index |-> 1])
                      /\ NoNode \notin {checkpointed, solution} => solution = checkpointed
  <2>1. NothingSaid => ViewGood(View') /\ Steady(nodes, nodes') /\ results' = results
    <3>1. NothingSaid => View' = View /\ nodes' = nodes /\ results' = results
      BY DEF NothingSaid, graphVars, View
    <3> QED
      BY <3>1 DEF Working, Steady
  <2>2. CASE AfterSolution(NoNode) /\ NothingSaid
    <3> HIDE DEF checkpointed, part
    <3> QED
      BY <2>1, <2>2 DEF AfterSolution
  <2>3. CASE AfterSolution(checkpointed) /\ NothingSaid
    <3> HIDE DEF checkpointed, part
    <3> QED
      BY <2>1, <2>3 DEF AfterSolution
  <2>4. CASE checkpointed = NoNode /\ NothingSaid /\ \E solution : AfterSolution(solution)
    <3> HIDE DEF checkpointed, part
    <3> QED
      BY <2>1, <2>4 DEF AfterSolution
  <2>5. CASE /\ checkpointed = NoNode /\ call.input.solution # NoText
             /\ \E data : Graph!RecordSolution(call.case, call.root, data)
             /\ Said(part, "record_solution", call.input.solution) /\ AfterSolution(Len(nodes) + 1)
    <3>1. Advanced(1)
      BY <2>5, SoundCall, SolutionAdvances
    <3>2. call.input.solution \in Texts
      BY <1>1, <2>5
    <3>3. \A r \in results : r.op = call.input.op => r.part # part
      BY <1>2, <1>3
    <3> HIDE DEF part, checkpointed
    <3>4. /\ ViewGood(View') /\ Steady(nodes, nodes') /\ results \subseteq results'
          /\ \A r \in results' : r \in results \/ (r.op = call.input.op /\ r.part = part)
      BY <1>2, <2>5, <3>1, <3>2, <3>3, Speaks
    <3> QED
      BY <2>5, <3>4 DEF AfterSolution
  <2> QED
    BY <2>2, <2>3, <2>4, <2>5 DEF Solution
<1> HIDE DEF part
<1>5. /\ CallFields \subseteq DOMAIN call' /\ saved' = saved /\ curations' = curations
      /\ call'.at = at /\ call'.solution = solution /\ call'.index = 1
      /\ \A f \in CallFields \ {"at", "solution", "index"} : call'[f] = call[f]
  BY <1>0, <1>4, Proceeds DEF CallFields
<1>6. /\ call'.input = call.input /\ call'.case = call.case /\ call'.checkpoint = call.checkpoint
      /\ call'.problem = call.problem /\ call'.failedIds = call.failedIds /\ call'.root = call.root
      /\ call'.attempts = call.attempts /\ call'.verifications = call.verifications
  BY <1>0, <1>5 DEF CallFields
<1>7. Called(call')
  BY <1>0, <1>5, <1>6 DEF InHand, Called, IsFinal
<1>8. RowsBy(call', results')
  <2>1. ASSUME NEW r \in results', r.op = call.input.op
        PROVE  r.part[1] \in {"problem", "attempt", "failed-attempt", "succeeded-attempt", "root-cause", "solution"}
    BY <1>2, <1>3, <1>4, <2>1
  <2>2. call'.at \in {"store", "verify"}
    BY <1>5
  <2> QED
    BY <1>6, <2>1, <2>2 DEF RowsBy, PartsBy
<1>9. Loaded(call', results')
  <2>1. Loaded(call, results')
    BY <1>0, <1>4, LoadedStays DEF InHand
  <2> QED
    BY <1>0, <1>5, <1>6, <2>1 DEF Loaded, IsFinal
<1>10. Reusing(call')
  <2>1. IsFinal(call) /\ call.checkpoint.recorded => checkpointed = call.checkpoint.solution
    BY DEF IsFinal, CheckpointNode
  <2> HIDE DEF checkpointed
  <2> QED
    BY <1>0, <1>4, <1>5, <1>6, <2>1 DEF InHand, Reusing, IsFinal
<1>11. Proving(call', nodes')
  <2>1. Proving(call, nodes')
    BY <1>0, <1>4, ProvingStays DEF InHand
  <2>2. IsFinal(call) => call'.at = "verify"
    BY <1>5 DEF IsFinal
  <2>3. \A j \in DOMAIN call.input.verifications : IsFinal(call) => ~(j < 1)
    BY <1>0, InputTyped DEF IsFinal
  <2> QED
    BY <1>0, <1>5, <1>6, <2>1, <2>2, <2>3 DEF Proving, IsFinal
<1> QED
  BY <1>4, <1>5, <1>7, <1>8, <1>9, <1>10, <1>11 DEF InHand

LEMMA VerifyOn ==
    ASSUME Working, Verify
    PROVE  ViewGood(View') /\ InHand(call', results', nodes') /\ saved' = saved /\ curations' = curations
<1> DEFINE i == call.index
           part == <<"verification", i>>
           n == Len(nodes) + 1
<1>0. /\ CallFields \subseteq DOMAIN call /\ InHand(call, results, nodes) /\ call.at = "verify"
      /\ IsFinal(call) /\ call.input \in Inputs /\ i \in Nat \ {0}
  BY SoundCall DEF Working, InHand, Called, Verify, KindAt, IsFinal
<1>1. call.input.text \in Texts /\ call.input.verifications \in Seq(VerificationData)
  BY <1>0, InputTyped DEF IsFinal
<1>2. part # Whole /\ part[1] = "verification" /\ part[2] = i
  BY DEF Whole
<1>3. \A r \in results : r.op = call.input.op =>
         /\ r.part[1] \in PartsBy("verify")
         /\ r.part[1] = "verification" => r.part[2] \in Nat /\ r.part[2] < i
  BY <1>0 DEF InHand, RowsBy
<1>4. /\ Graph!RecordVerification(call.case, call.solution, call.input.verifications[i])
      /\ Said(part, "record_verification", call.input.text)
      /\ Proceed([index |-> i + 1, verifications |-> call.verifications \cup {n}])
  BY DEF Verify
<1>5. /\ Advanced(1) /\ n \in DOMAIN nodes' /\ nodes'[n].type = "Verification"
      /\ call.input.verifications[i].succeeded => nodes'[n].status = "verified"
  BY <1>4, SoundCall, VerificationAdvances
<1> HIDE DEF part, n
<1>6. \A r \in results : r.op = call.input.op => r.part # part
  <2>1. SUFFICES ASSUME NEW r \in results, r.op = call.input.op, r.part = part
                 PROVE  FALSE
    OBVIOUS
  <2>2. r.part[1] = "verification" /\ r.part[2] = i
    BY <1>2, <2>1
  <2> QED
    BY <1>0, <1>3, <2>1, <2>2
<1>7. /\ ViewGood(View') /\ Steady(nodes, nodes') /\ results \subseteq results'
      /\ \A r \in results' : r \in results \/ (r.op = call.input.op /\ r.part = part)
  BY <1>1, <1>2, <1>4, <1>5, <1>6, Speaks
<1>8. /\ CallFields \subseteq DOMAIN call' /\ saved' = saved /\ curations' = curations
      /\ call'.index = i + 1 /\ call'.verifications = call.verifications \cup {n}
      /\ \A f \in CallFields \ {"index", "verifications"} : call'[f] = call[f]
  BY <1>0, <1>4, Proceeds DEF CallFields
<1>9. /\ call'.input = call.input /\ call'.case = call.case /\ call'.checkpoint = call.checkpoint
      /\ call'.problem = call.problem /\ call'.failedIds = call.failedIds /\ call'.root = call.root
      /\ call'.attempts = call.attempts /\ call'.solution = call.solution /\ call'.at = call.at
  BY <1>0, <1>8 DEF CallFields
<1>10. Called(call')
  BY <1>0, <1>8, <1>9 DEF InHand, Called, IsFinal
<1>11. RowsBy(call', results')
  <2>1. ASSUME NEW r \in results', r.op = call.input.op
        PROVE  /\ r.part[1] \in PartsBy("verify")
               /\ r.part[1] = "verification" => r.part[2] \in Nat /\ r.part[2] < i + 1
    <3>1. CASE r \in results
      BY <1>0, <1>3, <2>1, <3>1
    <3>2. CASE r.part = part
      <4>1. r.part[1] = "verification" /\ r.part[2] = i
        BY <1>2, <3>2
      <4> QED
        BY <1>0, <4>1 DEF PartsBy
    <3> QED
      BY <1>7, <2>1, <3>1, <3>2
  <2> QED
    BY <1>0, <1>8, <1>9, <2>1 DEF RowsBy
<1>12. Loaded(call', results')
  <2>1. Loaded(call, results')
    BY <1>0, <1>7, LoadedStays DEF InHand
  <2> QED
    BY <1>0, <1>9, <2>1 DEF Loaded, IsFinal
<1>13. Reusing(call')
  BY <1>0, <1>9 DEF InHand, Reusing, IsFinal
<1>14. Proving(call', nodes')
  <2>1. Proving(call, nodes')
    BY <1>0, <1>7, ProvingStays DEF InHand
  <2>2. ASSUME NEW j \in DOMAIN call.input.verifications, j < i + 1, call.input.verifications[j].succeeded
        PROVE  Passed(call'.verifications, nodes')
    <3>1. j \in Nat
      BY <1>1
    <3>2. CASE j < i
      <4>1. Passed(call.verifications, nodes')
        BY <1>0, <2>1, <2>2, <3>2 DEF Proving
      <4> QED
        BY <1>8, <4>1 DEF Passed
    <3>3. CASE j = i
      <4>1. n \in call'.verifications
        BY <1>8
      <4> QED
        BY <1>5, <2>2, <3>3, <4>1 DEF Passed
    <3> QED
      BY <1>0, <2>2, <3>1, <3>2, <3>3
  <2>3. Attested(call'.attempts, call'.input.outcome, nodes')
    BY <1>0, <1>9, <2>1 DEF Proving
  <2> QED
    BY <1>0, <1>8, <1>9, <2>2, <2>3 DEF Proving, IsFinal
<1> QED
  BY <1>7, <1>8, <1>10, <1>11, <1>12, <1>13, <1>14 DEF InHand

LEMMA BatchDoneOn ==
    ASSUME Working, BatchDone
    PROVE  ViewGood(View') /\ InHand(call', results', nodes') /\ saved' = saved /\ curations' = curations
<1>0. /\ CallFields \subseteq DOMAIN call /\ InHand(call, results, nodes) /\ call.at = "batch"
      /\ call.input.kind = "record_checkpoint"
  BY SoundCall DEF Working, InHand, Called, BatchDone, KindAt
<1>1. Proceed([at |-> "store"])
  BY DEF BatchDone
<1>2. View' = View /\ results' = results /\ nodes' = nodes
  BY DEF BatchDone, NothingSaid, graphVars, View
<1>3. /\ CallFields \subseteq DOMAIN call' /\ saved' = saved /\ curations' = curations
      /\ call'.at = "store" /\ \A f \in CallFields \ {"at"} : call'[f] = call[f]
  BY <1>0, <1>1, Proceeds DEF CallFields
<1>4. call'.input = call.input /\ call'.index = call.index /\ call'.failedIds = call.failedIds
  BY <1>3 DEF CallFields
<1>5. Called(call')
  BY <1>0, <1>3, <1>4 DEF InHand, Called, IsFinal
<1>6. RowsBy(call', results')
  <2>1. \A r \in results : r.op # call.input.op
    BY <1>0 DEF InHand, RowsBy, PartsBy
  <2> QED
    BY <1>2, <1>4, <2>1 DEF RowsBy
<1>7. Loaded(call', results') /\ Reusing(call') /\ Proving(call', nodes')
  BY <1>0, <1>3, <1>4 DEF Loaded, Reusing, Proving, IsFinal
<1>8. ViewGood(View')
  BY <1>2 DEF Working
<1> QED
  BY <1>3, <1>5, <1>6, <1>7, <1>8 DEF InHand

(* A record_checkpoint keeps no row but its result.                         *)
LEMMA BatchWriteOn ==
    ASSUME Working, BatchWrite
    PROVE  ViewGood(View') /\ InHand(call', results', nodes') /\ saved' = saved /\ curations' = curations
<1>0. /\ CallFields \subseteq DOMAIN call /\ InHand(call, results, nodes) /\ call.at = "batch"
      /\ call.input.kind = "record_checkpoint" /\ call.index \in Nat \ {0}
  BY SoundCall DEF Working, InHand, Called, BatchWrite, KindAt
<1>1. Proceed([index |-> call.index + 1]) /\ results' = results /\ Len(nodes') > Len(nodes)
  BY DEF BatchWrite
<1>2. Advanced(1)
  <2>1. CASE \E t, f : Graph!OpenCase(t, f)
    BY <2>1, SoundCall, OpeningAdvances
  <2>2. CASE \E c : Graph!Record(c)
    <3>1. Advanced(0) \/ Advanced(1)
      BY <2>2, SoundCall, RecordAdvances
    <3>2. ~Advanced(0)
      <4>1. Len(nodes) \in Nat
        BY SoundCall, Length DEF GoodNodes
      <4> QED
        BY <1>1, <4>1 DEF Advanced
    <3> QED
      BY <3>1, <3>2
  <2> QED
    BY <2>1, <2>2 DEF BatchWrite
<1>3. ViewGood(View')
  <2>1. PICK t \in PlainTexts : text' = Append(text, t)
    BY DEF BatchWrite
  <2>2. t \in Texts
    BY InputsAssumption
  <2> QED
    BY <1>1, <1>2, <2>1, <2>2, SpokenStep DEF Working
<1>4. /\ CallFields \subseteq DOMAIN call' /\ saved' = saved /\ curations' = curations
      /\ call'.index = call.index + 1 /\ \A f \in CallFields \ {"index"} : call'[f] = call[f]
  BY <1>0, <1>1, Proceeds DEF CallFields
<1>5. call'.input = call.input /\ call'.at = call.at /\ call'.failedIds = call.failedIds
  BY <1>4 DEF CallFields
<1>6. Called(call')
  BY <1>0, <1>4, <1>5 DEF InHand, Called, IsFinal
<1>7. RowsBy(call', results')
  <2>1. \A r \in results : r.op # call.input.op
    BY <1>0 DEF InHand, RowsBy, PartsBy
  <2> QED
    BY <1>1, <1>5, <2>1 DEF RowsBy
<1>8. Loaded(call', results') /\ Reusing(call') /\ Proving(call', nodes')
  BY <1>0, <1>5 DEF Loaded, Reusing, Proving, IsFinal
<1> QED
  BY <1>3, <1>4, <1>6, <1>7, <1>8 DEF InHand

(* The delivery Artifacts are new nodes of the Case that say what the call  *)
(* says.                                                                   *)
LEMMA DeliveryAdvances ==
    ASSUME Working, Deliver
    PROVE  /\ Steady(nodes, nodes') /\ Placed(nodes') /\ Worded(text', nodes')
           /\ OneProblem(nodes', edges') /\ edges \subseteq edges'
<1> DEFINE count == IF call.input.commit THEN 2 ELSE 1
           part == Graph!Node("Artifact", call.case, "candidate", Graph!NoData)
           parts == [i \in 1..count |-> part]
           words == [i \in 1..count |-> call.input.text]
<1>0. /\ CallFields \subseteq DOMAIN call /\ InHand(call, results, nodes) /\ call.at = "verify"
      /\ IsFinal(call) /\ call.input \in Inputs
      /\ GoodNodes(nodes) /\ Placed(nodes) /\ OneProblem(nodes, edges)
  BY SoundCall DEF Working, InHand, Called, Deliver, KindAt, IsFinal
<1>1. /\ nodes' = nodes \o parts /\ text' = text \o words
      /\ edges' = edges \cup {<<call.problem, "REFERENCES", n>> : n \in Len(nodes) + 1 .. Len(nodes) + count}
  BY DEF Deliver
<1>2. count \in Nat /\ part.case = call.case /\ call.case # 0
  BY <1>0 DEF Graph!Node, InHand, Reusing, IsFinal
<1>3. call.input.text \in Texts /\ Worded(text, nodes)
  BY <1>0, InputTyped, Fields DEF IsFinal, Working, ViewGood
<1>4. edges \subseteq edges' /\ \A e \in edges' \ edges : ~Trying(e)
  BY <1>1 DEF Trying
<1> HIDE DEF count, part
<1>5. /\ parts \in Seq({part}) /\ Len(parts) = count /\ \A i \in 1..count : parts[i] = part
      /\ words \in Seq({call.input.text}) /\ Len(words) = count
      /\ \A i \in 1..count : words[i] = call.input.text
  BY <1>2
<1> HIDE DEF parts, words
<1>6. /\ IsSeq(parts) /\ IsSeq(words) /\ IsSeq(nodes) /\ Len(nodes) \in Nat /\ DOMAIN nodes = 1..Len(nodes)
      /\ IsSeq(text) /\ Len(text) = Len(nodes) /\ DOMAIN text = 1..Len(nodes)
  BY <1>0, <1>3, <1>5, SequenceIsSeq, Length DEF GoodNodes, Worded
<1>7. /\ IsSeq(nodes') /\ DOMAIN nodes' = 1..Len(nodes) + count
      /\ \A i \in 1..Len(nodes) + count : nodes'[i] = IF i <= Len(nodes) THEN nodes[i] ELSE parts[i - Len(nodes)]
  BY <1>1, <1>5, <1>6, Concatenated
<1>8. /\ IsSeq(text') /\ DOMAIN text' = 1..Len(nodes) + count
      /\ \A i \in 1..Len(nodes) + count : text'[i] = IF i <= Len(nodes) THEN text[i] ELSE words[i - Len(nodes)]
  BY <1>1, <1>5, <1>6, Concatenated
<1>9. \A n \in DOMAIN nodes : n \in DOMAIN nodes' /\ nodes'[n] = nodes[n]
  BY <1>2, <1>6, <1>7
<1>10. \A n \in DOMAIN nodes' \ DOMAIN nodes : nodes'[n].case # 0
  BY <1>2, <1>5, <1>6, <1>7
<1>11. Steady(nodes, nodes')
  BY <1>9 DEF Steady
<1>12. Placed(nodes')
  BY <1>0, <1>9, <1>10 DEF Placed
<1>13. OneProblem(nodes', edges')
  BY <1>0, <1>4, <1>9 DEF OneProblem
<1>14. Worded(text', nodes')
  <2>1. \A i \in DOMAIN text' : text'[i] \in Texts
    BY <1>2, <1>3, <1>5, <1>6, <1>8 DEF Worded
  <2>2. Len(text') \in Nat /\ DOMAIN text' = 1..Len(text') /\ Len(nodes') \in Nat /\ DOMAIN nodes' = 1..Len(nodes')
    BY <1>7, <1>8, Length
  <2>3. Len(text') = Len(nodes) + count /\ Len(nodes') = Len(nodes) + count
    BY <1>2, <1>6, <1>7, <1>8, <2>2
  <2> QED
    BY <1>8, <2>1, <2>3 DEF Worded
<1> QED
  BY <1>4, <1>11, <1>12, <1>13, <1>14

LEMMA DeliverOn ==
    ASSUME Working, Deliver
    PROVE  ViewGood(View') /\ InHand(call', results', nodes') /\ saved' = saved /\ curations' = curations
<1>0. /\ CallFields \subseteq DOMAIN call /\ InHand(call, results, nodes) /\ call.at = "verify"
      /\ IsFinal(call) /\ call.input \in Inputs /\ call.index \in Nat
      /\ RowsGood(results, nodes, edges)
  BY SoundCall DEF Working, InHand, Called, Deliver, KindAt, IsFinal
<1>1. /\ results' = results /\ call.index > Len(call.input.verifications)
      /\ \E new : Proceed([at |-> "store", artifacts |-> new])
  BY DEF Deliver
<1>2. /\ Steady(nodes, nodes') /\ Placed(nodes') /\ Worded(text', nodes')
      /\ OneProblem(nodes', edges') /\ edges \subseteq edges'
  BY DeliveryAdvances
<1>3. ViewGood(View')
  <2>1. RowsGood(results', nodes', edges')
    BY <1>0, <1>1, <1>2, RowsStay
  <2> QED
    BY <1>2, <2>1, FieldsNext DEF ViewGood
<1>4. /\ CallFields \subseteq DOMAIN call' /\ saved' = saved /\ curations' = curations
      /\ call'.at = "store" /\ \A f \in CallFields \ {"at"} : call'[f] = call[f]
  BY <1>0, <1>1, Proceeds DEF CallFields
<1>5. /\ call'.input = call.input /\ call'.case = call.case /\ call'.checkpoint = call.checkpoint
      /\ call'.problem = call.problem /\ call'.failedIds = call.failedIds /\ call'.root = call.root
      /\ call'.attempts = call.attempts /\ call'.solution = call.solution
      /\ call'.verifications = call.verifications /\ call'.index = call.index
  BY <1>0, <1>4 DEF CallFields
<1>6. Called(call')
  BY <1>0, <1>4, <1>5 DEF InHand, Called, IsFinal
<1>7. RowsBy(call', results')
  BY <1>0, <1>1, <1>4, <1>5 DEF InHand, RowsBy, PartsBy
<1>8. Loaded(call', results')
  BY <1>0, <1>1, <1>4, <1>5 DEF InHand, Loaded, IsFinal
<1>9. Reusing(call')
  BY <1>0, <1>4, <1>5 DEF InHand, Reusing, IsFinal
<1>10. Proving(call', nodes')
  <2>1. Proving(call, nodes')
    BY <1>0, <1>2, ProvingStays DEF InHand
  <2>2. ASSUME call.input.outcome = "succeeded"
        PROVE  Passed(call.verifications, nodes')
    <3>1. PICK i \in DOMAIN call.input.verifications : call.input.verifications[i].succeeded
      BY <1>0, <2>2 DEF InHand, Called, ValidFinalize, AnyVerified
    <3>2. i \in Nat /\ i <= Len(call.input.verifications) /\ Len(call.input.verifications) \in Nat
      BY <1>0, InputTyped DEF IsFinal
    <3>3. i < call.index
      BY <1>0, <1>1, <3>2
    <3> QED
      BY <1>0, <2>1, <3>1, <3>3 DEF Proving
  <2> QED
    BY <1>0, <1>4, <1>5, <2>1, <2>2 DEF Proving, IsFinal
<1> QED
  BY <1>3, <1>4, <1>6, <1>7, <1>8, <1>9, <1>10 DEF InHand

LEMMA BeginOn ==
    ASSUME ViewGood(View), curations \in 0..MaxCurations,
           NEW input \in Inputs, NEW case, NEW failedIds, Begin(input, case, failedIds)
    PROVE  WorkInv'
<1>1. /\ saved' = <<View>> /\ curations' = curations
      /\ nodes' = nodes /\ results' = results /\ View' = View
  BY DEF Begin, graphVars, View
<1>2. /\ call' = [at |-> "lookup", input |-> input, case |-> case, failedIds |-> failedIds,
                  problem |-> NoNode, previous |-> {}, created |-> FALSE,
                  checkpoint |-> NoValue, attempts |-> {}, failed |-> {}, index |-> 1,
                  root |-> NoNode, solution |-> NoNode, verifications |-> {}, artifacts |-> {}]
      /\ input.kind = "finalize_work" => ValidFinalize(input, failedIds)
  BY DEF Begin
<1>3. /\ call'.at = "lookup" /\ call'.input = input /\ call'.failedIds = failedIds /\ call'.index = 1
      /\ call'.checkpoint = NoValue /\ CallFields \subseteq DOMAIN call'
  BY <1>2 DEF CallFields
<1>4. Called(call')
  BY <1>2, <1>3 DEF Called, IsFinal
<1>5. RowsBy(call', results') /\ Loaded(call', results') /\ Reusing(call') /\ Proving(call', nodes')
  BY <1>3 DEF RowsBy, Loaded, Reusing, Proving, NoValue
<1> QED
  BY <1>1, <1>4, <1>5 DEF WorkInv, InHand

(* The result of a call is the first row of its operation that is whole; it *)
(* reports what the call has in hand.                                       *)
LEMMA StoreOn ==
    ASSUME Working, Chaining, StoreOperation
    PROVE  ViewGood(View')
<1> DEFINE row == Row(Whole, call.input.kind, Value)
<1>0. /\ InHand(call, results, nodes) /\ call.at = "store" /\ call.input \in Inputs
      /\ RowsGood(results, nodes, edges) /\ ViewGood(View) /\ ChainIn(call, edges)
  BY SoundCall DEF Working, InHand, Called, StoreOperation, Chaining
<1>1. /\ cases' = cases /\ nodes' = nodes /\ edges' = edges /\ text' = text
      /\ results' = results \cup {row}
  BY DEF StoreOperation, graphVars
<1>2. row.op = call.input.op /\ row.part = Whole /\ row.kind = call.input.kind /\ row.value = Value
  BY DEF Row
<1>3. /\ Value.case = call.case /\ Value.problem = call.problem /\ Value.attempts = call.attempts
      /\ Value.root = call.root /\ Value.solution = call.solution
      /\ Value.verifications = call.verifications
      /\ IsFinal(call) => Value.outcome = call.input.outcome /\ Value.checkpoint = call.input.checkpoint
  BY DEF Value, IsFinal
<1> HIDE DEF row
<1>4. \A r \in results : r.op = row.op => r.part # row.part
  <2>1. "own" \notin PartsBy("store") /\ Whole[1] = "own"
    BY DEF PartsBy, Whole
  <2> QED
    BY <1>0, <1>2, <2>1 DEF InHand, RowsBy
<1>5. row.op \in Operations
  BY <1>0, <1>2, InputTyped
<1>6. row.kind = "checkpoint_work" => Checkpointed(row.value, edges)
  <2>1. SUFFICES ASSUME call.input.kind = "checkpoint_work"
                 PROVE  Checkpointed(Value, edges)
    BY <1>2
  <2>2. call.case # 0 /\ \E a : call.attempts = {a}
    BY <1>0, <2>1 DEF InHand, Reusing
  <2> QED
    BY <1>0, <1>3, <2>2 DEF ChainIn, Checkpointed
<1>7. row.kind = "finalize_work" => Carried(row.value, results) /\ Borne(row.value, nodes)
  <2>1. SUFFICES ASSUME IsFinal(call)
                 PROVE  Carried(Value, results) /\ Borne(Value, nodes)
    BY <1>2 DEF IsFinal
  <2>2. Borne(Value, nodes)
    <3>1. call.input.outcome \in Outcomes
      BY <1>0, <2>1, InputTyped DEF IsFinal
    <3> QED
      BY <1>0, <1>3, <2>1, <3>1 DEF InHand, Proving, Borne
  <2>3. CASE call.input.checkpoint = NoOperation
    BY <1>3, <2>1, <2>2, <2>3 DEF Carried
  <2>4. CASE call.input.checkpoint # NoOperation
    <3>1. PICK r \in results : /\ r.op = call.input.checkpoint /\ r.part = Whole
                               /\ r.value = call.checkpoint
                               /\ call.case = call.checkpoint.case /\ call.checkpoint.recorded
      BY <1>0, <2>1, <2>4 DEF InHand, Loaded
    <3>2. Carries(Value, r.value)
      BY <1>0, <1>3, <2>1, <3>1 DEF InHand, Reusing, Carries
    <3> QED
      BY <1>3, <2>1, <2>2, <3>1, <3>2 DEF Carried
  <2> QED
    BY <2>3, <2>4
<1>8. RowsGood(results', nodes', edges')
  BY <1>0, <1>1, <1>4, <1>5, <1>6, <1>7, RowAdded
<1> QED
  BY <1>0, <1>1, <1>8, Fields, FieldsNext DEF ViewGood

(* A routine success leaves nothing but its row.                            *)
LEMMA SkipOn ==
    ASSUME Working, SkipRoutineSuccess
    PROVE  ViewGood(View')
<1> DEFINE row == Row(Whole, call.input.kind, NoValue)
<1>0. /\ call.input \in Inputs /\ RowsGood(results, nodes, edges) /\ ViewGood(View)
      /\ \A r \in results : r.op # call.input.op
  BY SoundCall, NothingOfIt DEF Working, InHand, Called, SkipRoutineSuccess
<1>1. /\ cases' = cases /\ nodes' = nodes /\ edges' = edges /\ text' = text
      /\ results' = results \cup {row} /\ call.input.kind = "checkpoint_work"
  BY DEF SkipRoutineSuccess, graphVars
<1>2. /\ row.op = call.input.op /\ row.part = Whole /\ row.kind = call.input.kind
      /\ ~row.value.recorded
  BY DEF Row, NoValue
<1> HIDE DEF row
<1>3. row.op \in Operations
  BY <1>0, <1>2, InputTyped
<1>4. RowsGood(results', nodes', edges')
  BY <1>0, <1>1, <1>2, <1>3, RowAdded
<1> QED
  BY <1>0, <1>1, <1>4, Fields, FieldsNext DEF ViewGood

LEMMA WorkInit == Init => WorkInv
<1> SUFFICES ASSUME Init
             PROVE  WorkInv
  OBVIOUS
<1>1. /\ cases = <<>> /\ nodes = <<>> /\ edges = {} /\ text = <<>> /\ results = {}
      /\ saved = <<>> /\ call = NoCall /\ curations = 0
  BY DEF Init, Graph!Init
<1>2. DOMAIN <<>> = {} /\ <<>> \in Seq({})
  OBVIOUS
<1>3. ViewGood(View)
  BY <1>1, <1>2, Fields, SequenceIsSeq
     DEF ViewGood, Placed, OneProblem, Worded, RowsGood, OneRowEach
<1> QED
  BY <1>1, <1>3, InputsAssumption DEF WorkInv

LEMMA WorkStep ==
    ASSUME WholeInv, ChainInv, WorkInv, [Next]_vars
    PROVE  WorkInv'
<1> DEFINE Writing == \/ StartWork \/ LoadCheckpointWork \/ CaseAnchor \/ RecordProblem \/ CheckpointAttempt
                      \/ GatherEvidence \/ FailedAttempt \/ SucceededAttempt
                      \/ RootCause \/ Solution \/ Verify \/ Deliver \/ BatchWrite \/ BatchDone
<1>0. IsSeq(cases) /\ GoodNodes(nodes) /\ Sound
  <2>1. IsSeq(cases) /\ GoodNodes(nodes)
    BY Fields DEF WholeInv, Ongoing, Consistent
  <2> QED
    BY <2>1, SoundView DEF WorkInv
<1>1. CASE \E input \in Inputs, case \in {0} \cup DOMAIN cases, failedIds \in Named :
              Begin(input, case, failedIds)
  BY <1>1, BeginOn DEF WorkInv
<1>2. ASSUME call.at # "idle"
      PROVE  Working /\ Chaining /\ \E before : saved = <<before>> /\ ViewGood(before)
  BY <1>2 DEF WholeInv, ChainInv, WorkInv, Working, NoCall
<1>3. CASE Replay \/ SkipRoutineSuccess \/ StoreOperation \/ RollBack
  <2>1. call' = NoCall /\ saved' = <<>> /\ curations' = curations
    BY <1>3 DEF Replay, SkipRoutineSuccess, StoreOperation, RollBack, Release
  <2>2. call.at # "idle"
    <3>1. CASE RollBack
      BY <3>1 DEF RollBack, WholeInv, Ongoing
    <3> QED
      BY <1>3, <3>1 DEF Replay, SkipRoutineSuccess, StoreOperation
  <2>3. ViewGood(View')
    <3>1. CASE Replay
      <4>1. View' = View
        BY <3>1 DEF Replay, NothingSaid, graphVars, View
      <4> QED
        BY <4>1 DEF WorkInv
    <3>2. CASE RollBack
      <4>1. PICK before : saved = <<before>> /\ ViewGood(before)
        BY <1>2, <2>2
      <4>2. saved[1] = before
        BY <4>1
      <4>3. /\ nodes' = before.nodes /\ edges' = before.edges
            /\ text' = before.text /\ results' = before.results
        BY <3>2, <4>2 DEF RollBack
      <4> QED
        BY <4>1, <4>3, FieldsNext DEF ViewGood
    <3> QED
      BY <1>2, <1>3, <2>2, <3>1, <3>2, StoreOn, SkipOn
  <2> QED
    BY <2>1, <2>3 DEF WorkInv
<1>4. CASE Writing
  <2>1. call.at # "idle"
    BY <1>4 DEF StartWork, LoadCheckpointWork, CaseAnchor, RecordProblem, CheckpointAttempt,
                GatherEvidence, FailedAttempt, SucceededAttempt, RootCause, Solution, Verify,
                Deliver, BatchWrite, BatchDone
  <2>2. Working /\ \E before : saved = <<before>> /\ ViewGood(before)
    BY <1>2, <2>1
  <2>3. ViewGood(View') /\ InHand(call', results', nodes') /\ saved' = saved /\ curations' = curations
    BY <1>4, <2>2, StartWorkOn, LoadingOn, CaseAnchorOn, ProblemOn, CheckpointAttemptOn, GatheringOn,
       FailedAttemptOn, SucceededAttemptOn, RootCauseOn, SolutionOn, VerifyOn, DeliverOn,
       BatchWriteOn, BatchDoneOn
  <2> QED
    BY <2>2, <2>3 DEF WorkInv
<1>5. CASE Curation
  <2>1. /\ call = NoCall /\ call' = call /\ saved' = saved /\ text' = text /\ results' = results
        /\ curations < MaxCurations /\ curations' = curations + 1
    BY <1>5 DEF Curation
  <2>2. saved = <<>>
    BY <2>1 DEF WholeInv, Ongoing, NoCall
  <2>3. Advanced(0)
    BY <1>0, <1>5, CurationAdvances, ConfirmingAdvances DEF Curation
  <2>4. ViewGood(View')
    BY <2>1, <2>3, QuietStep DEF WorkInv
  <2>5. curations' \in 0..MaxCurations
    BY <2>1, InputsAssumption DEF WorkInv
  <2> QED
    BY <2>1, <2>2, <2>4, <2>5 DEF WorkInv
<1>6. CASE UNCHANGED vars
  <2>1. /\ call' = call /\ saved' = saved /\ View' = View /\ results' = results
        /\ nodes' = nodes /\ curations' = curations
    BY <1>6 DEF vars, graphVars, View
  <2> QED
    BY <2>1 DEF WorkInv
<1> QED
  BY <1>1, <1>3, <1>4, <1>5, <1>6 DEF Next

--------------------------------------------------------------------------------
(* What the rows that others see report *)

LEMMA DurableGood ==
    ASSUME WorkInv
    PROVE  RowsGood(Durable.results, Durable.nodes, Durable.edges)
<1>1. CASE saved = <<>>
  BY <1>1 DEF Durable, WorkInv, ViewGood
<1>2. CASE saved # <<>>
  <2>1. PICK before : saved = <<before>> /\ ViewGood(before)
    BY <1>2 DEF WorkInv
  <2>2. Durable = before
    BY <1>2, <2>1 DEF Durable
  <2> QED
    BY <2>1, <2>2 DEF ViewGood
<1> QED
  BY <1>1, <1>2

LEMMA TypesShown == WorkInv => TypeOK
<1> SUFFICES ASSUME WorkInv
             PROVE  TypeOK
  OBVIOUS
<1>1. Worded(text, nodes) /\ RowsGood(results, nodes, edges)
  BY Fields DEF WorkInv, ViewGood
<1>2. saved = <<>> <=> call = NoCall
  <2>1. InHand(call, results, nodes) => call # NoCall
    <3>1. "input" \notin DOMAIN NoCall
      BY DEF NoCall
    <3> QED
      BY <3>1 DEF InHand, Called, CallFields
  <2> QED
    BY <2>1 DEF WorkInv
<1> QED
  BY <1>1, <1>2 DEF WorkInv, TypeOK, Worded, RowsGood, OneRowEach

LEMMA CheckpointShown == WorkInv => CheckpointIsReused
<1> SUFFICES ASSUME WorkInv, NEW r \in Finalized, NEW c \in Own(Durable.results, r.value.checkpoint)
             PROVE  Carries(r.value, c.value)
  BY DEF CheckpointIsReused, Carries
<1>1. RowsGood(Durable.results, Durable.nodes, Durable.edges)
  BY DurableGood
<1>2. r \in Durable.results /\ Carried(r.value, Durable.results)
  BY <1>1 DEF Finalized, RowsGood
<1>3. c \in Durable.results /\ c.op = r.value.checkpoint /\ c.part = Whole /\ c.op \in Operations
  BY <1>1 DEF Own, RowsGood
<1>4. PICK named \in Durable.results : /\ named.op = r.value.checkpoint /\ named.part = Whole
                                       /\ Carries(r.value, named.value)
  BY <1>2, <1>3, InputsAssumption DEF Carried
<1>5. named = c
  BY <1>1, <1>3, <1>4 DEF RowsGood, OneRowEach
<1> QED
  BY <1>4, <1>5

LEMMA OutcomeShown == WorkInv => OutcomeSupported
<1> SUFFICES ASSUME WorkInv, NEW r \in Finalized
             PROVE  LET E(outcome) == {a \in r.value.attempts : Durable.nodes[a].data.outcome = outcome} IN
                    CASE r.value.outcome = "succeeded" ->
                            /\ Cardinality(E("succeeded")) = 1
                            /\ \E n \in r.value.verifications : Durable.nodes[n].status = "verified"
                      [] r.value.outcome = "failed" -> E("failed") # {}
                      [] OTHER -> E("failed") \cup E("inconclusive") # {}
  BY DEF OutcomeSupported
<1> DEFINE E(outcome) == {a \in r.value.attempts : Durable.nodes[a].data.outcome = outcome}
<1>1. \A outcome : E(outcome) = Ended(r.value.attempts, outcome, Durable.nodes)
  BY DEF Ended
<1>2. Borne(r.value, Durable.nodes)
  BY DurableGood DEF Finalized, RowsGood
<1> HIDE DEF E
<1>3. ASSUME r.value.outcome = "succeeded"
      PROVE  /\ Cardinality(E("succeeded")) = 1
             /\ \E n \in r.value.verifications : Durable.nodes[n].status = "verified"
  <2>1. PICK a : E("succeeded") = {a}
    BY <1>1, <1>2, <1>3 DEF Borne, Attested
  <2>2. Cardinality({a}) = 1
    BY FS_Singleton
  <2> QED
    BY <1>2, <1>3, <2>1, <2>2 DEF Borne, Passed
<1>4. r.value.outcome = "failed" => E("failed") # {}
  BY <1>1, <1>2 DEF Borne, Attested
<1>5. r.value.outcome \notin {"succeeded", "failed"} => E("failed") \cup E("inconclusive") # {}
  BY <1>1, <1>2 DEF Borne, Attested, Outcomes
<1>6. CASE r.value.outcome = "succeeded"
  BY <1>3, <1>6 DEF E
<1>7. CASE r.value.outcome = "failed"
  BY <1>4, <1>7 DEF E
<1>8. CASE r.value.outcome \notin {"succeeded", "failed"}
  BY <1>5, <1>8 DEF E
<1> QED
  BY <1>6, <1>7, <1>8

LEMMA WorkAlways == Spec => [](WholeInv /\ ChainInv /\ WorkInv)
<1>1. Init => WholeInv /\ ChainInv /\ WorkInv
  BY WholeInit, ChainInit, WorkInit
<1>2. WholeInv /\ ChainInv /\ WorkInv /\ [Next]_vars => (WholeInv /\ ChainInv /\ WorkInv)'
  BY WholeStep, ChainStep, WorkStep
<1> QED
  BY <1>1, <1>2, PTL DEF Spec

(* For any calls over any graph, every node says something, an operation    *)
(* has one row of each part (the primary key of operation_results), and a   *)
(* savepoint is open exactly while an aggregate runs.                       *)
THEOREM TypesCorrect == Spec => []TypeOK
<1>1. WholeInv /\ ChainInv /\ WorkInv => TypeOK
  BY TypesShown
<1> QED
  BY <1>1, WorkAlways, PTL

(* A final call that names a checkpoint reports its Case, its Problem, its  *)
(* Attempt and, where both have one, its RootCause and its Solution,        *)
(* whatever was recorded or curated between the two (load_checkpoint_work   *)
(* and finalize_work in write.rs).                                          *)
THEOREM CheckpointCorrect == Spec => []CheckpointIsReused
<1>1. WholeInv /\ ChainInv /\ WorkInv => CheckpointIsReused
  BY CheckpointShown
<1> QED
  BY <1>1, WorkAlways, PTL

(* The outcome a final call reports is borne out by its Attempts, and a     *)
(* success by exactly one Attempt that succeeded and a Verification that    *)
(* passed, whatever it reused and however the graph was curated since       *)
(* (finalize_work in write.rs and the reuse of equivalent Attempts).        *)
THEOREM OutcomeCorrect == Spec => []OutcomeSupported
<1>1. WholeInv /\ ChainInv /\ WorkInv => OutcomeSupported
  BY OutcomeShown
<1> QED
  BY <1>1, WorkAlways, PTL
================================================================================
