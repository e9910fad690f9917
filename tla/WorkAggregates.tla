----------------------------- MODULE WorkAggregates -----------------------------
(***************************************************************************)
(* The calls that write a whole piece of work at once: record_checkpoint,  *)
(* checkpoint_work and finalize_work.  Each opens an outer savepoint, makes *)
(* record calls under operation ids derived from its own, stores its       *)
(* result and releases the savepoint; an error at any statement, or a      *)
(* check that fails, takes everything back.                                *)
(*                                                                         *)
(* The graph variables are what the writing connection sees; the record    *)
(* calls are those of CaseLifecycle.                                       *)
(***************************************************************************)
EXTENDS Naturals, Sequences, FiniteSets

CONSTANTS
    Operations,        \* operation ids
    NoOperation,
    Inputs,            \* the aggregate calls callers make, see Checkpoints and Finals
    Texts,             \* what a node may say: two nodes are equal when it is
    PlainTexts,        \* bound: what the nodes of record_checkpoint say
    NoText,            \* an optional part that is left out
    MaxNamed,          \* bound: failedAttemptIds in one call
    MaxBatch,          \* bound: writes in a record_checkpoint, 25 in the code
    MaxCurations,      \* bound: single calls between aggregates
    Fingerprints, NoFingerprint, SolutionData, VerificationData,
    MaxCases, MaxNodes, Quota, MaxProposals      \* those of CaseLifecycle

VARIABLES
    cases, nodes, edges, proposals, applied, supersessions, published,
    text,       \* what each node says, apart from the data CaseLifecycle keeps
    results,    \* operation_results: [op, part, kind, value]
    saved,      \* the outer savepoint: <<>> or <<what it goes back to>>
    call,       \* the aggregate in progress, or NoCall
    curations   \* single calls made so far

graphVars == <<cases, nodes, edges, proposals, applied, supersessions, published>>
vars == <<graphVars, text, results, saved, call, curations>>

Graph == INSTANCE CaseLifecycle WITH Titles <- Texts

--------------------------------------------------------------------------------
(* Calls and their results *)

Outcomes == {"failed", "succeeded", "inconclusive"}
NoNode == 0

Checkpoints ==
    [kind : {"checkpoint_work"}, op : Operations, text : Texts, outcome : Outcomes,
     fingerprint : Fingerprints \cup {NoFingerprint}, root : Texts \cup {NoText},
     solution : Texts \cup {NoText}, humanConfirmed : BOOLEAN, routine : BOOLEAN]
Finals ==
    [kind : {"finalize_work"}, op : Operations, text : Texts, outcome : Outcomes,
     fingerprint : Fingerprints \cup {NoFingerprint}, root : Texts \cup {NoText},
     solution : Texts \cup {NoText}, checkpoint : Operations \cup {NoOperation},
     failedAttempts : Seq(Texts), verifications : Seq(VerificationData), commit : BOOLEAN]
Batches == [kind : {"record_checkpoint"}, op : Operations]

ASSUME InputsAssumption ==
    /\ NoOperation \notin Operations /\ NoText \notin Texts /\ PlainTexts \subseteq Texts
    /\ \A i \in Inputs : i \in Checkpoints \/ i \in Finals \/ i \in Batches
    /\ MaxNamed \in Nat /\ MaxBatch \in Nat /\ MaxCurations \in Nat

NoCall == [at |-> "idle"]
NoValue == [recorded |-> FALSE]
View == [cases |-> cases, nodes |-> nodes, edges |-> edges, text |-> text, results |-> results]
Durable == IF saved = <<>> THEN View ELSE saved[1]

Whole == <<"own", 0>>     \* the part that is the aggregate itself
Own(rows, op) == {r \in rows : r.op = op /\ r.part = Whole}
Row(part, kind, value) == [op |-> call.input.op, part |-> part, kind |-> kind, value |-> value]

Init ==
    /\ Graph!Init
    /\ text = <<>>
    /\ results = {}
    /\ saved = <<>>
    /\ call = NoCall
    /\ curations = 0

(* A record call of the aggregate: its node and the row under its derived id *)
Said(part, kind, t) ==
    /\ text' = Append(text, t)
    /\ results' = results \cup {Row(part, kind, Len(nodes) + 1)}
NothingSaid == UNCHANGED <<graphVars, text, results>>
Proceed(changes) ==
    /\ call' = [part \in DOMAIN call |-> IF part \in DOMAIN changes THEN changes[part] ELSE call[part]]
    /\ UNCHANGED <<saved, curations>>

--------------------------------------------------------------------------------
(* Entering and leaving *)

(* validate_finalize, as far as it is about the parts of a call            *)
AnyVerified(input) ==
    \E i \in DOMAIN input.verifications : input.verifications[i].succeeded
ValidFinalizeUnverified(input, failedIds) ==
    /\ input.outcome # "succeeded" =>
          input.failedAttempts # <<>> \/ failedIds # {} \/ input.checkpoint # NoOperation
    /\ input.verifications # <<>> => input.solution # NoText
    /\ input.solution # NoText => input.root # NoText
ValidFinalize(input, failedIds) ==
    /\ input.outcome = "succeeded" => input.commit /\ AnyVerified(input)
    /\ input.outcome # "succeeded" =>
          input.failedAttempts # <<>> \/ failedIds # {} \/ input.checkpoint # NoOperation
    /\ input.verifications # <<>> => input.solution # NoText
    /\ input.solution # NoText => input.root # NoText

Begin(input, case, failedIds) ==
    /\ call = NoCall
    /\ input.kind = "finalize_work" => ValidFinalize(input, failedIds)
    /\ input.kind # "finalize_work" => failedIds = {}
    /\ input.kind = "record_checkpoint" => case = 0
    /\ saved' = <<View>>
    /\ call' = [at |-> "lookup", input |-> input, case |-> case, failedIds |-> failedIds,
                problem |-> NoNode, previous |-> {}, created |-> FALSE,
                checkpoint |-> NoValue, attempts |-> {}, failed |-> {}, index |-> 1,
                root |-> NoNode, solution |-> NoNode, verifications |-> {}, artifacts |-> {}]
    /\ UNCHANGED <<graphVars, text, results, curations>>

(* RELEASE: what the connection sees becomes what others see.              *)
Release == saved' = <<>> /\ call' = NoCall /\ UNCHANGED curations

RollBackForgotten ==
    /\ call # NoCall
    /\ Release
    /\ UNCHANGED <<graphVars, text, results>>
RollBack ==
    /\ call # NoCall
    /\ LET before == saved[1] IN
       /\ cases' = before.cases /\ nodes' = before.nodes /\ edges' = before.edges
       /\ text' = before.text /\ results' = before.results
    /\ published' = FALSE
    /\ Release
    /\ UNCHANGED <<proposals, applied, supersessions>>

(* An operation id that is stored already under this kind answers for the  *)
(* call; under another kind it is a conflict, and only RollBack remains.   *)
StoredIgnored(op) == {}
Stored(op) == Own(results, op)

Replay ==
    /\ call.at = "lookup"
    /\ \E row \in Stored(call.input.op) : row.kind = call.input.kind
    /\ Release
    /\ NothingSaid

SkipRoutineSuccess ==
    /\ call.at = "lookup" /\ Stored(call.input.op) = {}
    /\ call.input.kind = "checkpoint_work"
    /\ call.input.routine /\ call.input.outcome = "succeeded"
    /\ results' = results \cup {Row(Whole, call.input.kind, NoValue)}
    /\ Release
    /\ UNCHANGED <<graphVars, text>>

StartWork ==
    /\ call.at = "lookup" /\ Stored(call.input.op) = {}
    /\ \/ /\ call.input.kind = "record_checkpoint"
          /\ Proceed([at |-> "batch"])
       \/ /\ call.input.kind = "checkpoint_work"
          /\ ~(call.input.routine /\ call.input.outcome = "succeeded")
          /\ Proceed([at |-> "anchor"])
       \/ /\ call.input.kind = "finalize_work" /\ call.input.checkpoint = NoOperation
          /\ Proceed([at |-> "anchor"])
    /\ NothingSaid

(* finalize_work reads the checkpoint it names: recorded knowledge, of the *)
(* Case the caller names, if it names one.                                 *)
LoadCheckpointWork ==
    /\ call.at = "lookup" /\ Stored(call.input.op) = {}
    /\ call.input.kind = "finalize_work"
    /\ \E row \in Own(results, call.input.checkpoint) :
          /\ row.kind = "checkpoint_work"
          /\ row.value.recorded
          /\ call.case \in {0, row.value.case}
          /\ Proceed([at |-> "anchor", case |-> row.value.case, checkpoint |-> row.value])
    /\ NothingSaid

--------------------------------------------------------------------------------
(* The work itself *)

AfterAnchor == IF call.input.kind = "checkpoint_work" THEN "attempt" ELSE "evidence"

(* An existing Case is anchored on its first Problem and continues after   *)
(* its newest Attempt.                                                     *)
CaseAnchor ==
    LET problems == Graph!OfType(call.case, "Problem")
        attempts == Graph!OfType(call.case, "Attempt") IN
    /\ call.at = "anchor" /\ call.case # 0
    /\ problems # {}
    /\ Proceed([at |-> AfterAnchor, problem |-> Graph!Oldest(problems),
                previous |-> IF attempts = {} THEN {} ELSE {Graph!Newest(attempts)}])
    /\ NothingSaid

(* Without a Case, a Problem is recorded: a known fingerprint leads to the *)
(* Problem and the Case that have it.                                      *)
RecordProblem ==
    LET f == call.input.fingerprint
        known == {n \in DOMAIN nodes : /\ nodes[n].type = "Problem" /\ f # NoFingerprint
                                       /\ nodes[n].data.fingerprint = f} IN
    /\ call.at = "anchor" /\ call.case = 0
    /\ \/ \E n \in known :
             /\ results' = results \cup {Row(<<"problem", 0>>, "record_problem", n)}
             /\ Proceed([at |-> AfterAnchor, case |-> nodes[n].case, problem |-> n])
             /\ UNCHANGED <<graphVars, text>>
       \/ /\ known = {}
          /\ Graph!OpenCase(call.input.text, f)
          /\ Said(<<"problem", 0>>, "record_problem", call.input.text)
          /\ Proceed([at |-> AfterAnchor, case |-> Len(cases) + 1, problem |-> Len(nodes) + 1,
                      created |-> TRUE])

RecordAttempt(part, t, outcome) ==
    /\ Graph!RecordAttempt(call.case, call.problem, call.previous, outcome)
    /\ Said(part, "record_attempt", t)

CheckpointAttempt ==
    LET n == Len(nodes) + 1 IN
    /\ call.at = "attempt"
    /\ RecordAttempt(<<"attempt", 0>>, call.input.text, call.input.outcome)
    /\ Proceed([at |-> "root", attempts |-> {n},
                failed |-> IF call.input.outcome = "failed" THEN {n} ELSE {}])

(* The named failed Attempts and the one of the checkpoint must solve the  *)
(* anchor; a checkpoint alone must support an outcome that is no success.  *)
Solves(a) == /\ Graph!IsNode(a, call.case, "Attempt")
             /\ <<a, "ATTEMPTS_TO_SOLVE", call.problem>> \in edges
OutcomeOf(a) == nodes[a].data.outcome
CheckpointAttempts == IF call.checkpoint.recorded THEN call.checkpoint.attempts ELSE {}

SupportsWhatever(a) == TRUE
Supports(a) ==
    \/ call.input.outcome = "succeeded"
    \/ call.failedIds # {} \/ call.input.failedAttempts # <<>>
    \/ OutcomeOf(a) = "failed"
    \/ OutcomeOf(a) = "inconclusive" /\ call.input.outcome = "inconclusive"

GatherEvidence ==
    /\ call.at = "evidence"
    /\ \A a \in call.failedIds : Solves(a) /\ OutcomeOf(a) = "failed"
    /\ \A a \in CheckpointAttempts : Solves(a) /\ Supports(a)
    /\ Proceed([at |-> "failed", attempts |-> call.failedIds \cup CheckpointAttempts,
                failed |-> call.failedIds
                           \cup {a \in CheckpointAttempts : OutcomeOf(a) = "failed"}])
    /\ NothingSaid

(* Attempts of a checkpoint that say the same stand for the ones the final *)
(* call describes.                                                         *)
EquivalentAttempts(t, outcome) ==
    {a \in Graph!OfType(call.case, "Attempt") :
        /\ Solves(a) /\ OutcomeOf(a) = outcome /\ text[a] = t
        /\ nodes[a].status \in {"open", "candidate", "verified"}
        /\ \E row \in results : /\ row.part = Whole /\ row.kind = "checkpoint_work"
                                /\ row.value.recorded /\ a \in row.value.attempts}

(* The next description of a failed Attempt, or the end of them.           *)
FailedAttempt ==
    LET i == call.index
        With(a) == Proceed([index |-> i + 1, previous |-> {a},
                            attempts |-> call.attempts \cup {a}, failed |-> call.failed \cup {a}])
    IN
    /\ call.at = "failed" /\ i <= Len(call.input.failedAttempts)
    /\ LET t == call.input.failedAttempts[i]
           equivalent == EquivalentAttempts(t, "failed") IN
       \/ /\ equivalent # {}
          /\ With(Graph!Newest(equivalent))
          /\ NothingSaid
       \/ /\ equivalent = {}
          /\ RecordAttempt(<<"failed-attempt", i>>, t, "failed")
          /\ With(Len(nodes) + 1)

SucceededAttempt ==
    LET done == call.input.outcome # "succeeded"
                \/ \E a \in CheckpointAttempts : OutcomeOf(a) = "succeeded"
        equivalent == EquivalentAttempts(call.input.text, "succeeded")
        With(A) == Proceed([at |-> "root", attempts |-> call.attempts \cup A]) IN
    /\ call.at = "failed" /\ call.index > Len(call.input.failedAttempts)
    /\ \/ done /\ With({}) /\ NothingSaid
       \/ ~done /\ equivalent # {} /\ With({Graph!Newest(equivalent)}) /\ NothingSaid
       \/ /\ ~done /\ equivalent = {}
          /\ RecordAttempt(<<"succeeded-attempt", 0>>, call.input.text, "succeeded")
          /\ With({Len(nodes) + 1})

CausalEdge(source, relation, target) == <<source, relation, target>> \in edges
Linked(root) == {<<a, "FAILED_BECAUSE", root>> : a \in call.failed}
CoversUnasked(root) == TRUE
Covers(root) == Linked(root) \subseteq edges
EquivalentNodes(type, t, data, relation, target) ==
    {n \in Graph!OfType(call.case, type) :
        /\ text[n] = t /\ nodes[n].data = data
        /\ nodes[n].status \in {"candidate", "verified"}
        /\ CausalEdge(n, relation, target)}
CheckpointNodeIgnored(part) == NoNode
CheckpointNode(part) == IF call.checkpoint.recorded THEN call.checkpoint[part] ELSE NoNode

AfterRoot(root) == Proceed([at |-> "solution", root |-> root])

NewRootCauseAs(status) ==
    /\ Graph!RecordRootCause(call.case, call.problem, call.failed, status)
    /\ Said(<<"root-cause", 0>>, "record_root_cause", call.input.root)
    /\ AfterRoot(Len(nodes) + 1)
NewRootCauseVerified == NewRootCauseAs("verified")
NewRootCause == NewRootCauseAs("candidate")

(* The root cause of the checkpoint gets the links it lacks and is reused; *)
(* an equal one is reused if it explains every failed Attempt.             *)
RootCause ==
    LET checkpointed == IF call.input.kind = "finalize_work" THEN CheckpointNode("root") ELSE NoNode
        equivalent == IF call.input.kind = "finalize_work"
                      THEN EquivalentNodes("RootCause", call.input.root, Graph!NoData, "CAUSES", call.problem)
                      ELSE {}
        reusable == equivalent # {} /\ Covers(Graph!Newest(equivalent)) IN
    /\ call.at = "root"
    /\ \/ /\ call.input.root = NoText
          /\ AfterRoot(NoNode) /\ NothingSaid
       \/ /\ call.input.root # NoText /\ checkpointed # NoNode
          /\ Graph!IsNode(checkpointed, call.case, "RootCause")
          /\ CausalEdge(checkpointed, "CAUSES", call.problem)
          /\ edges' = edges \cup Linked(checkpointed)
          /\ AfterRoot(checkpointed)
          /\ UNCHANGED <<cases, nodes, proposals, applied, supersessions, published, text, results>>
       \/ /\ call.input.root # NoText /\ checkpointed = NoNode /\ reusable
          /\ AfterRoot(Graph!Newest(equivalent)) /\ NothingSaid
       \/ /\ call.input.root # NoText /\ checkpointed = NoNode /\ ~reusable
          /\ NewRootCause

SolutionDataOf(input) ==
    [exception |-> FALSE, complete |-> TRUE,
     humanRequired |-> input.kind = "checkpoint_work" /\ input.humanConfirmed]
AfterSolution(solution) ==
    Proceed([at |-> IF call.input.kind = "checkpoint_work" THEN "store" ELSE "verify",
             solution |-> solution, index |-> 1])

(* The Solution of the checkpoint, whatever its status, or an equal one    *)
(* that still counts, or a new one.                                        *)
Solution ==
    LET checkpointed == IF call.input.kind = "finalize_work" THEN CheckpointNode("solution") ELSE NoNode
        data == SolutionDataOf(call.input)
        equivalent == IF call.input.kind = "finalize_work"
                      THEN EquivalentNodes("Solution", call.input.solution, data, "ADDRESSES", call.root)
                      ELSE {} IN
    /\ call.at = "solution"
    /\ \/ /\ call.input.solution = NoText
          /\ AfterSolution(NoNode) /\ NothingSaid
       \/ /\ call.input.solution # NoText /\ checkpointed # NoNode
          /\ Graph!IsNode(checkpointed, call.case, "Solution")
          /\ CausalEdge(checkpointed, "ADDRESSES", call.root)
          /\ AfterSolution(checkpointed) /\ NothingSaid
       \/ /\ call.input.solution # NoText /\ checkpointed = NoNode /\ equivalent # {}
          /\ AfterSolution(Graph!Newest(equivalent)) /\ NothingSaid
       \/ /\ call.input.solution # NoText /\ checkpointed = NoNode /\ equivalent = {}
          /\ call.root # NoNode
          /\ Graph!RecordSolution(call.case, call.root, data)
          /\ Said(<<"solution", 0>>, "record_solution", call.input.solution)
          /\ AfterSolution(Len(nodes) + 1)

Verify ==
    LET i == call.index IN
    /\ call.at = "verify" /\ i <= Len(call.input.verifications)
    /\ Graph!RecordVerification(call.case, call.solution, call.input.verifications[i])
    /\ Said(<<"verification", i>>, "record_verification", call.input.text)
    /\ Proceed([index |-> i + 1, verifications |-> call.verifications \cup {Len(nodes) + 1}])

(* record_delivery_artifact for the commit, if there is one, and the merge. *)
Deliver ==
    LET count == IF call.input.commit THEN 2 ELSE 1
        new == Len(nodes) + 1 .. Len(nodes) + count IN
    /\ call.at = "verify" /\ call.index > Len(call.input.verifications)
    /\ Len(nodes) + count <= MaxNodes
    /\ Graph!IsNode(call.problem, call.case, "Problem")
    /\ nodes' = nodes \o [i \in 1..count |-> Graph!Node("Artifact", call.case, "candidate", Graph!NoData)]
    /\ text' = text \o [i \in 1..count |-> call.input.text]
    /\ edges' = edges \cup {<<call.problem, "REFERENCES", n>> : n \in new}
    /\ published' = TRUE
    /\ Proceed([at |-> "store", artifacts |-> new])
    /\ UNCHANGED <<cases, proposals, applied, supersessions, results>>

Value ==
    [recorded |-> TRUE, created |-> call.created, case |-> call.case, problem |-> call.problem,
     attempts |-> call.attempts, root |-> call.root, solution |-> call.solution,
     verifications |-> call.verifications, artifacts |-> call.artifacts,
     failed |-> call.failed, outcome |-> IF call.input.kind = "record_checkpoint" THEN "inconclusive"
                                         ELSE call.input.outcome,
     checkpoint |-> IF call.input.kind = "finalize_work" THEN call.input.checkpoint ELSE NoOperation]

StoreOperation ==
    /\ call.at = "store"
    /\ results' = results \cup {Row(Whole, call.input.kind, Value)}
    /\ Release
    /\ UNCHANGED <<graphVars, text>>

(* record_checkpoint: up to 25 record calls, then the result.              *)
BatchWrite ==
    /\ call.at = "batch" /\ call.index <= MaxBatch
    /\ \/ \E t \in Texts, f \in Fingerprints \cup {NoFingerprint} : Graph!OpenCase(t, f)
       \/ \E c \in DOMAIN cases : Graph!Record(c)
    /\ Len(nodes') > Len(nodes)
    /\ \E t \in PlainTexts : text' = Append(text, t)
    /\ Proceed([index |-> call.index + 1])
    /\ UNCHANGED results
BatchDone ==
    /\ call.at = "batch" /\ call.index > 1
    /\ Proceed([at |-> "store"])
    /\ NothingSaid

(* Between aggregates: calls that confirm and curate what is there.  (A     *)
(* single record call has the effect of a record_checkpoint of one.)       *)
Curation ==
    /\ call = NoCall /\ curations < MaxCurations
    /\ \E c \in DOMAIN cases :
          \/ Graph!Curate(c)
          \/ \E root \in DOMAIN nodes : Graph!PromoteRootCause(c, root)
    /\ curations' = curations + 1
    /\ UNCHANGED <<text, results, saved, call>>

Named == {S \in SUBSET {n \in DOMAIN nodes : nodes[n].type = "Attempt"} :
            Cardinality(S) <= MaxNamed}

Next ==
    \/ \E input \in Inputs, case \in {0} \cup DOMAIN cases, failedIds \in Named :
          Begin(input, case, failedIds)
    \/ Replay \/ SkipRoutineSuccess \/ StartWork \/ LoadCheckpointWork
    \/ CaseAnchor \/ RecordProblem \/ CheckpointAttempt
    \/ GatherEvidence \/ FailedAttempt \/ SucceededAttempt
    \/ RootCause \/ Solution \/ Verify \/ Deliver \/ StoreOperation
    \/ BatchWrite \/ BatchDone
    \/ RollBack
    \/ Curation

Spec == Init /\ [][Next]_vars

--------------------------------------------------------------------------------
(* Properties *)

Finalized == {r \in Durable.results : r.part = Whole /\ r.kind = "finalize_work"}

TypeOK ==
    /\ Len(text) = Len(nodes) /\ \A n \in DOMAIN text : text[n] \in Texts
    /\ \A r \in results : r.op \in Operations
    /\ \A r, s \in results : r.op = s.op /\ r.part = s.part => r = s
    /\ saved = <<>> <=> call = NoCall
    /\ curations \in 0..MaxCurations

(* Whoever reads the database while aggregates run, fail and are repeated   *)
(* sees the parts of an aggregate, their operation rows and artifacts only  *)
(* together with its result, and no Case without a Problem (the outer       *)
(* savepoint of write.rs).                                                  *)
AllOrNothing ==
    /\ \A r \in Durable.results :
          r.part # Whole => \E whole \in Own(Durable.results, r.op) : whole.value.recorded
    /\ \A n \in DOMAIN Durable.nodes :
          Durable.nodes[n].type = "Artifact" =>
              \/ \E r \in Finalized : n \in r.value.artifacts
              \/ \E e \in Durable.edges : /\ e[3] = n
                                           /\ Durable.nodes[e[1]].type = "Verification"
    /\ \A c \in DOMAIN Durable.cases :
          \E n \in DOMAIN Durable.nodes :
              Durable.nodes[n].case = c /\ Durable.nodes[n].type = "Problem"

(* A repeated aggregate answers from its result and changes nothing, even   *)
(* while it runs: no second Attempt, Verification or delivery artifact.     *)
RepeatChangesNothing ==
    [][call # NoCall /\ Own(Durable.results, call.input.op) # {} => View' = View]_vars

(* A final call that names a checkpoint goes on with its Case, Attempt,     *)
(* RootCause and Solution, however it words them.                           *)
CheckpointIsReused ==
    \A r \in Finalized : \A c \in Own(Durable.results, r.value.checkpoint) :
        /\ r.value.case = c.value.case
        /\ r.value.problem = c.value.problem
        /\ c.value.attempts \subseteq r.value.attempts
        /\ NoNode \notin {c.value.root, r.value.root} => r.value.root = c.value.root
        /\ NoNode \notin {c.value.solution, r.value.solution} =>
              r.value.solution = c.value.solution

(* The chain a final result reports is in the graph, whichever of its parts *)
(* were reused: each Attempt for the Problem, each failure explained by the *)
(* RootCause, the Solution for that RootCause, checked by its Verifications. *)
FinalizedChain ==
    \A r \in Finalized :
        LET v == r.value
            In(source, relation, target) == <<source, relation, target>> \in Durable.edges IN
        /\ \A a \in v.attempts : In(a, "ATTEMPTS_TO_SOLVE", v.problem)
        /\ v.root # NoNode => /\ In(v.root, "CAUSES", v.problem)
                              /\ \A a \in v.failed : In(a, "FAILED_BECAUSE", v.root)
        /\ v.solution # NoNode => In(v.solution, "ADDRESSES", v.root)
        /\ \A n \in v.verifications : In(v.solution, "VERIFIED_BY", n)
        /\ \A n \in v.artifacts : In(v.problem, "REFERENCES", n)

(* The reported outcome has evidence in the graph: a success one succeeded  *)
(* Attempt, described once, and a check that passed; a failure a failed     *)
(* Attempt; an inconclusive end something other than a success.             *)
OutcomeSupported ==
    \A r \in Finalized :
        LET Ended(outcome) == {a \in r.value.attempts : Durable.nodes[a].data.outcome = outcome} IN
        CASE r.value.outcome = "succeeded" ->
                /\ Cardinality(Ended("succeeded")) = 1
                /\ \E n \in r.value.verifications : Durable.nodes[n].status = "verified"
          [] r.value.outcome = "failed" -> Ended("failed") # {}
          [] OTHER -> Ended("failed") \cup Ended("inconclusive") # {}

(* Reuse does not revive knowledge: what was regressed or retired stays so  *)
(* when a final call adds its checks to it; and no report of an Agent        *)
(* verifies a RootCause, which takes a human's confirmation.                *)
ReuseRevivesNothing ==
    [][call # NoCall /\ call' # NoCall =>
          /\ \A n \in DOMAIN nodes :
                nodes[n].status \in {"regressed", "retired"} => nodes'[n].status = nodes[n].status
          /\ \A n \in DOMAIN nodes' :
                /\ nodes'[n].type = "RootCause" /\ nodes'[n].status = "verified"
                /\ call.input.kind # "record_checkpoint"
                => n \in DOMAIN nodes /\ nodes[n].status = "verified"]_vars

================================================================================
