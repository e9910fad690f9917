----------------------------- MODULE CaseLifecycle -----------------------------
(***************************************************************************)
(* The life of Cases and of the nodes in them, as WriteRepository changes  *)
(* it: what each record call adds to the graph, when the evidence in a     *)
(* Case promotes one of its Solutions, and how regressions, supersessions  *)
(* and merges take knowledge back.  An action is one committed write of    *)
(* one project; operation ids, replay and rollback are the subject of      *)
(* module ReliableWrite.                                                   *)
(***************************************************************************)
EXTENDS Naturals, Sequences, FiniteSets

CONSTANTS
    Fingerprints,      \* normalized problem fingerprints
    NoFingerprint,     \* a Problem without one
    Titles,            \* Case titles; equal titles are similar enough to merge
    SolutionData,      \* what a Solution may state: [exception, humanRequired, complete]
    VerificationData,  \* what a Verification may state: [kind, succeeded, humanConfirmed]
    MaxCases,          \* bound: Cases created
    MaxNodes,          \* bound: nodes created
    Quota,             \* bound: Quota[type] nodes of each type
    MaxProposals       \* bound: the largest limit of a suggestion, 25 in the code

NodeTypes == {"Problem", "Attempt", "RootCause", "Solution", "Verification", "Artifact", "Guardrail"}
Statuses == {"open", "candidate", "verified", "regressed", "retired"}
Outcomes == {"failed", "succeeded", "inconclusive"}
Relations == {"ATTEMPTS_TO_SOLVE", "PRECEDED_BY", "CAUSES", "FAILED_BECAUSE", "ADDRESSES",
              "VERIFIED_BY", "REFERENCES", "PREVENTS", "SUPERSEDES"}

ASSUME ConstantsAssumption ==
    /\ NoFingerprint \notin Fingerprints
    /\ SolutionData \subseteq [exception : BOOLEAN, humanRequired : BOOLEAN, complete : BOOLEAN]
    /\ VerificationData \subseteq
         [kind : {"automated", "human"}, succeeded : BOOLEAN, humanConfirmed : BOOLEAN]
    /\ \A v \in VerificationData : v.kind = "automated" => ~v.humanConfirmed
    /\ MaxCases \in Nat /\ MaxNodes \in Nat /\ MaxProposals \in Nat
    /\ Quota \in [NodeTypes -> Nat]

VARIABLES
    cases,          \* the Cases in order of creation: title and status
    nodes,          \* the nodes in order of creation: type, case, status and data
    edges,          \* <<source, relation, target>> triples
    proposals,      \* merge proposals: <<source case, target case>> pairs
    applied,        \* the proposals that have been applied
    supersessions,  \* case_supersessions: one target for each source
    published       \* whether the last write appended an event

vars == <<cases, nodes, edges, proposals, applied, supersessions, published>>
mergeVars == <<proposals, applied, supersessions>>

--------------------------------------------------------------------------------
(* Data *)

NoData == [none |-> TRUE]
Data == {NoData} \cup [fingerprint : Fingerprints \cup {NoFingerprint}]
        \cup [outcome : Outcomes] \cup SolutionData \cup VerificationData
Nodes == [type : NodeTypes, case : Nat, status : Statuses, data : Data]

Case(title, status) == [title |-> title, status |-> status]
Node(type, c, status, data) == [type |-> type, case |-> c, status |-> status, data |-> data]

CaseIds == DOMAIN cases
Room(type) ==
    /\ Len(nodes) < MaxNodes
    /\ Cardinality({n \in DOMAIN nodes : nodes[n].type = type}) < Quota[type]

(* require_node: a node of this type in this Case. *)
IsNode(n, c, type) == n \in DOMAIN nodes /\ nodes[n].case = c /\ nodes[n].type = type
OfType(c, type) == {n \in DOMAIN nodes : IsNode(n, c, type)}

Newest(S) == CHOOSE n \in S : \A m \in S : m <= n
Oldest(S) == CHOOSE n \in S : \A m \in S : n <= m
Targets(es, n, relation) == {e[3] : e \in {x \in es : x[1] = n /\ x[2] = relation}}

WithStatus(ns, n, status) == [ns EXCEPT ![n].status = status]

Init ==
    /\ cases = <<>>
    /\ nodes = <<>>
    /\ edges = {}
    /\ proposals = {}
    /\ applied = {}
    /\ supersessions = {}
    /\ published = FALSE

--------------------------------------------------------------------------------
(* Promotion: evaluate_case_promotion over a graph of nodes and edges *)

RootsOf(ns, es, s) == {r \in Targets(es, s, "ADDRESSES") : ns[r].type = "RootCause"}
VerificationsOf(ns, es, s) ==
    {ns[v].data : v \in {w \in Targets(es, s, "VERIFIED_BY") : ns[w].type = "Verification"}}

(* evaluate_promotion: a verified root cause, a successful automated check  *)
(* or a reason why there is none, the human checks, and a complete Solution *)
RootVerified(ns, es, s) ==
    LET roots == RootsOf(ns, es, s) IN roots # {} /\ ns[Oldest(roots)].status = "verified"
Checked(ns, es, s) ==
    \/ ns[s].data.exception
    \/ \E v \in VerificationsOf(ns, es, s) : v.kind = "automated" /\ v.succeeded
HumanPresent(ns, es, s) ==
    ns[s].data.humanRequired =>
        \E v \in VerificationsOf(ns, es, s) : v.kind = "human" /\ v.succeeded
HumanConfirmed(ns, es, s) ==
    \E v \in VerificationsOf(ns, es, s) : v.kind = "human" /\ v.succeeded /\ v.humanConfirmed
EligibleUnconfirmed(ns, es, s) ==
    /\ RootVerified(ns, es, s)
    /\ Checked(ns, es, s)
    /\ HumanPresent(ns, es, s)
    /\ ns[s].data.complete
Eligible(ns, es, s) ==
    /\ RootVerified(ns, es, s)
    /\ Checked(ns, es, s)
    /\ HumanPresent(ns, es, s)
    /\ HumanConfirmed(ns, es, s)
    /\ ns[s].data.complete

(* Only a Solution that is a candidate or verified can be promoted.         *)
ActiveOrRegressed(status) == status \in {"candidate", "verified", "regressed"}
ActiveOrRetired(status) == status \in {"candidate", "verified", "retired"}
Active(status) == status \in {"candidate", "verified"}

Promotable(ns, es, c) ==
    {s \in DOMAIN ns : /\ ns[s].case = c
                       /\ ns[s].type = "Solution"
                       /\ Active(ns[s].status)
                       /\ Eligible(ns, es, s)}

(* The newest promotable Solution and its Case become verified, whatever    *)
(* the status of the Case; with none, nothing changes.                      *)
Promote(cs, ns, es, c) ==
    LET promotable == Promotable(ns, es, c) IN
    IF promotable = {}
    THEN [cases |-> cs, nodes |-> ns]
    ELSE [cases |-> [cs EXCEPT ![c].status = "verified"],
          nodes |-> WithStatus(ns, Newest(promotable), "verified")]

(* The write ends with a promotion of the graph it has made. *)
Commit(ns, es, c) ==
    /\ cases' = Promote(cases, ns, es, c).cases
    /\ nodes' = Promote(cases, ns, es, c).nodes
    /\ edges' = es

--------------------------------------------------------------------------------
(* Recording nodes *)

FingerprintKnown(f) ==
    \E n \in DOMAIN nodes : nodes[n].type = "Problem" /\ nodes[n].data.fingerprint = f

(* A Problem opens a Case or joins one; a known fingerprint leads to the    *)
(* existing Problem and writes nothing.                                     *)
AddProblem(c, f) ==
    /\ Room("Problem")
    /\ f = NoFingerprint \/ ~FingerprintKnown(f)
    /\ nodes' = Append(nodes, Node("Problem", c, "open", [fingerprint |-> f]))
    /\ published' = TRUE
    /\ UNCHANGED <<edges, mergeVars>>

OpenCase(title, f) ==
    /\ Len(cases) < MaxCases
    /\ cases' = Append(cases, Case(title, "open"))
    /\ AddProblem(Len(cases) + 1, f)

JoinCase(c, f) ==
    /\ c \in CaseIds
    /\ AddProblem(c, f)
    /\ UNCHANGED cases

RecordAttempt(c, problem, previous, outcome) ==
    LET n == Len(nodes) + 1 IN
    /\ Room("Attempt")
    /\ IsNode(problem, c, "Problem")
    /\ previous \subseteq OfType(c, "Attempt") /\ Cardinality(previous) <= 1
    /\ nodes' = Append(nodes, Node("Attempt", c,
                                   IF outcome = "succeeded" THEN "candidate" ELSE "open",
                                   [outcome |-> outcome]))
    /\ edges' = edges \cup {<<n, "ATTEMPTS_TO_SOLVE", problem>>}
                      \cup {<<n, "PRECEDED_BY", p>> : p \in previous}
    /\ published' = TRUE
    /\ UNCHANGED <<cases, mergeVars>>

(* A root cause starts verified only if a human has confirmed it. *)
RecordRootCause(c, problem, failed, status) ==
    LET n == Len(nodes) + 1 IN
    /\ Room("RootCause")
    /\ IsNode(problem, c, "Problem")
    /\ failed \subseteq OfType(c, "Attempt")
    /\ \A a \in failed : nodes[a].data.outcome = "failed"
    /\ Commit(Append(nodes, Node("RootCause", c, status, NoData)),
              edges \cup {<<n, "CAUSES", problem>>}
                    \cup {<<a, "FAILED_BECAUSE", n>> : a \in failed}, c)
    /\ published' = TRUE
    /\ UNCHANGED mergeVars

(* A human confirms a root cause; confirming it again writes no event.      *)
PromoteRootCause(c, root) ==
    /\ IsNode(root, c, "RootCause")
    /\ nodes[root].status \in {"candidate", "verified"}
    /\ Commit(WithStatus(nodes, root, "verified"), edges, c)
    /\ published' = (nodes[root].status # "verified")
    /\ UNCHANGED mergeVars

RecordSolution(c, root, data) ==
    LET n == Len(nodes) + 1 IN
    /\ Room("Solution")
    /\ IsNode(root, c, "RootCause")
    /\ Commit(Append(nodes, Node("Solution", c, "candidate", data)),
              edges \cup {<<n, "ADDRESSES", root>>}, c)
    /\ published' = TRUE
    /\ UNCHANGED mergeVars

RecordVerificationUnevaluated(c, solution, data) ==
    LET n == Len(nodes) + 1 IN
    /\ Room("Verification")
    /\ IsNode(solution, c, "Solution")
    /\ nodes' = Append(nodes, Node("Verification", c,
                                   IF data.succeeded THEN "verified" ELSE "open", data))
    /\ edges' = edges \cup {<<solution, "VERIFIED_BY", n>>}
    /\ published' = TRUE
    /\ UNCHANGED <<cases, mergeVars>>
RecordVerification(c, solution, data) ==
    LET n == Len(nodes) + 1 IN
    /\ Room("Verification")
    /\ IsNode(solution, c, "Solution")
    /\ Commit(Append(nodes, Node("Verification", c,
                                 IF data.succeeded THEN "verified" ELSE "open", data)),
              edges \cup {<<solution, "VERIFIED_BY", n>>}, c)
    /\ published' = TRUE
    /\ UNCHANGED mergeVars

(* Artifacts and Guardrails are recorded without promoting anything. *)
RecordArtifact(c, verification) ==
    LET n == Len(nodes) + 1 IN
    /\ Room("Artifact")
    /\ IsNode(verification, c, "Verification")
    /\ nodes' = Append(nodes, Node("Artifact", c, "candidate", NoData))
    /\ edges' = edges \cup {<<verification, "REFERENCES", n>>}
    /\ published' = TRUE
    /\ UNCHANGED <<cases, mergeVars>>

RecordGuardrail(c, root, status) ==
    LET n == Len(nodes) + 1 IN
    /\ Room("Guardrail")
    /\ IsNode(root, c, "RootCause")
    /\ nodes' = Append(nodes, Node("Guardrail", c, status, NoData))
    /\ edges' = edges \cup {<<n, "PREVENTS", root>>}
    /\ published' = TRUE
    /\ UNCHANGED <<cases, mergeVars>>

--------------------------------------------------------------------------------
(* Closing, regressing, superseding and merging *)

CloseCase(c) ==
    /\ c \in CaseIds
    /\ Commit(nodes, edges, c)
    /\ published' = TRUE
    /\ UNCHANGED mergeVars

(* The fingerprint of a Case is the one its first fingerprinted Problem has. *)
FingerprintOf(c) ==
    LET S == {n \in OfType(c, "Problem") : nodes[n].data.fingerprint # NoFingerprint} IN
    IF S = {} THEN NoFingerprint ELSE nodes[Oldest(S)].data.fingerprint

(* The problem of a verified Solution recurs inside its applicability       *)
(* boundary; any other observation writes nothing.                          *)
MarkRegression(c, solution, fingerprint) ==
    /\ IsNode(solution, c, "Solution")
    /\ nodes[solution].status = "verified"
    /\ fingerprint = FingerprintOf(c)
    /\ nodes' = WithStatus(nodes, solution, "regressed")
    /\ cases' = [cases EXCEPT ![c].status = "regressed"]
    /\ published' = TRUE
    /\ UNCHANGED <<edges, mergeVars>>

(* What a Solution supersedes, directly or through others. *)
Superseded(c, s) ==
    LET solutions == OfType(c, "Solution")
        Closed(S) == /\ Targets(edges, s, "SUPERSEDES") \subseteq S
                     /\ \A x \in S : Targets(edges, x, "SUPERSEDES") \subseteq S
    IN  {t \in solutions : \A S \in SUBSET solutions : Closed(S) => t \in S}

ReplacementUnranked(prior, replacement) == Active(nodes[replacement].status)
Replacement(prior, replacement) ==
    /\ Active(nodes[replacement].status)
    /\ nodes[prior].status = "verified" => nodes[replacement].status = "verified"

(* The same relation under another operation id is accepted and writes      *)
(* nothing but the operation's result.                                      *)
SupersedeSolution(c, prior, replacement) ==
    /\ prior # replacement
    /\ IsNode(prior, c, "Solution")
    /\ IsNode(replacement, c, "Solution")
    /\ Replacement(prior, replacement)
    /\ replacement \notin Superseded(c, prior)
    /\ \/ /\ <<replacement, "SUPERSEDES", prior>> \in edges
          /\ published' = FALSE
          /\ UNCHANGED <<nodes, edges>>
       \/ /\ <<replacement, "SUPERSEDES", prior>> \notin edges
          /\ nodes' = WithStatus(nodes, prior, "retired")
          /\ edges' = edges \cup {<<replacement, "SUPERSEDES", prior>>}
          /\ published' = TRUE
    /\ UNCHANGED <<cases, mergeVars>>

(* Pairs of similar Cases that are not retired, the newer one first, in the *)
(* order they are visited; a known pair counts against the limit.           *)
Similar ==
    {p \in CaseIds \X CaseIds :
        /\ p[1] > p[2]
        /\ cases[p[1]].title = cases[p[2]].title
        /\ cases[p[1]].status # "retired"
        /\ cases[p[2]].status # "retired"}
Visited(p) == {q \in Similar : q[1] > p[1] \/ (q[1] = p[1] /\ q[2] >= p[2])}

SuggestCaseMerges(limit) ==
    /\ proposals' = proposals \cup {p \in Similar : Cardinality(Visited(p)) <= limit}
    /\ published' = FALSE
    /\ UNCHANGED <<cases, nodes, edges, applied, supersessions>>

(* INSERT OR IGNORE: a source that is superseded already keeps its target.  *)
SupersessionBackwards(p) == supersessions \cup {<<p[2], p[1]>>}
Supersession(p) ==
    IF \E q \in supersessions : q[1] = p[1] THEN supersessions ELSE supersessions \cup {p}

ApplyCaseMerge(p) ==
    /\ p \in proposals
    /\ cases' = [cases EXCEPT ![p[1]].status = "retired"]
    /\ supersessions' = Supersession(p)
    /\ applied' = applied \cup {p}
    /\ published' = TRUE
    /\ UNCHANGED <<nodes, edges, proposals>>

--------------------------------------------------------------------------------
Record(c) ==
    \/ \E f \in Fingerprints \cup {NoFingerprint} : JoinCase(c, f)
    \/ \E problem \in DOMAIN nodes :
          \/ \E previous \in SUBSET OfType(c, "Attempt"), outcome \in Outcomes :
                RecordAttempt(c, problem, previous, outcome)
          \/ \E failed \in SUBSET OfType(c, "Attempt"), status \in {"candidate", "verified"} :
                RecordRootCause(c, problem, failed, status)
    \/ \E root \in DOMAIN nodes :
          \/ PromoteRootCause(c, root)
          \/ \E data \in SolutionData : RecordSolution(c, root, data)
          \/ \E status \in {"candidate", "verified"} : RecordGuardrail(c, root, status)
    \/ \E solution \in DOMAIN nodes, data \in VerificationData :
          RecordVerification(c, solution, data)
    \/ \E verification \in DOMAIN nodes : RecordArtifact(c, verification)

Curate(c) ==
    \/ CloseCase(c)
    \/ \E solution \in DOMAIN nodes, f \in Fingerprints : MarkRegression(c, solution, f)
    \/ \E prior, replacement \in DOMAIN nodes : SupersedeSolution(c, prior, replacement)

Next ==
    \/ \E title \in Titles, f \in Fingerprints \cup {NoFingerprint} : OpenCase(title, f)
    \/ \E c \in CaseIds : Record(c) \/ Curate(c)
    \/ \E limit \in 1..MaxProposals : SuggestCaseMerges(limit)
    \/ \E p \in proposals : ApplyCaseMerge(p)

Spec == Init /\ [][Next]_vars

--------------------------------------------------------------------------------
(* Properties *)

TypeOK ==
    /\ cases \in Seq([title : Titles, status : Statuses])
    /\ nodes \in Seq(Nodes)
    /\ edges \subseteq (DOMAIN nodes) \X Relations \X (DOMAIN nodes)
    /\ proposals \subseteq CaseIds \X CaseIds
    /\ applied \subseteq proposals
    /\ supersessions \subseteq applied
    /\ published \in BOOLEAN

IsSolution(n) == n \in DOMAIN nodes /\ nodes[n].type = "Solution"

VerifiedBy(ns, es, s, kind, confirmed) ==
    \E e \in es :
        /\ e[1] = s /\ e[2] = "VERIFIED_BY"
        /\ ns[e[3]].type = "Verification"
        /\ ns[e[3]].data.kind = kind
        /\ ns[e[3]].data.succeeded
        /\ confirmed => ns[e[3]].data.humanConfirmed
AddressesVerified(ns, es, s) ==
    \E e \in es :
        /\ e[1] = s /\ e[2] = "ADDRESSES"
        /\ ns[e[3]].type = "RootCause"
        /\ ns[e[3]].status = "verified"
Earned(ns, es, s) ==
    /\ ns[s].data.complete
    /\ AddressesVerified(ns, es, s)
    /\ ns[s].data.exception \/ VerifiedBy(ns, es, s, "automated", FALSE)
    /\ VerifiedBy(ns, es, s, "human", TRUE)

(* A verified Solution is backed by evidence that no later write has taken  *)
(* away: a verified root cause, the automated check or its exception, and a *)
(* human's confirmation (evaluate_promotion).                               *)
VerifiedIsEarned ==
    \A s \in DOMAIN nodes :
        IsSolution(s) /\ nodes[s].status = "verified" => Earned(nodes, edges, s)

(* A Case that counts as verified has a Solution that does: supersession    *)
(* and regression cannot leave it without.                                  *)
VerifiedCaseHasSolution ==
    \A c \in CaseIds :
        cases[c].status = "verified" =>
            \E s \in DOMAIN nodes : IsNode(s, c, "Solution") /\ nodes[s].status = "verified"

(* What has been superseded is retired for good: later evidence, closings   *)
(* and confirmations do not bring it back.                                  *)
SupersededIsRetired ==
    \A e \in edges : e[2] = "SUPERSEDES" => nodes[e[3]].status = "retired"

(* The status of a Solution only advances: a regressed Solution is never    *)
(* trusted again, and a retired one never leaves retirement.                *)
Rank(status) ==
    CASE status = "candidate" -> 1 [] status = "verified" -> 2
      [] status = "regressed" -> 3 [] OTHER -> 4
StatusOnlyAdvances ==
    [][\A s \in DOMAIN nodes :
          IsSolution(s) => Rank(nodes[s].status) <= Rank(nodes'[s].status)]_vars

(* A Solution whose evidence becomes complete is promoted by the very write *)
(* that completes it, unless a newer one is promoted instead.               *)
PromotedWhenComplete ==
    [][\A s \in DOMAIN nodes :
          /\ IsSolution(s)
          /\ ~Eligible(nodes, edges, s) /\ Eligible(nodes', edges', s)
          /\ Active(nodes[s].status)
          => \E t \in DOMAIN nodes' :
                /\ t >= s
                /\ nodes'[t].type = "Solution" /\ nodes'[t].case = nodes[s].case
                /\ nodes'[t].status = "verified"
                /\ cases'[nodes[s].case].status = "verified"]_vars

(* What the design says of mutations: each writes an event (violated).      *)
EveryMutationWritesAnEvent ==
    [][<<cases, nodes, edges>>' # <<cases, nodes, edges>> => published']_vars

(* What the handoff says of an applied proposal: the source Case is retired *)
(* and its supersession recorded (violated).                                *)
AppliedMergesStand ==
    \A p \in applied : cases[p[1]].status = "retired" /\ p \in supersessions

================================================================================
