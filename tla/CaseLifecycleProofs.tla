-------------------------- MODULE CaseLifecycleProofs --------------------------
(***************************************************************************)
(* Proofs about the life of Cases, for any number of Cases and nodes and   *)
(* any evidence.  A write builds a graph in steps (a node with its edges,  *)
(* a status, then the promotion), so the invariant is stated of a graph,   *)
(* and each way to build on a sound graph is shown to give a sound one.    *)
(***************************************************************************)
EXTENDS CaseLifecycle, FiniteSetTheorems, WellFoundedInduction, TLAPS

CasesTyped(cs) == cs \in Seq([title : Titles, status : Statuses])
GraphTyped(ns, es) ==
    /\ ns \in Seq(Nodes)
    /\ es \subseteq (DOMAIN ns) \X Relations \X (DOMAIN ns)
NodesInCases(cs, ns) == \A n \in DOMAIN ns : ns[n].case \in DOMAIN cs
AllEarned(ns, es) ==
    \A s \in DOMAIN ns :
        ns[s].type = "Solution" /\ ns[s].status = "verified" => Earned(ns, es, s)
Trusted(ns, c, s) == ns[s].case = c /\ ns[s].type = "Solution" /\ ns[s].status = "verified"
CasesBacked(cs, ns) ==
    \A c \in DOMAIN cs : cs[c].status = "verified" => \E s \in DOMAIN ns : Trusted(ns, c, s)
AllRetired(ns, es) == \A e \in es : e[2] = "SUPERSEDES" => ns[e[3]].status = "retired"

Sound(cs, ns, es) ==
    /\ CasesTyped(cs)
    /\ GraphTyped(ns, es)
    /\ NodesInCases(cs, ns)
    /\ AllEarned(ns, es)
    /\ CasesBacked(cs, ns)
    /\ AllRetired(ns, es)

MergesTyped ==
    /\ proposals \subseteq CaseIds \X CaseIds
    /\ applied \subseteq proposals
    /\ supersessions \subseteq applied
    /\ published \in BOOLEAN

(* The inductive invariant. *)
IInv == Sound(cases, nodes, edges) /\ MergesTyped

--------------------------------------------------------------------------------
(* The newest and the oldest of some nodes *)

(* Strict inclusion of the intervals the nodes span is well founded, so that *)
(* one of them is smallest.                                                  *)
LEMMA SmallestInterval ==
    ASSUME NEW T, T \subseteq FiniteSubsetsOf(Nat), T # {}
    PROVE  \E x \in T : \A y \in T : y \subseteq x => y = x
<1>1. PICK x \in T : \A y \in T : ~(<<y, x>> \in StrictSubsetOrdering(Nat))
    BY FS_StrictSubsetOrderingWellFounded, WFMin
<1>2. \A y \in T : y \in SUBSET Nat
    BY DEF FiniteSubsetsOf
<1> QED
    BY <1>1, <1>2 DEF StrictSubsetOrdering

(* Some nodes have an oldest one. *)
LEMMA OldestIsMember ==
    ASSUME NEW S, S \subseteq Nat, S # {}
    PROVE  Oldest(S) \in S
<1> DEFINE T == {1..x : x \in S}
<1>1. T \subseteq FiniteSubsetsOf(Nat)
    <2>1. \A x \in S : 1..x \subseteq Nat /\ IsFiniteSet(1..x)
        BY FS_Interval
    <2> QED
        BY <2>1 DEF FiniteSubsetsOf
<1>2. T # {}
    OBVIOUS
<1> HIDE DEF T
<1>3. PICK i \in T : \A y \in T : y \subseteq i => y = i
    BY <1>1, <1>2, SmallestInterval
<1>4. PICK x \in S : i = 1..x
    BY DEF T
<1>5. \A y \in S : 1..y \in T
    BY DEF T
<1>6. ASSUME NEW y \in S, y < x
      PROVE  FALSE
    <2>1. x \in Nat /\ y \in Nat
        OBVIOUS
    <2>2. 1..y \subseteq 1..x /\ x \in 1..x /\ x \notin 1..y
        BY <1>6, <2>1
    <2> QED
        BY <1>3, <1>4, <1>5, <2>2
<1>7. \A y \in S : x <= y
    BY <1>6
<1> QED
    BY <1>7 DEF Oldest

(* Some nodes have a newest one. *)
LEMMA NewestIsMember ==
    ASSUME NEW k \in Nat, NEW S, S \subseteq 1..k, S # {}
    PROVE  Newest(S) \in S
<1> DEFINE T == {n..k : n \in S}
<1>1. T \subseteq FiniteSubsetsOf(Nat)
    <2>1. \A x \in S : x..k \subseteq Nat /\ IsFiniteSet(x..k)
        BY FS_Interval
    <2> QED
        BY <2>1 DEF FiniteSubsetsOf
<1>2. T # {}
    OBVIOUS
<1> HIDE DEF T
<1>3. PICK i \in T : \A y \in T : y \subseteq i => y = i
    BY <1>1, <1>2, SmallestInterval
<1>4. PICK x \in S : i = x..k
    BY DEF T
<1>5. \A y \in S : y..k \in T
    BY DEF T
<1>6. ASSUME NEW y \in S, x < y
      PROVE  FALSE
    <2>1. x \in 1..k /\ y \in 1..k
        OBVIOUS
    <2>2. y..k \subseteq x..k /\ x \in x..k /\ x \notin y..k
        BY <1>6, <2>1
    <2> QED
        BY <1>3, <1>4, <1>5, <2>2
<1>7. \A y \in S : y <= x
    BY <1>6
<1> QED
    BY <1>7 DEF Newest

--------------------------------------------------------------------------------
(* Steps of a write *)

(* A change of status changes nothing else of the nodes. *)
LEMMA StatusChange ==
    ASSUME NEW ns \in Seq(Nodes), NEW n \in DOMAIN ns, NEW status \in Statuses
    PROVE  LET new == WithStatus(ns, n, status) IN
           /\ new \in Seq(Nodes)
           /\ DOMAIN new = DOMAIN ns
           /\ \A m \in DOMAIN ns :
                 /\ new[m].type = ns[m].type
                 /\ new[m].case = ns[m].case
                 /\ new[m].data = ns[m].data
                 /\ new[m].status = IF m = n THEN status ELSE ns[m].status
<1> DEFINE new == [ns EXCEPT ![n].status = status]
<1>1. \A m \in DOMAIN ns : ns[m] \in Nodes
    OBVIOUS
<1>2. \A x \in Nodes : /\ [x EXCEPT !.status = status] \in Nodes
                       /\ [x EXCEPT !.status = status].type = x.type
                       /\ [x EXCEPT !.status = status].case = x.case
                       /\ [x EXCEPT !.status = status].data = x.data
                       /\ [x EXCEPT !.status = status].status = status
    BY DEF Nodes
<1>3. /\ DOMAIN new = DOMAIN ns
      /\ \A m \in DOMAIN ns : new[m] = IF m = n THEN [ns[m] EXCEPT !.status = status] ELSE ns[m]
    OBVIOUS
<1>4. new \in Seq(Nodes)
    <2>1. \A m \in DOMAIN ns : new[m] \in Nodes
        BY <1>1, <1>2, <1>3
    <2>2. DOMAIN ns = 1..Len(ns) /\ Len(ns) \in Nat
        OBVIOUS
    <2>3. new = [m \in 1..Len(ns) |-> new[m]]
        BY <1>3, <2>2
    <2> QED
        BY <1>3, <2>1, <2>2, <2>3
<1> HIDE DEF new
<1> QED
    BY <1>1, <1>2, <1>3, <1>4 DEF WithStatus, new

(* What a write may do to the nodes and edges it finds. *)
Grows(ns, es, new, wider) ==
    /\ DOMAIN ns \subseteq DOMAIN new
    /\ es \subseteq wider
    /\ \A n \in DOMAIN ns :
          /\ new[n].type = ns[n].type
          /\ new[n].data = ns[n].data
          /\ ns[n].type = "RootCause" /\ ns[n].status = "verified" => new[n].status = "verified"

(* Evidence is never taken away. *)
LEMMA EarnedStays ==
    ASSUME NEW ns, NEW es, NEW new, NEW wider,
           GraphTyped(ns, es), Grows(ns, es, new, wider),
           NEW s \in DOMAIN ns, Earned(ns, es, s)
    PROVE  Earned(new, wider, s)
<1>1. \A e \in es : e[3] \in DOMAIN ns /\ e \in wider
    BY DEF GraphTyped, Grows
<1>2. AddressesVerified(new, wider, s)
    BY <1>1 DEF Earned, AddressesVerified, Grows
<1>3. VerifiedBy(new, wider, s, "human", TRUE)
    BY <1>1 DEF Earned, VerifiedBy, Grows
<1>4. ASSUME VerifiedBy(ns, es, s, "automated", FALSE)
      PROVE  VerifiedBy(new, wider, s, "automated", FALSE)
    BY <1>1, <1>4 DEF VerifiedBy, Grows
<1>5. new[s].data = ns[s].data
    BY DEF Grows
<1> QED
    BY <1>2, <1>3, <1>4, <1>5 DEF Earned

(* A change of a Case's status changes nothing else of the Cases. *)
LEMMA CaseChange ==
    ASSUME NEW cs, CasesTyped(cs), NEW c \in DOMAIN cs, NEW status \in Statuses
    PROVE  LET new == [cs EXCEPT ![c].status = status] IN
           /\ CasesTyped(new)
           /\ DOMAIN new = DOMAIN cs
           /\ \A d \in DOMAIN cs : new[d].status = IF d = c THEN status ELSE cs[d].status
<1> DEFINE C == [title : Titles, status : Statuses]
           new == [cs EXCEPT ![c].status = status]
<1>1. cs \in Seq(C) /\ DOMAIN cs = 1..Len(cs) /\ Len(cs) \in Nat
    BY DEF CasesTyped
<1>2. \A x \in C : /\ [x EXCEPT !.status = status] \in C
                   /\ [x EXCEPT !.status = status].status = status
    OBVIOUS
<1> HIDE DEF C
<1>3. /\ DOMAIN new = DOMAIN cs
      /\ \A d \in DOMAIN cs : new[d] = IF d = c THEN [cs[d] EXCEPT !.status = status] ELSE cs[d]
    BY <1>1
<1>4. \A d \in DOMAIN cs : cs[d] \in C /\ new[d] \in C
    BY <1>1, <1>2, <1>3
<1>5. new = [d \in 1..Len(cs) |-> new[d]]
    BY <1>1, <1>3
<1>6. new \in Seq(C)
    BY <1>1, <1>4, <1>5
<1> HIDE DEF new
<1> QED
    BY <1>2, <1>3, <1>4, <1>6 DEF CasesTyped, C, new

(* No Solution is trusted less after a write than before it has earned it. *)
Advances(ns, new) ==
    \A s \in DOMAIN ns :
        /\ s \in DOMAIN new
        /\ ns[s].type = "Solution" =>
              new[s].type = "Solution" /\ Rank(ns[s].status) <= Rank(new[s].status)

(* The statuses are ranked by numbers. *)
LEMMA Ranks ==
    \A status \in Statuses : Rank(status) \in 1..4
    BY DEF Rank, Statuses

(* Writes that advance one after the other advance together. *)
LEMMA AdvancesTwice ==
    ASSUME NEW ns, NEW mid, NEW new,
           ns \in Seq(Nodes), mid \in Seq(Nodes), new \in Seq(Nodes),
           Advances(ns, mid), Advances(mid, new)
    PROVE  Advances(ns, new)
<1>1. SUFFICES ASSUME NEW s \in DOMAIN ns
               PROVE  /\ s \in DOMAIN new
                      /\ ns[s].type = "Solution" =>
                            new[s].type = "Solution" /\ Rank(ns[s].status) <= Rank(new[s].status)
    BY DEF Advances
<1>2. s \in DOMAIN mid /\ s \in DOMAIN new
    BY DEF Advances
<1>3. \A x \in Nodes : Rank(x.status) \in 1..4
    BY Ranks DEF Nodes
<1>4. Rank(ns[s].status) \in 1..4 /\ Rank(mid[s].status) \in 1..4 /\ Rank(new[s].status) \in 1..4
    BY <1>2, <1>3
<1>5. ns[s].type = "Solution" =>
          /\ mid[s].type = "Solution" /\ new[s].type = "Solution"
          /\ Rank(ns[s].status) <= Rank(mid[s].status)
          /\ Rank(mid[s].status) <= Rank(new[s].status)
    BY <1>2 DEF Advances
<1> QED
    BY <1>2, <1>4, <1>5

(* A new node of a Case and its edges keep a graph sound, as long as the    *)
(* node is not a trusted Solution and nothing is superseded.                *)
LEMMA AppendKeeps ==
    ASSUME NEW cs, NEW ns, NEW es, Sound(cs, ns, es),
           NEW node \in Nodes, node.case \in DOMAIN cs,
           ~(node.type = "Solution" /\ node.status = "verified"),
           NEW wider, es \subseteq wider,
           wider \subseteq (1..Len(ns) + 1) \X Relations \X (1..Len(ns) + 1),
           \A e \in wider : e \in es \/ e[2] # "SUPERSEDES"
    PROVE  Sound(cs, Append(ns, node), wider) /\ Advances(ns, Append(ns, node))
<1> DEFINE new == Append(ns, node)
<1>1. ns \in Seq(Nodes) /\ DOMAIN ns = 1..Len(ns) /\ Len(ns) \in Nat
    BY DEF Sound, GraphTyped
<1>2. /\ new \in Seq(Nodes)
      /\ DOMAIN new = 1..Len(ns) + 1
      /\ new[Len(ns) + 1] = node
      /\ \A n \in DOMAIN ns : n \in DOMAIN new /\ new[n] = ns[n]
    BY <1>1
<1>3. \A n \in DOMAIN new : n \in DOMAIN ns \/ n = Len(ns) + 1
    BY <1>1, <1>2
<1> HIDE DEF new
<1>4. CasesTyped(cs) /\ GraphTyped(new, wider)
    BY <1>2 DEF Sound, GraphTyped
<1>5. NodesInCases(cs, new)
    BY <1>2, <1>3 DEF Sound, NodesInCases
<1>6. AllEarned(new, wider)
    <2>1. Grows(ns, es, new, wider)
        BY <1>2 DEF Grows
    <2> QED
        BY <1>2, <1>3, <2>1, EarnedStays DEF Sound, AllEarned
<1>7. CasesBacked(cs, new)
    BY <1>2 DEF Sound, CasesBacked, Trusted
<1>8. AllRetired(new, wider)
    <2>1. \A e \in es : e[3] \in DOMAIN ns
        BY DEF Sound, GraphTyped
    <2> QED
        BY <1>2, <2>1 DEF Sound, AllRetired
<1>9. Advances(ns, new)
    <2>1. \A x \in Nodes : Rank(x.status) \in 1..4
        BY Ranks DEF Nodes
    <2>2. \A n \in DOMAIN ns : Rank(ns[n].status) \in 1..4
        BY <1>1, <2>1
    <2> QED
        BY <1>2, <2>2 DEF Advances
<1> QED
    BY <1>4, <1>5, <1>6, <1>7, <1>8, <1>9 DEF Sound, new

(* What evaluate_promotion accepts has earned it. *)
LEMMA EligibleIsEarned ==
    ASSUME NEW ns, NEW es, GraphTyped(ns, es), NEW s \in DOMAIN ns, Eligible(ns, es, s)
    PROVE  Earned(ns, es, s)
<1>1. \A n, r : \A t \in Targets(es, n, r) : \E e \in es : e[1] = n /\ e[2] = r /\ e[3] = t
    BY DEF Targets
<1>2. AddressesVerified(ns, es, s)
    <2> DEFINE roots == RootsOf(ns, es, s)
    <2>1. roots # {} /\ ns[Oldest(roots)].status = "verified"
        BY DEF Eligible, RootVerified
    <2>2. roots \subseteq Nat
        <3>1. \A e \in es : e[3] \in DOMAIN ns
            BY DEF GraphTyped
        <3>2. DOMAIN ns \subseteq Nat
            BY DEF GraphTyped
        <3> QED
            BY <1>1, <3>1, <3>2 DEF RootsOf
    <2>3. Oldest(roots) \in roots
        BY <2>1, <2>2, OldestIsMember
    <2> QED
        BY <1>1, <2>1, <2>3 DEF RootsOf, AddressesVerified
<1>3. \A d \in VerificationsOf(ns, es, s) :
         \E e \in es : /\ e[1] = s /\ e[2] = "VERIFIED_BY"
                       /\ ns[e[3]].type = "Verification" /\ ns[e[3]].data = d
    BY <1>1 DEF VerificationsOf
<1>4. VerifiedBy(ns, es, s, "human", TRUE)
    BY <1>3 DEF Eligible, HumanConfirmed, VerifiedBy
<1>5. ns[s].data.exception \/ VerifiedBy(ns, es, s, "automated", FALSE)
    BY <1>3 DEF Eligible, Checked, VerifiedBy
<1> QED
    BY <1>2, <1>4, <1>5 DEF Eligible, Earned

(* Promotion keeps a graph sound. *)
LEMMA PromoteKeeps ==
    ASSUME NEW cs, NEW ns, NEW es, Sound(cs, ns, es), NEW c \in DOMAIN cs
    PROVE  LET promoted == Promote(cs, ns, es, c) IN
           /\ Sound(promoted.cases, promoted.nodes, es)
           /\ Advances(ns, promoted.nodes)
           /\ DOMAIN promoted.cases = DOMAIN cs
<1> DEFINE promotable == Promotable(ns, es, c)
           s == Newest(promotable)
           new == WithStatus(ns, s, "verified")
           changed == [cs EXCEPT ![c].status = "verified"]
<1>1. /\ CasesTyped(cs) /\ GraphTyped(ns, es) /\ ns \in Seq(Nodes)
      /\ DOMAIN ns = 1..Len(ns) /\ Len(ns) \in Nat
    BY DEF Sound, GraphTyped
<1>2. \A x \in Nodes : Rank(x.status) \in 1..4
    BY Ranks DEF Nodes
<1>3. \A n \in DOMAIN ns : Rank(ns[n].status) \in 1..4
    BY <1>1, <1>2
<1>4. CASE promotable = {}
    <2>1. Promote(cs, ns, es, c) = [cases |-> cs, nodes |-> ns]
        BY <1>4 DEF Promote
    <2>2. Advances(ns, ns)
        BY <1>3 DEF Advances
    <2> QED
        BY <2>1, <2>2
<1>5. CASE promotable # {}
    <2>1. Promote(cs, ns, es, c) = [cases |-> changed, nodes |-> new]
        BY <1>5 DEF Promote
    <2>2. s \in promotable
        BY <1>1, <1>5, NewestIsMember DEF Promotable
    <2>3. /\ s \in DOMAIN ns /\ ns[s].case = c /\ ns[s].type = "Solution"
          /\ ns[s].status \in {"candidate", "verified"} /\ Eligible(ns, es, s)
        BY <2>2 DEF Promotable, Active
    <2> HIDE DEF promotable, s
    <2>4. /\ new \in Seq(Nodes)
          /\ DOMAIN new = DOMAIN ns
          /\ \A m \in DOMAIN ns :
                /\ new[m].type = ns[m].type
                /\ new[m].case = ns[m].case
                /\ new[m].data = ns[m].data
                /\ new[m].status = IF m = s THEN "verified" ELSE ns[m].status
        BY <1>1, <2>3, StatusChange DEF Statuses
    <2>5. /\ CasesTyped(changed)
          /\ DOMAIN changed = DOMAIN cs
          /\ \A d \in DOMAIN cs : changed[d].status = IF d = c THEN "verified" ELSE cs[d].status
        BY <1>1, CaseChange DEF Statuses
    <2> HIDE DEF new, changed
    <2>6. GraphTyped(new, es) /\ NodesInCases(changed, new)
        BY <2>4, <2>5 DEF Sound, GraphTyped, NodesInCases
    <2>7. AllEarned(new, es)
        <3>1. Grows(ns, es, new, es)
            BY <2>3, <2>4 DEF Grows
        <3>2. \A t \in DOMAIN ns :
                 new[t].type = "Solution" /\ new[t].status = "verified" => Earned(ns, es, t)
            BY <1>1, <2>3, <2>4, EligibleIsEarned DEF Sound, AllEarned
        <3> QED
            BY <1>1, <2>4, <3>1, <3>2, EarnedStays DEF AllEarned
    <2>8. CasesBacked(changed, new)
        <3>1. \A d \in DOMAIN cs, t \in DOMAIN ns : Trusted(ns, d, t) => Trusted(new, d, t)
            BY <2>4 DEF Trusted
        <3>2. Trusted(new, c, s)
            BY <2>3, <2>4 DEF Trusted
        <3> QED
            BY <2>3, <2>4, <2>5, <3>1, <3>2 DEF Sound, CasesBacked
    <2>9. AllRetired(new, es)
        <3>1. \A e \in es : e[3] \in DOMAIN ns
            BY <1>1 DEF GraphTyped
        <3> QED
            BY <2>3, <2>4, <3>1 DEF Sound, AllRetired
    <2>10. Advances(ns, new)
        <3>1. Rank("candidate") <= Rank("verified") /\ Rank("verified") <= Rank("verified")
            BY DEF Rank
        <3> QED
            BY <1>3, <2>3, <2>4, <3>1 DEF Advances
    <2> QED
        BY <2>1, <2>5, <2>6, <2>7, <2>8, <2>9, <2>10 DEF Sound
<1> QED
    BY <1>4, <1>5

(* A human's confirmation of a root cause keeps a graph sound. *)
LEMMA RootKeeps ==
    ASSUME NEW cs, NEW ns, NEW es, Sound(cs, ns, es),
           NEW root \in DOMAIN ns, ns[root].type = "RootCause", ns[root].status # "retired"
    PROVE  /\ Sound(cs, WithStatus(ns, root, "verified"), es)
           /\ Advances(ns, WithStatus(ns, root, "verified"))
<1> DEFINE new == WithStatus(ns, root, "verified")
<1>1. ns \in Seq(Nodes)
    BY DEF Sound, GraphTyped
<1>2. /\ new \in Seq(Nodes)
      /\ DOMAIN new = DOMAIN ns
      /\ \A m \in DOMAIN ns :
            /\ new[m].type = ns[m].type
            /\ new[m].case = ns[m].case
            /\ new[m].data = ns[m].data
            /\ new[m].status = IF m = root THEN "verified" ELSE ns[m].status
    BY <1>1, StatusChange DEF Statuses
<1> HIDE DEF new
<1>3. CasesTyped(cs) /\ GraphTyped(new, es) /\ NodesInCases(cs, new)
    BY <1>2 DEF Sound, GraphTyped, NodesInCases
<1>4. AllEarned(new, es)
    <2>1. Grows(ns, es, new, es)
        BY <1>2 DEF Grows
    <2> QED
        BY <1>2, <2>1, EarnedStays DEF Sound, AllEarned
<1>5. CasesBacked(cs, new)
    BY <1>2 DEF Sound, CasesBacked, Trusted
<1>6. AllRetired(new, es)
    <2>1. \A e \in es : e[3] \in DOMAIN ns
        BY DEF Sound, GraphTyped
    <2> QED
        BY <1>2, <2>1 DEF Sound, AllRetired
<1>7. Advances(ns, new)
    <2>1. \A x \in Nodes : Rank(x.status) \in 1..4
        BY Ranks DEF Nodes
    <2>2. \A n \in DOMAIN ns : Rank(ns[n].status) \in 1..4
        BY <1>1, <2>1
    <2> QED
        BY <1>2, <2>2 DEF Advances
<1> QED
    BY <1>3, <1>4, <1>5, <1>6, <1>7 DEF Sound, new

--------------------------------------------------------------------------------
(* The writes *)

(* What every write leaves behind. *)
Kept ==
    /\ Sound(cases', nodes', edges')
    /\ Advances(nodes, nodes')
    /\ DOMAIN cases \subseteq DOMAIN cases'

(* The ends of edges among the nodes and the one that is added. *)
LEMMA EdgesOfNewNode ==
    ASSUME Sound(cases, nodes, edges)
    PROVE  /\ DOMAIN nodes = 1..Len(nodes) /\ Len(nodes) \in Nat
           /\ DOMAIN nodes \subseteq 1..Len(nodes) + 1
           /\ Len(nodes) + 1 \in 1..Len(nodes) + 1
           /\ edges \subseteq (1..Len(nodes) + 1) \X Relations \X (1..Len(nodes) + 1)
           /\ \A n \in DOMAIN nodes : nodes[n].case \in DOMAIN cases /\ nodes[n].case \in Nat
           /\ DOMAIN cases \subseteq Nat
<1>1. nodes \in Seq(Nodes) /\ edges \subseteq (DOMAIN nodes) \X Relations \X (DOMAIN nodes)
    BY DEF Sound, GraphTyped
<1>2. DOMAIN nodes = 1..Len(nodes) /\ Len(nodes) \in Nat
    BY <1>1
<1>3. DOMAIN nodes \subseteq 1..Len(nodes) + 1 /\ Len(nodes) + 1 \in 1..Len(nodes) + 1
    BY <1>2
<1>4. DOMAIN cases \subseteq Nat
    BY DEF Sound, CasesTyped
<1> QED
    BY <1>1, <1>2, <1>3, <1>4 DEF Sound, NodesInCases

(* A write that ends with a promotion keeps the graph it has built sound. *)
LEMMA CommitKeeps ==
    ASSUME Sound(cases, nodes, edges), NEW ns, NEW es, NEW c \in DOMAIN cases,
           Sound(cases, ns, es), Advances(nodes, ns), Commit(ns, es, c)
    PROVE  Kept
<1> DEFINE promoted == Promote(cases, ns, es, c)
<1>1. /\ Sound(promoted.cases, promoted.nodes, es)
      /\ Advances(ns, promoted.nodes)
      /\ DOMAIN promoted.cases = DOMAIN cases
    BY PromoteKeeps
<1>2. cases' = promoted.cases /\ nodes' = promoted.nodes /\ edges' = es
    BY DEF Commit
<1> HIDE DEF promoted
<1>3. Advances(nodes, nodes')
    BY <1>1, <1>2, AdvancesTwice DEF Sound, GraphTyped
<1> QED
    BY <1>1, <1>2, <1>3 DEF Kept

(* Problems in a new Case or an existing one. *)
LEMMA ProblemKeeps ==
    ASSUME Sound(cases, nodes, edges), NEW f \in Fingerprints \cup {NoFingerprint}
    PROVE  /\ \A title \in Titles : OpenCase(title, f) => Kept
           /\ \A c : JoinCase(c, f) => Kept
<1> DEFINE problem(c) == Node("Problem", c, "open", [fingerprint |-> f])
<1>1. \A c \in Nat : /\ problem(c) \in Nodes /\ problem(c).case = c
                     /\ problem(c).type = "Problem"
    BY DEF Node, Nodes, NodeTypes, Statuses, Data
<1>2. ASSUME NEW cs, NEW c \in DOMAIN cs, Sound(cs, nodes, edges), c \in Nat,
             AddProblem(c, f)
      PROVE  Sound(cs, nodes', edges') /\ Advances(nodes, nodes')
    <2>1. nodes' = Append(nodes, problem(c)) /\ edges' = edges
        BY <1>2 DEF AddProblem
    <2>2. problem(c) \in Nodes /\ problem(c).case \in DOMAIN cs /\ problem(c).type = "Problem"
        BY <1>1, <1>2
    <2> DEFINE node == problem(c)
    <2> HIDE DEF problem
    <2>3. edges \subseteq (1..Len(nodes) + 1) \X Relations \X (1..Len(nodes) + 1)
        BY EdgesOfNewNode
    <2>4. Sound(cs, Append(nodes, node), edges) /\ Advances(nodes, Append(nodes, node))
        BY <1>2, <2>2, <2>3, AppendKeeps
    <2> QED
        BY <2>1, <2>4
<1>3. ASSUME NEW title \in Titles, OpenCase(title, f)
      PROVE  Kept
    <2> DEFINE C == [title : Titles, status : Statuses]
    <2>1. cases \in Seq(C) /\ Case(title, "open") \in C /\ Case(title, "open").status = "open"
        BY DEF Sound, CasesTyped, Case, Statuses
    <2>2. cases' = Append(cases, Case(title, "open")) /\ AddProblem(Len(cases) + 1, f)
        BY <1>3 DEF OpenCase
    <2>3. /\ cases' \in Seq(C)
          /\ DOMAIN cases = 1..Len(cases) /\ Len(cases) \in Nat
          /\ DOMAIN cases' = 1..Len(cases) + 1
          /\ \A c \in DOMAIN cases : cases'[c] = cases[c]
          /\ cases'[Len(cases) + 1].status = "open"
        BY <2>1, <2>2
    <2> HIDE DEF C
    <2>4. Sound(cases', nodes, edges)
        <3>1. CasesTyped(cases')
            BY <2>3 DEF CasesTyped, C
        <3>2. \A c \in DOMAIN cases' : c \in DOMAIN cases \/ c = Len(cases) + 1
            BY <2>3
        <3>3. CasesBacked(cases', nodes)
            BY <2>3, <3>2 DEF Sound, CasesBacked
        <3>4. NodesInCases(cases', nodes)
            BY <2>3 DEF Sound, NodesInCases
        <3> QED
            BY <3>1, <3>3, <3>4 DEF Sound
    <2>5. Len(cases) + 1 \in DOMAIN cases' /\ Len(cases) + 1 \in Nat
        BY <2>3
    <2>6. DOMAIN cases \subseteq DOMAIN cases'
        BY <2>3
    <2> QED
        BY <1>2, <2>2, <2>4, <2>5, <2>6 DEF Kept
<1>4. ASSUME NEW c, JoinCase(c, f)
      PROVE  Kept
    <2>1. c \in DOMAIN cases /\ c \in Nat /\ AddProblem(c, f) /\ cases' = cases
        BY <1>4, EdgesOfNewNode DEF JoinCase, CaseIds
    <2> QED
        BY <1>2, <2>1 DEF Kept
<1> QED
    BY <1>3, <1>4

(* A new node of a Case among those that exist, in the form all record      *)
(* calls share.                                                             *)
LEMMA NewNodeKeeps ==
    ASSUME Sound(cases, nodes, edges),
           NEW c \in DOMAIN cases, NEW type \in NodeTypes, NEW status \in Statuses,
           NEW data \in Data, ~(type = "Solution" /\ status = "verified"),
           NEW new, \A e \in new : e \in (1..Len(nodes) + 1) \X (Relations \ {"SUPERSEDES"})
                                                          \X (1..Len(nodes) + 1)
    PROVE  LET ns == Append(nodes, Node(type, c, status, data)) IN
           Sound(cases, ns, edges \cup new) /\ Advances(nodes, ns)
<1> DEFINE node == Node(type, c, status, data)
           wider == edges \cup new
<1>1. c \in Nat
    BY EdgesOfNewNode
<1>2. /\ node \in Nodes /\ node.case \in DOMAIN cases
      /\ ~(node.type = "Solution" /\ node.status = "verified")
    BY <1>1 DEF Node, Nodes
<1>3. edges \subseteq wider
    OBVIOUS
<1>4. wider \subseteq (1..Len(nodes) + 1) \X Relations \X (1..Len(nodes) + 1)
    BY EdgesOfNewNode
<1>5. \A e \in wider : e \in edges \/ e[2] # "SUPERSEDES"
    OBVIOUS
<1> HIDE DEF node, wider
<1>6. Sound(cases, Append(nodes, node), wider) /\ Advances(nodes, Append(nodes, node))
    BY <1>2, <1>3, <1>4, <1>5, AppendKeeps
<1> QED
    BY <1>6 DEF node, wider

(* A node that a call refers to is one of the Case's. *)
LEMMA ReferredNode ==
    ASSUME Sound(cases, nodes, edges), NEW n, NEW c, NEW type, IsNode(n, c, type)
    PROVE  c \in DOMAIN cases /\ n \in DOMAIN nodes /\ n \in 1..Len(nodes) + 1
    BY EdgesOfNewNode DEF IsNode

(* Calls that record a node and end with it. *)
LEMMA PlainRecordKeeps ==
    ASSUME Sound(cases, nodes, edges), NEW c,
           \/ \E problem, previous : \E outcome \in Outcomes :
                  RecordAttempt(c, problem, previous, outcome)
           \/ \E verification : RecordArtifact(c, verification)
           \/ \E root : \E status \in {"candidate", "verified"} : RecordGuardrail(c, root, status)
    PROVE  Kept
<1> DEFINE n == Len(nodes) + 1
           Added(type, status, data, new) ==
               /\ nodes' = Append(nodes, Node(type, c, status, data))
               /\ edges' = edges \cup new
               /\ UNCHANGED cases
<1>1. n \in 1..Len(nodes) + 1
    BY EdgesOfNewNode
<1>2. ASSUME NEW type \in NodeTypes, NEW status \in Statuses, NEW data \in Data,
             ~(type = "Solution" /\ status = "verified"), c \in DOMAIN cases,
             NEW new, \A e \in new : e \in (1..Len(nodes) + 1) \X (Relations \ {"SUPERSEDES"})
                                                            \X (1..Len(nodes) + 1),
             Added(type, status, data, new)
      PROVE  Kept
    BY <1>2, NewNodeKeeps DEF Kept
<1> HIDE DEF Added
<1>3. ASSUME NEW problem, NEW previous, NEW outcome \in Outcomes,
             RecordAttempt(c, problem, previous, outcome)
      PROVE  Kept
    <2> DEFINE new == {<<n, "ATTEMPTS_TO_SOLVE", problem>>}
                      \cup {<<n, "PRECEDED_BY", p>> : p \in previous}
               status == IF outcome = "succeeded" THEN "candidate" ELSE "open"
    <2>1. c \in DOMAIN cases /\ problem \in 1..Len(nodes) + 1
        BY <1>3, ReferredNode DEF RecordAttempt
    <2>2. \A p \in previous : p \in 1..Len(nodes) + 1
        BY <1>3, EdgesOfNewNode DEF RecordAttempt, OfType
    <2>3. \A e \in new : e \in (1..Len(nodes) + 1) \X (Relations \ {"SUPERSEDES"})
                                              \X (1..Len(nodes) + 1)
        BY <1>1, <2>1, <2>2 DEF Relations
    <2>4. Added("Attempt", status, [outcome |-> outcome], new)
        BY <1>3 DEF RecordAttempt, Added
    <2>5. /\ status \in Statuses /\ [outcome |-> outcome] \in Data
          /\ "Attempt" \in NodeTypes /\ "Attempt" # "Solution"
        BY DEF Statuses, Data, NodeTypes
    <2> HIDE DEF new, status
    <2> QED
        BY <1>2, <2>1, <2>3, <2>4, <2>5
<1>4. ASSUME NEW verification, RecordArtifact(c, verification)
      PROVE  Kept
    <2> DEFINE new == {<<verification, "REFERENCES", n>>}
    <2>1. c \in DOMAIN cases /\ verification \in 1..Len(nodes) + 1
        BY <1>4, ReferredNode DEF RecordArtifact
    <2>2. \A e \in new : e \in (1..Len(nodes) + 1) \X (Relations \ {"SUPERSEDES"})
                                              \X (1..Len(nodes) + 1)
        BY <1>1, <2>1 DEF Relations
    <2>3. Added("Artifact", "candidate", NoData, new)
        BY <1>4 DEF RecordArtifact, Added
    <2>4. /\ "candidate" \in Statuses /\ NoData \in Data
          /\ "Artifact" \in NodeTypes /\ "Artifact" # "Solution"
        BY DEF Statuses, Data, NodeTypes
    <2> HIDE DEF new
    <2> QED
        BY <1>2, <2>1, <2>2, <2>3, <2>4
<1>5. ASSUME NEW root, NEW status \in {"candidate", "verified"}, RecordGuardrail(c, root, status)
      PROVE  Kept
    <2> DEFINE new == {<<n, "PREVENTS", root>>}
    <2>1. c \in DOMAIN cases /\ root \in 1..Len(nodes) + 1
        BY <1>5, ReferredNode DEF RecordGuardrail
    <2>2. \A e \in new : e \in (1..Len(nodes) + 1) \X (Relations \ {"SUPERSEDES"})
                                              \X (1..Len(nodes) + 1)
        BY <1>1, <2>1 DEF Relations
    <2>3. Added("Guardrail", status, NoData, new)
        BY <1>5 DEF RecordGuardrail, Added
    <2>4. /\ status \in Statuses /\ NoData \in Data
          /\ "Guardrail" \in NodeTypes /\ "Guardrail" # "Solution"
        BY DEF Statuses, Data, NodeTypes
    <2> HIDE DEF new
    <2> QED
        BY <1>2, <2>1, <2>2, <2>3, <2>4
<1> QED
    BY <1>3, <1>4, <1>5

(* Calls that record a node and promote what it completes. *)
LEMMA PromotingRecordKeeps ==
    ASSUME Sound(cases, nodes, edges), NEW c,
           \/ \E problem, failed : \E status \in {"candidate", "verified"} :
                  RecordRootCause(c, problem, failed, status)
           \/ \E root : \E data \in SolutionData : RecordSolution(c, root, data)
           \/ \E solution : \E data \in VerificationData : RecordVerification(c, solution, data)
    PROVE  Kept
<1> DEFINE n == Len(nodes) + 1
           Added(type, status, data, new) ==
               Commit(Append(nodes, Node(type, c, status, data)), edges \cup new, c)
<1>1. n \in 1..Len(nodes) + 1
    BY EdgesOfNewNode
<1>2. ASSUME NEW type \in NodeTypes, NEW status \in Statuses, NEW data \in Data,
             ~(type = "Solution" /\ status = "verified"), c \in DOMAIN cases,
             NEW new, \A e \in new : e \in (1..Len(nodes) + 1) \X (Relations \ {"SUPERSEDES"})
                                                            \X (1..Len(nodes) + 1),
             Added(type, status, data, new)
      PROVE  Kept
    <2> DEFINE ns == Append(nodes, Node(type, c, status, data))
               es == edges \cup new
    <2>1. Sound(cases, ns, es) /\ Advances(nodes, ns)
        BY <1>2, NewNodeKeeps
    <2>2. Commit(ns, es, c)
        BY <1>2
    <2> HIDE DEF ns, es
    <2> QED
        BY <1>2, <2>1, <2>2, CommitKeeps
<1> HIDE DEF Added
<1>3. ASSUME NEW problem, NEW failed, NEW status \in {"candidate", "verified"},
             RecordRootCause(c, problem, failed, status)
      PROVE  Kept
    <2> DEFINE new == {<<n, "CAUSES", problem>>} \cup {<<a, "FAILED_BECAUSE", n>> : a \in failed}
    <2>1. c \in DOMAIN cases /\ problem \in 1..Len(nodes) + 1
        BY <1>3, ReferredNode DEF RecordRootCause
    <2>2. \A a \in failed : a \in 1..Len(nodes) + 1
        BY <1>3, EdgesOfNewNode DEF RecordRootCause, OfType
    <2>3. \A e \in new : e \in (1..Len(nodes) + 1) \X (Relations \ {"SUPERSEDES"})
                                              \X (1..Len(nodes) + 1)
        BY <1>1, <2>1, <2>2 DEF Relations
    <2>4. Added("RootCause", status, NoData, new)
        <3>1. edges \cup {<<n, "CAUSES", problem>>} \cup {<<a, "FAILED_BECAUSE", n>> : a \in failed}
              = edges \cup new
            OBVIOUS
        <3> QED
            BY <1>3, <3>1 DEF RecordRootCause, Added
    <2>5. /\ status \in Statuses /\ NoData \in Data
          /\ "RootCause" \in NodeTypes /\ "RootCause" # "Solution"
        BY DEF Statuses, Data, NodeTypes
    <2> HIDE DEF new
    <2> QED
        BY <1>2, <2>1, <2>3, <2>4, <2>5
<1>4. ASSUME NEW root, NEW data \in SolutionData, RecordSolution(c, root, data)
      PROVE  Kept
    <2> DEFINE new == {<<n, "ADDRESSES", root>>}
    <2>1. c \in DOMAIN cases /\ root \in 1..Len(nodes) + 1
        BY <1>4, ReferredNode DEF RecordSolution
    <2>2. \A e \in new : e \in (1..Len(nodes) + 1) \X (Relations \ {"SUPERSEDES"})
                                              \X (1..Len(nodes) + 1)
        BY <1>1, <2>1 DEF Relations
    <2>3. Added("Solution", "candidate", data, new)
        BY <1>4 DEF RecordSolution, Added
    <2>4. "candidate" \in Statuses /\ data \in Data /\ "Solution" \in NodeTypes
        BY DEF Statuses, Data, NodeTypes
    <2> HIDE DEF new
    <2> QED
        BY <1>2, <2>1, <2>2, <2>3, <2>4
<1>5. ASSUME NEW solution, NEW data \in VerificationData, RecordVerification(c, solution, data)
      PROVE  Kept
    <2> DEFINE new == {<<solution, "VERIFIED_BY", n>>}
               status == IF data.succeeded THEN "verified" ELSE "open"
    <2>1. c \in DOMAIN cases /\ solution \in 1..Len(nodes) + 1
        BY <1>5, ReferredNode DEF RecordVerification
    <2>2. \A e \in new : e \in (1..Len(nodes) + 1) \X (Relations \ {"SUPERSEDES"})
                                              \X (1..Len(nodes) + 1)
        BY <1>1, <2>1 DEF Relations
    <2>3. Added("Verification", status, data, new)
        BY <1>5 DEF RecordVerification, Added
    <2>4. /\ status \in Statuses /\ data \in Data
          /\ "Verification" \in NodeTypes /\ "Verification" # "Solution"
        BY DEF Statuses, Data, NodeTypes
    <2> HIDE DEF new, status
    <2> QED
        BY <1>2, <2>1, <2>2, <2>3, <2>4
<1> QED
    BY <1>3, <1>4, <1>5

(* Confirming a root cause and closing a Case only promote. *)
LEMMA ConfirmationKeeps ==
    ASSUME Sound(cases, nodes, edges), NEW c,
           (\E root : PromoteRootCause(c, root)) \/ CloseCase(c)
    PROVE  Kept
<1>1. ASSUME NEW root, PromoteRootCause(c, root)
      PROVE  Kept
    <2>1. /\ root \in DOMAIN nodes /\ c \in DOMAIN cases /\ nodes[root].type = "RootCause"
          /\ nodes[root].status # "retired"
          /\ Commit(WithStatus(nodes, root, "verified"), edges, c)
        BY <1>1, ReferredNode DEF PromoteRootCause, IsNode
    <2> DEFINE ns == WithStatus(nodes, root, "verified")
    <2>2. Sound(cases, ns, edges) /\ Advances(nodes, ns)
        BY <2>1, RootKeeps
    <2> QED
        BY <2>1, <2>2, CommitKeeps
<1>2. ASSUME CloseCase(c)
      PROVE  Kept
    <2>1. c \in DOMAIN cases /\ Commit(nodes, edges, c)
        BY <1>2 DEF CloseCase, CaseIds
    <2>2. Advances(nodes, nodes)
        <3>1. \A x \in Nodes : Rank(x.status) \in 1..4
            BY Ranks DEF Nodes
        <3>2. \A n \in DOMAIN nodes : Rank(nodes[n].status) \in 1..4
            BY <3>1 DEF Sound, GraphTyped
        <3> QED
            BY <3>2 DEF Advances
    <2> QED
        BY <2>1, <2>2, CommitKeeps
<1> QED
    BY <1>1, <1>2

(* Nothing is less trusted when no node changes. *)
LEMMA SameNodesAdvance ==
    ASSUME Sound(cases, nodes, edges), nodes' = nodes
    PROVE  Advances(nodes, nodes')
<1>1. \A x \in Nodes : Rank(x.status) \in 1..4
    BY Ranks DEF Nodes
<1>2. \A n \in DOMAIN nodes : Rank(nodes[n].status) \in 1..4
    BY <1>1 DEF Sound, GraphTyped
<1> QED
    BY <1>2 DEF Advances

(* A regression takes the trust from a Solution and from its Case. *)
LEMMA RegressionKeeps ==
    ASSUME Sound(cases, nodes, edges), NEW c, NEW solution, NEW f, MarkRegression(c, solution, f)
    PROVE  Kept
<1>1. /\ solution \in DOMAIN nodes /\ c \in DOMAIN cases
      /\ nodes[solution].type = "Solution" /\ nodes[solution].case = c
      /\ nodes[solution].status = "verified"
      /\ nodes' = WithStatus(nodes, solution, "regressed")
      /\ cases' = [cases EXCEPT ![c].status = "regressed"]
      /\ edges' = edges
    BY ReferredNode DEF MarkRegression, IsNode
<1>2. nodes \in Seq(Nodes) /\ CasesTyped(cases)
    BY DEF Sound, GraphTyped
<1>3. /\ nodes' \in Seq(Nodes)
      /\ DOMAIN nodes' = DOMAIN nodes
      /\ \A m \in DOMAIN nodes :
            /\ nodes'[m].type = nodes[m].type
            /\ nodes'[m].case = nodes[m].case
            /\ nodes'[m].data = nodes[m].data
            /\ nodes'[m].status = IF m = solution THEN "regressed" ELSE nodes[m].status
    <2> DEFINE new == WithStatus(nodes, solution, "regressed")
    <2>1. /\ new \in Seq(Nodes)
          /\ DOMAIN new = DOMAIN nodes
          /\ \A m \in DOMAIN nodes :
                /\ new[m].type = nodes[m].type
                /\ new[m].case = nodes[m].case
                /\ new[m].data = nodes[m].data
                /\ new[m].status = IF m = solution THEN "regressed" ELSE nodes[m].status
        BY <1>1, <1>2, StatusChange DEF Statuses
    <2>2. nodes' = new
        BY <1>1, <1>2
    <2> HIDE DEF new
    <2> QED
        BY <2>1, <2>2
<1>4. /\ CasesTyped(cases')
      /\ DOMAIN cases' = DOMAIN cases
      /\ \A d \in DOMAIN cases : cases'[d].status = IF d = c THEN "regressed" ELSE cases[d].status
    BY <1>1, <1>2, CaseChange DEF Statuses
<1>5. GraphTyped(nodes', edges') /\ NodesInCases(cases', nodes')
    BY <1>1, <1>3, <1>4 DEF Sound, GraphTyped, NodesInCases
<1>6. AllEarned(nodes', edges')
    <2>1. Grows(nodes, edges, nodes', edges')
        BY <1>1, <1>3 DEF Grows
    <2> QED
        BY <1>3, <2>1, EarnedStays DEF Sound, AllEarned
<1>7. CasesBacked(cases', nodes')
    <2>1. \A d \in DOMAIN cases, t \in DOMAIN nodes :
             d # c /\ Trusted(nodes, d, t) => Trusted(nodes', d, t)
        BY <1>1, <1>3 DEF Trusted
    <2> QED
        BY <1>3, <1>4, <2>1 DEF Sound, CasesBacked
<1>8. AllRetired(nodes', edges')
    <2>1. \A e \in edges : e[3] \in DOMAIN nodes
        BY DEF Sound, GraphTyped
    <2> QED
        BY <1>1, <1>3, <2>1 DEF Sound, AllRetired
<1>9. Advances(nodes, nodes')
    <2>1. \A x \in Nodes : Rank(x.status) \in 1..4
        BY Ranks DEF Nodes
    <2>2. \A n \in DOMAIN nodes : Rank(nodes[n].status) \in 1..4
        BY <1>2, <2>1
    <2>3. Rank("verified") <= Rank("regressed")
        BY DEF Rank
    <2> QED
        BY <1>1, <1>3, <2>2, <2>3 DEF Advances
<1> QED
    BY <1>4, <1>5, <1>6, <1>7, <1>8, <1>9 DEF Sound, Kept

(* A Solution is superseded by one that is trusted at least as much, so that *)
(* its Case keeps a trusted Solution.                                        *)
LEMMA SupersessionKeeps ==
    ASSUME Sound(cases, nodes, edges), NEW c, NEW prior, NEW replacement,
           SupersedeSolution(c, prior, replacement)
    PROVE  Kept
<1>1. /\ prior # replacement /\ cases' = cases
      /\ prior \in DOMAIN nodes /\ replacement \in DOMAIN nodes
      /\ nodes[prior].case = c /\ nodes[replacement].case = c
      /\ nodes[replacement].type = "Solution"
      /\ nodes[prior].type = "Solution"
      /\ nodes[prior].status = "verified" => nodes[replacement].status = "verified"
    BY DEF SupersedeSolution, IsNode, Replacement
<1>2. CASE nodes' = nodes /\ edges' = edges
    BY <1>1, <1>2, SameNodesAdvance DEF Kept
<1>3. CASE /\ nodes' = WithStatus(nodes, prior, "retired")
           /\ edges' = edges \cup {<<replacement, "SUPERSEDES", prior>>}
    <2>1. nodes \in Seq(Nodes) /\ edges \subseteq (DOMAIN nodes) \X Relations \X (DOMAIN nodes)
        BY DEF Sound, GraphTyped
    <2>2. /\ nodes' \in Seq(Nodes)
          /\ DOMAIN nodes' = DOMAIN nodes
          /\ \A m \in DOMAIN nodes :
                /\ nodes'[m].type = nodes[m].type
                /\ nodes'[m].case = nodes[m].case
                /\ nodes'[m].data = nodes[m].data
                /\ nodes'[m].status = IF m = prior THEN "retired" ELSE nodes[m].status
        <3> DEFINE new == WithStatus(nodes, prior, "retired")
        <3>1. /\ new \in Seq(Nodes)
              /\ DOMAIN new = DOMAIN nodes
              /\ \A m \in DOMAIN nodes :
                    /\ new[m].type = nodes[m].type
                    /\ new[m].case = nodes[m].case
                    /\ new[m].data = nodes[m].data
                    /\ new[m].status = IF m = prior THEN "retired" ELSE nodes[m].status
            BY <1>1, <1>3, <2>1, StatusChange DEF Statuses
        <3>2. nodes' = new
            BY <1>1, <1>3
        <3> HIDE DEF new
        <3> QED
            BY <3>1, <3>2
    <2>3. edges' \subseteq (DOMAIN nodes') \X Relations \X (DOMAIN nodes')
        BY <1>1, <1>3, <2>1, <2>2 DEF Relations
    <2>4. CasesTyped(cases') /\ GraphTyped(nodes', edges') /\ NodesInCases(cases', nodes')
        BY <1>1, <2>2, <2>3 DEF Sound, GraphTyped, NodesInCases
    <2>5. AllEarned(nodes', edges')
        <3>1. Grows(nodes, edges, nodes', edges')
            BY <1>1, <1>3, <2>2 DEF Grows
        <3> QED
            BY <2>2, <3>1, EarnedStays DEF Sound, AllEarned
    <2>6. CasesBacked(cases', nodes')
        <3>1. \A d \in DOMAIN cases, t \in DOMAIN nodes :
                 t # prior /\ Trusted(nodes, d, t) => Trusted(nodes', d, t)
            BY <2>2 DEF Trusted
        <3>2. \A d \in DOMAIN cases :
                 Trusted(nodes, d, prior) => Trusted(nodes, d, replacement)
            BY <1>1 DEF Trusted
        <3> QED
            BY <1>1, <2>2, <3>1, <3>2 DEF Sound, CasesBacked
    <2>7. AllRetired(nodes', edges')
        <3>1. \A e \in edges' : e \in edges \/ e[3] = prior
            BY <1>3
        <3>2. \A e \in edges : e[3] \in DOMAIN nodes
            BY <2>1
        <3> QED
            BY <1>1, <2>2, <3>1, <3>2 DEF Sound, AllRetired
    <2>8. Advances(nodes, nodes')
        <3>1. \A x \in Nodes : Rank(x.status) \in 1..4
            BY Ranks DEF Nodes
        <3>2. \A n \in DOMAIN nodes : Rank(nodes[n].status) \in 1..4
            BY <2>1, <3>1
        <3>3. Rank("retired") = 4
            BY DEF Rank
        <3> QED
            BY <1>1, <2>2, <3>2, <3>3 DEF Advances
    <2>9. Sound(cases', nodes', edges')
        BY <2>4, <2>5, <2>6, <2>7 DEF Sound
    <2> QED
        BY <1>1, <2>8, <2>9 DEF Kept
<1> QED
    BY <1>2, <1>3 DEF SupersedeSolution

(* A merge retires its source Case, whatever its status. *)
LEMMA MergeKeeps ==
    ASSUME Sound(cases, nodes, edges), NEW p, p[1] \in DOMAIN cases, ApplyCaseMerge(p)
    PROVE  Kept /\ DOMAIN cases' = DOMAIN cases
<1>1. cases' = [cases EXCEPT ![p[1]].status = "retired"] /\ nodes' = nodes /\ edges' = edges
    BY DEF ApplyCaseMerge
<1>2. /\ CasesTyped(cases')
      /\ DOMAIN cases' = DOMAIN cases
      /\ \A d \in DOMAIN cases : cases'[d].status = IF d = p[1] THEN "retired" ELSE cases[d].status
    BY <1>1, CaseChange DEF Sound, Statuses
<1>3. NodesInCases(cases', nodes') /\ CasesBacked(cases', nodes')
    BY <1>1, <1>2 DEF Sound, NodesInCases, CasesBacked
<1>4. Sound(cases', nodes', edges')
    BY <1>1, <1>2, <1>3 DEF Sound
<1> QED
    BY <1>1, <1>2, <1>4, SameNodesAdvance DEF Kept

--------------------------------------------------------------------------------
(* Every step *)

(* Every write keeps the graph sound and the statuses advancing. *)
LEMMA StepKeeps ==
    ASSUME IInv, Next
    PROVE  Kept
<1>1. Sound(cases, nodes, edges)
    BY DEF IInv
<1>2. ASSUME NEW title \in Titles, NEW f \in Fingerprints \cup {NoFingerprint}, OpenCase(title, f)
      PROVE  Kept
    BY <1>1, <1>2, ProblemKeeps
<1>3. ASSUME NEW c \in CaseIds, Record(c)
      PROVE  Kept
    <2>1. CASE \E f \in Fingerprints \cup {NoFingerprint} : JoinCase(c, f)
        BY <1>1, <2>1, ProblemKeeps
    <2>2. CASE \E problem \in DOMAIN nodes :
                  \/ \E previous \in SUBSET OfType(c, "Attempt"), outcome \in Outcomes :
                        RecordAttempt(c, problem, previous, outcome)
                  \/ \E failed \in SUBSET OfType(c, "Attempt"),
                        status \in {"candidate", "verified"} :
                        RecordRootCause(c, problem, failed, status)
        BY <1>1, <2>2, PlainRecordKeeps, PromotingRecordKeeps
    <2>3. CASE \E root \in DOMAIN nodes :
                  \/ PromoteRootCause(c, root)
                  \/ \E data \in SolutionData : RecordSolution(c, root, data)
                  \/ \E status \in {"candidate", "verified"} : RecordGuardrail(c, root, status)
        BY <1>1, <2>3, ConfirmationKeeps, PlainRecordKeeps, PromotingRecordKeeps
    <2>4. CASE \E solution \in DOMAIN nodes, data \in VerificationData :
                  RecordVerification(c, solution, data)
        BY <1>1, <2>4, PromotingRecordKeeps
    <2>5. CASE \E verification \in DOMAIN nodes : RecordArtifact(c, verification)
        BY <1>1, <2>5, PlainRecordKeeps
    <2> QED
        BY <1>3, <2>1, <2>2, <2>3, <2>4, <2>5 DEF Record
<1>4. ASSUME NEW c \in CaseIds, Curate(c)
      PROVE  Kept
    BY <1>1, <1>4, ConfirmationKeeps, RegressionKeeps, SupersessionKeeps DEF Curate
<1>5. ASSUME NEW limit \in 1..MaxProposals, SuggestCaseMerges(limit)
      PROVE  Kept
    BY <1>1, <1>5, SameNodesAdvance DEF SuggestCaseMerges, Kept
<1>6. ASSUME NEW p \in proposals, ApplyCaseMerge(p)
      PROVE  Kept
    <2>1. p[1] \in DOMAIN cases
        BY DEF IInv, MergesTyped, CaseIds
    <2> QED
        BY <1>1, <1>6, <2>1, MergeKeeps
<1> QED
    BY <1>2, <1>3, <1>4, <1>5, <1>6 DEF Next

(* Every write keeps proposals, merges and supersessions in step. *)
LEMMA StepKeepsMerges ==
    ASSUME IInv, Next
    PROVE  MergesTyped'
<1>1. CaseIds \subseteq CaseIds'
    BY StepKeeps DEF Kept, CaseIds
<1>2. MergesTyped
    BY DEF IInv
<1>3. CASE UNCHANGED mergeVars /\ published' \in BOOLEAN
    BY <1>1, <1>2, <1>3 DEF MergesTyped, mergeVars
<1>4. ASSUME NEW title \in Titles, NEW f \in Fingerprints \cup {NoFingerprint}, OpenCase(title, f)
      PROVE  MergesTyped'
    BY <1>3, <1>4 DEF OpenCase, AddProblem
<1>5. ASSUME NEW c \in CaseIds, Record(c)
      PROVE  MergesTyped'
    BY <1>3, <1>5 DEF Record, JoinCase, AddProblem, RecordAttempt, RecordRootCause,
                      PromoteRootCause, RecordSolution, RecordVerification, RecordArtifact,
                      RecordGuardrail
<1>6. ASSUME NEW c \in CaseIds, Curate(c)
      PROVE  MergesTyped'
    BY <1>3, <1>6 DEF Curate, CloseCase, MarkRegression, SupersedeSolution
<1>7. ASSUME NEW limit \in 1..MaxProposals, SuggestCaseMerges(limit)
      PROVE  MergesTyped'
    <2>1. proposals' \subseteq CaseIds \X CaseIds
        BY <1>2, <1>7 DEF MergesTyped, SuggestCaseMerges, Similar
    <2>2. proposals \subseteq proposals'
        BY <1>7 DEF SuggestCaseMerges
    <2>3. CaseIds' = CaseIds
        BY <1>7 DEF SuggestCaseMerges, CaseIds
    <2> QED
        BY <1>2, <1>7, <2>1, <2>2, <2>3 DEF MergesTyped, SuggestCaseMerges
<1>8. ASSUME NEW p \in proposals, ApplyCaseMerge(p)
      PROVE  MergesTyped'
    <2>1. supersessions' \subseteq supersessions \cup {p}
        BY <1>8 DEF ApplyCaseMerge, Supersession
    <2> QED
        BY <1>1, <1>2, <1>8, <2>1 DEF MergesTyped, ApplyCaseMerge
<1> QED
    BY <1>4, <1>5, <1>6, <1>7, <1>8 DEF Next

(* The inductive invariant holds of every behavior. *)
THEOREM InvariantCorrect == Spec => []IInv
<1>1. ASSUME Init
      PROVE  IInv
    <2>1. cases = <<>> /\ nodes = <<>> /\ edges = {} /\ MergesTyped
        BY <1>1 DEF Init, MergesTyped
    <2>2. DOMAIN cases = {} /\ DOMAIN nodes = {}
        BY <2>1
    <2>3. CasesTyped(cases) /\ GraphTyped(nodes, edges)
        BY <2>1 DEF CasesTyped, GraphTyped
    <2>4. NodesInCases(cases, nodes) /\ AllEarned(nodes, edges) /\ CasesBacked(cases, nodes)
        BY <2>2 DEF NodesInCases, AllEarned, CasesBacked
    <2>5. AllRetired(nodes, edges)
        BY <2>1 DEF AllRetired
    <2> QED
        BY <2>1, <2>3, <2>4, <2>5 DEF IInv, Sound
<1>2. IInv /\ [Next]_vars => IInv'
    <2>1. ASSUME IInv, Next
          PROVE  IInv'
        <3>1. Sound(cases', nodes', edges')
            BY <2>1, StepKeeps DEF Kept
        <3>2. MergesTyped'
            BY <2>1, StepKeepsMerges
        <3> QED
            BY <3>1, <3>2 DEF IInv
    <2>2. ASSUME IInv, UNCHANGED vars
          PROVE  IInv'
        BY <2>2 DEF vars, IInv, MergesTyped, CaseIds
    <2> QED
        BY <2>1, <2>2
<1> QED
    BY <1>1, <1>2, PTL DEF Spec

(* Cases, nodes, edges and merges keep their types, and every node and edge *)
(* belongs to what it refers to.                                            *)
THEOREM TypeCorrect == Spec => []TypeOK
<1>1. IInv => TypeOK
    BY DEF IInv, TypeOK, Sound, CasesTyped, GraphTyped, MergesTyped
<1> QED
    BY <1>1, InvariantCorrect, PTL

(* A verified Solution always has the evidence that evaluate_promotion asks *)
(* for, whatever is recorded, retired or regressed afterwards.              *)
THEOREM VerifiedIsEarnedCorrect == Spec => []VerifiedIsEarned
<1>1. IInv => VerifiedIsEarned
    BY DEF IInv, VerifiedIsEarned, Sound, AllEarned, IsSolution
<1> QED
    BY <1>1, InvariantCorrect, PTL

(* A verified Case always has a verified Solution: neither a regression nor *)
(* a supersession leaves it without.                                        *)
THEOREM VerifiedCaseCorrect == Spec => []VerifiedCaseHasSolution
<1>1. IInv => VerifiedCaseHasSolution
    <2>1. ASSUME IInv, NEW c \in CaseIds, cases[c].status = "verified"
          PROVE  \E s \in DOMAIN nodes : IsNode(s, c, "Solution") /\ nodes[s].status = "verified"
        BY <2>1 DEF IInv, Sound, CasesBacked, Trusted, IsNode, CaseIds
    <2> QED
        BY <2>1 DEF VerifiedCaseHasSolution
<1> QED
    BY <1>1, InvariantCorrect, PTL

(* A superseded Solution stays retired. *)
THEOREM SupersededCorrect == Spec => []SupersededIsRetired
<1>1. IInv => SupersededIsRetired
    BY DEF IInv, SupersededIsRetired, Sound, AllRetired
<1> QED
    BY <1>1, InvariantCorrect, PTL

(* No write makes a Solution less advanced than it was: what regressed or   *)
(* was retired is never trusted again.                                      *)
THEOREM StatusAdvances == Spec => StatusOnlyAdvances
<1>1. IInv /\ [Next]_vars =>
          [\A s \in DOMAIN nodes :
              IsSolution(s) => Rank(nodes[s].status) <= Rank(nodes'[s].status)]_vars
    <2>1. ASSUME IInv, Next
          PROVE  \A s \in DOMAIN nodes :
                    IsSolution(s) => Rank(nodes[s].status) <= Rank(nodes'[s].status)
        BY <2>1, StepKeeps DEF Kept, Advances, IsSolution
    <2> QED
        BY <2>1
<1> QED
    BY <1>1, InvariantCorrect, PTL DEF Spec, StatusOnlyAdvances

--------------------------------------------------------------------------------
(* Promotion by the write that completes the evidence *)

(* A Solution addresses root causes of its own Case, so that what a write    *)
(* adds to one Case completes nothing in another.                           *)
Related(ns, es) == \A e \in es : e[2] = "ADDRESSES" => ns[e[1]].case = ns[e[3]].case

(* The graph a write has built before it promotes: what is there stays, and  *)
(* evidence is added to Solutions of the given Case alone (0 for none).     *)
SameNodes(ns, new) ==
    /\ DOMAIN ns \subseteq DOMAIN new
    /\ \A n \in DOMAIN ns :
          new[n].type = ns[n].type /\ new[n].case = ns[n].case /\ new[n].data = ns[n].data
Elsewhere(ns, es, c) ==
    /\ SameNodes(nodes, ns) /\ edges \subseteq es
    /\ \A n \in DOMAIN nodes :
          nodes[n].type = "RootCause" /\ nodes[n].case # c => ns[n].status = nodes[n].status
    /\ \A e \in es \ edges :
          /\ e[2] = "VERIFIED_BY" /\ e[1] \in DOMAIN nodes => nodes[e[1]].case = c
          /\ e[2] = "ADDRESSES" => e[1] \notin DOMAIN nodes /\ ns[e[1]].case = ns[e[3]].case
Builds ==
    \E ns, es, c :
        /\ Elsewhere(ns, es, c)
        /\ \/ c = 0 /\ nodes' = ns /\ edges' = es
           \/ /\ c \in DOMAIN cases /\ GraphTyped(ns, es) /\ Commit(ns, es, c)
              /\ \A s \in DOMAIN nodes : nodes[s].type = "Solution" => ns[s].status = nodes[s].status

LEMMA NewestIsLast ==
    ASSUME NEW k \in Nat, NEW S, S \subseteq 1..k, S # {}
    PROVE  \A n \in S : n <= Newest(S)
<1> DEFINE T == {n..k : n \in S}
<1>1. T \subseteq FiniteSubsetsOf(Nat)
    <2>1. \A x \in S : x..k \subseteq Nat /\ IsFiniteSet(x..k)
        BY FS_Interval
    <2> QED
        BY <2>1 DEF FiniteSubsetsOf
<1>2. T # {}
    OBVIOUS
<1> HIDE DEF T
<1>3. PICK i \in T : \A y \in T : y \subseteq i => y = i
    BY <1>1, <1>2, SmallestInterval
<1>4. PICK x \in S : i = x..k
    BY DEF T
<1>5. \A y \in S : y..k \in T
    BY DEF T
<1>6. ASSUME NEW y \in S, x < y
      PROVE  FALSE
    <2>1. x \in 1..k /\ y \in 1..k
        OBVIOUS
    <2>2. y..k \subseteq x..k /\ x \in x..k /\ x \notin y..k
        BY <1>6, <2>1
    <2> QED
        BY <1>3, <1>4, <1>5, <2>2
<1>7. \A y \in S : y <= x
    BY <1>6
<1> QED
    BY <1>7 DEF Newest

(* A Solution is as complete as the nodes it refers to let it be.           *)
LEMMA EligibleSame ==
    ASSUME NEW ns, NEW es, GraphTyped(ns, es), NEW new, NEW more, SameNodes(ns, new),
           NEW s \in DOMAIN ns,
           Targets(more, s, "ADDRESSES") = Targets(es, s, "ADDRESSES"),
           Targets(more, s, "VERIFIED_BY") = Targets(es, s, "VERIFIED_BY"),
           \A r \in Targets(es, s, "ADDRESSES") : ns[r].type = "RootCause" => new[r].status = ns[r].status,
           Eligible(new, more, s)
    PROVE  Eligible(ns, es, s)
<1>1. \A relation : Targets(es, s, relation) \subseteq DOMAIN ns
    BY DEF GraphTyped, Targets
<1>2. RootsOf(new, more, s) = RootsOf(ns, es, s)
    BY <1>1 DEF RootsOf, SameNodes
<1>3. VerificationsOf(new, more, s) = VerificationsOf(ns, es, s)
    BY <1>1 DEF VerificationsOf, SameNodes
<1>4. RootVerified(ns, es, s)
    <2>1. RootsOf(ns, es, s) # {} /\ new[Oldest(RootsOf(ns, es, s))].status = "verified"
        BY <1>2 DEF Eligible, RootVerified
    <2>2. RootsOf(ns, es, s) \subseteq Nat
        <3>1. DOMAIN ns \subseteq Nat
            BY DEF GraphTyped
        <3> QED
            BY <1>1, <3>1 DEF RootsOf
    <2>3. Oldest(RootsOf(ns, es, s)) \in RootsOf(ns, es, s)
        BY <2>1, <2>2, OldestIsMember
    <2>4. \A r \in RootsOf(ns, es, s) : new[r].status = ns[r].status
        BY DEF RootsOf
    <2> QED
        BY <2>1, <2>3, <2>4 DEF RootVerified
<1>5. new[s].data = ns[s].data
    BY DEF SameNodes
<1> QED
    BY <1>3, <1>4, <1>5 DEF Eligible, Checked, HumanPresent, HumanConfirmed

(* A write completes nothing in another Case.                               *)
LEMMA ElsewhereComplete ==
    ASSUME Sound(cases, nodes, edges), Related(nodes, edges), NEW ns, NEW es, NEW c, Elsewhere(ns, es, c),
           NEW s \in DOMAIN nodes, nodes[s].case # c, Eligible(ns, es, s)
    PROVE  Eligible(nodes, edges, s)
<1>1. \A r \in {"ADDRESSES", "VERIFIED_BY"}, e \in es : e[1] = s /\ e[2] = r => e \in edges
    BY DEF Elsewhere
<1>2. \A r \in {"ADDRESSES", "VERIFIED_BY"} : Targets(es, s, r) = Targets(edges, s, r)
    BY <1>1 DEF Elsewhere, Targets
<1>3. \A r \in Targets(edges, s, "ADDRESSES") : r \in DOMAIN nodes /\ nodes[r].case = nodes[s].case
    <2>1. \A e \in edges : e[3] \in DOMAIN nodes
        BY DEF Sound, GraphTyped
    <2> QED
        BY <2>1 DEF Related, Targets
<1> QED
    BY <1>2, <1>3, EligibleSame DEF Sound, Elsewhere

(* The promotion that ends a write.                                         *)
LEMMA PromotionEnds ==
    ASSUME CasesTyped(cases), NEW ns, NEW es, GraphTyped(ns, es), NEW c \in DOMAIN cases, Commit(ns, es, c)
    PROVE  /\ SameNodes(ns, nodes') /\ DOMAIN nodes' = DOMAIN ns /\ edges' = es
           /\ \A n \in DOMAIN ns : ns[n].type # "Solution" => nodes'[n].status = ns[n].status
           /\ \A s \in Promotable(ns, es, c) :
                 \E t \in DOMAIN nodes' : /\ t >= s /\ nodes'[t].type = "Solution" /\ nodes'[t].case = c
                                          /\ nodes'[t].status = "verified" /\ cases'[c].status = "verified"
<1> DEFINE promotable == Promotable(ns, es, c)
           changed == [cases EXCEPT ![c].status = "verified"]
<1>1. edges' = es
    BY DEF Commit
<1>2. CASE promotable = {}
    BY <1>1, <1>2 DEF Commit, Promote, SameNodes
<1>3. CASE promotable # {}
    <2>1. nodes' = WithStatus(ns, Newest(promotable), "verified") /\ cases' = changed
        BY <1>3 DEF Commit, Promote
    <2>2. ns \in Seq(Nodes) /\ DOMAIN ns = 1..Len(ns) /\ Len(ns) \in Nat
        BY DEF GraphTyped
    <2>3. promotable \subseteq 1..Len(ns)
        BY <2>2 DEF Promotable
    <2> HIDE DEF promotable
    <2>4. PICK t : t = Newest(promotable) /\ t \in promotable
        BY <1>3, <2>2, <2>3, NewestIsMember
    <2>5. \A s \in promotable : s <= t
        BY <1>3, <2>2, <2>3, <2>4, NewestIsLast
    <2>6. t \in DOMAIN ns /\ ns[t].case = c /\ ns[t].type = "Solution"
        BY <2>4 DEF promotable, Promotable
    <2> DEFINE new == WithStatus(ns, t, "verified")
    <2>7. /\ new \in Seq(Nodes)
          /\ DOMAIN new = DOMAIN ns
          /\ \A m \in DOMAIN ns :
                /\ new[m].type = ns[m].type
                /\ new[m].case = ns[m].case
                /\ new[m].data = ns[m].data
                /\ new[m].status = IF m = t THEN "verified" ELSE ns[m].status
        <3>1. "verified" \in Statuses /\ t \in DOMAIN ns /\ ns \in Seq(Nodes)
            BY <2>2, <2>6 DEF Statuses
        <3> QED
            BY <3>1, StatusChange
    <2>8. changed[c].status = "verified"
        BY CaseChange DEF Statuses
    <2>9. nodes' = new
        BY <2>1, <2>4
    <2> HIDE DEF new, changed
    <2>10. \A s \in promotable : t >= s
        BY <2>2, <2>3, <2>4, <2>5
    <2>11. SameNodes(ns, nodes')
        BY <2>7, <2>9 DEF SameNodes
    <2> QED
        BY <1>1, <2>1, <2>6, <2>7, <2>8, <2>9, <2>10, <2>11 DEF promotable
<1> QED
    BY <1>2, <1>3

LEMMA RelatedKept ==
    ASSUME Sound(cases, nodes, edges), Related(nodes, edges), Builds
    PROVE  Related(nodes', edges')
<1>1. PICK ns, es, c :
         /\ Elsewhere(ns, es, c)
         /\ \/ c = 0 /\ nodes' = ns /\ edges' = es
            \/ /\ c \in DOMAIN cases /\ GraphTyped(ns, es) /\ Commit(ns, es, c)
               /\ \A s \in DOMAIN nodes : nodes[s].type = "Solution" => ns[s].status = nodes[s].status
    BY DEF Builds
<1>2. Related(ns, es)
    <2>1. \A e \in edges : e[1] \in DOMAIN nodes /\ e[3] \in DOMAIN nodes
        BY DEF Sound, GraphTyped
    <2> QED
        BY <1>1, <2>1 DEF Related, Elsewhere, SameNodes
<1>3. CASE nodes' = ns /\ edges' = es
    BY <1>2, <1>3
<1>4. CASE c \in DOMAIN cases /\ GraphTyped(ns, es) /\ Commit(ns, es, c)
    <2>1. SameNodes(ns, nodes') /\ edges' = es
        BY <1>4, PromotionEnds DEF Sound
    <2>2. \A e \in es : e[1] \in DOMAIN ns /\ e[3] \in DOMAIN ns
        BY <1>4 DEF GraphTyped
    <2> QED
        BY <1>2, <2>1, <2>2 DEF Related, SameNodes
<1> QED
    BY <1>1, <1>3, <1>4

LEMMA CompletedIsPromoted ==
    ASSUME Sound(cases, nodes, edges), Related(nodes, edges), Builds, NEW s \in DOMAIN nodes, IsSolution(s),
           ~Eligible(nodes, edges, s), Eligible(nodes', edges', s), Active(nodes[s].status)
    PROVE  \E t \in DOMAIN nodes' :
              /\ t >= s
              /\ nodes'[t].type = "Solution" /\ nodes'[t].case = nodes[s].case
              /\ nodes'[t].status = "verified"
              /\ cases'[nodes[s].case].status = "verified"
<1>1. PICK ns, es, c :
         /\ Elsewhere(ns, es, c)
         /\ \/ c = 0 /\ nodes' = ns /\ edges' = es
            \/ /\ c \in DOMAIN cases /\ GraphTyped(ns, es) /\ Commit(ns, es, c)
               /\ \A n \in DOMAIN nodes : nodes[n].type = "Solution" => ns[n].status = nodes[n].status
    BY DEF Builds
<1>2. nodes[s].case # 0
    <2>1. DOMAIN cases = 1..Len(cases)
        BY DEF Sound, CasesTyped
    <2> QED
        BY <2>1 DEF Sound, NodesInCases
<1>3. Eligible(ns, es, s) => nodes[s].case = c
    BY <1>1, ElsewhereComplete
<1>4. ~(c = 0 /\ nodes' = ns /\ edges' = es)
    BY <1>2, <1>3
<1>5. /\ c \in DOMAIN cases /\ GraphTyped(ns, es) /\ Commit(ns, es, c)
      /\ ns[s].status = nodes[s].status
    BY <1>1, <1>4 DEF IsSolution
<1>6. s \in DOMAIN ns /\ ns[s].type = "Solution" /\ ns[s].case = nodes[s].case
    BY <1>1 DEF Elsewhere, SameNodes, IsSolution
<1>7. /\ SameNodes(ns, nodes') /\ DOMAIN nodes' = DOMAIN ns /\ edges' = es
      /\ \A n \in DOMAIN ns : ns[n].type # "Solution" => nodes'[n].status = ns[n].status
    BY <1>5, PromotionEnds DEF Sound
<1>8. Eligible(ns, es, s)
    <2>1. \A r \in Targets(es, s, "ADDRESSES") : r \in DOMAIN ns
        BY <1>5 DEF GraphTyped, Targets
    <2>2. \A r \in Targets(es, s, "ADDRESSES") : ns[r].type = "RootCause" => nodes'[r].status = ns[r].status
        BY <1>7, <2>1
    <2> QED
        BY <1>5, <1>6, <1>7, <2>2, EligibleSame
<1>9. s \in Promotable(ns, es, c)
    BY <1>3, <1>5, <1>6, <1>8 DEF Promotable
<1>10. nodes[s].case = c
    BY <1>3, <1>8
<1> QED
    BY <1>5, <1>9, <1>10, PromotionEnds DEF Sound

(* The writes, each with the graph it builds: those that add a node ...     *)
LEMMA NodeBuilds ==
    ASSUME Sound(cases, nodes, edges), NEW node, NEW es, NEW c, edges \subseteq es,
           \A e \in es \ edges :
              /\ e[2] = "VERIFIED_BY" /\ e[1] \in DOMAIN nodes => nodes[e[1]].case = c
              /\ e[2] = "ADDRESSES" => /\ e[1] = Len(nodes) + 1 /\ e[3] \in DOMAIN nodes
                                       /\ node.case = nodes[e[3]].case
    PROVE  /\ Elsewhere(Append(nodes, node), es, c)
           /\ \A n \in DOMAIN nodes : Append(nodes, node)[n] = nodes[n]
<1> DEFINE ns == Append(nodes, node)
<1>1. nodes \in Seq(Nodes) /\ DOMAIN nodes = 1..Len(nodes) /\ Len(nodes) \in Nat
    BY DEF Sound, GraphTyped
<1>2. /\ ns[Len(nodes) + 1] = node /\ Len(nodes) + 1 \notin DOMAIN nodes
      /\ \A n \in DOMAIN nodes : n \in DOMAIN ns /\ ns[n] = nodes[n]
    BY <1>1
<1> HIDE DEF ns
<1>3. SameNodes(nodes, ns)
    BY <1>2 DEF SameNodes
<1>4. Elsewhere(ns, es, c)
    BY <1>2, <1>3 DEF Elsewhere
<1> QED
    BY <1>2, <1>4 DEF ns

(* ... and those that set a status.                                         *)
LEMMA StatusBuilds ==
    ASSUME Sound(cases, nodes, edges), NEW n \in DOMAIN nodes, NEW status \in Statuses, NEW es, NEW c,
           edges \subseteq es, \A e \in es \ edges : e[2] \notin {"VERIFIED_BY", "ADDRESSES"},
           nodes[n].type # "RootCause" \/ nodes[n].case = c
    PROVE  /\ Elsewhere(WithStatus(nodes, n, status), es, c)
           /\ \A m \in DOMAIN nodes : m # n => WithStatus(nodes, n, status)[m].status = nodes[m].status
<1> DEFINE ns == WithStatus(nodes, n, status)
<1>1. nodes \in Seq(Nodes)
    BY DEF Sound, GraphTyped
<1>2. /\ ns \in Seq(Nodes)
      /\ DOMAIN ns = DOMAIN nodes
      /\ \A m \in DOMAIN nodes :
            /\ ns[m].type = nodes[m].type
            /\ ns[m].case = nodes[m].case
            /\ ns[m].data = nodes[m].data
            /\ ns[m].status = IF m = n THEN status ELSE nodes[m].status
    BY <1>1, StatusChange
<1> HIDE DEF ns
<1>3. SameNodes(nodes, ns)
    BY <1>2 DEF SameNodes
<1>4. Elsewhere(ns, es, c)
    BY <1>2, <1>3 DEF Elsewhere
<1> QED
    BY <1>2, <1>4 DEF ns

(* A write that adds a node and evidence of no Solution that is there.      *)
LEMMA PlainBuilds ==
    ASSUME Sound(cases, nodes, edges), NEW node, nodes' = Append(nodes, node), edges \subseteq edges',
           \A e \in edges' \ edges : e[2] \notin {"VERIFIED_BY", "ADDRESSES"}
    PROVE  Builds
<1>1. Elsewhere(Append(nodes, node), edges', 0)
    BY NodeBuilds
<1> QED
    BY <1>1 DEF Builds

LEMMA PlainRecordBuilds ==
    ASSUME Sound(cases, nodes, edges), NEW c,
           \/ \E f : AddProblem(c, f)
           \/ \E problem, previous, outcome : RecordAttempt(c, problem, previous, outcome)
           \/ \E verification : RecordArtifact(c, verification)
           \/ \E root, status : RecordGuardrail(c, root, status)
    PROVE  Builds
<1>1. ASSUME NEW f, AddProblem(c, f)
      PROVE  Builds
    BY <1>1, PlainBuilds DEF AddProblem
<1>2. ASSUME NEW problem, NEW previous, NEW outcome, RecordAttempt(c, problem, previous, outcome)
      PROVE  Builds
    <2>1. \E node : nodes' = Append(nodes, node)
        BY <1>2 DEF RecordAttempt
    <2>2. edges \subseteq edges' /\ \A e \in edges' \ edges : e[2] \in {"ATTEMPTS_TO_SOLVE", "PRECEDED_BY"}
        BY <1>2 DEF RecordAttempt
    <2> QED
        BY <2>1, <2>2, PlainBuilds
<1>3. ASSUME NEW verification, RecordArtifact(c, verification)
      PROVE  Builds
    BY <1>3, PlainBuilds DEF RecordArtifact
<1>4. ASSUME NEW root, NEW status, RecordGuardrail(c, root, status)
      PROVE  Builds
    BY <1>4, PlainBuilds DEF RecordGuardrail
<1> QED
    BY <1>1, <1>2, <1>3, <1>4

(* A write that adds a node and ends with a promotion.                      *)
LEMMA PromotingRecordBuilds ==
    ASSUME Sound(cases, nodes, edges), NEW c,
           \/ \E problem, failed : \E status \in {"candidate", "verified"} :
                  RecordRootCause(c, problem, failed, status)
           \/ \E root : \E data \in SolutionData : RecordSolution(c, root, data)
           \/ \E solution : \E data \in VerificationData : RecordVerification(c, solution, data)
    PROVE  Builds
<1> DEFINE n == Len(nodes) + 1
<1>1. n \in 1..Len(nodes) + 1 /\ n \notin DOMAIN nodes
    BY EdgesOfNewNode
<1>2. ASSUME NEW type \in NodeTypes, NEW status \in Statuses, NEW data \in Data,
             ~(type = "Solution" /\ status = "verified"), c \in DOMAIN cases,
             NEW new, \A e \in new : e \in (1..Len(nodes) + 1) \X (Relations \ {"SUPERSEDES"})
                                                            \X (1..Len(nodes) + 1),
             \A e \in new :
                 /\ e[2] = "VERIFIED_BY" /\ e[1] \in DOMAIN nodes => nodes[e[1]].case = c
                 /\ e[2] = "ADDRESSES" => e[1] = n /\ e[3] \in DOMAIN nodes /\ nodes[e[3]].case = c,
             Commit(Append(nodes, Node(type, c, status, data)), edges \cup new, c)
      PROVE  Builds
    <2> DEFINE node == Node(type, c, status, data)
               ns == Append(nodes, node)
               es == edges \cup new
    <2>1. GraphTyped(ns, es)
        <3>1. Sound(cases, ns, es)
            BY <1>2, NewNodeKeeps
        <3> QED
            BY <3>1 DEF Sound
    <2>2. node.case = c
        BY DEF Node
    <2>3. Commit(ns, es, c) /\ edges \subseteq es /\ \A e \in es \ edges : e \in new
        BY <1>2
    <2> HIDE DEF es, node
    <2>4. Elsewhere(ns, es, c) /\ \A m \in DOMAIN nodes : ns[m] = nodes[m]
        BY <1>2, <2>2, <2>3, NodeBuilds
    <2> HIDE DEF ns
    <2> QED
        BY <1>2, <2>1, <2>3, <2>4 DEF Builds
<1>3. ASSUME NEW problem, NEW failed, NEW status \in {"candidate", "verified"},
             RecordRootCause(c, problem, failed, status)
      PROVE  Builds
    <2> DEFINE new == {<<n, "CAUSES", problem>>} \cup {<<a, "FAILED_BECAUSE", n>> : a \in failed}
    <2>1. c \in DOMAIN cases /\ problem \in 1..Len(nodes) + 1
        BY <1>3, ReferredNode DEF RecordRootCause
    <2>2. \A a \in failed : a \in 1..Len(nodes) + 1
        BY <1>3, EdgesOfNewNode DEF RecordRootCause, OfType
    <2>3. \A e \in new : /\ e \in (1..Len(nodes) + 1) \X (Relations \ {"SUPERSEDES"}) \X (1..Len(nodes) + 1)
                         /\ e[2] \in {"CAUSES", "FAILED_BECAUSE"}
        BY <1>1, <2>1, <2>2 DEF Relations
    <2>4. Commit(Append(nodes, Node("RootCause", c, status, NoData)), edges \cup new, c)
        <3>1. edges \cup {<<n, "CAUSES", problem>>} \cup {<<a, "FAILED_BECAUSE", n>> : a \in failed}
              = edges \cup new
            OBVIOUS
        <3> QED
            BY <1>3, <3>1 DEF RecordRootCause
    <2>5. /\ status \in Statuses /\ NoData \in Data
          /\ "RootCause" \in NodeTypes /\ "RootCause" # "Solution"
        BY DEF Statuses, Data, NodeTypes
    <2> HIDE DEF new
    <2> QED
        BY <1>2, <2>1, <2>3, <2>4, <2>5
<1>4. ASSUME NEW root, NEW data \in SolutionData, RecordSolution(c, root, data)
      PROVE  Builds
    <2> DEFINE new == {<<n, "ADDRESSES", root>>}
    <2>1. /\ c \in DOMAIN cases /\ root \in 1..Len(nodes) + 1
          /\ root \in DOMAIN nodes /\ nodes[root].case = c
        BY <1>4, ReferredNode DEF RecordSolution, IsNode
    <2>2. \A e \in new : /\ e \in (1..Len(nodes) + 1) \X (Relations \ {"SUPERSEDES"}) \X (1..Len(nodes) + 1)
                         /\ e[1] = n /\ e[2] = "ADDRESSES" /\ e[3] = root
        BY <1>1, <2>1 DEF Relations
    <2>3. Commit(Append(nodes, Node("Solution", c, "candidate", data)), edges \cup new, c)
        BY <1>4 DEF RecordSolution
    <2>4. "candidate" \in Statuses /\ data \in Data /\ "Solution" \in NodeTypes
        BY DEF Statuses, Data, NodeTypes
    <2> HIDE DEF new
    <2> QED
        BY <1>2, <2>1, <2>2, <2>3, <2>4
<1>5. ASSUME NEW solution, NEW data \in VerificationData, RecordVerification(c, solution, data)
      PROVE  Builds
    <2> DEFINE new == {<<solution, "VERIFIED_BY", n>>}
               status == IF data.succeeded THEN "verified" ELSE "open"
    <2>1. c \in DOMAIN cases /\ solution \in 1..Len(nodes) + 1 /\ nodes[solution].case = c
        BY <1>5, ReferredNode DEF RecordVerification, IsNode
    <2>2. \A e \in new : /\ e \in (1..Len(nodes) + 1) \X (Relations \ {"SUPERSEDES"}) \X (1..Len(nodes) + 1)
                         /\ e[1] = solution /\ e[2] = "VERIFIED_BY"
        BY <1>1, <2>1 DEF Relations
    <2>3. Commit(Append(nodes, Node("Verification", c, status, data)), edges \cup new, c)
        BY <1>5 DEF RecordVerification
    <2>4. /\ status \in Statuses /\ data \in Data
          /\ "Verification" \in NodeTypes /\ "Verification" # "Solution"
        BY DEF Statuses, Data, NodeTypes
    <2> HIDE DEF new, status
    <2> QED
        BY <1>2, <2>1, <2>2, <2>3, <2>4
<1> QED
    BY <1>3, <1>4, <1>5

LEMMA CurationBuilds ==
    ASSUME Sound(cases, nodes, edges), NEW c,
           (\E root : PromoteRootCause(c, root)) \/ Curate(c)
    PROVE  Builds
<1>1. \A k : Elsewhere(nodes, edges, k)
    BY DEF Elsewhere, SameNodes
<1>2. ASSUME NEW root, PromoteRootCause(c, root)
      PROVE  Builds
    <2> DEFINE ns == WithStatus(nodes, root, "verified")
    <2>1. /\ root \in DOMAIN nodes /\ c \in DOMAIN cases /\ nodes[root].type = "RootCause"
          /\ nodes[root].status # "retired" /\ nodes[root].case = c
          /\ Commit(ns, edges, c)
        BY <1>2, ReferredNode DEF PromoteRootCause, IsNode
    <2>2. GraphTyped(ns, edges)
        BY <2>1, RootKeeps DEF Sound
    <2>3. Elsewhere(ns, edges, c) /\ \A m \in DOMAIN nodes : m # root => ns[m].status = nodes[m].status
        BY <2>1, StatusBuilds DEF Statuses
    <2> HIDE DEF ns
    <2> QED
        BY <2>1, <2>2, <2>3 DEF Builds
<1>3. ASSUME CloseCase(c)
      PROVE  Builds
    BY <1>1, <1>3 DEF CloseCase, CaseIds, Builds, Sound
<1>4. ASSUME NEW solution, NEW f, MarkRegression(c, solution, f)
      PROVE  Builds
    <2>1. /\ solution \in DOMAIN nodes /\ nodes[solution].type = "Solution"
          /\ nodes' = WithStatus(nodes, solution, "regressed") /\ edges' = edges
        BY <1>4 DEF MarkRegression, IsNode
    <2>2. Elsewhere(WithStatus(nodes, solution, "regressed"), edges, 0)
        BY <2>1, StatusBuilds DEF Statuses
    <2> QED
        BY <2>1, <2>2 DEF Builds
<1>5. ASSUME NEW prior, NEW replacement, SupersedeSolution(c, prior, replacement)
      PROVE  Builds
    <2>1. CASE nodes' = nodes /\ edges' = edges
        BY <1>1, <2>1 DEF Builds
    <2>2. CASE /\ nodes' = WithStatus(nodes, prior, "retired")
               /\ edges' = edges \cup {<<replacement, "SUPERSEDES", prior>>}
        <3>1. prior \in DOMAIN nodes /\ nodes[prior].type = "Solution"
            BY <1>5 DEF SupersedeSolution, IsNode
        <3>2. edges \subseteq edges' /\ \A e \in edges' \ edges : e[2] = "SUPERSEDES"
            BY <2>2
        <3>3. Elsewhere(WithStatus(nodes, prior, "retired"), edges', 0)
            BY <3>1, <3>2, StatusBuilds DEF Statuses
        <3> QED
            BY <2>2, <3>3 DEF Builds
    <2> QED
        BY <1>5, <2>1, <2>2 DEF SupersedeSolution
<1> QED
    BY <1>2, <1>3, <1>4, <1>5 DEF Curate

LEMMA StepBuilds ==
    ASSUME Sound(cases, nodes, edges), Next
    PROVE  Builds
<1>1. Elsewhere(nodes, edges, 0)
    BY DEF Elsewhere, SameNodes
<1>2. ASSUME NEW title, NEW f, OpenCase(title, f)
      PROVE  Builds
    BY <1>2, PlainRecordBuilds DEF OpenCase
<1>3. ASSUME NEW c, Record(c)
      PROVE  Builds
    BY <1>3, PlainRecordBuilds, PromotingRecordBuilds, CurationBuilds DEF Record, JoinCase
<1>4. ASSUME NEW limit, SuggestCaseMerges(limit)
      PROVE  Builds
    BY <1>1, <1>4 DEF SuggestCaseMerges, Builds
<1>5. ASSUME NEW p, ApplyCaseMerge(p)
      PROVE  Builds
    BY <1>1, <1>5 DEF ApplyCaseMerge, Builds
<1> QED
    BY <1>2, <1>3, <1>4, <1>5, CurationBuilds DEF Next

(***************************************************************************)
(* The write that completes a Solution's evidence promotes it, or a newer  *)
(* one of its Case, and the Case with it: no Solution waits for a later    *)
(* write to be noticed (evaluate_case_promotion, which ends each call that *)
(* can add to the evidence).                                               *)
(***************************************************************************)
THEOREM PromotionCorrect == Spec => PromotedWhenComplete
<1>1. Init => Related(nodes, edges)
    BY DEF Init, Related
<1>2. IInv /\ Related(nodes, edges) /\ [Next]_vars => Related(nodes, edges)'
    <2>1. ASSUME IInv, Related(nodes, edges), Next
          PROVE  Related(nodes', edges')
        BY <2>1, StepBuilds, RelatedKept DEF IInv
    <2>2. ASSUME Related(nodes, edges), UNCHANGED vars
          PROVE  Related(nodes', edges')
        BY <2>2 DEF vars, Related
    <2> QED
        BY <2>1, <2>2 DEF Related
<1>3. IInv /\ Related(nodes, edges) /\ [Next]_vars =>
          [\A s \in DOMAIN nodes :
              /\ IsSolution(s)
              /\ ~Eligible(nodes, edges, s) /\ Eligible(nodes', edges', s)
              /\ Active(nodes[s].status)
              => \E t \in DOMAIN nodes' :
                    /\ t >= s
                    /\ nodes'[t].type = "Solution" /\ nodes'[t].case = nodes[s].case
                    /\ nodes'[t].status = "verified"
                    /\ cases'[nodes[s].case].status = "verified"]_vars
    BY StepBuilds, CompletedIsPromoted DEF IInv
<1> QED
    BY <1>1, <1>2, <1>3, InvariantCorrect, PTL DEF Spec, PromotedWhenComplete
================================================================================
