----------------------------- MODULE CaseHierarchy -----------------------------
(***************************************************************************)
(* The index that retrieval routes by: the Cases of a project by domain,   *)
(* linked where they share a fingerprint, a file or a command, grouped     *)
(* into communities, and each domain cut into the shells of its k-cores.   *)
(* It is built from the database and may be kept up to date Case by Case.  *)
(* A Case is a number, for the order of its id.                            *)
(***************************************************************************)
EXTENDS Naturals, Sequences, FiniteSets, Functions, FiniteSetsExt, SequencesExt

CONSTANTS
    Cases,             \* the Cases of the project
    Records,           \* what a Case can look like: [domain, status, keys]
    MaxCasesPerKey,    \* a key shared by more Cases than this links none of them
    MaxUpserts         \* bound: changes made to a hierarchy after it was built

ASSUME HierarchyAssumption ==
    /\ IsFiniteSet(Cases) /\ Cases \subseteq Nat
    /\ MaxCasesPerKey \in Nat /\ MaxUpserts \in Nat

Domains == {r.domain : r \in Records}
CaseSets == SUBSET Cases

VARIABLES
    records,      \* a record for each Case that is indexed
    links,        \* pairs of Cases, as found when the hierarchy was built
    branches,     \* the hierarchy of each domain that has Cases
    summaries,    \* for a domain, the revision its generated summary describes
    indexed       \* the hierarchy's revision; 0 before it is built

hierarchyVars == <<records, links, branches, summaries, indexed>>

(* Cases that share a key in one domain are linked, unless the key is so    *)
(* common that it tells nothing.                                            *)
StructuralEdges(rs) ==
    UNION {kSubset(2, bucket) : bucket \in
              {b \in {{c \in DOMAIN rs : rs[c].domain = d /\ k \in rs[c].keys} :
                        d \in Domains, k \in UNION {r.keys : r \in Records}} :
                 Cardinality(b) <= MaxCasesPerKey}}

Adjacency(cases, edges) == [c \in cases |-> {d \in cases \ {c} : {c, d} \in edges}]

(* What a search from a Case reaches within a set of Cases.                 *)
Reached(c, cases, adjacency) ==
    FoldLeft(LAMBDA found, i : found \cup UNION {adjacency[d] \cap cases : d \in found},
             {c}, [i \in 1..Cardinality(cases) |-> i])

ConnectedComponents(cases, adjacency) == {Reached(c, cases, adjacency) : c \in cases}

(* Takes the Case with the smallest degree, the first of them by id, gives  *)
(* it that degree as its core number and lowers the neighbours above it.    *)
Peel(state, adjacency) ==
    LET left == DOMAIN state.degrees \ DOMAIN state.cores
        least == Min({state.degrees[c] : c \in left})
        next == Min({c \in left : state.degrees[c] = least})
    IN [cores |-> [c \in DOMAIN state.cores \cup {next} |->
                     IF c = next THEN least ELSE state.cores[c]],
        degrees |-> [c \in DOMAIN state.degrees |->
                       IF c \in (adjacency[next] \cap left) /\ state.degrees[c] > least
                       THEN state.degrees[c] - 1 ELSE state.degrees[c]]]

CoreNumbers(component, adjacency) ==
    FoldLeft(LAMBDA state, i : Peel(state, adjacency),
             [cores |-> <<>>, degrees |-> [c \in component |-> Cardinality(adjacency[c] \cap component)]],
             [i \in 1..Cardinality(component) |-> i]).cores

CoreShells(components, adjacency) ==
    LET core == [c \in UNION components |->
                    CoreNumbers(CHOOSE s \in components : c \in s, adjacency)[c]]
        Eligible(level) == {c \in DOMAIN core : core[c] >= level}
    IN [level \in Range(core) \cup {0} |-> ConnectedComponents(Eligible(level), adjacency)]

(* A community is named by its deepest level and its first Case.            *)
Community(component, rs, adjacency) ==
    [level |-> Max(Range(CoreNumbers(component, adjacency))),
     cases |-> component,
     keys |-> UNION {rs[c].keys : c \in component},
     conclusions |-> {c \in component : rs[c].status = "verified"}]

Branch(domain, rs, edges) ==
    LET cases == {c \in DOMAIN rs : rs[c].domain = domain}
        adjacency == Adjacency(cases, edges)
        components == ConnectedComponents(cases, adjacency)
    IN [communities |-> {Community(s, rs, adjacency) : s \in components},
        shells |-> CoreShells(components, adjacency)]

Occupied(rs) == {rs[c].domain : c \in DOMAIN rs}

(* Branches are rebuilt one domain at a time. An empty one is dropped, and  *)
(* only a rebuilt one loses the summary that was written about it.          *)
Rebuilt(touched, rs, edges, revision) ==
    /\ branches' = [d \in (DOMAIN branches \ touched) \cup (touched \cap Occupied(rs)) |->
                       IF d \in touched THEN [revision |-> revision, of |-> Branch(d, rs, edges)]
                       ELSE branches[d]]
    /\ summaries' = [d \in DOMAIN summaries \ (touched \cap Occupied(rs)) |-> summaries[d]]

(* load_hierarchy reads every Case of the project and builds.               *)
BuildHierarchy(rs) ==
    /\ indexed = 0
    /\ records' = rs /\ links' = StructuralEdges(rs) /\ indexed' = 1
    /\ Rebuilt(Occupied(rs), rs, StructuralEdges(rs), 1)

(* The domains a changed Case was in and is in now.                         *)
AffectedNow(c, r) == {r.domain}
Affected(c, r) == {r.domain} \cup IF c \in DOMAIN records THEN {records[c].domain} ELSE {}

Upsert(c, r) ==
    /\ indexed \in 1..MaxUpserts
    /\ indexed' = indexed + 1
    /\ LET rs == [k \in DOMAIN records \cup {c} |-> IF k = c THEN r ELSE records[k]]
       IN records' = rs /\ Rebuilt(Affected(c, r), rs, links, indexed + 1)
    /\ UNCHANGED links

AttachGeneratedSummary(d) ==
    /\ d \in DOMAIN branches
    /\ summaries' = [k \in DOMAIN summaries \cup {d} |-> IF k = d THEN indexed ELSE summaries[k]]
    /\ UNCHANGED <<records, links, branches, indexed>>

HierarchyInit ==
    records = <<>> /\ links = {} /\ branches = <<>> /\ summaries = <<>> /\ indexed = 0

HierarchyNext ==
    \/ \E some \in CaseSets : \E rs \in [some -> Records] : BuildHierarchy(rs)
    \/ \E c \in Cases, r \in Records : Upsert(c, r)
    \/ \E d \in Domains : AttachGeneratedSummary(d)
================================================================================
