----------------------------- MODULE ProjectGraphs -----------------------------
(***************************************************************************)
(* The graphs of several projects in one database, and how a Problem is    *)
(* told from one that is already there: by its operation id, by its source *)
(* key, and by its fingerprint, which is looked up as it is given and      *)
(* stored redacted and with its white space collapsed.                     *)
(*                                                                         *)
(* Cases and nodes are rows; a row is named by the sequence of projects it *)
(* has passed through, see ProjectSnapshot.                                *)
(***************************************************************************)
EXTENDS Naturals, Sequences, FiniteSets, Functions

CONSTANTS
    Projects,
    Operations, NoOperation,    \* operation ids; without one
    Sources, NoSource,          \* source keys a client gives a Problem; without one
    Fingerprints,               \* fingerprints in the form they are stored in
    Spellings,                  \* fingerprints as clients write them
    Stored,                     \* Stored[s]: what redact_value makes of a spelling
    NoFingerprint,
    Empty,                      \* what a spelling without a visible character becomes
    Reports,                    \* bound: how Problems are reported
    Seeded,                     \* bound: projects that have a Case to begin with
    MaxRows                     \* bound: MaxRows[p] rows project p makes itself

ASSUME SpellingsAssumption ==
    /\ NoOperation \notin Operations /\ NoSource \notin Sources
    /\ NoFingerprint \notin Spellings
    /\ Fingerprints \subseteq Spellings
    /\ Stored \in [Spellings -> Fingerprints]
    /\ \A f \in Fingerprints : Stored[f] = f
    /\ Reports \subseteq [op : Operations \cup {NoOperation}, source : Sources \cup {NoSource},
                          spelling : Spellings \cup {NoFingerprint}]
    /\ MaxRows \in [Projects -> Nat] /\ Seeded \subseteq Projects

VARIABLES
    rows,          \* rows[p]: the Cases and nodes of a project, by id
    edges,         \* edges[p]: its edges, by id
    fingerprints,  \* fingerprints[p]: the Problem of each known fingerprint
    sourceKeys,    \* sourceKeys[p]: the node of each source key
    results,       \* results[p]: operation_results, the kind and value of each operation
    confirmed,     \* the root causes each project has itself confirmed
    published      \* whether the last write appended an event

graphVars == <<rows, edges, fingerprints, sourceKeys, results, confirmed, published>>

--------------------------------------------------------------------------------
(* Data *)

Types == {"Case", "Problem", "Attempt", "RootCause", "Solution", "Verification"}
Statuses == {"open", "candidate", "verified", "retired"}
Row(type, c, status, f) == [type |-> type, case |-> c, status |-> status, fingerprint |-> f]
Edge(source, relation, target) == [source |-> source, relation |-> relation, target |-> target]
Result(kind, value) == [kind |-> kind, value |-> value]
Nothing == [x \in {} |-> x]

(* A table with more entries; one that is there stays. *)
One(key, value) == [k \in {key} |-> value]
table ++ more ==
    [k \in DOMAIN table \cup DOMAIN more |-> IF k \in DOMAIN table THEN table[k] ELSE more[k]]

(* Ids made here have two elements: a number and the project. *)
Own(table, p) == {id \in DOMAIN table : id = <<id[1], p>>}
Fresh(table, p, k) == <<Cardinality(Own(table, p)) + k, p>>
Room(p, k) == Cardinality(Own(rows[p], p)) + k <= MaxRows[p]

IsA(p, id, type) == id \in DOMAIN rows[p] /\ rows[p][id].type = type
OfType(p, type) == {id \in DOMAIN rows[p] : rows[p][id].type = type}

(* A project begins empty, or with a Case of a Problem, a root cause of it   *)
(* that nobody has confirmed yet, and two Solutions that address that.       *)
Seeds(p) ==
    LET c == <<1, p>> IN
    One(c, Row("Case", c, "open", NoFingerprint)) ++ One(<<2, p>>, Row("Problem", c, "open", NoFingerprint))
        ++ One(<<3, p>>, Row("RootCause", c, "candidate", NoFingerprint))
        ++ [s \in {<<4, p>>, <<5, p>>} |-> Row("Solution", c, "candidate", NoFingerprint)]
SeedEdges(p) ==
    One(<<1, p>>, Edge(<<3, p>>, "CAUSES", <<2, p>>))
        ++ One(<<2, p>>, Edge(<<4, p>>, "ADDRESSES", <<3, p>>))
        ++ One(<<3, p>>, Edge(<<5, p>>, "ADDRESSES", <<3, p>>))
GraphInit ==
    /\ rows = [p \in Projects |-> IF p \in Seeded THEN Seeds(p) ELSE Nothing]
    /\ edges = [p \in Projects |-> IF p \in Seeded THEN SeedEdges(p) ELSE Nothing]
    /\ fingerprints = [p \in Projects |-> Nothing]
    /\ sourceKeys = [p \in Projects |-> Nothing]
    /\ results = [p \in Projects |-> Nothing]
    /\ confirmed = {}
    /\ published = FALSE

(* store_operation: nothing without an id *)
With(table, key, value, none) == IF key = none THEN table ELSE table ++ One(key, value)

--------------------------------------------------------------------------------
(* record_problem *)

NoCase == <<>>
Asked(r, c) == [op |-> r.op, source |-> r.source, spelling |-> r.spelling, case |-> c]
Problems(p) == {Asked(r, c) : c \in OfType(p, "Case") \cup {NoCase}, r \in Reports}

(* A call under a used operation id: its node, when the kinds agree. *)
Repeated(p, i) == i.op # NoOperation /\ i.op \in DOMAIN results[p]
RepeatedAccepted(p, i) == results[p][i.op].kind = "record_problem"

(* replay_source, then the fingerprint, which is not looked up when it is    *)
(* empty                                                                    *)
SourceKnown(p, i) ==
    /\ ~Repeated(p, i)
    /\ i.source # NoSource /\ i.source \in DOMAIN sourceKeys[p]
SpellingKnown(p, i) ==
    /\ ~Repeated(p, i) /\ ~SourceKnown(p, i)
    /\ i.spelling # Empty /\ i.spelling \in DOMAIN fingerprints[p]
IsNew(p, i) == ~Repeated(p, i) /\ ~SourceKnown(p, i) /\ ~SpellingKnown(p, i)

(* The stored form of a new spelling may be there: UNIQUE(project, value). *)
FingerprintTaken(p, i) ==
    i.spelling # NoFingerprint /\ Stored[i.spelling] \in DOMAIN fingerprints[p]

Refused == <<"refused">>
ProblemAnswer(p, i) ==
    CASE Repeated(p, i) -> IF RepeatedAccepted(p, i) THEN results[p][i.op].value ELSE Refused
      [] SourceKnown(p, i) ->
           LET id == sourceKeys[p][i.source]
           IN IF rows[p][id].type = "Problem" THEN id ELSE Refused
      [] SpellingKnown(p, i) -> fingerprints[p][i.spelling]
      [] OTHER -> IF FingerprintTaken(p, i) THEN Refused
                  ELSE Fresh(rows[p], p, IF i.case = NoCase THEN 2 ELSE 1)

(* A known Problem is answered; its operation, and only that, is stored. *)
KnownProblem(p, i) ==
    /\ SourceKnown(p, i) \/ SpellingKnown(p, i)
    /\ ProblemAnswer(p, i) # Refused
    /\ i.op # NoOperation
    /\ results' = [results EXCEPT ![p] =
                     With(@, i.op, Result("record_problem", ProblemAnswer(p, i)), NoOperation)]
    /\ published' = FALSE
    /\ UNCHANGED <<rows, edges, fingerprints, sourceKeys, confirmed>>

NewProblem(p, i) ==
    LET node == ProblemAnswer(p, i)
        c == IF i.case = NoCase THEN Fresh(rows[p], p, 1) ELSE i.case
        f == IF i.spelling = NoFingerprint THEN NoFingerprint ELSE Stored[i.spelling]
    IN
    /\ IsNew(p, i) /\ ~FingerprintTaken(p, i)
    /\ Room(p, IF i.case = NoCase THEN 2 ELSE 1)
    /\ rows' = [rows EXCEPT ![p] =
                  @ ++ One(node, Row("Problem", c, "open", f)) ++ One(c, Row("Case", c, "open", NoFingerprint))]
    /\ fingerprints' = [fingerprints EXCEPT ![p] = With(@, f, node, NoFingerprint)]
    /\ sourceKeys' = [sourceKeys EXCEPT ![p] = With(@, i.source, node, NoSource)]
    /\ results' = [results EXCEPT ![p] =
                     With(@, i.op, Result("record_problem", node), NoOperation)]
    /\ published' = TRUE
    /\ UNCHANGED <<edges, confirmed>>

RecordProblem(p) == \E i \in Problems(p) : KnownProblem(p, i) \/ NewProblem(p, i)

--------------------------------------------------------------------------------
(* What the project does with its graph otherwise: see CaseLifecycle for    *)
(* all of it.  Here the Solutions are complete and give a reason why no      *)
(* check of theirs is automated, and a Verification is a person's, who       *)
(* confirmed that the Solution works.                                        *)

(* evaluate_case_promotion: the newest Solution of the Case with evidence,   *)
(* where a Verification counts whoever has recorded it and wherever.         *)
Eligible(table, es, s) ==
    \E cause, check \in Range(es) :
        /\ cause.source = s /\ cause.relation = "ADDRESSES"
        /\ table[cause.target].type = "RootCause" /\ table[cause.target].status = "verified"
        /\ check.source = s /\ check.relation = "VERIFIED_BY"
Promotable(table, es, c) ==
    {s \in DOMAIN table :
        /\ table[s].type = "Solution" /\ table[s].case = c
        /\ table[s].status \in {"candidate", "verified"} /\ Eligible(table, es, s)}
Newest(ids) == {s \in ids : \A t \in ids : t[1] <= s[1]}
Evaluated(table, es, c) ==
    IF Promotable(table, es, c) = {} THEN {table}
    ELSE {[table EXCEPT ![s].status = "verified", ![c].status = "verified"] :
              s \in Newest(Promotable(table, es, c))}

(* promote_root_cause, under an operation id no other call uses: an event    *)
(* says that the status changes, and none that a Solution is promoted.       *)
PromoteRootCause(p) ==
    \E r \in OfType(p, "RootCause") :
        /\ rows[p][r].status \in {"candidate", "verified"}
        /\ \E table \in Evaluated([rows[p] EXCEPT ![r].status = "verified"], edges[p], rows[p][r].case) :
              rows' = [rows EXCEPT ![p] = table]
        /\ confirmed' = confirmed \cup {<<p, r>>}
        /\ published' = (rows[p][r].status # "verified")
        /\ UNCHANGED <<edges, fingerprints, sourceKeys, results>>

RecordVerification(p) ==
    \E s \in OfType(p, "Solution") :
        LET node == Fresh(rows[p], p, 1)
            c == rows[p][s].case
            more == edges[p] ++ One(Fresh(edges[p], p, 1), Edge(s, "VERIFIED_BY", node))
        IN
        /\ Room(p, 1)
        /\ edges' = [edges EXCEPT ![p] = more]
        /\ \E table \in Evaluated(rows[p] ++ One(node, Row("Verification", c, "verified", NoFingerprint)),
                                  more, c) :
              rows' = [rows EXCEPT ![p] = table]
        /\ published' = TRUE
        /\ UNCHANGED <<fingerprints, sourceKeys, results, confirmed>>

CloseCase(p) ==
    \E c \in OfType(p, "Case") :
        /\ \E table \in Evaluated(rows[p], edges[p], c) : rows' = [rows EXCEPT ![p] = table]
        /\ published' = TRUE
        /\ UNCHANGED <<edges, fingerprints, sourceKeys, results, confirmed>>

Supersedes(p) == {e \in Range(edges[p]) : e.relation = "SUPERSEDES"}
Targets(es, S) == {e.target : e \in {x \in es : x.source \in S}}
(* What the recursive query of supersede_solution collects. *)
Superseded(es, s) ==
    LET f[k \in 0 .. Cardinality(es)] ==
          IF k = 0 THEN Targets(es, {s}) ELSE f[k - 1] \cup Targets(es, f[k - 1])
    IN f[Cardinality(es)]

Supersede(p) ==
    \E old, new \in OfType(p, "Solution") :
        /\ old # new /\ rows[p][old].case = rows[p][new].case
        /\ rows[p][new].status \in {"candidate", "verified"}
        /\ rows[p][old].status = "verified" => rows[p][new].status = "verified"
        /\ new \notin Superseded(Supersedes(p), old)
        /\ Edge(new, "SUPERSEDES", old) \notin Supersedes(p)
        /\ rows' = [rows EXCEPT ![p][old].status = "retired"]
        /\ edges' = [edges EXCEPT ![p] = @ ++ One(Fresh(@, p, 1), Edge(new, "SUPERSEDES", old))]
        /\ published' = TRUE
        /\ UNCHANGED <<fingerprints, sourceKeys, results, confirmed>>

GraphNext ==
    \E p \in Projects :
        \/ RecordProblem(p) \/ RecordVerification(p)
        \/ PromoteRootCause(p) \/ CloseCase(p) \/ Supersede(p)
================================================================================
