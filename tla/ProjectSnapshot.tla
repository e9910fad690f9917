---------------------------- MODULE ProjectSnapshot ----------------------------
(***************************************************************************)
(* Export of a project's graph as an archive and import of an archive into *)
(* a project that is named explicitly.  An imported row gets an id that is *)
(* computed from the target and the id in the archive, so that the same    *)
(* archive, or a later one of the same project, finds what an earlier      *)
(* import has made.                                                        *)
(***************************************************************************)
EXTENDS ProjectGraphs

CONSTANTS
    MaxArchives,   \* bound: archives exported
    MaxHops        \* bound: projects a row passes through

ASSUME BoundsAssumption == MaxArchives \in Nat /\ MaxHops \in Nat

VARIABLE archives   \* the archives that exist, with the project each one is of

Archive(p) ==
    [project |-> p, rows |-> rows[p], edges |-> edges[p], fingerprints |-> fingerprints[p]]

(* The projects that have a graph to begin with have been exported before.  *)
SnapshotInit == archives = {Archive(p) : p \in Seeded}

(* The tables are read one after the other, but on the writer's connection  *)
(* and under its lock: no write of this process comes between.              *)
ExportProjectGraph(p) ==
    /\ Cardinality(archives) < MaxArchives /\ rows[p] # Nothing
    /\ archives' = archives \cup {Archive(p)}
    /\ UNCHANGED graphVars

--------------------------------------------------------------------------------
(* validate_archive, as far as an export can fail it *)

(* is_acyclic: nodes without an incoming edge are taken away until none is left *)
Endpoints(es) == {e.source : e \in es} \cup {e.target : e \in es}
Ready(es, left) == {n \in left : \A e \in es : e.target = n => e.source \notin left}
IsAcyclic(es) ==
    LET f[k \in 0 .. Cardinality(Endpoints(es))] ==
          IF k = 0 THEN Endpoints(es) ELSE f[k - 1] \ Ready(es, f[k - 1])
    IN f[Cardinality(Endpoints(es))] = {}

AllowedRelation(source, relation, target) ==
    <<source, relation, target>> \in
        {<<"Attempt", "ATTEMPTS_TO_SOLVE", "Problem">>, <<"RootCause", "CAUSES", "Problem">>,
         <<"Solution", "ADDRESSES", "RootCause">>, <<"Solution", "VERIFIED_BY", "Verification">>,
         <<"Solution", "SUPERSEDES", "Solution">>}

ValidArchive(a) ==
    /\ \A e \in Range(a.edges) :
          /\ {e.source, e.target} \subseteq DOMAIN a.rows
          /\ a.rows[e.source].case = a.rows[e.target].case
          /\ AllowedRelation(a.rows[e.source].type, e.relation, a.rows[e.target].type)
    /\ IsAcyclic(Range(a.edges))
    /\ \A f \in DOMAIN a.fingerprints : a.rows[a.fingerprints[f]].type = "Problem"

--------------------------------------------------------------------------------
(* import_project_graph *)

Mapped(q, id) == Append(id, q)     \* deterministic_id(target, kind, source)

(* What was verified elsewhere is a candidate here, but for a Verification:  *)
(* that is evidence, and keeps its status.                                   *)
DowngradedSolutions(row) ==
    IF row.status = "verified" /\ row.type \in {"Case", "Solution"}
    THEN [row EXCEPT !.status = "candidate"] ELSE row
Downgraded(row) ==
    IF row.status = "verified" /\ row.type \in {"Case", "RootCause", "Solution"}
    THEN [row EXCEPT !.status = "candidate"] ELSE row

ImportedRow(q, row) == [Downgraded(row) EXCEPT !.case = Mapped(q, row.case)]
ImportedEdge(q, e) == Edge(Mapped(q, e.source), e.relation, Mapped(q, e.target))

(* The records of a table under their new ids *)
Source(id) == SubSeq(id, 1, Len(id) - 1)
Renamed(q, table, Imported(_, _)) ==
    [id \in {Mapped(q, x) : x \in DOMAIN table} |-> Imported(q, table[Source(id)])]

(* exists(): a record whose id is there is left as it is. *)
AddedOver(table, imported) == imported ++ table
Added(table, imported) == table ++ imported

(* A fingerprint row is new when none of that id is there, whatever its     *)
(* value; the unique index then refuses a value another row has.           *)
SameFingerprint(q, a, f) ==
    f \in DOMAIN fingerprints[q] /\ fingerprints[q][f] = Mapped(q, a.fingerprints[f])
NoFingerprintClash(q, a) == FALSE
FingerprintClash(q, a) ==
    \E f \in DOMAIN a.fingerprints : f \in DOMAIN fingerprints[q] /\ ~SameFingerprint(q, a, f)
EdgeClash(q, a) ==
    \E id \in DOMAIN a.edges, known \in DOMAIN edges[q] :
        /\ Mapped(q, id) \notin DOMAIN edges[q]
        /\ edges[q][known] = ImportedEdge(q, a.edges[id])

(* snapshot.imported, when anything was created *)
ImportPublishesCases(q) ==
    \E id \in DOMAIN rows'[q] \ DOMAIN rows[q] : rows'[q][id].type = "Case"
ImportPublishes(q) == <<rows[q], edges[q], fingerprints[q]>>' # <<rows[q], edges[q], fingerprints[q]>>

Hops(a) == \A id \in DOMAIN a.rows : Len(id) <= MaxHops

ImportProjectGraph(q, op, a) ==
    /\ Hops(a)
    /\ ValidArchive(a)
    /\ op \notin DOMAIN results[q]
    /\ ~FingerprintClash(q, a) /\ ~EdgeClash(q, a)
    /\ rows' = [rows EXCEPT ![q] = Added(@, Renamed(q, a.rows, ImportedRow))]
    /\ edges' = [edges EXCEPT ![q] = Added(@, Renamed(q, a.edges, ImportedEdge))]
    /\ fingerprints' = [fingerprints EXCEPT ![q] =
                          @ ++ [f \in DOMAIN a.fingerprints |-> Mapped(q, a.fingerprints[f])]]
    /\ published' = ImportPublishes(q)
    /\ results' = [results EXCEPT ![q] = @ ++ One(op, Result("import_project_graph", <<>>))]
    /\ UNCHANGED <<sourceKeys, confirmed, archives>>

SnapshotNext ==
    \E p \in Projects :
        \/ ExportProjectGraph(p)
        \/ \E op \in Operations, a \in archives : ImportProjectGraph(p, op, a)
================================================================================
