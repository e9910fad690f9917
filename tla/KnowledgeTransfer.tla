--------------------------- MODULE KnowledgeTransfer ---------------------------
(***************************************************************************)
(* Knowledge that comes into a project: recorded by agents that may have   *)
(* met the same Problem before, imported from documents and test reports,  *)
(* and copied from another project by way of archives.  All of it meets in *)
(* one graph, where it has to keep apart what the project itself has       *)
(* confirmed from what it was told.                                        *)
(***************************************************************************)
EXTENDS ProjectSnapshot, ImportPreview

CONSTANT MaxCalls    \* bound: calls made, and changes that come from outside

ASSUME CallsAssumption == MaxCalls \in Nat

VARIABLE calls       \* how many there have been

vars == <<graphVars, archives, importVars, calls>>

Init == GraphInit /\ SnapshotInit /\ ImportInit /\ calls = 0

Call == calls < MaxCalls /\ calls' = calls + 1

Next ==
    \/ Call /\ GraphNext /\ UNCHANGED <<archives, importVars>>
    \/ Call /\ SnapshotNext /\ UNCHANGED importVars
    \/ Call /\ ImportNext /\ UNCHANGED archives
    \/ Call /\ FilesNext /\ UNCHANGED archives

Spec == Init /\ [][Next]_vars

--------------------------------------------------------------------------------
(* Properties *)

Ids(p) == DOMAIN rows[p]

(* Rows, edges and keys of a project refer to rows of that project.         *)
TypeOK ==
    /\ \A p \in Projects :
          /\ \A id \in Ids(p) :
                /\ id[Len(id)] = p
                /\ rows[p][id].type \in Types /\ rows[p][id].status \in Statuses
                /\ rows[p][id].case \in Ids(p) /\ rows[p][rows[p][id].case].type = "Case"
                /\ rows[p][id].fingerprint \in Fingerprints \cup {NoFingerprint}
          /\ \A e \in Range(edges[p]) :
                /\ {e.source, e.target} \subseteq Ids(p)
                /\ rows[p][e.source].case = rows[p][e.target].case
          /\ DOMAIN fingerprints[p] \subseteq Fingerprints
          /\ Range(fingerprints[p]) \cup Range(sourceKeys[p]) \subseteq Ids(p)
          /\ DOMAIN results[p] \subseteq Operations
    /\ published \in BOOLEAN
    /\ \A k \in DOMAIN previews : previews[k].status \in {"pending", "applied"}

(* Archives and imports confer no trust, whatever path knowledge has come    *)
(* by, here and back again included: a root cause is verified in a project   *)
(* only if that project has confirmed it, and a Solution or a Case only      *)
(* under such a root cause.  Verifications that came in an archive count as  *)
(* evidence once the root cause is confirmed, but never in its place.        *)
ConfirmedHere(p, r) == <<p, r>> \in confirmed /\ IsA(p, r, "RootCause")
OwnTrust(p, id) ==
    CASE rows[p][id].type = "Verification" -> TRUE
      [] rows[p][id].type = "RootCause" -> ConfirmedHere(p, id)
      [] rows[p][id].type = "Solution" ->
           \E e \in Range(edges[p]) :
               e.source = id /\ e.relation = "ADDRESSES" /\ ConfirmedHere(p, e.target)
      [] rows[p][id].type = "Case" ->
           \E r \in Ids(p) : ConfirmedHere(p, r) /\ rows[p][r].case = id
      [] OTHER -> FALSE
ImportedTrust ==
    \A p \in Projects : \A id \in Ids(p) : rows[p][id].status = "verified" => OwnTrust(p, id)

(* An import, the first or a later one of the same or of a newer archive,   *)
(* never changes what is already there: a status the project has decided    *)
(* on, a Problem it has recorded, an edge or a fingerprint.                 *)
ImportKeepsLocal ==
    [][\A q \in Projects :
          results'[q] # results[q] =>
              /\ \A id \in Ids(q) : rows'[q][id] = rows[q][id]
              /\ \A id \in DOMAIN edges[q] : edges'[q][id] = edges[q][id]
              /\ \A f \in DOMAIN fingerprints[q] : fingerprints'[q][f] = fingerprints[q][f]]_vars

(* A Problem with a fingerprint is the only one with it in its project, and *)
(* a client that meets it again, and writes the fingerprint the way it is   *)
(* stored, is answered with that Problem: whether it was recorded here or   *)
(* came in an archive.                                                      *)
Again(f) == Asked([op |-> NoOperation, source |-> NoSource, spelling |-> f], NoCase)
KnownProblemAnswered ==
    \A p \in Projects : \A id \in Ids(p) :
        rows[p][id].fingerprint \notin {NoFingerprint, Empty} =>
            ProblemAnswer(p, Again(rows[p][id].fingerprint)) = id

(* Selected proposals apply once: after that, neither another operation nor *)
(* another selection adds to what came of the preview, however often the    *)
(* file goes back to the content that was previewed.                        *)
CameOf(p, k) == {key \in DOMAIN sourceKeys[p] : key \notin Sources /\ key[1] = k}
SelectionIsFinal ==
    [][\A p \in Projects, k \in DOMAIN previews :
          CameOf(p, k) # {} => CameOf(p, k)' = CameOf(p, k)]_vars

(* Caches keyed by the project's revision, and open streams, notice what     *)
(* appends an event.  A change of a graph without one, an import of nothing  *)
(* but an edge included, adds and removes nothing: it is the promotion of a  *)
(* Solution, and of its Case, whose root cause the project had confirmed     *)
(* already and has confirmed again.                                          *)
Promotes(p, id) ==
    /\ rows[p][id].type \in {"Case", "Solution"}
    /\ rows'[p][id] = [rows[p][id] EXCEPT !.status = "verified"]
    /\ \E r \in Ids(p) : ConfirmedHere(p, r) /\ rows[p][r].case \in {id, rows[p][id].case}
TransferPublished ==
    [][\A p \in Projects :
          published' \/ /\ DOMAIN rows'[p] = Ids(p) /\ edges'[p] = edges[p]
                        /\ \A id \in Ids(p) : rows'[p][id] = rows[p][id] \/ Promotes(p, id)]_vars
================================================================================
