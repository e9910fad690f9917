------------------------------ MODULE ProjectReads -----------------------------
(***************************************************************************)
(* Reading a project: the index and the expansion that answer a query, and *)
(* what of it reaches a page. The three share no variable: the daemon      *)
(* builds a hierarchy anew for each revision and expands afresh for each   *)
(* query, so what they compute is explored apart from when it is read.     *)
(***************************************************************************)
EXTENDS CaseHierarchy, GraphExpansion, BrowserView

vars == <<hierarchyVars, expansion, viewVars>>

Init == HierarchyInit /\ ExpansionInit /\ ViewInit

(* Bound: one of the three moves in a behaviour.                            *)
ViewIdle == commits = 0 /\ reading = NoRead /\ page = NoPage /\ source = NoSource /\ active = 0

Next ==
    \/ /\ ~expansion.done /\ ViewIdle
       /\ HierarchyNext /\ UNCHANGED <<expansion, viewVars>>
    \/ /\ indexed = 0 /\ ViewIdle
       /\ ExpansionNext /\ UNCHANGED <<hierarchyVars, viewVars>>
    \/ /\ indexed = 0 /\ ~expansion.done
       /\ ViewNext /\ UNCHANGED <<hierarchyVars, expansion>>

Spec == Init /\ [][Next]_vars
FairSpec == Spec /\ ViewFairness

--------------------------------------------------------------------------------
(* Properties *)

(* Cursors are sequences of events there are; and the daemon's count of     *)
(* streams is of those it serves, those whose end it has yet to notice and  *)
(* the request it is refusing, and no others: a place is never lost.        *)
TypeOK ==
    /\ Range(events) \subseteq 1..commits
    /\ page.request \in {"closed", "none", "sent", "queried", "answered", "shown", "selected"}
    /\ {page.cursor, page.asOf, stream.cursor, source.after} \subseteq 0..Revision
    /\ {page.view, page.oldest} \subseteq 0..commits \cup {NoLabel}
    /\ Len(preflights) <= MaxPreflights
    /\ elsewhere + (IF source.state = "open" THEN 1 ELSE 0) <= MaxStreams
    /\ active = elsewhere + (IF source.state = "open" THEN 1 ELSE 0) + (IF refusing THEN 1 ELSE 0)

(* What the daemon has sent, has still to send and will read next goes on,  *)
(* in order and without repeating an event, from the last one the page got: *)
(* over lost connections and new loads of the page. It leaves events out    *)
(* only where a whole page of later ones follows, when more had been        *)
(* appended than are read at a time. CONTEXT.md:99 has such a gap announced *)
(* by snapshot_required; nothing sends that, and this says what is lost.    *)
WholePage(ahead, i) ==
    /\ i + MaxPage <= Len(ahead)
    /\ \A j \in 1..MaxPage : ahead[i + j] = ahead[i + 1] + (j - 1)
StreamsContinue ==
    source.state = "open" =>
        LET sent == <<ResumeAt(source)>> \o stream.wire
            ahead == sent \o stream.pending
        IN /\ Last(sent) = stream.cursor
           /\ \A i \in 1..(Len(ahead) - 1) :
                 \/ ahead[i + 1] = ahead[i] + 1
                 \/ ahead[i + 1] > ahead[i] /\ WholePage(ahead, i)

(* A cache whose label is the newest event answers with everything that     *)
(* had been committed when that event was, whatever commits came between    *)
(* reading the label and reading the rows.                                  *)
CachedIsCurrent ==
    \A entry \in {index} \cup Range(preflights) :
        entry.label = Revision => entry.content >= ContentAt(Revision)

(* A page that is loading or has a stream gets to know of every event, or   *)
(* of a later one, unless it is refused a stream or a load fails.           *)
Watching == page.request \notin {"closed", "none"} \/ source.state # "closed"
CatchesUp ==
    \A r \in 1..MaxCommits : Revision >= r ~> (page.cursor >= r \/ ~Watching)

(* A page that waits for news of a daemon that has none to tell shows what  *)
(* was committed with the newest event.                                     *)
AtRest ==
    /\ page.request = "none" /\ page.view # NoLabel /\ source.state = "open"
    /\ stream.wire = <<>> /\ stream.pending = <<>> /\ stream.cursor = Revision
AtRestCurrent == AtRest => page.view >= ContentAt(Revision)

Closed(some, all, edges) == \A c \in some : \A d \in all \ some : {c, d} \notin edges
IsComponent(some, all, edges) ==
    /\ some # {} /\ Closed(some, all, edges)
    /\ \A part \in (SUBSET some) \ {{}, some} : ~Closed(part, some, edges)
AreComponents(parts, all, edges) ==
    UNION parts = all /\ \A part \in parts : IsComponent(part, all, edges)

(* The core number of a Case is the largest k such that it is one of a      *)
(* group in which every Case is linked to k others.                         *)
CoreNumber(c, all, edges) ==
    Max({k \in 0..Cardinality(all) : \E group \in SUBSET all :
            /\ c \in group
            /\ \A d \in group : Cardinality({e \in group : {d, e} \in edges \ {{d}}}) >= k})

(* However a hierarchy has come about, built or changed Case by Case, each  *)
(* domain with Cases has its communities, which are the connected groups of *)
(* its Cases, and shells, which are the groups that remain at each core     *)
(* level, and a summary of it was written since it last changed.            *)
HierarchyIsCurrent ==
    /\ DOMAIN branches = Occupied(records)
    /\ \A d \in DOMAIN branches :
          LET all == {c \in DOMAIN records : records[c].domain = d}
              edges == {e \in links : e \subseteq all}
              branch == branches[d].of
              core == [c \in all |-> CoreNumber(c, all, edges)]
          IN /\ AreComponents({m.cases : m \in branch.communities}, all, edges)
             /\ \A m \in branch.communities :
                   /\ m.level = Max({core[c] : c \in m.cases})
                   /\ m.keys = UNION {records[c].keys : c \in m.cases}
                   /\ m.conclusions = {c \in m.cases : records[c].status = "verified"}
             /\ DOMAIN branch.shells = Range(core) \cup {0}
             /\ \A k \in DOMAIN branch.shells :
                   AreComponents(branch.shells[k], {c \in all : core[c] >= k}, edges)
             /\ d \in DOMAIN summaries => summaries[d] >= branches[d].revision

(* Reached from the seeds by at most n edges; a path of edges.              *)
Beyond(found, edges) == found \cup {m \in Nodes : \E f \in found : {f, m} \in edges}
Within(seeds, edges, n) == FoldLeft(LAMBDA found, i : Beyond(found, edges), seeds, [i \in 1..n |-> i])
Connects(path, edges) == \A i \in 1..(Len(path) - 1) : {path[i], path[i + 1]} \in edges

(* An expansion keeps its budget, leads from each node back to a seed by a  *)
(* path of edges it used, as short as those allow, and unless it says that  *)
(* a budget stopped it, or all the edges it may use are used, has visited   *)
(* everything that can be reached.                                          *)
ExpansionExplained ==
    expansion.done =>
        LET e == expansion IN
           /\ Cardinality(e.visited) <= Max({e.budget.nodes, Cardinality(e.seeds)})
           /\ Cardinality(e.used) <= e.budget.edges
           /\ e.used \subseteq e.edges /\ e.seeds \subseteq e.visited
           /\ \A n \in e.visited :
                 /\ Head(e.paths[n]) \in e.seeds /\ Last(e.paths[n]) = n
                 /\ Connects(e.paths[n], e.used)
                 /\ n \notin Within(e.seeds, e.used, Len(e.paths[n]) - 2) \/ Len(e.paths[n]) = 1
           /\ ~e.reached /\ Cardinality(e.used) < e.budget.edges =>
                 /\ e.visited = Within(e.seeds, e.edges, Cardinality(Nodes))
                 /\ e.used = {f \in e.edges : f \subseteq e.visited}
================================================================================
