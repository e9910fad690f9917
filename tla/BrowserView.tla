------------------------------ MODULE BrowserView ------------------------------
(***************************************************************************)
(* What a reader of a project sees while it is written: the caches that    *)
(* are labelled with the newest event, the graph that a page of the web    *)
(* interface shows, and the event stream that tells the page to read it    *)
(* again. One page is followed; the streams of others only take up room.   *)
(***************************************************************************)
EXTENDS Naturals, Sequences, FiniteSets, Functions, FiniteSetsExt, SequencesExt

CONSTANTS
    MaxCommits,      \* bound: transactions that change the project
    MaxQuiet,        \* bound: those of them that append no event
    MaxStreams,      \* event streams a daemon serves at a time
    MaxPage,         \* events read from the journal at a time
    MaxPreflights,   \* preflight results that are kept
    MaxDrops,        \* bound: connections lost, sequences not read, and what its
                     \* reader makes the page give up
    NoLabel          \* a cache that is empty, a page that shows nothing, ...

ASSUME ViewAssumption ==
    /\ {MaxCommits, MaxQuiet, MaxDrops} \subseteq Nat
    /\ {MaxStreams, MaxPage, MaxPreflights} \subseteq Nat \ {0}
    /\ NoLabel \notin Nat

VARIABLES
    commits,      \* transactions committed: a read sees the newest of these
    events,       \* for each event, by sequence, the commit that appended it
    index,        \* the retrieval cache: [label, content]
    preflights,   \* preflight results, oldest first: [label, content]
    reading,      \* the read that holds the mutex: [by, step, label, content]
    page,         \* [request, oldest, asOf, view, cursor]: a load and what is shown
    source,       \* the page's EventSource: [state, after, last]
    stream,       \* the daemon's end of it: [cursor, pending, wire]
    active,       \* the daemon's count of streams
    elsewhere,    \* streams that count and are not the page's: of other pages,
                  \* or of connections that are gone, which it learns later
    refusing,     \* the page's request is counted and about to be refused
    drops         \* bound: how often any of these has happened

journalVars == <<commits, events>>
readVars == <<index, preflights, reading>>
countVars == <<active, elsewhere, refusing>>
viewVars == <<journalVars, readVars, page, source, stream, countVars, drops>>

Revision == Len(events)
ContentAt(revision) == IF revision = 0 THEN 0 ELSE events[revision]

NoPage == [request |-> "closed", oldest |-> 0, asOf |-> 0, view |-> NoLabel, cursor |-> 0]
NoRead == [by |-> "none"]
NoStream == [cursor |-> 0, pending |-> <<>>, wire |-> <<>>]
NoSource == [state |-> "closed", after |-> 0, last |-> NoLabel]

ViewInit ==
    /\ commits = 0 /\ events = <<>>
    /\ index = [label |-> NoLabel] /\ preflights = <<>> /\ reading = NoRead
    /\ page = NoPage
    /\ source = NoSource /\ stream = NoStream
    /\ active = 0 /\ elsewhere = 0 /\ refusing = FALSE /\ drops = 0

--------------------------------------------------------------------------------
(* Writes *)

Commit ==
    /\ commits < MaxCommits
    /\ commits' = commits + 1 /\ events' = Append(events, commits + 1)
    /\ UNCHANGED <<readVars, page, source, stream, countVars, drops>>

(* There are writes that change the graph and append no event.              *)
CommitQuietly ==
    /\ commits < MaxCommits /\ commits - Revision < MaxQuiet
    /\ commits' = commits + 1
    /\ UNCHANGED <<events, readVars, page, source, stream, countVars, drops>>

--------------------------------------------------------------------------------
(* Reads under a label. Every statement sees the newest commit, and the     *)
(* mutex of the read repository keeps reads apart, not writes from reads.   *)
(* Bound: without a page, which counts on no more than that a read under    *)
(* the newest label sees what was committed with it.                        *)

ReadRevision(by) ==
    /\ page = NoPage /\ reading = NoRead
    /\ reading' = [by |-> by, step |-> "labelled", label |-> Revision, content |-> 0]
    /\ UNCHANGED <<journalVars, index, preflights, page, source, stream, countVars, drops>>

Cache == IF reading.by = "preflight" THEN Range(preflights) ELSE {index}
CacheHit == \E entry \in Cache : entry.label = reading.label

ReadRows ==
    /\ reading # NoRead /\ reading.step = "labelled" /\ ~CacheHit
    /\ reading' = [reading EXCEPT !.step = "read", !.content = commits]
    /\ UNCHANGED <<journalVars, index, preflights, page, source, stream, countVars, drops>>

LabelledLate(read) == [label |-> Revision, content |-> read.content]
Labelled(read) == [label |-> read.label, content |-> read.content]

(* Results of a preflight are kept first in, first out.                     *)
RememberPreflight ==
    LET longer == Append(preflights, Labelled(reading))
    IN preflights' = IF Len(longer) > MaxPreflights THEN Tail(longer) ELSE longer

Answer ==
    /\ reading # NoRead
    /\ \/ reading.step = "labelled" /\ CacheHit /\ UNCHANGED <<index, preflights>>
       \/ /\ reading.step = "read" /\ reading.by = "query"
          /\ index' = Labelled(reading) /\ UNCHANGED preflights
       \/ /\ reading.step = "read" /\ reading.by = "preflight"
          /\ RememberPreflight /\ UNCHANGED index
    /\ reading' = NoRead
    /\ UNCHANGED <<journalVars, page, source, stream, countVars, drops>>

--------------------------------------------------------------------------------
(* Loading the graph: a query, a read for each Case it finds, and last the  *)
(* sequence up to which the page is to take itself for informed. `oldest`   *)
(* is the oldest commit that a part of the answer was read at.              *)

AtStep(step) == page.request = step
GiveUp == drops < MaxDrops /\ drops' = drops + 1

(* A load that is still going on is given up.                               *)
LoadGraph ==
    /\ reading = NoRead
    /\ IF page.request \in {"closed", "none"} THEN UNCHANGED drops ELSE GiveUp
    /\ page' = [page EXCEPT !.request = "sent", !.oldest = 0, !.asOf = 0]
    /\ UNCHANGED <<journalVars, readVars, source, stream, countVars>>

(* With a text, the Cases may be found by a cached index.                   *)
QueryGraph ==
    /\ AtStep("sent")
    /\ \E content \in ContentAt(Revision)..commits :
          page' = [page EXCEPT !.request = "queried", !.oldest = content]
    /\ UNCHANGED <<journalVars, readVars, source, stream, countVars, drops>>

(* A sequence that cannot be read is given as 0.                            *)
AsOf ==
    /\ AtStep("queried")
    /\ \/ page' = [page EXCEPT !.request = "answered", !.asOf = Revision] /\ UNCHANGED drops
       \/ page' = [page EXCEPT !.request = "answered", !.asOf = 0] /\ GiveUp
    /\ UNCHANGED <<journalVars, readVars, source, stream, countVars>>

Larger(a, b) == IF a > b THEN a ELSE b

ShowGraph ==
    /\ AtStep("answered")
    /\ page' = [request |-> "shown", oldest |-> 0, asOf |-> 0, view |-> page.oldest,
                cursor |-> Larger(page.cursor, page.asOf)]
    /\ UNCHANGED <<journalVars, readVars, source, stream, countVars, drops>>

(* The Case that is selected, by the load or by a click later, is read      *)
(* afresh and may bring a newer sequence with it; where there is no Case,   *)
(* or it cannot be read, the load goes on all the same.                     *)
SelectCase ==
    /\ AtStep("shown") \/ (AtStep("none") /\ page.view # NoLabel)
    /\ \E sequence \in {0, Revision} :
          page' = [page EXCEPT !.request = IF @ = "shown" THEN "selected" ELSE @,
                               !.cursor = Larger(@, sequence)]
    /\ UNCHANGED <<journalVars, readVars, source, stream, countVars, drops>>

(* The graph, or after it the list of recent activity, cannot be read.      *)
LoadFails ==
    /\ page.request \in {"sent", "queried", "answered", "selected"}
    /\ page' = [page EXCEPT !.request = "none", !.oldest = 0, !.asOf = 0]
    /\ UNCHANGED <<journalVars, readVars, source, stream, countVars, drops>>

--------------------------------------------------------------------------------
(* The event stream *)

(* The page's end of an open stream is gone; the daemon notices later.      *)
HangUp ==
    /\ stream' = NoStream
    /\ elsewhere' = IF source.state = "open" THEN elsewhere + 1 ELSE elsewhere

(* At the end of a load, or by the button.  Bound: not in the moment in     *)
(* which the daemon refuses the request before.                             *)
ConnectEvents ==
    /\ ~refusing
    /\ \/ /\ AtStep("selected") /\ page' = [page EXCEPT !.request = "none"] /\ UNCHANGED drops
       \/ /\ page.request # "closed" /\ UNCHANGED page
          /\ IF AtStep("none") /\ source.state = "closed" THEN UNCHANGED drops ELSE GiveUp
    /\ source' = [state |-> "connecting", after |-> page.cursor, last |-> NoLabel]
    /\ HangUp
    /\ UNCHANGED <<journalVars, readVars, active, refusing>>

(* The page goes to another project.                                        *)
LeaveProject ==
    /\ page.request # "closed" /\ ~refusing
    /\ GiveUp
    /\ page' = NoPage /\ source' = NoSource
    /\ HangUp
    /\ UNCHANGED <<journalVars, readVars, active, refusing>>

(* Last-Event-ID, which an EventSource sends when it reconnects, counts     *)
(* more than the address it was made with.                                  *)
ResumeAtAddress(s) == s.after
ResumeAt(s) == IF s.last # NoLabel THEN s.last ELSE s.after

NewStreamFromNow == [NoStream EXCEPT !.cursor = Revision]
NewStream == [NoStream EXCEPT !.cursor = ResumeAt(source)]

(* A request is counted, and if there were too many before it, discounted   *)
(* again and refused.                                                       *)
BrowserEvents ==
    /\ source.state = "connecting" /\ ~refusing
    /\ active' = active + 1
    /\ IF active >= MaxStreams THEN refusing' = TRUE /\ UNCHANGED <<source, stream>>
       ELSE /\ source' = [source EXCEPT !.state = "open"] /\ stream' = NewStream
            /\ UNCHANGED refusing
    /\ UNCHANGED <<journalVars, readVars, page, elsewhere, drops>>

(* A refused EventSource does not try again.                                *)
RefuseCounted ==
    /\ refusing /\ refusing' = FALSE
    /\ source' = NoSource
    /\ UNCHANGED <<journalVars, readVars, page, stream, active, elsewhere, drops>>

Refuse ==
    /\ refusing /\ refusing' = FALSE
    /\ active' = active - 1
    /\ source' = NoSource
    /\ UNCHANGED <<journalVars, readVars, page, stream, elsewhere, drops>>

OtherStream ==
    /\ active < MaxStreams
    /\ active' = active + 1 /\ elsewhere' = elsewhere + 1
    /\ UNCHANGED <<journalVars, readVars, page, source, stream, refusing, drops>>

StreamGuardDropped ==
    /\ elsewhere > 0
    /\ active' = active - 1 /\ elsewhere' = elsewhere - 1
    /\ UNCHANGED <<journalVars, readVars, page, source, stream, refusing, drops>>

ConnectionLost ==
    /\ source.state = "open"
    /\ GiveUp
    /\ source' = [source EXCEPT !.state = "connecting"]
    /\ HangUp
    /\ UNCHANGED <<journalVars, readVars, page, active, refusing>>

(* list_recent_activity: the newest events after the cursor, oldest first.  *)
(* Of more than a page of them the older ones are left out, and no event     *)
(* snapshot_required says so.                                                *)
RecentActivityOneShort(after) ==
    LET first == Larger(after, Revision - (MaxPage - 1))
    IN [i \in 1..(Revision - first) |-> first + i]
RecentActivity(after) ==
    LET first == Larger(after, Revision - MaxPage)
    IN [i \in 1..(Revision - first) |-> first + i]

Poll ==
    /\ source.state = "open" /\ stream.pending = <<>>
    /\ Revision > stream.cursor
    /\ stream' = [stream EXCEPT !.pending = RecentActivity(stream.cursor)]
    /\ UNCHANGED <<journalVars, readVars, page, source, countVars, drops>>

Deliver ==
    /\ source.state = "open" /\ stream.pending # <<>>
    /\ stream' = [cursor |-> Head(stream.pending), pending |-> Tail(stream.pending),
                  wire |-> Append(stream.wire, Head(stream.pending))]
    /\ UNCHANGED <<journalVars, readVars, page, source, countVars, drops>>

(* News makes the page load the graph again, in place of any load it is in. *)
Receive ==
    /\ stream.wire # <<>>
    /\ LET sequence == Head(stream.wire)
       IN /\ source' = [source EXCEPT !.last = sequence]
          /\ IF sequence <= page.cursor THEN UNCHANGED page
             ELSE page' = [request |-> "sent", oldest |-> 0, asOf |-> 0, view |-> page.view,
                           cursor |-> sequence]
    /\ stream' = [stream EXCEPT !.wire = Tail(@)]
    /\ UNCHANGED <<journalVars, readVars, countVars, drops>>

PageStep ==
    \/ QueryGraph \/ AsOf \/ ShowGraph
    \/ (AtStep("shown") /\ SelectCase)
    \/ (AtStep("selected") /\ ConnectEvents /\ AtStep("none")')
StreamStep == BrowserEvents \/ Refuse \/ Poll \/ Deliver

ViewNext ==
    \/ Commit \/ CommitQuietly
    \/ (\E by \in {"query", "preflight"} : ReadRevision(by)) \/ ReadRows \/ Answer
    \/ LoadGraph \/ QueryGraph \/ AsOf \/ ShowGraph \/ SelectCase \/ LoadFails
    \/ ConnectEvents \/ LeaveProject \/ BrowserEvents \/ Refuse \/ OtherStream \/ StreamGuardDropped
    \/ ConnectionLost \/ Poll \/ Deliver \/ Receive

(* Requests are answered, the daemon's task for a stream goes on, and the   *)
(* browser hands on the events it gets.                                     *)
ViewFairness == WF_viewVars(PageStep) /\ WF_viewVars(StreamStep) /\ WF_viewVars(Receive)
================================================================================
