--------------------------- MODULE ProjectReadsProofs --------------------------
(***************************************************************************)
(* ProjectReads for any sizes of journal, pages, caches and streams: what  *)
(* a cache under the newest label knows, which events a page gets in which *)
(* order, and that no place for a stream is lost; all of that is about     *)
(* the journal and its readers, BrowserView. From "Repetition and folds"   *)
(* on, what an expansion finds in any graph within any budget, and what    *)
(* the hierarchy of any Cases holds.                                       *)
(***************************************************************************)
EXTENDS ProjectReads, SequenceTheorems, FiniteSetTheorems, WellFoundedInduction, TLAPS

JournalInv ==
    /\ commits \in Nat /\ events \in Seq(Nat)
    /\ \A i \in 1..Len(events) : events[i] \in 1..commits

(* Rows that were read under a label are at least as new as the event.      *)
Entries == [label : Nat, content : Nat]
Sound(entry) ==
    /\ entry \in Entries
    /\ entry.label <= Len(events)
    /\ entry.label # 0 => entry.content >= events[entry.label]

ReadInv ==
    /\ index = [label |-> NoLabel] \/ Sound(index)
    /\ preflights \in Seq(Entries) /\ Len(preflights) <= MaxPreflights
    /\ \A i \in 1..Len(preflights) : Sound(preflights[i])
    /\ reading # NoRead =>
          /\ reading \in [by : {"query", "preflight"}, step : {"labelled", "read"},
                          label : Nat, content : Nat]
          /\ reading.label <= Len(events)
          /\ reading.step = "read" => Sound(Labelled(reading))

PageInv ==
    /\ page \in [request : {"closed", "none", "sent", "queried", "answered", "shown", "selected"},
                 oldest : Nat, asOf : Nat, view : Nat \cup {NoLabel}, cursor : Nat]
    /\ page.cursor <= Len(events) /\ page.asOf <= Len(events)
    /\ page.oldest <= commits
    /\ page.view # NoLabel => page.view <= commits

(* Only a stream that is open has anything on its way.                      *)
SourceInv ==
    /\ source \in [state : {"closed", "connecting", "open"}, after : Nat, last : Nat \cup {NoLabel}]
    /\ source.after <= Len(events)
    /\ source.last # NoLabel => source.last <= Len(events)
    /\ stream \in [cursor : Nat, pending : Seq(Nat), wire : Seq(Nat)]
    /\ stream.cursor <= Len(events)
    /\ \A i \in 1..Len(stream.pending) : stream.pending[i] <= Len(events)
    /\ \A i \in 1..Len(stream.wire) : stream.wire[i] <= Len(events)
    /\ source.state # "open" => stream = NoStream

Open == IF source.state = "open" THEN 1 ELSE 0
Refusing == IF refusing THEN 1 ELSE 0
CountInv ==
    /\ active \in Nat /\ elsewhere \in Nat /\ refusing \in BOOLEAN
    /\ elsewhere + Open <= MaxStreams
    /\ active = elsewhere + Open + Refusing
    /\ refusing => source.state = "connecting"

(* From the last event the page got: what is sent and what is still to be.  *)
Ahead(low, wire, pending) == (<<low>> \o wire) \o pending
Chained(s) ==
    \A i \in 1..(Len(s) - 1) :
        \/ s[i + 1] = s[i] + 1
        \/ s[i + 1] > s[i] /\ WholePage(s, i)
OrderInv ==
    source.state = "open" =>
        /\ ResumeAt(source) \in Nat
        /\ stream.cursor = IF stream.wire = <<>> THEN ResumeAt(source)
                           ELSE stream.wire[Len(stream.wire)]
        /\ Chained(Ahead(ResumeAt(source), stream.wire, stream.pending))

ViewInv == JournalInv /\ ReadInv /\ PageInv /\ SourceInv /\ CountInv /\ OrderInv

(* What a step does to the journal.                                         *)
Grows ==
    /\ commits' >= commits /\ Len(events') >= Len(events)
    /\ \A i \in 1..Len(events) : events'[i] = events[i]

--------------------------------------------------------------------------------
(* The start *)

LEMMA Bounds ==
    /\ MaxStreams \in Nat /\ MaxPage \in Nat /\ MaxPreflights \in Nat
    /\ MaxStreams > 0 /\ MaxPage > 0 /\ MaxPreflights > 0
    /\ NoLabel \notin Nat
BY ViewAssumption

LEMMA ViewInitInv == ViewInit => ViewInv
<1> SUFFICES ASSUME ViewInit PROVE ViewInv
  OBVIOUS
<1> USE Bounds DEF ViewInit
<1>1. JournalInv
  BY EmptySeq DEF JournalInv
<1>2. ReadInv
  BY EmptySeq DEF ReadInv, NoRead
<1>3. PageInv
  BY EmptySeq DEF PageInv, NoPage
<1>4. SourceInv
  BY EmptySeq DEF SourceInv, NoSource, NoStream
<1>5. CountInv
  <2>1. Open = 0
    BY DEF Open, NoSource
  <2>2. ~refusing /\ refusing \in BOOLEAN
    BY Zenon
  <2>3. Refusing = 0
    BY <2>2 DEF Refusing
  <2> QED
    BY <2>1, <2>2, <2>3 DEF CountInv
<1>6. OrderInv
  BY DEF OrderInv, NoSource, NoStream
<1> QED
  BY <1>1, <1>2, <1>3, <1>4, <1>5, <1>6 DEF ViewInv

--------------------------------------------------------------------------------
(* The journal *)

LEMMA JournalStep == JournalInv /\ [ViewNext]_viewVars => JournalInv' /\ Grows
<1> SUFFICES ASSUME JournalInv, [ViewNext]_viewVars PROVE JournalInv' /\ Grows
  OBVIOUS
<1> USE DEF JournalInv, Grows
<1>1. CASE Commit
  <2>1. events' = Append(events, commits + 1) /\ commits' = commits + 1 /\ commits + 1 \in Nat
    BY <1>1 DEF Commit
  <2>2. /\ events' \in Seq(Nat) /\ Len(events') = Len(events) + 1
        /\ \A i \in 1..Len(events) : events'[i] = events[i]
        /\ events'[Len(events) + 1] = commits + 1
    BY <2>1, AppendProperties
  <2> QED
    BY <2>1, <2>2, LenProperties
<1>2. CASE CommitQuietly
  BY <1>2, LenProperties DEF CommitQuietly
<1>3. CASE UNCHANGED journalVars
  BY <1>3, LenProperties DEF journalVars
<1> QED
  BY <1>1, <1>2, <1>3 DEF ViewNext, viewVars, journalVars, ReadRevision, ReadRows, Answer, LoadGraph, QueryGraph,
     AsOf, ShowGraph, SelectCase, LoadFails, ConnectEvents, LeaveProject, BrowserEvents,
     Refuse, OtherStream,
     StreamGuardDropped, ConnectionLost, Poll, Deliver, Receive

LEMMA RevisionNat == JournalInv => Revision \in Nat /\ Revision = Len(events)
BY LenProperties DEF JournalInv, Revision

(* What is known of an older journal holds of one that has grown.           *)
LEMMA SoundGrows ==
    ASSUME JournalInv, Grows, JournalInv', NEW entry, Sound(entry)
    PROVE  /\ entry \in Entries /\ entry.label <= Len(events')
           /\ entry.label # 0 => entry.content >= events'[entry.label]
<1>1. Len(events) \in Nat /\ Len(events') \in Nat /\ entry.label \in Nat /\ Len(events') >= Len(events)
  BY LenProperties DEF JournalInv, Grows, Sound, Entries
<1>2. entry.label # 0 => entry.label \in 1..Len(events)
  BY <1>1 DEF Sound
<1> QED
  BY <1>1, <1>2 DEF Sound, Grows

LEMMA SoundNow ==
    ASSUME JournalInv, NEW label \in 0..Len(events)
    PROVE  Sound([label |-> label, content |-> commits])
<1>1. Len(events) \in Nat /\ commits \in Nat
  BY LenProperties DEF JournalInv
<1>2. label # 0 => commits >= events[label]
  BY <1>1 DEF JournalInv
<1> QED
  BY <1>1, <1>2 DEF Sound, Entries

--------------------------------------------------------------------------------
(* The reads under a label *)

LEMMA ReadKept ==
    ASSUME JournalInv, Grows, JournalInv', ReadInv, UNCHANGED readVars
    PROVE  ReadInv'
<1> DEFINE Later(entry) == /\ entry \in Entries /\ entry.label <= Len(events')
                           /\ entry.label # 0 => entry.content >= events'[entry.label]
<1>1. index' = index /\ preflights' = preflights /\ reading' = reading
  BY DEF readVars
<1>2. ASSUME NEW entry, Sound(entry) PROVE Later(entry)
  BY <1>2, SoundGrows
<1>3. index = [label |-> NoLabel] \/ Later(index)
  BY <1>2 DEF ReadInv
<1>4. \A i \in 1..Len(preflights) : Later(preflights[i])
  BY <1>2 DEF ReadInv
<1>5. reading # NoRead => reading.label <= Len(events')
  BY LenProperties DEF ReadInv, JournalInv, Grows
<1>6. reading # NoRead /\ reading.step = "read" => Later(Labelled(reading))
  BY <1>2 DEF ReadInv
<1>7. Labelled(reading)' = Labelled(reading)
  BY <1>1 DEF Labelled
<1>8. /\ index' = [label |-> NoLabel] \/ Sound(index)'
      /\ \A i \in 1..Len(preflights') : Sound(preflights[i])'
      /\ reading' # NoRead /\ reading'.step = "read" => Sound(Labelled(reading))'
  BY <1>1, <1>3, <1>4, <1>6, <1>7 DEF Sound
<1> QED
  BY <1>1, <1>5, <1>8 DEF ReadInv

LEMMA RememberedSound ==
    ASSUME ReadInv, Sound(Labelled(reading)), RememberPreflight
    PROVE  /\ preflights' \in Seq(Entries) /\ Len(preflights') <= MaxPreflights
           /\ \A i \in 1..Len(preflights') : Sound(preflights'[i])
<1> DEFINE entry == Labelled(reading)
           longer == Append(preflights, entry)
<1>1. preflights \in Seq(Entries) /\ entry \in Entries /\ Len(preflights) <= MaxPreflights
  BY DEF ReadInv, Sound
<1>2. /\ longer \in Seq(Entries) /\ longer # <<>> /\ Len(longer) = Len(preflights) + 1
      /\ \A i \in 1..Len(preflights) : longer[i] = preflights[i]
      /\ longer[Len(preflights) + 1] = entry
  BY <1>1, AppendProperties
<1>3. \A i \in 1..Len(longer) : Sound(longer[i])
  <2> SUFFICES ASSUME NEW i \in 1..Len(longer) PROVE Sound(longer[i])
    OBVIOUS
  <2>1. i \in 1..Len(preflights) \/ i = Len(preflights) + 1
    BY <1>1, <1>2, LenProperties
  <2> QED
    BY <2>1, <1>2 DEF ReadInv
<1>4. CASE Len(longer) > MaxPreflights
  <2>1. preflights' = Tail(longer)
    BY <1>4 DEF RememberPreflight
  <2>2. /\ Tail(longer) \in Seq(Entries) /\ Len(Tail(longer)) = Len(longer) - 1
        /\ \A i \in 1..Len(Tail(longer)) : Tail(longer)[i] = longer[i + 1]
    BY <1>2, HeadTailProperties
  <2> HIDE DEF longer
  <2>3. \A i \in 1..Len(Tail(longer)) : i + 1 \in 1..Len(longer)
    BY <1>2, <2>2, LenProperties
  <2>4. Len(preflights') <= MaxPreflights
    BY <1>1, <1>2, <2>1, <2>2, Bounds, LenProperties
  <2> QED
    BY <1>3, <2>1, <2>2, <2>3, <2>4
<1>5. CASE ~(Len(longer) > MaxPreflights)
  <2>1. preflights' = longer
    BY <1>5 DEF RememberPreflight
  <2> HIDE DEF longer
  <2>2. Len(longer) <= MaxPreflights
    BY <1>5, <1>2, Bounds, LenProperties
  <2> QED
    BY <1>2, <1>3, <2>1, <2>2
<1> QED
  BY <1>4, <1>5

LEMMA ReadStep == 
    ASSUME JournalInv, Grows, JournalInv', ReadInv, [ViewNext]_viewVars
    PROVE  ReadInv'
<1>1. CASE UNCHANGED readVars
  BY <1>1, ReadKept
<1>2. ASSUME NEW by \in {"query", "preflight"}, ReadRevision(by) PROVE ReadInv'
  <2>1. /\ reading' = [by |-> by, step |-> "labelled", label |-> Revision, content |-> 0]
        /\ events' = events /\ index' = index /\ preflights' = preflights
    BY <1>2 DEF ReadRevision, journalVars
  <2>2. Revision \in Nat /\ Revision = Len(events)
    BY RevisionNat
  <2>3. /\ index' = [label |-> NoLabel] \/ Sound(index)'
        /\ \A i \in 1..Len(preflights') : Sound(preflights[i])'
    BY <2>1 DEF ReadInv, Sound
  <2> QED
    BY <2>1, <2>2, <2>3 DEF ReadInv
<1>3. CASE ReadRows
  <2>1. /\ reading # NoRead /\ reading' = [reading EXCEPT !.step = "read", !.content = commits]
        /\ events' = events /\ index' = index /\ preflights' = preflights
    BY <1>3 DEF ReadRows, journalVars
  <2>2. reading \in [by : {"query", "preflight"}, step : {"labelled", "read"},
                     label : Nat, content : Nat]
    BY <2>1 DEF ReadInv
  <2>3. /\ reading'.step = "read" /\ reading'.content = commits /\ reading'.label = reading.label
        /\ reading' \in [by : {"query", "preflight"}, step : {"labelled", "read"},
                          label : Nat, content : Nat]
    BY <2>1, <2>2 DEF JournalInv
  <2>4. reading.label \in 0..Len(events)
    BY <2>1, <2>2, LenProperties DEF ReadInv, JournalInv
  <2>5. Sound([label |-> reading.label, content |-> commits])
    BY <2>4, SoundNow
  <2>6. Sound(Labelled(reading))'
    BY <2>1, <2>3, <2>5 DEF Labelled, Sound
  <2>7. /\ index' = [label |-> NoLabel] \/ Sound(index)'
        /\ \A i \in 1..Len(preflights') : Sound(preflights[i])'
    BY <2>1 DEF ReadInv, Sound
  <2> QED
    BY <2>1, <2>3, <2>4, <2>6, <2>7 DEF ReadInv
<1>4. CASE Answer
  <2>1. events' = events /\ reading' = NoRead /\ reading # NoRead
    BY <1>4 DEF Answer, journalVars
  <2>2. CASE reading.step = "labelled" /\ CacheHit /\ UNCHANGED <<index, preflights>>
    BY <2>1, <2>2 DEF ReadInv, Sound
  <2>3. CASE /\ reading.step = "read" /\ reading.by = "query"
             /\ index' = Labelled(reading) /\ UNCHANGED preflights
    BY <2>1, <2>3 DEF ReadInv, Sound
  <2>4. CASE /\ reading.step = "read" /\ reading.by = "preflight"
             /\ RememberPreflight /\ UNCHANGED index
    <3>1. Sound(Labelled(reading))
      BY <2>1, <2>4 DEF ReadInv
    <3>2. /\ preflights' \in Seq(Entries) /\ Len(preflights') <= MaxPreflights
          /\ \A i \in 1..Len(preflights') : Sound(preflights'[i])
      BY <3>1, <2>4, RememberedSound
    <3>3. \A i \in 1..Len(preflights') : Sound(preflights[i])'
      BY <2>1, <3>2 DEF Sound
    <3>4. index' = [label |-> NoLabel] \/ Sound(index)'
      BY <2>1, <2>4 DEF ReadInv, Sound
    <3> QED
      BY <2>1, <3>2, <3>3, <3>4 DEF ReadInv
  <2> QED
    BY <1>4, <2>2, <2>3, <2>4 DEF Answer
<1> QED
  BY <1>1, <1>2, <1>3, <1>4 DEF ViewNext, viewVars, Commit, CommitQuietly, LoadGraph, QueryGraph,
     AsOf, ShowGraph, SelectCase, LoadFails, ConnectEvents, LeaveProject, BrowserEvents,
     Refuse, OtherStream,
     StreamGuardDropped, ConnectionLost, Poll, Deliver, Receive

--------------------------------------------------------------------------------
(* The page *)

LEMMA PageKept ==
    ASSUME JournalInv, Grows, JournalInv', PageInv, page' = page
    PROVE  PageInv'
BY LenProperties DEF JournalInv, Grows, PageInv

LEMMA LargerBounded ==
    ASSUME NEW a \in Nat, NEW b \in Nat
    PROVE  /\ Larger(a, b) \in {a, b} /\ Larger(a, b) \in Nat
           /\ Larger(a, b) >= a /\ Larger(a, b) >= b
BY DEF Larger

LEMMA ContentBounded == JournalInv => ContentAt(Revision) \in Nat /\ ContentAt(Revision) <= commits
BY RevisionNat, LenProperties DEF JournalInv, ContentAt

LEMMA PageStepInv ==
    ASSUME JournalInv, Grows, JournalInv', PageInv, SourceInv, [ViewNext]_viewVars
    PROVE  PageInv'
<1> DEFINE Requests == {"closed", "none", "sent", "queried", "answered", "shown", "selected"}
<1>1. /\ page \in [request : Requests, oldest : Nat, asOf : Nat, view : Nat \cup {NoLabel}, cursor : Nat]
      /\ page.cursor <= Len(events) /\ page.asOf <= Len(events) /\ page.oldest <= commits
      /\ page.view # NoLabel => page.view <= commits
  BY DEF PageInv
<1>2. Revision \in Nat /\ Revision = Len(events) /\ commits \in Nat
  BY RevisionNat DEF JournalInv
<1>3. CASE page' = page
  BY <1>3, PageKept
<1>4. CASE LoadGraph
  <2>1. page' = [page EXCEPT !.request = "sent", !.oldest = 0, !.asOf = 0]
    BY <1>4 DEF LoadGraph
  <2>2. /\ page' \in [request : Requests, oldest : Nat, asOf : Nat, view : Nat \cup {NoLabel}, cursor : Nat]
        /\ page'.oldest = 0 /\ page'.asOf = 0 /\ page'.view = page.view
        /\ page'.cursor = page.cursor
    BY <1>1, <2>1
  <2> QED
    BY <1>1, <1>2, <1>4, <2>2 DEF LoadGraph, journalVars, PageInv
<1>5. CASE QueryGraph
  <2>1. PICK content \in ContentAt(Revision)..commits :
           page' = [page EXCEPT !.request = "queried", !.oldest = content]
    BY <1>5 DEF QueryGraph
  <2>2. content \in Nat /\ content <= commits
    BY <1>2, ContentBounded
  <2> QED
    BY <1>1, <1>5, <2>1, <2>2 DEF QueryGraph, journalVars, PageInv
<1>6. CASE AsOf
  <2>1. PICK asOf \in {0, Revision} :
           page' = [page EXCEPT !.request = "answered", !.asOf = asOf]
    BY <1>6 DEF AsOf
  <2>0. asOf \in Nat /\ asOf <= Len(events)
    BY <1>2
  <2>2. /\ page' \in [request : Requests, oldest : Nat, asOf : Nat, view : Nat \cup {NoLabel}, cursor : Nat]
        /\ page'.oldest = page.oldest /\ page'.asOf = asOf /\ page'.view = page.view
        /\ page'.cursor = page.cursor
    BY <1>1, <2>0, <2>1
  <2> QED
    BY <1>1, <1>2, <1>6, <2>0, <2>2 DEF AsOf, journalVars, PageInv
<1>7. CASE ShowGraph
  <2>1. Larger(page.cursor, page.asOf) \in Nat /\ Larger(page.cursor, page.asOf) <= Len(events)
    BY <1>1, LargerBounded
  <2> QED
    BY <1>1, <1>2, <1>7, <2>1 DEF ShowGraph, journalVars, PageInv
<1>8. CASE SelectCase
  <2>1. page.cursor \in Nat /\ page.cursor <= Revision
    BY <1>1, <1>2
  <2>0. PICK sequence \in {0, Revision} :
           page' = [page EXCEPT !.request = IF @ = "shown" THEN "selected" ELSE @,
                                !.cursor = Larger(@, sequence)]
    BY <1>8 DEF SelectCase
  <2>2. Larger(page.cursor, sequence) \in Nat /\ Larger(page.cursor, sequence) <= Len(events)
    BY <1>2, <2>1 DEF Larger
  <2>3. /\ page' \in [request : Requests, oldest : Nat, asOf : Nat, view : Nat \cup {NoLabel}, cursor : Nat]
        /\ page'.oldest = page.oldest /\ page'.asOf = page.asOf /\ page'.view = page.view
        /\ page'.cursor = Larger(page.cursor, sequence)
    BY <1>1, <2>0, <2>2
  <2> QED
    BY <1>1, <1>8, <2>2, <2>3 DEF SelectCase, journalVars, PageInv
<1>9. CASE LoadFails
  <2>1. page' = [page EXCEPT !.request = "none", !.oldest = 0, !.asOf = 0]
    BY <1>9 DEF LoadFails
  <2>2. /\ page' \in [request : Requests, oldest : Nat, asOf : Nat, view : Nat \cup {NoLabel}, cursor : Nat]
        /\ page'.oldest = 0 /\ page'.asOf = 0 /\ page'.view = page.view
        /\ page'.cursor = page.cursor
    BY <1>1, <2>1
  <2> QED
    BY <1>1, <1>2, <1>9, <2>2 DEF LoadFails, journalVars, PageInv
<1>10. CASE ConnectEvents
  <2>1. page' = page \/ page' = [page EXCEPT !.request = "none"]
    BY <1>10 DEF ConnectEvents
  <2>2. CASE page' = page
    BY <1>3, <2>2
  <2>3. CASE page' = [page EXCEPT !.request = "none"]
    BY <1>1, <1>10, <2>3 DEF ConnectEvents, journalVars, PageInv
  <2> QED
    BY <2>1, <2>2, <2>3
<1>12. CASE LeaveProject
  <2>1. page' = NoPage
    BY <1>12 DEF LeaveProject
  <2>2. /\ page' \in [request : Requests, oldest : Nat, asOf : Nat, view : Nat \cup {NoLabel}, cursor : Nat]
        /\ page'.oldest = 0 /\ page'.asOf = 0 /\ page'.view = NoLabel /\ page'.cursor = 0
    BY <2>1 DEF NoPage
  <2> QED
    BY <1>2, <1>12, <2>2 DEF LeaveProject, journalVars, PageInv
<1>11. CASE Receive
  <2>1. stream.wire \in Seq(Nat) /\ stream.wire # <<>>
    BY <1>11 DEF Receive, SourceInv
  <2>2. Head(stream.wire) \in Nat /\ Head(stream.wire) <= Len(events)
    BY <2>1, HeadTailProperties, LenProperties DEF SourceInv
  <2>3. CASE Head(stream.wire) <= page.cursor
    BY <1>3, <1>11, <2>3 DEF Receive
  <2>4. CASE ~(Head(stream.wire) <= page.cursor)
    BY <1>1, <1>2, <1>11, <2>2, <2>4 DEF Receive, journalVars, PageInv
  <2> QED
    BY <2>3, <2>4
<1> QED
  BY <1>3, <1>4, <1>5, <1>6, <1>7, <1>8, <1>9, <1>10, <1>11, <1>12 DEF ViewNext, viewVars, Commit, CommitQuietly,
     ReadRevision, ReadRows, Answer, BrowserEvents, Refuse, OtherStream, StreamGuardDropped,
     ConnectionLost, Poll, Deliver

--------------------------------------------------------------------------------
(* The stream and the places for streams *)

LEMMA SourceKept ==
    ASSUME JournalInv, Grows, JournalInv', SourceInv, UNCHANGED <<source, stream>>
    PROVE  SourceInv'
<1>1. Len(events) \in Nat /\ Len(events') \in Nat /\ Len(events') >= Len(events)
  BY LenProperties DEF JournalInv, Grows
<1>2. /\ source.after \in Nat /\ stream.cursor \in Nat
      /\ \A i \in 1..Len(stream.pending) : stream.pending[i] \in Nat
      /\ \A i \in 1..Len(stream.wire) : stream.wire[i] \in Nat
  BY ElementOfSeq DEF SourceInv
<1> QED
  BY <1>1, <1>2 DEF SourceInv

LEMMA OrderKept == OrderInv /\ UNCHANGED <<source, stream>> => OrderInv'
<1> SUFFICES ASSUME OrderInv, UNCHANGED <<source, stream>> PROVE OrderInv'
  OBVIOUS
<1>1. ResumeAt(source)' = ResumeAt(source)
  BY DEF ResumeAt
<1>2. Chained(Ahead(ResumeAt(source), stream.wire, stream.pending))'
         = Chained(Ahead(ResumeAt(source), stream.wire, stream.pending))
  BY <1>1 DEF Chained, Ahead, WholePage
<1> QED
  BY <1>1, <1>2 DEF OrderInv

(* Each of those events by its place.                                       *)
IsAhead(s, low, wire, pending) ==
    /\ s \in Seq(Nat) /\ Len(s) = (1 + Len(wire)) + Len(pending) /\ s[1] = low
    /\ \A i \in 1..Len(wire) : s[i + 1] = wire[i]
    /\ \A i \in 1..Len(pending) : s[(1 + Len(wire)) + i] = pending[i]
LEMMA AheadItems ==
    ASSUME NEW low \in Nat, NEW wire \in Seq(Nat), NEW pending \in Seq(Nat)
    PROVE  IsAhead(Ahead(low, wire, pending), low, wire, pending)
<1> DEFINE one == <<low>>
           sent == one \o wire
           s == sent \o pending
<1>1. one \in Seq(Nat) /\ Len(one) = 1 /\ one[1] = low
  OBVIOUS
<1>2. Len(wire) \in Nat /\ Len(pending) \in Nat
  BY LenProperties
<1> HIDE DEF one
<1>3. /\ sent \in Seq(Nat) /\ Len(sent) = Len(one) + Len(wire)
      /\ \A i \in 1..Len(one) + Len(wire) :
            sent[i] = IF i <= Len(one) THEN one[i] ELSE wire[i - Len(one)]
  BY <1>1, ConcatProperties
<1> HIDE DEF sent
<1>0. sent \in Seq(Nat) /\ pending \in Seq(Nat)
  BY <1>3
<1>4. /\ s \in Seq(Nat) /\ Len(s) = Len(sent) + Len(pending)
      /\ \A i \in 1..Len(sent) + Len(pending) :
            s[i] = IF i <= Len(sent) THEN sent[i] ELSE pending[i - Len(sent)]
  BY <1>0, ConcatProperties
<1> HIDE DEF s
<1>5. s[1] = low
  BY <1>1, <1>2, <1>3, <1>4
<1>6. ASSUME NEW i \in 1..Len(wire) PROVE s[i + 1] = wire[i]
  <2>1. /\ i + 1 \in 1..Len(one) + Len(wire) /\ ~(i + 1 <= Len(one)) /\ (i + 1) - Len(one) = i
        /\ i + 1 \in 1..Len(sent) + Len(pending) /\ i + 1 <= Len(sent)
    BY <1>1, <1>2, <1>3
  <2> QED
    BY <1>3, <1>4, <2>1
<1>7. ASSUME NEW i \in 1..Len(pending) PROVE s[(1 + Len(wire)) + i] = pending[i]
  <2> DEFINE n == (1 + Len(wire)) + i
  <2>1. n \in 1..Len(sent) + Len(pending) /\ ~(n <= Len(sent)) /\ n - Len(sent) = i
    BY <1>1, <1>2, <1>3
  <2> HIDE DEF n
  <2>2. s[n] = pending[i]
    BY <1>4, <2>1
  <2> QED
    BY <2>2 DEF n
<1>8. Ahead(low, wire, pending) = s
  BY DEF Ahead, s, sent, one
<1>9. s \in Seq(Nat) /\ Len(s) = (1 + Len(wire)) + Len(pending)
  BY <1>1, <1>3, <1>4
<1> QED
  BY <1>5, <1>6, <1>7, <1>8, <1>9 DEF IsAhead

(* The same events, or those after the first of them.                       *)
LEMMA ChainedOn ==
    ASSUME NEW s \in Seq(Nat), NEW t \in Seq(Nat), NEW k \in Nat, Len(s) = Len(t) + k,
           \A i \in 1..Len(t) : t[i] = s[i + k],
           Chained(s)
    PROVE  Chained(t)
<1>1. Len(s) \in Nat /\ Len(t) \in Nat /\ MaxPage \in Nat /\ MaxPage > 0
  BY LenProperties, Bounds
<1> SUFFICES ASSUME NEW i \in 1..(Len(t) - 1)
             PROVE  t[i + 1] = t[i] + 1 \/ (t[i + 1] > t[i] /\ WholePage(t, i))
  BY DEF Chained
<1>2. /\ i + k \in 1..(Len(s) - 1) /\ (i + 1) + k = (i + k) + 1
      /\ i \in 1..Len(t) /\ i + 1 \in 1..Len(t)
  BY <1>1
<1>3. t[i] = s[i + k] /\ t[i + 1] = s[(i + k) + 1]
  BY <1>2
<1>4. CASE s[(i + k) + 1] = s[i + k] + 1
  BY <1>3, <1>4
<1>5. CASE s[(i + k) + 1] > s[i + k] /\ WholePage(s, i + k)
  <2>1. i + MaxPage <= Len(t)
    BY <1>1, <1>2, <1>5 DEF WholePage
  <2>2. ASSUME NEW j \in 1..MaxPage PROVE t[i + j] = t[i + 1] + (j - 1)
    <3>1. i + j \in 1..Len(t) /\ (i + j) + k = (i + k) + j
      BY <1>1, <2>1
    <3>2. s[(i + k) + j] = s[(i + k) + 1] + (j - 1)
      BY <1>5, <2>2 DEF WholePage
    <3> QED
      BY <1>3, <3>1, <3>2
  <2> QED
    BY <1>3, <1>5, <2>1, <2>2 DEF WholePage
<1> QED
  BY <1>2, <1>4, <1>5 DEF Chained

(* With the events first + 1 .. first + Len(page2) after them.              *)
LEMMA ChainedWith ==
    ASSUME NEW s \in Seq(Nat), NEW t \in Seq(Nat), NEW first \in Nat, NEW n \in Nat,
           Len(s) > 0, Len(t) = Len(s) + n,
           \A i \in 1..Len(s) : t[i] = s[i],
           \A i \in 1..n : t[Len(s) + i] = first + i,
           first = s[Len(s)] \/ (first > s[Len(s)] /\ n >= MaxPage),
           Chained(s)
    PROVE  Chained(t)
<1>1. Len(s) \in Nat /\ Len(t) \in Nat /\ MaxPage \in Nat /\ MaxPage > 0
  BY LenProperties, Bounds
<1>2. \A i \in 1..Len(s) : s[i] \in Nat
  BY ElementOfSeq
<1> SUFFICES ASSUME NEW i \in 1..(Len(t) - 1)
             PROVE  t[i + 1] = t[i] + 1 \/ (t[i + 1] > t[i] /\ WholePage(t, i))
  BY DEF Chained
<1>3. CASE i < Len(s)
  <2>1. i \in 1..(Len(s) - 1) /\ i \in 1..Len(s) /\ i + 1 \in 1..Len(s)
    BY <1>1, <1>3
  <2>2. t[i] = s[i] /\ t[i + 1] = s[i + 1]
    BY <2>1
  <2>3. CASE s[i + 1] = s[i] + 1
    BY <2>2, <2>3
  <2>4. CASE s[i + 1] > s[i] /\ WholePage(s, i)
    <3>1. i + MaxPage <= Len(s)
      BY <2>4 DEF WholePage
    <3>2. ASSUME NEW j \in 1..MaxPage PROVE t[i + j] = t[i + 1] + (j - 1)
      <4>1. i + j \in 1..Len(s)
        BY <1>1, <3>1
      <4>2. s[i + j] = s[i + 1] + (j - 1)
        BY <2>4, <3>2 DEF WholePage
      <4> QED
        BY <2>2, <4>1, <4>2
    <3>3. i + MaxPage <= Len(t)
      BY <1>1, <3>1
    <3> QED
      BY <2>2, <2>4, <3>2, <3>3 DEF WholePage
  <2> QED
    BY <2>1, <2>3, <2>4 DEF Chained
<1>4. CASE i = Len(s)
  <2>1. n >= 1 /\ Len(s) \in 1..Len(s)
    BY <1>1, <1>4
  <2>2. t[i] = s[Len(s)] /\ t[i + 1] = first + 1 /\ s[Len(s)] \in Nat
    BY <1>2, <1>4, <2>1
  <2>3. CASE first = s[Len(s)]
    BY <2>2, <2>3
  <2>4. CASE first > s[Len(s)] /\ n >= MaxPage
    <3>1. i + MaxPage <= Len(t)
      BY <1>1, <1>4, <2>4
    <3>2. ASSUME NEW j \in 1..MaxPage PROVE t[i + j] = t[i + 1] + (j - 1)
      <4>1. j \in 1..n
        BY <1>1, <2>4
      <4>2. t[i + j] = first + j
        BY <1>4, <4>1
      <4> QED
        BY <2>2, <4>1, <4>2
    <3> QED
      BY <2>2, <2>4, <3>1, <3>2 DEF WholePage
  <2> QED
    BY <2>3, <2>4
<1>5. CASE i > Len(s)
  <2> DEFINE a == i - Len(s)
  <2>1. a \in 1..n /\ a + 1 \in 1..n /\ i = Len(s) + a /\ i + 1 = Len(s) + (a + 1)
    BY <1>1, <1>5
  <2> HIDE DEF a
  <2>2. t[Len(s) + a] = first + a /\ t[Len(s) + (a + 1)] = first + (a + 1)
    BY <2>1
  <2> QED
    BY <2>1, <2>2
<1> QED
  BY <1>1, <1>3, <1>4, <1>5

LEMMA ResumeBounded ==
    ASSUME SourceInv
    PROVE  ResumeAt(source) \in Nat /\ ResumeAt(source) <= Len(events)
BY Bounds DEF SourceInv, ResumeAt

LEMMA NoStreamTyped ==
    /\ NoStream \in [cursor : Nat, pending : Seq(Nat), wire : Seq(Nat)]
    /\ NoStream.cursor = 0 /\ Len(NoStream.pending) = 0 /\ Len(NoStream.wire) = 0
BY EmptySeq DEF NoStream

(* A source that is not open, with no stream.                               *)
LEMMA Closing ==
    ASSUME JournalInv, events' = events, stream' = NoStream,
           source'.state # "open",
           source' \in [state : {"closed", "connecting", "open"}, after : Nat, last : Nat \cup {NoLabel}],
           source'.after <= Len(events),
           source'.last # NoLabel => source'.last <= Len(events)
    PROVE  SourceInv' /\ OrderInv'
<1>1. Len(events) \in Nat
  BY LenProperties DEF JournalInv
<1>2. SourceInv'
  BY <1>1, NoStreamTyped DEF SourceInv
<1> QED
  BY <1>2 DEF OrderInv

LEMMA Opening ==
    ASSUME JournalInv, SourceInv, events' = events,
           source' = [source EXCEPT !.state = "open"], stream' = NewStream
    PROVE  SourceInv' /\ OrderInv'
<1>1. Len(events) \in Nat
  BY LenProperties DEF JournalInv
<1>2. ResumeAt(source) \in Nat /\ ResumeAt(source) <= Len(events)
  BY ResumeBounded
<1>3. stream' = [cursor |-> ResumeAt(source), pending |-> <<>>, wire |-> <<>>]
  BY DEF NewStream, NoStream
<1>4. /\ stream' \in [cursor : Nat, pending : Seq(Nat), wire : Seq(Nat)]
      /\ stream'.cursor = ResumeAt(source) /\ stream'.wire = <<>>
      /\ Len(stream'.pending) = 0 /\ Len(stream'.wire) = 0
  BY <1>2, <1>3, EmptySeq
<1>5. /\ source' \in [state : {"closed", "connecting", "open"}, after : Nat, last : Nat \cup {NoLabel}]
      /\ source'.state = "open" /\ source'.after = source.after /\ source'.last = source.last
  BY DEF SourceInv
<1>6. SourceInv'
  BY <1>1, <1>2, <1>4, <1>5 DEF SourceInv
<1>7. ResumeAt(source)' = ResumeAt(source)
  BY <1>5 DEF ResumeAt
<1> DEFINE s == Ahead(ResumeAt(source), <<>>, <<>>)
<1>8. Len(s) = 1
  <2>1. <<>> \in Seq(Nat) /\ Len(<<>>) = 0
    BY EmptySeq
  <2>2. IsAhead(s, ResumeAt(source), <<>>, <<>>)
    BY <1>2, <2>1, AheadItems
  <2> QED
    BY <2>1, <2>2 DEF IsAhead
<1> HIDE DEF s
<1>9. Chained(s)
  BY <1>8 DEF Chained
<1>10. Chained(Ahead(ResumeAt(source), stream.wire, stream.pending))'
  <2>1. stream'.wire = <<>> /\ stream'.pending = <<>>
    BY <1>3
  <2>2. Ahead(ResumeAt(source), stream.wire, stream.pending)' = s
    BY <1>7, <2>1 DEF s, Ahead
  <2> QED
    BY <1>9, <2>2 DEF Chained, WholePage
<1> QED
  BY <1>2, <1>4, <1>6, <1>7, <1>10 DEF OrderInv

LEMMA Polling ==
    ASSUME JournalInv, SourceInv, OrderInv, Poll
    PROVE  SourceInv' /\ OrderInv'
<1> DEFINE first == Larger(stream.cursor, Revision - MaxPage)
           page2 == RecentActivity(stream.cursor)
<1>1. /\ stream \in [cursor : Nat, pending : Seq(Nat), wire : Seq(Nat)]
      /\ Revision > stream.cursor /\ source.state = "open"
      /\ stream' = [stream EXCEPT !.pending = page2]
      /\ source' = source /\ events' = events
  BY DEF Poll, SourceInv, journalVars
<1>2. Revision \in Nat /\ Revision = Len(events)
  BY RevisionNat
<1>3. first \in Nat /\ first >= stream.cursor /\ first < Revision
  BY <1>1, <1>2, Bounds DEF Larger
<1>4. page2 = [i \in 1..(Revision - first) |-> first + i]
  BY DEF RecentActivity
<1> HIDE DEF first, page2
<1>5. page2 \in Seq(Nat) /\ Len(page2) = Revision - first
  BY <1>2, <1>3, <1>4
<1>6. \A i \in 1..Len(page2) : page2[i] = first + i /\ page2[i] <= Len(events)
  BY <1>2, <1>3, <1>4, <1>5
<1>7. /\ stream' \in [cursor : Nat, pending : Seq(Nat), wire : Seq(Nat)]
      /\ stream'.cursor = stream.cursor /\ stream'.wire = stream.wire /\ stream'.pending = page2
  BY <1>1, <1>5
<1>8. SourceInv'
  BY <1>1, <1>6, <1>7 DEF SourceInv
<1>9. ResumeAt(source)' = ResumeAt(source)
  BY <1>1 DEF ResumeAt
<1> DEFINE low == ResumeAt(source)
           wire == stream.wire
           s == Ahead(low, wire, <<>>)
           t == Ahead(low, wire, page2)
<1>10. /\ low \in Nat /\ wire \in Seq(Nat) /\ Chained(s)
       /\ stream.cursor = IF wire = <<>> THEN low ELSE wire[Len(wire)]
  BY <1>1 DEF OrderInv, Poll
<1>11. Len(wire) \in Nat /\ (wire = <<>> <=> Len(wire) = 0)
  BY <1>10, EmptySeq, LenProperties
<1> HIDE DEF low, wire
<1>12. /\ s \in Seq(Nat) /\ Len(s) = 1 + Len(wire) /\ s[1] = low
       /\ \A i \in 1..Len(wire) : s[i + 1] = wire[i]
  <2>1. <<>> \in Seq(Nat) /\ Len(<<>>) = 0
    BY EmptySeq
  <2>2. IsAhead(s, low, wire, <<>>)
    BY <1>10, <2>1, AheadItems
  <2> HIDE DEF s
  <2> QED
    BY <1>11, <2>1, <2>2 DEF IsAhead
<1>13. /\ t \in Seq(Nat) /\ Len(t) = (1 + Len(wire)) + Len(page2) /\ t[1] = low
       /\ \A i \in 1..Len(wire) : t[i + 1] = wire[i]
       /\ \A i \in 1..Len(page2) : t[(1 + Len(wire)) + i] = page2[i]
  <2>1. IsAhead(t, low, wire, page2)
    BY <1>5, <1>10, AheadItems
  <2> HIDE DEF t
  <2> QED
    BY <2>1 DEF IsAhead
<1>0. Chained(s)
  BY <1>10
<1> HIDE DEF s, t
<1>14. s[Len(s)] = stream.cursor
  <2>1. CASE wire = <<>>
    BY <1>10, <1>11, <1>12, <2>1
  <2>2. CASE wire # <<>>
    <3>1. Len(wire) \in 1..Len(wire) /\ Len(s) = Len(wire) + 1
      BY <1>11, <1>12, <2>2
    <3> QED
      BY <1>10, <1>12, <2>2, <3>1
  <2> QED
    BY <2>1, <2>2
<1>15. first = s[Len(s)] \/ (first > s[Len(s)] /\ Len(page2) >= MaxPage)
  BY <1>1, <1>2, <1>3, <1>5, <1>7, <1>14, Bounds DEF first, Larger
<1>16. \A i \in 1..Len(s) : t[i] = s[i]
  <2> SUFFICES ASSUME NEW i \in 1..Len(s) PROVE t[i] = s[i]
    OBVIOUS
  <2>1. CASE i = 1
    BY <1>12, <1>13, <2>1
  <2>2. CASE i # 1
    <3>1. i - 1 \in 1..Len(wire) /\ (i - 1) + 1 = i
      BY <1>11, <1>12, <2>2
    <3> QED
      BY <1>12, <1>13, <3>1
  <2> QED
    BY <2>1, <2>2
<1>17. \A i \in 1..Len(page2) : t[Len(s) + i] = first + i
  BY <1>6, <1>12, <1>13
<1>18. /\ Len(page2) \in Nat /\ Len(s) > 0 /\ Len(t) = Len(s) + Len(page2)
  BY <1>5, <1>11, <1>12, <1>13, LenProperties
<1>19. Chained(t)
  <2>1. s \in Seq(Nat) /\ t \in Seq(Nat) /\ first \in Nat
    BY <1>3, <1>12, <1>13
  <2> QED
    BY <1>0, <1>15, <1>16, <1>17, <1>18, <2>1, ChainedWith
<1>20. Ahead(ResumeAt(source), stream.wire, stream.pending)' = t
  BY <1>7, <1>9 DEF t, Ahead, low, wire
<1>21. Chained(Ahead(ResumeAt(source), stream.wire, stream.pending))'
  BY <1>19, <1>20 DEF Chained, WholePage
<1> QED
  BY <1>1, <1>7, <1>8, <1>9, <1>10, <1>21 DEF OrderInv, low, wire

(* The first of a sequence and the others.                                  *)
LEMMA Split ==
    ASSUME NEW s \in Seq(Nat), s # <<>>
    PROVE  /\ Head(s) \in Nat /\ Head(s) = s[1] /\ Len(s) \in Nat /\ Len(s) >= 1
           /\ Tail(s) \in Seq(Nat) /\ Len(Tail(s)) = Len(s) - 1
           /\ \A i \in 1..Len(Tail(s)) : Tail(s)[i] = s[i + 1]
<1>1. /\ Head(s) \in Nat /\ Tail(s) \in Seq(Nat) /\ Len(Tail(s)) = Len(s) - 1
      /\ \A i \in 1..Len(Tail(s)) : Tail(s)[i] = s[i + 1]
  BY HeadTailProperties
<1>2. Len(s) \in Nat /\ Len(s) >= 1 /\ Head(s) = s[1]
  BY EmptySeq, LenProperties
<1> QED
  BY <1>1, <1>2

LEMMA Appended ==
    ASSUME NEW s \in Seq(Nat), NEW e \in Nat
    PROVE  /\ Append(s, e) \in Seq(Nat) /\ Append(s, e) # <<>> /\ Len(Append(s, e)) = Len(s) + 1
           /\ \A i \in 1..Len(s) : Append(s, e)[i] = s[i]
           /\ Append(s, e)[Len(s) + 1] = e
BY AppendProperties

LEMMA Delivering ==
    ASSUME JournalInv, SourceInv, OrderInv, Deliver
    PROVE  SourceInv' /\ OrderInv'
<1> DEFINE e == Head(stream.pending)
           low == ResumeAt(source)
           wire == stream.wire
           pending == stream.pending
           wire2 == Append(wire, e)
           rest == Tail(pending)
<1>1. /\ source.state = "open" /\ source' = source /\ events' = events
      /\ pending # <<>>
      /\ stream' = [cursor |-> e, pending |-> rest, wire |-> wire2]
  BY DEF Deliver, journalVars
<1>2. /\ pending \in Seq(Nat) /\ wire \in Seq(Nat) /\ low \in Nat
      /\ Chained(Ahead(low, wire, pending))
      /\ \A i \in 1..Len(pending) : pending[i] <= Len(events)
      /\ \A i \in 1..Len(wire) : wire[i] <= Len(events)
  BY <1>1 DEF SourceInv, OrderInv
<1> HIDE DEF low, wire, pending
<1>3. /\ e \in Nat /\ e = pending[1] /\ Len(pending) \in Nat /\ Len(pending) >= 1
      /\ rest \in Seq(Nat) /\ Len(rest) = Len(pending) - 1
      /\ \A i \in 1..Len(rest) : rest[i] = pending[i + 1]
  BY <1>1, <1>2, Split DEF pending
<1> HIDE DEF e, rest
<1>4. /\ wire2 \in Seq(Nat) /\ wire2 # <<>> /\ Len(wire2) = Len(wire) + 1
      /\ \A i \in 1..Len(wire) : wire2[i] = wire[i]
      /\ wire2[Len(wire) + 1] = e
  BY <1>2, <1>3, Appended
<1>5. Len(wire) \in Nat
  BY <1>2, LenProperties
<1> HIDE DEF wire2
<1>6. /\ stream'.cursor = e /\ stream'.pending = rest /\ stream'.wire = wire2
      /\ stream' \in [cursor : Nat, pending : Seq(Nat), wire : Seq(Nat)]
  BY <1>1, <1>3, <1>4
<1>7. e <= Len(events)
  BY <1>2, <1>3
<1>8. \A i \in 1..Len(wire2) : wire2[i] <= Len(events)
  <2> SUFFICES ASSUME NEW i \in 1..Len(wire2) PROVE wire2[i] <= Len(events)
    OBVIOUS
  <2>1. i \in 1..Len(wire) \/ i = Len(wire) + 1
    BY <1>4, <1>5
  <2> QED
    BY <1>2, <1>4, <1>7, <2>1
<1>9. \A i \in 1..Len(rest) : rest[i] <= Len(events)
  <2>1. \A i \in 1..Len(rest) : i + 1 \in 1..Len(pending)
    BY <1>3
  <2> QED
    BY <1>2, <1>3, <2>1
<1>10. SourceInv'
  BY <1>1, <1>6, <1>7, <1>8, <1>9 DEF SourceInv
<1> DEFINE s == Ahead(low, wire, pending)
           t == Ahead(low, wire2, rest)
<1>11. IsAhead(s, low, wire, pending)
  BY <1>2, AheadItems
<1>12. IsAhead(t, low, wire2, rest)
  BY <1>2, <1>3, <1>4, AheadItems
<1>13. Chained(s)
  BY <1>2
<1> HIDE DEF s, t
<1>14. /\ Len(s) = Len(t) + 0 /\ Len(t) = Len(wire) + 1 + Len(pending)
       /\ s \in Seq(Nat) /\ t \in Seq(Nat)
  BY <1>3, <1>4, <1>5, <1>11, <1>12 DEF IsAhead
<1>15. ASSUME NEW i \in 1..Len(t) PROVE t[i] = s[i + 0]
  <2>1. CASE i = 1
    BY <1>11, <1>12, <2>1 DEF IsAhead
  <2>2. ASSUME NEW a \in 1..Len(wire), i = a + 1 PROVE t[i] = s[i]
    <3>1. a \in 1..Len(wire2)
      BY <1>4, <1>5
    <3>2. t[i] = wire2[a]
      BY <1>12, <2>2, <3>1 DEF IsAhead
    <3>3. s[i] = wire[a]
      BY <1>11, <2>2 DEF IsAhead
    <3> QED
      BY <1>4, <3>2, <3>3
  <2>3. CASE i = Len(wire) + 2
    <3>1. Len(wire) + 1 \in 1..Len(wire2) /\ (Len(wire) + 1) + 1 = i
      BY <1>4, <1>5, <2>3
    <3>2. t[(Len(wire) + 1) + 1] = wire2[Len(wire) + 1]
      BY <1>12, <3>1 DEF IsAhead
    <3>3. 1 \in 1..Len(pending) /\ (1 + Len(wire)) + 1 = i
      BY <1>3, <1>5, <2>3
    <3>4. s[(1 + Len(wire)) + 1] = pending[1]
      BY <1>11, <3>3 DEF IsAhead
    <3> QED
      BY <1>3, <1>4, <3>1, <3>2, <3>3, <3>4
  <2>4. ASSUME NEW a \in 1..Len(rest), i = (2 + Len(wire)) + a PROVE t[i] = s[i]
    <3>1. /\ (1 + Len(wire2)) + a = i
          /\ a + 1 \in 1..Len(pending) /\ (1 + Len(wire)) + (a + 1) = i
      BY <1>3, <1>4, <1>5, <2>4
    <3>2. t[(1 + Len(wire2)) + a] = rest[a]
      BY <1>12 DEF IsAhead
    <3>3. s[(1 + Len(wire)) + (a + 1)] = pending[a + 1]
      BY <1>11, <3>1 DEF IsAhead
    <3> QED
      BY <1>3, <3>1, <3>2, <3>3
  <2>5. i = 1 \/ i - 1 \in 1..Len(wire) \/ i = Len(wire) + 2 \/ i - (2 + Len(wire)) \in 1..Len(rest)
    <3>1. /\ Len(wire) \in Nat /\ Len(pending) \in Nat /\ Len(rest) = Len(pending) - 1
          /\ Len(t) = Len(wire) + 1 + Len(pending) /\ i \in 1..Len(t)
      BY <1>3, <1>5, <1>14
    <3> HIDE DEF wire2
    <3> QED
      BY <3>1
  <2>6. CASE i - 1 \in 1..Len(wire)
    <3> DEFINE a == i - 1
    <3>1. a \in 1..Len(wire) /\ i = a + 1
      BY <2>6
    <3> HIDE DEF a
    <3> QED
      BY <2>2, <3>1
  <2>7. CASE i - (2 + Len(wire)) \in 1..Len(rest)
    <3> DEFINE a == i - (2 + Len(wire))
    <3>1. a \in 1..Len(rest) /\ i = (2 + Len(wire)) + a
      BY <1>5, <2>7
    <3> HIDE DEF a
    <3> QED
      BY <2>4, <3>1
  <2>8. t[i] = s[i]
    BY <2>1, <2>3, <2>5, <2>6, <2>7
  <2> QED
    BY <2>8
<1>16. Chained(t)
  <2>1. \A i \in 1..Len(t) : t[i] = s[i + 0]
    BY <1>15
  <2> QED
    BY <1>13, <1>14, <2>1, ChainedOn
<1>17. ResumeAt(source)' = low
  BY <1>1 DEF ResumeAt, low
<1>18. Chained(Ahead(ResumeAt(source), stream.wire, stream.pending))'
  <2>1. Ahead(ResumeAt(source), stream.wire, stream.pending)' = t
    BY <1>6, <1>17 DEF t, Ahead
  <2> QED
    BY <1>16, <2>1 DEF Chained, WholePage
<1>19. stream'.cursor = IF stream'.wire = <<>> THEN low ELSE stream'.wire[Len(stream'.wire)]
  BY <1>4, <1>6
<1> QED
  BY <1>2, <1>10, <1>17, <1>18, <1>19 DEF OrderInv

LEMMA SameEnd ==
    ASSUME NEW s \in Seq(Nat), s # <<>>, NEW t \in Seq(Nat), Len(t) = Len(s) - 1,
           \A i \in 1..Len(t) : t[i] = s[i + 1]
    PROVE  (t = <<>> => s[Len(s)] = s[1]) /\ (t # <<>> => t[Len(t)] = s[Len(s)])
<1>1. Len(s) \in Nat /\ Len(t) \in Nat
  BY LenProperties
<1>2. t = <<>> => Len(t) = 0
  BY EmptySeq
<1>3. t # <<>> => Len(t) \in Nat \ {0}
  BY EmptySeq
<1> QED
  BY <1>1, <1>2, <1>3

LEMMA Receiving ==
    ASSUME JournalInv, SourceInv, OrderInv, Receive
    PROVE  SourceInv' /\ OrderInv'
<1> DEFINE e == Head(stream.wire)
           low == ResumeAt(source)
           wire == stream.wire
           pending == stream.pending
           rest == Tail(wire)
<1>1. /\ source' = [source EXCEPT !.last = e] /\ events' = events
      /\ wire # <<>>
      /\ stream' = [stream EXCEPT !.wire = rest]
  BY DEF Receive, journalVars
<1>2. source.state = "open"
  BY <1>1 DEF SourceInv, NoStream
<1>3. /\ stream.cursor \in Nat /\ pending \in Seq(Nat) /\ wire \in Seq(Nat) /\ low \in Nat
      /\ Chained(Ahead(low, wire, pending))
      /\ stream.cursor = wire[Len(wire)]
      /\ \A i \in 1..Len(wire) : wire[i] <= Len(events)
  BY <1>1, <1>2 DEF SourceInv, OrderInv
<1>4. /\ e \in Nat /\ e = wire[1] /\ Len(wire) \in Nat /\ Len(wire) >= 1
      /\ rest \in Seq(Nat) /\ Len(rest) = Len(wire) - 1
      /\ \A i \in 1..Len(rest) : rest[i] = wire[i + 1]
  BY <1>1, <1>3, Split
<1> HIDE DEF e, low, rest
<1>5. /\ source' \in [state : {"closed", "connecting", "open"}, after : Nat, last : Nat \cup {NoLabel}]
      /\ source'.last = e /\ source'.state = "open" /\ source'.after = source.after
  BY <1>1, <1>2, <1>4 DEF SourceInv
<1>6. /\ stream' \in [cursor : Nat, pending : Seq(Nat), wire : Seq(Nat)]
      /\ stream'.cursor = stream.cursor /\ stream'.pending = pending
      /\ stream'.wire = rest
  BY <1>1, <1>4 DEF SourceInv
<1> HIDE DEF wire, pending
<1>7. e <= Len(events)
  BY <1>3, <1>4
<1>8. \A i \in 1..Len(rest) : rest[i] <= Len(events)
  <2>1. \A i \in 1..Len(rest) : i + 1 \in 1..Len(wire)
    BY <1>4
  <2> QED
    BY <1>3, <1>4, <2>1
<1>9. SourceInv'
  BY <1>1, <1>5, <1>6, <1>7, <1>8 DEF SourceInv, pending
<1>10. ResumeAt(source)' = e
  BY <1>4, <1>5, Bounds DEF ResumeAt
<1>11. stream'.cursor = IF stream'.wire = <<>> THEN e ELSE stream'.wire[Len(stream'.wire)]
  <2>1. /\ rest = <<>> => wire[Len(wire)] = wire[1]
        /\ rest # <<>> => rest[Len(rest)] = wire[Len(wire)]
    BY <1>1, <1>3, <1>4, SameEnd
  <2> QED
    BY <1>3, <1>4, <1>6, <2>1
<1> DEFINE s == Ahead(low, wire, pending)
           t == Ahead(e, rest, pending)
<1>12. IsAhead(s, low, wire, pending)
  BY <1>3, AheadItems
<1>13. IsAhead(t, e, rest, pending)
  BY <1>3, <1>4, AheadItems
<1>14. Chained(s)
  BY <1>3
<1> HIDE DEF s, t
<1>15. /\ Len(pending) \in Nat /\ Len(s) = Len(t) + 1 /\ Len(t) = Len(wire) + Len(pending)
       /\ s \in Seq(Nat) /\ t \in Seq(Nat)
  BY <1>3, <1>4, <1>12, <1>13, LenProperties DEF IsAhead
<1>16. ASSUME NEW i \in 1..Len(t) PROVE t[i] = s[i + 1]
  <2>1. CASE i = 1
    <3>1. 1 \in 1..Len(wire)
      BY <1>4
    <3>2. t[1] = e
      BY <1>13 DEF IsAhead
    <3>3. s[1 + 1] = wire[1]
      BY <1>12, <3>1 DEF IsAhead
    <3> QED
      BY <1>4, <2>1, <3>2, <3>3
  <2>2. ASSUME NEW a \in 1..Len(rest), i = a + 1 PROVE t[i] = s[i + 1]
    <3>1. a + 1 \in 1..Len(wire)
      BY <1>4
    <3>2. t[a + 1] = rest[a]
      BY <1>13 DEF IsAhead
    <3>3. s[(a + 1) + 1] = wire[a + 1]
      BY <1>12, <3>1 DEF IsAhead
    <3> QED
      BY <1>4, <2>2, <3>2, <3>3
  <2>3. ASSUME NEW a \in 1..Len(pending), i = Len(wire) + a PROVE t[i] = s[i + 1]
    <3>1. (1 + Len(rest)) + a = i /\ (1 + Len(wire)) + a = i + 1
      BY <1>4, <2>3
    <3>2. t[(1 + Len(rest)) + a] = pending[a]
      BY <1>13 DEF IsAhead
    <3>3. s[(1 + Len(wire)) + a] = pending[a]
      BY <1>12 DEF IsAhead
    <3> QED
      BY <3>1, <3>2, <3>3
  <2>4. i = 1 \/ i - 1 \in 1..Len(rest) \/ i - Len(wire) \in 1..Len(pending)
    BY <1>4, <1>15
  <2>5. (i - 1) + 1 = i /\ Len(wire) + (i - Len(wire)) = i
    BY <1>4
  <2> QED
    BY <2>1, <2>2, <2>3, <2>4, <2>5
<1>17. Chained(t)
  <2>1. \A i \in 1..Len(t) : t[i] = s[i + 1]
    BY <1>16
  <2> QED
    BY <1>14, <1>15, <2>1, ChainedOn
<1>18. Chained(Ahead(ResumeAt(source), stream.wire, stream.pending))'
  <2>1. Ahead(ResumeAt(source), stream.wire, stream.pending)' = t
    BY <1>6, <1>10 DEF t, Ahead
  <2> QED
    BY <1>17, <2>1 DEF Chained, WholePage
<1> QED
  BY <1>4, <1>9, <1>10, <1>11, <1>18 DEF OrderInv

LEMMA StreamStepInv ==
    ASSUME ViewInv, Grows, JournalInv', [ViewNext]_viewVars
    PROVE  SourceInv' /\ OrderInv'
<1> USE DEF ViewInv
<1>1. CASE UNCHANGED <<source, stream>>
  BY <1>1, SourceKept, OrderKept
<1>2. CASE ConnectEvents
  <2>1. /\ source' = [state |-> "connecting", after |-> page.cursor, last |-> NoLabel]
        /\ stream' = NoStream /\ events' = events
    BY <1>2 DEF ConnectEvents, HangUp, journalVars
  <2>2. page.cursor \in Nat /\ page.cursor <= Len(events)
    BY DEF PageInv
  <2> QED
    BY <2>1, <2>2, Closing
<1>9. CASE LeaveProject
  <2>1. source' = NoSource /\ stream' = NoStream /\ events' = events
    BY <1>9 DEF LeaveProject, HangUp, journalVars
  <2>2. Len(events) \in Nat
    BY LenProperties DEF JournalInv
  <2>3. /\ source' \in [state : {"closed", "connecting", "open"}, after : Nat, last : Nat \cup {NoLabel}]
        /\ source'.state = "closed" /\ source'.after = 0 /\ source'.last = NoLabel
    BY <2>1 DEF NoSource
  <2> QED
    BY <2>1, <2>2, <2>3, Closing
<1>3. CASE BrowserEvents
  <2>1. events' = events
    BY <1>3 DEF BrowserEvents, journalVars
  <2>2. CASE active >= MaxStreams
    BY <1>1, <1>3, <2>2 DEF BrowserEvents
  <2>3. CASE ~(active >= MaxStreams)
    BY <1>3, <2>1, <2>3, Opening DEF BrowserEvents
  <2> QED
    BY <2>2, <2>3
<1>4. CASE Refuse
  <2>1. source' = NoSource /\ stream' = stream /\ events' = events /\ refusing
    BY <1>4 DEF Refuse, journalVars
  <2>2. source.state = "connecting"
    BY <2>1 DEF CountInv
  <2>3. stream' = NoStream
    BY <2>1, <2>2 DEF SourceInv
  <2>4. Len(events) \in Nat
    BY LenProperties DEF JournalInv
  <2>5. /\ source' \in [state : {"closed", "connecting", "open"}, after : Nat, last : Nat \cup {NoLabel}]
        /\ source'.state = "closed" /\ source'.after = 0 /\ source'.last = NoLabel
    BY <2>1 DEF NoSource
  <2> QED
    BY <2>1, <2>3, <2>4, <2>5, Closing
<1>5. CASE ConnectionLost
  <2>1. source' = [source EXCEPT !.state = "connecting"] /\ stream' = NoStream /\ events' = events
    BY <1>5 DEF ConnectionLost, HangUp, journalVars
  <2>2. /\ source' \in [state : {"closed", "connecting", "open"}, after : Nat, last : Nat \cup {NoLabel}]
        /\ source'.state = "connecting" /\ source'.after = source.after /\ source'.last = source.last
    BY <2>1 DEF SourceInv
  <2>3. source.after <= Len(events) /\ (source.last # NoLabel => source.last <= Len(events))
    BY DEF SourceInv
  <2> QED
    BY <2>1, <2>2, <2>3, Closing
<1>6. CASE Poll
  BY <1>6, Polling
<1>7. CASE Deliver
  BY <1>7, Delivering
<1>8. CASE Receive
  BY <1>8, Receiving
<1> QED
  BY <1>1, <1>2, <1>3, <1>4, <1>5, <1>6, <1>7, <1>8, <1>9 DEF ViewNext, viewVars, Commit, CommitQuietly,
     ReadRevision, ReadRows, Answer, LoadGraph, QueryGraph, AsOf, ShowGraph, SelectCase, LoadFails,
     OtherStream, StreamGuardDropped

(* Each count as a number, for the steps that move one.                     *)
LEMMA CountKept == CountInv /\ source'.state = source.state /\ UNCHANGED countVars => CountInv'
<1> SUFFICES ASSUME CountInv, source'.state = source.state, UNCHANGED countVars PROVE CountInv'
  OBVIOUS
<1>1. active' = active /\ elsewhere' = elsewhere /\ refusing' = refusing
  BY DEF countVars
<1>2. Open' = Open
  BY DEF Open
<1>3. Refusing' = Refusing
  BY <1>1 DEF Refusing
<1>4. refusing' \in BOOLEAN
  BY <1>1, Zenon DEF CountInv
<1>5. refusing' => source'.state = "connecting"
  BY <1>1 DEF CountInv
<1> QED
  BY <1>1, <1>2, <1>3, <1>4, <1>5 DEF CountInv

LEMMA CountStep ==
    ASSUME ViewInv, [ViewNext]_viewVars
    PROVE  CountInv'
<1>1. /\ active \in Nat /\ elsewhere \in Nat /\ elsewhere + Open <= MaxStreams
      /\ active = elsewhere + Open + Refusing
  BY DEF ViewInv, CountInv
<1>2. refusing \in BOOLEAN /\ (refusing => source.state = "connecting")
  BY Zenon DEF ViewInv, CountInv
<1>3. source.state \in {"closed", "connecting", "open"}
  BY DEF ViewInv, SourceInv
<1>4. (refusing => Refusing = 1) /\ (~refusing => Refusing = 0)
  BY DEF Refusing
<1>5. (source.state = "open" => Open = 1) /\ (source.state # "open" => Open = 0)
  BY DEF Open
<1>6. (refusing' => Refusing' = 1) /\ (~refusing' => Refusing' = 0)
  BY DEF Refusing
<1>7. (source'.state = "open" => Open' = 1) /\ (source'.state # "open" => Open' = 0)
  BY DEF Open
<1>8. CASE source'.state = source.state /\ UNCHANGED countVars
  BY <1>8, CountKept DEF ViewInv
<1>9. CASE ConnectEvents
  <2>1. ~refusing /\ refusing' = refusing
    BY <1>9, Zenon DEF ConnectEvents
  <2>2. ~refusing' /\ refusing' \in BOOLEAN
    BY <2>1, <1>2, Zenon
  <2>3. /\ source'.state = "connecting" /\ active' = active
        /\ elsewhere' = IF source.state = "open" THEN elsewhere + 1 ELSE elsewhere
    BY <1>9 DEF ConnectEvents, HangUp
  <2>4. elsewhere' = elsewhere + Open
    BY <1>1, <1>5, <2>3
  <2> QED
    BY <1>1, <1>4, <1>6, <1>7, <2>1, <2>2, <2>3, <2>4, Bounds DEF CountInv
<1>16. CASE LeaveProject
  <2>1. ~refusing /\ refusing' = refusing
    BY <1>16, Zenon DEF LeaveProject
  <2>2. ~refusing' /\ refusing' \in BOOLEAN
    BY <2>1, <1>2, Zenon
  <2>3. /\ source'.state = "closed" /\ active' = active
        /\ elsewhere' = IF source.state = "open" THEN elsewhere + 1 ELSE elsewhere
    BY <1>16 DEF LeaveProject, HangUp, NoSource
  <2>4. elsewhere' = elsewhere + Open
    BY <1>1, <1>5, <2>3
  <2> QED
    BY <1>1, <1>4, <1>6, <1>7, <2>1, <2>2, <2>3, <2>4, Bounds DEF CountInv
<1>10. CASE BrowserEvents
  <2>1. source.state = "connecting" /\ active' = active + 1 /\ elsewhere' = elsewhere
    BY <1>10 DEF BrowserEvents
  <2>2. ~refusing
    BY <1>10, Zenon DEF BrowserEvents
  <2>3. CASE active >= MaxStreams
    <3>1. refusing' = TRUE /\ source' = source
      BY <1>10, <2>3, Zenon DEF BrowserEvents
    <3>2. refusing' /\ refusing' \in BOOLEAN
      BY <3>1, Zenon
    <3> QED
      BY <1>1, <1>4, <1>5, <1>6, <1>7, <2>1, <2>2, <3>1, <3>2, Bounds DEF CountInv
  <2>4. CASE ~(active >= MaxStreams)
    <3>1. refusing' = refusing /\ source' = [source EXCEPT !.state = "open"]
      BY <1>10, <2>4, Zenon DEF BrowserEvents
    <3>2. ~refusing' /\ refusing' \in BOOLEAN
      BY <3>1, <2>2, <1>2, Zenon
    <3>3. source'.state = "open"
      BY <3>1 DEF ViewInv, SourceInv
    <3> QED
      BY <1>1, <1>4, <1>5, <1>6, <1>7, <2>1, <2>2, <2>4, <3>2, <3>3, Bounds DEF CountInv
  <2> QED
    BY <2>3, <2>4
<1>11. CASE Refuse
  <2>1. refusing /\ refusing' = FALSE
    BY <1>11, Zenon DEF Refuse
  <2>2. ~refusing' /\ refusing' \in BOOLEAN
    BY <2>1, Zenon
  <2>3. /\ active' = active - 1 /\ elsewhere' = elsewhere /\ source' = NoSource
    BY <1>11 DEF Refuse
  <2>4. source'.state = "closed" /\ source.state = "connecting"
    BY <1>2, <2>1, <2>3 DEF NoSource
  <2> QED
    BY <1>1, <1>4, <1>5, <1>6, <1>7, <2>1, <2>2, <2>3, <2>4, Bounds DEF CountInv
<1>12. CASE OtherStream
  <2>1. /\ active < MaxStreams /\ active' = active + 1 /\ elsewhere' = elsewhere + 1
        /\ source' = source
    BY <1>12 DEF OtherStream
  <2>2. refusing' = refusing
    BY <1>12 DEF OtherStream
  <2>3. refusing' \in BOOLEAN /\ (refusing' => source'.state = "connecting")
    BY <1>2, <2>1, <2>2, Zenon
  <2>4. Open' = Open /\ Refusing' = Refusing
    BY <2>1, <2>2 DEF Open, Refusing
  <2>5. Refusing \in {0, 1} /\ Open \in {0, 1}
    BY DEF Refusing, Open
  <2> QED
    BY <1>1, <2>1, <2>3, <2>4, <2>5, Bounds DEF CountInv
<1>13. CASE StreamGuardDropped
  <2>1. /\ elsewhere > 0 /\ active' = active - 1 /\ elsewhere' = elsewhere - 1
        /\ source' = source
    BY <1>13 DEF StreamGuardDropped
  <2>2. refusing' = refusing
    BY <1>13 DEF StreamGuardDropped
  <2>3. refusing' \in BOOLEAN /\ (refusing' => source'.state = "connecting")
    BY <1>2, <2>1, <2>2, Zenon
  <2>4. Open' = Open /\ Refusing' = Refusing
    BY <2>1, <2>2 DEF Open, Refusing
  <2>5. Refusing \in {0, 1} /\ Open \in {0, 1}
    BY DEF Refusing, Open
  <2> QED
    BY <1>1, <2>1, <2>3, <2>4, <2>5, Bounds DEF CountInv
<1>14. CASE ConnectionLost
  <2>1. /\ source.state = "open" /\ active' = active
        /\ elsewhere' = elsewhere + 1 /\ source' = [source EXCEPT !.state = "connecting"]
    BY <1>14 DEF ConnectionLost, HangUp
  <2>2. refusing' = refusing
    BY <1>14 DEF ConnectionLost
  <2>3. ~refusing /\ refusing' \in BOOLEAN /\ ~refusing'
    BY <1>2, <2>1, <2>2, Zenon
  <2>4. source'.state = "connecting"
    BY <2>1 DEF ViewInv, SourceInv
  <2> QED
    BY <1>1, <1>4, <1>5, <1>6, <1>7, <2>1, <2>3, <2>4, Bounds DEF CountInv
<1>15. CASE Receive
  <2>1. UNCHANGED countVars /\ source' = [source EXCEPT !.last = Head(stream.wire)]
    BY <1>15 DEF Receive
  <2>2. source'.state = source.state
    BY <2>1 DEF ViewInv, SourceInv
  <2> QED
    BY <1>8, <2>1, <2>2
<1> QED
  BY <1>8, <1>9, <1>10, <1>11, <1>12, <1>13, <1>14, <1>15, <1>16 DEF ViewNext, viewVars, Commit, CommitQuietly,
     ReadRevision, ReadRows, Answer, LoadGraph, QueryGraph, AsOf, ShowGraph, SelectCase, LoadFails,
     Poll, Deliver

LEMMA InvariantCorrect == Spec => []ViewInv
<1>1. Init => ViewInv
  BY ViewInitInv DEF Init
<1>2. ViewInv /\ [Next]_vars => ViewInv'
  <2> SUFFICES ASSUME ViewInv, [Next]_vars PROVE ViewInv'
    OBVIOUS
  <2>1. [ViewNext]_viewVars
    BY DEF Next, vars, ViewIdle
  <2>2. JournalInv /\ ReadInv /\ PageInv /\ SourceInv
    BY DEF ViewInv
  <2>3. JournalInv' /\ Grows
    BY <2>1, <2>2, JournalStep
  <2>4. ReadInv'
    BY <2>1, <2>2, <2>3, ReadStep
  <2>5. PageInv'
    BY <2>1, <2>2, <2>3, PageStepInv
  <2>6. SourceInv' /\ OrderInv'
    BY <2>1, <2>3, StreamStepInv
  <2>7. CountInv'
    BY <2>1, CountStep
  <2> QED
    BY <2>3, <2>4, <2>5, <2>6, <2>7 DEF ViewInv
<1> QED
  BY <1>1, <1>2, PTL DEF Spec

--------------------------------------------------------------------------------
(* The theorems *)

(* Cursors never point past the journal, the caches of preflights keep      *)
(* their bound, and the daemon's count of streams is exactly of those it    *)
(* serves, those it has yet to miss and the one it is refusing (http.rs).   *)
THEOREM TypeCorrect == Spec => []TypeOK
<1>1. ViewInv => TypeOK
  <2> SUFFICES ASSUME ViewInv PROVE TypeOK
    OBVIOUS
  <2> USE DEF ViewInv
  <2>1. Revision \in Nat /\ Revision = Len(events)
    BY RevisionNat
  <2>2. Range(events) \subseteq 1..commits
    BY RangeEquality DEF JournalInv
  <2>3. page.request \in {"closed", "none", "sent", "queried", "answered", "shown", "selected"}
    BY DEF PageInv
  <2>4. {page.cursor, page.asOf, stream.cursor, source.after} \subseteq 0..Revision
    BY <2>1 DEF PageInv, SourceInv
  <2>5. {page.view, page.oldest} \subseteq 0..commits \cup {NoLabel}
    BY DEF PageInv, JournalInv
  <2>6. Len(preflights) <= MaxPreflights
    BY DEF ReadInv
  <2>7. /\ elsewhere + (IF source.state = "open" THEN 1 ELSE 0) <= MaxStreams
        /\ active = elsewhere + (IF source.state = "open" THEN 1 ELSE 0) + (IF refusing THEN 1 ELSE 0)
    BY DEF CountInv, Open, Refusing
  <2> QED
    BY <2>2, <2>3, <2>4, <2>5, <2>6, <2>7 DEF TypeOK
<1> QED
  BY <1>1, InvariantCorrect, PTL

(* A cache under the newest event answers with all that was committed with  *)
(* it (ensure_retrieval_cache reads the label first).                       *)
THEOREM CachedCorrect == Spec => []CachedIsCurrent
<1>1. ViewInv => CachedIsCurrent
  <2> SUFFICES ASSUME ViewInv, NEW entry \in {index} \cup Range(preflights), entry.label = Revision
               PROVE  entry.content >= ContentAt(Revision)
    BY DEF CachedIsCurrent
  <2>1. Revision \in Nat /\ Revision = Len(events)
    BY RevisionNat DEF ViewInv
  <2>2. entry = [label |-> NoLabel] \/ Sound(entry)
    BY RangeEquality DEF ViewInv, ReadInv
  <2>3. entry # [label |-> NoLabel]
    BY <2>1, Bounds
  <2>4. Sound(entry)
    BY <2>2, <2>3
  <2> QED
    BY <2>1, <2>4 DEF Sound, Entries, ContentAt
<1> QED
  BY <1>1, InvariantCorrect, PTL

(* What is on its way to the page goes on from the last event it got, in    *)
(* order and without repetition, over any reconnections, and lacks only     *)
(* events before a whole page of others (browser_events): for any size of   *)
(* page and any backlog, all that the newest page of it can lose.           *)
THEOREM StreamsCorrect == Spec => []StreamsContinue
<1>1. ViewInv => StreamsContinue
  <2> SUFFICES ASSUME ViewInv, source.state = "open"
               PROVE  LET sent == <<ResumeAt(source)>> \o stream.wire
                          ahead == sent \o stream.pending
                      IN /\ Last(sent) = stream.cursor
                         /\ Chained(ahead)
    BY DEF StreamsContinue, Chained
  <2> DEFINE low == ResumeAt(source)
             wire == stream.wire
             sent == <<low>> \o wire
  <2>1. /\ low \in Nat /\ wire \in Seq(Nat) /\ Chained(sent \o stream.pending)
        /\ stream.cursor = IF wire = <<>> THEN low ELSE wire[Len(wire)]
    BY DEF ViewInv, SourceInv, OrderInv, Ahead
  <2>2. Len(wire) \in Nat /\ (wire = <<>> <=> Len(wire) = 0)
    BY <2>1, EmptySeq, LenProperties
  <2> HIDE DEF low, wire
  <2>3. <<low>> \in Seq(Nat) /\ Len(<<low>>) = 1 /\ <<low>>[1] = low
    BY <2>1
  <2>4. /\ sent \in Seq(Nat) /\ Len(sent) = 1 + Len(wire)
        /\ \A i \in 1..1 + Len(wire) : sent[i] = IF i <= 1 THEN <<low>>[i] ELSE wire[i - 1]
    BY <2>1, <2>3, ConcatProperties
  <2> HIDE DEF sent
  <2>5. sent[Len(sent)] = stream.cursor
    <3>1. CASE wire = <<>>
      BY <2>1, <2>2, <2>3, <2>4, <3>1
    <3>2. CASE wire # <<>>
      BY <2>1, <2>2, <2>4, <3>2
    <3> QED
      BY <3>1, <3>2
  <2> QED
    BY <2>1, <2>5 DEF Last, low, wire, sent
<1> QED
  BY <1>1, InvariantCorrect, PTL

--------------------------------------------------------------------------------
(* Repetition and folds *)

(* A set of numbers that is not empty has a least one.                      *)
LEMMA Least ==
    ASSUME NEW T, T \subseteq Nat, T # {}
    PROVE  \E x \in T : \A y \in T : x <= y
<1>1. PICK x \in T : \A y \in T : ~(<<y, x>> \in OpToRel(<, Nat))
  BY NatLessThanWellFounded, WFMin
<1>2. \A y \in T : ~(y < x)
  BY <1>1 DEF OpToRel
<1> QED
  BY <1>2

(* What holds of 0 and passes from each number up to n to the next.         *)
LEMMA Steps ==
    ASSUME NEW n \in Nat, NEW T, 0 \in T, \A k \in 1..n : k - 1 \in T => k \in T
    PROVE  \A k \in 0..n : k \in T
<1> SUFFICES ASSUME (0..n) \ T # {} PROVE FALSE
  OBVIOUS
<1>1. PICK x \in (0..n) \ T : \A y \in (0..n) \ T : x <= y
  <2>1. (0..n) \ T \subseteq Nat
    OBVIOUS
  <2> QED
    BY <2>1, Least
<1>2. x \in 1..n /\ x - 1 \in T
  <2>1. x \in 1..n
    BY <1>1
  <2>2. x - 1 \in 0..n /\ ~(x <= x - 1)
    BY <2>1
  <2> QED
    BY <2>1, <2>2, <1>1
<1> QED
  BY <1>1, <1>2

(* A set of numbers up to n that is not empty has a largest one.            *)
LEMMA Largest ==
    ASSUME NEW n \in Nat, NEW s \in SUBSET (1..n), s # {}
    PROVE  Max(s) \in s /\ \A y \in s : y <= Max(s)
<1> DEFINE above == {u \in 1..n : \A y \in s : y <= u}
<1>1. \A y \in s : y \in 1..n
  OBVIOUS
<1>2. n \in above /\ above \subseteq Nat
  <2>1. PICK y : y \in s
    OBVIOUS
  <2>2. n \in 1..n
    BY <1>1, <2>1
  <2> QED
    BY <1>1, <2>2
<1>3. PICK u \in above : \A v \in above : u <= v
  <2> HIDE DEF above
  <2> QED
    BY <1>2, Least
<1>4. u \in s
  <2> SUFFICES ASSUME u \notin s PROVE FALSE
    OBVIOUS
  <2>1. \A y \in s : y <= u - 1
    BY <1>1
  <2>2. PICK y : y \in s
    OBVIOUS
  <2>3. u - 1 \in 1..n
    BY <2>1, <2>2, <1>1
  <2> QED
    BY <2>1, <2>3, <1>3
<1>5. u \in s /\ \A y \in s : u >= y
  BY <1>1, <1>4
<1>6. Max(s) \in s /\ \A y \in s : Max(s) >= y
  BY <1>5, Zenon DEF Max
<1> QED
  BY <1>1, <1>6

(* A fold over n steps is a recursive function of sets of numbers; there is *)
(* one for any step that stays in a set.                                    *)
Folds(g, A, base, n, step) ==
    /\ g \in [SUBSET (1..n) -> A]
    /\ \A s \in SUBSET (1..n) : g[s] = IF s = {} THEN base ELSE step[Max(s)][g[s \ {Max(s)}]]
(* There is a function that satisfies the recursion, whatever the steps.    *)
LEMMA Recursion ==
    ASSUME NEW A, NEW base \in A, NEW n \in Nat, NEW step \in [1..n -> [A -> A]]
    PROVE  \E g : Folds(g, A, base, n, step)
<1> DEFINE Good(g, m) == Folds(g, A, base, m, step)
           T == {m \in 0..n : \E g : Good(g, m)}
<1>1. 0 \in T
  <2> DEFINE g == [s \in SUBSET (1..0) |-> base]
  <2>1. g \in [SUBSET (1..0) -> A]
    OBVIOUS
  <2>2. \A s \in SUBSET (1..0) : s = {} /\ g[s] = base
    OBVIOUS
  <2>3. Good(g, 0)
    BY <2>1, <2>2 DEF Folds
  <2> HIDE DEF Good
  <2> QED
    BY <2>3
<1>2. ASSUME NEW m \in 1..n, m - 1 \in T PROVE m \in T
  <2>1. PICK f : Good(f, m - 1)
    BY <1>2
  <2> DEFINE g == [s \in SUBSET (1..m) |-> IF s = {} THEN base ELSE step[Max(s)][f[s \ {Max(s)}]]]
  <2>2. ASSUME NEW s \in SUBSET (1..m), s # {}
        PROVE  Max(s) \in 1..n /\ s \ {Max(s)} \in SUBSET (1..(m - 1))
    <3>1. Max(s) \in s /\ \A y \in s : y <= Max(s)
      <4>1. m \in Nat
        OBVIOUS
      <4> QED
        BY <4>1, <2>2, Largest
    <3>2. ASSUME NEW y \in s, y # Max(s)
          PROVE  y \in 1..(m - 1)
      <4>1. y \in 1..m /\ Max(s) \in 1..m /\ y <= Max(s)
        BY <3>1
      <4> HIDE DEF g
      <4> QED
        BY <3>2, <4>1
    <3>3. Max(s) \in 1..n
      <4>1. Max(s) \in 1..m
        BY <3>1
      <4> QED
        BY <4>1
    <3> QED
      BY <3>2, <3>3
  <2>3. g \in [SUBSET (1..m) -> A]
    <3>1. ASSUME NEW s \in SUBSET (1..m), s # {} PROVE step[Max(s)][f[s \ {Max(s)}]] \in A
      <4>1. f[s \ {Max(s)}] \in A
        BY <2>1, <2>2, <3>1 DEF Folds
      <4> QED
        BY <4>1, <2>2, <3>1
    <3> QED
      BY <3>1
  <2>4. \A t \in SUBSET (1..(m - 1)) : g[t] = f[t]
    <3>1. \A t \in SUBSET (1..(m - 1)) : t \in SUBSET (1..m)
      OBVIOUS
    <3> QED
      BY <2>1, <3>1 DEF Folds
  <2>5. \A s \in SUBSET (1..m) : g[s] = IF s = {} THEN base ELSE step[Max(s)][g[s \ {Max(s)}]]
    BY <2>2, <2>4
  <2>6. Good(g, m)
    BY <2>3, <2>5 DEF Folds
  <2> HIDE DEF Good
  <2> QED
    BY <2>6
<1>3. n \in T
  <2> HIDE DEF T
  <2>1. \A k \in 0..n : k \in T
    BY <1>1, <1>2, Steps
  <2> QED
    BY <2>1
<1> QED
  BY <1>3

(* The first k steps *)
LEMMA Prefix ==
    ASSUME NEW n \in Nat, NEW k \in 1..n
    PROVE  /\ 1..k # {} /\ 1..k \in SUBSET (1..n)
           /\ Max(1..k) = k /\ (1..k) \ {Max(1..k)} = 1..(k - 1)
<1>1. 1..k # {} /\ 1..k \in SUBSET (1..n) /\ k \in 1..k
  OBVIOUS
<1>2. Max(1..k) \in 1..k /\ k <= Max(1..k)
  BY <1>1, Largest
<1>3. Max(1..k) = k
  BY <1>2
<1> QED
  BY <1>1, <1>3

--------------------------------------------------------------------------------
(* Expansion: lists of nodes, and walks as rounds of visits *)

(* A list of members of a set is one of any set that has them.             *)
LEMMA ListAmong ==
    ASSUME NEW S, NEW T, S \subseteq T, NEW list \in Seq(S)
    PROVE  list \in Seq(T)
OBVIOUS

(* A finite set of nodes in the order of their ids is a list with a place   *)
(* for each of them and no more.                                            *)
LEMMA SortedLists ==
    ASSUME NEW s, s \subseteq Nat, IsFiniteSet(s)
    PROVE  /\ Sorted(s) \in Seq(s) /\ Len(Sorted(s)) = Cardinality(s)
           /\ \A n \in s : \E i \in 1..Len(Sorted(s)) : Sorted(s)[i] = n
<1> DEFINE Below(n) == {m \in s : m < n}
           c == Cardinality(s)
           rank == [n \in s |-> Cardinality(Below(n))]
<1>0. c \in Nat
  BY FS_CardinalityType
<1>1. ASSUME NEW n \in s, NEW t, t = Below(n)
      PROVE  IsFiniteSet(t) /\ Cardinality(t) \in 0..(c - 1)
  <2>1. IsFiniteSet(s \ {n}) /\ Cardinality(s \ {n}) = c - 1
    BY FS_RemoveElement
  <2>2. t \in SUBSET (s \ {n})
    BY <1>1
  <2>3. IsFiniteSet(t) /\ Cardinality(t) <= Cardinality(s \ {n}) /\ Cardinality(t) \in Nat
    BY <2>1, <2>2, FS_Subset, FS_CardinalityType
  <2> QED
    BY <2>1, <2>3, <1>0
<1>2. ASSUME NEW m \in s, NEW n \in s, m < n
      PROVE  rank[m] < rank[n]
  <2>1. \E t : t = Below(n)
    OBVIOUS
  <2>2. PICK t : t = Below(n)
    BY <2>1
  <2>3. IsFiniteSet(t) /\ m \in t /\ Cardinality(t) \in Nat
    BY <1>1, <1>2, <2>2
  <2>4. IsFiniteSet(t \ {m}) /\ Cardinality(t \ {m}) = Cardinality(t) - 1
    BY <2>3, FS_RemoveElement
  <2>5. Below(m) \in SUBSET (t \ {m})
    <3>1. ASSUME NEW x \in s, x < m
          PROVE  x \in t \ {m}
      <4>1. x \in Nat /\ m \in Nat /\ n \in Nat
        OBVIOUS
      <4>2. x < n /\ x # m
        BY <1>2, <3>1, <4>1
      <4> QED
        BY <2>2, <4>2
    <3> QED
      BY <3>1
  <2>6. Cardinality(Below(m)) <= Cardinality(t) - 1 /\ Cardinality(Below(m)) \in Nat
    BY <2>4, <2>5, FS_Subset, FS_CardinalityType
  <2>7. rank[m] = Cardinality(Below(m)) /\ rank[n] = Cardinality(t)
    BY <2>2
  <2> HIDE DEF rank, Below
  <2> QED
    BY <2>3, <2>6, <2>7
<1>3. rank \in [s -> 0..(c - 1)]
  BY <1>1
<1>4. \A m, n \in s : rank[m] = rank[n] => m = n
  <2> SUFFICES ASSUME NEW m \in s, NEW n \in s, rank[m] = rank[n], m # n PROVE FALSE
    BY Zenon
  <2>1. m < n \/ n < m
    OBVIOUS
  <2>2. rank[m] \in Int /\ rank[n] \in Int
    BY <1>3
  <2>3. rank[m] < rank[n] \/ rank[n] < rank[m]
    BY <2>1, <1>2
  <2> HIDE DEF rank
  <2> QED
    BY <2>2, <2>3
<1>5. \A i \in 0..(c - 1) : \E n \in s : rank[n] = i
  <2> HIDE DEF rank, c
  <2>1. IsFiniteSet(0..(c - 1)) /\ Cardinality(0..(c - 1)) = c
    BY <1>0, FS_Interval
  <2>2. rank \in Injection(s, 0..(c - 1))
    BY <1>3, <1>4 DEF Injection, IsInjective
  <2>3. rank \in Surjection(s, 0..(c - 1))
    BY <2>1, <2>2, FS_Injection DEF c
  <2> QED
    BY <2>3 DEF Surjection
<1>7. ASSUME NEW i \in 1..c
      PROVE  Sorted(s)[i] \in s /\ rank[Sorted(s)[i]] = i - 1
  <2>1. i - 1 \in 0..(c - 1)
    BY <1>0
  <2>2. PICK n \in s : rank[n] = i - 1
    BY <2>1, <1>5
  <2>3. Cardinality({m \in s : m < n}) = i - 1
    BY <2>2
  <2>4. Sorted(s)[i] = CHOOSE x \in s : Cardinality({m \in s : m < x}) = i - 1
    BY DEF Sorted
  <2>5. Sorted(s)[i] \in s /\ Cardinality({m \in s : m < Sorted(s)[i]}) = i - 1
    BY <2>3, <2>4, Zenon
  <2> QED
    BY <2>5
<1>8. Sorted(s) \in Seq(s) /\ Len(Sorted(s)) = c
  <2>1. Sorted(s) \in [1..c -> s]
    BY <1>7 DEF Sorted
  <2> QED
    BY <2>1, <1>0
<1> HIDE DEF c, rank
<1>9. ASSUME NEW n \in s PROVE \E i \in 1..c : Sorted(s)[i] = n
  <2>1. rank[n] + 1 \in 1..c /\ rank[n] \in Int
    BY <1>3, <1>0
  <2>2. Sorted(s)[rank[n] + 1] \in s /\ rank[Sorted(s)[rank[n] + 1]] = (rank[n] + 1) - 1
    BY <2>1, <1>7
  <2>3. PICK i : i = rank[n] + 1
    OBVIOUS
  <2>4. Sorted(s)[i] = n
    <3>1. Sorted(s)[i] \in s /\ rank[Sorted(s)[i]] = rank[n]
      BY <2>1, <2>2, <2>3
    <3> QED
      BY <3>1, <1>4, Zenon
  <2> QED
    BY <2>1, <2>3, <2>4
<1> QED
  BY <1>8, <1>9 DEF c

(* The walks there are: what a round keeps and returns.                     *)
Walks == [selected : SUBSET Nodes, edges : SUBSET SUBSET Nodes,
          parents : UNION {[D -> Nodes] : D \in SUBSET Nodes},
          queue : Seq(Nodes), reached : BOOLEAN, over : BOOLEAN]

(* A tree of parents with one node more is one still.                       *)
LEMMA ParentsGrow ==
    ASSUME NEW f \in UNION {[D -> Nodes] : D \in SUBSET Nodes}, NEW m \in Nodes, NEW v \in Nodes
    PROVE  [n \in DOMAIN f \cup {m} |-> IF n = m THEN v ELSE f[n]] \in UNION {[D -> Nodes] : D \in SUBSET Nodes}
<1>1. PICK D \in SUBSET Nodes : f \in [D -> Nodes]
  OBVIOUS
<1>2. [n \in D \cup {m} |-> IF n = m THEN v ELSE f[n]] \in [D \cup {m} -> Nodes]
  BY <1>1
<1> QED
  BY <1>1, <1>2

(* The three ways of a visit *)
Passing(w) == [w EXCEPT !.reached = TRUE]
Adding(w, m, n) ==
    [w EXCEPT !.selected = @ \cup {n}, !.edges = @ \cup {{m, n}},
              !.parents = [x \in DOMAIN @ \cup {n} |-> IF x = n THEN m ELSE @[x]],
              !.queue = Append(@, n)]
Joining(w, m, n) == [w EXCEPT !.edges = @ \cup {{m, n}}]

(* A visit passes over the neighbour, adds it, or joins it by one more      *)
(* edge.                                                                    *)
LEMMA Visiting ==
    ASSUME NEW w, NEW m, NEW n, NEW budget
    PROVE  \/ /\ EdgesFull(w, budget) \/ (n \notin w.selected /\ Cardinality(w.selected) >= budget.nodes)
              /\ Visit(w, m, n, budget) = Passing(w)
           \/ /\ ~EdgesFull(w, budget) /\ n \notin w.selected /\ ~(Cardinality(w.selected) >= budget.nodes)
              /\ Visit(w, m, n, budget) = Adding(w, m, n)
           \/ /\ ~EdgesFull(w, budget) /\ n \in w.selected
              /\ Visit(w, m, n, budget) = Joining(w, m, n)
BY Zenon DEF Visit, Passing, Adding, Joining

(* A visit of a walk is a walk.                                             *)
LEMMA VisitTyped ==
    ASSUME NEW w \in Walks, NEW m \in Nodes, NEW n \in Nodes, NEW budget
    PROVE  Visit(w, m, n, budget) \in Walks
<1>1. Passing(w) \in Walks /\ Joining(w, m, n) \in Walks
  BY DEF Passing, Joining, Walks
<1>2. Adding(w, m, n) \in Walks
  <2>1. [x \in DOMAIN w.parents \cup {n} |-> IF x = n THEN m ELSE w.parents[x]]
           \in UNION {[D -> Nodes] : D \in SUBSET Nodes}
    <3>1. w.parents \in UNION {[D -> Nodes] : D \in SUBSET Nodes}
      BY DEF Walks
    <3> QED
      BY <3>1, ParentsGrow
  <2>2. Append(w.queue, n) \in Seq(Nodes)
    BY DEF Walks
  <2> QED
    BY <2>1, <2>2 DEF Adding, Walks
<1> QED
  BY <1>1, <1>2, Visiting

(* The visits of one round.                                                 *)
Visits(w, m, list, budget) == FoldLeft(LAMBDA v, n : Visit(v, m, n, budget), w, list)
(* The visits of a list of neighbours, one after the other, each of the     *)
(* walk the one before left.                                                *)
LEMMA VisitsRun ==
    ASSUME NEW w \in Walks, NEW m \in Nodes, NEW list \in Seq(Nodes), NEW budget
    PROVE  \E run : /\ run[0] = w
                    /\ \A k \in 1..Len(list) : run[k] = Visit(run[k - 1], m, list[k], budget)
                    /\ Visits(w, m, list, budget) = run[Len(list)]
<1> DEFINE N == Len(list)
           step == [k \in 1..N |-> [v \in Walks |-> Visit(v, m, list[k], budget)]]
           P(f) == f = [s \in SUBSET (1..N) |->
                          IF s = {} THEN w ELSE Visit(f[s \ {Max(s)}], m, list[Max(s)], budget)]
<1>1. N \in Nat /\ DOMAIN list = 1..N
  OBVIOUS
<1>2. step \in [1..N -> [Walks -> Walks]]
  BY VisitTyped
<1>3. PICK g : Folds(g, Walks, w, N, step)
  <2> HIDE DEF step, N, P
  <2> QED
    BY <1>1, <1>2, Recursion
<1>4. P(g)
  <2>1. ASSUME NEW s \in SUBSET (1..N), s # {}
        PROVE  g[s] = Visit(g[s \ {Max(s)}], m, list[Max(s)], budget)
    <3>1. Max(s) \in 1..N
      BY <1>1, <2>1, Largest
    <3>2. g[s \ {Max(s)}] \in Walks
      <4>1. s \ {Max(s)} \in SUBSET (1..N)
        BY <2>1
      <4> HIDE DEF step, N
      <4> QED
        BY <1>3, <4>1 DEF Folds
    <3>3. g[s] = step[Max(s)][g[s \ {Max(s)}]]
      <4> HIDE DEF step, N
      <4> QED
        BY <1>3, <2>1 DEF Folds
    <3> QED
      BY <3>1, <3>2, <3>3
  <2> HIDE DEF N, step
  <2> QED
    BY <1>3, <2>1 DEF Folds
<1>5. PICK f : P(f) /\ Visits(w, m, list, budget) = f[1..N]
  <2>1. P(CHOOSE f : P(f))
    BY <1>4, Zenon
  <2> QED
    BY <1>1, <2>1, Zenon DEF Visits, FoldLeft, MapThenFoldSet
<1> DEFINE run == [k \in 0..N |-> f[1..k]]
<1>6. run[0] = w
  <2>1. 1..0 = {} /\ {} \in SUBSET (1..N)
    BY <1>1
  <2>2. run[0] = f[1..0]
    BY <1>1
  <2> HIDE DEF run, N
  <2> QED
    BY <1>5, <2>1, <2>2
<1>7. ASSUME NEW k \in 1..N PROVE run[k] = Visit(run[k - 1], m, list[k], budget)
  <2>1. /\ 1..k # {} /\ 1..k \in SUBSET (1..N)
        /\ Max(1..k) = k /\ (1..k) \ {Max(1..k)} = 1..(k - 1)
    BY <1>1, Prefix
  <2>2. run[k] = f[1..k] /\ run[k - 1] = f[1..(k - 1)]
    BY <1>1
  <2> HIDE DEF run, N
  <2> QED
    BY <1>5, <2>1, <2>2
<1>8. run[N] = f[1..N]
  BY <1>1
<1>9. Visits(w, m, list, budget) = run[Len(list)]
  BY <1>5, <1>8
<1> HIDE DEF run, P
<1> QED
  BY <1>6, <1>7, <1>9

--------------------------------------------------------------------------------
(* What an expansion has found *)

(* The nodes found so far with the length of the path to each: no edge that *)
(* was used leads more than one further.                                    *)
Tree(w, d, k, seeds, edges, budget) ==
    /\ w \in Walks /\ seeds \subseteq w.selected /\ w.edges \subseteq edges
    /\ Cardinality(w.edges) <= budget.edges
    /\ Cardinality(w.selected) <= budget.nodes \/ w.selected = seeds
    /\ d \in [w.selected -> 0..k]
    /\ DOMAIN w.parents = w.selected \ seeds
    /\ \A n \in seeds : d[n] = 0
    /\ \A n \in w.selected \ seeds : /\ w.parents[n] \in w.selected
                                     /\ d[n] = d[w.parents[n]] + 1
                                     /\ {w.parents[n], n} \in w.edges
    /\ \A m, n : {m, n} \in w.edges => m \in w.selected /\ n \in w.selected /\ d[m] <= d[n] + 1

(* An edge has been used, or leads to a node there is no room for.          *)
Settled(w, m, n, budget) ==
    \/ {m, n} \in w.edges
    \/ n \notin w.selected /\ Cardinality(w.selected) >= budget.nodes /\ w.reached

(* The nodes still to be expanded, nearest first, when those of P are done. *)
Frontier(w, d, h, P, k, edges, budget) ==
    /\ h \in Nat /\ P \subseteq w.selected
    /\ w.queue \in Seq(w.selected) /\ Len(w.queue) + k = Cardinality(w.selected)
    /\ \A i \in 1..Len(w.queue) : h <= d[w.queue[i]] /\ d[w.queue[i]] <= h + 1
    /\ \A i, j \in 1..Len(w.queue) : i < j => d[w.queue[i]] <= d[w.queue[j]]
    /\ \A n \in P : d[n] <= h
    /\ \A m \in P, n \in Nodes : {m, n} \in edges => Settled(w, m, n, budget)
(* A node that is still in the queue.                                       *)
Waits(n, w) == \E i \in 1..Len(w.queue) : w.queue[i] = n

(* In the middle of a round, which expands m.                               *)
Expanding(w, d, m, P, k, edges, budget) ==
    /\ m \in w.selected /\ Frontier(w, d, d[m], P, k, edges, budget)
    /\ \A n \in w.selected : n \in P \/ n = m \/ Waits(n, w)

(* There are finitely many nodes and edges in a walk.                       *)
LEMMA WalkFinite ==
    ASSUME NEW w \in Walks
    PROVE  /\ IsFiniteSet(w.selected) /\ Cardinality(w.selected) \in Nat
           /\ IsFiniteSet(w.edges) /\ Cardinality(w.edges) \in Nat
<1>1. w.selected \in SUBSET Nodes /\ w.edges \in SUBSET (SUBSET Nodes)
  BY DEF Walks
<1>2. IsFiniteSet(Nodes)
  BY ExpansionAssumption
<1>3. IsFiniteSet(SUBSET Nodes)
  BY <1>2, FS_SUBSET
<1> QED
  BY <1>1, <1>2, <1>3, FS_Subset, FS_CardinalityType

(* Passing over a neighbour takes nothing back.                             *)
LEMMA PassingKeeps ==
    ASSUME NEW w, NEW d, NEW k, NEW seeds, NEW edges, NEW budget, Tree(w, d, k, seeds, edges, budget)
    PROVE  /\ Tree(Passing(w), d, k, seeds, edges, budget)
           /\ \A m, P, r : Expanding(w, d, m, P, r, edges, budget) =>
                              Expanding(Passing(w), d, m, P, r, edges, budget)
           /\ \A m, n : Settled(w, m, n, budget) => Settled(Passing(w), m, n, budget)
<1> DEFINE v == Passing(w)
<1>1. /\ v \in Walks /\ v.selected = w.selected /\ v.edges = w.edges /\ v.parents = w.parents
      /\ v.queue = w.queue /\ v.reached = TRUE
  BY DEF Passing, Walks, Tree
<1> HIDE DEF v
<1>2. Tree(v, d, k, seeds, edges, budget)
  BY <1>1 DEF Tree
<1>3. \A m, n : Settled(w, m, n, budget) => Settled(v, m, n, budget)
  BY <1>1 DEF Settled
<1>4. ASSUME NEW m, NEW P, NEW r, Expanding(w, d, m, P, r, edges, budget)
      PROVE  Expanding(v, d, m, P, r, edges, budget)
  <2>1. Frontier(v, d, d[m], P, r, edges, budget)
    BY <1>1, <1>3, <1>4 DEF Frontier, Expanding
  <2> QED
    BY <1>1, <1>4, <2>1 DEF Expanding, Waits
<1> QED
  BY <1>2, <1>3, <1>4 DEF v

(* An edge to a node that is there leads from the node being expanded at    *)
(* most one further: the node waits, or was expanded before.                *)
LEMMA JoiningKeeps ==
    ASSUME NEW w, NEW d, NEW k \in Nat, NEW seeds, NEW edges, NEW budget, Tree(w, d, k, seeds, edges, budget),
           NEW m, NEW P, NEW r \in Nat, Expanding(w, d, m, P, r, edges, budget),
           NEW n \in w.selected, {m, n} \in edges,
           Cardinality(w.edges) < budget.edges, budget.edges \in Nat
    PROVE  /\ Tree(Joining(w, m, n), d, k, seeds, edges, budget)
           /\ Expanding(Joining(w, m, n), d, m, P, r, edges, budget)
           /\ \A x, y : Settled(w, x, y, budget) => Settled(Joining(w, m, n), x, y, budget)
           /\ Settled(Joining(w, m, n), m, n, budget)
<1> DEFINE v == Joining(w, m, n)
<1>0. w \in Walks /\ m \in w.selected /\ m \in Nodes /\ n \in Nodes
  BY DEF Tree, Expanding, Walks
<1>1. /\ v \in Walks /\ v.selected = w.selected /\ v.edges = w.edges \cup {{m, n}} /\ v.parents = w.parents
      /\ v.queue = w.queue /\ v.reached = w.reached
  BY <1>0 DEF Joining, Walks
<1> HIDE DEF v
<1>2. d[m] \in Nat /\ d[n] \in Nat /\ d[m] <= d[n] + 1 /\ d[n] <= d[m] + 1
  <2>1. d[m] \in Nat /\ d[n] \in Nat
    BY <1>0 DEF Tree
  <2>2. CASE n = m
    BY <2>1, <2>2
  <2>3. CASE Waits(n, w)
    BY <2>1, <2>3 DEF Waits, Expanding, Frontier
  <2>4. CASE n \in P
    <3>1. {n, m} \in edges /\ {n, m} = {m, n}
      BY Zenon
    <3>2. Settled(w, n, m, budget)
      BY <1>0, <2>4, <3>1 DEF Expanding, Frontier
    <3>3. {n, m} \in w.edges /\ {m, n} \in w.edges
      BY <1>0, <3>1, <3>2 DEF Settled
    <3> QED
      BY <2>1, <3>3 DEF Tree
  <2> QED
    BY <2>2, <2>3, <2>4 DEF Expanding
<1>3. Tree(v, d, k, seeds, edges, budget)
  <2>1. Cardinality(v.edges) <= budget.edges
    <3>1. IsFiniteSet(w.edges) /\ Cardinality(w.edges) \in Nat
      BY <1>0, WalkFinite
    <3>2. Cardinality(v.edges) \in {Cardinality(w.edges), Cardinality(w.edges) + 1}
      BY <1>1, <3>1, FS_AddElement
    <3> QED
      BY <3>1, <3>2
  <2>2. ASSUME NEW x, NEW y, {x, y} \in v.edges
        PROVE  x \in v.selected /\ y \in v.selected /\ d[x] <= d[y] + 1
    <3>1. CASE {x, y} \in w.edges
      BY <1>1, <3>1 DEF Tree
    <3>2. CASE {x, y} = {m, n}
      <4>1. (x = m /\ y = n) \/ (x = n /\ y = m)
        BY <3>2
      <4> QED
        BY <1>0, <1>1, <1>2, <4>1
    <3> QED
      BY <1>1, <2>2, <3>1, <3>2
  <2>3. v.edges \subseteq edges
    BY <1>1 DEF Tree
  <2> QED
    BY <1>1, <2>1, <2>2, <2>3 DEF Tree
<1>4. \A x, y : Settled(w, x, y, budget) => Settled(v, x, y, budget)
  BY <1>1 DEF Settled
<1>5. Expanding(v, d, m, P, r, edges, budget)
  <2>1. Frontier(v, d, d[m], P, r, edges, budget)
    BY <1>1, <1>4 DEF Frontier, Expanding
  <2> QED
    BY <1>1, <2>1 DEF Expanding, Waits
<1>6. Settled(v, m, n, budget)
  BY <1>1 DEF Settled
<1> QED
  BY <1>3, <1>4, <1>5, <1>6 DEF v

(* A new node is one further than the node being expanded; no edge seen     *)
(* before was left unused for want of room, for there still is room.        *)
Deeper(d, m, n) == [x \in DOMAIN d \cup {n} |-> IF x = n THEN d[m] + 1 ELSE d[x]]
(* Adding a neighbour: nothing else changes its distance.                   *)
LEMMA AddingKeeps ==
    ASSUME NEW w, NEW d, NEW k \in Nat, NEW seeds, NEW edges, NEW budget, Tree(w, d, k, seeds, edges, budget),
           NEW m, NEW P, NEW r \in Nat, Expanding(w, d, m, P, r, edges, budget), d[m] < k,
           NEW n \in Nodes, n \notin w.selected, {m, n} \in edges,
           Cardinality(w.edges) < budget.edges, budget.edges \in Nat,
           Cardinality(w.selected) < budget.nodes, budget.nodes \in Nat
    PROVE  LET v == Adding(w, m, n)  e == Deeper(d, m, n) IN
           /\ Tree(v, e, k, seeds, edges, budget)
           /\ Expanding(v, e, m, P, r, edges, budget) /\ e[m] = d[m]
           /\ \A x \in w.selected : \A y : Settled(w, x, y, budget) => Settled(v, x, y, budget)
           /\ Settled(v, m, n, budget)
<1> DEFINE v == Adding(w, m, n)
           e == Deeper(d, m, n)
<1>0. w \in Walks /\ m \in w.selected /\ m \in Nodes /\ m # n
  BY DEF Tree, Expanding, Walks
<1>1. /\ v \in Walks /\ v.selected = w.selected \cup {n} /\ v.edges = w.edges \cup {{m, n}}
      /\ v.queue = Append(w.queue, n) /\ v.reached = w.reached
      /\ v.parents = [x \in DOMAIN w.parents \cup {n} |-> IF x = n THEN m ELSE w.parents[x]]
  <2>1. [x \in DOMAIN w.parents \cup {n} |-> IF x = n THEN m ELSE w.parents[x]]
           \in UNION {[D -> Nodes] : D \in SUBSET Nodes}
    <3>1. w.parents \in UNION {[D -> Nodes] : D \in SUBSET Nodes}
      BY <1>0 DEF Walks
    <3> QED
      BY <1>0, <3>1, ParentsGrow
  <2>2. Append(w.queue, n) \in Seq(Nodes)
    BY <1>0 DEF Walks
  <2> QED
    BY <1>0, <2>1, <2>2 DEF Adding, Walks
<1>2. /\ \A x \in w.selected : e[x] = d[x] /\ d[x] \in 0..k
      /\ e[n] = d[m] + 1 /\ e \in [v.selected -> 0..k]
  <2>1. DOMAIN d = w.selected /\ \A x \in w.selected : d[x] \in 0..k
    BY DEF Tree
  <2>2. d[m] + 1 \in 0..k
    BY <1>0, <2>1
  <2> QED
    BY <1>0, <1>1, <2>1, <2>2 DEF Deeper
<1>3. /\ Cardinality(w.edges) \in Nat /\ IsFiniteSet(w.edges)
      /\ Cardinality(w.selected) \in Nat /\ IsFiniteSet(w.selected)
  BY <1>0, WalkFinite
<1>4. Cardinality(v.selected) = Cardinality(w.selected) + 1
  BY <1>1, <1>3, FS_AddElement
<1> HIDE DEF v, e
<1>5. Tree(v, e, k, seeds, edges, budget)
  <2>1. Cardinality(v.edges) <= budget.edges
    <3>1. Cardinality(v.edges) \in {Cardinality(w.edges), Cardinality(w.edges) + 1}
      BY <1>1, <1>3, FS_AddElement
    <3> QED
      BY <1>3, <3>1
  <2>2. Cardinality(v.selected) <= budget.nodes
    BY <1>3, <1>4
  <2>3. ASSUME NEW x, NEW y, {x, y} \in v.edges
        PROVE  x \in v.selected /\ y \in v.selected /\ e[x] <= e[y] + 1
    <3>1. CASE {x, y} \in w.edges
      <4>1. x \in w.selected /\ y \in w.selected /\ d[x] <= d[y] + 1
        BY <3>1 DEF Tree
      <4> QED
        BY <1>1, <1>2, <4>1
    <3>2. CASE {x, y} = {m, n}
      <4>1. (x = m /\ y = n) \/ (x = n /\ y = m)
        BY <3>2
      <4>2. e[m] = d[m] /\ d[m] \in Nat
        BY <1>0, <1>2
      <4> QED
        BY <1>0, <1>1, <1>2, <4>1, <4>2
    <3> QED
      BY <1>1, <2>3, <3>1, <3>2
  <2>4. v.edges \subseteq edges
    BY <1>1 DEF Tree
  <2>5. seeds \subseteq v.selected /\ \A x \in seeds : e[x] = 0
    BY <1>1, <1>2 DEF Tree
  <2>6. DOMAIN v.parents = v.selected \ seeds
    BY <1>1 DEF Tree
  <2>7. ASSUME NEW x \in v.selected \ seeds
        PROVE  /\ v.parents[x] \in v.selected /\ e[x] = e[v.parents[x]] + 1
               /\ {v.parents[x], x} \in v.edges
    <3>1. CASE x = n
      BY <1>0, <1>1, <1>2, <3>1
    <3>2. CASE x # n
      <4>1. x \in w.selected \ seeds /\ x \in DOMAIN w.parents
        BY <1>1, <3>2 DEF Tree
      <4>2. v.parents[x] = w.parents[x]
        BY <1>1, <3>2, <4>1
      <4>3. w.parents[x] \in w.selected /\ d[x] = d[w.parents[x]] + 1 /\ {w.parents[x], x} \in w.edges
        BY <4>1 DEF Tree
      <4> QED
        BY <1>1, <1>2, <4>1, <4>2, <4>3
    <3> QED
      BY <3>1, <3>2
  <2> QED
    BY <1>1, <1>2, <2>1, <2>2, <2>3, <2>4, <2>5, <2>6, <2>7 DEF Tree
<1>6. ASSUME NEW x \in w.selected, NEW y, Settled(w, x, y, budget)
      PROVE  {x, y} \in w.edges
  BY <1>3, <1>6 DEF Settled
<1>7. \A x \in w.selected : \A y : Settled(w, x, y, budget) => Settled(v, x, y, budget)
  BY <1>1, <1>6 DEF Settled
<1>8. Frontier(v, e, e[m], P, r, edges, budget)
  <2>0. Frontier(w, d, d[m], P, r, edges, budget) /\ e[m] = d[m] /\ d[m] \in Nat
    BY <1>0, <1>2 DEF Expanding
  <2>1. /\ w.queue \in Seq(w.selected) /\ Len(w.queue) \in Nat
        /\ v.queue \in Seq(v.selected) /\ Len(v.queue) = Len(w.queue) + 1
        /\ v.queue[Len(v.queue)] = n
        /\ \A i \in 1..Len(w.queue) : v.queue[i] = w.queue[i] /\ w.queue[i] \in w.selected
    BY <1>1, <2>0 DEF Frontier
  <2>2. Len(v.queue) + r = Cardinality(v.selected)
    BY <1>3, <1>4, <2>0, <2>1 DEF Frontier
  <2>3. \A i \in 1..Len(v.queue) : i \in 1..Len(w.queue) \/ i = Len(v.queue)
    BY <2>1
  <2>4. ASSUME NEW i \in 1..Len(w.queue)
        PROVE  /\ e[v.queue[i]] = d[w.queue[i]] /\ d[w.queue[i]] \in Nat
               /\ d[m] <= d[w.queue[i]] /\ d[w.queue[i]] <= d[m] + 1
    <3>1. w.queue[i] \in w.selected /\ v.queue[i] = w.queue[i]
      BY <2>1
    <3>2. d[m] <= d[w.queue[i]] /\ d[w.queue[i]] <= d[m] + 1
      BY <2>0 DEF Frontier
    <3> QED
      BY <1>2, <3>1, <3>2
  <2>5. e[v.queue[Len(v.queue)]] = d[m] + 1
    BY <1>2, <2>1
  <2>6. \A i \in 1..Len(v.queue) : e[m] <= e[v.queue[i]] /\ e[v.queue[i]] <= e[m] + 1
    BY <2>0, <2>3, <2>4, <2>5
  <2>7. ASSUME NEW i \in 1..Len(v.queue), NEW j \in 1..Len(v.queue), i < j
        PROVE  e[v.queue[i]] <= e[v.queue[j]]
    <3>1. i \in 1..Len(w.queue)
      BY <2>1, <2>7
    <3>2. CASE j \in 1..Len(w.queue)
      <4>1. d[w.queue[i]] <= d[w.queue[j]]
        BY <2>0, <2>7, <3>1, <3>2 DEF Frontier
      <4> QED
        BY <2>4, <3>1, <3>2, <4>1
    <3>3. CASE j = Len(v.queue)
      BY <2>4, <2>5, <3>1, <3>3
    <3> QED
      BY <2>3, <3>2, <3>3
  <2>8. P \subseteq v.selected /\ \A x \in P : e[x] <= e[m]
    BY <1>1, <1>2, <2>0 DEF Frontier
  <2>9. \A x \in P, y \in Nodes : {x, y} \in edges => Settled(v, x, y, budget)
    BY <1>7, <2>0 DEF Frontier
  <2> QED
    BY <2>0, <2>1, <2>2, <2>6, <2>7, <2>8, <2>9 DEF Frontier
<1>9. Expanding(v, e, m, P, r, edges, budget)
  <2>0. w.queue \in Seq(w.selected)
    BY DEF Expanding, Frontier
  <2>1. ASSUME NEW x \in v.selected
        PROVE  x \in P \/ x = m \/ Waits(x, v)
    <3>1. CASE x = n
      BY <1>1, <2>0, <3>1 DEF Waits
    <3>2. CASE x \in w.selected
      <4>1. Waits(x, w) => Waits(x, v)
        BY <1>1, <2>0 DEF Waits
      <4> QED
        BY <3>2, <4>1 DEF Expanding
    <3> QED
      BY <1>1, <3>1, <3>2
  <2> QED
    BY <1>0, <1>1, <1>8, <2>1 DEF Expanding
<1>10. Settled(v, m, n, budget)
  BY <1>1 DEF Settled
<1> QED
  BY <1>0, <1>2, <1>5, <1>7, <1>9, <1>10 DEF v, e

(* The edges are used up, or the edges of m to the first i nodes of the list are settled. *)
Expanded(w, k, h, m, P, list, i, seeds, edges, budget) ==
    \E d : /\ Tree(w, d, k, seeds, edges, budget)
           /\ \/ EdgesFull(w, budget)
              \/ /\ Expanding(w, d, m, P, k, edges, budget) /\ d[m] = h
                 /\ \A j \in 1..i : Settled(w, m, list[j], budget)

(* Each visit of a round keeps the tree and settles the edge it is about,   *)
(* or finds the edges used up.                                              *)
LEMMA VisitKeeps ==
    ASSUME NEW budget \in Budgets, NEW k \in Nat, NEW h \in Nat, h < k, NEW m, NEW P, NEW seeds, NEW edges,
           NEW list \in Seq(Nodes), \A j \in 1..Len(list) : {m, list[j]} \in edges,
           NEW w, NEW i \in 1..Len(list), Expanded(w, k, h, m, P, list, i - 1, seeds, edges, budget)
    PROVE  Expanded(Visit(w, m, list[i], budget), k, h, m, P, list, i, seeds, edges, budget)
<1> DEFINE n == list[i]
           v == Visit(w, m, n, budget)
<1>0. budget.nodes \in Nat /\ budget.edges \in Nat
  BY ExpansionAssumption
<1>1. PICK d : /\ Tree(w, d, k, seeds, edges, budget)
               /\ \/ EdgesFull(w, budget)
                  \/ /\ Expanding(w, d, m, P, k, edges, budget) /\ d[m] = h
                     /\ \A j \in 1..(i - 1) : Settled(w, m, list[j], budget)
  BY DEF Expanded
<1>2. w \in Walks /\ n \in Nodes /\ {m, n} \in edges
  BY <1>1 DEF Tree
<1>3. Cardinality(w.edges) \in Nat /\ Cardinality(w.selected) \in Nat
  BY <1>2, WalkFinite
<1>4. \A j \in 1..i : j \in 1..(i - 1) \/ j = i
  OBVIOUS
<1> SUFFICES Expanded(v, k, h, m, P, list, i, seeds, edges, budget)
  OBVIOUS
<1>5. CASE v = Passing(w) /\ EdgesFull(w, budget)
  <2>1. Tree(v, d, k, seeds, edges, budget)
    BY <1>1, <1>5, PassingKeeps
  <2>2. EdgesFull(v, budget)
    <3>1. v.edges = w.edges
      BY <1>2, <1>5 DEF Passing, Walks
    <3> QED
      BY <1>5, <3>1 DEF EdgesFull
  <2> HIDE DEF v
  <2> QED
    BY <2>1, <2>2 DEF Expanded
<1>6. CASE /\ v = Passing(w) /\ ~EdgesFull(w, budget)
           /\ n \notin w.selected /\ Cardinality(w.selected) >= budget.nodes
  <2> HIDE DEF v, n
  <2>1. /\ Tree(v, d, k, seeds, edges, budget) /\ Expanding(v, d, m, P, k, edges, budget)
        /\ \A x, y : Settled(w, x, y, budget) => Settled(v, x, y, budget)
    BY <1>1, <1>6, PassingKeeps
  <2>2. Settled(v, m, n, budget)
    <3>1. v.selected = w.selected /\ v.reached = TRUE
      BY <1>2, <1>6 DEF Passing, Walks
    <3> QED
      BY <1>6, <3>1 DEF Settled
  <2> QED
    BY <1>1, <1>4, <1>6, <2>1, <2>2 DEF Expanded, n
<1>7. CASE /\ v = Joining(w, m, n) /\ ~EdgesFull(w, budget) /\ n \in w.selected
  <2> HIDE DEF v, n
  <2>0. Cardinality(w.edges) < budget.edges
    BY <1>0, <1>3, <1>7 DEF EdgesFull
  <2>1. /\ Tree(v, d, k, seeds, edges, budget) /\ Expanding(v, d, m, P, k, edges, budget)
        /\ \A x, y : Settled(w, x, y, budget) => Settled(v, x, y, budget)
        /\ Settled(v, m, n, budget)
    BY <1>0, <1>1, <1>2, <1>7, <2>0, JoiningKeeps
  <2> QED
    BY <1>1, <1>4, <1>7, <2>1 DEF Expanded, n
<1>8. CASE /\ v = Adding(w, m, n) /\ ~EdgesFull(w, budget)
           /\ n \notin w.selected /\ ~(Cardinality(w.selected) >= budget.nodes)
  <2>1. PICK e : e = Deeper(d, m, n)
    OBVIOUS
  <2> HIDE DEF v, n
  <2>2. Cardinality(w.edges) < budget.edges /\ Cardinality(w.selected) < budget.nodes
    BY <1>0, <1>3, <1>8 DEF EdgesFull
  <2>3. m \in w.selected
    BY <1>1, <1>8 DEF Expanding
  <2>4. /\ Tree(v, e, k, seeds, edges, budget)
        /\ Expanding(v, e, m, P, k, edges, budget) /\ e[m] = d[m]
        /\ \A x \in w.selected : \A y : Settled(w, x, y, budget) => Settled(v, x, y, budget)
        /\ Settled(v, m, n, budget)
    <3>1. d[m] < k
      BY <1>1, <1>8
    <3> QED
      BY <1>0, <1>1, <1>2, <1>8, <2>1, <2>2, <3>1, AddingKeeps
  <2> QED
    BY <1>1, <1>4, <1>8, <2>3, <2>4 DEF Expanded, n
<1> HIDE DEF v
<1> QED
  BY <1>5, <1>6, <1>7, <1>8, Visiting DEF v

--------------------------------------------------------------------------------
(* Rounds *)

(* After k rounds *)
Going(w, d, k, edges, budget) ==
    \E h, P, r : /\ r \in Nat /\ Frontier(w, d, h, P, r, edges, budget)
                 /\ w.queue = <<>> \/ r = k
                 /\ \A n \in w.selected : n \in P \/ Waits(n, w)
WalkInv(w, k, seeds, edges, budget) ==
    \E d : /\ Tree(w, d, k, seeds, edges, budget)
           /\ w.over => EdgesFull(w, budget)
           /\ w.over \/ Going(w, d, k, edges, budget)

(* A round takes the first node of the queue and visits its neighbours.     *)
Visited(w, m, edges, budget, list, run) ==
    /\ list \in Seq(Nodes)
    /\ \A j \in 1..Len(list) : {m, list[j]} \in edges
    /\ \A n \in Nodes \ {m} : {m, n} \in edges => \E j \in 1..Len(list) : list[j] = n
    /\ run[0] = [w EXCEPT !.queue = Tail(@)]
    /\ \A k \in 1..Len(list) : run[k] = Visit(run[k - 1], m, list[k], budget)
    /\ Round(w, Neighbours(edges), budget)
          = [run[Len(list)] EXCEPT !.over = EdgesFull(run[Len(list)], budget)]
(* The neighbours a round visits are all those of the node it takes, each   *)
(* by an edge.                                                              *)
LEMMA RoundVisits ==
    ASSUME NEW w \in Walks, NEW edges, NEW budget, w.queue # <<>>, ~w.over
    PROVE  \E list, run : Visited(w, Head(w.queue), edges, budget, list, run)
<1> DEFINE m == Head(w.queue)
           rest == [w EXCEPT !.queue = Tail(@)]
           list == Sorted(Neighbours(edges)[m])
           after == Visits(rest, m, list, budget)
<1>1. m \in Nodes /\ rest \in Walks
  <2>1. w.queue \in Seq(Nodes)
    BY DEF Walks
  <2>2. Head(w.queue) \in Nodes /\ Tail(w.queue) \in Seq(Nodes)
    BY <2>1
  <2> QED
    BY <2>2 DEF Walks
<1>2. /\ list \in Seq(Nodes)
      /\ \A j \in 1..Len(list) : {m, list[j]} \in edges
      /\ \A n \in Nodes \ {m} : {m, n} \in edges => \E j \in 1..Len(list) : list[j] = n
  <2>1. PICK s : s = Neighbours(edges)[m]
    OBVIOUS
  <2>2. s = {n \in Nodes \ {m} : {m, n} \in edges}
    BY <1>1, <2>1 DEF Neighbours
  <2>3. s \in SUBSET Nodes /\ s \subseteq Nat /\ IsFiniteSet(s)
    BY <2>2, ExpansionAssumption, FS_Subset
  <2>4. Sorted(s) \in Seq(s) /\ \A n \in s : \E i \in 1..Len(Sorted(s)) : Sorted(s)[i] = n
    BY <2>3, SortedLists
  <2>5. Sorted(s) = list
    BY <2>1
  <2> HIDE DEF list, m
  <2>6. list \in Seq(s)
    BY <2>4, <2>5
  <2>7. list \in Seq(Nodes)
    BY <2>3, <2>6, ListAmong
  <2>8. \A j \in 1..Len(list) : {m, list[j]} \in edges
    <3>1. \A j \in 1..Len(list) : list[j] \in s
      BY <2>6
    <3> QED
      BY <2>2, <3>1
  <2>9. \A n \in Nodes \ {m} : {m, n} \in edges => \E j \in 1..Len(list) : list[j] = n
    BY <2>2, <2>4, <2>5
  <2> QED
    BY <2>7, <2>8, <2>9
<1>3. Round(w, Neighbours(edges), budget) = [after EXCEPT !.over = EdgesFull(after, budget)]
  BY DEF Round, Visits
<1>4. PICK run : /\ run[0] = rest
                 /\ \A k \in 1..Len(list) : run[k] = Visit(run[k - 1], m, list[k], budget)
                 /\ after = run[Len(list)]
  <2> HIDE DEF m, rest, list
  <2> QED
    BY <1>1, <1>2, VisitsRun
<1>5. Visited(w, m, edges, budget, list, run)
  <2> HIDE DEF after, list, m
  <2> QED
    BY <1>2, <1>3, <1>4 DEF Visited
<1> HIDE DEF list
<1> QED
  BY <1>5

(* A round of a walk is a walk.                                             *)
LEMMA RoundTyped ==
    ASSUME NEW w \in Walks, NEW edges, NEW budget
    PROVE  Round(w, Neighbours(edges), budget) \in Walks
<1> SUFFICES ASSUME w.queue # <<>>, ~w.over
             PROVE  Round(w, Neighbours(edges), budget) \in Walks
  BY DEF Round
<1> DEFINE m == Head(w.queue)
<1>1. PICK list, run :
         /\ list \in Seq(Nodes)
         /\ run[0] = [w EXCEPT !.queue = Tail(@)]
         /\ \A k \in 1..Len(list) : run[k] = Visit(run[k - 1], m, list[k], budget)
         /\ Round(w, Neighbours(edges), budget)
               = [run[Len(list)] EXCEPT !.over = EdgesFull(run[Len(list)], budget)]
  <2>1. PICK list, run : Visited(w, m, edges, budget, list, run)
    BY RoundVisits
  <2> QED
    BY <2>1, Zenon DEF Visited
<1>2. w.queue \in Seq(Nodes)
  BY DEF Walks
<1>3. m \in Nodes /\ run[0] \in Walks
  <2>1. Head(w.queue) \in Nodes /\ Tail(w.queue) \in Seq(Nodes)
    BY <1>2
  <2> QED
    BY <1>1, <2>1 DEF Walks
<1>4. Len(list) \in Nat
  BY <1>1
<1> HIDE DEF m
<1> DEFINE T == {k \in 0..Len(list) : run[k] \in Walks}
<1>5. 0 \in T
  BY <1>3, <1>4
<1>6. \A k \in 1..Len(list) : k - 1 \in T => k \in T
  <2> SUFFICES ASSUME NEW k \in 1..Len(list), run[k - 1] \in Walks PROVE run[k] \in Walks
    BY <1>4
  <2>1. list[k] \in Nodes
    BY <1>1
  <2> QED
    BY <1>1, <1>3, <2>1, VisitTyped
<1>7. run[Len(list)] \in Walks
  <2>1. \A k \in 0..Len(list) : k \in T
    <3> HIDE DEF T
    <3> QED
      BY <1>4, <1>5, <1>6, Steps
  <2> QED
    BY <1>4, <2>1
<1>8. EdgesFull(run[Len(list)], budget) \in BOOLEAN
  BY DEF EdgesFull
<1> QED
  BY <1>1, <1>7, <1>8 DEF Walks

(* A round begins with the first of the queue, which is as near as any.     *)
LEMMA RoundBegins ==
    ASSUME NEW k \in Nat, NEW seeds, NEW edges, NEW budget,
           NEW w, NEW d, Tree(w, d, k, seeds, edges, budget), w.queue # <<>>,
           NEW h, NEW P, Frontier(w, d, h, P, k, edges, budget),
           \A n \in w.selected : n \in P \/ Waits(n, w)
    PROVE  LET m == Head(w.queue)  v == [w EXCEPT !.queue = Tail(@)] IN
           /\ Tree(v, d, k + 1, seeds, edges, budget)
           /\ Expanding(v, d, m, P, k + 1, edges, budget)
           /\ d[m] \in Nat /\ d[m] < k + 1
<1> DEFINE m == Head(w.queue)
           v == [w EXCEPT !.queue = Tail(@)]
<1>1. w \in Walks /\ w.queue \in Seq(w.selected) /\ w.selected \subseteq Nodes
  BY DEF Tree, Frontier, Walks
<1>2. /\ Tail(w.queue) \in Seq(w.selected) /\ Len(w.queue) \in Nat \ {0}
      /\ Len(Tail(w.queue)) = Len(w.queue) - 1
      /\ \A i \in 1..Len(Tail(w.queue)) : i + 1 \in 1..Len(w.queue) /\ Tail(w.queue)[i] = w.queue[i + 1]
      /\ m = w.queue[1] /\ m \in w.selected
  <2>1. Len(w.queue) \in Nat \ {0}
    BY <1>1
  <2>2. m = w.queue[1] /\ m \in w.selected
    BY <1>1, <2>1
  <2>3. Tail(w.queue) \in Seq(w.selected) /\ Len(Tail(w.queue)) = Len(w.queue) - 1
    BY <1>1, HeadTailProperties
  <2>4. ASSUME NEW i \in 1..Len(Tail(w.queue))
        PROVE  i + 1 \in 1..Len(w.queue) /\ Tail(w.queue)[i] = w.queue[i + 1]
    BY <1>1, <2>1, <2>3, HeadTailProperties
  <2> QED
    BY <2>1, <2>2, <2>3, <2>4
<1>3. Tail(w.queue) \in Seq(Nodes)
  <2>1. w.queue \in Seq(Nodes)
    BY <1>1 DEF Walks
  <2> QED
    BY <1>1, <2>1
<1>4. /\ v \in Walks /\ v.selected = w.selected /\ v.edges = w.edges /\ v.parents = w.parents
      /\ v.queue = Tail(w.queue) /\ v.reached = w.reached
  BY <1>1, <1>3 DEF Walks
<1> HIDE DEF m, v
<1>5. d \in [w.selected -> 0..k] /\ d \in [w.selected -> 0..(k + 1)]
  <2>1. d \in [w.selected -> 0..k]
    BY DEF Tree
  <2>2. 0..k \subseteq 0..(k + 1)
    OBVIOUS
  <2> QED
    BY <2>1, <2>2
<1>6. Tree(v, d, k + 1, seeds, edges, budget)
  BY <1>4, <1>5 DEF Tree
<1>7. d[m] \in 0..k
  BY <1>2, <1>5
<1>8. Frontier(v, d, d[m], P, k + 1, edges, budget)
  <2>1. v.queue \in Seq(v.selected) /\ Len(v.queue) + (k + 1) = Cardinality(v.selected)
    <3>1. Len(w.queue) + k = Cardinality(w.selected)
      BY DEF Frontier
    <3>2. PICK q : q = Tail(w.queue)
      OBVIOUS
    <3>3. q \in Seq(w.selected) /\ Len(q) = Len(w.queue) - 1 /\ Len(w.queue) \in Nat /\ v.queue = q
      BY <1>2, <1>4, <3>2
    <3>4. Len(q) + (k + 1) = Cardinality(v.selected)
      <4>1. PICK size, waiting : size = Cardinality(w.selected) /\ waiting = Len(w.queue)
        OBVIOUS
      <4>2. Len(q) = waiting - 1 /\ waiting \in Nat /\ waiting + k = size
        BY <3>1, <3>3, <4>1
      <4>3. Len(q) + (k + 1) = size
        BY <4>2
      <4> QED
        BY <1>4, <4>1, <4>3
    <3> QED
      BY <1>4, <3>3, <3>4
  <2>2. ASSUME NEW i \in 1..Len(v.queue)
        PROVE  d[m] <= d[v.queue[i]] /\ d[v.queue[i]] <= d[m] + 1
    <3>1. i + 1 \in 1..Len(w.queue) /\ v.queue[i] = w.queue[i + 1] /\ 1 \in 1..Len(w.queue) /\ 1 < i + 1
      BY <1>2, <1>4
    <3>2. d[w.queue[1]] <= d[w.queue[i + 1]]
      BY <3>1 DEF Frontier
    <3>3. h <= d[w.queue[1]] /\ d[w.queue[i + 1]] <= h + 1 /\ h \in Nat
      BY <3>1 DEF Frontier
    <3>4. w.queue[i + 1] \in w.selected
      BY <1>1, <3>1
    <3>5. d[w.queue[i + 1]] \in Nat
      BY <1>5, <3>4
    <3> QED
      BY <1>2, <1>7, <3>1, <3>2, <3>3, <3>5
  <2>3. ASSUME NEW i \in 1..Len(v.queue), NEW j \in 1..Len(v.queue), i < j
        PROVE  d[v.queue[i]] <= d[v.queue[j]]
    <3>1. /\ i + 1 \in 1..Len(w.queue) /\ v.queue[i] = w.queue[i + 1]
          /\ j + 1 \in 1..Len(w.queue) /\ v.queue[j] = w.queue[j + 1] /\ i + 1 < j + 1
      BY <1>2, <1>4, <2>3
    <3> QED
      BY <3>1 DEF Frontier
  <2>4. ASSUME NEW n \in P
        PROVE  d[n] <= d[m]
    <3>1. d[n] <= h /\ h \in Nat /\ n \in w.selected /\ h <= d[m]
      BY <1>2 DEF Frontier
    <3>2. d[n] \in Nat
      BY <1>5, <3>1
    <3> QED
      BY <1>7, <3>1, <3>2
  <2>5. \A x \in P, y \in Nodes : {x, y} \in edges => Settled(v, x, y, budget)
    BY <1>4 DEF Frontier, Settled
  <2>6. d[m] \in Nat /\ P \subseteq v.selected
    BY <1>4, <1>7 DEF Frontier
  <2> QED
    BY <2>1, <2>2, <2>3, <2>4, <2>5, <2>6 DEF Frontier
<1>9. ASSUME NEW n \in v.selected
      PROVE  n \in P \/ n = m \/ Waits(n, v)
  <2> SUFFICES ASSUME Waits(n, w), n # m PROVE Waits(n, v)
    BY <1>4
  <2>1. PICK i \in 1..Len(w.queue) : w.queue[i] = n
    BY DEF Waits
  <2>2. i - 1 \in 1..Len(v.queue) /\ (i - 1) + 1 = i
    BY <1>2, <1>4, <2>1
  <2>3. v.queue[i - 1] = n
    BY <1>2, <1>4, <2>1, <2>2
  <2> QED
    BY <2>2, <2>3 DEF Waits
<1>10. Expanding(v, d, m, P, k + 1, edges, budget)
  BY <1>2, <1>4, <1>8, <1>9 DEF Expanding
<1>11. d[m] \in Nat /\ d[m] < k + 1
  BY <1>7
<1> QED
  BY <1>6, <1>10, <1>11 DEF v, m

(* One more round, whatever it finds.                                       *)
LEMMA RoundKeeps ==
    ASSUME NEW budget \in Budgets, NEW k \in Nat, NEW seeds, NEW edges \in SUBSET kSubset(2, Nodes),
           NEW w, WalkInv(w, k, seeds, edges, budget)
    PROVE  WalkInv(Round(w, Neighbours(edges), budget), k + 1, seeds, edges, budget)
<1> DEFINE x == Round(w, Neighbours(edges), budget)
<1>1. PICK d : /\ Tree(w, d, k, seeds, edges, budget)
               /\ w.over => EdgesFull(w, budget)
               /\ w.over \/ Going(w, d, k, edges, budget)
  BY DEF WalkInv
<1>2. CASE w.queue = <<>> \/ w.over
  <2>1. x = w
    BY <1>2 DEF Round
  <2>2. Tree(w, d, k + 1, seeds, edges, budget)
    <3>1. d \in [w.selected -> 0..k] /\ 0..k \subseteq 0..(k + 1)
      BY <1>1 DEF Tree
    <3>2. d \in [w.selected -> 0..(k + 1)]
      BY <3>1
    <3> QED
      BY <1>1, <3>2 DEF Tree
  <2>3. w.over \/ Going(w, d, k + 1, edges, budget)
    BY <1>1, <1>2 DEF Going
  <2>4. WalkInv(w, k + 1, seeds, edges, budget)
    BY <1>1, <2>2, <2>3 DEF WalkInv
  <2> QED
    BY <2>1, <2>4
<1>3. CASE w.queue # <<>> /\ ~w.over
  <2> DEFINE m == Head(w.queue)
  <2>1. PICK h, P : /\ Frontier(w, d, h, P, k, edges, budget)
                    /\ \A n \in w.selected : n \in P \/ Waits(n, w)
    BY <1>1, <1>3 DEF Going
  <2>2. w \in Walks
    BY <1>1 DEF Tree
  <2>3. PICK list, run :
           /\ list \in Seq(Nodes)
           /\ \A j \in 1..Len(list) : {m, list[j]} \in edges
           /\ \A n \in Nodes \ {m} : {m, n} \in edges => \E j \in 1..Len(list) : list[j] = n
           /\ run[0] = [w EXCEPT !.queue = Tail(@)]
           /\ \A i \in 1..Len(list) : run[i] = Visit(run[i - 1], m, list[i], budget)
           /\ x = [run[Len(list)] EXCEPT !.over = EdgesFull(run[Len(list)], budget)]
    <3>1. PICK list, run : Visited(w, m, edges, budget, list, run)
      BY <1>3, <2>2, RoundVisits
    <3> QED
      BY <3>1, Zenon DEF Visited
  <2>4. /\ Tree(run[0], d, k + 1, seeds, edges, budget)
        /\ Expanding(run[0], d, m, P, k + 1, edges, budget)
        /\ d[m] \in Nat /\ d[m] < k + 1
    <3>1. /\ Tree([w EXCEPT !.queue = Tail(@)], d, k + 1, seeds, edges, budget)
          /\ Expanding([w EXCEPT !.queue = Tail(@)], d, m, P, k + 1, edges, budget)
          /\ d[m] \in Nat /\ d[m] < k + 1
      BY <1>1, <1>3, <2>1, RoundBegins
    <3> QED
      BY <2>3, <3>1, Zenon
  <2> HIDE DEF m, x
  <2>5. Len(list) \in Nat /\ k + 1 \in Nat
    BY <2>3
  <2> DEFINE T == {i \in 0..Len(list) : Expanded(run[i], k + 1, d[m], m, P, list, i, seeds, edges, budget)}
  <2>6. 0 \in T
    <3>1. Expanded(run[0], k + 1, d[m], m, P, list, 0, seeds, edges, budget)
      <4>1. \A j \in 1..0 : Settled(run[0], m, list[j], budget)
        OBVIOUS
      <4> QED
        BY <2>4, <4>1 DEF Expanded
    <3> QED
      BY <2>5, <3>1
  <2>7. ASSUME NEW i \in 1..Len(list), i - 1 \in T
        PROVE  i \in T
    <3>1. Expanded(run[i - 1], k + 1, d[m], m, P, list, i - 1, seeds, edges, budget)
      BY <2>7
    <3>2. Expanded(Visit(run[i - 1], m, list[i], budget), k + 1, d[m], m, P, list, i, seeds, edges, budget)
      <4> HIDE DEF T
      <4> QED
        BY <2>3, <2>4, <2>5, <3>1, VisitKeeps
    <3> QED
      BY <2>3, <2>5, <3>2
  <2>8. Expanded(run[Len(list)], k + 1, d[m], m, P, list, Len(list), seeds, edges, budget)
    <3>1. \A i \in 0..Len(list) : i \in T
      <4> HIDE DEF T
      <4> QED
        BY <2>5, <2>6, <2>7, Steps
    <3> QED
      BY <2>5, <3>1
  <2> HIDE DEF T
  <2>9. PICK v : v = run[Len(list)]
    OBVIOUS
  <2>10. PICK e : /\ Tree(v, e, k + 1, seeds, edges, budget)
                  /\ \/ EdgesFull(v, budget)
                     \/ /\ Expanding(v, e, m, P, k + 1, edges, budget)
                        /\ \A j \in 1..Len(list) : Settled(v, m, list[j], budget)
    BY <2>8, <2>9 DEF Expanded
  <2>11. /\ x \in Walks /\ x.selected = v.selected /\ x.edges = v.edges /\ x.parents = v.parents
         /\ x.queue = v.queue /\ x.reached = v.reached /\ x.over = EdgesFull(v, budget)
    <3>1. v \in Walks /\ EdgesFull(v, budget) \in BOOLEAN
      BY <2>10 DEF Tree, EdgesFull
    <3> QED
      BY <2>3, <2>9, <3>1 DEF Walks
  <2>12. Tree(x, e, k + 1, seeds, edges, budget)
    BY <2>10, <2>11 DEF Tree
  <2>13. EdgesFull(x, budget) = EdgesFull(v, budget)
    BY <2>11 DEF EdgesFull
  <2>14. CASE EdgesFull(v, budget)
    <3>1. x.over = TRUE
      BY <2>11, <2>14
    <3>2. WalkInv(x, k + 1, seeds, edges, budget)
      BY <2>12, <2>13, <2>14, <3>1 DEF WalkInv
    <3> QED
      BY <3>2 DEF x
  <2>15. CASE ~EdgesFull(v, budget)
    <3>1. /\ Expanding(v, e, m, P, k + 1, edges, budget)
          /\ \A j \in 1..Len(list) : Settled(v, m, list[j], budget)
      BY <2>10, <2>15
    <3>2. {m, m} \notin edges
      <4>1. Cardinality({m}) = 1 /\ {m, m} = {m}
        BY FS_Singleton, Zenon
      <4> QED
        BY <4>1 DEF kSubset
    <3>3. ASSUME NEW n \in Nodes, {m, n} \in edges
          PROVE  Settled(v, m, n, budget)
      <4>1. n # m
        BY <3>2, <3>3
      <4> QED
        BY <2>3, <3>1, <3>3, <4>1
    <3>4. \A y, n : Settled(v, y, n, budget) => Settled(x, y, n, budget)
      BY <2>11 DEF Settled
    <3>5. e[m] \in Nat
      BY <2>10, <3>1 DEF Tree, Expanding
    <3>6. Frontier(x, e, e[m], P \cup {m}, k + 1, edges, budget)
      <4>1. Frontier(v, e, e[m], P, k + 1, edges, budget) /\ m \in v.selected
        BY <3>1 DEF Expanding
      <4>2. P \cup {m} \subseteq x.selected /\ \A n \in P \cup {m} : e[n] <= e[m]
        BY <2>11, <3>5, <4>1 DEF Frontier
      <4>3. \A y \in P \cup {m}, n \in Nodes : {y, n} \in edges => Settled(x, y, n, budget)
        BY <3>3, <3>4, <4>1 DEF Frontier
      <4> QED
        BY <2>11, <3>5, <4>1, <4>2, <4>3 DEF Frontier
    <3>7. \A n \in x.selected : n \in P \cup {m} \/ Waits(n, x)
      BY <2>11, <3>1 DEF Expanding, Waits
    <3> QED
      <4>1. Going(x, e, k + 1, edges, budget)
        BY <2>5, <3>6, <3>7 DEF Going
      <4>2. x.over = FALSE
        BY <2>11, <2>15
      <4>3. WalkInv(x, k + 1, seeds, edges, budget)
        BY <2>12, <4>1, <4>2 DEF WalkInv
      <4> QED
        BY <4>3 DEF x
  <2> QED
    BY <2>14, <2>15 DEF x
<1> QED
  BY <1>2, <1>3

(* Before the first round.                                                  *)
Start(seeds, budget) ==
    [selected |-> seeds, edges |-> {}, parents |-> <<>>, queue |-> Sorted(seeds),
     reached |-> Cardinality(seeds) > budget.nodes, over |-> FALSE]

(* Before the first round the seeds are all there is, and all of them wait. *)
LEMMA StartGood ==
    ASSUME NEW seeds \in SUBSET Nodes, NEW edges, NEW budget \in Budgets
    PROVE  WalkInv(Start(seeds, budget), 0, seeds, edges, budget)
<1> DEFINE w == Start(seeds, budget)
           d == [n \in seeds |-> 0]
<1>1. /\ Sorted(seeds) \in Seq(seeds) /\ Len(Sorted(seeds)) = Cardinality(seeds)
      /\ \A n \in seeds : \E i \in 1..Len(Sorted(seeds)) : Sorted(seeds)[i] = n
      /\ Cardinality(seeds) \in Nat /\ Sorted(seeds) \in Seq(Nodes)
  <2>1. IsFiniteSet(seeds) /\ seeds \subseteq Nat
    BY ExpansionAssumption, FS_Subset
  <2>2. /\ Sorted(seeds) \in Seq(seeds) /\ Len(Sorted(seeds)) = Cardinality(seeds)
        /\ \A n \in seeds : \E i \in 1..Len(Sorted(seeds)) : Sorted(seeds)[i] = n
    BY <2>1, SortedLists
  <2>3. Sorted(seeds) \in Seq(Nodes)
    BY <2>2
  <2>4. Cardinality(seeds) \in Nat
    BY <2>1, FS_CardinalityType
  <2> QED
    BY <2>2, <2>3, <2>4
<1>2. <<>> \in UNION {[D -> Nodes] : D \in SUBSET Nodes} /\ DOMAIN <<>> = {}
  <2>1. <<>> = [x \in {} |-> x]
    OBVIOUS
  <2>2. [x \in {} |-> x] \in [{} -> Nodes]
    OBVIOUS
  <2> QED
    BY <2>1, <2>2
<1>3. /\ w \in Walks /\ w.selected = seeds /\ w.edges = {} /\ w.parents = <<>>
      /\ w.queue = Sorted(seeds) /\ w.over = FALSE
  <2>1. (Cardinality(seeds) > budget.nodes) \in BOOLEAN
    OBVIOUS
  <2> QED
    BY <1>1, <1>2, <2>1 DEF Start, Walks
<1>4. Cardinality({}) = 0 /\ budget.edges \in Nat
  BY FS_EmptySet, ExpansionAssumption
<1>5. d \in [seeds -> 0..0] /\ \A n \in seeds : d[n] = 0
  OBVIOUS
<1> HIDE DEF w, d
<1>6. Tree(w, d, 0, seeds, edges, budget)
  BY <1>2, <1>3, <1>4, <1>5 DEF Tree
<1>7. Frontier(w, d, 0, {}, 0, edges, budget)
  <2>1. \A i \in 1..Len(w.queue) : d[w.queue[i]] = 0
    BY <1>1, <1>3, <1>5
  <2> QED
    BY <1>1, <1>3, <2>1 DEF Frontier
<1>8. Going(w, d, 0, edges, budget)
  BY <1>1, <1>3, <1>7 DEF Going, Waits
<1>9. WalkInv(w, 0, seeds, edges, budget)
  BY <1>3, <1>6, <1>8 DEF WalkInv
<1> QED
  BY <1>9 DEF w

(* An expansion is as many rounds as there are nodes, each of the walk the  *)
(* one before left.                                                         *)
LEMMA RoundsRun ==
    ASSUME NEW seeds \in SUBSET Nodes, NEW edges, NEW budget \in Budgets
    PROVE  \E run : /\ run[0] = Start(seeds, budget)
                    /\ \A k \in 1..Cardinality(Nodes) :
                          run[k] = Round(run[k - 1], Neighbours(edges), budget)
                    /\ ExpandBounded(seeds, edges, budget) = run[Cardinality(Nodes)]
<1> DEFINE N == Cardinality(Nodes)
           w == Start(seeds, budget)
           nb == Neighbours(edges)
           list == [i \in 1..N |-> i]
           step == [k \in 1..N |-> [v \in Walks |-> Round(v, nb, budget)]]
           P(f) == f = [s \in SUBSET (1..N) |-> IF s = {} THEN w ELSE Round(f[s \ {Max(s)}], nb, budget)]
<1>1. N \in Nat /\ DOMAIN list = 1..N /\ w \in Walks
  <2>1. N \in Nat
    BY ExpansionAssumption, FS_CardinalityType
  <2>2. w \in Walks
    BY StartGood DEF WalkInv, Tree
  <2> QED
    BY <2>1, <2>2
<1>2. step \in [1..N -> [Walks -> Walks]]
  BY RoundTyped
<1>3. PICK g : Folds(g, Walks, w, N, step)
  <2> HIDE DEF step, N, w
  <2> QED
    BY <1>1, <1>2, Recursion
<1>4. P(g)
  <2>1. ASSUME NEW s \in SUBSET (1..N), s # {}
        PROVE  g[s] = Round(g[s \ {Max(s)}], nb, budget)
    <3>1. Max(s) \in 1..N
      BY <1>1, <2>1, Largest
    <3>2. g[s \ {Max(s)}] \in Walks
      <4>1. s \ {Max(s)} \in SUBSET (1..N)
        BY <2>1
      <4> HIDE DEF step, N, w
      <4> QED
        BY <1>3, <4>1 DEF Folds
    <3>3. g[s] = step[Max(s)][g[s \ {Max(s)}]]
      <4> HIDE DEF step, N, w
      <4> QED
        BY <1>3, <2>1 DEF Folds
    <3> HIDE DEF w, N, nb
    <3> QED
      BY <3>1, <3>2, <3>3
  <2> HIDE DEF N, step, w, nb
  <2> QED
    BY <1>3, <2>1 DEF Folds
<1>5. PICK f : P(f) /\ ExpandBounded(seeds, edges, budget) = f[1..N]
  <2>1. P(CHOOSE f : P(f))
    BY <1>4, Zenon
  <2> QED
    BY <1>1, <2>1, Zenon DEF ExpandBounded, Start, FoldLeft, MapThenFoldSet
<1> DEFINE run == [k \in 0..N |-> f[1..k]]
<1>6. run[0] = w
  <2>1. 1..0 = {} /\ {} \in SUBSET (1..N)
    BY <1>1
  <2>2. run[0] = f[1..0]
    BY <1>1
  <2> HIDE DEF run, N, w, nb
  <2> QED
    BY <1>5, <2>1, <2>2
<1>7. ASSUME NEW k \in 1..N PROVE run[k] = Round(run[k - 1], nb, budget)
  <2>1. /\ 1..k # {} /\ 1..k \in SUBSET (1..N)
        /\ Max(1..k) = k /\ (1..k) \ {Max(1..k)} = 1..(k - 1)
    BY <1>1, Prefix
  <2>2. run[k] = f[1..k] /\ run[k - 1] = f[1..(k - 1)]
    BY <1>1
  <2> HIDE DEF run, N, w, nb
  <2> QED
    BY <1>5, <2>1, <2>2
<1>8. ExpandBounded(seeds, edges, budget) = run[N]
  BY <1>1, <1>5
<1> HIDE DEF run, P
<1> QED
  BY <1>6, <1>7, <1>8

(* When it ends, the nodes it has found are a tree, and unless a budget     *)
(* stopped it, every edge at a node it has found is used.                   *)
LEMMA ExpansionEnds ==
    ASSUME NEW seeds \in SUBSET Nodes, NEW edges \in SUBSET kSubset(2, Nodes), NEW budget \in Budgets,
           NEW w, w = ExpandBounded(seeds, edges, budget)
    PROVE  \E d : /\ Tree(w, d, Cardinality(Nodes), seeds, edges, budget)
                  /\ ~w.reached /\ Cardinality(w.edges) < budget.edges =>
                        \A m \in w.selected, n \in Nodes : {m, n} \in edges => {m, n} \in w.edges
<1> DEFINE N == Cardinality(Nodes)
<1>1. N \in Nat
  BY ExpansionAssumption, FS_CardinalityType
<1>2. PICK run : /\ run[0] = Start(seeds, budget)
                 /\ \A k \in 1..N : run[k] = Round(run[k - 1], Neighbours(edges), budget)
                 /\ w = run[N]
  BY RoundsRun
<1> DEFINE T == {k \in 0..N : WalkInv(run[k], k, seeds, edges, budget)}
<1>3. WalkInv(w, N, seeds, edges, budget)
  <2> HIDE DEF N
  <2>1. 0 \in T
    <3>1. WalkInv(run[0], 0, seeds, edges, budget)
      BY <1>2, StartGood
    <3> QED
      BY <1>1, <3>1
  <2>2. ASSUME NEW k \in 1..N, k - 1 \in T PROVE k \in T
    <3>1. k - 1 \in Nat /\ (k - 1) + 1 = k
      BY <1>1
    <3>2. WalkInv(Round(run[k - 1], Neighbours(edges), budget), (k - 1) + 1, seeds, edges, budget)
      BY <2>2, <3>1, RoundKeeps
    <3>3. WalkInv(run[k], k, seeds, edges, budget)
      BY <1>2, <3>1, <3>2
    <3> QED
      BY <1>1, <3>3
  <2>3. \A k \in 0..N : k \in T
    <3> HIDE DEF T
    <3> QED
      BY <1>1, <2>1, <2>2, Steps
  <2> QED
    BY <1>1, <1>2, <2>3
<1>4. PICK d : /\ Tree(w, d, N, seeds, edges, budget)
               /\ w.over => EdgesFull(w, budget)
               /\ w.over \/ Going(w, d, N, edges, budget)
  BY <1>3 DEF WalkInv
<1>5. ASSUME ~w.reached, Cardinality(w.edges) < budget.edges, NEW m \in w.selected, NEW n \in Nodes, {m, n} \in edges
      PROVE  {m, n} \in w.edges
  <2>1. w \in Walks /\ w.selected \in SUBSET Nodes
    BY <1>4 DEF Tree, Walks
  <2>2. Cardinality(w.edges) \in Nat /\ budget.edges \in Nat
    BY <2>1, WalkFinite, ExpansionAssumption
  <2>3. ~EdgesFull(w, budget)
    BY <1>5, <2>2 DEF EdgesFull
  <2>4. PICK h, P, r : /\ r \in Nat /\ Frontier(w, d, h, P, r, edges, budget)
                       /\ w.queue = <<>> \/ r = N
                       /\ \A x \in w.selected : x \in P \/ Waits(x, w)
    BY <1>4, <2>3 DEF Going
  <2>5. Cardinality(w.selected) <= N /\ Cardinality(w.selected) \in Nat
    BY <2>1, ExpansionAssumption, FS_Subset, WalkFinite
  <2>6. Len(w.queue) = 0
    <3>1. w.queue \in Seq(w.selected) /\ Len(w.queue) + r = Cardinality(w.selected)
      BY <2>4 DEF Frontier
    <3> HIDE DEF N
    <3> QED
      BY <1>1, <2>4, <2>5, <3>1
  <2>7. m \in P
    BY <2>4, <2>6 DEF Waits
  <2>8. Settled(w, m, n, budget)
    BY <1>5, <2>4, <2>7 DEF Frontier
  <2> QED
    BY <1>5, <2>8 DEF Settled
<1> QED
  BY <1>4, <1>5

--------------------------------------------------------------------------------
(* Paths, and what can be reached in so many edges *)

(* One step back to the parent.                                             *)
Extended(path, w) == IF Head(path) \in DOMAIN w.parents THEN <<w.parents[Head(path)]>> \o path ELSE path

(* A list of one.                                                           *)
LEMMA Single ==
    ASSUME NEW S, NEW x \in S
    PROVE  <<x>> \in Seq(S) /\ Len(<<x>>) = 1 /\ <<x>>[1] = x /\ <<x>> # <<>> /\ Head(<<x>>) = x
<1>1. Len(<<x>>) = 1 /\ <<x>>[1] = x /\ Len(<<>>) = 0
  OBVIOUS
<1>2. <<x>> \in Seq(S)
  OBVIOUS
<1>3. Head(<<x>>) = x
  BY <1>1
<1> QED
  BY <1>1, <1>2, <1>3

(* A path is built by going back to the parent as many times as there are   *)
(* nodes.                                                                   *)
LEMMA PathRun ==
    ASSUME NEW w, NEW n \in w.selected, \A m \in DOMAIN w.parents : w.parents[m] \in w.selected
    PROVE  \E run : /\ run[0] = <<n>>
                    /\ \A k \in 1..Cardinality(Nodes) : run[k] = Extended(run[k - 1], w)
                    /\ SupportingPath(n, w) = run[Cardinality(Nodes)]
<1> DEFINE N == Cardinality(Nodes)
           A == Seq(w.selected) \ {<<>>}
           list == [i \in 1..N |-> i]
           step == [k \in 1..N |-> [p \in A |-> Extended(p, w)]]
           P(f) == f = [s \in SUBSET (1..N) |-> IF s = {} THEN <<n>> ELSE Extended(f[s \ {Max(s)}], w)]
<1>1. N \in Nat /\ DOMAIN list = 1..N /\ <<n>> \in A
  BY ExpansionAssumption, FS_CardinalityType, Single
<1>2. step \in [1..N -> [A -> A]]
  <2>1. ASSUME NEW p \in A PROVE Extended(p, w) \in A
    <3>1. CASE Head(p) \in DOMAIN w.parents
      <4>1. PICK m \in w.selected : m = w.parents[Head(p)]
        BY <3>1
      <4>2. <<m>> \in Seq(w.selected) /\ p \in Seq(w.selected) /\ Len(<<m>>) = 1
        BY Single
      <4>3. <<m>> \o p \in Seq(w.selected) /\ Len(<<m>> \o p) = 1 + Len(p) /\ Len(p) \in Nat
        BY <4>2
      <4>4. <<m>> \o p # <<>>
        BY <4>3
      <4> QED
        BY <3>1, <4>1, <4>3, <4>4 DEF Extended
    <3>2. CASE Head(p) \notin DOMAIN w.parents
      BY <3>2 DEF Extended
    <3> QED
      BY <3>1, <3>2
  <2> HIDE DEF N, A
  <2> QED
    BY <2>1
<1>3. PICK g : Folds(g, A, <<n>>, N, step)
  <2> HIDE DEF step, N, A
  <2> QED
    BY <1>1, <1>2, Recursion
<1>4. P(g)
  <2>1. ASSUME NEW s \in SUBSET (1..N), s # {}
        PROVE  g[s] = Extended(g[s \ {Max(s)}], w)
    <3>1. Max(s) \in 1..N
      BY <1>1, <2>1, Largest
    <3>2. g[s \ {Max(s)}] \in A
      <4>1. s \ {Max(s)} \in SUBSET (1..N)
        BY <2>1
      <4> HIDE DEF step, N, A
      <4> QED
        BY <1>3, <4>1 DEF Folds
    <3>3. g[s] = step[Max(s)][g[s \ {Max(s)}]]
      <4> HIDE DEF step, N, A
      <4> QED
        BY <1>3, <2>1 DEF Folds
    <3> HIDE DEF A, N
    <3> QED
      BY <3>1, <3>2, <3>3
  <2> HIDE DEF N, step, A
  <2> QED
    BY <1>3, <2>1 DEF Folds
<1>5. PICK f : P(f) /\ SupportingPath(n, w) = f[1..N]
  <2>1. P(CHOOSE f : P(f))
    BY <1>4, Zenon
  <2> QED
    BY <1>1, <2>1, Zenon DEF SupportingPath, Extended, FoldLeft, MapThenFoldSet
<1> DEFINE run == [k \in 0..N |-> f[1..k]]
<1>6. run[0] = <<n>>
  <2>1. 1..0 = {} /\ {} \in SUBSET (1..N)
    BY <1>1
  <2>2. run[0] = f[1..0]
    BY <1>1
  <2> HIDE DEF run, N
  <2> QED
    BY <1>5, <2>1, <2>2
<1>7. ASSUME NEW k \in 1..N PROVE run[k] = Extended(run[k - 1], w)
  <2>1. /\ 1..k # {} /\ 1..k \in SUBSET (1..N)
        /\ Max(1..k) = k /\ (1..k) \ {Max(1..k)} = 1..(k - 1)
    BY <1>1, Prefix
  <2>2. run[k] = f[1..k] /\ run[k - 1] = f[1..(k - 1)]
    BY <1>1
  <2> HIDE DEF run, N
  <2> QED
    BY <1>5, <2>1, <2>2
<1>8. SupportingPath(n, w) = run[N]
  BY <1>1, <1>5
<1> HIDE DEF run, P
<1> QED
  BY <1>6, <1>7, <1>8

(* A path of edges to n, which began k steps before or at a seed.           *)
Leads(path, k, n, w, d, seeds) ==
    /\ path \in Seq(w.selected) /\ Len(path) >= 1
    /\ path[Len(path)] = n
    /\ \A i \in 1..(Len(path) - 1) : {path[i], path[i + 1]} \in w.edges
    /\ d[path[1]] + Len(path) = d[n] + 1
    /\ Len(path) = k + 1 \/ path[1] \in seeds

(* A path of edges from a seed to n, as long as n is away.                  *)
LeadsTo(path, n, w, d, seeds) ==
    /\ path \in Seq(w.selected) /\ path[1] \in seeds /\ Len(path) = d[n] + 1
    /\ path[Len(path)] = n
    /\ \A i \in 1..(Len(path) - 1) : {path[i], path[i + 1]} \in w.edges

(* Going back that often arrives at a seed, by as many edges as the node is *)
(* away.                                                                    *)
LEMMA PathLeads ==
    ASSUME NEW seeds, NEW edges, NEW budget, NEW w, NEW d,
           Tree(w, d, Cardinality(Nodes), seeds, edges, budget), NEW n \in w.selected,
           NEW path, path = SupportingPath(n, w)
    PROVE  LeadsTo(path, n, w, d, seeds)
<1> DEFINE N == Cardinality(Nodes)
<1>1. N \in Nat
  BY ExpansionAssumption, FS_CardinalityType
<1>2. /\ DOMAIN w.parents = w.selected \ seeds /\ seeds \subseteq w.selected
      /\ d \in [w.selected -> 0..N]
      /\ \A m \in seeds : d[m] = 0
      /\ \A m \in w.selected \ seeds : /\ w.parents[m] \in w.selected /\ d[m] = d[w.parents[m]] + 1
                                       /\ {w.parents[m], m} \in w.edges
  BY DEF Tree
<1>3. PICK run : /\ run[0] = <<n>>
                 /\ \A k \in 1..N : run[k] = Extended(run[k - 1], w)
                 /\ SupportingPath(n, w) = run[N]
  BY <1>2, PathRun
<1> HIDE DEF N
<1> DEFINE T == {k \in 0..N : Leads(run[k], k, n, w, d, seeds)}
<1>4. 0 \in T
  <2>1. <<n>> \in Seq(w.selected) /\ Len(<<n>>) = 1 /\ <<n>>[1] = n
    BY Single
  <2>2. Leads(<<n>>, 0, n, w, d, seeds)
    BY <1>2, <2>1 DEF Leads
  <2> QED
    BY <1>1, <1>3, <2>2
<1>5. ASSUME NEW k \in 1..N, k - 1 \in T
      PROVE  k \in T
  <2>1. PICK p : p = run[k - 1]
    OBVIOUS
  <2>2. Leads(p, k - 1, n, w, d, seeds) /\ run[k] = Extended(p, w)
    BY <1>3, <1>5, <2>1
  <2>3. /\ p \in Seq(w.selected) /\ Len(p) \in Nat \ {0} /\ Head(p) = p[1] /\ p[1] \in w.selected
    BY <2>2 DEF Leads
  <2>4. CASE p[1] \in seeds
    <3>1. run[k] = p
      BY <1>2, <2>2, <2>3, <2>4 DEF Extended
    <3>2. Leads(p, k, n, w, d, seeds)
      BY <2>2, <2>4 DEF Leads
    <3> QED
      BY <1>1, <3>1, <3>2
  <2>5. CASE p[1] \notin seeds
    <3>1. PICK m : m = w.parents[p[1]]
      OBVIOUS
    <3>2. m \in w.selected /\ d[p[1]] = d[m] + 1 /\ {m, p[1]} \in w.edges /\ p[1] \in DOMAIN w.parents
      BY <1>2, <2>3, <2>5, <3>1
    <3>3. PICK q : q = <<m>> \o p
      OBVIOUS
    <3>4. run[k] = q
      BY <2>2, <2>3, <3>1, <3>2, <3>3 DEF Extended
    <3>5. /\ q \in Seq(w.selected) /\ Len(q) = Len(p) + 1 /\ q[1] = m
          /\ \A i \in 1..Len(p) : q[i + 1] = p[i]
      <4>1. <<m>> \in Seq(w.selected) /\ Len(<<m>>) = 1 /\ <<m>>[1] = m
        BY <3>2, Single
      <4>2. q \in Seq(w.selected) /\ Len(q) = 1 + Len(p)
        BY <2>3, <3>3, <4>1
      <4> QED
        BY <2>3, <3>3, <4>1, <4>2
    <3>6. q[Len(q)] = n
      BY <2>2, <2>3, <3>5 DEF Leads
    <3>7. ASSUME NEW i \in 1..(Len(q) - 1)
          PROVE  {q[i], q[i + 1]} \in w.edges
      <4>1. i \in 1..Len(p) /\ q[i + 1] = p[i]
        BY <2>3, <3>5
      <4>2. CASE i = 1
        BY <3>2, <3>5, <4>1, <4>2
      <4>3. CASE i # 1
        <5>1. i - 1 \in 1..(Len(p) - 1) /\ q[i] = p[i - 1] /\ (i - 1) + 1 = i
          <6>1. i - 1 \in 1..Len(p) /\ (i - 1) + 1 = i /\ i - 1 \in 1..(Len(p) - 1)
            BY <2>3, <4>1, <4>3
          <6> QED
            BY <3>5, <6>1
        <5>2. {p[i - 1], p[(i - 1) + 1]} \in w.edges
          BY <2>2, <5>1 DEF Leads
        <5> QED
          BY <4>1, <5>1, <5>2
      <4> QED
        BY <4>2, <4>3
    <3>8. d[q[1]] + Len(q) = d[n] + 1
      <4>1. d[p[1]] + Len(p) = d[n] + 1
        BY <2>2 DEF Leads
      <4>2. d[m] \in Nat /\ d[p[1]] \in Nat /\ d[n] \in Nat
        <5>1. \A x \in w.selected : d[x] \in 0..N
          BY <1>2
        <5> QED
          BY <1>1, <2>3, <3>2, <5>1
      <4> QED
        <5>1. d[q[1]] = d[m] /\ d[p[1]] = d[m] + 1 /\ Len(q) = Len(p) + 1
          BY <3>2, <3>5
        <5> HIDE DEF T
        <5> QED
          BY <2>3, <4>1, <4>2, <5>1
    <3>9. Len(q) = k + 1
      <4>1. Len(p) = (k - 1) + 1
        BY <2>2, <2>5 DEF Leads
      <4> QED
        BY <1>1, <3>5, <4>1
    <3>10. Leads(q, k, n, w, d, seeds)
      <4>1. q \in Seq(w.selected) /\ Len(q) >= 1
        BY <2>3, <3>5
      <4> QED
        BY <3>6, <3>7, <3>8, <3>9, <4>1 DEF Leads
    <3> QED
      BY <1>1, <3>4, <3>10
  <2> QED
    BY <2>4, <2>5
<1>6. PICK p : p = SupportingPath(n, w)
  OBVIOUS
<1>7. Leads(p, N, n, w, d, seeds)
  <2>1. \A k \in 0..N : k \in T
    <3> HIDE DEF T
    <3> QED
      BY <1>1, <1>4, <1>5, Steps
  <2> QED
    BY <1>1, <1>3, <1>6, <2>1
<1>8. p[1] \in seeds
  <2> SUFFICES ASSUME p[1] \notin seeds PROVE FALSE
    OBVIOUS
  <2>1. p[1] \in w.selected
    BY <1>7 DEF Leads
  <2>2. d[p[1]] \in Nat /\ d[n] \in 0..N /\ d[w.parents[p[1]]] \in Nat /\ d[p[1]] = d[w.parents[p[1]]] + 1
    <3>1. p[1] \in w.selected \ seeds
      BY <2>1
    <3>2. w.parents[p[1]] \in w.selected /\ d[p[1]] = d[w.parents[p[1]]] + 1
      BY <1>2, <3>1
    <3>3. \A x \in w.selected : d[x] \in 0..N
      BY <1>2
    <3> QED
      BY <1>1, <2>1, <3>2, <3>3
  <2>3. d[p[1]] + (N + 1) = d[n] + 1
    BY <1>7 DEF Leads
  <2> QED
    BY <1>1, <2>2, <2>3
<1>9. d[p[1]] = 0 /\ d[n] \in Nat /\ Len(p) \in Nat
  BY <1>1, <1>2, <1>7, <1>8 DEF Leads
<1>10. Len(p) = d[n] + 1
  BY <1>7, <1>9 DEF Leads
<1> QED
  BY <1>6, <1>7, <1>8, <1>10 DEF Leads, LeadsTo

(* What is reached within n edges, one edge after the other.                *)
LEMMA ReachRun ==
    ASSUME NEW seeds \in SUBSET Nodes, NEW es, NEW N \in Nat
    PROVE  \E run : /\ run[0] = seeds
                    /\ \A k \in 1..N : run[k] = Beyond(run[k - 1], es)
                    /\ Within(seeds, es, N) = run[N]
<1> DEFINE A == SUBSET Nodes
           list == [i \in 1..N |-> i]
           step == [k \in 1..N |-> [s \in A |-> Beyond(s, es)]]
           P(f) == f = [s \in SUBSET (1..N) |-> IF s = {} THEN seeds ELSE Beyond(f[s \ {Max(s)}], es)]
<1>1. DOMAIN list = 1..N
  OBVIOUS
<1>2. step \in [1..N -> [A -> A]]
  <2>1. \A s \in A : Beyond(s, es) \in A
    BY DEF Beyond
  <2> HIDE DEF A
  <2> QED
    BY <2>1
<1>3. PICK g : Folds(g, A, seeds, N, step)
  <2> HIDE DEF step
  <2> QED
    BY <1>2, Recursion
<1>4. P(g)
  <2>1. ASSUME NEW s \in SUBSET (1..N), s # {}
        PROVE  g[s] = Beyond(g[s \ {Max(s)}], es)
    <3>1. Max(s) \in 1..N
      BY <2>1, Largest
    <3>2. g[s \ {Max(s)}] \in A
      <4>1. s \ {Max(s)} \in SUBSET (1..N)
        BY <2>1
      <4> HIDE DEF step, A
      <4> QED
        BY <1>3, <4>1 DEF Folds
    <3>3. g[s] = step[Max(s)][g[s \ {Max(s)}]]
      <4> HIDE DEF step, A
      <4> QED
        BY <1>3, <2>1 DEF Folds
    <3> HIDE DEF A
    <3> QED
      BY <3>1, <3>2, <3>3
  <2> HIDE DEF step, A
  <2> QED
    BY <1>3, <2>1 DEF Folds
<1>5. PICK f : P(f) /\ Within(seeds, es, N) = f[1..N]
  <2>1. P(CHOOSE f : P(f))
    BY <1>4, Zenon
  <2> QED
    BY <1>1, <2>1, Zenon DEF Within, FoldLeft, MapThenFoldSet
<1> DEFINE run == [k \in 0..N |-> f[1..k]]
<1>6. run[0] = seeds
  <2>1. 1..0 = {} /\ {} \in SUBSET (1..N)
    OBVIOUS
  <2>2. run[0] = f[1..0]
    OBVIOUS
  <2> HIDE DEF run
  <2> QED
    BY <1>5, <2>1, <2>2
<1>7. ASSUME NEW k \in 1..N PROVE run[k] = Beyond(run[k - 1], es)
  <2>1. /\ 1..k # {} /\ 1..k \in SUBSET (1..N)
        /\ Max(1..k) = k /\ (1..k) \ {Max(1..k)} = 1..(k - 1)
    BY Prefix
  <2>2. run[k] = f[1..k] /\ run[k - 1] = f[1..(k - 1)]
    OBVIOUS
  <2> HIDE DEF run
  <2> QED
    BY <1>5, <2>1, <2>2
<1>8. Within(seeds, es, N) = run[N]
  BY <1>5
<1> HIDE DEF run, P
<1> QED
  BY <1>6, <1>7, <1>8

(* What is reached stays in a set that the edges do not leave.              *)
LEMMA ReachStays ==
    ASSUME NEW seeds \in SUBSET Nodes, NEW es, NEW N \in Nat, NEW all, seeds \subseteq all,
           \A m \in all, n \in Nodes : {m, n} \in es => n \in all
    PROVE  Within(seeds, es, N) \subseteq all
<1>1. PICK run : /\ run[0] = seeds
                 /\ \A k \in 1..N : run[k] = Beyond(run[k - 1], es)
                 /\ Within(seeds, es, N) = run[N]
  BY ReachRun
<1> DEFINE T == {k \in 0..N : run[k] \subseteq all}
<1>2. 0 \in T
  BY <1>1
<1>3. ASSUME NEW k \in 1..N, k - 1 \in T PROVE k \in T
  <2>1. run[k - 1] \subseteq all /\ run[k] = Beyond(run[k - 1], es)
    BY <1>1, <1>3
  <2>2. run[k] \subseteq all
    BY <2>1 DEF Beyond
  <2> QED
    BY <2>2
<1>4. \A k \in 0..N : k \in T
  <2> HIDE DEF T
  <2> QED
    BY <1>2, <1>3, Steps
<1> QED
  BY <1>1, <1>4

(* By the edges an expansion used, a node is not reached sooner than by its *)
(* path.                                                                    *)
LEMMA NoSooner ==
    ASSUME NEW seeds \in SUBSET Nodes, NEW edges, NEW budget, NEW w, NEW d, NEW K \in Nat,
           Tree(w, d, K, seeds, edges, budget), NEW N \in Nat
    PROVE  Within(seeds, w.edges, N) \subseteq {n \in w.selected : d[n] <= N}
<1>1. PICK run : /\ run[0] = seeds
                 /\ \A k \in 1..N : run[k] = Beyond(run[k - 1], w.edges)
                 /\ Within(seeds, w.edges, N) = run[N]
  <2>1. PICK es : es = w.edges
    OBVIOUS
  <2>2. \E run : /\ run[0] = seeds
                 /\ \A k \in 1..N : run[k] = Beyond(run[k - 1], es)
                 /\ Within(seeds, es, N) = run[N]
    BY ReachRun
  <2> QED
    BY <2>1, <2>2
<1>2. /\ seeds \subseteq w.selected /\ \A n \in seeds : d[n] = 0
      /\ \A n \in w.selected : d[n] \in Nat
      /\ \A m, n : {m, n} \in w.edges => m \in w.selected /\ n \in w.selected /\ d[m] <= d[n] + 1
  <2>1. d \in [w.selected -> 0..K]
    BY DEF Tree
  <2>2. \A n \in w.selected : d[n] \in 0..K
    BY <2>1
  <2> QED
    BY <2>2 DEF Tree
<1> DEFINE T == {k \in 0..N : run[k] \subseteq {n \in w.selected : d[n] <= k}}
<1>3. 0 \in T
  BY <1>1, <1>2
<1>4. ASSUME NEW k \in 1..N, k - 1 \in T
      PROVE  k \in T
  <2>1. ASSUME NEW n \in run[k]
        PROVE  n \in w.selected /\ d[n] <= k
    <3>1. CASE n \in run[k - 1]
      <4>1. n \in w.selected /\ d[n] <= k - 1
        BY <1>4, <3>1
      <4> QED
        BY <1>2, <4>1
    <3>2. CASE \E m \in run[k - 1] : {m, n} \in w.edges
      <4>1. PICK m \in run[k - 1] : {m, n} \in w.edges
        BY <3>2
      <4>2. {n, m} \in w.edges
        <5>1. {n, m} = {m, n}
          OBVIOUS
        <5> QED
          BY <4>1, <5>1
      <4>3. m \in w.selected /\ d[m] <= k - 1
        BY <1>4
      <4>4. n \in w.selected /\ d[n] <= d[m] + 1
        BY <1>2, <4>2
      <4> QED
        BY <1>2, <4>3, <4>4
    <3> QED
      BY <1>1, <3>1, <3>2 DEF Beyond
  <2> QED
    BY <2>1
<1>5. \A k \in 0..N : k \in T
  <2> HIDE DEF T
  <2> QED
    BY <1>3, <1>4, Steps
<1> QED
  BY <1>1, <1>5

(* Whatever an expansion found within k edges is reached in as many.        *)
LEMMA AsSoon ==
    ASSUME NEW seeds \in SUBSET Nodes, NEW edges, NEW budget, NEW w, NEW d, NEW K \in Nat,
           Tree(w, d, K, seeds, edges, budget)
    PROVE  w.selected \subseteq Within(seeds, edges, K)
<1>1. PICK run : /\ run[0] = seeds
                 /\ \A k \in 1..K : run[k] = Beyond(run[k - 1], edges)
                 /\ Within(seeds, edges, K) = run[K]
  BY ReachRun
<1>2. /\ w.selected \subseteq Nodes
      /\ \A n \in w.selected : d[n] \in 0..K
      /\ \A n \in w.selected \ seeds : /\ w.parents[n] \in w.selected
                                       /\ d[n] = d[w.parents[n]] + 1
                                       /\ {w.parents[n], n} \in edges
  BY DEF Tree, Walks
<1> DEFINE T == {k \in 0..K : \A n \in w.selected : d[n] <= k => n \in run[k]}
<1>3. ASSUME NEW n \in w.selected, d[n] <= 0 PROVE n \in seeds
  <2> SUFFICES ASSUME n \notin seeds PROVE FALSE
    OBVIOUS
  <2>1. w.parents[n] \in w.selected /\ d[n] = d[w.parents[n]] + 1
    BY <1>2
  <2>2. d[n] \in Nat /\ d[w.parents[n]] \in Nat
    BY <1>2, <2>1
  <2> QED
    BY <1>3, <2>1, <2>2
<1>4. 0 \in T
  BY <1>1, <1>3
<1>5. ASSUME NEW k \in 1..K, k - 1 \in T
      PROVE  k \in T
  <2>1. ASSUME NEW n \in w.selected, d[n] <= k
        PROVE  n \in run[k]
    <3>1. d[n] \in Nat
      BY <1>2
    <3>2. CASE d[n] <= k - 1
      BY <1>1, <1>5, <3>2 DEF Beyond
    <3>3. CASE d[n] = k
      <4>0. PICK m : m = w.parents[n]
        OBVIOUS
      <4>1. CASE n \in seeds
        <5>1. d[n] = 0
          BY <4>1 DEF Tree
        <5> QED
          BY <3>3, <5>1
      <4>2. CASE n \notin seeds
        <5>1. m \in w.selected /\ d[n] = d[m] + 1 /\ {m, n} \in edges
          BY <1>2, <4>0, <4>2
        <5>2. d[m] \in Nat
          BY <1>2, <5>1
        <5>3. m \in run[k - 1]
          BY <1>5, <3>3, <5>1, <5>2
        <5> QED
          BY <1>1, <1>2, <5>1, <5>3 DEF Beyond
      <4> QED
        BY <4>1, <4>2
    <3> QED
      BY <2>1, <3>1, <3>2, <3>3
  <2> QED
    BY <2>1
<1>6. \A k \in 0..K : k \in T
  <2> HIDE DEF T
  <2> QED
    BY <1>4, <1>5, Steps
<1> QED
  BY <1>1, <1>2, <1>6

--------------------------------------------------------------------------------
(* An expansion explained *)

(* All that an expansion keeps.                                             *)
Explained(seeds, edges, budget) ==
    LET walk == ExpandBounded(seeds, edges, budget) IN
    [done |-> TRUE, seeds |-> seeds, edges |-> edges, budget |-> budget,
     visited |-> walk.selected, used |-> walk.edges, reached |-> walk.reached,
     paths |-> [n \in walk.selected |-> SupportingPath(n, walk)]]

(* No expansion yet, or the one of some seeds, edges and budget.            *)
ExpansionInv ==
    \/ expansion = NoExpansion
    \/ \E seeds \in SUBSET Nodes, edges \in SUBSET kSubset(2, Nodes), budget \in Budgets :
          expansion = Explained(seeds, edges, budget)

(* The larger of two numbers.                                               *)
LEMMA MaxOfTwo ==
    ASSUME NEW a \in Nat, NEW b \in Nat
    PROVE  Max({a, b}) \in Nat /\ a <= Max({a, b}) /\ b <= Max({a, b})
<1>1. \E x \in {a, b} : \A y \in {a, b} : x >= y
  <2>1. CASE a >= b
    BY <2>1
  <2>2. CASE b >= a
    BY <2>2
  <2> QED
    BY <2>1, <2>2
<1>2. Max({a, b}) \in {a, b} /\ \A y \in {a, b} : Max({a, b}) >= y
  BY <1>1, Zenon DEF Max
<1>3. Max({a, b}) \in Nat /\ Max({a, b}) >= a /\ Max({a, b}) >= b
  BY <1>2
<1> QED
  BY <1>3

(* An edge joins two nodes.                                                 *)
LEMMA Pairs ==
    ASSUME NEW f \in kSubset(2, Nodes)
    PROVE  \E m, n \in Nodes : f = {m, n}
<1>1. f \subseteq Nodes /\ Cardinality(f) = 2 /\ IsFiniteSet(f)
  BY ExpansionAssumption, FS_Subset DEF kSubset
<1>2. PICK m : m \in f
  <2>1. Cardinality({}) = 0
    BY FS_EmptySet
  <2> QED
    BY <1>1, <2>1
<1>3. IsFiniteSet(f \ {m}) /\ Cardinality(f \ {m}) = 1
  BY <1>1, <1>2, FS_RemoveElement
<1>4. PICK n : f \ {m} = {n}
  BY <1>3, FS_Singleton
<1> QED
  BY <1>1, <1>2, <1>4

(* What is kept of an expansion is what the walk and its paths have been    *)
(* shown to be.                                                             *)
LEMMA ExpansionShown ==
    ASSUME ExpansionInv
    PROVE  ExpansionExplained
<1> SUFFICES ASSUME expansion.done PROVE ExpansionExplained
  BY DEF ExpansionExplained
<1>1. PICK seeds \in SUBSET Nodes, edges \in SUBSET kSubset(2, Nodes), budget \in Budgets :
         expansion = Explained(seeds, edges, budget)
  BY DEF ExpansionInv, NoExpansion
<1> DEFINE N == Cardinality(Nodes)
<1>2. PICK w : w = ExpandBounded(seeds, edges, budget)
  OBVIOUS
<1>3. PICK d : /\ Tree(w, d, N, seeds, edges, budget)
               /\ ~w.reached /\ Cardinality(w.edges) < budget.edges =>
                     \A m \in w.selected, n \in Nodes : {m, n} \in edges => {m, n} \in w.edges
  BY <1>2, ExpansionEnds
<1>4. /\ expansion.seeds = seeds /\ expansion.edges = edges /\ expansion.budget = budget
      /\ expansion.visited = w.selected /\ expansion.used = w.edges /\ expansion.reached = w.reached
      /\ \A n \in w.selected : expansion.paths[n] = SupportingPath(n, w)
  BY <1>1, <1>2 DEF Explained
<1>5. w \in Walks /\ w.selected \subseteq Nodes /\ w.edges \subseteq edges /\ seeds \subseteq w.selected
  BY <1>3 DEF Tree, Walks
<1>6. N \in Nat /\ budget.nodes \in Nat /\ budget.edges \in Nat /\ Cardinality(seeds) \in Nat
  BY ExpansionAssumption, FS_CardinalityType, FS_Subset
<1>7. Cardinality(w.selected) <= Max({budget.nodes, Cardinality(seeds)})
  <2>1. Cardinality(w.selected) \in Nat
    BY <1>5, WalkFinite
  <2>2. PICK most : most = Max({budget.nodes, Cardinality(seeds)})
    OBVIOUS
  <2>3. most \in Nat /\ budget.nodes <= most /\ Cardinality(seeds) <= most
    BY <1>6, <2>2, MaxOfTwo
  <2>4. Cardinality(w.selected) <= budget.nodes \/ w.selected = seeds
    BY <1>3 DEF Tree
  <2> QED
    BY <1>6, <2>1, <2>2, <2>3, <2>4
<1>8. ASSUME NEW n \in w.selected, NEW p, p = SupportingPath(n, w)
      PROVE  /\ Head(p) \in seeds /\ Last(p) = n /\ Connects(p, w.edges)
             /\ n \notin Within(seeds, w.edges, Len(p) - 2) \/ Len(p) = 1
  <2>1. /\ p \in Seq(w.selected) /\ p[1] \in seeds /\ Len(p) = d[n] + 1
        /\ p[Len(p)] = n
        /\ \A i \in 1..(Len(p) - 1) : {p[i], p[i + 1]} \in w.edges
    <3>1. LeadsTo(p, n, w, d, seeds)
      BY <1>3, <1>8, PathLeads
    <3> QED
      BY <3>1 DEF LeadsTo
  <2>2. d[n] \in Nat
    <3>1. d \in [w.selected -> 0..N]
      BY <1>3 DEF Tree
    <3> QED
      BY <1>6, <3>1
  <2>3. Head(p) = p[1]
    BY <2>1, <2>2
  <2>4. Last(p) = n /\ Connects(p, w.edges)
    BY <2>1 DEF Last, Connects
  <2>5. CASE d[n] = 0
    BY <2>1, <2>3, <2>4, <2>5
  <2>6. CASE d[n] # 0
    <3>1. d[n] - 1 \in Nat /\ Len(p) - 2 = d[n] - 1
      BY <2>1, <2>2, <2>6
    <3>2. Within(seeds, w.edges, d[n] - 1) \subseteq {x \in w.selected : d[x] <= d[n] - 1}
      BY <1>3, <1>6, <3>1, NoSooner
    <3>3. n \notin Within(seeds, w.edges, Len(p) - 2)
      BY <2>2, <3>1, <3>2
    <3> QED
      BY <2>1, <2>3, <2>4, <3>3
  <2> QED
    BY <2>5, <2>6
<1>9. ASSUME ~w.reached, Cardinality(w.edges) < budget.edges
      PROVE  /\ w.selected = Within(seeds, edges, N)
             /\ w.edges = {f \in edges : f \subseteq w.selected}
  <2>1. \A m \in w.selected, n \in Nodes : {m, n} \in edges => {m, n} \in w.edges
    BY <1>3, <1>9
  <2>2. \A m, n : {m, n} \in w.edges => m \in w.selected /\ n \in w.selected
    BY <1>3 DEF Tree
  <2>3. w.selected \subseteq Within(seeds, edges, N)
    BY <1>3, <1>6, AsSoon
  <2>4. Within(seeds, edges, N) \subseteq w.selected
    <3>1. \A m \in w.selected, n \in Nodes : {m, n} \in edges => n \in w.selected
      BY <2>1, <2>2
    <3>2. PICK all : all = w.selected
      OBVIOUS
    <3>3. Within(seeds, edges, N) \subseteq all
      BY <1>5, <1>6, <3>1, <3>2, ReachStays
    <3> QED
      BY <3>2, <3>3
  <2>5. ASSUME NEW f \in edges
        PROVE  f \in w.edges <=> f \subseteq w.selected
    <3>1. PICK m, n \in Nodes : f = {m, n}
      BY Pairs
    <3> QED
      BY <2>1, <2>2, <2>5, <3>1
  <2> QED
    BY <1>5, <2>3, <2>4, <2>5
<1>10. Cardinality(w.edges) <= budget.edges
  BY <1>3 DEF Tree
<1> HIDE DEF N
<1>11. \A n \in w.selected :
          /\ Head(expansion.paths[n]) \in seeds /\ Last(expansion.paths[n]) = n
          /\ Connects(expansion.paths[n], w.edges)
          /\ n \notin Within(seeds, w.edges, Len(expansion.paths[n]) - 2) \/ Len(expansion.paths[n]) = 1
  BY <1>4, <1>8
<1> QED
  BY <1>4, <1>5, <1>7, <1>9, <1>10, <1>11 DEF ExpansionExplained, N

(* Whatever the graph, the nodes a query matched and its budget, what is    *)
(* expanded from them keeps to the budget, each node comes with a path of   *)
(* used edges from a match, as short as those allow, and unless a budget    *)
(* was in the way nothing that can be reached is missing (expand_bounded    *)
(* and supporting_path in graph_expansion.rs).                              *)
THEOREM ExpansionCorrect == Spec => []ExpansionExplained
<1>1. Init => ExpansionInv
  BY DEF Init, ExpansionInit, ExpansionInv
<1>2. ExpansionInv /\ [Next]_vars => ExpansionInv'
  <2> SUFFICES ASSUME ExpansionInv, [Next]_vars PROVE ExpansionInv'
    OBVIOUS
  <2>1. CASE expansion' = expansion
    BY <2>1 DEF ExpansionInv
  <2>2. CASE ExpansionNext
    <3>1. PICK seeds \in SUBSET Nodes, edges \in SUBSET kSubset(2, Nodes), budget \in Budgets :
             Expand(seeds, edges, budget)
      BY <2>2 DEF ExpansionNext
    <3>2. expansion' = Explained(seeds, edges, budget)
      BY <3>1 DEF Expand, Explained
    <3> QED
      BY <3>1, <3>2 DEF ExpansionInv
  <2> QED
    BY <2>1, <2>2 DEF Next, vars
<1>3. ExpansionInv => ExpansionExplained
  BY ExpansionShown
<1> QED
  BY <1>1, <1>2, <1>3, PTL DEF Spec

--------------------------------------------------------------------------------
(* Hierarchies: what a search reaches *)

(* A set of numbers that is not empty has its least among its members.      *)
LEMMA Smallest ==
    ASSUME NEW s, s \subseteq Nat, s # {}
    PROVE  Min(s) \in s /\ \A y \in s : Min(s) <= y
<1>1. \E x \in s : \A y \in s : x <= y
  BY Least
<1> QED
  BY <1>1, Zenon DEF Min

(* One more edge.                                                           *)
Wider(found, S, adj) == found \cup UNION {adj[d] \cap S : d \in found}

(* A search is as many steps as there are Cases.                            *)
LEMMA ReachedRun ==
    ASSUME NEW S, IsFiniteSet(S), NEW c \in S, NEW adj
    PROVE  \E run : /\ run[0] = {c}
                    /\ \A k \in 1..Cardinality(S) : run[k] = Wider(run[k - 1], S, adj)
                    /\ Reached(c, S, adj) = run[Cardinality(S)]
<1> DEFINE N == Cardinality(S)
           A == SUBSET S
           list == [i \in 1..N |-> i]
           step == [k \in 1..N |-> [s \in A |-> Wider(s, S, adj)]]
           P(f) == f = [s \in SUBSET (1..N) |-> IF s = {} THEN {c} ELSE Wider(f[s \ {Max(s)}], S, adj)]
<1>1. N \in Nat /\ DOMAIN list = 1..N
  BY FS_CardinalityType
<1>2. step \in [1..N -> [A -> A]]
  <2>1. \A s \in A : Wider(s, S, adj) \in A
    BY DEF Wider
  <2> HIDE DEF A, N
  <2> QED
    BY <2>1
<1>3. PICK g : Folds(g, A, {c}, N, step)
  <2>1. {c} \in A
    OBVIOUS
  <2> HIDE DEF step, N, A
  <2> QED
    BY <1>1, <1>2, <2>1, Recursion
<1>4. P(g)
  <2>1. ASSUME NEW s \in SUBSET (1..N), s # {}
        PROVE  g[s] = Wider(g[s \ {Max(s)}], S, adj)
    <3>1. Max(s) \in 1..N
      BY <1>1, <2>1, Largest
    <3>2. g[s \ {Max(s)}] \in A
      <4>1. s \ {Max(s)} \in SUBSET (1..N)
        BY <2>1
      <4> HIDE DEF step, A, N
      <4> QED
        BY <1>3, <4>1 DEF Folds
    <3>3. g[s] = step[Max(s)][g[s \ {Max(s)}]]
      <4> HIDE DEF step, A, N
      <4> QED
        BY <1>3, <2>1 DEF Folds
    <3> HIDE DEF A, N
    <3> QED
      BY <3>1, <3>2, <3>3
  <2> HIDE DEF step, A, N
  <2> QED
    BY <1>3, <2>1 DEF Folds
<1>5. PICK f : P(f) /\ Reached(c, S, adj) = f[1..N]
  <2>1. P(CHOOSE f : P(f))
    BY <1>4, Zenon
  <2> QED
    BY <1>1, <2>1, Zenon DEF Reached, FoldLeft, MapThenFoldSet, Wider
<1> DEFINE run == [k \in 0..N |-> f[1..k]]
<1>6. run[0] = {c}
  <2>1. 1..0 = {} /\ {} \in SUBSET (1..N)
    OBVIOUS
  <2>2. run[0] = f[1..0]
    BY <1>1
  <2> HIDE DEF run, N
  <2> QED
    BY <1>5, <2>1, <2>2
<1>7. ASSUME NEW k \in 1..N PROVE run[k] = Wider(run[k - 1], S, adj)
  <2>1. /\ 1..k # {} /\ 1..k \in SUBSET (1..N)
        /\ Max(1..k) = k /\ (1..k) \ {Max(1..k)} = 1..(k - 1)
    BY <1>1, Prefix
  <2>2. run[k] = f[1..k] /\ run[k - 1] = f[1..(k - 1)]
    BY <1>1
  <2> HIDE DEF run, N
  <2> QED
    BY <1>5, <2>1, <2>2
<1>8. Reached(c, S, adj) = run[N]
  BY <1>1, <1>5
<1> HIDE DEF run, P
<1> QED
  BY <1>6, <1>7, <1>8

(* All that the Cases of found are linked to in S is in found.              *)
Whole(found, S, adj) == \A d \in found : adj[d] \cap S \subseteq found

(* A search begins with the Case, stays in S, and comes to an end: either a *)
(* step finds a Case more, or there are no more to be found.                *)
LEMMA ReachedWhole ==
    ASSUME NEW S, IsFiniteSet(S), NEW c \in S, NEW adj
    PROVE  c \in Reached(c, S, adj) /\ Reached(c, S, adj) \subseteq S /\ Whole(Reached(c, S, adj), S, adj)
<1>1. PICK N : N = Cardinality(S)
  OBVIOUS
<1>2. N \in Nat
  BY <1>1, FS_CardinalityType
<1>3. PICK run : /\ run[0] = {c}
                 /\ \A k \in 1..N : run[k] = Wider(run[k - 1], S, adj)
                 /\ Reached(c, S, adj) = run[N]
  BY <1>1, ReachedRun
<1> DEFINE Found(found, i) ==
              /\ c \in found /\ found \subseteq S
              /\ Whole(found, S, adj) \/ Cardinality(found) >= i + 1
           T == {k \in 0..N : Found(run[k], k)}
<1>4. 0 \in T
  <2>1. Cardinality({c}) = 1
    BY FS_Singleton
  <2> QED
    BY <1>2, <1>3, <2>1
<1>5. ASSUME NEW k \in 1..N, k - 1 \in T
      PROVE  k \in T
  <2>1. PICK found, more : found = run[k - 1] /\ more = run[k]
    OBVIOUS
  <2>2. more = Wider(found, S, adj)
    BY <1>3, <2>1
  <2>3. Found(found, k - 1)
    BY <1>5, <2>1
  <2>4. c \in more /\ more \subseteq S /\ found \subseteq more
    BY <2>2, <2>3 DEF Wider
  <2>5. CASE Whole(found, S, adj)
    <3>1. more = found
      BY <2>2, <2>5 DEF Wider, Whole
    <3>2. Found(more, k)
      BY <2>4, <2>5, <3>1
    <3> HIDE DEF Found
    <3> QED
      BY <1>2, <2>1, <3>2
  <2>6. CASE ~Whole(found, S, adj)
    <3>1. PICK d, e : d \in found /\ e \in adj[d] \cap S /\ e \notin found
      BY <2>6 DEF Whole
    <3>2. e \in more
      BY <2>2, <3>1 DEF Wider
    <3>3. IsFiniteSet(more) /\ IsFiniteSet(found) /\ Cardinality(found) \in Nat /\ Cardinality(more) \in Nat
      BY <2>3, <2>4, FS_Subset, FS_CardinalityType
    <3>4. Cardinality(found \cup {e}) = Cardinality(found) + 1 /\ found \cup {e} \subseteq more
      BY <2>4, <3>1, <3>2, <3>3, FS_AddElement
    <3>5. Cardinality(found \cup {e}) <= Cardinality(more)
      BY <3>3, <3>4, FS_Subset
    <3>6. Cardinality(found) >= k
      <4>1. Cardinality(found) >= (k - 1) + 1
        BY <2>3, <2>6
      <4> QED
        BY <1>2, <4>1
    <3>7. Cardinality(more) >= k + 1
      BY <1>2, <3>3, <3>4, <3>5, <3>6
    <3> QED
      BY <1>2, <2>1, <2>4, <3>7
  <2> QED
    BY <2>5, <2>6
<1>6. N \in T
  <2>1. \A k \in 0..N : k \in T
    <3> HIDE DEF T
    <3> QED
      BY <1>2, <1>4, <1>5, Steps
  <2> QED
    BY <1>2, <2>1
<1>7. PICK found : found = Reached(c, S, adj)
  OBVIOUS
<1>8. Found(found, N)
  BY <1>3, <1>6, <1>7
<1>9. CASE Cardinality(found) >= N + 1
  <2>1. Cardinality(found) <= N /\ Cardinality(found) \in Nat
    BY <1>1, <1>8, FS_Subset, FS_CardinalityType
  <2> QED
    BY <1>2, <1>9, <2>1
<1> QED
  BY <1>7, <1>8, <1>9

(* and it leaves no set that the links do not leave.                        *)
LEMMA ReachedStays ==
    ASSUME NEW S, IsFiniteSet(S), NEW c \in S, NEW adj, NEW some, c \in some, Whole(some, S, adj)
    PROVE  Reached(c, S, adj) \subseteq some
<1>1. PICK N : N = Cardinality(S)
  OBVIOUS
<1>2. N \in Nat
  BY <1>1, FS_CardinalityType
<1>3. PICK run : /\ run[0] = {c}
                 /\ \A k \in 1..N : run[k] = Wider(run[k - 1], S, adj)
                 /\ Reached(c, S, adj) = run[N]
  BY <1>1, ReachedRun
<1> DEFINE T == {k \in 0..N : run[k] \subseteq some}
<1>4. 0 \in T
  BY <1>2, <1>3
<1>5. ASSUME NEW k \in 1..N, k - 1 \in T
      PROVE  k \in T
  <2>1. run[k] = Wider(run[k - 1], S, adj) /\ run[k - 1] \subseteq some
    BY <1>3, <1>5
  <2>2. run[k] \subseteq some
    BY <2>1 DEF Wider, Whole
  <2> QED
    BY <1>2, <2>2
<1>6. \A k \in 0..N : k \in T
  <2> HIDE DEF T
  <2> QED
    BY <1>2, <1>4, <1>5, Steps
<1> QED
  BY <1>2, <1>3, <1>6

(* What a search reaches is connected: a part that no link leaves is all    *)
(* of it, or the part around the Case where it began is.                    *)
LEMMA ReachedConnected ==
    ASSUME NEW all, NEW edges, NEW S, S \subseteq all, IsFiniteSet(S), NEW c \in S
    PROVE  IsComponent(Reached(c, S, Adjacency(all, edges)), S, edges)
<1>1. PICK adj : adj = Adjacency(all, edges)
  OBVIOUS
<1>2. \A x, y \in S : y \in adj[x] \cap S <=> y # x /\ {x, y} \in edges
  BY <1>1 DEF Adjacency
<1>3. PICK R : R = Reached(c, S, adj)
  OBVIOUS
<1>4. c \in R /\ R \subseteq S /\ Whole(R, S, adj)
  BY <1>3, ReachedWhole
<1>5. Closed(R, S, edges)
  BY <1>2, <1>4 DEF Closed, Whole
<1>6. ASSUME NEW some \in SUBSET R, c \in some, Closed(some, R, edges)
      PROVE  some = R
  <2>1. Whole(some, S, adj)
    <3>1. ASSUME NEW x \in some, NEW y \in adj[x] \cap S PROVE y \in some
      <4>1. y \in R
        BY <1>4, <3>1 DEF Whole
      <4>2. {x, y} \in edges
        BY <1>2, <1>4, <3>1
      <4> QED
        BY <1>6, <4>1, <4>2 DEF Closed
    <3> QED
      BY <3>1 DEF Whole
  <2>2. R \subseteq some
    BY <1>3, <1>6, <2>1, ReachedStays
  <2> QED
    BY <2>2
<1>7. ASSUME NEW part \in (SUBSET R) \ {{}, R}
      PROVE  ~Closed(part, R, edges)
  <2> SUFFICES ASSUME Closed(part, R, edges) PROVE FALSE
    OBVIOUS
  <2>1. CASE c \in part
    BY <1>6, <1>7, <2>1
  <2>2. CASE c \notin part
    <3>1. Closed(R \ part, R, edges)
      <4>1. ASSUME NEW x \in R \ part, NEW y \in R \ (R \ part), {x, y} \in edges PROVE FALSE
        <5>1. y \in part /\ x \in R \ part /\ {y, x} = {x, y}
          BY <1>7, <4>1
        <5> QED
          BY <4>1, <5>1 DEF Closed
      <4> QED
        BY <4>1 DEF Closed
    <3>2. R \ part = R
      BY <1>4, <1>6, <2>2, <3>1
    <3> QED
      BY <1>7, <3>2
  <2> QED
    BY <2>1, <2>2
<1> QED
  BY <1>1, <1>3, <1>4, <1>5, <1>7 DEF IsComponent

(* What is searched from each of some Cases are the components among them.  *)
LEMMA ComponentsFound ==
    ASSUME NEW all, NEW edges, NEW S, S \subseteq all, IsFiniteSet(S)
    PROVE  AreComponents(ConnectedComponents(S, Adjacency(all, edges)), S, edges)
<1>1. PICK adj : adj = Adjacency(all, edges)
  OBVIOUS
<1>2. PICK parts : parts = ConnectedComponents(S, adj)
  OBVIOUS
<1>3. parts = {Reached(c, S, adj) : c \in S}
  BY <1>2 DEF ConnectedComponents
<1>4. \A c \in S : c \in Reached(c, S, adj) /\ Reached(c, S, adj) \subseteq S
  BY ReachedWhole
<1>5. UNION parts = S
  BY <1>3, <1>4
<1>6. \A c \in S : IsComponent(Reached(c, S, adj), S, edges)
  BY <1>1, ReachedConnected
<1> QED
  BY <1>1, <1>2, <1>3, <1>5, <1>6 DEF AreComponents

--------------------------------------------------------------------------------
(* Hierarchies: peeling *)

(* Cases with links both ways.                                              *)
Linked(S, adj) ==
    /\ IsFiniteSet(S) /\ S \subseteq Nat
    /\ \A x, y \in S : y \in adj[x] <=> x \in adj[y]
    /\ \A x \in S : x \notin adj[x]

(* A group of S in which every Case is linked to k others.                  *)
Knit(group, k, S, adj) ==
    /\ group \subseteq S
    /\ \A d \in group : Cardinality(adj[d] \cap group) >= k

(* The most that a group with the Case in it can be knit.                   *)
CoreOf(v, c, S, adj) ==
    /\ \E group : Knit(group, v, S, adj) /\ c \in group
    /\ \A k \in Nat : \A group : Knit(group, k, S, adj) /\ c \in group => k <= v

(* What is left was in a group knit as much as the last Case that was taken *)
(* was worth, and each of it has its links to others that are left, or that *)
(* worth if they are fewer.                                                 *)
Peeling(state, S, adj, j, worth, group) ==
    LET left == S \ DOMAIN state.cores IN
    /\ DOMAIN state.cores \subseteq S /\ Cardinality(DOMAIN state.cores) = j
    /\ \A c \in DOMAIN state.cores : /\ state.cores[c] \in Nat /\ state.cores[c] <= worth
                                     /\ CoreOf(state.cores[c], c, S, adj)
    /\ state.degrees \in [S -> Nat]
    /\ \A c \in left : state.degrees[c] = IF Cardinality(adj[c] \cap left) > worth
                                          THEN Cardinality(adj[c] \cap left) ELSE worth
    /\ Knit(group, worth, S, adj) /\ left \subseteq group
Peeled(state, S, adj, j) == \E worth \in Nat : \E group : Peeling(state, S, adj, j, worth, group)

(* The Case that is taken and what it is worth.                             *)
Taken(state, next, least) ==
    LET left == DOMAIN state.degrees \ DOMAIN state.cores IN
    /\ next \in left /\ least = state.degrees[next]
    /\ \A c \in left : least <= state.degrees[c]
(* and what is left without it.                                             *)
Without(state, next, least, adj) ==
    [cores |-> [c \in DOMAIN state.cores \cup {next} |-> IF c = next THEN least ELSE state.cores[c]],
     degrees |-> [c \in DOMAIN state.degrees |->
                    IF c \in (adj[next] \cap (DOMAIN state.degrees \ DOMAIN state.cores))
                       /\ state.degrees[c] > least
                    THEN state.degrees[c] - 1 ELSE state.degrees[c]]]

(* Peeling takes one of those that are left with the fewest links.          *)
LEMMA PeelTakes ==
    ASSUME NEW S, S \subseteq Nat, NEW state, NEW adj, state.degrees \in [S -> Nat],
           S \ DOMAIN state.cores # {}
    PROVE  \E next, least : /\ Taken(state, next, least)
                            /\ Peel(state, adj) = Without(state, next, least, adj)
<1>1. PICK left : left = DOMAIN state.degrees \ DOMAIN state.cores
  OBVIOUS
<1>2. left \subseteq Nat /\ left # {} /\ \A c \in left : state.degrees[c] \in Nat
  BY <1>1
<1>3. PICK degrees : degrees = {state.degrees[c] : c \in left}
  OBVIOUS
<1>4. PICK least : least = Min(degrees)
  OBVIOUS
<1>5. least \in degrees /\ \A y \in degrees : least <= y
  <2>1. degrees \subseteq Nat /\ degrees # {}
    BY <1>2, <1>3
  <2> QED
    BY <1>4, <2>1, Smallest
<1>6. PICK lowest : lowest = {c \in left : state.degrees[c] = least}
  OBVIOUS
<1>7. PICK next : next = Min(lowest)
  OBVIOUS
<1>8. next \in lowest
  <2>1. lowest \subseteq Nat /\ lowest # {}
    BY <1>2, <1>3, <1>5, <1>6
  <2> QED
    BY <1>7, <2>1, Smallest
<1>9. Taken(state, next, least)
  BY <1>1, <1>3, <1>5, <1>6, <1>8 DEF Taken
<1>10. Peel(state, adj) = Without(state, next, least, adj)
  BY <1>1, <1>3, <1>4, <1>6, <1>7, Zenon DEF Peel, Without
<1> QED
  BY <1>9, <1>10

(* Taking the Case with the fewest links keeps all of that.                 *)
LEMMA PeelKeeps ==
    ASSUME NEW S, NEW adj, Linked(S, adj), NEW state, NEW j \in Nat, j < Cardinality(S),
           Peeled(state, S, adj, j)
    PROVE  Peeled(Peel(state, adj), S, adj, j + 1)
<1>1. PICK worth \in Nat : \E some : Peeling(state, S, adj, j, worth, some)
  BY DEF Peeled
<1>2. PICK group : Peeling(state, S, adj, j, worth, group)
  BY <1>1
<1>3. PICK gone, left : gone = DOMAIN state.cores /\ left = S \ gone
  OBVIOUS
<1>4. /\ gone \subseteq S /\ Cardinality(gone) = j
      /\ \A c \in gone : /\ state.cores[c] \in Nat /\ state.cores[c] <= worth
                         /\ CoreOf(state.cores[c], c, S, adj)
      /\ state.degrees \in [S -> Nat]
      /\ \A c \in left : state.degrees[c] = IF Cardinality(adj[c] \cap left) > worth
                                            THEN Cardinality(adj[c] \cap left) ELSE worth
      /\ Knit(group, worth, S, adj) /\ left \subseteq group
  BY <1>2, <1>3 DEF Peeling
<1>5. /\ IsFiniteSet(S) /\ IsFiniteSet(gone) /\ S \subseteq Nat
      /\ \A x, y \in S : y \in adj[x] <=> x \in adj[y]
      /\ \A x \in S : x \notin adj[x]
  BY <1>4, FS_Subset DEF Linked
<1>6. \A c \in S, some \in SUBSET S : /\ IsFiniteSet(adj[c] \cap some)
                                      /\ Cardinality(adj[c] \cap some) \in Nat
  <2>1. ASSUME NEW c \in S, NEW some \in SUBSET S
        PROVE  IsFiniteSet(adj[c] \cap some) /\ Cardinality(adj[c] \cap some) \in Nat
    <3>1. adj[c] \cap some \subseteq S
      OBVIOUS
    <3> QED
      BY <1>5, <3>1, FS_Subset, FS_CardinalityType
  <2> QED
    BY <2>1
<1>7. PICK next, least : Taken(state, next, least) /\ Peel(state, adj) = Without(state, next, least, adj)
  <2>1. S \ gone # {}
    <3> SUFFICES ASSUME S = gone PROVE FALSE
      BY <1>4
    <3> QED
      BY <1>4
  <2> QED
    BY <1>3, <1>4, <1>5, <2>1, PeelTakes
<1>8. /\ next \in left /\ least = state.degrees[next] /\ least \in Nat
      /\ \A c \in left : least <= state.degrees[c] /\ state.degrees[c] \in Nat
  <2>1. left = DOMAIN state.degrees \ DOMAIN state.cores /\ left \subseteq S
    BY <1>3, <1>4
  <2> QED
    BY <1>4, <1>7, <2>1 DEF Taken
<1>9. worth <= least /\ Cardinality(adj[next] \cap left) <= least
  <2>1. least = IF Cardinality(adj[next] \cap left) > worth THEN Cardinality(adj[next] \cap left) ELSE worth
    BY <1>4, <1>8
  <2>2. Cardinality(adj[next] \cap left) \in Nat
    BY <1>3, <1>6, <1>8
  <2> QED
    BY <2>1, <2>2
<1>10. PICK wider : Knit(wider, least, S, adj) /\ left \subseteq wider
  <2>1. CASE least = worth
    BY <1>4, <2>1
  <2>2. CASE least # worth
    <3>1. ASSUME NEW d \in left PROVE Cardinality(adj[d] \cap left) >= least
      <4>1. Cardinality(adj[d] \cap left) \in Nat
        BY <1>3, <1>6, <3>1
      <4>2. least <= state.degrees[d]
        BY <1>8, <3>1
      <4>3. state.degrees[d] = IF Cardinality(adj[d] \cap left) > worth
                               THEN Cardinality(adj[d] \cap left) ELSE worth
        BY <1>4, <3>1
      <4> QED
        BY <1>8, <1>9, <2>2, <4>1, <4>2, <4>3
    <3>2. Knit(left, least, S, adj)
      BY <1>3, <3>1 DEF Knit
    <3> QED
      BY <3>2
  <2> QED
    BY <2>1, <2>2
<1>11. CoreOf(least, next, S, adj)
  <2>1. next \in wider
    BY <1>8, <1>10
  <2>2. ASSUME NEW k \in Nat, NEW some, Knit(some, k, S, adj), next \in some
        PROVE  k <= least
    <3> SUFFICES ASSUME ~(k <= least) PROVE FALSE
      OBVIOUS
    <3>1. some \subseteq left
      <4> SUFFICES ASSUME NEW a \in some, a \notin left PROVE FALSE
        OBVIOUS
      <4>1. a \in gone
        BY <1>3, <2>2 DEF Knit
      <4>2. k <= state.cores[a]
        BY <1>4, <2>2, <4>1 DEF CoreOf
      <4>3. state.cores[a] \in Nat /\ state.cores[a] <= worth
        BY <1>4, <4>1
      <4> QED
        BY <1>8, <1>9, <4>2, <4>3
    <3>2. some \in SUBSET S /\ left \in SUBSET S /\ next \in S
      BY <1>3, <1>8, <3>1
    <3>3. Cardinality(adj[next] \cap some) >= k
      BY <2>2 DEF Knit
    <3>4. Cardinality(adj[next] \cap some) <= Cardinality(adj[next] \cap left)
      <4>1. adj[next] \cap some \subseteq adj[next] \cap left
        BY <3>1
      <4> QED
        BY <1>6, <3>2, <4>1, FS_Subset
    <3>5. Cardinality(adj[next] \cap left) <= least
      BY <1>9
    <3> QED
      BY <1>6, <1>8, <3>2, <3>3, <3>4, <3>5
  <2> QED
    BY <1>10, <2>1, <2>2 DEF CoreOf
<1>12. PICK v : v = Peel(state, adj)
  OBVIOUS
<1>13. /\ DOMAIN v.cores = gone \cup {next} /\ v.cores[next] = least
       /\ \A c \in gone : v.cores[c] = state.cores[c]
       /\ v.degrees = [c \in S |-> IF c \in (adj[next] \cap left) /\ state.degrees[c] > least
                                   THEN state.degrees[c] - 1 ELSE state.degrees[c]]
  <2>1. v.cores = [c \in gone \cup {next} |-> IF c = next THEN least ELSE state.cores[c]]
    BY <1>3, <1>7, <1>12 DEF Without
  <2>2. v.degrees = [c \in S |-> IF c \in (adj[next] \cap left) /\ state.degrees[c] > least
                                 THEN state.degrees[c] - 1 ELSE state.degrees[c]]
    BY <1>3, <1>4, <1>7, <1>12 DEF Without
  <2>3. next \notin gone
    BY <1>3, <1>8
  <2> QED
    BY <2>1, <2>2, <2>3
<1>14. /\ gone \cup {next} \subseteq S /\ Cardinality(gone \cup {next}) = j + 1
       /\ S \ (gone \cup {next}) = left \ {next}
  BY <1>3, <1>4, <1>5, <1>8, FS_AddElement
<1>15. v.degrees \in [S -> Nat]
  <2>1. \A c \in S : state.degrees[c] \in Nat
    BY <1>4
  <2>2. \A c \in S : state.degrees[c] > least => state.degrees[c] - 1 \in Nat
    BY <1>8, <2>1
  <2> QED
    BY <1>13, <2>1, <2>2
<1>16. ASSUME NEW c \in left \ {next}
       PROVE  v.degrees[c] = IF Cardinality(adj[c] \cap (left \ {next})) > least
                             THEN Cardinality(adj[c] \cap (left \ {next})) ELSE least
  <2>1. PICK n, d : n = Cardinality(adj[c] \cap left) /\ d = state.degrees[c]
    OBVIOUS
  <2>2. n \in Nat /\ d \in Nat /\ least <= d /\ d = IF n > worth THEN n ELSE worth
    BY <1>3, <1>4, <1>6, <1>8, <2>1
  <2>3. PICK m : m = Cardinality(adj[c] \cap (left \ {next}))
    OBVIOUS
  <2>4. CASE c \in adj[next]
    <3>1. next \in adj[c] \cap left
      BY <1>3, <1>5, <1>8, <2>4
    <3>2. adj[c] \cap (left \ {next}) = (adj[c] \cap left) \ {next}
      OBVIOUS
    <3>3. m = n - 1
      <4>1. IsFiniteSet(adj[c] \cap left)
        BY <1>3, <1>6
      <4> QED
        BY <2>1, <2>3, <3>1, <3>2, <4>1, FS_RemoveElement
    <3>4. v.degrees[c] = IF d > least THEN d - 1 ELSE d
      BY <1>3, <1>13, <2>1, <2>4
    <3> QED
      BY <1>8, <1>9, <2>2, <2>3, <3>3, <3>4
  <2>5. CASE c \notin adj[next]
    <3>1. next \notin adj[c]
      BY <1>3, <1>5, <1>8, <2>5
    <3>2. adj[c] \cap (left \ {next}) = adj[c] \cap left
      BY <3>1
    <3>3. v.degrees[c] = d
      BY <1>3, <1>13, <2>1, <2>5
    <3> QED
      BY <1>8, <1>9, <2>1, <2>2, <3>2, <3>3
  <2> QED
    BY <2>4, <2>5
<1>17. ASSUME NEW c \in gone \cup {next}
       PROVE  v.cores[c] \in Nat /\ v.cores[c] <= least /\ CoreOf(v.cores[c], c, S, adj)
  <2>1. CASE c = next
    BY <1>8, <1>11, <1>13, <2>1
  <2>2. CASE c \in gone
    BY <1>4, <1>8, <1>9, <1>13, <2>2
  <2> QED
    BY <2>1, <2>2
<1>18. Peeling(v, S, adj, j + 1, least, wider)
  BY <1>10, <1>13, <1>14, <1>15, <1>16, <1>17 DEF Peeling
<1> QED
  BY <1>8, <1>12, <1>18 DEF Peeled

(* Before any Case is taken.                                                *)
Unpeeled(S, adj) == [cores |-> <<>>, degrees |-> [c \in S |-> Cardinality(adj[c] \cap S)]]

(* All that peeling may arrive at, even of nothing.                         *)
Values == Nat \cup {Min({})}
Peelings(S) == [cores : UNION {[D -> Values] : D \in SUBSET (S \cup {Min({})})}, degrees : [S -> Nat]]

(* One step of peeling stays among what peeling may arrive at.              *)
LEMMA PeelTyped ==
    ASSUME NEW S, S \subseteq Nat, NEW adj, NEW state \in Peelings(S)
    PROVE  Peel(state, adj) \in Peelings(S)
<1>1. PICK Names : Names = S \cup {Min({})}
  OBVIOUS
<1>2. PICK D \in SUBSET Names : state.cores \in [D -> Values]
  BY <1>1 DEF Peelings
<1>3. state.degrees \in [S -> Nat] /\ DOMAIN state.cores = D
  BY <1>2 DEF Peelings
<1>4. \E next \in Names, least \in Values :
         /\ Peel(state, adj) = Without(state, next, least, adj)
         /\ S \ D # {} => least \in Nat
  <2>1. CASE S \ D # {}
    <3>1. PICK next, least : /\ Taken(state, next, least)
                             /\ Peel(state, adj) = Without(state, next, least, adj)
      BY <1>3, <2>1, PeelTakes
    <3>2. next \in S /\ least \in Nat
      BY <1>3, <3>1 DEF Taken
    <3> QED
      BY <1>1, <3>1, <3>2 DEF Values
  <2>2. CASE S \ D = {}
    <3>1. PICK left : left = DOMAIN state.degrees \ DOMAIN state.cores
      OBVIOUS
    <3>2. left = {}
      BY <1>3, <2>2, <3>1
    <3>3. PICK none : none = Min({})
      OBVIOUS
    <3>4. {state.degrees[c] : c \in left} = {}
      BY <3>2
    <3>5. \A x : {c \in left : state.degrees[c] = x} = {}
      BY <3>2
    <3>6. Peel(state, adj) = Without(state, none, none, adj)
      BY <3>1, <3>3, <3>4, <3>5, Zenon DEF Peel, Without
    <3> QED
      BY <1>1, <2>2, <3>3, <3>6 DEF Values
  <2> QED
    BY <2>1, <2>2
<1>5. PICK next \in Names, least \in Values :
         /\ Peel(state, adj) = Without(state, next, least, adj)
         /\ S \ D # {} => least \in Nat
  BY <1>4
<1>6. PICK cores, degrees :
         /\ cores = [c \in D \cup {next} |-> IF c = next THEN least ELSE state.cores[c]]
         /\ degrees = [c \in S |-> IF c \in (adj[next] \cap (S \ D)) /\ state.degrees[c] > least
                                   THEN state.degrees[c] - 1 ELSE state.degrees[c]]
  OBVIOUS
<1>7. Peel(state, adj) = [cores |-> cores, degrees |-> degrees]
  BY <1>3, <1>5, <1>6 DEF Without
<1>8. cores \in [D \cup {next} -> Values] /\ D \cup {next} \in SUBSET Names
  BY <1>2, <1>6
<1>9. degrees \in [S -> Nat]
  <2>1. ASSUME NEW c \in S
        PROVE  (IF c \in (adj[next] \cap (S \ D)) /\ state.degrees[c] > least
                THEN state.degrees[c] - 1 ELSE state.degrees[c]) \in Nat
    <3>1. state.degrees[c] \in Nat
      BY <1>3
    <3>2. CASE c \in S \ D
      <4>1. least \in Nat
        BY <1>5, <3>2
      <4> QED
        BY <3>1, <4>1
    <3>3. CASE c \notin S \ D
      BY <3>1, <3>3
    <3> QED
      BY <3>2, <3>3
  <2> QED
    BY <1>6, <2>1
<1> QED
  BY <1>1, <1>7, <1>8, <1>9 DEF Peelings

(* So does the beginning.                                                   *)
LEMMA UnpeeledTyped ==
    ASSUME NEW S, IsFiniteSet(S), NEW adj
    PROVE  Unpeeled(S, adj) \in Peelings(S) /\ DOMAIN Unpeeled(S, adj).cores = {}
<1>1. <<>> \in UNION {[D -> Values] : D \in SUBSET (S \cup {Min({})})} /\ DOMAIN <<>> = {}
  <2>1. <<>> = [x \in {} |-> x]
    OBVIOUS
  <2>2. [x \in {} |-> x] \in [{} -> Values]
    OBVIOUS
  <2> QED
    BY <2>1, <2>2
<1>2. [c \in S |-> Cardinality(adj[c] \cap S)] \in [S -> Nat]
  <2>1. \A c \in S : Cardinality(adj[c] \cap S) \in Nat
    <3>1. \A c \in S : adj[c] \cap S \subseteq S
      OBVIOUS
    <3> QED
      BY <3>1, FS_Subset, FS_CardinalityType
  <2> QED
    BY <2>1
<1> QED
  BY <1>1, <1>2 DEF Unpeeled, Peelings

(* Peeling is as many steps as there are Cases.                             *)
LEMMA PeelRun ==
    ASSUME NEW S, IsFiniteSet(S), S \subseteq Nat, NEW adj
    PROVE  \E run : /\ run[0] = Unpeeled(S, adj)
                    /\ \A k \in 1..Cardinality(S) : run[k] = Peel(run[k - 1], adj)
                    /\ CoreNumbers(S, adj) = run[Cardinality(S)].cores
<1> DEFINE N == Cardinality(S)
           A == Peelings(S)
           start == Unpeeled(S, adj)
           list == [i \in 1..N |-> i]
           step == [k \in 1..N |-> [state \in A |-> Peel(state, adj)]]
           P(f) == f = [s \in SUBSET (1..N) |-> IF s = {} THEN start ELSE Peel(f[s \ {Max(s)}], adj)]
<1>1. N \in Nat /\ DOMAIN list = 1..N
  BY FS_CardinalityType
<1>2. step \in [1..N -> [A -> A]]
  <2>1. \A state \in A : Peel(state, adj) \in A
    BY PeelTyped
  <2> HIDE DEF A, N
  <2> QED
    BY <2>1
<1>3. PICK g : Folds(g, A, start, N, step)
  <2>1. start \in A
    BY UnpeeledTyped
  <2> HIDE DEF step, N, A, start
  <2> QED
    BY <1>1, <1>2, <2>1, Recursion
<1>4. P(g)
  <2>1. ASSUME NEW s \in SUBSET (1..N), s # {}
        PROVE  g[s] = Peel(g[s \ {Max(s)}], adj)
    <3>1. Max(s) \in 1..N
      BY <1>1, <2>1, Largest
    <3>2. g[s \ {Max(s)}] \in A
      <4>1. s \ {Max(s)} \in SUBSET (1..N)
        BY <2>1
      <4> HIDE DEF step, A, N, start
      <4> QED
        BY <1>3, <4>1 DEF Folds
    <3>3. g[s] = step[Max(s)][g[s \ {Max(s)}]]
      <4> HIDE DEF step, A, N, start
      <4> QED
        BY <1>3, <2>1 DEF Folds
    <3> HIDE DEF A, N
    <3> QED
      BY <3>1, <3>2, <3>3
  <2> HIDE DEF step, A, N, start
  <2> QED
    BY <1>3, <2>1 DEF Folds
<1>5. PICK f : P(f) /\ CoreNumbers(S, adj) = f[1..N].cores
  <2>1. P(CHOOSE f : P(f))
    BY <1>4, Zenon
  <2> QED
    BY <1>1, <2>1, Zenon DEF CoreNumbers, FoldLeft, MapThenFoldSet, Unpeeled
<1> DEFINE run == [k \in 0..N |-> f[1..k]]
<1>6. run[0] = start
  <2>1. 1..0 = {} /\ {} \in SUBSET (1..N)
    OBVIOUS
  <2>2. run[0] = f[1..0]
    BY <1>1
  <2> HIDE DEF run, N, start
  <2> QED
    BY <1>5, <2>1, <2>2
<1>7. ASSUME NEW k \in 1..N PROVE run[k] = Peel(run[k - 1], adj)
  <2>1. /\ 1..k # {} /\ 1..k \in SUBSET (1..N)
        /\ Max(1..k) = k /\ (1..k) \ {Max(1..k)} = 1..(k - 1)
    BY <1>1, Prefix
  <2>2. run[k] = f[1..k] /\ run[k - 1] = f[1..(k - 1)]
    BY <1>1
  <2> HIDE DEF run, N, start
  <2> QED
    BY <1>5, <2>1, <2>2
<1>8. CoreNumbers(S, adj) = run[N].cores
  BY <1>1, <1>5
<1> HIDE DEF run, P
<1> QED
  BY <1>6, <1>7, <1>8

(* Once everything is taken, each Case has its core number.                 *)
LEMMA CoresPeeled ==
    ASSUME NEW S, NEW adj, Linked(S, adj)
    PROVE  /\ DOMAIN CoreNumbers(S, adj) = S
           /\ \A c \in S : CoreNumbers(S, adj)[c] \in Nat /\ CoreOf(CoreNumbers(S, adj)[c], c, S, adj)
<1>1. IsFiniteSet(S) /\ S \subseteq Nat
  BY DEF Linked
<1>2. PICK N : N = Cardinality(S)
  OBVIOUS
<1>3. N \in Nat
  BY <1>1, <1>2, FS_CardinalityType
<1>4. PICK run : /\ run[0] = Unpeeled(S, adj)
                 /\ \A k \in 1..N : run[k] = Peel(run[k - 1], adj)
                 /\ CoreNumbers(S, adj) = run[N].cores
  BY <1>1, <1>2, PeelRun
<1> DEFINE T == {k \in 0..N : Peeled(run[k], S, adj, k)}
<1>5. 0 \in T
  <2>1. PICK v : v = run[0]
    OBVIOUS
  <2>2. DOMAIN v.cores = {} /\ v.degrees = [c \in S |-> Cardinality(adj[c] \cap S)] /\ v \in Peelings(S)
    <3>1. v = Unpeeled(S, adj)
      BY <1>4, <2>1
    <3>2. DOMAIN v.cores = {} /\ v \in Peelings(S)
      BY <1>1, <3>1, UnpeeledTyped
    <3>3. v.degrees = [c \in S |-> Cardinality(adj[c] \cap S)]
      BY <3>1 DEF Unpeeled
    <3> QED
      BY <3>2, <3>3
  <2>3. S \ DOMAIN v.cores = S /\ Cardinality(DOMAIN v.cores) = 0
    BY <2>2, FS_EmptySet
  <2>4. v.degrees \in [S -> Nat]
    BY <2>2 DEF Peelings
  <2>5. \A c \in S : Cardinality(adj[c] \cap S) \in Nat /\ v.degrees[c] = Cardinality(adj[c] \cap S)
    BY <2>2, <2>4
  <2>6. Knit(S, 0, S, adj)
    BY <2>5 DEF Knit
  <2>7. Peeling(v, S, adj, 0, 0, S)
    BY <2>2, <2>3, <2>4, <2>5, <2>6 DEF Peeling
  <2>8. Peeled(v, S, adj, 0)
    BY <2>7 DEF Peeled
  <2> QED
    BY <1>3, <2>1, <2>8
<1>6. ASSUME NEW k \in 1..N, k - 1 \in T
      PROVE  k \in T
  <2>1. Peeled(run[k - 1], S, adj, k - 1) /\ k - 1 \in Nat /\ k - 1 < Cardinality(S)
    BY <1>2, <1>3, <1>6
  <2>2. Peeled(Peel(run[k - 1], adj), S, adj, (k - 1) + 1)
    BY <2>1, PeelKeeps
  <2>3. Peeled(run[k], S, adj, k)
    BY <1>3, <1>4, <2>2
  <2> QED
    BY <1>3, <2>3
<1>7. Peeled(run[N], S, adj, N)
  <2>1. \A k \in 0..N : k \in T
    <3> HIDE DEF T
    <3> QED
      BY <1>3, <1>5, <1>6, Steps
  <2> QED
    BY <1>3, <2>1
<1>8. PICK v : v = run[N]
  OBVIOUS
<1>9. /\ DOMAIN v.cores \subseteq S /\ Cardinality(DOMAIN v.cores) = N
      /\ \A c \in DOMAIN v.cores : v.cores[c] \in Nat /\ CoreOf(v.cores[c], c, S, adj)
  BY <1>7, <1>8 DEF Peeled, Peeling
<1>10. DOMAIN v.cores = S
  BY <1>1, <1>2, <1>9, FS_Subset
<1> QED
  BY <1>4, <1>8, <1>9, <1>10

(* The largest of a set of numbers is the one that no other exceeds.        *)
LEMMA MaxIs ==
    ASSUME NEW s, s \subseteq Nat, NEW v \in s, \A y \in s : y <= v
    PROVE  Max(s) = v
<1>1. \A y \in s : v >= y
  OBVIOUS
<1>2. Max(s) \in s /\ \A y \in s : Max(s) >= y
  BY <1>1, Zenon DEF Max
<1>3. PICK m : m = Max(s)
  OBVIOUS
<1>4. m \in Nat /\ v \in Nat /\ m >= v /\ m <= v
  BY <1>2, <1>3
<1> QED
  BY <1>3, <1>4

(* The most that a group of one component can be knit is the most that any  *)
(* group can: the part of a group that is in the component is as well knit. *)
LEMMA CoreNumberOf ==
    ASSUME NEW all, IsFiniteSet(all), NEW edges, NEW some \in SUBSET all, Closed(some, all, edges),
           NEW c \in some, NEW v \in Nat, CoreOf(v, c, some, Adjacency(all, edges))
    PROVE  CoreNumber(c, all, edges) = v
<1>1. PICK adj : adj = Adjacency(all, edges)
  OBVIOUS
<1>2. \A d \in all : adj[d] = {e \in all \ {d} : {d, e} \in edges}
  BY <1>1 DEF Adjacency
<1>3. ASSUME NEW group \in SUBSET all, NEW d \in group
      PROVE  {e \in group : {d, e} \in edges \ {{d}}} = adj[d] \cap group
  <2>1. \A e : {d, e} = {d} <=> e = d
    OBVIOUS
  <2>2. adj[d] = {e \in all \ {d} : {d, e} \in edges}
    BY <1>2
  <2> QED
    BY <2>1, <2>2
<1>4. PICK K : K = {k \in 0..Cardinality(all) : \E group \in SUBSET all :
                      /\ c \in group
                      /\ \A d \in group : Cardinality({e \in group : {d, e} \in edges \ {{d}}}) >= k}
  OBVIOUS
<1>5. v \in K
  <2>1. PICK group : Knit(group, v, some, adj) /\ c \in group
    BY <1>1 DEF CoreOf
  <2>2. group \in SUBSET all /\ \A d \in group : Cardinality(adj[d] \cap group) >= v
    BY <2>1 DEF Knit
  <2>3. \A d \in group : Cardinality({e \in group : {d, e} \in edges \ {{d}}}) >= v
    BY <1>3, <2>2
  <2>4. v \in 0..Cardinality(all)
    <3>1. adj[c] \cap group \subseteq all
      BY <2>2
    <3>2. /\ Cardinality(adj[c] \cap group) <= Cardinality(all)
          /\ Cardinality(adj[c] \cap group) \in Nat /\ Cardinality(all) \in Nat
      BY <3>1, FS_Subset, FS_CardinalityType
    <3> QED
      BY <2>1, <2>2, <3>2
  <2> QED
    BY <1>4, <2>1, <2>2, <2>3, <2>4
<1>6. ASSUME NEW k \in K
      PROVE  k <= v
  <2>1. PICK group \in SUBSET all :
           /\ c \in group
           /\ \A d \in group : Cardinality({e \in group : {d, e} \in edges \ {{d}}}) >= k
    BY <1>4
  <2>2. PICK part : part = group \cap some
    OBVIOUS
  <2>3. ASSUME NEW d \in part PROVE Cardinality(adj[d] \cap part) >= k
    <3>1. d \in group /\ d \in some
      BY <2>2
    <3>2. adj[d] \cap group \subseteq some
      <4>1. adj[d] = {e \in all \ {d} : {d, e} \in edges}
        BY <1>2, <3>1
      <4> QED
        BY <3>1, <4>1 DEF Closed
    <3>3. adj[d] \cap part = adj[d] \cap group
      BY <2>2, <3>2
    <3>4. {e \in group : {d, e} \in edges \ {{d}}} = adj[d] \cap group
      BY <1>3, <3>1
    <3> QED
      BY <2>1, <3>1, <3>3, <3>4
  <2>4. Knit(part, k, some, adj) /\ c \in part
    BY <2>1, <2>2, <2>3 DEF Knit
  <2>5. k \in Nat
    <3>1. Cardinality(all) \in Nat
      BY FS_CardinalityType
    <3> QED
      BY <1>4, <3>1
  <2> QED
    BY <1>1, <2>4, <2>5 DEF CoreOf
<1>7. K \subseteq Nat
  <2>1. Cardinality(all) \in Nat
    BY FS_CardinalityType
  <2> QED
    BY <1>4, <2>1
<1>8. Max(K) = v
  BY <1>5, <1>6, <1>7, MaxIs
<1> QED
  BY <1>4, <1>8, Zenon DEF CoreNumber

(* What HierarchyIsCurrent asks of the branch of a domain.                  *)
RightCommunities(parts, all, edges, rs) ==
    LET core == [c \in all |-> CoreNumber(c, all, edges)] IN
    /\ AreComponents({m.cases : m \in parts}, all, edges)
    /\ \A m \in parts :
          /\ m.level = Max({core[c] : c \in m.cases})
          /\ m.keys = UNION {rs[c].keys : c \in m.cases}
          /\ m.conclusions = {c \in m.cases : rs[c].status = "verified"}
(* and of its shells.                                                       *)
RightShells(shells, all, edges) ==
    LET core == [c \in all |-> CoreNumber(c, all, edges)] IN
    /\ DOMAIN shells = Range(core) \cup {0}
    /\ \A k \in DOMAIN shells :
          AreComponents(shells[k], {c \in all : core[c] >= k}, edges)

(* Links that lead out of a domain make no difference within it.            *)
LEMMA SameAdjacency ==
    ASSUME NEW all, NEW es, NEW edges, edges = {e \in es : e \subseteq all}
    PROVE  Adjacency(all, es) = Adjacency(all, edges)
<1>1. \A c \in all : {d \in all \ {c} : {c, d} \in es} = {d \in all \ {c} : {c, d} \in edges}
  OBVIOUS
<1> QED
  BY <1>1, Zenon DEF Adjacency

(* Links lead both ways, and none from a Case to itself.                    *)
LEMMA AllLinked ==
    ASSUME NEW all, IsFiniteSet(all), all \subseteq Nat, NEW edges, NEW S \in SUBSET all
    PROVE  Linked(S, Adjacency(all, edges))
<1>1. IsFiniteSet(S) /\ S \subseteq Nat
  BY FS_Subset
<1>2. \A x, y : {x, y} = {y, x}
  OBVIOUS
<1>3. PICK adj : adj = Adjacency(all, edges)
  OBVIOUS
<1>4. \A x, y \in S : y \in adj[x] <=> y # x /\ {x, y} \in edges
  BY <1>3 DEF Adjacency
<1> QED
  BY <1>1, <1>2, <1>3, <1>4 DEF Linked

(* Each Case of S and its core number.                                      *)
HasCores(cores, S, all, edges) ==
    DOMAIN cores = S /\ \A c \in S : cores[c] = CoreNumber(c, all, edges) /\ cores[c] \in Nat

(* The components of a domain, each peeled on its own, give every Case of   *)
(* it its core number.                                                      *)
LEMMA ComponentCores ==
    ASSUME NEW all, IsFiniteSet(all), all \subseteq Nat, NEW edges,
           NEW S, IsComponent(S, all, edges), S \subseteq all,
           NEW cores, cores = CoreNumbers(S, Adjacency(all, edges))
    PROVE  HasCores(cores, S, all, edges)
<1>1. PICK adj : adj = Adjacency(all, edges)
  OBVIOUS
<1>2. cores = CoreNumbers(S, adj)
  BY <1>1
<1>3. Linked(S, adj)
  BY <1>1, AllLinked
<1>4. DOMAIN cores = S /\ \A c \in S : cores[c] \in Nat /\ CoreOf(cores[c], c, S, adj)
  BY <1>2, <1>3, CoresPeeled
<1>5. Closed(S, all, edges)
  BY DEF IsComponent
<1>6. \A c \in S : CoreNumber(c, all, edges) = cores[c]
  <2>1. ASSUME NEW c \in S PROVE CoreNumber(c, all, edges) = cores[c]
    <3>1. PICK v : v = cores[c]
      OBVIOUS
    <3>2. v \in Nat /\ CoreOf(v, c, S, Adjacency(all, edges))
      BY <1>1, <1>4, <3>1
    <3>3. CoreNumber(c, all, edges) = v
      BY <1>5, <3>2, CoreNumberOf
    <3> QED
      BY <3>1, <3>3
  <2> QED
    BY <2>1
<1> QED
  BY <1>4, <1>6 DEF HasCores

(* The communities that are built are the right ones.                       *)
LEMMA CommunitiesRight ==
    ASSUME NEW all, IsFiniteSet(all), all \subseteq Nat, NEW edges, NEW rs,
           NEW components, components = ConnectedComponents(all, Adjacency(all, edges)),
           NEW parts, parts = {Community(s, rs, Adjacency(all, edges)) : s \in components}
    PROVE  RightCommunities(parts, all, edges, rs)
<1>1. PICK adj : adj = Adjacency(all, edges)
  OBVIOUS
<1> DEFINE core == [c \in all |-> CoreNumber(c, all, edges)]
<1>2. \A c \in all : core[c] = CoreNumber(c, all, edges)
  OBVIOUS
<1> HIDE DEF core
<1>3. AreComponents(components, all, edges)
  BY ComponentsFound
<1>4. \A s \in components : IsComponent(s, all, edges) /\ s \subseteq all
  BY <1>3 DEF AreComponents
<1>5. ASSUME NEW s \in components
      PROVE  /\ Community(s, rs, adj).level = Max({core[c] : c \in s})
             /\ Community(s, rs, adj).cases = s
             /\ Community(s, rs, adj).keys = UNION {rs[c].keys : c \in s}
             /\ Community(s, rs, adj).conclusions = {c \in s : rs[c].status = "verified"}
  <2>1. PICK cores : cores = CoreNumbers(s, adj)
    OBVIOUS
  <2>2. DOMAIN cores = s /\ \A c \in s : cores[c] = CoreNumber(c, all, edges)
    <3>1. IsComponent(s, all, edges) /\ s \subseteq all /\ cores = CoreNumbers(s, Adjacency(all, edges))
      BY <1>1, <1>4, <1>5, <2>1
    <3>2. HasCores(cores, s, all, edges)
      BY <3>1, ComponentCores
    <3> QED
      BY <3>2 DEF HasCores
  <2>3. Range(cores) = {core[c] : c \in s}
    BY <1>2, <1>4, <1>5, <2>2 DEF Range
  <2> QED
    BY <2>1, <2>3 DEF Community
<1>6. parts = {Community(s, rs, adj) : s \in components}
  BY <1>1
<1>7. {m.cases : m \in parts} = components
  <2>1. ASSUME NEW m \in parts PROVE m.cases \in components
    <3>1. PICK s \in components : m = Community(s, rs, adj)
      BY <1>6, <2>1
    <3> QED
      BY <1>5, <3>1
  <2>2. \A s \in components : \E m \in parts : m.cases = s
    BY <1>5, <1>6
  <2> QED
    BY <2>1, <2>2
<1>8. \A m \in parts : /\ m.level = Max({core[c] : c \in m.cases})
                       /\ m.keys = UNION {rs[c].keys : c \in m.cases}
                       /\ m.conclusions = {c \in m.cases : rs[c].status = "verified"}
  <2>1. ASSUME NEW m \in parts
        PROVE  /\ m.level = Max({core[c] : c \in m.cases})
               /\ m.keys = UNION {rs[c].keys : c \in m.cases}
               /\ m.conclusions = {c \in m.cases : rs[c].status = "verified"}
    <3>1. PICK s \in components : m = Community(s, rs, adj)
      BY <1>6, <2>1
    <3>2. m.cases = s
      BY <1>5, <3>1
    <3> QED
      BY <1>5, <3>1, <3>2
  <2> QED
    BY <2>1
<1>9. AreComponents({m.cases : m \in parts}, all, edges)
  BY <1>3, <1>7
<1> QED
  BY <1>8, <1>9, Zenon DEF RightCommunities, core

(* The shells that are built are the right ones.                            *)
LEMMA ShellsRight ==
    ASSUME NEW all, IsFiniteSet(all), all \subseteq Nat, NEW edges,
           NEW components, components = ConnectedComponents(all, Adjacency(all, edges)),
           NEW shells, shells = CoreShells(components, Adjacency(all, edges))
    PROVE  RightShells(shells, all, edges)
<1>1. PICK adj : adj = Adjacency(all, edges)
  OBVIOUS
<1>2. PICK core : core = [c \in all |-> CoreNumber(c, all, edges)]
  OBVIOUS
<1>3. AreComponents(components, all, edges)
  BY ComponentsFound
<1>4. /\ \A s \in components : IsComponent(s, all, edges) /\ s \subseteq all
      /\ UNION components = all
  BY <1>3 DEF AreComponents
<1>5. \A c \in all : CoreNumbers(CHOOSE s \in components : c \in s, adj)[c] = core[c]
  <2>1. ASSUME NEW c \in all
        PROVE  CoreNumbers(CHOOSE s \in components : c \in s, adj)[c] = core[c]
    <3>1. PICK s : s = CHOOSE x \in components : c \in x
      OBVIOUS
    <3>2. s \in components /\ c \in s
      <4>1. \E x \in components : c \in x
        BY <1>4, <2>1
      <4> QED
        BY <3>1, <4>1, Zenon
    <3>3. PICK cores : cores = CoreNumbers(s, adj)
      OBVIOUS
    <3>4. IsComponent(s, all, edges) /\ s \subseteq all /\ cores = CoreNumbers(s, Adjacency(all, edges))
      BY <1>1, <1>4, <3>2, <3>3
    <3>5. HasCores(cores, s, all, edges)
      BY <3>4, ComponentCores
    <3>6. cores[c] = core[c]
      BY <1>2, <3>2, <3>5 DEF HasCores
    <3> QED
      BY <3>1, <3>3, <3>6, Zenon
  <2> QED
    BY <2>1
<1>6. [c \in UNION components |-> CoreNumbers(CHOOSE s \in components : c \in s, adj)[c]] = core
  <2>1. core = [c \in all |-> core[c]]
    BY <1>2
  <2> QED
    BY <1>4, <1>5, <2>1, Zenon
<1>7. shells = [k \in Range(core) \cup {0} |->
                  ConnectedComponents({c \in DOMAIN core : core[c] >= k}, adj)]
  BY <1>1, <1>6, Zenon DEF CoreShells
<1>8. DOMAIN core = all
  BY <1>2
<1>9. ASSUME NEW k \in DOMAIN shells
      PROVE  AreComponents(shells[k], {c \in all : core[c] >= k}, edges)
  <2>1. PICK S : S = {c \in all : core[c] >= k}
    OBVIOUS
  <2>2. S \subseteq all /\ IsFiniteSet(S)
    BY <2>1, FS_Subset
  <2>3. shells[k] = ConnectedComponents(S, adj)
    BY <1>7, <1>8, <1>9, <2>1
  <2>4. AreComponents(ConnectedComponents(S, Adjacency(all, edges)), S, edges)
    BY <2>2, ComponentsFound
  <2> QED
    BY <1>1, <2>1, <2>3, <2>4
<1>10. DOMAIN shells = Range(core) \cup {0}
  BY <1>7
<1> QED
  BY <1>2, <1>9, <1>10, Zenon DEF RightShells

(* Both, for a domain.                                                      *)
RightBranch(branch, domain, rs, es) ==
    LET all == {c \in DOMAIN rs : rs[c].domain = domain}
        edges == {e \in es : e \subseteq all}
    IN RightCommunities(branch.communities, all, edges, rs) /\ RightShells(branch.shells, all, edges)

(* A branch that is built is right.                                         *)
LEMMA BranchRight ==
    ASSUME NEW rs, DOMAIN rs \subseteq Cases, NEW domain, NEW es
    PROVE  RightBranch(Branch(domain, rs, es), domain, rs, es)
<1>1. PICK all : all = {c \in DOMAIN rs : rs[c].domain = domain}
  OBVIOUS
<1>2. PICK edges : edges = {e \in es : e \subseteq all}
  OBVIOUS
<1>3. all \subseteq Nat /\ IsFiniteSet(all)
  BY <1>1, HierarchyAssumption, FS_Subset
<1>4. PICK adj : adj = Adjacency(all, edges)
  OBVIOUS
<1>5. Adjacency(all, es) = adj
  BY <1>2, <1>4, SameAdjacency
<1>6. PICK components : components = ConnectedComponents(all, adj)
  OBVIOUS
<1>7. PICK branch : branch = Branch(domain, rs, es)
  OBVIOUS
<1>8. /\ branch.communities = {Community(s, rs, adj) : s \in components}
      /\ branch.shells = CoreShells(components, adj)
  BY <1>1, <1>5, <1>6, <1>7 DEF Branch
<1>9. RightCommunities(branch.communities, all, edges, rs)
  BY <1>3, <1>4, <1>6, <1>8, CommunitiesRight
<1>10. RightShells(branch.shells, all, edges)
  BY <1>3, <1>4, <1>6, <1>8, ShellsRight
<1> QED
  BY <1>1, <1>2, <1>7, <1>9, <1>10, Zenon DEF RightBranch

(* The Cases of a domain and what is known of them is the same in both.     *)
SameCases(domain, rs, old) ==
    /\ {c \in DOMAIN rs : rs[c].domain = domain} = {c \in DOMAIN old : old[c].domain = domain}
    /\ \A c \in DOMAIN rs : rs[c].domain = domain => rs[c] = old[c]

(* A branch is right as long as its Cases are what they were.               *)
LEMMA BranchStaysRight ==
    ASSUME NEW branch, NEW domain, NEW old, NEW es, RightBranch(branch, domain, old, es),
           NEW rs, SameCases(domain, rs, old)
    PROVE  RightBranch(branch, domain, rs, es)
<1>1. PICK all : all = {c \in DOMAIN rs : rs[c].domain = domain}
  OBVIOUS
<1>2. PICK edges : edges = {e \in es : e \subseteq all}
  OBVIOUS
<1>3. all = {c \in DOMAIN old : old[c].domain = domain} /\ \A c \in all : rs[c] = old[c]
  BY <1>1 DEF SameCases
<1>4. RightCommunities(branch.communities, all, edges, old) /\ RightShells(branch.shells, all, edges)
  BY <1>2, <1>3, Zenon DEF RightBranch
<1>5. AreComponents({m.cases : m \in branch.communities}, all, edges)
  BY <1>4, Zenon DEF RightCommunities
<1>6. \A m \in branch.communities : m.cases \subseteq all
  BY <1>5 DEF AreComponents
<1>7. \A m \in branch.communities :
         /\ UNION {old[c].keys : c \in m.cases} = UNION {rs[c].keys : c \in m.cases}
         /\ {c \in m.cases : old[c].status = "verified"} = {c \in m.cases : rs[c].status = "verified"}
  <2>1. ASSUME NEW m \in branch.communities
        PROVE  /\ UNION {old[c].keys : c \in m.cases} = UNION {rs[c].keys : c \in m.cases}
               /\ {c \in m.cases : old[c].status = "verified"} = {c \in m.cases : rs[c].status = "verified"}
    <3>1. \A c \in m.cases : rs[c] = old[c]
      BY <1>3, <1>6, <2>1
    <3> QED
      BY <3>1
  <2> QED
    BY <2>1
<1>8. RightCommunities(branch.communities, all, edges, rs)
  BY <1>4, <1>7, Zenon DEF RightCommunities
<1> QED
  BY <1>1, <1>2, <1>4, <1>8, Zenon DEF RightBranch

(* Every domain with Cases has a branch, which is right.                    *)
BranchesInv ==
    /\ indexed \in Nat /\ DOMAIN records \subseteq Cases
    /\ indexed = 0 => DOMAIN records = {}
    /\ DOMAIN branches = Occupied(records)
    /\ \A d \in DOMAIN branches :
          /\ RightBranch(branches[d].of, d, records, links)
          /\ branches[d].revision \in Nat /\ branches[d].revision <= indexed
          /\ d \in DOMAIN summaries => summaries[d] >= branches[d].revision

(* The property follows.                                                    *)
LEMMA HierarchyShown ==
    ASSUME BranchesInv
    PROVE  HierarchyIsCurrent
<1>1. DOMAIN branches = Occupied(records)
  BY DEF BranchesInv
<1>2. \A d \in DOMAIN branches :
         /\ RightBranch(branches[d].of, d, records, links)
         /\ d \in DOMAIN summaries => summaries[d] >= branches[d].revision
  BY DEF BranchesInv
<1> QED
  BY <1>1, <1>2, Zenon DEF HierarchyIsCurrent, RightBranch, RightCommunities, RightShells

(* Nothing is indexed at first.                                             *)
LEMMA HierarchyBegins ==
    ASSUME HierarchyInit
    PROVE  BranchesInv
<1>1. DOMAIN <<>> = {} /\ Occupied(<<>>) = {}
  BY DEF Occupied
<1> QED
  BY <1>1 DEF HierarchyInit, BranchesInv

(* A build makes every branch anew.                                         *)
LEMMA BuildKeeps ==
    ASSUME BranchesInv, NEW some \in CaseSets, NEW rs \in [some -> Records], BuildHierarchy(rs)
    PROVE  BranchesInv'
<1>1. DOMAIN branches = {}
  BY DEF BranchesInv, BuildHierarchy, Occupied
<1>2. PICK es : es = StructuralEdges(rs)
  OBVIOUS
<1>3. /\ records' = rs /\ links' = es /\ indexed' = 1
      /\ branches' = [d \in Occupied(rs) |->
                         IF d \in Occupied(rs) THEN [revision |-> 1, of |-> Branch(d, rs, es)] ELSE branches[d]]
      /\ summaries' = [d \in DOMAIN summaries \ Occupied(rs) |-> summaries[d]]
  <2>1. /\ (DOMAIN branches \ Occupied(rs)) \cup (Occupied(rs) \cap Occupied(rs)) = Occupied(rs)
        /\ Occupied(rs) \cap Occupied(rs) = Occupied(rs)
    BY <1>1
  <2> QED
    BY <1>2, <2>1 DEF BuildHierarchy, Rebuilt
<1>4. DOMAIN rs \subseteq Cases
  BY DEF CaseSets
<1>5. \A d \in Occupied(rs) : RightBranch(Branch(d, rs, es), d, rs, es)
  BY <1>4, BranchRight
<1>6. DOMAIN branches' = Occupied(rs) /\ \A d \in Occupied(rs) : d \notin DOMAIN summaries'
  BY <1>3
<1>7. \A d \in Occupied(rs) : branches'[d].revision = 1 /\ branches'[d].of = Branch(d, rs, es)
  BY <1>3
<1> QED
  BY <1>3, <1>4, <1>5, <1>6, <1>7 DEF BranchesInv

(* A changed Case: the branches of the domains it was in and is in now are  *)
(* built anew, and the Cases of any other are what they were.               *)
LEMMA UpsertKeeps ==
    ASSUME BranchesInv, NEW c \in Cases, NEW r \in Records, Upsert(c, r)
    PROVE  BranchesInv'
<1>1. PICK rs : rs = [k \in DOMAIN records \cup {c} |-> IF k = c THEN r ELSE records[k]]
  OBVIOUS
<1>2. PICK touched, rev : touched = Affected(c, r) /\ rev = indexed + 1
  OBVIOUS
<1>3. /\ records' = rs /\ links' = links /\ indexed' = rev /\ rev \in Nat /\ rev # 0 /\ indexed \in Nat
      /\ Rebuilt(touched, rs, links, rev)
  BY <1>1, <1>2 DEF Upsert, BranchesInv
<1>4. DOMAIN rs \subseteq Cases
  BY <1>1 DEF BranchesInv
<1>5. ASSUME NEW d, d \notin touched
      PROVE  SameCases(d, rs, records) /\ (d \in Occupied(rs) <=> d \in Occupied(records))
  <2>1. rs[c].domain # d /\ (c \in DOMAIN records => records[c].domain # d)
    BY <1>1, <1>2, <1>5 DEF Affected
  <2>2. \A k \in DOMAIN records : k # c => k \in DOMAIN rs /\ rs[k] = records[k]
    BY <1>1
  <2>3. \A k \in DOMAIN rs : k # c => k \in DOMAIN records /\ rs[k] = records[k]
    BY <1>1
  <2> QED
    BY <2>1, <2>2, <2>3 DEF SameCases, Occupied
<1>6. DOMAIN branches = Occupied(records)
  BY DEF BranchesInv
<1>7. (DOMAIN branches \ touched) \cup (touched \cap Occupied(rs)) = Occupied(rs)
  BY <1>5, <1>6
<1>8. /\ branches' = [d \in Occupied(rs) |-> IF d \in touched THEN [revision |-> rev, of |-> Branch(d, rs, links)]
                                             ELSE branches[d]]
      /\ summaries' = [d \in DOMAIN summaries \ (touched \cap Occupied(rs)) |-> summaries[d]]
  BY <1>3, <1>7, Zenon DEF Rebuilt
<1>9. DOMAIN branches' = Occupied(rs)
  BY <1>8
<1>10. ASSUME NEW d \in Occupied(rs)
       PROVE  /\ RightBranch(branches'[d].of, d, rs, links)
              /\ branches'[d].revision \in Nat /\ branches'[d].revision <= rev
              /\ d \in DOMAIN summaries' => summaries'[d] >= branches'[d].revision
  <2>1. CASE d \in touched
    <3>1. branches'[d].of = Branch(d, rs, links) /\ branches'[d].revision = rev /\ d \notin DOMAIN summaries'
      BY <1>8, <1>10, <2>1
    <3> QED
      BY <1>3, <1>4, <3>1, BranchRight
  <2>2. CASE d \notin touched
    <3>1. branches'[d] = branches[d] /\ d \in DOMAIN branches
      BY <1>5, <1>6, <1>8, <1>10, <2>2
    <3>2. /\ RightBranch(branches[d].of, d, records, links)
          /\ branches[d].revision \in Nat /\ branches[d].revision <= indexed
          /\ d \in DOMAIN summaries => summaries[d] >= branches[d].revision
      BY <3>1 DEF BranchesInv
    <3>3. RightBranch(branches[d].of, d, rs, links)
      BY <1>5, <2>2, <3>2, BranchStaysRight
    <3>4. d \in DOMAIN summaries' => d \in DOMAIN summaries /\ summaries'[d] = summaries[d]
      BY <1>8
    <3>5. branches[d].revision <= rev
      BY <1>2, <1>3, <3>2
    <3> QED
      BY <3>1, <3>2, <3>3, <3>4, <3>5
  <2> QED
    BY <2>1, <2>2
<1> QED
  BY <1>3, <1>4, <1>9, <1>10 DEF BranchesInv

(* A summary is as new as the hierarchy.                                    *)
LEMMA AttachKeeps ==
    ASSUME BranchesInv, NEW d, AttachGeneratedSummary(d)
    PROVE  BranchesInv'
<1>1. UNCHANGED <<records, links, branches, indexed>>
  BY DEF AttachGeneratedSummary
<1>2. \A k \in DOMAIN branches : k \in DOMAIN summaries' => summaries'[k] >= branches[k].revision
  BY DEF AttachGeneratedSummary, BranchesInv
<1> QED
  BY <1>1, <1>2 DEF BranchesInv, Occupied, RightBranch

(* However a hierarchy of any Cases has come about, each domain has the     *)
(* communities and the shells its links give it, and no summary older than  *)
(* them (hierarchy.rs: build, upsert, rebuild_branch).                      *)
THEOREM HierarchyCorrect == Spec => []HierarchyIsCurrent
<1>1. Init => BranchesInv
  BY HierarchyBegins DEF Init
<1>2. BranchesInv /\ [Next]_vars => BranchesInv'
  <2> SUFFICES ASSUME BranchesInv, [Next]_vars PROVE BranchesInv'
    OBVIOUS
  <2>1. CASE UNCHANGED hierarchyVars
    BY <2>1 DEF BranchesInv, hierarchyVars, Occupied, RightBranch
  <2>2. CASE HierarchyNext
    BY <2>2, BuildKeeps, UpsertKeeps, AttachKeeps DEF HierarchyNext
  <2> QED
    BY <2>1, <2>2 DEF Next, vars
<1>3. BranchesInv => HierarchyIsCurrent
  BY HierarchyShown
<1> QED
  BY <1>1, <1>2, <1>3, PTL DEF Spec
================================================================================
