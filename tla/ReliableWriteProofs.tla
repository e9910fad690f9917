-------------------------- MODULE ReliableWriteProofs --------------------------
(***************************************************************************)
(* Proofs about the write path, for any number of callers, processes, keys *)
(* and request ids and any capacity of the replay cache.                   *)
(***************************************************************************)
EXTENDS ReliableWrite, TLAPS

--------------------------------------------------------------------------------
(* The replay cache *)

(* Remembering an entry keeps a sequence of entries, each of them an old    *)
(* one or the new one: ProtocolSession::remember invents no response.       *)
LEMMA RememberKeeps ==
    ASSUME NEW S, NEW s \in Seq(S), NEW e \in S
    PROVE  /\ Remember(s, e) \in Seq(S)
           /\ \A i \in DOMAIN Remember(s, e) :
                 Remember(s, e)[i] = e \/ \E j \in DOMAIN s : Remember(s, e)[i] = s[j]
<1> DEFINE grown == Append(s, e)
<1>1. /\ grown \in Seq(S)
      /\ Len(grown) = Len(s) + 1
      /\ \A i \in 1..Len(grown) : grown[i] = IF i <= Len(s) THEN s[i] ELSE e
    OBVIOUS
<1>2. CASE Len(grown) > Window
    <2>1. /\ Tail(grown) \in Seq(S)
          /\ Len(Tail(grown)) = Len(s)
          /\ \A i \in 1..Len(s) : Tail(grown)[i] = grown[i + 1]
        BY <1>1
    <2>2. Remember(s, e) = Tail(grown)
        BY <1>2 DEF Remember
    <2> HIDE DEF grown
    <2> QED
        BY <1>1, <2>1, <2>2
<1>3. CASE ~(Len(grown) > Window)
    <2>1. Remember(s, e) = grown
        BY <1>3 DEF Remember
    <2> HIDE DEF grown
    <2> QED
        BY <1>1, <2>1
<1> QED
    BY <1>2, <1>3

--------------------------------------------------------------------------------
(* Types *)

LEMMA CallerConstants ==
    ASSUME NEW a \in Agents
    PROVE  /\ KeyOf[a] \in Keys \cup {NoKey}
           /\ KindOf[a] \in Kinds
           /\ a \in Keyed => KeyOf[a] \in Keys
    BY ConstantsAssumption DEF Keyed, Kinds

(* Whatever response ends the request of process p, the types are kept. *)
LEMMA FinishType ==
    ASSUME TypeOK, NEW p \in Processes, NEW response \in Responses,
           task[p] # Idle, Finish(p, response)
    PROVE  /\ task[p] \in Transactions
           /\ stage' = stage /\ round' = round /\ attempt' = attempt /\ answer' = answer
           /\ status' = status /\ pending' = pending
           /\ reply' \in [Agents -> Responses]
           /\ task' \in [Processes -> Transactions \cup {Idle}]
           /\ session' \in [Processes -> Seq(Entries)]
           /\ served' \in [Processes -> Nat]
<1>1. task[p] \in Transactions
    BY DEF TypeOK
<1> DEFINE t == task[p].sent
           e == [id |-> RequestId(t), agent |-> t.agent, response |-> response]
<1>2. t \in Requests /\ t.agent \in Agents /\ t.round \in Rounds
    BY <1>1 DEF Transactions, Requests
<1>3. e \in Entries
    BY <1>2 DEF Entries, RequestIds, RequestId
<1>4. session[p] \in Seq(Entries)
    BY DEF TypeOK
<1>5. Remember(session[p], e) \in Seq(Entries)
    BY <1>3, <1>4, RememberKeeps
<1>6. session' = [session EXCEPT ![p] = Remember(session[p], e)]
    BY DEF Finish
<1>7. session' \in [Processes -> Seq(Entries)]
    BY <1>5, <1>6 DEF TypeOK
<1>8. reply' \in [Agents -> Responses]
    BY <1>2 DEF Finish, Answer, TypeOK
<1>9. served' \in [Processes -> Nat] /\ task' \in [Processes -> Transactions \cup {Idle}]
    BY DEF Finish, TypeOK
<1> QED
    BY <1>1, <1>7, <1>8, <1>9 DEF Finish

(* Every step keeps the types. *)
LEMMA TypeStep ==
    ASSUME TypeOK, [Next]_vars PROVE TypeOK'
<1>0. NoReply \in Responses
    BY DEF NoReply, Failure, Responses
<1>1. ASSUME NEW a \in Agents, Call(a) PROVE TypeOK'
    BY <1>1 DEF Call, TypeOK, processVars, databaseVars
<1>2. ASSUME NEW a \in Agents, NEW p \in Processes, Connect(a, p) PROVE TypeOK'
    <2>1. Current(a) \in Requests
        BY DEF Current, Requests, TypeOK
    <2> QED
        BY <1>2, <2>1 DEF Connect, TypeOK, databaseVars
<1>3. ASSUME NEW a \in Agents, LoseTransport(a) PROVE TypeOK'
    <2>1. attempt' \in [Agents -> 1..2]
        <3>1. attempt' = attempt \/ attempt' = [attempt EXCEPT ![a] = 2]
            BY <1>3 DEF LoseTransport
        <3>2. 2 \in 1..2 /\ attempt \in [Agents -> 1..2]
            BY DEF TypeOK
        <3> QED
            BY <3>1, <3>2
    <2>2. stage' = [stage EXCEPT ![a] = "connecting"]
          \/ stage' = [stage EXCEPT ![a] = "ambiguous"]
        BY <1>3 DEF LoseTransport
    <2>3. reply' \in [Agents -> Responses]
        BY <1>0, <1>3 DEF LoseTransport, TypeOK
    <2> QED
        BY <1>3, <2>1, <2>2, <2>3 DEF LoseTransport, TypeOK, processVars, databaseVars
<1>4. ASSUME NEW a \in Agents, Receive(a) PROVE TypeOK'
    <2>1. reply[a].node \in Nat
        BY DEF TypeOK, Responses
    <2> QED
        BY <1>0, <1>4, <2>1 DEF Receive, TypeOK, processVars, databaseVars
<1>5. ASSUME NEW a \in Agents, Lookup(a) PROVE TypeOK'
    <2>1. results[KeyOf[a]].node \in Nat
        BY <1>5, CallerConstants DEF Lookup, TypeOK, Rows
    <2> QED
        BY <1>5, <2>1 DEF Lookup, TypeOK, processVars, databaseVars
<1>6. ASSUME NEW a \in Agents, Retry(a) PROVE TypeOK'
    BY <1>6, ConstantsAssumption
    DEF Retry, TypeOK, Rounds, processVars, databaseVars
<1>7. ASSUME NEW p \in Processes, NEW t \in Requests, ReplayRequest(p, t) PROVE TypeOK'
    <2>1. PICK i \in DOMAIN session[p] : Answer(t, Cached(session[p][i], t))
        BY <1>7 DEF ReplayRequest, Remembered
    <2>2. session[p][i] \in Entries
        BY <2>1 DEF TypeOK
    <2>3. Cached(session[p][i], t) \in Responses
        BY <2>2 DEF Cached, Entries, Failure, Responses
    <2>4. reply' \in [Agents -> Responses]
        BY <2>1, <2>3 DEF Answer, TypeOK
    <2> QED
        BY <1>7, <2>4 DEF ReplayRequest, TypeOK, databaseVars
<1>8. ASSUME NEW p \in Processes, NEW t \in Requests, Begin(p, t) PROVE TypeOK'
    <2>1. t.agent \in Agents
        BY DEF Requests
    <2>2. (IF t.agent \in Keyed THEN results[KeyOf[t.agent]] ELSE Absent) \in Rows
        BY <2>1, CallerConstants DEF TypeOK, Absent, Rows
    <2>3. Len(journal) \in Nat
        BY DEF TypeOK
    <2> QED
        BY <1>8, <2>2, <2>3 DEF Begin, TypeOK, Transactions, callerVars, databaseVars
<1>9. ASSUME NEW p \in Processes, ReplayOperation(p) PROVE TypeOK'
    <2>1. task[p] \in Transactions
        BY <1>9 DEF ReplayOperation, TypeOK
    <2>2. Replayed(task[p].sent.agent, task[p].found) \in Responses
        BY <2>1 DEF Replayed, Ok, Failure, Responses, Transactions, Rows
    <2> QED
        BY <1>9, <2>2, FinishType DEF ReplayOperation, TypeOK, databaseVars
<1>10. ASSUME NEW p \in Processes, Commit(p) PROVE TypeOK'
    <2> DEFINE t == task[p].sent
               node == Len(journal) + 1
    <2>1. task[p] \in Transactions /\ t \in Requests
        BY <1>10 DEF Commit, TypeOK, Transactions
    <2>2. t.agent \in Agents /\ t.round \in Rounds
        BY <2>1 DEF Requests
    <2>3. Len(journal) \in Nat /\ served[p] + 1 \in Nat
        BY DEF TypeOK
    <2>4. journal' \in Seq(Writes)
        BY <1>10, <2>2, <2>3 DEF Commit, TypeOK, Writes
    <2>5. results' \in [Keys -> Rows]
        <3>1. results' = StoreOperation(t.agent, node)
            BY <1>10 DEF Commit
        <3>2. [kind |-> KindOf[t.agent], node |-> node] \in Rows
            BY <2>2, <2>3, CallerConstants DEF Rows
        <3> QED
            BY <3>1, <3>2, <2>2, CallerConstants DEF StoreOperation, TypeOK
    <2>6. Ok(node) \in Responses
        BY <2>3 DEF Ok, Responses
    <2>7. task[p] # Idle /\ Finish(p, Ok(node))
        BY <1>10 DEF Commit
    <2> QED
        BY <2>4, <2>5, <2>6, <2>7, FinishType DEF TypeOK
<1>11. ASSUME NEW p \in Processes, RollBack(p) PROVE TypeOK'
    <2>1. Failure("INTERNAL_ERROR") \in Responses
        BY DEF Failure, Responses
    <2>2. /\ task[p] # Idle /\ Finish(p, Failure("INTERNAL_ERROR"))
          /\ results' = results /\ journal' = journal
        BY <1>11 DEF RollBack, databaseVars
    <2> QED
        BY <2>1, <2>2, FinishType DEF TypeOK
<1>12. ASSUME NEW p \in Processes, Start(p) \/ Stop(p) PROVE TypeOK'
    BY <1>12 DEF Start, Stop, TypeOK, callerVars, databaseVars
<1>13. ASSUME NEW p \in Processes, Exit(p) \/ Crash(p) PROVE TypeOK'
    <2>1. session' \in [Processes -> Seq(Entries)]
        <3>1. session' = [session EXCEPT ![p] = <<>>]
            BY <1>13 DEF Exit, Crash
        <3>2. <<>> \in Seq(Entries) /\ session \in [Processes -> Seq(Entries)]
            BY DEF TypeOK
        <3> QED
            BY <3>1, <3>2
    <2> QED
        BY <1>13, <2>1 DEF Exit, Crash, TypeOK, callerVars, databaseVars
<1>14. CASE UNCHANGED vars
    BY <1>14 DEF vars, TypeOK
<1> QED
    BY <1>1, <1>2, <1>3, <1>4, <1>5, <1>6, <1>7, <1>8, <1>9, <1>10, <1>11, <1>12,
       <1>13, <1>14 DEF Next, CallerStep, Work

(* The initial states have their types. *)
LEMMA InitialTypes ==
    ASSUME Init PROVE TypeOK
<1>1. NoReply \in Responses /\ Absent \in Rows /\ 1 \in Rounds
    BY ConstantsAssumption DEF NoReply, Failure, Responses, Absent, Rows, Rounds
<1> QED
    BY <1>1 DEF Init, TypeOK

(* Type correctness: every state of every run has its types. *)
THEOREM TypeCorrect == Spec => []TypeOK
<1>1. Init => TypeOK
    BY InitialTypes
<1>2. TypeOK /\ [Next]_vars => TypeOK'
    BY TypeStep
<1> QED
    BY <1>1, <1>2, PTL DEF Spec

--------------------------------------------------------------------------------
(* The inductive invariant *)

(* A node that is the effect of a's write stays it: nodes are only added. *)
LEMMA EffectsStay ==
    ASSUME TypeOK, NEW a \in Agents, NEW node,
           journal' = journal \/ \E w \in Writes : journal' = Append(journal, w),
           EffectIn(journal, a, node)
    PROVE  EffectIn(journal', a, node)
<1>1. journal \in Seq(Writes)
    BY DEF TypeOK
<1>2. node \in DOMAIN journal' /\ journal'[node] = journal[node]
    BY <1>1 DEF EffectIn
<1> QED
    BY <1>2 DEF EffectIn

(* A request that ends with a truthful response leaves truthful responses  *)
(* on the wire and in the cache.                                            *)
LEMMA FinishKeepsEffects ==
    ASSUME TypeOK, RepliesAreEffects, CacheHoldsEffects, AnswersAreEffects,
           journal' = journal \/ \E w \in Writes : journal' = Append(journal, w),
           NEW p \in Processes, NEW response \in Responses,
           task[p] # Idle, Finish(p, response),
           response.code = "OK" => EffectIn(journal', task[p].sent.agent, response.node)
    PROVE  RepliesAreEffects' /\ CacheHoldsEffects' /\ AnswersAreEffects'
<1> DEFINE t == task[p].sent
           e == [id |-> RequestId(t), agent |-> t.agent, response |-> response]
<1>1. t \in Requests /\ t.agent \in Agents /\ t.round \in Rounds
    BY DEF TypeOK, Transactions, Requests
<1>2. RepliesAreEffects'
    <2> SUFFICES ASSUME NEW a \in Agents, reply'[a].code = "OK"
                 PROVE  EffectIn(journal', a, reply'[a].node)
        BY DEF RepliesAreEffects
    <2>1. reply'[a] = reply[a] \/ (a = t.agent /\ reply'[a] = response)
        BY <1>1 DEF Finish, Answer, TypeOK
    <2> QED
        BY <2>1, EffectsStay DEF RepliesAreEffects
<1>3. CacheHoldsEffects'
    <2> SUFFICES ASSUME NEW q \in Processes, NEW i \in DOMAIN session'[q],
                        session'[q][i].response.code = "OK"
                 PROVE  EffectIn(journal', session'[q][i].agent, session'[q][i].response.node)
        BY DEF CacheHoldsEffects
    <2>1. e \in Entries
        BY <1>1 DEF Entries, RequestIds, RequestId
    <2>2. session \in [Processes -> Seq(Entries)]
        BY DEF TypeOK
    <2>3. session' = [session EXCEPT ![p] = Remember(session[p], e)]
        BY DEF Finish
    <2>4. session'[q][i] = e \/ \E j \in DOMAIN session[q] : session'[q][i] = session[q][j]
        <3> HIDE DEF e
        <3>1. CASE q = p
            <4>1. session[p] \in Seq(Entries) /\ session'[p] = Remember(session[p], e)
                BY <2>2, <2>3
            <4> QED
                BY <2>1, <3>1, <4>1, RememberKeeps
        <3>2. CASE q # p
            BY <2>2, <2>3, <3>2
        <3> QED
            BY <3>1, <3>2
    <2>5. CASE session'[q][i] = e
        BY <2>5
    <2>6. ASSUME NEW j \in DOMAIN session[q], session'[q][i] = session[q][j]
          PROVE  EffectIn(journal', session'[q][i].agent, session'[q][i].response.node)
        <3>1. session[q][j] \in Entries
            BY <2>2
        <3>2. session[q][j].agent \in Agents
            BY <3>1 DEF Entries
        <3>3. EffectIn(journal, session[q][j].agent, session[q][j].response.node)
            BY <2>6 DEF CacheHoldsEffects
        <3> QED
            BY <2>6, <3>2, <3>3, EffectsStay
    <2> QED
        BY <2>4, <2>5, <2>6
<1>4. AnswersAreEffects'
    <2> SUFFICES ASSUME NEW a \in Agents, stage'[a] \in {"acknowledged", "confirmed"}
                 PROVE  EffectIn(journal', a, answer'[a])
        BY DEF AnswersAreEffects
    <2>1. stage' = stage /\ answer' = answer
        BY DEF Finish
    <2> QED
        BY <2>1, EffectsStay DEF AnswersAreEffects
<1> QED
    BY <1>2, <1>3, <1>4

(* The mutex is released: the other transactions, and what they found, stay. *)
LEMMA FinishKeepsTransactions ==
    ASSUME TypeOK, SnapshotsHold, UnnamedFindNothing, NEW p \in Processes,
           NEW response, Finish(p, response), UNCHANGED databaseVars
    PROVE  SnapshotsHold' /\ UnnamedFindNothing'
<1>1. task' = [task EXCEPT ![p] = Idle] /\ results' = results /\ journal' = journal
    BY DEF Finish, databaseVars
<1>2. \A q \in Processes : task'[q] # Idle => task'[q] = task[q]
    BY <1>1 DEF TypeOK
<1> QED
    BY <1>1, <1>2 DEF SnapshotsHold, UnnamedFindNothing

(* A commit keeps the table and the nodes together: its transaction found   *)
(* no row, and its snapshot is current, so there is none.                   *)
LEMMA CommitStores ==
    ASSUME TypeOK, StoredWithItsWrite, SnapshotsHold, UnnamedFindNothing,
           NEW p \in Processes, Commit(p)
    PROVE  StoredWithItsWrite' /\ SnapshotsHold' /\ UnnamedFindNothing'
<1> DEFINE t == task[p].sent
           a == t.agent
           node == Len(journal) + 1
           w == [agent |-> a, round |-> t.round, process |-> p, served |-> served[p] + 1]
<1>1. /\ task[p] \in Transactions /\ a \in Agents /\ t.round \in Rounds
      /\ task[p].snapshot = Len(journal) /\ task[p].found = Absent
    BY DEF Commit, CurrentSnapshot, TypeOK, Transactions, Requests
<1>2. journal \in Seq(Writes) /\ w \in Writes /\ node \in Nat /\ node > Len(journal)
    BY <1>1 DEF TypeOK, Writes
<1>3. journal' = Append(journal, w) /\ results' = StoreOperation(a, node)
    BY DEF Commit
<1> HIDE DEF w, node
<1>4. /\ DOMAIN journal' = DOMAIN journal \cup {node}
      /\ journal'[node] = w
      /\ \A i \in DOMAIN journal : i # node /\ journal'[i] = journal[i] /\ i \in Nat \ {0}
      /\ Len(journal') = Len(journal) + 1
    BY <1>2, <1>3 DEF node
<1>5. w.agent = a
    BY DEF w
<1>6. a \in Keyed => results[KeyOf[a]] = Absent /\ KeyOf[a] \in Keys
    BY <1>1, CallerConstants DEF SnapshotsHold, Commit
<1>7. \A k \in Keys :
         results'[k] = IF a \in Keyed /\ k = KeyOf[a]
                       THEN [kind |-> KindOf[a], node |-> node] ELSE results[k]
    <2>1. results \in [Keys -> Rows]
        BY DEF TypeOK
    <2>2. CASE a \in Keyed
        <3>1. results' = [results EXCEPT ![KeyOf[a]] = [kind |-> KindOf[a], node |-> node]]
            BY <1>3, <2>2 DEF StoreOperation
        <3> HIDE DEF a
        <3> QED
            BY <2>1, <2>2, <3>1
    <2>3. CASE a \notin Keyed
        BY <1>3, <2>3 DEF StoreOperation
    <2> QED
        BY <2>2, <2>3
<1>8. ASSUME NEW i \in DOMAIN journal PROVE journal[i].agent \in Agents
    <2>1. journal[i] \in Writes
        BY <1>2
    <2> QED
        BY <2>1 DEF Writes
<1>9. StoredWithItsWrite'
    <2>1. ASSUME NEW k \in Keys, results'[k] # Absent
          PROVE  /\ results'[k].node \in DOMAIN journal'
                 /\ KeyOf[journal'[results'[k].node].agent] = k
                 /\ KindOf[journal'[results'[k].node].agent] = results'[k].kind
        <3>1. CASE a \in Keyed /\ k = KeyOf[a]
            <4>1. results'[k] = [kind |-> KindOf[a], node |-> node]
                BY <1>7, <3>1
            <4>2. results'[k].node = node /\ results'[k].kind = KindOf[a]
                BY <4>1
            <4> QED
                BY <1>4, <1>5, <3>1, <4>2
        <3>2. CASE ~(a \in Keyed /\ k = KeyOf[a])
            BY <1>4, <1>7, <2>1, <3>2 DEF StoredWithItsWrite
        <3> QED
            BY <3>1, <3>2
    <2>2. ASSUME NEW i \in DOMAIN journal', journal'[i].agent \in Keyed
          PROVE  results'[KeyOf[journal'[i].agent]].node = i
        <3>1. CASE i = node
            BY <1>4, <1>5, <1>6, <1>7, <2>2, <3>1
        <3>2. CASE i # node
            <4>1. i \in DOMAIN journal /\ journal'[i] = journal[i] /\ i # 0
                BY <1>4, <3>2
            <4>2. results[KeyOf[journal[i].agent]].node = i
                BY <2>2, <4>1 DEF StoredWithItsWrite
            <4>3. KeyOf[journal[i].agent] \in Keys
                BY <1>8, <2>2, <4>1, CallerConstants
            <4>4. ~(a \in Keyed /\ KeyOf[journal[i].agent] = KeyOf[a])
                BY <1>6, <4>1, <4>2 DEF Absent
            <4> QED
                BY <1>7, <4>1, <4>2, <4>3, <4>4
        <3> QED
            BY <3>1, <3>2
    <2> QED
        BY <2>1, <2>2 DEF StoredWithItsWrite
<1>10. ASSUME NEW q \in Processes, task'[q] # Idle
       PROVE  q # p /\ task'[q] = task[q] /\ task[q] \in Transactions
    BY <1>10 DEF Commit, Finish, TypeOK
<1>11. ASSUME NEW q \in Processes, task'[q] # Idle
       PROVE  /\ task'[q].snapshot <= Len(journal')
              /\ task'[q].sent.agent \in Keyed =>
                    \/ task'[q].found = results'[KeyOf[task'[q].sent.agent]]
                    \/ task'[q].found = Absent /\ task'[q].snapshot < Len(journal')
    <2> DEFINE b == task[q].sent.agent
    <2>1. task'[q] = task[q] /\ task[q].snapshot \in Nat /\ b \in Agents
        BY <1>10, <1>11 DEF Transactions, Requests
    <2>2. /\ task[q].snapshot <= Len(journal)
          /\ b \in Keyed =>
                \/ task[q].found = results[KeyOf[b]]
                \/ task[q].found = Absent /\ task[q].snapshot < Len(journal)
        BY <1>11, <2>1 DEF SnapshotsHold
    <2>3. task[q].snapshot < Len(journal')
        <3>1. Len(journal) \in Nat
            BY <1>2
        <3> QED
            BY <1>4, <2>1, <2>2, <3>1
    <2>4. ASSUME b \in Keyed
          PROVE  \/ task[q].found = results'[KeyOf[b]]
                 \/ task[q].found = Absent /\ task[q].snapshot < Len(journal')
        <3>1. KeyOf[b] \in Keys
            BY <2>1, <2>4, CallerConstants
        <3>2. CASE task[q].found = Absent
            BY <2>3, <3>2
        <3>3. CASE task[q].found # Absent
            <4>1. task[q].found = results[KeyOf[b]]
                BY <2>2, <2>4, <3>3
            <4>2. ~(a \in Keyed /\ KeyOf[b] = KeyOf[a])
                BY <1>6, <3>3, <4>1
            <4> QED
                BY <1>7, <3>1, <4>1, <4>2
        <3> QED
            BY <3>2, <3>3
    <2>5. task'[q].snapshot <= Len(journal')
        BY <1>2, <1>4, <2>1, <2>3
    <2> QED
        BY <2>1, <2>3, <2>4, <2>5
<1>12. SnapshotsHold'
    BY <1>11 DEF SnapshotsHold
<1>13. UnnamedFindNothing'
    BY <1>10 DEF UnnamedFindNothing
<1> QED
    BY <1>9, <1>12, <1>13

(* Every step keeps the invariant, one action at a time. *)
LEMMA InvariantStep ==
    ASSUME IInv, [Next]_vars PROVE IInv'
<1>0. TypeOK /\ TypeOK'
    BY TypeStep DEF IInv
<1> DEFINE Tables == StoredWithItsWrite /\ SnapshotsHold /\ UnnamedFindNothing
           Truths == RepliesAreEffects /\ CacheHoldsEffects /\ AnswersAreEffects
<1>1. Tables /\ Truths
    BY DEF IInv
<1>2. ASSUME UNCHANGED <<results, journal, task>> PROVE Tables'
    BY <1>1, <1>2 DEF StoredWithItsWrite, SnapshotsHold, UnnamedFindNothing
<1>3. ASSUME NEW a \in Agents, Call(a) \/ LoseTransport(a) \/ Retry(a) PROVE IInv'
    <2>1. UNCHANGED <<results, journal, task, session, answer>>
        BY <1>3 DEF Call, LoseTransport, Retry, processVars, databaseVars
    <2>2. \A b \in Agents : reply'[b] = reply[b] \/ reply'[b] = NoReply
        BY <1>0, <1>3 DEF Call, LoseTransport, Retry, TypeOK
    <2>3. \A b \in Agents : stage'[b] = stage[b] \/ stage'[b] \notin {"acknowledged", "confirmed"}
        BY <1>0, <1>3 DEF Call, LoseTransport, Retry, TypeOK
    <2>4. Truths'
        BY <1>1, <2>1, <2>2, <2>3
        DEF RepliesAreEffects, CacheHoldsEffects, AnswersAreEffects, NoReply, Failure
    <2> QED
        BY <1>0, <1>2, <2>1, <2>4 DEF IInv
<1>4. ASSUME NEW a \in Agents, NEW p \in Processes, Connect(a, p) PROVE IInv'
    <2>1. UNCHANGED <<results, journal, task, session, answer, reply>>
        BY <1>4 DEF Connect, databaseVars
    <2>2. \A b \in Agents : stage'[b] = stage[b] \/ stage'[b] \notin {"acknowledged", "confirmed"}
        BY <1>0, <1>4 DEF Connect, TypeOK
    <2>3. Truths'
        BY <1>1, <2>1, <2>2 DEF RepliesAreEffects, CacheHoldsEffects, AnswersAreEffects
    <2> QED
        BY <1>0, <1>2, <2>1, <2>3 DEF IInv
<1>5. ASSUME NEW a \in Agents, Receive(a) PROVE IInv'
    <2>1. UNCHANGED <<results, journal, task, session>>
        BY <1>5 DEF Receive, processVars, databaseVars
    <2>2. \A b \in Agents : reply'[b] = reply[b] \/ reply'[b] = NoReply
        BY <1>0, <1>5 DEF Receive, TypeOK
    <2>3. RepliesAreEffects' /\ CacheHoldsEffects'
        BY <1>1, <2>1, <2>2 DEF RepliesAreEffects, CacheHoldsEffects, NoReply, Failure
    <2>4. AnswersAreEffects'
        <3> SUFFICES ASSUME NEW b \in Agents, stage'[b] \in {"acknowledged", "confirmed"}
                     PROVE  EffectIn(journal', b, answer'[b])
            BY DEF AnswersAreEffects
        <3>1. CASE b = a
            <4>1. reply[a].code = "OK" /\ answer'[a] = reply[a].node
                BY <1>0, <1>5, <3>1 DEF Receive, TypeOK
            <4> QED
                BY <1>1, <2>1, <3>1, <4>1 DEF RepliesAreEffects
        <3>2. CASE b # a
            BY <1>0, <1>1, <1>5, <2>1, <3>2 DEF Receive, TypeOK, AnswersAreEffects
        <3> QED
            BY <3>1, <3>2
    <2> QED
        BY <1>0, <1>2, <2>1, <2>3, <2>4 DEF IInv
<1>6. ASSUME NEW a \in Agents, Lookup(a) PROVE IInv'
    <2>1. UNCHANGED <<results, journal, task, session, reply>>
        BY <1>6 DEF Lookup, processVars, databaseVars
    <2>2. RepliesAreEffects' /\ CacheHoldsEffects'
        BY <1>1, <2>1 DEF RepliesAreEffects, CacheHoldsEffects
    <2>3. AnswersAreEffects'
        <3> SUFFICES ASSUME NEW b \in Agents, stage'[b] \in {"acknowledged", "confirmed"}
                     PROVE  EffectIn(journal', b, answer'[b])
            BY DEF AnswersAreEffects
        <3>1. CASE b = a
            <4>1. /\ a \in Keyed /\ Stored(a)
                  /\ answer'[a] = results[KeyOf[a]].node
                BY <1>0, <1>6, <3>1 DEF Lookup, TypeOK
            <4>2. KeyOf[a] \in Keys
                BY <4>1, CallerConstants
            <4> QED
                BY <1>1, <2>1, <3>1, <4>1, <4>2 DEF Stored, StoredWithItsWrite, EffectIn
        <3>2. CASE b # a
            BY <1>0, <1>1, <1>6, <2>1, <3>2 DEF Lookup, TypeOK, AnswersAreEffects
        <3> QED
            BY <3>1, <3>2
    <2> QED
        BY <1>0, <1>2, <2>1, <2>2, <2>3 DEF IInv
<1>7. ASSUME NEW p \in Processes, NEW t \in Requests, ReplayRequest(p, t) PROVE IInv'
    <2>1. UNCHANGED <<results, journal, task, session, stage, answer>>
        BY <1>7 DEF ReplayRequest, databaseVars
    <2>2. CacheHoldsEffects' /\ AnswersAreEffects'
        BY <1>1, <2>1 DEF CacheHoldsEffects, AnswersAreEffects
    <2>3. PICK i \in DOMAIN session[p] : Answer(t, Cached(session[p][i], t))
        BY <1>7 DEF ReplayRequest, Remembered
    <2>4. ASSUME NEW b \in Agents, reply'[b].code = "OK"
          PROVE  EffectIn(journal', b, reply'[b].node)
        <3>1. CASE reply'[b] = reply[b]
            BY <1>1, <2>1, <2>4, <3>1 DEF RepliesAreEffects
        <3>2. CASE b = t.agent /\ reply'[b] = Cached(session[p][i], t)
            <4>1. session[p][i].agent = b /\ reply'[b] = session[p][i].response
                BY <2>4, <3>2 DEF Cached, Failure
            <4> QED
                BY <1>1, <2>1, <2>3, <2>4, <4>1 DEF CacheHoldsEffects
        <3> QED
            BY <1>0, <2>3, <3>1, <3>2 DEF Answer, TypeOK
    <2> QED
        BY <1>0, <1>2, <2>1, <2>2, <2>4 DEF IInv, RepliesAreEffects
<1>8. ASSUME NEW p \in Processes, NEW t \in Requests, Begin(p, t) PROVE IInv'
    <2>1. UNCHANGED <<results, journal, session, stage, answer, reply>>
        BY <1>8 DEF Begin, callerVars, databaseVars
    <2>2. Truths'
        BY <1>1, <2>1 DEF RepliesAreEffects, CacheHoldsEffects, AnswersAreEffects
    <2>3. StoredWithItsWrite'
        BY <1>1, <2>1 DEF StoredWithItsWrite
    <2>4. \A q \in Processes :
            \/ task'[q] = task[q]
            \/ task'[q] = [sent |-> t, snapshot |-> Len(journal),
                           found |-> IF t.agent \in Keyed THEN results[KeyOf[t.agent]] ELSE Absent]
        BY <1>0, <1>8 DEF Begin, TypeOK
    <2>5. Len(journal) \in Nat
        BY <1>0 DEF TypeOK
    <2>6. SnapshotsHold'
        BY <1>1, <2>1, <2>4, <2>5 DEF SnapshotsHold
    <2>7. UnnamedFindNothing'
        BY <1>1, <2>4 DEF UnnamedFindNothing
    <2> QED
        BY <1>0, <2>2, <2>3, <2>6, <2>7 DEF IInv
<1>9. ASSUME NEW p \in Processes, ReplayOperation(p) PROVE IInv'
    <2> DEFINE a == task[p].sent.agent
               row == task[p].found
    <2>1. task[p] # Idle /\ row # Absent /\ Finish(p, Replayed(a, row)) /\ UNCHANGED databaseVars
        BY <1>9 DEF ReplayOperation
    <2>2. task[p] \in Transactions /\ a \in Agents
        BY <1>0, <2>1 DEF TypeOK, Transactions, Requests
    <2>3. Replayed(a, row) \in Responses
        BY <2>2 DEF Replayed, Ok, Failure, Responses, Transactions, Rows
    <2>4. journal' = journal /\ results' = results
        BY <2>1 DEF databaseVars
    <2>5. a \in Keyed /\ row = results[KeyOf[a]]
        BY <1>1, <2>1 DEF UnnamedFindNothing, SnapshotsHold
    <2>6. KeyOf[a] \in Keys
        BY <2>2, <2>5, CallerConstants
    <2>7. Replayed(a, row).code = "OK" => EffectIn(journal', a, Replayed(a, row).node)
        <3> SUFFICES ASSUME Replayed(a, row).code = "OK"
                     PROVE  EffectIn(journal', a, Replayed(a, row).node)
            OBVIOUS
        <3>1. row.kind = KindOf[a] /\ Replayed(a, row).node = row.node
            BY DEF Replayed, Ok, Failure
        <3>2. ASSUME NEW k \in Keys, results[k] # Absent
              PROVE  /\ results[k].node \in DOMAIN journal
                     /\ KeyOf[journal[results[k].node].agent] = k
                     /\ KindOf[journal[results[k].node].agent] = results[k].kind
            BY <1>1, <3>2 DEF StoredWithItsWrite
        <3>3. results[KeyOf[a]] # Absent
            BY <2>1, <2>5
        <3> HIDE DEF a, row
        <3>4. /\ row.node \in DOMAIN journal
              /\ KeyOf[journal[row.node].agent] = KeyOf[a]
              /\ KindOf[journal[row.node].agent] = row.kind
            BY <2>5, <2>6, <3>2, <3>3
        <3> QED
            BY <2>4, <2>5, <3>1, <3>4 DEF EffectIn
    <2>8. Truths'
        BY <1>0, <1>1, <2>1, <2>3, <2>4, <2>7, FinishKeepsEffects
    <2>9. SnapshotsHold' /\ UnnamedFindNothing'
        BY <1>0, <1>1, <2>1, FinishKeepsTransactions
    <2>10. StoredWithItsWrite'
        BY <1>1, <2>4 DEF StoredWithItsWrite
    <2> QED
        BY <1>0, <2>8, <2>9, <2>10 DEF IInv
<1>10. ASSUME NEW p \in Processes, Commit(p) PROVE IInv'
    <2> DEFINE t == task[p].sent
               node == Len(journal) + 1
               w == [agent |-> t.agent, round |-> t.round, process |-> p, served |-> served[p] + 1]
    <2>1. task[p] # Idle /\ Finish(p, Ok(node)) /\ journal' = Append(journal, w)
        BY <1>10 DEF Commit
    <2>2. t \in Requests /\ t.agent \in Agents /\ t.round \in Rounds
        BY <1>0, <2>1 DEF TypeOK, Transactions, Requests
    <2>3. journal \in Seq(Writes) /\ w \in Writes /\ node \in Nat
        BY <1>0, <2>2 DEF TypeOK, Writes
    <2>4. Ok(node) \in Responses /\ Ok(node).node = node
        BY <2>3 DEF Ok, Responses
    <2>5. node \in DOMAIN journal' /\ journal'[node].agent = t.agent
        <3>1. journal'[node] = w
            BY <2>1, <2>3
        <3> QED
            BY <2>1, <2>3, <3>1
    <2>6. EffectIn(journal', t.agent, Ok(node).node)
        BY <2>4, <2>5 DEF EffectIn
    <2>7. \E x \in Writes : journal' = Append(journal, x)
        BY <2>1, <2>3
    <2>8. Truths'
        <3> HIDE DEF node
        <3> QED
            BY <1>0, <1>1, <2>1, <2>4, <2>6, <2>7, FinishKeepsEffects
    <2>9. Tables'
        BY <1>0, <1>1, <1>10, CommitStores
    <2> QED
        BY <1>0, <2>8, <2>9 DEF IInv
<1>11. ASSUME NEW p \in Processes, RollBack(p) PROVE IInv'
    <2> DEFINE failure == Failure("INTERNAL_ERROR")
    <2>1. /\ task[p] # Idle /\ Finish(p, failure) /\ UNCHANGED databaseVars
          /\ journal' = journal /\ results' = results
        BY <1>11 DEF RollBack, databaseVars
    <2>2. failure \in Responses /\ failure.code # "OK"
        BY DEF Failure, Responses
    <2>3. Truths'
        <3> HIDE DEF failure
        <3> QED
            BY <1>0, <1>1, <2>1, <2>2, FinishKeepsEffects
    <2>4. SnapshotsHold' /\ UnnamedFindNothing'
        BY <1>0, <1>1, <2>1, FinishKeepsTransactions
    <2>5. StoredWithItsWrite'
        BY <1>1, <2>1 DEF StoredWithItsWrite
    <2> QED
        BY <1>0, <2>3, <2>4, <2>5 DEF IInv
<1>12. ASSUME NEW p \in Processes, Start(p) \/ Stop(p) \/ Exit(p) \/ Crash(p) PROVE IInv'
    <2>1. UNCHANGED <<results, journal, stage, answer, reply>>
        BY <1>12 DEF Start, Stop, Exit, Crash, callerVars, databaseVars
    <2>2. \A q \in Processes : task'[q] = task[q] \/ task'[q] = Idle
        BY <1>0, <1>12 DEF Start, Stop, Exit, Crash, TypeOK
    <2>3. \A q \in Processes : session'[q] = session[q] \/ session'[q] = <<>>
        BY <1>0, <1>12 DEF Start, Stop, Exit, Crash, TypeOK
    <2>4. RepliesAreEffects' /\ AnswersAreEffects'
        BY <1>1, <2>1 DEF RepliesAreEffects, AnswersAreEffects
    <2>5. CacheHoldsEffects'
        BY <1>1, <2>1, <2>3 DEF CacheHoldsEffects
    <2>6. StoredWithItsWrite'
        BY <1>1, <2>1 DEF StoredWithItsWrite
    <2>7. SnapshotsHold' /\ UnnamedFindNothing'
        BY <1>1, <2>1, <2>2 DEF SnapshotsHold, UnnamedFindNothing
    <2> QED
        BY <1>0, <2>4, <2>5, <2>6, <2>7 DEF IInv
<1>13. CASE UNCHANGED vars
    BY <1>0, <1>1, <1>13 DEF vars, IInv, StoredWithItsWrite, SnapshotsHold, UnnamedFindNothing,
       RepliesAreEffects, CacheHoldsEffects, AnswersAreEffects
<1> QED
    BY <1>3, <1>4, <1>5, <1>6, <1>7, <1>8, <1>9, <1>10, <1>11, <1>12, <1>13
    DEF Next, CallerStep, Work

(* The inductive invariant holds in every state of every run. *)
THEOREM InvariantCorrect == Spec => []IInv
<1>1. Init => TypeOK
    BY InitialTypes
<1>2. Init => IInv
    <2> SUFFICES ASSUME Init PROVE IInv
        OBVIOUS
    <2>1. StoredWithItsWrite /\ SnapshotsHold /\ UnnamedFindNothing
        BY DEF Init, StoredWithItsWrite, SnapshotsHold, UnnamedFindNothing
    <2>2. RepliesAreEffects /\ CacheHoldsEffects /\ AnswersAreEffects
        BY DEF Init, RepliesAreEffects, CacheHoldsEffects, AnswersAreEffects, NoReply, Failure
    <2> QED
        BY <1>1, <2>1, <2>2 DEF IInv
<1>3. IInv /\ [Next]_vars => IInv'
    BY InvariantStep
<1> QED
    BY <1>2, <1>3, PTL DEF Spec

(* A named write takes effect once: two nodes under one key would both be   *)
(* the node of the key's row.                                               *)
THEOREM AppliedOnceCorrect == Spec => []AppliedOnce
<1>1. IInv => AppliedOnce
    <2> SUFFICES ASSUME IInv, NEW i \in DOMAIN journal, NEW j \in DOMAIN journal,
                        journal[i].agent \in Keyed,
                        KeyOf[journal[i].agent] = KeyOf[journal[j].agent]
                 PROVE  i = j
        BY DEF AppliedOnce
    <2>1. journal[j] \in Writes
        BY DEF IInv, TypeOK
    <2>2. journal[j].agent \in Keyed
        BY <2>1 DEF Writes, Keyed
    <2> QED
        BY <2>2 DEF IInv, StoredWithItsWrite
<1> QED
    BY <1>1, InvariantCorrect, PTL

(* Nobody is told of a node that is not the committed effect of its write. *)
THEOREM AnswersCorrect == Spec => []AnswersAreEffects
<1>1. IInv => AnswersAreEffects
    BY DEF IInv
<1> QED
    BY <1>1, InvariantCorrect, PTL

--------------------------------------------------------------------------------
(* The window of the replay cache *)

(* A process that has not started has served nothing, only a running one    *)
(* has a request in hand, and the cache holds the latest responses, as many *)
(* as the window admits.                                                    *)
CacheIsFull ==
    \A p \in Processes :
        /\ status[p] = "off" => session[p] = <<>> /\ served[p] = 0
        /\ task[p] # Idle => Running(p)
        /\ Running(p) => Len(session[p]) = IF served[p] <= Window THEN served[p] ELSE Window

(* A node is numbered with a response its process has already remembered;  *)
(* while that response is within the window, the cache has it in its place. *)
WritesAreRemembered ==
    \A i \in DOMAIN journal :
        LET p == journal[i].process
            behind == served[p] - journal[i].served IN
        /\ journal[i].served \in 1..served[p]
        /\ (Running(p) /\ behind < Len(session[p])) =>
              session[p][Len(session[p]) - behind].id = RequestId(journal[i])

(* The request in hand is not in the cache: nothing is remembered between   *)
(* its dispatch and its end.                                                *)
InHandIsNew == \A p \in Processes : task[p] # Idle => Remembered(p, task[p].sent) = {}

(* What makes the window hold in every state. *)
WindowInv ==
    /\ CacheIsFull
    /\ WritesAreRemembered
    /\ InHandIsNew
    /\ ReplayWindow

(* The response just remembered is the last of the cache, and those before  *)
(* it keep their distance from the end until the window pushes them out.    *)
LEMMA RememberWindow ==
    ASSUME NEW S, NEW s \in Seq(S), NEW e \in S, Len(s) <= Window,
           NEW r, r = Remember(s, e), NEW d \in Nat
    PROVE  /\ r \in Seq(S)
           /\ Len(r) = IF Len(s) < Window THEN Len(s) + 1 ELSE Window
           /\ Len(r) > 0 /\ r[Len(r)] = e
           /\ d + 1 < Len(r) => d < Len(s) /\ r[Len(r) - (d + 1)] = s[Len(s) - d]
<1> DEFINE grown == Append(s, e)
<1>0. Window \in Nat \ {0}
    BY ConstantsAssumption DEF Window
<1>1. /\ grown \in Seq(S)
      /\ Len(grown) = Len(s) + 1 /\ Len(s) \in Nat
      /\ \A i \in 1..Len(grown) : grown[i] = IF i <= Len(s) THEN s[i] ELSE e
    OBVIOUS
<1>2. CASE Len(grown) > Window
    <2>1. /\ Tail(grown) \in Seq(S)
          /\ Len(Tail(grown)) = Len(s)
          /\ \A i \in 1..Len(s) : Tail(grown)[i] = grown[i + 1]
        BY <1>1
    <2>2. r = Tail(grown)
        BY <1>2 DEF Remember
    <2> HIDE DEF grown
    <2>3. Len(r) = Len(s) /\ Len(s) = Window /\ r \in Seq(S)
        BY <1>0, <1>1, <1>2, <2>1, <2>2
    <2>4. r[Len(r)] = e
        BY <1>0, <1>1, <2>1, <2>2, <2>3
    <2>5. ASSUME d + 1 < Len(r) PROVE r[Len(r) - (d + 1)] = s[Len(s) - d]
        <3>1. Len(s) - (d + 1) \in 1..Len(s) /\ (Len(s) - (d + 1)) + 1 = Len(s) - d
            BY <1>1, <2>3, <2>5
        <3> QED
            BY <1>1, <2>1, <2>2, <2>3, <3>1
    <2> QED
        BY <1>0, <1>1, <2>3, <2>4, <2>5
<1>3. CASE ~(Len(grown) > Window)
    <2>1. r = grown
        BY <1>3 DEF Remember
    <2> HIDE DEF grown
    <2>2. Len(r) = Len(s) + 1 /\ Len(s) < Window /\ r \in Seq(S)
        BY <1>0, <1>1, <1>3, <2>1
    <2>3. r[Len(r)] = e
        BY <1>1, <2>1, <2>2
    <2>4. ASSUME d + 1 < Len(r) PROVE r[Len(r) - (d + 1)] = s[Len(s) - d]
        <3>1. Len(r) - (d + 1) = Len(s) - d /\ Len(s) - d \in 1..Len(s)
            BY <1>1, <2>2, <2>4
        <3> QED
            BY <1>1, <2>1, <2>2, <3>1
    <2> QED
        BY <1>0, <1>1, <2>2, <2>3, <2>4
<1> QED
    BY <1>1, <1>2, <1>3

(* A request that ends is remembered last; the node it wrote, if any, is    *)
(* numbered with it.                                                        *)
LEMMA FinishKeepsWindow ==
    ASSUME TypeOK, WindowInv, NEW p \in Processes, NEW response \in Responses,
           task[p] # Idle, Finish(p, response),
           \/ journal' = journal
           \/ journal' = Append(journal, [agent |-> task[p].sent.agent,
                                          round |-> task[p].sent.round, process |-> p,
                                          served |-> served[p] + 1])
    PROVE  WindowInv'
<1> DEFINE t == task[p].sent
           e == [id |-> RequestId(t), agent |-> t.agent, response |-> response]
           w == [agent |-> t.agent, round |-> t.round, process |-> p, served |-> served[p] + 1]
           s == session[p]
           r == Remember(s, e)
           n == served[p]
<1>0. /\ t \in Requests /\ t.agent \in Agents /\ t.round \in Rounds
      /\ journal \in Seq(Writes) /\ s \in Seq(Entries) /\ n \in Nat /\ Len(s) \in Nat
    BY DEF TypeOK, Transactions, Requests
<1>1. e \in Entries /\ e.id = RequestId(t)
    BY <1>0 DEF Entries, RequestIds, RequestId
<1>2. w \in Writes /\ w.process = p /\ w.served = n + 1 /\ RequestId(w) = RequestId(t)
    BY <1>0 DEF Writes, RequestId
<1>3. /\ status' = status
      /\ session' = [session EXCEPT ![p] = r]
      /\ served' = [served EXCEPT ![p] = n + 1]
      /\ task' = [task EXCEPT ![p] = Idle]
    BY DEF Finish
<1>4. Window \in Nat \ {0}
    BY ConstantsAssumption DEF Window
<1>5. /\ Running(p) /\ status[p] # "off"
      /\ Len(s) = IF n <= Window THEN n ELSE Window
    BY DEF WindowInv, CacheIsFull, Running
<1>6. /\ r \in Seq(Entries)
      /\ Len(r) = IF Len(s) < Window THEN Len(s) + 1 ELSE Window
      /\ Len(r) > 0 /\ r[Len(r)] = e
      /\ \A d \in Nat : d + 1 < Len(r) => d < Len(s) /\ r[Len(r) - (d + 1)] = s[Len(s) - d]
    <2>1. Len(s) <= Window /\ s \in Seq(Entries) /\ e \in Entries
        BY <1>0, <1>1, <1>4, <1>5
    <2>2. r = Remember(s, e)
        OBVIOUS
    <2> HIDE DEF e, s, r
    <2>3. r \in Seq(Entries)
        BY <2>1, <2>2, RememberWindow
    <2>4. Len(r) = IF Len(s) < Window THEN Len(s) + 1 ELSE Window
        BY <2>1, <2>2, RememberWindow
    <2>5. Len(r) > 0 /\ r[Len(r)] = e
        BY <2>1, <2>2, RememberWindow
    <2>6. ASSUME NEW d \in Nat, d + 1 < Len(r)
          PROVE  d < Len(s) /\ r[Len(r) - (d + 1)] = s[Len(s) - d]
        BY <2>1, <2>2, <2>6, RememberWindow
    <2> QED
        BY <2>3, <2>4, <2>5, <2>6
<1>7. /\ session'[p] = r /\ served'[p] = n + 1 /\ task'[p] = Idle
      /\ \A q \in Processes \ {p} :
            session'[q] = session[q] /\ served'[q] = served[q] /\ task'[q] = task[q]
    BY <1>3 DEF TypeOK
<1>8. \A i \in DOMAIN journal' :
         \/ i \in DOMAIN journal /\ journal'[i] = journal[i]
         \/ journal'[i] = w /\ i = Len(journal) + 1 /\ journal' = Append(journal, w)
    <2>1. CASE journal' = journal
        BY <2>1
    <2>2. CASE journal' = Append(journal, w)
        <3> HIDE DEF w
        <3> QED
            BY <1>0, <1>2, <2>2
    <2>3. journal' = journal \/ journal' = Append(journal, w)
        OBVIOUS
    <2> HIDE DEF w
    <2> QED
        BY <2>1, <2>2, <2>3
<1>9. /\ \A i \in DOMAIN journal : i \in 1..Len(journal) /\ journal[i] \in Writes
      /\ Len(journal) \in Nat
      /\ \A x \in Writes : x.process \in Processes /\ x.served \in Nat
    <2>1. \A x \in Writes : x.process \in Processes /\ x.served \in Nat
        BY DEF Writes
    <2> QED
        BY <1>0, <2>1
<1>10. ASSUME NEW i \in DOMAIN journal
       PROVE  /\ journal[i].process \in Processes
              /\ journal[i].served \in 1..served[journal[i].process]
              /\ served[journal[i].process] \in Nat
    BY <1>9 DEF WindowInv, WritesAreRemembered, TypeOK
<1> HIDE DEF t, e, w, s, r, n
<1>11. CacheIsFull'
    <2>1. Len(r) = IF n + 1 <= Window THEN n + 1 ELSE Window
        BY <1>0, <1>4, <1>5, <1>6
    <2> SUFFICES ASSUME NEW q \in Processes
                 PROVE  /\ status[q] = "off" => session'[q] = <<>> /\ served'[q] = 0
                        /\ task'[q] # Idle => Running(q)
                        /\ Running(q) => Len(session'[q])
                                           = IF served'[q] <= Window THEN served'[q] ELSE Window
        BY <1>3 DEF CacheIsFull, Running
    <2>2. CASE q = p
        BY <1>5, <1>7, <2>1, <2>2
    <2>3. CASE q # p
        BY <1>7, <2>3 DEF WindowInv, CacheIsFull
    <2> QED
        BY <2>2, <2>3
<1>12. WritesAreRemembered'
    <2> DEFINE Within(i) ==
            LET q == journal'[i].process
                behind == served'[q] - journal'[i].served IN
            /\ journal'[i].served \in 1..served'[q]
            /\ (Running(q) /\ behind < Len(session'[q])) =>
                  session'[q][Len(session'[q]) - behind].id = RequestId(journal'[i])
    <2> SUFFICES ASSUME NEW i \in DOMAIN journal' PROVE Within(i)
        BY <1>3 DEF WritesAreRemembered, Running, RequestId
    <2>1. CASE journal'[i] = w
        <3>1. Within(i) <=>
                 /\ n + 1 \in 1..(n + 1)
                 /\ (Running(p) /\ (n + 1) - (n + 1) < Len(r)) =>
                       r[Len(r) - ((n + 1) - (n + 1))].id = RequestId(w)
            BY <1>2, <1>7, <2>1
        <3>2. (n + 1) - (n + 1) = 0 /\ Len(r) - 0 = Len(r) /\ n + 1 \in 1..(n + 1)
            BY <1>0, <1>6
        <3> QED
            BY <1>1, <1>2, <1>6, <3>1, <3>2
    <2>2. CASE i \in DOMAIN journal /\ journal'[i] = journal[i]
        <3> DEFINE x == journal[i]
        <3>1. CASE x.process = p
            <4> DEFINE d == n - x.served
            <4>1. x.served \in 1..n /\ d \in Nat /\ (n + 1) - x.served = d + 1
                BY <1>0, <1>10, <2>2, <3>1 DEF n
            <4>2. d < Len(s) => s[Len(s) - d].id = RequestId(x)
                BY <1>5, <2>2, <3>1 DEF WindowInv, WritesAreRemembered, n, s
            <4>3. d + 1 < Len(r) => d < Len(s) /\ r[Len(r) - (d + 1)] = s[Len(s) - d]
                BY <1>6, <4>1
            <4>4. x.served \in 1..(n + 1)
                BY <1>0, <4>1
            <4> HIDE DEF d
            <4>5. Within(i) <=>
                     /\ x.served \in 1..(n + 1)
                     /\ (Running(p) /\ d + 1 < Len(r)) => r[Len(r) - (d + 1)].id = RequestId(x)
                BY <1>7, <2>2, <3>1, <4>1
            <4> QED
                BY <4>2, <4>3, <4>4, <4>5
        <3>2. CASE x.process # p
            BY <1>7, <1>10, <2>2, <3>2 DEF WindowInv, WritesAreRemembered
        <3> QED
            BY <3>1, <3>2
    <2> QED
        BY <1>8, <2>1, <2>2
<1>13. InHandIsNew'
    BY <1>7 DEF InHandIsNew, WindowInv, Remembered
<1>14. ReplayWindow'
    <2> SUFFICES ASSUME NEW i \in DOMAIN journal', NEW j \in DOMAIN journal', i < j,
                        journal'[i].process = journal'[j].process,
                        RequestId(journal'[i]) = RequestId(journal'[j])
                 PROVE  journal'[j].served - journal'[i].served > Window
        BY DEF ReplayWindow, RequestId
    <2>1. CASE i \in DOMAIN journal /\ journal'[i] = journal[i]
               /\ j \in DOMAIN journal /\ journal'[j] = journal[j]
        BY <2>1 DEF WindowInv, ReplayWindow, RequestId
    <2>2. CASE i \in DOMAIN journal /\ journal'[i] = journal[i] /\ journal'[j] = w
        <3> DEFINE x == journal[i]
                   d == n - x.served
        <3>1. x.process = p /\ RequestId(x) = RequestId(t)
            BY <1>2, <2>2
        <3>2. x.served \in 1..n /\ d \in Nat
            BY <1>0, <1>10, <2>2, <3>1 DEF n
        <3>3. d < Len(s) => s[Len(s) - d].id = RequestId(t)
            BY <1>5, <2>2, <3>1 DEF WindowInv, WritesAreRemembered, n, s
        <3>4. \A k \in DOMAIN s : s[k].id # RequestId(t)
            BY DEF WindowInv, InHandIsNew, Remembered, s, t
        <3>5. d < Len(s) => Len(s) - d \in DOMAIN s
            BY <1>0, <3>2
        <3>6. d >= Len(s)
            BY <1>0, <3>2, <3>3, <3>4, <3>5
        <3>7. (n + 1) - x.served > Window
            BY <1>0, <1>4, <1>5, <3>2, <3>6
        <3> QED
            BY <1>2, <2>2, <3>7
    <2>3. CASE i = Len(journal) + 1
        <3>1. j \in DOMAIN journal \/ j = Len(journal) + 1
            BY <1>8
        <3> QED
            BY <1>9, <2>3, <3>1
    <2> QED
        BY <1>8, <2>1, <2>2, <2>3
<1> QED
    BY <1>11, <1>12, <1>13, <1>14 DEF WindowInv

(* A step that ends no request leaves the nodes, the numbers and the cache  *)
(* of every running process.                                                *)
LEMMA WindowStays ==
    ASSUME TypeOK, WindowInv, journal' = journal, served' = served,
           \A p \in Processes :
              /\ status'[p] = "off" => status[p] = "off"
              /\ status'[p] \in {"off", "serving", "draining"} =>
                    /\ session'[p] = session[p]
                    /\ status[p] \in {"off", "serving", "draining"}
              /\ task'[p] # Idle =>
                    /\ status'[p] \in {"serving", "draining"}
                    /\ \A i \in DOMAIN session[p] : session[p][i].id # RequestId(task'[p].sent)
    PROVE  WindowInv'
<1>1. Window \in Nat \ {0}
    BY ConstantsAssumption DEF Window
<1>2. ASSUME NEW p \in Processes, status[p] = "off"
      PROVE  Len(session[p]) = IF served[p] <= Window THEN served[p] ELSE Window
    BY <1>1, <1>2 DEF WindowInv, CacheIsFull
<1>3. CacheIsFull'
    BY <1>2 DEF WindowInv, CacheIsFull, Running
<1>4. \A i \in DOMAIN journal : journal[i].process \in Processes
    <2> SUFFICES ASSUME NEW i \in DOMAIN journal PROVE journal[i].process \in Processes
        OBVIOUS
    <2>1. journal[i] \in Writes
        BY DEF TypeOK
    <2> QED
        BY <2>1 DEF Writes
<1>5. ASSUME NEW i \in DOMAIN journal, status[journal[i].process] = "off" PROVE FALSE
    BY <1>4, <1>5 DEF WindowInv, CacheIsFull, WritesAreRemembered
<1>6. WritesAreRemembered'
    BY <1>4, <1>5 DEF WindowInv, WritesAreRemembered, Running, RequestId
<1>7. InHandIsNew'
    BY DEF InHandIsNew, Remembered
<1>8. ReplayWindow'
    BY DEF WindowInv, ReplayWindow
<1> QED
    BY <1>3, <1>6, <1>7, <1>8 DEF WindowInv

(* Every step keeps the window. *)
LEMMA WindowStep ==
    ASSUME TypeOK, WindowInv, [Next]_vars PROVE WindowInv'
<1>0. /\ \A p \in Processes : task[p] # Idle => /\ status[p] \in {"serving", "draining"}
                                                /\ \A i \in DOMAIN session[p] :
                                                      session[p][i].id # RequestId(task[p].sent)
    BY DEF WindowInv, CacheIsFull, InHandIsNew, Remembered, Running
<1>1. CASE UNCHANGED <<status, task, session, served, journal>>
    BY <1>0, <1>1, WindowStays
<1>2. ASSUME NEW a \in Agents, CallerStep(a) PROVE WindowInv'
    <2>1. UNCHANGED <<status, task, session, served, journal>>
        BY <1>2 DEF CallerStep, Call, Connect, LoseTransport, Receive, Lookup, Retry,
           processVars, databaseVars
    <2> QED
        BY <1>1, <2>1
<1>3. ASSUME NEW p \in Processes, NEW t \in Requests, ReplayRequest(p, t) PROVE WindowInv'
    <2>1. UNCHANGED <<status, task, session, served, journal>>
        BY <1>3 DEF ReplayRequest, databaseVars
    <2> QED
        BY <1>1, <2>1
<1>4. ASSUME NEW p \in Processes, NEW t \in Requests, Begin(p, t) PROVE WindowInv'
    <2>1. /\ UNCHANGED <<status, session, served, journal>>
          /\ status[p] \in {"serving", "draining"}
          /\ task'[p].sent = t
          /\ \A q \in Processes \ {p} : task'[q] = task[q]
          /\ \A i \in DOMAIN session[p] : session[p][i].id # RequestId(t)
        BY <1>4 DEF Begin, databaseVars, Running, Remembered, TypeOK
    <2>2. ASSUME NEW q \in Processes, task'[q] # Idle
          PROVE  /\ status'[q] \in {"serving", "draining"}
                 /\ \A i \in DOMAIN session[q] : session[q][i].id # RequestId(task'[q].sent)
        <3>1. CASE q = p
            BY <2>1, <3>1
        <3>2. CASE q # p
            BY <1>0, <2>1, <2>2, <3>2
        <3> QED
            BY <3>1, <3>2
    <2>3. journal' = journal /\ served' = served /\ session' = session /\ status' = status
        BY <2>1
    <2> QED
        BY <2>2, <2>3, WindowStays
<1>5. ASSUME NEW p \in Processes, ReplayOperation(p) PROVE WindowInv'
    <2>1. /\ task[p] # Idle /\ journal' = journal
          /\ Finish(p, Replayed(task[p].sent.agent, task[p].found))
        BY <1>5 DEF ReplayOperation, databaseVars
    <2>2. Replayed(task[p].sent.agent, task[p].found) \in Responses
        BY <2>1 DEF TypeOK, Replayed, Ok, Failure, Responses, Transactions, Rows
    <2> QED
        BY <2>1, <2>2, FinishKeepsWindow
<1>6. ASSUME NEW p \in Processes, Commit(p) PROVE WindowInv'
    <2> DEFINE response == Ok(Len(journal) + 1)
    <2>1. /\ task[p] # Idle /\ Finish(p, response)
          /\ journal' = Append(journal, [agent |-> task[p].sent.agent,
                                         round |-> task[p].sent.round, process |-> p,
                                         served |-> served[p] + 1])
        BY <1>6 DEF Commit
    <2>2. response \in Responses
        BY DEF Ok, Responses, TypeOK
    <2> HIDE DEF response
    <2> QED
        BY <2>1, <2>2, FinishKeepsWindow
<1>7. ASSUME NEW p \in Processes, RollBack(p) PROVE WindowInv'
    <2> DEFINE response == Failure("INTERNAL_ERROR")
    <2>1. task[p] # Idle /\ Finish(p, response) /\ journal' = journal
        BY <1>7 DEF RollBack, databaseVars
    <2>2. response \in Responses
        BY DEF Failure, Responses
    <2> HIDE DEF response
    <2> QED
        BY <2>1, <2>2, FinishKeepsWindow
<1>8. ASSUME NEW p \in Processes, Start(p) \/ Stop(p) \/ Exit(p) \/ Crash(p) PROVE WindowInv'
    <2>1. journal' = journal /\ served' = served
        BY <1>8 DEF Start, Stop, Exit, Crash, databaseVars
    <2>2. ASSUME NEW q \in Processes
          PROVE  /\ status'[q] = "off" => status[q] = "off"
                 /\ status'[q] \in {"off", "serving", "draining"} =>
                       /\ session'[q] = session[q]
                       /\ status[q] \in {"off", "serving", "draining"}
                 /\ task'[q] # Idle => /\ task'[q] = task[q]
                                       /\ status'[q] \in {"serving", "draining"}
        BY <1>0, <1>8 DEF Start, Stop, Exit, Crash, Running, TypeOK
    <2> QED
        BY <1>0, <2>1, <2>2, WindowStays
<1>9. CASE UNCHANGED vars
    BY <1>1, <1>9 DEF vars
<1> QED
    BY <1>2, <1>3, <1>4, <1>5, <1>6, <1>7, <1>8, <1>9 DEF Next, Work

(* At-most-once execution under a request id lasts as long as the window:   *)
(* a process that writes twice under one id has remembered more than a      *)
(* window of responses in between.                                          *)
THEOREM ReplayWindowCorrect == Spec => []ReplayWindow
<1>1. Init => WindowInv
    BY DEF Init, WindowInv, CacheIsFull, WritesAreRemembered, InHandIsNew, ReplayWindow, Running,
       Remembered
<1>2. TypeOK /\ WindowInv /\ [Next]_vars => WindowInv'
    BY WindowStep
<1>3. WindowInv => ReplayWindow
    BY DEF WindowInv
<1> QED
    BY <1>1, <1>2, <1>3, TypeCorrect, PTL DEF Spec

--------------------------------------------------------------------------------
(* The promise to the callers that name their write *)

(* A caller is told of nothing, or of the node in the row of its key. *)
ToldOfTheRow ==
    \A a \in Keyed :
        stage[a] \in {"acknowledged", "confirmed"} =>
            /\ answer[a] = results[KeyOf[a]].node
            /\ answer[a] # 0

LEMMA ToldIsStored == IInv => ToldOfTheRow
<1> SUFFICES ASSUME IInv, NEW a \in Keyed, stage[a] \in {"acknowledged", "confirmed"}
             PROVE  /\ answer[a] = results[KeyOf[a]].node
                    /\ answer[a] # 0
    BY DEF ToldOfTheRow
<1>1. a \in Agents /\ EffectIn(journal, a, answer[a])
    BY DEF Keyed, IInv, AnswersAreEffects
<1>2. /\ answer[a] \in DOMAIN journal
      /\ KeyOf[journal[answer[a]].agent] = KeyOf[a]
    BY <1>1 DEF EffectIn
<1>3. journal \in Seq(Writes)
    BY DEF IInv, TypeOK
<1>4. journal[answer[a]].agent \in Keyed
    <2>1. journal[answer[a]] \in Writes
        BY <1>2, <1>3
    <2>2. journal[answer[a]].agent \in Agents
        BY <2>1 DEF Writes
    <2> QED
        BY <1>2, <2>2 DEF Keyed
<1>5. answer[a] # 0
    BY <1>2, <1>3
<1>6. \A i \in DOMAIN journal :
         journal[i].agent \in Keyed => results[KeyOf[journal[i].agent]].node = i
    BY DEF IInv, StoredWithItsWrite
<1> QED
    BY <1>2, <1>4, <1>5, <1>6

(* A row, once its node is written, stays; a commit writes one row. *)
LEMMA RowsStep ==
    ASSUME IInv, [Next]_vars
    PROVE  \/ results' = results
           \/ \E k \in Keys : /\ results[k].node = 0
                              /\ results'[k].node \in Nat \ {0}
                              /\ results' = [results EXCEPT ![k] = results'[k]]
                              /\ stage' = stage /\ answer' = answer
<1>1. CASE \E p \in Processes : Commit(p)
    <2> PICK p \in Processes : Commit(p)
        BY <1>1
    <2> DEFINE a == task[p].sent.agent
               row == [kind |-> KindOf[a], node |-> Len(journal) + 1]
    <2>1. a \in Agents
        BY DEF Commit, IInv, TypeOK, Transactions, Requests
    <2>2. results' = StoreOperation(a, Len(journal) + 1) /\ stage' = stage /\ answer' = answer
        BY DEF Commit, Finish
    <2>3. CASE a \notin Keyed
        BY <2>2, <2>3 DEF StoreOperation
    <2>4. CASE a \in Keyed
        <3>1. KeyOf[a] \in Keys
            BY <2>1, <2>4, CallerConstants
        <3>2. results[KeyOf[a]] = Absent
            BY <2>4 DEF Commit, CurrentSnapshot, IInv, SnapshotsHold
        <3>3. results' = [results EXCEPT ![KeyOf[a]] = row]
            BY <2>2, <2>4 DEF StoreOperation
        <3>4. row.node \in Nat \ {0}
            BY DEF IInv, TypeOK
        <3>5. results \in [Keys -> Rows]
            BY DEF IInv, TypeOK
        <3> HIDE DEF a, row
        <3>6. results'[KeyOf[a]] = row
            BY <3>1, <3>3, <3>5
        <3>7. results[KeyOf[a]].node = 0 /\ results'[KeyOf[a]].node \in Nat \ {0}
            BY <3>2, <3>4, <3>6 DEF Absent
        <3> QED
            BY <2>2, <3>1, <3>3, <3>6, <3>7
    <2> QED
        BY <2>3, <2>4
<1>2. CASE ~(\E p \in Processes : Commit(p))
    BY <1>2 DEF Next, CallerStep, Work, Call, Connect, LoseTransport, Receive, Lookup, Retry,
       ReplayRequest, Begin, ReplayOperation, RollBack, Start, Stop, Exit, Crash, databaseVars, vars
<1> QED
    BY <1>1, <1>2

(* A caller that has been told stays told; one caller at a time is told.    *)
LEMMA AnswersStep ==
    ASSUME IInv, [Next]_vars
    PROVE  \/ /\ answer' = answer
              /\ \A a \in Agents : stage'[a] \in {"acknowledged", "confirmed"}
                                    <=> stage[a] \in {"acknowledged", "confirmed"}
           \/ \E a \in Agents :
                 /\ results' = results
                 /\ stage[a] \notin {"acknowledged", "confirmed"}
                 /\ \A b \in Agents \ {a} : stage'[b] = stage[b] /\ answer'[b] = answer[b]
<1> DEFINE Told == {"acknowledged", "confirmed"}
           Same == /\ answer' = answer
                   /\ \A a \in Agents : stage'[a] \in Told <=> stage[a] \in Told
<1>0. stage \in [Agents -> {"idle", "connecting", "waiting", "acknowledged", "rejected",
                            "ambiguous", "confirmed", "absent"}] /\ answer \in [Agents -> Nat]
    BY DEF IInv, TypeOK
<1>1. ASSUME NEW a \in Agents, Call(a) PROVE Same
    BY <1>0, <1>1 DEF Call
<1>2. ASSUME NEW a \in Agents, NEW p \in Processes, Connect(a, p) PROVE Same
    BY <1>0, <1>2 DEF Connect
<1>3. ASSUME NEW a \in Agents, LoseTransport(a) PROVE Same
    BY <1>0, <1>3 DEF LoseTransport, InFlight
<1>4. ASSUME NEW a \in Agents, Retry(a) PROVE Same
    BY <1>0, <1>4 DEF Retry
<1>5. ASSUME NEW a \in Agents, Receive(a) \/ Lookup(a)
      PROVE  /\ results' = results
             /\ stage[a] \notin Told
             /\ \A b \in Agents \ {a} : stage'[b] = stage[b] /\ answer'[b] = answer[b]
    BY <1>0, <1>5 DEF Receive, Lookup, databaseVars
<1>6. ASSUME NEW p \in Processes, Work(p) PROVE Same
    BY <1>6 DEF Work, ReplayRequest, Begin, ReplayOperation, Commit, RollBack, Finish, callerVars
<1>7. ASSUME NEW p \in Processes, Start(p) \/ Stop(p) \/ Exit(p) \/ Crash(p) PROVE Same
    BY <1>7 DEF Start, Stop, Exit, Crash, callerVars
<1>8. CASE UNCHANGED vars
    BY <1>8 DEF vars
<1> QED
    BY <1>1, <1>2, <1>3, <1>4, <1>5, <1>6, <1>7, <1>8 DEF Next, CallerStep

(* The write path keeps its promise: a commit of a named write applies its *)
(* key, a received or confirmed answer tells its caller, and every other    *)
(* step changes nothing the promise speaks of.                              *)
THEOREM PromiseKept == Spec => KeepsPromise
<1> DEFINE Told == {"acknowledged", "confirmed"}
           eff == [k \in Keys |-> results[k].node]
           tld == [a \in Keyed |-> IF stage[a] \in Told THEN answer[a] ELSE 0]
<1>1. Init => Promise!Init
    BY DEF Init, Promise!Init, Absent, Keyed
<1>2. IInv /\ ToldOfTheRow' /\ [Next]_vars => [Promise!Next]_Promise!vars
    <2> SUFFICES ASSUME IInv, ToldOfTheRow', [Next]_vars PROVE Promise!Next \/ UNCHANGED Promise!vars
        OBVIOUS
    <2>1. CASE results' # results
        <3>1. PICK k \in Keys : /\ results[k].node = 0
                                /\ results'[k].node \in Nat \ {0}
                                /\ results' = [results EXCEPT ![k] = results'[k]]
                                /\ stage' = stage /\ answer' = answer
            BY <2>1, RowsStep
        <3>2. eff' = [eff EXCEPT ![k] = eff'[k]] /\ eff[k] = 0 /\ eff'[k] \in Nat \ {0}
            BY <3>1 DEF IInv, TypeOK
        <3>3. tld' = tld
            BY <3>1
        <3>4. Promise!Apply(k)
            BY <3>2, <3>3 DEF Promise!Apply
        <3> QED
            BY <3>4 DEF Promise!Next
    <2>2. CASE results' = results
        <3>1. eff' = eff
            BY <2>2
        <3>2. CASE answer' = answer /\ \A a \in Agents : stage'[a] \in Told <=> stage[a] \in Told
            <4>1. tld' = tld
                BY <3>2 DEF Keyed
            <4> QED
                BY <3>1, <4>1 DEF Promise!vars
        <3>3. ASSUME NEW a \in Agents, stage[a] \notin Told,
                     \A b \in Agents \ {a} : stage'[b] = stage[b] /\ answer'[b] = answer[b]
              PROVE  Promise!Next \/ UNCHANGED Promise!vars
            <4>1. CASE a \in Keyed /\ stage'[a] \in Told
                <5>1. answer'[a] = results'[KeyOf[a]].node /\ answer'[a] # 0
                    BY <4>1 DEF ToldOfTheRow
                <5>2. KeyOf[a] \in Keys
                    BY <4>1, CallerConstants
                <5>3. eff[KeyOf[a]] = answer'[a] /\ eff[KeyOf[a]] # 0
                    BY <2>2, <5>1, <5>2
                <5>4. tld' = [tld EXCEPT ![a] = eff[KeyOf[a]]]
                    BY <3>3, <4>1, <5>3 DEF Keyed
                <5>5. tld[a] = 0
                    BY <3>3, <4>1
                <5>6. Promise!Tell(a)
                    BY <3>1, <5>3, <5>4, <5>5 DEF Promise!Tell
                <5> QED
                    BY <4>1, <5>6 DEF Promise!Next
            <4>2. CASE ~(a \in Keyed /\ stage'[a] \in Told)
                <5>1. tld' = tld
                    BY <3>3, <4>2 DEF Keyed
                <5> QED
                    BY <3>1, <5>1 DEF Promise!vars
            <4> QED
                BY <4>1, <4>2
        <3> QED
            BY <3>2, <3>3, AnswersStep
    <2> QED
        BY <2>1, <2>2
<1> QED
    BY <1>1, <1>2, ToldIsStored, InvariantCorrect, PTL DEF Spec, KeepsPromise, Promise!Spec

================================================================================
