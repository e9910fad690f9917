----------------------------- MODULE ReliableWrite -----------------------------
(***************************************************************************)
(* One write from an Agent to the database and back.                       *)
(*                                                                         *)
(* A caller (the CLI or the MCP bridge) sends a write through DaemonClient *)
(* .call, which makes two attempts under one request id.  A daemon process *)
(* runs requests one at a time under its session mutex, remembers the      *)
(* response of each request id in a bounded replay cache, and writes in a  *)
(* SQLite transaction that looks up and stores the operationId's result.   *)
(* Requests time out while the daemon still works on them, processes crash *)
(* and lose their cache, and a process that is shutting down still         *)
(* finishes its requests while its successor already serves.               *)
(***************************************************************************)
EXTENDS Naturals, Sequences

CONSTANTS
    Agents,       \* callers, each with one write to make
    Processes,    \* daemon processes; each is started at most once
    Keys,         \* (project, operationId) pairs
    NoKey,        \* the caller gives no operationId
    NoKind,       \* no operation kind
    KeyOf,        \* KeyOf[a]: the key a's write carries, or NoKey
    KindOf,       \* KindOf[a]: the kind of a's write
    RequestIdOf,  \* RequestIdOf[a][n]: the request id of a's n-th call
    Capacity,     \* replay_capacity of the session
    MaxRounds     \* bound: calls a caller makes for its one write

Kinds == {KindOf[a] : a \in Agents}
Rounds == 1..MaxRounds

ASSUME ConstantsAssumption ==
    /\ NoKey \notin Keys
    /\ KeyOf \in [Agents -> Keys \cup {NoKey}]
    /\ NoKind \notin Kinds
    /\ Capacity \in Nat
    /\ MaxRounds \in Nat \ {0}

VARIABLES
    stage,     \* where the caller is in its write
    round,     \* the DaemonClient.call the caller is in
    attempt,   \* the attempt of that call
    reply,     \* the response on its way to the caller
    answer,    \* the node the caller was told of, 0 for none
    status,    \* the life of each process
    pending,   \* requests of a process waiting for its session mutex
    task,      \* the request that holds the session mutex
    session,   \* the replay cache: the recent entries, oldest first
    served,    \* how many responses a process has remembered
    results,   \* the operation_results table
    journal    \* the nodes written, in commit order

callerVars == <<stage, round, attempt, reply, answer>>
processVars == <<status, pending, task, session, served>>
databaseVars == <<results, journal>>
vars == <<stage, round, attempt, reply, answer, status, pending, task,
          session, served, results, journal>>

--------------------------------------------------------------------------------
(* Data *)

Keyed == {a \in Agents : KeyOf[a] # NoKey}

Ok(node) == [code |-> "OK", node |-> node]
Failure(code) == [code |-> code, node |-> 0]
NoReply == Failure("NONE")
Responses == [code : {"OK", "OPERATION_CONFLICT", "INTERNAL_ERROR", "NONE"}, node : Nat]

(* A row of operation_results: the kind and the result it was stored with. *)
Absent == [kind |-> NoKind, node |-> 0]
Rows == [kind : Kinds \cup {NoKind}, node : Nat]

(* One HTTP request; the two attempts of a call carry the same request id. *)
Requests == [agent : Agents, round : Rounds, attempt : 1..2]
RequestId(t) == RequestIdOf[t.agent][t.round]
RequestIds == {RequestIdOf[a][n] : a \in Agents, n \in Rounds}
Current(a) == [agent |-> a, round |-> round[a], attempt |-> attempt[a]]

(* A replay entry: what was asked under the id, and the response given. *)
Entries == [id : RequestIds, agent : Agents, response : Responses]

(* A transaction: the snapshot it reads and the row it found there. *)
Idle == [sent |-> [agent |-> NoKey, round |-> 0, attempt |-> 0], snapshot |-> 0, found |-> Absent]
Transactions == [sent : Requests, snapshot : Nat, found : Rows]

(* A node, with the request and the process that wrote it and the number of *)
(* responses the process will have remembered with this one.                *)
Writes == [agent : Agents, round : Rounds, process : Processes, served : Nat]

RunningUntilStopped(p) == status[p] = "serving"
Running(p) == status[p] \in {"serving", "draining"}

Init ==
    /\ stage = [a \in Agents |-> "idle"]
    /\ round = [a \in Agents |-> 1]
    /\ attempt = [a \in Agents |-> 1]
    /\ reply = [a \in Agents |-> NoReply]
    /\ answer = [a \in Agents |-> 0]
    /\ status = [p \in Processes |-> "off"]
    /\ pending = [p \in Processes |-> {}]
    /\ task = [p \in Processes |-> Idle]
    /\ session = [p \in Processes |-> <<>>]
    /\ served = [p \in Processes |-> 0]
    /\ results = [k \in Keys |-> Absent]
    /\ journal = <<>>

--------------------------------------------------------------------------------
(* The caller: DaemonClient.call and the confirmation of an ambiguous write *)

Call(a) ==
    /\ stage[a] = "idle"
    /\ stage' = [stage EXCEPT ![a] = "connecting"]
    /\ UNCHANGED <<round, attempt, reply, answer, processVars, databaseVars>>

(* The request reaches the process that owns the port. *)
Connect(a, p) ==
    /\ stage[a] = "connecting"
    /\ status[p] = "serving"
    /\ stage' = [stage EXCEPT ![a] = "waiting"]
    /\ pending' = [pending EXCEPT ![p] = @ \cup {Current(a)}]
    /\ UNCHANGED <<round, attempt, reply, answer, status, task, session, served, databaseVars>>

InFlightUntilConnected == {"connecting"}
InFlight == {"connecting", "waiting"}

(* The connection fails or its timeout fires, at any time before a response *)
(* is read; the daemon may still hold the request.  One retry, under the    *)
(* same request id, then DAEMON_UNAVAILABLE.                                *)
LoseTransport(a) ==
    /\ stage[a] \in InFlight
    /\ \/ /\ attempt[a] = 1
          /\ attempt' = [attempt EXCEPT ![a] = 2]
          /\ stage' = [stage EXCEPT ![a] = "connecting"]
       \/ /\ attempt[a] = 2
          /\ stage' = [stage EXCEPT ![a] = "ambiguous"]
          /\ UNCHANGED attempt
    /\ reply' = [reply EXCEPT ![a] = NoReply]
    /\ UNCHANGED <<round, answer, processVars, databaseVars>>

(* The response is read: a result ends the call, and so does any failure.  *)
Receive(a) ==
    /\ stage[a] = "waiting"
    /\ reply[a] # NoReply
    /\ stage' = [stage EXCEPT ![a] = IF reply[a].code = "OK" THEN "acknowledged" ELSE "rejected"]
    /\ answer' = [answer EXCEPT ![a] = reply[a].node]
    /\ reply' = [reply EXCEPT ![a] = NoReply]
    /\ UNCHANGED <<round, attempt, processVars, databaseVars>>

(* getOperationResult with the original operationId and kind. *)
Stored(a) ==
    /\ results[KeyOf[a]] # Absent
    /\ results[KeyOf[a]].kind = KindOf[a]

Lookup(a) ==
    /\ a \in Keyed
    /\ stage[a] = "ambiguous"
    /\ \E p \in Processes : status[p] = "serving"
    /\ \/ /\ Stored(a)
          /\ stage' = [stage EXCEPT ![a] = "confirmed"]
          /\ answer' = [answer EXCEPT ![a] = results[KeyOf[a]].node]
       \/ /\ ~Stored(a)
          /\ stage' = [stage EXCEPT ![a] = "absent"]
          /\ UNCHANGED answer
    /\ UNCHANGED <<round, attempt, reply, processVars, databaseVars>>

(* No durable result was found: the write is made again, as a new call. *)
Retry(a) ==
    /\ stage[a] = "absent"
    /\ round[a] < MaxRounds
    /\ round' = [round EXCEPT ![a] = @ + 1]
    /\ attempt' = [attempt EXCEPT ![a] = 1]
    /\ stage' = [stage EXCEPT ![a] = "connecting"]
    /\ UNCHANGED <<reply, answer, processVars, databaseVars>>

--------------------------------------------------------------------------------
(* A daemon process: one request at a time under the session mutex *)

(* VecDeque plus map: the oldest entry goes when the window is exceeded. *)
Window == IF Capacity = 0 THEN 1 ELSE Capacity

RememberTooFew(entries, e) ==
    LET grown == Append(entries, e)
    IN  IF Len(grown) >= Window THEN Tail(grown) ELSE grown
Remember(entries, e) ==
    LET grown == Append(entries, e)
    IN  IF Len(grown) > Window THEN Tail(grown) ELSE grown

(* A response is written to the connection of the attempt that asked; a     *)
(* connection the caller has destroyed takes it to the grave.               *)
Answer(t, response) ==
    reply' = IF stage[t.agent] = "waiting" /\ Current(t.agent) = t
             THEN [reply EXCEPT ![t.agent] = response]
             ELSE reply

(* The request that holds the mutex ends: remember, release, respond. *)
Finish(p, response) ==
    LET t == task[p].sent IN
    /\ session' = [session EXCEPT ![p] =
                     Remember(@, [id |-> RequestId(t), agent |-> t.agent, response |-> response])]
    /\ served' = [served EXCEPT ![p] = @ + 1]
    /\ task' = [task EXCEPT ![p] = Idle]
    /\ Answer(t, response)
    /\ UNCHANGED <<stage, round, attempt, answer, status, pending>>

Remembered(p, t) == {i \in DOMAIN session[p] : session[p][i].id = RequestId(t)}

(* The same id with the same content is answered from the cache, another    *)
(* content under a known id is refused; neither is remembered again.        *)
CachedEntry(e, t) == e
CachedWithoutComparing(e, t) == e.response
Cached(e, t) ==
    IF e.agent = t.agent THEN e.response ELSE Failure("OPERATION_CONFLICT")

ReplayRequest(p, t) ==
    /\ Running(p)
    /\ task[p] = Idle
    /\ t \in pending[p]
    /\ pending' = [pending EXCEPT ![p] = @ \ {t}]
    /\ \E i \in Remembered(p, t) : Answer(t, Cached(session[p][i], t))
    /\ UNCHANGED <<stage, round, attempt, answer, status, task, session, served, databaseVars>>

(* An unknown id is dispatched: the transaction takes its snapshot with the *)
(* read of operation_results.                                               *)
Begin(p, t) ==
    /\ Running(p)
    /\ task[p] = Idle
    /\ t \in pending[p]
    /\ Remembered(p, t) = {}
    /\ pending' = [pending EXCEPT ![p] = @ \ {t}]
    /\ task' = [task EXCEPT ![p] =
                  [sent |-> t, snapshot |-> Len(journal),
                   found |-> IF t.agent \in Keyed THEN results[KeyOf[t.agent]] ELSE Absent]]
    /\ UNCHANGED <<callerVars, status, session, served, databaseVars>>

(* The operationId is known: its result is replayed, or its kind differs. *)
ReplayedWhateverKind(a, row) == Ok(row.node)
Replayed(a, row) ==
    IF row.kind = KindOf[a] THEN Ok(row.node) ELSE Failure("OPERATION_CONFLICT")

ReplayOperation(p) ==
    /\ task[p] # Idle
    /\ task[p].found # Absent
    /\ Finish(p, Replayed(task[p].sent.agent, task[p].found))
    /\ UNCHANGED databaseVars

(* A deferred transaction may write only while its snapshot is current. *)
CurrentSnapshotIgnored(p) == TRUE
CurrentSnapshot(p) == task[p].snapshot = Len(journal)

StoreNothing(a, node) == results
StoreOperation(a, node) ==
    IF a \in Keyed
    THEN [results EXCEPT ![KeyOf[a]] = [kind |-> KindOf[a], node |-> node]]
    ELSE results

Commit(p) ==
    LET t == task[p].sent
        node == Len(journal) + 1 IN
    /\ task[p] # Idle
    /\ task[p].found = Absent
    /\ CurrentSnapshot(p)
    /\ journal' = Append(journal, [agent |-> t.agent, round |-> t.round, process |-> p,
                                   served |-> served[p] + 1])
    /\ results' = StoreOperation(t.agent, node)
    /\ Finish(p, Ok(node))

(* Anything else rolls the savepoint back: a stale snapshot, a full disk.  *)
(* The failure is remembered like a result.                                 *)
RollBack(p) ==
    /\ task[p] # Idle
    /\ task[p].found = Absent
    /\ Finish(p, Failure("INTERNAL_ERROR"))
    /\ UNCHANGED databaseVars

--------------------------------------------------------------------------------
(* The life of the processes *)

(* The fixed port admits one listener. *)
Start(p) ==
    /\ status[p] = "off"
    /\ \A q \in Processes : status[q] # "serving"
    /\ status' = [status EXCEPT ![p] = "serving"]
    /\ UNCHANGED <<callerVars, pending, task, session, served, databaseVars>>

(* Graceful shutdown releases the listener first and then waits. *)
Stop(p) ==
    /\ status[p] = "serving"
    /\ status' = [status EXCEPT ![p] = "draining"]
    /\ UNCHANGED <<callerVars, pending, task, session, served, databaseVars>>

(* An open browser stream may hold the exit back for as long as it lasts.  *)
Exit(p) ==
    /\ status[p] = "draining"
    /\ pending[p] = {}
    /\ task[p] = Idle
    /\ status' = [status EXCEPT ![p] = "gone"]
    /\ session' = [session EXCEPT ![p] = <<>>]
    /\ UNCHANGED <<callerVars, pending, task, served, databaseVars>>

(* A crash forgets the cache and rolls the open transaction back. *)
Crash(p) ==
    /\ Running(p)
    /\ status' = [status EXCEPT ![p] = "gone"]
    /\ pending' = [pending EXCEPT ![p] = {}]
    /\ task' = [task EXCEPT ![p] = Idle]
    /\ session' = [session EXCEPT ![p] = <<>>]
    /\ UNCHANGED <<callerVars, served, databaseVars>>

--------------------------------------------------------------------------------
CallerStep(a) ==
    \/ Call(a)
    \/ \E p \in Processes : Connect(a, p)
    \/ LoseTransport(a)
    \/ Receive(a)
    \/ Lookup(a)
    \/ Retry(a)

Work(p) ==
    \/ \E t \in Requests : ReplayRequest(p, t)
    \/ \E t \in Requests : Begin(p, t)
    \/ ReplayOperation(p)
    \/ Commit(p)
    \/ RollBack(p)

Next ==
    \/ \E a \in Agents : CallerStep(a)
    \/ \E p \in Processes :
          Work(p) \/ Start(p) \/ Stop(p) \/ Exit(p) \/ Crash(p)

Spec == Init /\ [][Next]_vars

(* Sockets time out, and a process that runs goes on working.  Nothing is  *)
(* owed by callers that have not called, nor by starts, stops, exits and   *)
(* crashes.                                                                *)
FairSpec ==
    /\ Spec
    /\ \A a \in Agents : WF_vars(LoseTransport(a)) /\ WF_vars(Receive(a))
    /\ \A p \in Processes : WF_vars(Work(p))

--------------------------------------------------------------------------------
(* Properties *)

TypeOK ==
    /\ stage \in [Agents -> {"idle", "connecting", "waiting", "acknowledged", "rejected",
                             "ambiguous", "confirmed", "absent"}]
    /\ round \in [Agents -> Rounds]
    /\ attempt \in [Agents -> 1..2]
    /\ reply \in [Agents -> Responses]
    /\ answer \in [Agents -> Nat]
    /\ status \in [Processes -> {"off", "serving", "draining", "gone"}]
    /\ pending \in [Processes -> SUBSET Requests]
    /\ task \in [Processes -> Transactions \cup {Idle}]
    /\ session \in [Processes -> Seq(Entries)]
    /\ served \in [Processes -> Nat]
    /\ results \in [Keys -> Rows]
    /\ journal \in Seq(Writes)

(* The writes that share an operationId take effect once, whatever is lost, *)
(* retried or restarted, and though two processes may work at the same time. *)
AppliedOnce ==
    \A i, j \in DOMAIN journal :
        /\ journal[i].agent \in Keyed
        /\ KeyOf[journal[i].agent] = KeyOf[journal[j].agent]
        => i = j

(* In a journal, a node is the effect of a's write: a wrote it or it was    *)
(* stored under a's operationId by a write of the same kind.                *)
EffectIn(log, a, node) ==
    /\ node \in DOMAIN log
    /\ LET author == log[node].agent IN
       IF a \in Keyed
       THEN KeyOf[author] = KeyOf[a] /\ KindOf[author] = KindOf[a]
       ELSE author = a

(* Whoever was told of a result was told of a committed node that is the    *)
(* effect of its own write: no response leaks to another request, and none  *)
(* precedes its commit.                                                     *)
AnswersAreEffects ==
    \A a \in Agents :
        stage[a] \in {"acknowledged", "confirmed"} => EffectIn(journal, a, answer[a])

(* The table of operation results and the nodes are written together: each *)
(* row leads to the node of a write with its key and kind, and each named   *)
(* write is the one its key's row leads to.                                 *)
StoredWithItsWrite ==
    /\ \A k \in Keys :
          results[k] # Absent =>
             /\ results[k].node \in DOMAIN journal
             /\ KeyOf[journal[results[k].node].agent] = k
             /\ KindOf[journal[results[k].node].agent] = results[k].kind
    /\ \A i \in DOMAIN journal :
          journal[i].agent \in Keyed => results[KeyOf[journal[i].agent]].node = i

(* What an open transaction has read stays true until its snapshot is stale *)
(* (a row, once stored, for good).                                          *)
SnapshotsHold ==
    \A p \in Processes :
        LET a == task[p].sent.agent IN
        task[p] # Idle =>
            /\ task[p].snapshot <= Len(journal)
            /\ a \in Keyed =>
                 \/ task[p].found = results[KeyOf[a]]
                 \/ task[p].found = Absent /\ task[p].snapshot < Len(journal)

(* The unnamed write finds no row. *)
UnnamedFindNothing ==
    \A p \in Processes :
        (task[p] # Idle /\ task[p].sent.agent \notin Keyed) => task[p].found = Absent

(* Every result on its way to a caller or kept for replay is the effect of  *)
(* the write it answers.                                                    *)
RepliesAreEffects ==
    \A a \in Agents : reply[a].code = "OK" => EffectIn(journal, a, reply[a].node)
CacheHoldsEffects ==
    \A p \in Processes : \A i \in DOMAIN session[p] :
        session[p][i].response.code = "OK"
            => EffectIn(journal, session[p][i].agent, session[p][i].response.node)

(* The inductive invariant of the proofs. *)
IInv ==
    /\ TypeOK
    /\ StoredWithItsWrite
    /\ SnapshotsHold
    /\ UnnamedFindNothing
    /\ RepliesAreEffects
    /\ CacheHoldsEffects
    /\ AnswersAreEffects

(* A process executes a request id a second time only after its cache has   *)
(* remembered a whole window of other responses since the first.            *)
ReplayWindow ==
    \A i, j \in DOMAIN journal :
        /\ i < j
        /\ journal[i].process = journal[j].process
        /\ RequestIdOf[journal[i].agent][journal[i].round]
             = RequestIdOf[journal[j].agent][journal[j].round]
        => journal[j].served - journal[i].served > Window

(* The write path implements its promise to the callers that name a write. *)
Promise == INSTANCE ConfirmedWrite WITH
    Callers <- Keyed,
    effect <- [k \in Keys |-> results[k].node],
    told <- [a \in Keyed |-> IF stage[a] \in {"acknowledged", "confirmed"}
                             THEN answer[a] ELSE 0]
KeepsPromise == Promise!Spec

(* A call never hangs: a lost request, a crash or a slow transaction ends   *)
(* in an answer or in the daemon being reported unavailable.                *)
CallsReturn ==
    \A a \in Agents :
        stage[a] \in {"connecting", "waiting"} ~> stage[a] \notin {"connecting", "waiting"}

(* A process asked to stop gets rid of every request it has accepted.      *)
RequestsDrain ==
    \A p \in Processes :
        status[p] = "draining" ~> pending[p] = {} /\ task[p] = Idle

(* What the retry design says of every write, named or not (violated).      *)
NoDuplicateNodes ==
    \A i, j \in DOMAIN journal :
        journal[i].agent = journal[j].agent => i = j

================================================================================
