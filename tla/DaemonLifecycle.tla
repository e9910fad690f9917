---------------------------- MODULE DaemonLifecycle ----------------------------
(***************************************************************************)
(* Daemon processes of one data directory and the clients that start and   *)
(* stop them.  A process reads the token, opens the database, binds the    *)
(* fixed port, publishes its descriptor and pid file, serves, and on       *)
(* SIGTERM drains and removes both files.  A client that reaches no daemon *)
(* spawns one and polls; several may do so at once.                        *)
(***************************************************************************)
EXTENDS DatabaseOpen

CONSTANTS
    Clients,         \* processes that run ensureInstalledDaemon
    NoToken,         \* there is no token file
    EmptyToken       \* it has been created and not yet written

Daemons == Openers
NoDaemon == NoOpener

ASSUME LifecycleAssumption ==
    /\ Clients \cap Openers = {}
    /\ NoToken # EmptyToken /\ NoToken \notin Clients /\ EmptyToken \notin Clients

VARIABLES
    daemon,        \* each process: how far it is
    listener,      \* the process that has the port
    descriptor,    \* the process that daemon.json names
    pidFile,       \* the process that the pid file names
    tokenFile,     \* the token file: the client that wrote its token
    token,         \* the token each process and client has read
    client,        \* each client: how far it is
    service,       \* the process the login service has started
    stopper        \* the command that stops the daemon: [at, pid]

daemonVars == <<daemon, listener, descriptor, pidFile>>
clientVars == <<tokenFile, token, client>>
vars == <<databaseVars, daemonVars, clientVars, service, stopper>>

Alive(d) == daemon[d] \notin {"unborn", "gone"}
ToState(d, state) == daemon' = [daemon EXCEPT ![d] = state]
ToClient(c, state) == client' = [client EXCEPT ![c] = state]

Stopper(state, d) == [at |-> state, pid |-> d]
Resting == Stopper("idle", NoDaemon)

Init ==
    /\ DatabaseInit
    /\ daemon = [d \in Daemons |-> "unborn"]
    /\ listener = NoDaemon /\ descriptor = NoDaemon /\ pidFile = NoDaemon
    /\ tokenFile = NoToken
    /\ token = [x \in Daemons \cup Clients |-> NoToken]
    /\ client = [c \in Clients |-> "start"]
    /\ service = NoDaemon
    /\ stopper = Resting

--------------------------------------------------------------------------------
(* A daemon process: run_daemon *)

ReadToken(d) ==
    /\ daemon[d] = "token"
    /\ \/ /\ tokenFile \in {NoToken, EmptyToken}
          /\ ToState(d, "gone")
          /\ UNCHANGED <<databaseVars, token>>
       \/ /\ tokenFile \notin {NoToken, EmptyToken}
          /\ token' = [token EXCEPT ![d] = tokenFile]
          /\ ToState(d, "opening")
          /\ Open(d)
    /\ UNCHANGED <<listener, descriptor, pidFile, tokenFile, client, service, stopper>>

OpenDatabase(d) ==
    /\ daemon[d] = "opening"
    /\ \/ OpenStep(d) /\ UNCHANGED daemon
       \/ At(d, "failed") /\ ToState(d, "gone") /\ UNCHANGED databaseVars
    /\ UNCHANGED <<listener, descriptor, pidFile, clientVars, service, stopper>>

(* serve_loopback: one process can have the port; another one exits.       *)
BindShared(d) ==
    /\ daemon[d] = "opening" /\ At(d, "open")
    /\ listener' = d
    /\ ToState(d, "bound")
    /\ UNCHANGED <<databaseVars, descriptor, pidFile, clientVars, service, stopper>>
BindWhenFree(d) ==
    /\ listener = NoDaemon
    /\ BindShared(d)
Bind(d) ==
    /\ daemon[d] = "opening" /\ At(d, "open")
    /\ \/ /\ listener = NoDaemon
          /\ listener' = d
          /\ ToState(d, "bound")
          /\ UNCHANGED databaseVars
       \/ /\ listener # NoDaemon
          /\ ToState(d, "gone")
          /\ Abandon(d)
          /\ UNCHANGED listener
    /\ UNCHANGED <<descriptor, pidFile, clientVars, service, stopper>>

WriteDescriptor(d) ==
    /\ daemon[d] = "bound"
    /\ descriptor' = d
    /\ ToState(d, "described")
    /\ UNCHANGED <<databaseVars, listener, pidFile, clientVars, service, stopper>>

WritePidFile(d) ==
    /\ daemon[d] = "described"
    /\ pidFile' = d
    /\ ToState(d, "serving")
    /\ UNCHANGED <<databaseVars, listener, descriptor, clientVars, service, stopper>>

(* The graceful shutdown gives the port up and waits for what is connected, *)
(* which a browser's event stream can put off for as long as it is open.    *)
ReleasePort(d) == IF listener = d THEN NoDaemon ELSE listener
Terminated(d) ==
    /\ daemon[d] = "serving"
    /\ listener' = ReleasePort(d)
    /\ ToState(d, "draining")
    /\ UNCHANGED <<databaseVars, descriptor, pidFile>>

RemoveDescriptor(d) ==
    /\ daemon[d] = "draining"
    /\ descriptor' = NoDaemon
    /\ ToState(d, "closed")
    /\ UNCHANGED <<databaseVars, listener, pidFile, clientVars, service, stopper>>

RemovePidFile(d) ==
    /\ daemon[d] = "closed"
    /\ pidFile' = NoDaemon
    /\ ToState(d, "gone")
    /\ Abandon(d)
    /\ UNCHANGED <<listener, descriptor, clientVars, service, stopper>>

(* The process ends at once: its files stay, its port is free.             *)
Die(d) ==
    /\ Alive(d)
    /\ ToState(d, "gone")
    /\ listener' = ReleasePort(d)
    /\ Abandon(d)
    /\ UNCHANGED <<descriptor, pidFile>>
Crash(d) ==
    /\ Die(d)
    /\ UNCHANGED <<clientVars, service, stopper>>

(* The login service keeps a process of its own running.                   *)
KeepAlive(d) ==
    /\ service # NoDaemon => daemon[service] = "gone"
    /\ tokenFile \notin {NoToken, EmptyToken}
    /\ daemon[d] = "unborn"
    /\ ToState(d, "token")
    /\ service' = d
    /\ UNCHANGED <<databaseVars, listener, descriptor, pidFile, clientVars, stopper>>

--------------------------------------------------------------------------------
(* A client: ensureInstalledDaemon *)

(* ensureDaemonCredentials: look, create exclusively, write, read.          *)
FindToken(c) ==
    /\ client[c] = "start"
    /\ ToClient(c, IF tokenFile = NoToken THEN "create" ELSE "read")
    /\ UNCHANGED <<databaseVars, daemonVars, tokenFile, token, service, stopper>>
CreateTokenOver(c) ==
    /\ client[c] = "create"
    /\ tokenFile' = EmptyToken
    /\ ToClient(c, "write")
    /\ UNCHANGED <<databaseVars, daemonVars, token, service, stopper>>
CreateToken(c) ==
    /\ client[c] = "create"
    /\ IF tokenFile = NoToken
       THEN tokenFile' = EmptyToken /\ ToClient(c, "write")
       ELSE ToClient(c, "failed") /\ UNCHANGED tokenFile
    /\ UNCHANGED <<databaseVars, daemonVars, token, service, stopper>>
WriteToken(c) ==
    /\ client[c] = "write"
    /\ tokenFile' = c
    /\ ToClient(c, "read")
    /\ UNCHANGED <<databaseVars, daemonVars, token, service, stopper>>
KeepToken(c) ==
    /\ client[c] = "read"
    /\ token' = [token EXCEPT ![c] = tokenFile]
    /\ ToClient(c, "probe")
    /\ UNCHANGED <<databaseVars, daemonVars, tokenFile, service, stopper>>

(* A probe reads the descriptor and calls the fixed port: whoever has it    *)
(* answers, if it has the same token.                                       *)
Answers(t) == /\ descriptor # NoDaemon
              /\ listener # NoDaemon
              /\ token[listener] = t

Reach(c) ==
    /\ client[c] \in {"probe", "poll"}
    /\ Answers(token[c])
    /\ ToClient(c, "connected")
    /\ UNCHANGED <<databaseVars, daemonVars, tokenFile, token, service, stopper>>
Spawn(c, d) ==
    /\ client[c] = "probe" /\ ~Answers(token[c])
    /\ daemon[d] = "unborn"
    /\ ToState(d, "token")
    /\ ToClient(c, "poll")
    /\ UNCHANGED <<databaseVars, listener, descriptor, pidFile, tokenFile, token, service, stopper>>
GiveUp(c) ==
    /\ client[c] = "poll" /\ ~Answers(token[c])
    /\ ToClient(c, "failed")
    /\ UNCHANGED <<databaseVars, daemonVars, tokenFile, token, service, stopper>>

--------------------------------------------------------------------------------
(* Stopping: stopInstalledDaemonIfRunning *)

OnlyStopper == UNCHANGED <<databaseVars, daemonVars, clientVars, service>>

ReadPid ==
    /\ stopper = Resting /\ descriptor # NoDaemon
    /\ stopper' = Stopper("authenticate", descriptor)
    /\ OnlyStopper
(* The pid must be alive, and the port must answer with the token.          *)
Authenticate ==
    /\ stopper.at = "authenticate"
    /\ stopper' = IF Alive(stopper.pid) /\ listener # NoDaemon
                  THEN Stopper("signal", stopper.pid) ELSE Resting
    /\ OnlyStopper
Signal ==
    /\ stopper.at = "signal"
    /\ stopper' = Stopper("wait", stopper.pid)
    /\ LET d == stopper.pid IN
       \/ Terminated(d)
       \/ daemon[d] \in {"bound", "described"} /\ Die(d)      \* no handler yet
       \/ daemon[d] \in {"draining", "closed", "gone"} /\ UNCHANGED <<databaseVars, daemonVars>>
    /\ UNCHANGED <<clientVars, service>>
(* It waits until the process is gone, or for as long as it cares to.       *)
StopWaiting ==
    /\ stopper.at = "wait"
    /\ stopper' = Resting
    /\ OnlyStopper

--------------------------------------------------------------------------------
DaemonStep(d) ==
    \/ ReadToken(d) \/ OpenDatabase(d) \/ Bind(d) \/ WriteDescriptor(d) \/ WritePidFile(d)
Next ==
    \/ \E d \in Daemons : DaemonStep(d) \/ RemoveDescriptor(d) \/ RemovePidFile(d)
                          \/ Crash(d) \/ KeepAlive(d)
    \/ \E c \in Clients :
          \/ FindToken(c) \/ CreateToken(c) \/ WriteToken(c) \/ KeepToken(c)
          \/ Reach(c) \/ GiveUp(c)
          \/ \E d \in Daemons : Spawn(c, d)
    \/ ReadPid \/ Authenticate \/ Signal \/ StopWaiting

Spec == Init /\ [][Next]_vars
FairSpec == Spec /\ \A d \in Daemons : WF_vars(DaemonStep(d))

--------------------------------------------------------------------------------
(* Properties *)

DaemonStates == {"unborn", "token", "opening", "bound", "described", "serving", "draining",
                 "closed", "gone"}
ClientStates == {"start", "create", "write", "read", "probe", "poll", "connected", "failed"}
Tokens == Clients \cup {NoToken, EmptyToken}

TypeOK ==
    /\ DatabaseTypeOK
    /\ daemon \in [Daemons -> DaemonStates]
    /\ {listener, descriptor, pidFile, service} \subseteq Daemons \cup {NoDaemon}
    /\ tokenFile \in Tokens
    /\ token \in [Daemons \cup Clients -> Tokens]
    /\ client \in [Clients -> ClientStates]
    /\ stopper \in [at : {"idle", "authenticate", "signal", "wait"}, pid : Daemons \cup {NoDaemon}]

Published(d) == daemon[d] = "serving"

(* However processes overlap and die, the files never send a client to      *)
(* another process than the one that serves: stale ones of a dead process   *)
(* have been replaced, and no loser of the port ever publishes.             *)
FilesNeverMislead ==
    \A d \in Daemons : Published(d) => /\ listener = d
                                       /\ descriptor \in {d, NoDaemon}
                                       /\ pidFile \in {d, NoDaemon}

(* Clients that start the first daemon together agree on one token with it: *)
(* none serves another token than the file holds, and a client is connected *)
(* with that token only.                                                    *)
OneToken ==
    /\ \A d \in Daemons : daemon[d] \in DaemonStates \ {"unborn", "token", "gone"}
                             => token[d] = tokenFile
    /\ \A c \in Clients : client[c] = "connected" => token[c] = tokenFile

(* A started process settles: it serves, or it ends, whatever lock, port or *)
(* file the others hold.                                                    *)
StartupSettles ==
    \A d \in Daemons : (daemon[d] = "token") ~> (daemon[d] \in {"serving", "draining", "closed", "gone"})

(* What the migration plan says of the descriptor: a graceful shutdown      *)
(* removes its own and a stale one is replaced, so that a daemon that       *)
(* serves can be found (violated).                                          *)
ServingIsPublished ==
    \A d \in Daemons : Published(d) => descriptor = d

================================================================================
