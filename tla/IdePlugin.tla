------------------------------ MODULE IdePlugin ------------------------------
(***************************************************************************)
(* Editors with the Nurones extension (plugins/vscode/src/extension.ts),   *)
(* the MCP servers they spawn, the port those compete for, and the         *)
(* connections a server keeps in memory (mcp-core/src/main.rs).            *)
(* An extension is single-threaded: an action is what it does between two  *)
(* awaits, an "on" callback, or one request that a server handles.  The    *)
(* activation and each open dialog are continuations that wait meanwhile.  *)
(* An editor activates the extension once, so it stands for the            *)
(* connection id it draws.                                                 *)
(***************************************************************************)
EXTENDS Integers, FiniteSets

CONSTANTS
  Editors,      \* windows with the extension
  Dialogs,      \* messages a window can have open at a time
  Processes,    \* servers that can be spawned (a bound)
  NoProcess,    \* null
  AutoStart,    \* the editors configured with nuronesMcp.autoStart
  MaxCrashes    \* bound: servers and editors that crash

Activation == "activation"
Threads == Dialogs \cup {Activation}

ASSUME EditorsAssumption ==
  Editors # {} /\ AutoStart \subseteq Editors /\ NoProcess \notin Processes
ASSUME DialogsAssumption == Activation \notin Dialogs
ASSUME CrashesAssumption == MaxCrashes \in Nat

VARIABLES
  phase,        \* where each editor is in its life
  mcpProcess,   \* the server an extension believes to be its own
  running,      \* what its status bar shows
  pc,           \* what each of its continuations waits for
  sawRunning,   \* const running of an open status message
  state,        \* where each server process is in its life
  parent,       \* the editor that spawned it
  killed,       \* the processes sent a SIGTERM
  port,         \* the process listening on the port
  connections,  \* process -> the connections in its ServerState
  network,      \* requests in flight
  crashes,      \* history: crashes so far
  overlapped,   \* history: editors that spawned a server before the exit of
                \* an earlier one had been reported to them
  late          \* history: editors that had closed when their POST was handled

extension == <<phase, mcpProcess, running, pc, sawRunning>>
server    == <<state, parent, killed, port, connections>>
vars      == <<extension, server, network, crashes, overlapped, late>>

Phases == {"off", "on", "left", "crashed"}
Waits  == {"none", "confirm", "status", "restart", "response"}
States == {"unborn", "failed", "starting", "listening", "deaf", "exited",
           "reaped"}

\* POST /api/connections or DELETE /api/connections/:id
Request == [op : {"register", "unregister"}, editor : Editors]

TypeOK ==
  /\ phase \in [Editors -> Phases]
  /\ mcpProcess \in [Editors -> Processes \cup {NoProcess}]
  /\ running \in [Editors -> BOOLEAN]
  /\ pc \in [Editors -> [Threads -> Waits]]
  /\ sawRunning \in [Editors -> [Dialogs -> BOOLEAN]]
  /\ state \in [Processes -> States]
  /\ parent \in [Processes -> Editors]
  /\ killed \subseteq Processes
  /\ port \in Processes \cup {NoProcess}
  /\ connections \in [Processes -> SUBSET Editors]
  /\ network \subseteq Request
  /\ crashes \in Nat
  /\ overlapped \subseteq Editors
  /\ late \subseteq Editors

Init ==
  /\ phase = [e \in Editors |-> "off"]
  /\ mcpProcess = [e \in Editors |-> NoProcess]
  /\ running = [e \in Editors |-> FALSE]
  /\ pc = [e \in Editors |-> [t \in Threads |-> "none"]]
  /\ sawRunning = [e \in Editors |-> [d \in Dialogs |-> FALSE]]
  /\ state = [p \in Processes |-> "unborn"]
  /\ parent \in [Processes -> {CHOOSE e \in Editors : TRUE}]
  /\ killed = {}
  /\ port = NoProcess
  /\ connections = [p \in Processes |-> {}]
  /\ network = {}
  /\ crashes = 0
  /\ overlapped = {}
  /\ late = {}

Alive == {p \in Processes : state[p] \in {"starting", "listening", "deaf"}}

-----------------------------------------------------------------------------
(* Starting and stopping a server.                                         *)

\* registerConnection, up to its fetch.
RegisterConnection(e) ==
  network' = network \cup {[op |-> "register", editor |-> e]}

\* startMcpServer has returned: a dialog's command ends, the activation goes
\* on to registerConnection.
Resume(e, t) ==
  IF t = Activation
    THEN /\ pc' = [pc EXCEPT ![e][t] = "response"]
         /\ RegisterConnection(e)
    ELSE /\ pc' = [pc EXCEPT ![e][t] = "none"]
         /\ UNCHANGED network

\* spawn().  A process that cannot be spawned is reported by an "error" event
\* right after, which changes the status bar and leaves mcpProcess.
Spawn(e, dying) ==
  \E p \in Processes, s \in {"starting", "failed"} :
    /\ state[p] = "unborn"
    /\ state' = [state EXCEPT ![p] = s]
    /\ parent' = [parent EXCEPT ![p] = e]
    /\ mcpProcess' = [mcpProcess EXCEPT ![e] = p]
    /\ running' = [running EXCEPT ![e] = s = "starting"]
    /\ killed' = killed \cup dying
    /\ overlapped' =
         IF \E q \in Processes : parent[q] = e /\ state[q] \in
               {"starting", "listening", "deaf", "exited"}
           THEN overlapped \cup {e} ELSE overlapped

\* startMcpServer, after a stopMcpServer that has killed dying: it returns
\* early when binary, configuration or folder is missing, asks when the
\* allowlist has warnings, and spawns otherwise.
StartMcpServer(e, t, dying) ==
  \/ /\ Spawn(e, dying)
     /\ Resume(e, t)
  \/ /\ \/ Resume(e, t)
        \/ /\ pc' = [pc EXCEPT ![e][t] = "confirm"]
           /\ UNCHANGED network
     /\ killed' = killed \cup dying
     /\ mcpProcess' = [mcpProcess EXCEPT
                         ![e] = IF dying = {} THEN @ ELSE NoProcess]
     /\ running' = [running EXCEPT ![e] = @ /\ dying = {}]
     /\ UNCHANGED <<state, parent, overlapped>>

\* Mutants: the process is forgotten and not killed; null is killed.
HeldNothing(e) == {}
HeldUnchecked(e) == {mcpProcess[e]}

\* The process that stopMcpServer kills, if it has one.
Held(e) == {mcpProcess[e]} \ {NoProcess}

StopMcpServer(e) ==
  /\ killed' = killed \cup Held(e)
  /\ mcpProcess' = [mcpProcess EXCEPT ![e] = NoProcess]
  /\ running' = [running EXCEPT ![e] = @ /\ mcpProcess[e] = NoProcess]
  /\ UNCHANGED <<state, parent, overlapped>>

-----------------------------------------------------------------------------
(* The extension.                                                          *)

\* activate: the commands are registered before the first await.
Activate(e) ==
  /\ phase[e] = "off"
  /\ phase' = [phase EXCEPT ![e] = "on"]
  /\ IF e \in AutoStart
       THEN StartMcpServer(e, Activation, {})
       ELSE /\ Resume(e, Activation)
            /\ UNCHANGED <<mcpProcess, running, state, parent, killed,
                           overlapped>>
  /\ UNCHANGED <<sawRunning, port, connections, crashes, late>>

\* The answer to "Filesystem allowlist has warnings. Proceed?"
Confirm(e, t) ==
  /\ phase[e] = "on"
  /\ pc[e][t] = "confirm"
  /\ Resume(e, t)
  /\ \/ Spawn(e, {})
     \/ UNCHANGED <<mcpProcess, running, state, parent, killed, overlapped>>
  /\ UNCHANGED <<phase, sawRunning, port, connections, crashes, late>>

\* showStatus, up to the message.
ShowStatus(e, d) ==
  /\ phase[e] = "on"
  /\ pc[e][d] = "none"
  /\ pc' = [pc EXCEPT ![e][d] = "status"]
  /\ sawRunning' = [sawRunning EXCEPT ![e][d] = mcpProcess[e] # NoProcess]
  /\ UNCHANGED <<phase, mcpProcess, running, server, network, crashes, late,
                 overlapped>>

\* The answer: start or stop, as offered when the message was opened, or
\* something that does neither.
AnswerStatus(e, d) ==
  /\ phase[e] = "on"
  /\ pc[e][d] = "status"
  /\ sawRunning' = [sawRunning EXCEPT ![e][d] = FALSE]
  /\ \/ /\ ~sawRunning[e][d]
        /\ StartMcpServer(e, d, {})
     \/ /\ sawRunning[e][d]
        /\ StopMcpServer(e)
        /\ Resume(e, d)
     \/ /\ Resume(e, d)
        /\ UNCHANGED <<mcpProcess, running, state, parent, killed, overlapped>>
  /\ UNCHANGED <<phase, port, connections, crashes, late>>

\* toggleContextEngine, after the configuration is updated.
ToggleContextEngine(e, d) ==
  /\ phase[e] = "on"
  /\ pc[e][d] = "none"
  /\ pc' = IF mcpProcess[e] # NoProcess
             THEN [pc EXCEPT ![e][d] = "restart"] ELSE pc
  /\ running' = [running EXCEPT ![e] = mcpProcess[e] # NoProcess]
  /\ UNCHANGED <<phase, mcpProcess, sawRunning, server, network, crashes, late,
                 overlapped>>

\* "Restart Now" stops and starts without an await in between.
AnswerRestart(e, d) ==
  /\ phase[e] = "on"
  /\ pc[e][d] = "restart"
  /\ \/ StartMcpServer(e, d, Held(e))
     \/ /\ Resume(e, d)
        /\ UNCHANGED <<mcpProcess, running, state, parent, killed, overlapped>>
  /\ UNCHANGED <<phase, sawRunning, port, connections, crashes, late>>

\* What is left of an extension whose host has ended.
Ended(e) ==
  /\ mcpProcess' = [mcpProcess EXCEPT ![e] = NoProcess]
  /\ running' = [running EXCEPT ![e] = FALSE]
  /\ pc' = [pc EXCEPT ![e] = [t \in Threads |-> "none"]]
  /\ sawRunning' = [sawRunning EXCEPT ![e] = [d \in Dialogs |-> FALSE]]

\* Mutant: only an editor that holds a server unregisters.
LeavingHolder(e) ==
  IF mcpProcess[e] = NoProcess THEN {}
  ELSE {[op |-> "unregister", editor |-> e]}

\* unregisterConnection: there is an id as soon as the POST has been sent.
Leaving(e) ==
  IF pc[e][Activation] = "confirm" THEN {}
  ELSE {[op |-> "unregister", editor |-> e]}

\* deactivate sends the DELETE, if there is a connection id, kills the server
\* and waits for neither.
Deactivate(e) ==
  /\ phase[e] = "on"
  /\ phase' = [phase EXCEPT ![e] = "left"]
  /\ network' = network \cup Leaving(e)
  /\ killed' = killed \cup Held(e)
  /\ Ended(e)
  /\ UNCHANGED <<state, parent, port, connections, crashes, late, overlapped>>

EditorCrash(e) ==
  /\ phase[e] = "on"
  /\ crashes < MaxCrashes
  /\ crashes' = crashes + 1
  /\ phase' = [phase EXCEPT ![e] = "crashed"]
  /\ Ended(e)
  /\ UNCHANGED <<server, network, overlapped, late>>

-----------------------------------------------------------------------------
(* The server processes.                                                   *)

\* start_api_server binds the port; a failure is logged and the process stays.
Bind(p) ==
  /\ state[p] = "starting"
  /\ state' = [state EXCEPT
                 ![p] = IF port = NoProcess THEN "listening" ELSE "deaf"]
  /\ port' = IF port = NoProcess THEN p ELSE port
  /\ UNCHANGED <<extension, parent, killed, connections, network, crashes, late,
                 overlapped>>

\* The process ends, by the signal or by itself, and its memory with it.
Exit(p) ==
  /\ p \in Alive
  /\ \/ p \in killed /\ UNCHANGED crashes
     \/ p \notin killed /\ crashes < MaxCrashes /\ crashes' = crashes + 1
  /\ state' = [state EXCEPT ![p] = "exited"]
  /\ port' = IF port = p THEN NoProcess ELSE port
  /\ connections' = [connections EXCEPT ![p] = {}]
  /\ UNCHANGED <<extension, parent, killed, network, overlapped, late>>

\* Mutant: the handler leaves the status bar as it is.
ExitEventSilent(p) ==
  /\ state[p] = "exited"
  /\ phase[parent[p]] = "on"
  /\ state' = [state EXCEPT ![p] = "reaped"]
  /\ mcpProcess' = [mcpProcess EXCEPT ![parent[p]] = NoProcess]
  /\ UNCHANGED <<phase, running, pc, sawRunning, parent, killed, port,
                 connections, network, crashes, late, overlapped>>

\* mcpProcess.on("exit"): whichever process it is that has exited.
ExitEvent(p) ==
  /\ state[p] = "exited"
  /\ phase[parent[p]] = "on"
  /\ state' = [state EXCEPT ![p] = "reaped"]
  /\ mcpProcess' = [mcpProcess EXCEPT ![parent[p]] = NoProcess]
  /\ running' = [running EXCEPT ![parent[p]] = FALSE]
  /\ UNCHANGED <<phase, pc, sawRunning, parent, killed, port, connections,
                 network, crashes, late, overlapped>>

\* A request reaches the process that listens, or is refused.
Handle(m) ==
  /\ m \in network
  /\ network' = network \ {m}
  /\ connections' =
       IF port = NoProcess THEN connections
       ELSE [connections EXCEPT
               ![port] = IF m.op = "register" THEN @ \cup {m.editor}
                         ELSE @ \ {m.editor}]
  /\ late' = IF m.op = "register" /\ phase[m.editor] # "on"
               THEN late \cup {m.editor} ELSE late
  /\ pc' = IF m.op = "register"
             THEN [pc EXCEPT ![m.editor][Activation] = "none"] ELSE pc
  /\ UNCHANGED <<phase, mcpProcess, running, sawRunning, state, parent, killed,
                 port, crashes, overlapped>>

-----------------------------------------------------------------------------
(* The specification.                                                      *)

\* Nothing is left to happen by itself.
Quiescent ==
  /\ \A e \in Editors : phase[e] \in {"left", "crashed"}
  /\ Alive \cap killed = {} /\ network = {}
  /\ \A p \in Processes : state[p] # "starting"
  /\ UNCHANGED vars

Next ==
  \/ \E e \in Editors :
       Activate(e) \/ Deactivate(e) \/ EditorCrash(e)
  \/ \E e \in Editors, t \in Threads : Confirm(e, t)
  \/ \E e \in Editors, d \in Dialogs :
       \/ ShowStatus(e, d)
       \/ AnswerStatus(e, d)
       \/ ToggleContextEngine(e, d)
       \/ AnswerRestart(e, d)
  \/ \E p \in Processes : Bind(p) \/ Exit(p) \/ ExitEvent(p)
  \/ \E m \in network : Handle(m)
  \/ Quiescent

Spec == Init /\ [][Next]_vars

-----------------------------------------------------------------------------
(* Safety.                                                                 *)

\* The status bar follows mcpProcess through every callback: it shows a
\* server when there is a handle to one, and shows none only when there is no
\* handle or the process could not be spawned.
BarFollowsHandle ==
  \A e \in Editors :
    /\ running[e] => mcpProcess[e] # NoProcess
    /\ mcpProcess[e] # NoProcess /\ ~running[e] =>
         state[mcpProcess[e]] = "failed"

\* A live server that nobody has killed is the one its extension holds, unless
\* that extension spawned one before the exit of an earlier one was reported.
ServersTracked ==
  \A p \in Alive \ killed :
    phase[parent[p]] = "on" /\ parent[p] \notin overlapped =>
      mcpProcess[parent[p]] = p

\* A server lists the editors that registered with it while it held the port.
\* One that has closed stays on the list only while its DELETE is on the way, or
\* when the POST it had sent before was handled after it had closed: deactivate
\* waits for neither.  One that has crashed stays.
ListedEditors ==
  /\ \A p \in Processes \ {port} : connections[p] = {}
  /\ \A p \in Processes : \A e \in connections[p] :
       phase[e] = "left" =>
         e \in late \/ [op |-> "unregister", editor |-> e] \in network
=============================================================================
