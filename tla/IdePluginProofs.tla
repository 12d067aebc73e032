--------------------------- MODULE IdePluginProofs ---------------------------
(***************************************************************************)
(* Proofs about IdePlugin, for every number of editors, dialogs, servers   *)
(* and crashes.                                                            *)
(***************************************************************************)
EXTENDS IdePlugin, TLAPS

-----------------------------------------------------------------------------
(* What the parts of the extension's commands do to the types.             *)

LEMMA ThreadsFact ==
  /\ Activation \in Threads
  /\ \A d \in Dialogs : d \in Threads /\ d # Activation
BY DialogsAssumption DEF Threads

LEMMA WaitType ==
  ASSUME TypeOK, NEW e \in Editors, NEW t \in Threads, NEW w \in Waits
  PROVE  [pc EXCEPT ![e][t] = w] \in [Editors -> [Threads -> Waits]]
<1>1. pc[e] \in [Threads -> Waits]
  BY DEF TypeOK
<1>2. [pc[e] EXCEPT ![t] = w] \in [Threads -> Waits]
  BY <1>1
<1>3. QED
  BY <1>2 DEF TypeOK

LEMMA ResumeType ==
  ASSUME TypeOK, NEW e \in Editors, NEW t \in Threads, Resume(e, t)
  PROVE  /\ pc' \in [Editors -> [Threads -> Waits]]
         /\ network' \subseteq Request
<1>1. [op |-> "register", editor |-> e] \in Request
  BY DEF Request
<1>2. "none" \in Waits /\ "response" \in Waits
  BY DEF Waits
<1>3. pc' \in [Editors -> [Threads -> Waits]]
  <2>1. [pc EXCEPT ![e][t] = "response"] \in [Editors -> [Threads -> Waits]]
    BY <1>2, WaitType
  <2>2. [pc EXCEPT ![e][t] = "none"] \in [Editors -> [Threads -> Waits]]
    BY <1>2, WaitType
  <2>3. QED
    BY <2>1, <2>2, Zenon DEF Resume
<1>4. network' \subseteq Request
  BY <1>1 DEF Resume, RegisterConnection, TypeOK
<1>5. QED
  BY <1>3, <1>4

LEMMA SpawnType ==
  ASSUME TypeOK, NEW e \in Editors, NEW dying \in SUBSET Processes, Spawn(e, dying)
  PROVE  /\ mcpProcess' \in [Editors -> Processes \cup {NoProcess}]
         /\ running' \in [Editors -> BOOLEAN]
         /\ state' \in [Processes -> States]
         /\ parent' \in [Processes -> Editors]
         /\ killed' \subseteq Processes
         /\ overlapped' \subseteq Editors
BY DEF Spawn, TypeOK, States

LEMMA StartType ==
  ASSUME TypeOK, NEW e \in Editors, NEW t \in Threads,
         NEW dying \in SUBSET Processes, StartMcpServer(e, t, dying)
  PROVE  /\ mcpProcess' \in [Editors -> Processes \cup {NoProcess}]
         /\ running' \in [Editors -> BOOLEAN]
         /\ pc' \in [Editors -> [Threads -> Waits]]
         /\ state' \in [Processes -> States]
         /\ parent' \in [Processes -> Editors]
         /\ killed' \subseteq Processes
         /\ overlapped' \subseteq Editors
         /\ network' \subseteq Request
<1>1. CASE Spawn(e, dying) /\ Resume(e, t)
  BY <1>1, SpawnType, ResumeType
<1>2. CASE /\ \/ Resume(e, t)
              \/ /\ pc' = [pc EXCEPT ![e][t] = "confirm"]
                 /\ UNCHANGED network
           /\ killed' = killed \cup dying
           /\ mcpProcess' = [mcpProcess EXCEPT
                               ![e] = IF dying = {} THEN @ ELSE NoProcess]
           /\ running' = [running EXCEPT ![e] = @ /\ dying = {}]
           /\ UNCHANGED <<state, parent, overlapped>>
  <2>1. [pc EXCEPT ![e][t] = "confirm"] \in [Editors -> [Threads -> Waits]]
    BY WaitType, "confirm" \in Waits DEF Waits
  <2>2. pc' \in [Editors -> [Threads -> Waits]] /\ network' \subseteq Request
    <3>1. CASE Resume(e, t)
      BY <3>1, ResumeType
    <3>2. CASE pc' = [pc EXCEPT ![e][t] = "confirm"] /\ UNCHANGED network
      BY <3>2, <2>1, Zenon DEF TypeOK
    <3>3. QED
      BY <1>2, <3>1, <3>2
  <2>3. QED
    BY <1>2, <2>2 DEF TypeOK
<1>3. QED
  BY <1>1, <1>2 DEF StartMcpServer

LEMMA HeldType ==
  ASSUME TypeOK, NEW e \in Editors
  PROVE  Held(e) \in SUBSET Processes
BY DEF Held, TypeOK

LEMMA EndedType ==
  ASSUME TypeOK, NEW e \in Editors, Ended(e)
  PROVE  /\ mcpProcess' \in [Editors -> Processes \cup {NoProcess}]
         /\ running' \in [Editors -> BOOLEAN]
         /\ pc' \in [Editors -> [Threads -> Waits]]
         /\ sawRunning' \in [Editors -> [Dialogs -> BOOLEAN]]
BY DEF Ended, TypeOK, Waits

LEMMA TypeInit == Init => TypeOK
BY EditorsAssumption DEF Init, TypeOK, Phases, States, Waits

LEMMA TypeStep == TypeOK /\ [Next]_vars => TypeOK'
<1> SUFFICES ASSUME TypeOK, [Next]_vars PROVE TypeOK'
  OBVIOUS
<1>1. ASSUME NEW e \in Editors, Activate(e)
      PROVE  TypeOK'
  <2>1. CASE e \in AutoStart
    <3>1. StartMcpServer(e, Activation, {})
      BY <1>1, <2>1 DEF Activate
    <3>2. QED
      BY <1>1, <3>1, StartType, ThreadsFact DEF Activate, TypeOK, Phases
  <2>2. CASE e \notin AutoStart
    BY <1>1, <2>2, ResumeType, ThreadsFact DEF Activate, TypeOK, Phases
  <2>3. QED
    BY <2>1, <2>2
<1>2. ASSUME NEW e \in Editors, NEW t \in Threads, Confirm(e, t)
      PROVE  TypeOK'
  <2>1. CASE Spawn(e, {})
    BY <1>2, <2>1, SpawnType, ResumeType DEF Confirm, TypeOK
  <2>2. CASE UNCHANGED <<mcpProcess, running, state, parent, killed, overlapped>>
    BY <1>2, <2>2, ResumeType DEF Confirm, TypeOK
  <2>3. QED
    BY <1>2, <2>1, <2>2 DEF Confirm
<1>3. ASSUME NEW e \in Editors, NEW d \in Dialogs, ShowStatus(e, d)
      PROVE  TypeOK'
  BY <1>3, ThreadsFact DEF ShowStatus, TypeOK, Waits, server
<1>4. ASSUME NEW e \in Editors, NEW d \in Dialogs, AnswerStatus(e, d)
      PROVE  TypeOK'
  <2>1. sawRunning' \in [Editors -> [Dialogs -> BOOLEAN]]
    BY <1>4 DEF AnswerStatus, TypeOK
  <2>2. CASE StartMcpServer(e, d, {})
    BY <1>4, <2>1, <2>2, StartType, ThreadsFact DEF AnswerStatus, TypeOK
  <2>3. CASE StopMcpServer(e) /\ Resume(e, d)
    BY <1>4, <2>1, <2>3, HeldType, ResumeType, ThreadsFact
    DEF AnswerStatus, StopMcpServer, TypeOK
  <2>4. CASE /\ Resume(e, d)
             /\ UNCHANGED <<mcpProcess, running, state, parent, killed, overlapped>>
    BY <1>4, <2>1, <2>4, ResumeType, ThreadsFact DEF AnswerStatus, TypeOK
  <2>5. QED
    BY <1>4, <2>2, <2>3, <2>4 DEF AnswerStatus
<1>5. ASSUME NEW e \in Editors, NEW d \in Dialogs, ToggleContextEngine(e, d)
      PROVE  TypeOK'
  BY <1>5, ThreadsFact DEF ToggleContextEngine, TypeOK, Waits, server
<1>6. ASSUME NEW e \in Editors, NEW d \in Dialogs, AnswerRestart(e, d)
      PROVE  TypeOK'
  <2>1. CASE StartMcpServer(e, d, Held(e))
    BY <1>6, <2>1, HeldType, StartType, ThreadsFact DEF AnswerRestart, TypeOK
  <2>2. CASE /\ Resume(e, d)
             /\ UNCHANGED <<mcpProcess, running, state, parent, killed, overlapped>>
    BY <1>6, <2>2, ResumeType, ThreadsFact DEF AnswerRestart, TypeOK
  <2>3. QED
    BY <1>6, <2>1, <2>2 DEF AnswerRestart
<1>7. ASSUME NEW e \in Editors, Deactivate(e)
      PROVE  TypeOK'
  <2>1. Leaving(e) \subseteq Request
    BY DEF Leaving, Request
  <2>2. QED
    BY <1>7, <2>1, HeldType, EndedType DEF Deactivate, TypeOK, Phases
<1>8. ASSUME NEW e \in Editors, EditorCrash(e)
      PROVE  TypeOK'
  BY <1>8, EndedType DEF EditorCrash, TypeOK, Phases, server
<1>9. ASSUME NEW p \in Processes, Bind(p)
      PROVE  TypeOK'
  BY <1>9 DEF Bind, TypeOK, States, extension
<1>10. ASSUME NEW p \in Processes, Exit(p)
       PROVE  TypeOK'
  BY <1>10 DEF Exit, TypeOK, States, extension
<1>11. ASSUME NEW p \in Processes, ExitEvent(p)
       PROVE  TypeOK'
  BY <1>11 DEF ExitEvent, TypeOK, States
<1>12. ASSUME NEW m \in network, Handle(m)
       PROVE  TypeOK'
  <2>1. m.editor \in Editors
    BY DEF TypeOK, Request
  <2>2. connections' \in [Processes -> SUBSET Editors]
    BY <1>12, <2>1 DEF Handle, TypeOK
  <2>3. pc' \in [Editors -> [Threads -> Waits]]
    BY <1>12, <2>1, ThreadsFact DEF Handle, TypeOK, Waits
  <2>4. late' \subseteq Editors
    BY <1>12, <2>1 DEF Handle, TypeOK
  <2>5. QED
    BY <1>12, <2>2, <2>3, <2>4 DEF Handle, TypeOK
<1>13. CASE UNCHANGED vars
  BY <1>13 DEF vars, extension, server, TypeOK
<1>14. QED
  BY <1>1, <1>2, <1>3, <1>4, <1>5, <1>6, <1>7, <1>8, <1>9, <1>10, <1>11, <1>12,
     <1>13 DEF Next, Quiescent

\* Whatever editors, servers and requests do, the variables keep their types
\* (extension.ts, main.rs connections).
THEOREM PluginTypeCorrect == Spec => []TypeOK
BY TypeInit, TypeStep, PTL DEF Spec

-----------------------------------------------------------------------------
(* Seen from the servers, the commands of an extension are all alike: they *)
(* spawn a server, stop the one held, or leave the servers alone.          *)

Unmoved == UNCHANGED <<mcpProcess, running, state, parent, killed, overlapped>>

Respawn(e) == Spawn(e, {}) \/ Spawn(e, Held(e)) \/ StopMcpServer(e) \/ Unmoved

\* pc and network as the start of a registration by e, or another step of e's
\* dialogs, changes them.
Registers(e) ==
  \/ /\ RegisterConnection(e)
     /\ pc' = [pc EXCEPT ![e][Activation] = "response"]
  \/ /\ UNCHANGED network
     /\ \/ phase[e] = "off"
        \/ pc'[e][Activation] = pc[e][Activation]
     /\ \A f \in Editors \ {e} : pc'[f] = pc[f]

Command(e) ==
  /\ phase[e] \in {"off", "on"}
  /\ phase' = [phase EXCEPT ![e] = "on"]
  /\ Respawn(e)
  /\ Registers(e)
  /\ UNCHANGED <<port, connections, crashes, late>>

LEMMA StartIsCommand ==
  ASSUME TypeOK, NEW e \in Editors, NEW t \in Threads,
         StartMcpServer(e, t, {}) \/ StartMcpServer(e, t, Held(e))
  PROVE  Respawn(e)
<1>1. CASE StartMcpServer(e, t, {})
  BY <1>1 DEF StartMcpServer, Respawn, Unmoved, TypeOK
<1>2. CASE StartMcpServer(e, t, Held(e))
  <2>1. Held(e) = {} <=> mcpProcess[e] = NoProcess
    BY DEF Held
  <2>2. QED
    BY <1>2, <2>1 DEF StartMcpServer, StopMcpServer, Respawn, TypeOK
<1>3. QED
  BY <1>1, <1>2

LEMMA DialogRegisters ==
  ASSUME TypeOK, NEW e \in Editors, NEW d \in Dialogs, NEW w \in Waits,
         pc' = [pc EXCEPT ![e][d] = w], UNCHANGED network
  PROVE  Registers(e)
<1>1. d \in Threads /\ d # Activation /\ Activation \in Threads
  BY ThreadsFact
<1>2. pc[e] \in [Threads -> Waits] /\ pc \in [Editors -> [Threads -> Waits]]
  BY DEF TypeOK
<1>3. pc'[e] = [pc[e] EXCEPT ![d] = w] /\ \A f \in Editors \ {e} : pc'[f] = pc[f]
  BY <1>2
<1>4. pc'[e][Activation] = pc[e][Activation]
  BY <1>1, <1>2, <1>3
<1>5. QED
  BY <1>3, <1>4 DEF Registers

LEMMA ResumeRegisters ==
  ASSUME TypeOK, NEW e \in Editors, NEW t \in Threads, Resume(e, t)
  PROVE  Registers(e)
<1>1. CASE t = Activation
  BY <1>1 DEF Resume, Registers
<1>2. CASE t # Activation
  <2>1. t \in Dialogs
    BY <1>2 DEF Threads
  <2>2. pc' = [pc EXCEPT ![e][t] = "none"] /\ UNCHANGED network
    BY <1>2 DEF Resume
  <2>3. "none" \in Waits
    BY DEF Waits
  <2>4. QED
    BY <2>1, <2>2, <2>3, DialogRegisters
<1>3. QED
  BY <1>1, <1>2

LEMMA StartRegisters ==
  ASSUME TypeOK, NEW e \in Editors, NEW t \in Threads, NEW dying,
         StartMcpServer(e, t, dying), phase[e] = "off" \/ t # Activation
  PROVE  Registers(e)
<1>1. CASE Resume(e, t)
  BY <1>1, ResumeRegisters
<1>2. CASE pc' = [pc EXCEPT ![e][t] = "confirm"] /\ UNCHANGED network
  <2>1. CASE t # Activation
    <3>1. t \in Dialogs
      BY <2>1 DEF Threads
    <3>2. "confirm" \in Waits
      BY DEF Waits
    <3>3. QED
      BY <1>2, <3>1, <3>2, DialogRegisters
  <2>2. CASE phase[e] = "off"
    BY <1>2, <2>2 DEF Registers, TypeOK
  <2>3. QED
    BY <2>1, <2>2
<1>3. QED
  BY <1>1, <1>2 DEF StartMcpServer

\* A step is a command of an extension, or one of the other callbacks.
Callback ==
  \/ \E e \in Editors : Command(e) \/ Deactivate(e) \/ EditorCrash(e)
  \/ \E e \in Editors, d \in Dialogs : ToggleContextEngine(e, d)
  \/ \E p \in Processes : Bind(p) \/ Exit(p) \/ ExitEvent(p)
  \/ \E m \in network : Handle(m)
  \/ UNCHANGED vars

LEMMA StepIsCallback ==
  ASSUME TypeOK, [Next]_vars
  PROVE  Callback
<1>1. ASSUME NEW e \in Editors, Activate(e)
      PROVE  Command(e)
  <2>1. CASE e \in AutoStart
    <3>1. StartMcpServer(e, Activation, {})
      BY <1>1, <2>1 DEF Activate
    <3>2. Respawn(e) /\ Registers(e)
      BY <1>1, <3>1, StartIsCommand, StartRegisters, ThreadsFact DEF Activate
    <3>3. QED
      BY <1>1, <3>2 DEF Activate, Command
  <2>2. CASE e \notin AutoStart
    <3>1. Respawn(e) /\ Registers(e)
      BY <1>1, <2>2, ResumeRegisters, ThreadsFact DEF Activate, Respawn, Unmoved
    <3>2. QED
      BY <1>1, <3>1 DEF Activate, Command
  <2>3. QED
    BY <2>1, <2>2
<1>2. ASSUME NEW e \in Editors, NEW t \in Threads, Confirm(e, t)
      PROVE  Command(e)
  <2>1. Respawn(e) /\ Registers(e)
    BY <1>2, ResumeRegisters DEF Confirm, Respawn, Unmoved
  <2>2. QED
    BY <1>2, <2>1 DEF Confirm, Command, TypeOK
<1>3. ASSUME NEW e \in Editors, NEW d \in Dialogs, ShowStatus(e, d)
      PROVE  Command(e)
  <2>1. Registers(e)
    BY <1>3, DialogRegisters, "status" \in Waits DEF ShowStatus, Waits
  <2>2. QED
    BY <1>3, <2>1 DEF ShowStatus, Command, Respawn, Unmoved, server, TypeOK
<1>4. ASSUME NEW e \in Editors, NEW d \in Dialogs, AnswerStatus(e, d)
      PROVE  Command(e)
  <2>1. Respawn(e) /\ Registers(e)
    BY <1>4, StartIsCommand, StartRegisters, ResumeRegisters, ThreadsFact
    DEF AnswerStatus, Respawn, Unmoved
  <2>2. QED
    BY <1>4, <2>1 DEF AnswerStatus, Command, TypeOK
<1>5. ASSUME NEW e \in Editors, NEW d \in Dialogs, AnswerRestart(e, d)
      PROVE  Command(e)
  <2>1. Respawn(e) /\ Registers(e)
    BY <1>5, StartIsCommand, StartRegisters, ResumeRegisters, ThreadsFact
    DEF AnswerRestart, Respawn, Unmoved
  <2>2. QED
    BY <1>5, <2>1 DEF AnswerRestart, Command, TypeOK
<1>6. QED
  BY <1>1, <1>2, <1>3, <1>4, <1>5 DEF Callback, Next, Quiescent

-----------------------------------------------------------------------------
(* The status bar.                                                         *)

LEMMA BarInit == Init => BarFollowsHandle
BY DEF Init, BarFollowsHandle

LEMMA BarStep ==
  ASSUME TypeOK, BarFollowsHandle, [Next]_vars
  PROVE  BarFollowsHandle'
<1>1. ASSUME NEW e \in Editors, Command(e)
      PROVE  BarFollowsHandle'
  <2>1. ASSUME NEW dying, Spawn(e, dying)
        PROVE  BarFollowsHandle'
    <3>1. PICK p \in Processes, s \in {"starting", "failed"} :
            /\ state[p] = "unborn"
            /\ state' = [state EXCEPT ![p] = s]
            /\ mcpProcess' = [mcpProcess EXCEPT ![e] = p]
            /\ running' = [running EXCEPT ![e] = (s = "starting")]
      BY <2>1 DEF Spawn
    <3>2. mcpProcess'[e] = p /\ running'[e] = (s = "starting") /\ state'[p] = s
      BY <3>1 DEF TypeOK
    <3>3. p # NoProcess
      BY EditorsAssumption
    <3>4. ASSUME NEW f \in Editors \ {e}
          PROVE  mcpProcess'[f] = mcpProcess[f] /\ running'[f] = running[f]
      BY <3>1 DEF TypeOK
    <3>5. ASSUME NEW q \in Processes, state[q] = "failed"
          PROVE  state'[q] = "failed"
      BY <3>1, <3>5 DEF TypeOK
    <3>6. ASSUME NEW f \in Editors, f # e
          PROVE  /\ running[f] => mcpProcess[f] # NoProcess
                 /\ mcpProcess[f] # NoProcess /\ ~running[f] =>
                      mcpProcess[f] \in Processes /\ state[mcpProcess[f]] = "failed"
      BY DEF BarFollowsHandle, TypeOK
    <3>7. QED
      BY <3>2, <3>3, <3>4, <3>5, <3>6, Zenon DEF BarFollowsHandle
  <2>2. CASE StopMcpServer(e)
    BY <2>2 DEF StopMcpServer, BarFollowsHandle, TypeOK
  <2>3. CASE Unmoved
    BY <2>3 DEF Unmoved, BarFollowsHandle, TypeOK
  <2>4. QED
    BY <1>1, <2>1, <2>2, <2>3 DEF Command, Respawn
<1>2. ASSUME NEW e \in Editors, NEW d \in Dialogs, ToggleContextEngine(e, d)
      PROVE  BarFollowsHandle'
  BY <1>2 DEF ToggleContextEngine, server, BarFollowsHandle, TypeOK
<1>3. ASSUME NEW e \in Editors, Deactivate(e)
      PROVE  BarFollowsHandle'
  BY <1>3 DEF Deactivate, Ended, BarFollowsHandle, TypeOK
<1>4. ASSUME NEW e \in Editors, EditorCrash(e)
      PROVE  BarFollowsHandle'
  BY <1>4 DEF EditorCrash, Ended, server, BarFollowsHandle, TypeOK
<1>5. ASSUME NEW p \in Processes, Bind(p)
      PROVE  BarFollowsHandle'
  BY <1>5, EditorsAssumption DEF Bind, extension, BarFollowsHandle, TypeOK
<1>6. ASSUME NEW p \in Processes, Exit(p)
      PROVE  BarFollowsHandle'
  BY <1>6, EditorsAssumption DEF Exit, Alive, extension, BarFollowsHandle, TypeOK
<1>7. ASSUME NEW p \in Processes, ExitEvent(p)
      PROVE  BarFollowsHandle'
  <2>1. parent[p] \in Editors
    BY DEF TypeOK
  <2>2. QED
    BY <1>7, <2>1, EditorsAssumption DEF ExitEvent, BarFollowsHandle, TypeOK
<1>8. ASSUME NEW m \in network, Handle(m)
      PROVE  BarFollowsHandle'
  BY <1>8 DEF Handle, BarFollowsHandle, TypeOK
<1>9. CASE UNCHANGED vars
  BY <1>9 DEF vars, extension, server, BarFollowsHandle
<1>10. QED
  BY <1>1, <1>2, <1>3, <1>4, <1>5, <1>6, <1>7, <1>8, <1>9, StepIsCallback
  DEF Callback

\* The status bar shows a server exactly when the extension holds one, except
\* for a process that could not be spawned (extension.ts startMcpServer,
\* stopMcpServer, toggleContextEngine, mcpProcess.on).
THEOREM BarIsRight == Spec => []BarFollowsHandle
<1>1. TypeOK /\ BarFollowsHandle /\ [Next]_vars => BarFollowsHandle'
  BY BarStep
<1>2. QED
  BY <1>1, BarInit, PluginTypeCorrect, PTL DEF Spec

-----------------------------------------------------------------------------
(* The servers an extension keeps track of.                                *)

Unreaped == {"starting", "listening", "deaf", "exited"}

\* An editor with two servers whose exits it has not been told of has spawned
\* one while there was another.
Single ==
  \A p, q \in Processes :
    p # q /\ parent[p] = parent[q] /\ {state[p], state[q]} \subseteq Unreaped
      => parent[p] \in overlapped

\* Only an editor that has been activated has spawned a server.
Activated == \A p \in Processes : state[p] # "unborn" => phase[parent[p]] # "off"

Tracking == Single /\ Activated /\ ServersTracked

LEMMA TrackingInit == Init => Tracking
BY DEF Init, Tracking, Single, Activated, ServersTracked, Unreaped, Alive

LEMMA SpawnTracking ==
  ASSUME TypeOK, Tracking, NEW e \in Editors, NEW dying \in SUBSET Processes,
         Spawn(e, dying), phase[e] \in {"off", "on"},
         phase' = [phase EXCEPT ![e] = "on"]
  PROVE  Tracking'
<1>1. PICK p \in Processes, s \in {"starting", "failed"} :
        /\ state[p] = "unborn"
        /\ state' = [state EXCEPT ![p] = s]
        /\ parent' = [parent EXCEPT ![p] = e]
        /\ mcpProcess' = [mcpProcess EXCEPT ![e] = p]
        /\ killed' = killed \cup dying
  BY DEF Spawn
<1>2. state'[p] = s /\ parent'[p] = e /\ mcpProcess'[e] = p /\ phase'[e] = "on"
  BY <1>1 DEF TypeOK
<1>3. ASSUME NEW q \in Processes, q # p
      PROVE  state'[q] = state[q] /\ parent'[q] = parent[q] /\ parent[q] \in Editors
  BY <1>1, <1>3 DEF TypeOK
<1>4. ASSUME NEW f \in Editors, f # e
      PROVE  phase'[f] = phase[f] /\ mcpProcess'[f] = mcpProcess[f]
  BY <1>1, <1>4 DEF TypeOK
<1>5. overlapped \subseteq overlapped'
  BY DEF Spawn
<1>6. (\E q \in Processes : parent[q] = e /\ state[q] \in Unreaped) => e \in overlapped'
  BY DEF Spawn, Unreaped
<1>7. Single'
  <2>1. ASSUME NEW q \in Processes, NEW r \in Processes, q # r,
               parent'[q] = parent'[r], state'[q] \in Unreaped, state'[r] \in Unreaped
        PROVE  parent'[q] \in overlapped'
    <3>1. CASE q # p /\ r # p
      BY <2>1, <3>1, <1>3, <1>5 DEF Tracking, Single
    <3>2. CASE q = p
      BY <2>1, <3>2, <1>2, <1>3, <1>6
    <3>3. CASE r = p
      BY <2>1, <3>3, <1>2, <1>3, <1>6
    <3>4. QED
      BY <3>1, <3>2, <3>3
  <2>2. QED
    BY <2>1 DEF Single, Unreaped
<1>8. Activated'
  BY <1>2, <1>3, <1>4 DEF Tracking, Activated
<1>9. ServersTracked'
  <2>1. ASSUME NEW q \in Processes, state'[q] \in {"starting", "listening", "deaf"},
               q \notin killed', phase'[parent'[q]] = "on", parent'[q] \notin overlapped'
        PROVE  mcpProcess'[parent'[q]] = q
    <3>1. CASE q = p
      BY <3>1, <1>2
    <3>2. CASE q # p
      <4>1. parent[q] # e
        BY <2>1, <3>2, <1>3, <1>6 DEF Unreaped
      <4>2. q \in Alive \ killed /\ phase[parent[q]] = "on" /\ parent[q] \notin overlapped
        BY <2>1, <3>2, <4>1, <1>1, <1>3, <1>4, <1>5 DEF Alive
      <4>3. mcpProcess[parent[q]] = q
        BY <4>2 DEF Tracking, ServersTracked
      <4>4. QED
        BY <3>2, <4>1, <4>3, <1>3, <1>4
    <3>3. QED
      BY <3>1, <3>2
  <2>2. QED
    BY <2>1 DEF ServersTracked, Alive
<1>10. QED
  BY <1>7, <1>8, <1>9 DEF Tracking

LEMMA TrackingStep ==
  ASSUME TypeOK, Tracking, [Next]_vars
  PROVE  Tracking'
<1>1. ASSUME NEW e \in Editors, Command(e)
      PROVE  Tracking'
  <2>1. CASE Spawn(e, {}) \/ Spawn(e, Held(e))
    BY <1>1, <2>1, SpawnTracking, HeldType DEF Command
  <2>2. CASE StopMcpServer(e)
    <3>1. ASSUME NEW p \in Alive \ (killed \cup Held(e)), parent[p] = e
          PROVE  phase[e] # "on" \/ e \in overlapped
      BY <3>1, EditorsAssumption DEF Tracking, ServersTracked, Held, Alive
    <3>2. QED
      BY <1>1, <2>2, <3>1 DEF Command, StopMcpServer, Tracking, Single, Activated,
         ServersTracked, Unreaped, Alive, TypeOK
  <2>3. CASE Unmoved
    BY <1>1, <2>3 DEF Command, Unmoved, Tracking, Single, Activated, ServersTracked,
       Unreaped, Alive, TypeOK
  <2>4. QED
    BY <1>1, <2>1, <2>2, <2>3 DEF Command, Respawn
<1>2. ASSUME NEW e \in Editors, NEW d \in Dialogs, ToggleContextEngine(e, d)
      PROVE  Tracking'
  BY <1>2 DEF ToggleContextEngine, server, Tracking, Single, Activated,
     ServersTracked, Unreaped, Alive
<1>3. ASSUME NEW e \in Editors, Deactivate(e)
      PROVE  Tracking'
  BY <1>3 DEF Deactivate, Ended, Tracking, Single, Activated, ServersTracked,
     Unreaped, Alive, TypeOK
<1>4. ASSUME NEW e \in Editors, EditorCrash(e)
      PROVE  Tracking'
  BY <1>4 DEF EditorCrash, Ended, server, Tracking, Single, Activated,
     ServersTracked, Unreaped, Alive, TypeOK
<1>5. ASSUME NEW p \in Processes, Bind(p)
      PROVE  Tracking'
  BY <1>5 DEF Bind, extension, Tracking, Single, Activated, ServersTracked,
     Unreaped, Alive, TypeOK
<1>6. ASSUME NEW p \in Processes, Exit(p)
      PROVE  Tracking'
  BY <1>6 DEF Exit, extension, Tracking, Single, Activated, ServersTracked,
     Unreaped, Alive, TypeOK
<1>7. ASSUME NEW p \in Processes, ExitEvent(p)
      PROVE  Tracking'
  <2>1. parent[p] \in Editors /\ state[p] \in Unreaped
    BY <1>7 DEF ExitEvent, Unreaped, TypeOK
  <2>2. ASSUME NEW q \in Alive, q # p, parent[q] = parent[p]
        PROVE  parent[p] \in overlapped
    BY <2>1, <2>2 DEF Tracking, Single, Unreaped, Alive
  <2>3. QED
    BY <1>7, <2>1, <2>2 DEF ExitEvent, Tracking, Single, Activated, ServersTracked,
       Unreaped, Alive, TypeOK
<1>8. ASSUME NEW m \in network, Handle(m)
      PROVE  Tracking'
  BY <1>8 DEF Handle, Tracking, Single, Activated, ServersTracked, Unreaped, Alive
<1>9. CASE UNCHANGED vars
  BY <1>9 DEF vars, extension, server, Tracking, Single, Activated,
     ServersTracked, Unreaped, Alive
<1>10. QED
  BY <1>1, <1>2, <1>3, <1>4, <1>5, <1>6, <1>7, <1>8, <1>9, StepIsCallback
  DEF Callback

\* A live server that nobody has killed is the one its extension holds, unless
\* the extension spawned one before an earlier one's exit was reported
\* (extension.ts mcpProcess, the exit handler).
THEOREM ServersAreTracked == Spec => []ServersTracked
<1>1. TypeOK /\ Tracking /\ [Next]_vars => Tracking'
  BY TrackingStep
<1>2. Tracking => ServersTracked
  BY DEF Tracking
<1>3. QED
  BY <1>1, <1>2, TrackingInit, PluginTypeCorrect, PTL DEF Spec

-----------------------------------------------------------------------------
(* The editors a server lists.                                             *)

Registering(e) == [op |-> "register", editor |-> e] \in network

\* A registration has been sent by an activation that was past its question.
Registered ==
  \A e \in Editors :
    Registering(e) \/ (\E p \in Processes : e \in connections[p]) =>
      /\ phase[e] # "off"
      /\ phase[e] = "on" => pc[e][Activation] # "confirm"

Listing == Registered /\ ListedEditors

LEMMA ListingInit == Init => Listing
BY DEF Init, Listing, Registered, Registering, ListedEditors

LEMMA CommandListing ==
  ASSUME TypeOK, Listing, NEW e \in Editors, Command(e)
  PROVE  Listing'
<1>1. phase'[e] = "on" /\ \A f \in Editors \ {e} : phase'[f] = phase[f]
  BY DEF Command, TypeOK
<1>2. ASSUME NEW f \in Editors, f # e
      PROVE  (Registering(f)' => Registering(f)) /\ pc'[f][Activation] = pc[f][Activation]
  BY <1>2, ThreadsFact DEF Command, Registers, RegisterConnection, Registering, TypeOK
<1>3. Registering(e)' \/ (\E p \in Processes : e \in connections[p])
        => pc'[e][Activation] # "confirm"
  <2>1. CASE pc' = [pc EXCEPT ![e][Activation] = "response"]
    <3>1. pc[e] \in [Threads -> Waits]
      BY DEF TypeOK
    <3>2. pc'[e][Activation] = "response"
      BY <2>1, <3>1, ThreadsFact DEF TypeOK
    <3>3. QED
      BY <3>2
  <2>2. CASE UNCHANGED network /\ phase[e] = "off"
    BY <2>2 DEF Listing, Registered, Registering
  <2>3. CASE UNCHANGED network /\ pc'[e][Activation] = pc[e][Activation]
    BY <2>3 DEF Listing, Registered, Registering, Command
  <2>4. QED
    BY <2>1, <2>2, <2>3 DEF Command, Registers
<1>4. Registered'
  BY <1>1, <1>2, <1>3 DEF Command, Listing, Registered
<1>5. network \subseteq network'
  BY DEF Command, Registers, RegisterConnection
<1>6. ListedEditors'
  BY <1>1, <1>5 DEF Command, Listing, ListedEditors, TypeOK
<1>7. QED
  BY <1>4, <1>6 DEF Listing

LEMMA HandleListing ==
  ASSUME TypeOK, Listing, NEW m \in network, Handle(m)
  PROVE  Listing'
<1>1. m.editor \in Editors /\ m.op \in {"register", "unregister"}
      /\ m = [op |-> m.op, editor |-> m.editor]
  BY DEF TypeOK, Request
<1>2. ASSUME NEW p \in Processes, NEW f \in connections'[p]
      PROVE  f \in connections[p] \/ (p = port /\ m.op = "register" /\ f = m.editor)
  <2>1. CASE port = NoProcess \/ p # port
    <3>1. connections'[p] = connections[p]
      BY <2>1 DEF Handle, TypeOK
    <3>2. QED
      BY <1>2, <3>1
  <2>2. CASE p = port /\ port # NoProcess
    <3>1. connections'[p] = IF m.op = "register" THEN connections[p] \cup {m.editor}
                            ELSE connections[p] \ {m.editor}
      BY <2>2 DEF Handle, TypeOK
    <3>2. QED
      BY <1>1, <1>2, <2>2, <3>1
  <2>3. QED
    BY <2>1, <2>2
<1>3. ASSUME NEW p \in Processes, m.op = "unregister"
      PROVE  m.editor \notin connections'[p]
  <2>1. CASE p # port
    <3>1. connections'[p] = connections[p] /\ connections[p] = {}
      BY <2>1 DEF Handle, Listing, ListedEditors, TypeOK
    <3>2. QED
      BY <3>1
  <2>2. CASE p = port
    <3>1. connections'[p] = connections[p] \ {m.editor}
      BY <1>3, <2>2, EditorsAssumption DEF Handle, TypeOK
    <3>2. QED
      BY <3>1
  <2>3. QED
    BY <2>1, <2>2
<1>4. ASSUME NEW f \in Editors
      PROVE  pc'[f][Activation] \in {pc[f][Activation], "none"}
  <2>1. \A g \in Editors : pc[g] \in [Threads -> Waits]
    BY DEF TypeOK
  <2>2. QED
    BY <1>1, <2>1, ThreadsFact DEF Handle, TypeOK
<1>5. Registered'
  <2>1. ASSUME NEW f \in Editors,
               Registering(f)' \/ (\E p \in Processes : f \in connections'[p])
        PROVE  Registering(f) \/ (\E p \in Processes : f \in connections[p])
    BY <1>1, <1>2, <2>1 DEF Handle, Registering
  <2>2. phase' = phase
    BY DEF Handle
  <2>3. QED
    BY <1>4, <2>1, <2>2 DEF Listing, Registered
<1>6. ListedEditors'
  <2>1. ASSUME NEW p \in Processes \ {port}
        PROVE  connections'[p] = {}
    BY <1>1, <2>1 DEF Handle, Listing, ListedEditors, TypeOK
  <2>2. ASSUME NEW p \in Processes, NEW f \in connections'[p], phase[f] = "left"
        PROVE  f \in late' \/ [op |-> "unregister", editor |-> f] \in network'
    <3>1. CASE f \in connections[p]
      BY <1>1, <1>3, <2>2, <3>1 DEF Handle, Listing, ListedEditors
    <3>2. CASE m.op = "register" /\ f = m.editor
      BY <2>2, <3>2 DEF Handle
    <3>3. QED
      BY <1>2, <3>1, <3>2
  <2>3. phase' = phase /\ port' = port
    BY DEF Handle
  <2>4. QED
    BY <2>1, <2>2, <2>3 DEF ListedEditors
<1>7. QED
  BY <1>5, <1>6 DEF Listing

LEMMA ListingStep ==
  ASSUME TypeOK, Listing, [Next]_vars
  PROVE  Listing'
<1>1. ASSUME NEW e \in Editors, NEW d \in Dialogs, ToggleContextEngine(e, d)
      PROVE  Listing'
  <2>1. \A f \in Editors : pc[f] \in [Threads -> Waits]
    BY DEF TypeOK
  <2>2. \A f \in Editors : pc'[f][Activation] = pc[f][Activation]
    BY <1>1, <2>1, ThreadsFact DEF ToggleContextEngine, TypeOK
  <2>3. QED
    BY <1>1, <2>2 DEF ToggleContextEngine, server, Listing, Registered, Registering,
       ListedEditors
<1>2. ASSUME NEW e \in Editors, Deactivate(e)
      PROVE  Listing'
  <2>1. phase'[e] = "left" /\ \A f \in Editors \ {e} : phase'[f] = phase[f]
    BY <1>2 DEF Deactivate, TypeOK
  <2>2. \A f \in Editors \ {e} : pc'[f] = pc[f]
    BY <1>2 DEF Deactivate, Ended, TypeOK
  <2>3. \A f \in Editors : Registering(f)' => Registering(f)
    BY <1>2 DEF Deactivate, Leaving, Registering
  <2>4. ASSUME NEW p \in Processes, e \in connections[p]
        PROVE  [op |-> "unregister", editor |-> e] \in network'
    BY <1>2, <2>4 DEF Deactivate, Leaving, Listing, Registered
  <2>5. Registered'
    BY <1>2, <2>1, <2>2, <2>3 DEF Deactivate, Listing, Registered
  <2>6. ListedEditors'
    BY <1>2, <2>1, <2>4 DEF Deactivate, Listing, ListedEditors, TypeOK
  <2>7. QED
    BY <2>5, <2>6 DEF Listing
<1>3. ASSUME NEW e \in Editors, EditorCrash(e)
      PROVE  Listing'
  <2>1. phase'[e] = "crashed" /\ \A f \in Editors \ {e} : phase'[f] = phase[f]
    BY <1>3 DEF EditorCrash, TypeOK
  <2>2. \A f \in Editors \ {e} : pc'[f] = pc[f]
    BY <1>3 DEF EditorCrash, Ended, TypeOK
  <2>3. QED
    BY <1>3, <2>1, <2>2 DEF EditorCrash, server, Listing, Registered, Registering,
       ListedEditors, TypeOK
<1>4. ASSUME NEW p \in Processes, Bind(p)
      PROVE  Listing'
  BY <1>4, EditorsAssumption DEF Bind, extension, Listing, Registered, Registering,
     ListedEditors
<1>5. ASSUME NEW p \in Processes, Exit(p)
      PROVE  Listing'
  BY <1>5 DEF Exit, extension, Listing, Registered, Registering, ListedEditors, TypeOK
<1>6. ASSUME NEW p \in Processes, ExitEvent(p)
      PROVE  Listing'
  BY <1>6 DEF ExitEvent, Listing, Registered, Registering, ListedEditors
<1>7. CASE UNCHANGED vars
  BY <1>7 DEF vars, extension, server, Listing, Registered, Registering, ListedEditors
<1>8. QED
  BY <1>1, <1>2, <1>3, <1>4, <1>5, <1>6, <1>7, CommandListing, HandleListing,
     StepIsCallback DEF Callback

\* Only the process on the port lists editors; one that has closed stays listed
\* only while its DELETE is on the way, or when its POST came after it closed
\* (extension.ts deactivate, main.rs connections).
THEOREM EditorsAreListed == Spec => []ListedEditors
<1>1. TypeOK /\ Listing /\ [Next]_vars => Listing'
  BY ListingStep
<1>2. Listing => ListedEditors
  BY DEF Listing
<1>3. QED
  BY <1>1, <1>2, ListingInit, PluginTypeCorrect, PTL DEF Spec
=============================================================================
