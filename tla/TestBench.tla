------------------------------- MODULE TestBench -------------------------------
(***************************************************************************)
(* The buttons of the admin UI that try something out and show a verdict:  *)
(* Test Config and Test Connection of the plugins tab, Test and Build of   *)
(* the extensions tab (page.tsx), and the pages that execute a tool        *)
(* (test-tools/page.tsx, tools/session-compression/page.tsx); with the     *)
(* counter of the virtual connector (connector_virtual.rs), which a        *)
(* connection test and the buttons of the connectors tab change and        *)
(* /api/connector/virtual/health answers.  The number on the connectors    *)
(* tab is another: the connections registered (ServerState).  A test sends *)
(* one request after another and keeps one "testing" mark and one verdict  *)
(* per kind, not per target.                                               *)
(***************************************************************************)
EXTENDS Integers, FiniteSets

CONSTANTS
  Targets,    \* the plugins and extensions listed, and the tools to execute
  Slots,      \* bound on the tests under way
  None,       \* no target, no verdict
  Width,      \* the connector's counter holds 0 .. Width - 1 (2^64 in the code)
  MaxTests,   \* bound on the tests begun
  MaxOthers   \* bound on the clicks on Disconnect and the tabs left

Kinds  == {"config", "connection", "extension", "build", "lab", "digest"}
Rows   == {"config", "connection", "extension", "build"}
Tab(k) == CASE k \in {"config", "connection"} -> "plugins"
            [] k \in {"extension", "build"}   -> "extensions"
            [] OTHER                          -> k

ASSUME NoneAssumption ==
  /\ None \notin Targets
  /\ None \notin [target : Targets, success : BOOLEAN, shown : BOOLEAN]
ASSUME BoundsAssumption == {MaxTests, MaxOthers} \subseteq Nat /\ Width \in Nat \ {0}

VARIABLES
  busy,     \* testingPlugin, testingExtension, buildingExtension, loading
  verdict,  \* testResult, connectionTest, buildResult, result and error
  tests,    \* the tests under way
  links,    \* VirtualConnector.connections
  linked,   \* history: connections made and closed
  begun,    \* history: the kinds begun since their tab was opened
  used      \* tests begun, other clicks

vars == <<busy, verdict, tests, links, linked, begun, used>>

Idle    == [kind |-> "none", target |-> None, step |-> 0, built |-> TRUE, mounted |-> FALSE]
Running(k) == {s \in Slots : tests[s].kind = k /\ tests[s].mounted}

\* What a page holds of the last test that ended; shown is whether it renders it.
Verdicts == [target : Targets, success : BOOLEAN, shown : BOOLEAN]

TypeOK ==
  /\ busy \in [Kinds -> Targets \cup {None}]
  /\ verdict \in [Kinds -> Verdicts \cup {None}]
  /\ \A s \in Slots :
       \/ tests[s] = Idle
       \/ /\ tests[s].kind \in Kinds /\ tests[s].target \in Targets
          /\ tests[s].step \in 1..3 /\ tests[s].built \in BOOLEAN
  /\ links \in 0..(Width - 1)
  /\ begun \subseteq Kinds

Init ==
  /\ busy = [k \in Kinds |-> None] /\ verdict = [k \in Kinds |-> None]
  /\ tests = [s \in Slots |-> Idle]
  /\ links = 0 /\ linked = [made |-> 0, closed |-> 0]
  /\ begun = {} /\ used = [tests |-> 0, others |-> 0]

-----------------------------------------------------------------------------
(* The pages.                                                              *)

\* Mutant: the button of an execution is disabled like those of a row.
DisabledByTarget(k, t) == busy[k] = t

\* disabled={testingPlugin === plugin.name}, disabled={loading}.
Disabled(k, t) == IF k \in Rows THEN busy[k] = t ELSE busy[k] # None

\* One slot is as good as another: a test takes the first that is free.
Free(s) == tests[s] = Idle /\ s = CHOOSE f \in Slots : tests[f] = Idle

\* handleTestPlugin, handleTestConnection, handleTestExtension,
\* handleBuildExtension, executeTool, executeCompression: up to the first
\* request.
Begin(s, k, t) ==
  /\ Free(s) /\ ~Disabled(k, t)
  /\ used.tests < MaxTests /\ used' = [used EXCEPT !.tests = @ + 1]
  /\ tests' = [tests EXCEPT ![s] =
       [kind |-> k, target |-> t, step |-> 1, built |-> TRUE, mounted |-> TRUE]]
  /\ busy' = [busy EXCEPT ![k] = t] /\ verdict' = [verdict EXCEPT ![k] = None]
  /\ begun' = begun \cup {k}
  /\ UNCHANGED <<links, linked>>

\* The lab parses its input first: what is no JSON is an error and no request.
BadInput(t) ==
  /\ ~Disabled("lab", t)
  /\ used.tests < MaxTests /\ used' = [used EXCEPT !.tests = @ + 1]
  /\ verdict' = [verdict EXCEPT !.lab =
                   [target |-> t, success |-> FALSE, shown |-> TRUE]]
  /\ begun' = begun \cup {"lab"}
  /\ UNCHANGED <<busy, tests, links, linked>>

\* Another tab is opened: this one is unmounted, its tests go on and set nothing.
Leave(k) ==
  /\ used.others < MaxOthers /\ used' = [used EXCEPT !.others = @ + 1]
  /\ LET gone == {j \in Kinds : Tab(j) = Tab(k)} IN
     /\ gone \cap begun # {}
     /\ busy' = [j \in Kinds |-> IF j \in gone THEN None ELSE busy[j]]
     /\ verdict' = [j \in Kinds |-> IF j \in gone THEN None ELSE verdict[j]]
     /\ tests' = [s \in Slots |-> IF tests[s].kind \in gone
                                    THEN [tests[s] EXCEPT !.mounted = FALSE] ELSE tests[s]]
     /\ begun' = begun \ gone
  /\ UNCHANGED <<links, linked>>

-----------------------------------------------------------------------------
(* A request is answered, and the test goes on.                            *)

\* "read" is what was asked for, "garbled" a file that does not parse, "empty"
\* a failed execution or a transport that is not there, "error" no 2xx, and
\* "lost" a fetch that rejects.  A digest is the JSON that cli.js prints.
Replies(test) ==
  CASE test.kind = "digest"                  -> {"read", "empty", "error", "lost"}
    [] test.kind \notin {"connection", "digest"} ->
         {"read", "garbled", "empty", "error", "lost"}
    [] test.kind = "connection" /\ test.step = 1 -> {"read", "error", "lost"}
    [] test.kind = "connection" /\ test.step = 2 -> {"read", "empty", "error", "lost"}
    [] OTHER                                 -> {"read", "lost"}

\* Which replies end a test early.  Of the build output and the manifest only
\* the presence counts; an execution shows whatever it succeeded with.
ConfigFails(reply)          == reply # "read"
BuildFails(reply)           == reply # "read"
ConnectionFails(reply)      == reply # "read"
ExtensionFails(step, reply) == reply \in {"error", "lost"} \/ (step = 1 /\ reply # "read")
LabFails(reply)             == reply \notin {"read", "garbled"}
DigestFails(reply)          == reply # "read"

Fails(test, reply) ==
  CASE test.kind = "config"     -> ConfigFails(reply)
    [] test.kind = "build"      -> BuildFails(reply)
    [] test.kind = "connection" -> ConnectionFails(reply)
    [] test.kind = "extension"  -> ExtensionFails(test.step, reply)
    [] test.kind = "lab"        -> LabFails(reply)
    [] test.kind = "digest"     -> DigestFails(reply)

Steps(k) == IF k \in {"connection", "extension"} THEN 3 ELSE 1

\* Mutant: a test whose request is lost on the way is begun anew.
AfterRetrying(test, reply) ==
  IF reply = "lost" /\ test.step > 1 THEN [test EXCEPT !.step = 1]
  ELSE IF Fails(test, reply) \/ test.step = Steps(test.kind) THEN Idle
  ELSE [test EXCEPT !.step = @ + 1, !.built = @ /\ reply # "empty"]

\* The next request, or the end.
After(test, reply) ==
  IF Fails(test, reply) \/ test.step = Steps(test.kind) THEN Idle
  ELSE [test EXCEPT !.step = @ + 1, !.built = @ /\ reply # "empty"]

\* Mutant: the connection is made before the transport is looked up.
ConnectsEarly(test, reply) == test.kind = "connection" /\ test.step = 2 /\ reply # "lost"

\* virtual_connect, the third request of a connection test.
Connects(test, reply) == test.kind = "connection" /\ test.step = 3 /\ reply # "lost"

\* Mutant: a failed connection test closes its connection, which it never had.
LinksUndone(test, reply) ==
  IF Connects(test, reply) THEN (links + 1) % Width
  ELSE IF test.kind = "connection" /\ Fails(test, reply) THEN (links + Width - 1) % Width
  ELSE links

\* connect: nothing ever closes the connection of a test.
LinksAfter(test, reply) == IF Connects(test, reply) THEN (links + 1) % Width ELSE links

\* Mutant: the mark is taken back at the end of the try block.
BusyUncaught(test, reply) ==
  [busy EXCEPT ![test.kind] = IF reply = "lost" THEN @ ELSE None]

\* finally: the mark is taken back, whosever it is now.  A connection test has
\* its mark in the verdict it replaces.
BusyAfter(test, reply) == [busy EXCEPT ![test.kind] = None]

\* The digest page renders an error and a result that succeeded.  An execution
\* that failed is a result that did not: nothing is rendered, and no longer the
\* placeholder either.
Shows(test, reply) == test.kind = "digest" => reply # "empty"

\* Mutant: a failed request is only logged.
VerdictUncaught(test, reply, success) ==
  IF reply = "lost" THEN verdict
  ELSE [verdict EXCEPT ![test.kind] =
          [target |-> test.target, success |-> success, shown |-> Shows(test, reply)]]

VerdictAfter(test, reply, success) ==
  [verdict EXCEPT ![test.kind] =
     [target |-> test.target, success |-> success, shown |-> Shows(test, reply)]]

Reply(s) ==
  LET test == tests[s] IN
  /\ test # Idle
  /\ \E reply \in Replies(test) :
       LET next == After(test, reply)
           good == ~Fails(test, reply)
                   /\ (test.kind = "extension" => test.built /\ reply # "empty")
       IN /\ tests' = [tests EXCEPT ![s] = next]
          /\ IF next = Idle /\ test.mounted
               THEN /\ busy' = BusyAfter(test, reply)
                    /\ verdict' = VerdictAfter(test, reply, good)
               ELSE UNCHANGED <<busy, verdict>>
          /\ links' = LinksAfter(test, reply)
          /\ linked' = [linked EXCEPT !.made = IF Connects(test, reply) THEN @ + 1 ELSE @]
  /\ UNCHANGED <<begun, used>>

\* The answer of virtual_connect is lost on the way back.
ConnectedLost(s) ==
  LET test == tests[s] IN
  /\ test.kind = "connection" /\ test.step = 3
  /\ tests' = [tests EXCEPT ![s] = Idle]
  /\ links' = (links + 1) % Width /\ linked' = [linked EXCEPT !.made = @ + 1]
  /\ IF test.mounted THEN /\ busy' = BusyAfter(test, "lost")
                          /\ verdict' = VerdictAfter(test, "lost", FALSE)
                     ELSE UNCHANGED <<busy, verdict>>
  /\ UNCHANGED <<begun, used>>

\* Mutant: a signed counter.
DisconnectSigned ==
  /\ used.others < MaxOthers /\ used' = [used EXCEPT !.others = @ + 1]
  /\ links' = links - 1 /\ linked' = [linked EXCEPT !.closed = @ + 1]
  /\ UNCHANGED <<busy, verdict, tests, begun>>

\* virtual_disconnect, from handleDisconnect of the connectors tab: fetch_sub
\* wraps below 0.  The tab refreshes after it, and shows another number.  Its
\* handleConnect sends no body, which the endpoint's Json refuses: no action.
Disconnect ==
  /\ used.others < MaxOthers /\ used' = [used EXCEPT !.others = @ + 1]
  /\ links' = (links + Width - 1) % Width /\ linked' = [linked EXCEPT !.closed = @ + 1]
  /\ UNCHANGED <<busy, verdict, tests, begun>>

Next ==
  \/ \E s \in Slots, k \in Kinds, t \in Targets : Begin(s, k, t)
  \/ \E t \in Targets : BadInput(t)
  \/ \E k \in Kinds : Leave(k)
  \/ \E s \in Slots : Reply(s) \/ ConnectedLost(s)
  \/ Disconnect

\* Every request is answered or fails.
Fairness == \A s \in Slots : WF_vars(Reply(s))

Spec == Init /\ [][Next]_vars /\ Fairness

-----------------------------------------------------------------------------
(* Properties.                                                             *)

\* The pages that execute a tool never have two executions of a click under
\* way, so that a click has one effect (disabled={loading}); leaving the page
\* and coming back is the one way around it.
OneExecution == \A k \in Kinds \ Rows : Cardinality(Running(k)) <= 1

\* What is marked as being tested is being tested: no button stays disabled
\* although another target's test has taken the mark over or away.
BusyIsRunning ==
  \A k \in Kinds : busy[k] # None => \E s \in Running(k) : tests[s].target = busy[k]

\* When no test of a kind is under way any more, a verdict is shown, in whatever
\* order overlapping tests began, failed and ended.  The digest page is the
\* exception: it shows every success, but nothing of an execution that failed
\* on the server (tools/session-compression/page.tsx).
EndsWithVerdict ==
  \A k \in begun :
    Running(k) = {} =>
      /\ verdict[k] # None
      /\ verdict[k].shown \/ (k = "digest" /\ ~verdict[k].success)

\* A connection test says "successful" only when the server counted a connection
\* for it, and the server counts one only for a test that got through to its last
\* request: a test that fails before leaves the counter alone
\* (page.tsx handleTestConnection).
VerdictIsConnection ==
  [][\A s \in Slots :
       tests[s].kind = "connection" /\ tests[s].mounted /\ tests'[s] = Idle
       => \/ linked'.made > linked.made /\ tests[s].step = 3
          \/ linked'.made = linked.made /\ ~verdict'["connection"].success]_vars

\* The connector's counter, which its health endpoint answers, is the connections
\* made less those closed: it is more than were ever made only after more
\* disconnects than connections.
LinksAreConnections ==
  linked.closed <= linked.made /\ linked.made < Width => links = linked.made - linked.closed

\* Marks, verdicts, executions and the counter tell what is and was under way.
BenchConsistent ==
  TypeOK /\ OneExecution /\ BusyIsRunning /\ EndsWithVerdict /\ LinksAreConnections

\* Once users stop clicking, no button stays disabled.
TestsEnd == <>[](\A k \in Kinds : busy[k] = None)
=============================================================================
