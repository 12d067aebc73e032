-------------------------------- MODULE Console --------------------------------
(***************************************************************************)
(* The admin UI's home page with its dashboard and tools tabs              *)
(* (admin-web page.tsx, api.ts) against the part of the server they read   *)
(* and change (main.rs, server_state.rs).  A call is one async callback of *)
(* the page, from the click or the interval's tick to its last setState;   *)
(* it waits for one request at a time, and other callbacks run meanwhile.  *)
(* Requests are answered in any order.                                     *)
(***************************************************************************)
EXTENDS Integers, FiniteSets

CONSTANTS
  Names,     \* names of tools
  Versions,  \* what the edit form edits of a tool
  DefaultVersion, \* what the form of a new tool holds, there left as it is
  CallSlots, \* bound on the calls under way, besides one of each interval
  Started,   \* the registry at the start
  EngineOn,  \* contextEngine.enabled of the configuration
  Nothing,   \* no tool, no answer, nothing shown
  MaxClicks, \* bound on the clicks, on the ticks that find a call under way and
             \* on the requests that fail on the way
  MaxTabs    \* bound on how often the tools tab is opened

Tool     == [enabled : BOOLEAN, version : Versions]
Registry == [Names -> Tool \cup {Nothing}]
Calls    == {"home", "list"} \cup CallSlots

ASSUME NothingAssumption == Nothing \notin Names \cup Versions \cup Tool
ASSUME VersionAssumption == DefaultVersion \in Versions
ASSUME SlotsAssumption == CallSlots \cap {"home", "list"} = {}
ASSUME StartedAssumption == Started \in Registry /\ EngineOn \in BOOLEAN
ASSUME ClicksAssumption == {MaxClicks, MaxTabs} \subseteq Nat

VARIABLES
  engine,  \* the server's context_engine_enabled
  tools,   \* the server's registry
  epoch,   \* history: how often each of the two has changed
  status,  \* the home page: the engine as shown, the error banner
  health,  \* the home page's status bar
  tab,     \* the tab that is mounted
  rows,    \* the tools tab: the tools as shown, Nothing while loading
  edit,    \* the tools tab: the row being edited and its form
  create,  \* the tools tab: the form of a new tool
  calls,   \* the calls under way
  clicks, tabs  \* how many so far

server == <<engine, tools, epoch>>
home   == <<status, health>>
toolsTab == <<rows, edit, create>>
consoleVars == <<server, home, tab, toolsTab, calls, clicks, tabs>>

Reads   == {"status", "list"}
Changes == {"engine", "toggle", "create", "update", "delete"}
Parts   == {"engine", "tools"}
Part(call) == IF call.do \in {"status", "engine"} THEN "engine" ELSE "tools"
NoCall  == [do |-> "none", at |-> "none", tool |-> Nothing, value |-> Nothing,
            mounted |-> FALSE, answer |-> Nothing, applied |-> FALSE, since |-> 0]
NoEdit   == [tool |-> Nothing, version |-> Nothing]
NoCreate == [open |-> FALSE, name |-> Nothing]

ConsoleTypeOK ==
  /\ engine \in BOOLEAN /\ tools \in Registry /\ epoch \in [Parts -> 0..MaxClicks]
  /\ status.engine \in BOOLEAN \cup {Nothing} /\ status.error \in BOOLEAN
  /\ health \in [core : {"healthy", "down"}, engine : BOOLEAN]
  /\ tab \in {"dashboard", "tools"}
  /\ rows # Nothing => rows.of \in Registry /\ rows.epoch \in -1..epoch.tools
  /\ edit = NoEdit \/ (edit.tool \in Names /\ edit.version \in Versions)
  /\ create.open \in BOOLEAN /\ create.name \in Names \cup {Nothing}
  /\ tab = "dashboard" => rows = Nothing /\ edit = NoEdit /\ create = NoCreate
  /\ \A c \in Calls :
       /\ calls[c].do \in Reads \cup Changes \cup {"none"}
       /\ calls[c].at \in {"none", "change", "write", "changed", "ask", "told", "probe"}
       /\ calls[c].since <= epoch[Part(calls[c])]
       /\ calls[c].applied => calls[c].do \in Changes
  /\ clicks \in 0..MaxClicks /\ tabs \in 0..MaxTabs

ConsoleInit ==
  /\ engine = EngineOn /\ tools = Started /\ epoch = [p \in Parts |-> 0]
  /\ status = [engine |-> Nothing, error |-> FALSE, epoch |-> -1]
  /\ health = [core |-> "healthy", engine |-> FALSE]
  /\ tab = "dashboard" /\ rows = Nothing /\ edit = NoEdit /\ create = NoCreate
  /\ calls = [c \in Calls |-> NoCall]
  /\ clicks = 0 /\ tabs = 0

Click == clicks < MaxClicks /\ clicks' = clicks + 1

-----------------------------------------------------------------------------
(* The page starts a call.                                                 *)

\* One slot is as good as another: the call takes the first that is free.
FreeSlot(c) ==
  /\ calls[c].at = "none"
  /\ c \in CallSlots => c = CHOOSE s \in CallSlots : calls[s].at = "none"

BeginCall(c, do, tool, value) ==
  /\ FreeSlot(c)
  /\ calls' = [calls EXCEPT ![c] =
       [NoCall EXCEPT !.do = do, !.at = IF do \in Reads THEN "ask" ELSE "change",
                    !.tool = tool, !.value = value, !.mounted = TRUE]]

\* setInterval(loadStatus, 3000), setInterval(loadTools, 10000) while the tab is
\* mounted.  The interval's own slot is free when the last answer has come.
Tick(c) ==
  /\ \/ c = "home" /\ BeginCall(c, "status", Nothing, Nothing) /\ UNCHANGED clicks
     \/ c = "list" /\ tab = "tools" /\ BeginCall(c, "list", Nothing, Nothing) /\ UNCHANGED clicks
     \/ c \in CallSlots /\ BeginCall(c, "status", Nothing, Nothing) /\ Click
     \/ c \in CallSlots /\ tab = "tools" /\ BeginCall(c, "list", Nothing, Nothing) /\ Click
  /\ UNCHANGED <<server, home, tab, toolsTab, tabs>>

\* handleToggleContextEngine sends the opposite of what is shown.
ToggleEngine(c) ==
  /\ tab = "dashboard" /\ status.engine # Nothing
  /\ BeginCall(c, "engine", Nothing, ~status.engine) /\ Click
  /\ UNCHANGED <<server, home, tab, toolsTab, tabs>>

Listed(t) == tab = "tools" /\ rows # Nothing /\ rows.of[t] # Nothing

\* handleToggleTool, handleDeleteTool: buttons of a row not being edited.
ToggleTool(c, t) ==
  /\ Listed(t) /\ edit.tool # t
  /\ BeginCall(c, "toggle", t, ~rows.of[t].enabled) /\ Click
  /\ UNCHANGED <<server, home, tab, toolsTab, tabs>>

DeleteTool(c, t) ==
  /\ Listed(t) /\ edit.tool # t
  /\ BeginCall(c, "delete", t, Nothing) /\ Click
  /\ UNCHANGED <<server, home, tab, toolsTab, tabs>>

\* handleUpdateTool, handleCreateTool send the form as it is now; it stays open.
UpdateTool(c) ==
  /\ edit # NoEdit /\ Listed(edit.tool)
  /\ BeginCall(c, "update", edit.tool, edit.version) /\ Click
  /\ UNCHANGED <<server, home, tab, toolsTab, tabs>>

CreateTool(c) ==
  /\ create.open /\ create.name # Nothing /\ rows # Nothing
  /\ BeginCall(c, "create", create.name, [enabled |-> TRUE, version |-> DefaultVersion])
  /\ Click
  /\ UNCHANGED <<server, home, tab, toolsTab, tabs>>

\* startEdit, the form's fields and cancelEdit.
EditRow(t) ==
  /\ Listed(t) /\ Click
  /\ \/ edit.tool # t /\ edit' = [tool |-> t, version |-> rows.of[t].version]
     \/ edit.tool = t /\ \E v \in Versions \ {edit.version} : edit' = [edit EXCEPT !.version = v]
     \/ edit.tool = t /\ edit' = NoEdit
  /\ UNCHANGED <<server, home, tab, rows, create, calls, tabs>>

\* "+ New Tool", which keeps what was typed, and the form's Cancel, which does not.
FillCreate ==
  /\ tab = "tools" /\ rows # Nothing /\ Click
  /\ \/ create' = [create EXCEPT !.open = ~@]
     \/ create.open /\ \E t \in Names \ {create.name} : create' = [create EXCEPT !.name = t]
     \/ create.open /\ create' = NoCreate
  /\ UNCHANGED <<server, home, tab, rows, edit, calls, tabs>>

\* setActiveTab: the tools tab is mounted anew, or unmounted; the calls of an
\* unmounted tab go on and set nothing.
SwitchTab ==
  /\ \/ tab = "tools" /\ tab' = "dashboard" /\ Click /\ UNCHANGED tabs
     \/ /\ tab = "dashboard" /\ tab' = "tools" /\ UNCHANGED clicks
        /\ tabs < MaxTabs /\ tabs' = tabs + 1
  /\ rows' = Nothing /\ edit' = NoEdit /\ create' = NoCreate
  /\ calls' = [c \in Calls |-> IF Part(calls[c]) = "engine" THEN calls[c]
                               ELSE [calls[c] EXCEPT !.mounted = FALSE]]
  /\ UNCHANGED <<server, home>>

-----------------------------------------------------------------------------
(* The server.                                                             *)

Applied(c) ==
  /\ epoch' = [epoch EXCEPT ![Part(calls[c])] = @ + 1]
  /\ calls' = [calls EXCEPT ![c].at = "changed", ![c].answer = TRUE, ![c].applied = TRUE,
                            ![c].since = epoch'[Part(calls[c])]]

Refused(c) ==
  /\ calls' = [calls EXCEPT ![c].at = "changed", ![c].answer = FALSE]
  /\ UNCHANGED <<engine, tools, epoch>>

\* toggle_context_engine, toggle_tool, delete_tool, and the first half of
\* create_tool and update_tool, which look the tool up before they write it.
Change(c) ==
  LET call == calls[c] t == call.tool IN
  /\ call.at = "change"
  /\ \/ /\ call.do = "engine"
        /\ engine' = call.value
        /\ Applied(c) /\ UNCHANGED tools
     \/ /\ call.do = "toggle" /\ tools[t] # Nothing
        /\ tools' = [tools EXCEPT ![t].enabled = call.value]
        /\ Applied(c) /\ UNCHANGED engine
     \/ /\ call.do = "delete" /\ tools[t] # Nothing
        /\ tools' = [tools EXCEPT ![t] = Nothing]
        /\ Applied(c) /\ UNCHANGED engine
     \/ /\ call.do = "update" /\ tools[t] # Nothing
        /\ calls' = [calls EXCEPT ![c].at = "write",
                       ![c].value = [tools[t] EXCEPT !.version = call.value]]
        /\ UNCHANGED server
     \/ /\ call.do = "create" /\ tools[t] = Nothing
        /\ calls' = [calls EXCEPT ![c].at = "write"]
        /\ UNCHANGED server
     \/ /\ call.do \in {"toggle", "delete", "update"} /\ tools[t] = Nothing
        /\ Refused(c)
     \/ /\ call.do = "create" /\ tools[t] # Nothing
        /\ Refused(c)
  /\ UNCHANGED <<home, tab, toolsTab, clicks, tabs>>

\* Mutant: update_tool writes the form, without the tool it belongs to.
WriteUnchecked(c) ==
  LET call == calls[c] t == call.tool IN
  /\ call.at = "write"
  /\ tools' = [tools EXCEPT ![t] = call.value.version]
  /\ Applied(c)
  /\ UNCHANGED <<engine, home, tab, toolsTab, clicks, tabs>>

\* register_tool inserts; update_tool wants the tool to be still there.
Write(c) ==
  LET call == calls[c] t == call.tool IN
  /\ call.at = "write"
  /\ IF call.do = "create" \/ tools[t] # Nothing
       THEN tools' = [tools EXCEPT ![t] = call.value] /\ Applied(c) /\ UNCHANGED engine
       ELSE Refused(c)
  /\ UNCHANGED <<home, tab, toolsTab, clicks, tabs>>

\* get_status, get_tools.
Answer(c) ==
  /\ calls[c].at = "ask"
  /\ calls' = [calls EXCEPT ![c].at = "told",
       ![c].answer = [of |-> IF Part(calls[c]) = "engine" THEN engine ELSE tools,
                      epoch |-> epoch[Part(calls[c])]]]
  /\ UNCHANGED <<server, home, tab, toolsTab, clicks, tabs>>

\* fetch rejects, before the request or after its answer left, or the answer is
\* not a 2xx.
Lose(c) ==
  /\ Click
  /\ \/ /\ calls[c].at \in {"change", "changed"}
        /\ calls' = [calls EXCEPT ![c].at = "changed", ![c].answer = FALSE]
     \/ /\ calls[c].at \in {"ask", "told"}
        /\ calls' = [calls EXCEPT ![c].at = "told", ![c].answer = Nothing]
  /\ UNCHANGED <<server, home, tab, toolsTab, tabs>>

-----------------------------------------------------------------------------
(* The page goes on after an answer.                                       *)

\* handleUpdateTool closes the form that is open now, of whichever row.
CloseForms(c) ==
  LET success == calls[c].mounted /\ calls[c].answer = TRUE IN
  /\ edit' = IF calls[c].do = "update" /\ success THEN NoEdit ELSE edit
  /\ create' = IF calls[c].do = "create" /\ success THEN NoCreate ELSE create

\* Mutant: the list is refreshed by the next tick only.
NextAfterChange(c) == NoCall

\* await loadTools(), fetchServerStatus().
AfterChange(c) ==
  [calls[c] EXCEPT !.at = "ask", !.tool = Nothing, !.value = Nothing, !.answer = Nothing]

Changed(c) ==
  /\ calls[c].at = "changed"
  /\ CloseForms(c)
  /\ calls' = [calls EXCEPT ![c] = IF calls[c].answer = TRUE THEN AfterChange(c) ELSE NoCall]
  /\ status' = IF calls[c].do = "engine" /\ calls[c].answer = FALSE
                 THEN [status EXCEPT !.error = TRUE] ELSE status
  /\ UNCHANGED <<server, health, tab, rows, clicks, tabs>>

\* Mutant: the status bar's engine is left to the toggle.
CoreHealthOnly(c) == [health EXCEPT !.core = "healthy"]

HealthAfter(c) == [core |-> "healthy", engine |-> calls[c].answer.of]

\* loadStatus: a success clears the error and goes on to ask Prometheus, whose
\* answer sets an indicator that nothing else reads.
StatusTold(c) ==
  /\ calls[c].at = "told" /\ calls[c].do = "status"
  /\ LET answer == calls[c].answer IN
     IF answer # Nothing
       THEN /\ status' = [engine |-> answer.of, epoch |-> answer.epoch, error |-> FALSE]
            /\ health' = HealthAfter(c)
            /\ calls' = [calls EXCEPT ![c] = [NoCall EXCEPT !.do = "status", !.at = "probe"]]
       ELSE /\ status' = [status EXCEPT !.error = TRUE]
            /\ health' = [health EXCEPT !.core = "down"]
            /\ calls' = [calls EXCEPT ![c] = NoCall]
  /\ UNCHANGED <<server, tab, toolsTab, clicks, tabs>>

Probed(c) ==
  /\ calls[c].at = "probe"
  /\ calls' = [calls EXCEPT ![c] = NoCall]
  /\ UNCHANGED <<server, home, tab, toolsTab, clicks, tabs>>

\* Mutant: the refresh after a toggle clears the error banner too.
EngineTold(c) ==
  [status EXCEPT !.engine = calls[c].answer.of, !.epoch = calls[c].answer.epoch,
                 !.error = FALSE]

\* handleToggleContextEngine's refresh leaves the error and the status bar alone.
Refreshed(c) ==
  [status EXCEPT !.engine = calls[c].answer.of, !.epoch = calls[c].answer.epoch]

ToggleTold(c) ==
  /\ calls[c].at = "told" /\ calls[c].do = "engine"
  /\ status' = IF calls[c].answer # Nothing THEN Refreshed(c) ELSE [status EXCEPT !.error = TRUE]
  /\ calls' = [calls EXCEPT ![c] = NoCall]
  /\ UNCHANGED <<server, health, tab, toolsTab, clicks, tabs>>

\* loadTools: a failure leaves the list, or an empty one.
ListAfter(c) ==
  IF calls[c].answer # Nothing THEN calls[c].answer
  ELSE IF rows = Nothing THEN [of |-> [t \in Names |-> Nothing], epoch |-> -1] ELSE rows

ListTold(c) ==
  /\ calls[c].at = "told" /\ calls[c].do \notin {"status", "engine"}
  /\ rows' = IF calls[c].mounted THEN ListAfter(c) ELSE rows
  /\ calls' = [calls EXCEPT ![c] = NoCall]
  /\ UNCHANGED <<server, home, tab, edit, create, clicks, tabs>>

Server(c) == Change(c) \/ Write(c) \/ Answer(c)
Goes(c)   == Changed(c) \/ StatusTold(c) \/ Probed(c) \/ ToggleTold(c) \/ ListTold(c)

ConsoleNext ==
  \/ \E c \in Calls : Tick(c) \/ Server(c) \/ Goes(c) \/ Lose(c)
  \/ \E c \in CallSlots : ToggleEngine(c) \/ UpdateTool(c) \/ CreateTool(c)
  \/ \E c \in CallSlots, t \in Names : ToggleTool(c, t) \/ DeleteTool(c, t)
  \/ \E t \in Names : EditRow(t)
  \/ FillCreate \/ SwitchTab

\* The intervals tick, the server answers and the callbacks run.
ConsoleFairness ==
  /\ WF_consoleVars(Tick("home")) /\ WF_consoleVars(Tick("list"))
  /\ \A c \in Calls : WF_consoleVars(Server(c)) /\ WF_consoleVars(Goes(c))

ConsoleSpec == ConsoleInit /\ [][ConsoleNext]_consoleVars /\ ConsoleFairness

-----------------------------------------------------------------------------
(* Properties.                                                             *)

\* The header does not say "Connected" while the status bar says that the core
\* is down, however the answers of polls and toggles mix (page.tsx loadStatus,
\* handleToggleContextEngine).
CoreDownShowsError == health.core = "down" => status.error

\* Typed, and the header and the status bar agree.
PageConsistent == ConsoleTypeOK /\ CoreDownShowsError

\* When a change that the server made has run its course, its effect is shown,
\* unless the refresh failed or the tab is gone: what is shown is at least as
\* new as the change (await before loadTools and fetchServerStatus).
OwnChangeShown ==
  [][\A c \in Calls :
       /\ calls[c].applied /\ calls[c].mounted
       /\ calls[c].at # "none" /\ calls'[c].at = "none"
       /\ ~(calls[c].at = "changed" /\ calls[c].answer = FALSE)
       /\ ~(calls[c].at = "told" /\ calls[c].answer = Nothing)
       => IF Part(calls[c]) = "engine"
            THEN status'.epoch >= calls[c].since
            ELSE rows' # Nothing /\ rows'.epoch >= calls[c].since]_consoleVars

\* Once users stop clicking and requests stop failing, the page comes to show
\* what the server holds, without an error, and stays so: an old answer that
\* overtakes a new one is corrected by the next tick.
DisplaySettles ==
  <>[](/\ status.engine = engine /\ health.engine = engine /\ ~status.error
       /\ tab = "tools" => rows # Nothing /\ rows.of = tools)
=============================================================================
