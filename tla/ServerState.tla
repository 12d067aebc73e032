---------------------------- MODULE ServerState ----------------------------
(***************************************************************************)
(* The tool registry of ServerState (mcp-core/src/server_state.rs) under   *)
(* the HTTP handlers of mcp-core/src/main.rs.  Handlers run concurrently;  *)
(* each method of ServerState holds one lock for its whole body and gives  *)
(* it back before the handler goes on, so a handler that calls two methods *)
(* is two steps, with other handlers in between.  The metrics handler also *)
(* writes and reads a Prometheus gauge that all its calls share; of its    *)
(* three gauges, set alike, the one that counts the tools is modelled.     *)
(***************************************************************************)
EXTENDS Integers, FiniteSets

CONSTANTS
  Requests,      \* handlers in flight at a time
  Names,         \* tool names
  Startup,       \* the tools main registers before it serves
  Versions,      \* a tool's version, type and permissions
  FirstVersion,  \* those of a tool registered at startup
  NoTool,        \* "no such tool"
  Keep,          \* "the payload has no such field"
  MaxRequests    \* bound: requests served

Tool  == [version : Versions, enabled : BOOLEAN]
Patch == [version : Versions \cup {Keep}, enabled : BOOLEAN \cup {Keep}]

ASSUME NamesAssumption ==
  Startup \subseteq Names /\ Startup # {} /\ IsFiniteSet(Names)
ASSUME VersionsAssumption == FirstVersion \in Versions
ASSUME MarkersAssumption ==
  NoTool \notin Tool /\ Keep \notin Versions \cup BOOLEAN
ASSUME BoundsAssumption == MaxRequests \in Nat

VARIABLES
  tools,     \* name -> tool
  gauge,     \* tools_gauge
  pc,        \* where each handler is
  name,      \* the tool its request is about
  patch,     \* the fields its update request gives
  local,     \* the tool it holds between two calls
  count,     \* the number of tools it has read
  status,    \* the status of its last response
  served,    \* history: requests served so far
  since,     \* history: what its name has stood for since it looked
  sizes,     \* history: the numbers of tools during its scrape
  window     \* history: those during its scrape or one it began beside

handler == <<pc, name, patch, local, count, status>>
history == <<since, sizes, window>>
vars    == <<tools, gauge, handler, served, history>>

Locations == {"idle", "register", "write", "read", "set", "gather"}
Statuses  == {"none", "ok", "conflict", "notfound", "error"}

\* The number of registered tools.
Size(map) == Cardinality({n \in Names : map[n] # NoTool})

TypeOK ==
  /\ tools \in [Names -> Tool \cup {NoTool}]
  /\ gauge \in Nat
  /\ pc \in [Requests -> Locations]
  /\ name \in [Requests -> Names]
  /\ patch \in [Requests -> Patch]
  /\ local \in [Requests -> Tool \cup {NoTool}]
  /\ count \in [Requests -> Nat]
  /\ status \in [Requests -> Statuses]
  /\ served \in Nat
  /\ since \in [Requests -> SUBSET (Tool \cup {NoTool})]
  /\ sizes \in [Requests -> SUBSET Nat]
  /\ window \in [Requests -> SUBSET Nat]

NoPatch == [version |-> Keep, enabled |-> Keep]

Init ==
  /\ tools = [n \in Names |->
                IF n \in Startup
                  THEN [version |-> FirstVersion, enabled |-> TRUE]
                  ELSE NoTool]
  /\ gauge = 0
  /\ pc = [r \in Requests |-> "idle"]
  /\ name = [r \in Requests |-> CHOOSE n \in Startup : TRUE]
  /\ patch = [r \in Requests |-> NoPatch]
  /\ local = [r \in Requests |-> NoTool]
  /\ count = [r \in Requests |-> 0]
  /\ status = [r \in Requests |-> "none"]
  /\ served = 0
  /\ since = [r \in Requests |-> {}]
  /\ sizes = [r \in Requests |-> {}]
  /\ window = [r \in Requests |-> {}]

-----------------------------------------------------------------------------
(* Helpers.                                                                *)

\* A new request reaches an idle handler.
Begin(r) ==
  /\ pc[r] = "idle"
  /\ served < MaxRequests
  /\ served' = served + 1

\* The handler answers; its locals are gone.
Respond(r, s) ==
  /\ pc' = [pc EXCEPT ![r] = "idle"]
  /\ status' = [status EXCEPT ![r] = s]
  /\ patch' = [patch EXCEPT ![r] = NoPatch]
  /\ local' = [local EXCEPT ![r] = NoTool]

\* Handler r makes the map become map.  The other handlers that looked a name
\* up see what it stands for now, the scrapes in progress see the size.
Become(r, map) ==
  /\ tools' = map
  /\ since' = [q \in Requests |->
                 IF q # r /\ pc[q] \in {"register", "write"}
                   THEN since[q] \cup {map[name[q]]} ELSE {}]
  /\ sizes' = [q \in Requests |->
                 IF pc[q] \in {"set", "gather"}
                   THEN sizes[q] \cup {Size(map)} ELSE sizes[q]]
  /\ window' = [q \in Requests |->
                  IF pc[q] \in {"set", "gather"}
                    THEN window[q] \cup {Size(map)} ELSE window[q]]

Put(r, n, t) == Become(r, [tools EXCEPT ![n] = t])

\* Mutant: a field that is not given is stored as absent.
PatchedWithNull(t, p) == p

\* Mutant: a flag that is not given is taken as true, as create_tool takes it.
PatchedWithDefault(t, p) ==
  [version |-> IF p.version = Keep THEN t.version ELSE p.version,
   enabled |-> IF p.enabled = Keep THEN TRUE ELSE p.enabled]

\* update_tool: the fields the payload gives replace those of the tool.
Patched(t, p) ==
  [version |-> IF p.version = Keep THEN t.version ELSE p.version,
   enabled |-> IF p.enabled = Keep THEN t.enabled ELSE p.enabled]

-----------------------------------------------------------------------------
(* The tool handlers.                                                      *)

\* create_tool, up to its get_tool.
CreateCheck(r, n, t) ==
  /\ Begin(r)
  /\ name' = [name EXCEPT ![r] = n]
  /\ IF tools[n] # NoTool
       THEN Respond(r, "conflict") /\ UNCHANGED since
       ELSE /\ pc' = [pc EXCEPT ![r] = "register"]
            /\ local' = [local EXCEPT ![r] = t]
            /\ since' = [since EXCEPT ![r] = {NoTool}]
            /\ UNCHANGED <<status, patch>>
  /\ UNCHANGED <<tools, gauge, count, sizes, window>>

\* create_tool, from its register_tool: an unconditional insert.
CreateRegister(r) ==
  /\ pc[r] = "register"
  /\ Put(r, name[r], local[r])
  /\ Respond(r, "ok")
  /\ UNCHANGED <<gauge, name, count, served>>

\* update_tool, up to its get_tool, with the patch applied to the copy.
UpdateRead(r, n, p) ==
  /\ Begin(r)
  /\ name' = [name EXCEPT ![r] = n]
  /\ IF tools[n] = NoTool
       THEN Respond(r, "notfound") /\ UNCHANGED since
       ELSE /\ pc' = [pc EXCEPT ![r] = "write"]
            /\ patch' = [patch EXCEPT ![r] = p]
            /\ local' = [local EXCEPT ![r] = Patched(tools[n], p)]
            /\ since' = [since EXCEPT ![r] = {tools[n]}]
            /\ UNCHANGED status
  /\ UNCHANGED <<tools, gauge, count, sizes, window>>

\* update_tool, from its ServerState::update_tool.
UpdateWrite(r) ==
  /\ pc[r] = "write"
  /\ IF tools[name[r]] # NoTool
       THEN Put(r, name[r], local[r]) /\ Respond(r, "ok")
       ELSE /\ Respond(r, "error")
            /\ since' = [since EXCEPT ![r] = {}]
            /\ UNCHANGED <<tools, sizes, window>>
  /\ UNCHANGED <<gauge, name, count, served>>

\* toggle_tool
ToggleTool(r, n, b) ==
  /\ Begin(r)
  /\ name' = [name EXCEPT ![r] = n]
  /\ IF tools[n] # NoTool
       THEN Put(r, n, [tools[n] EXCEPT !.enabled = b]) /\ Respond(r, "ok")
       ELSE Respond(r, "notfound") /\ UNCHANGED <<tools, history>>
  /\ UNCHANGED <<gauge, count>>

\* delete_tool
DeleteTool(r, n) ==
  /\ Begin(r)
  /\ name' = [name EXCEPT ![r] = n]
  /\ IF tools[n] # NoTool
       THEN Become(r, [tools EXCEPT ![n] = NoTool]) /\ Respond(r, "ok")
       ELSE Respond(r, "notfound") /\ UNCHANGED <<tools, history>>
  /\ UNCHANGED <<gauge, count>>

-----------------------------------------------------------------------------
(* The metrics handler.                                                    *)

\* get_tools().await
ScrapeRead(r) ==
  /\ Begin(r)
  /\ count' = [count EXCEPT ![r] = Size(tools)]
  /\ sizes' = [sizes EXCEPT ![r] = {Size(tools)}]
  /\ window' = [window EXCEPT
                  ![r] = {Size(tools)} \cup UNION {sizes[q] : q \in Requests}]
  /\ pc' = [pc EXCEPT ![r] = "set"]
  /\ UNCHANGED <<tools, gauge, name, patch, local, status, since>>

\* Mutant: the gauge is incremented instead of set.
ScrapeAdd(r) ==
  /\ pc[r] = "set"
  /\ gauge' = gauge + count[r]
  /\ pc' = [pc EXCEPT ![r] = "gather"]
  /\ UNCHANGED <<tools, name, patch, local, count, status, served, history>>

\* tools_gauge.set
ScrapeSet(r) ==
  /\ pc[r] = "set"
  /\ gauge' = count[r]
  /\ pc' = [pc EXCEPT ![r] = "gather"]
  /\ UNCHANGED <<tools, name, patch, local, count, status, served, history>>

\* registry.gather and the response
ScrapeGather(r) ==
  /\ pc[r] = "gather"
  /\ count' = [count EXCEPT ![r] = 0]
  /\ sizes' = [sizes EXCEPT ![r] = {}]
  /\ window' = [window EXCEPT ![r] = {}]
  /\ Respond(r, "ok")
  /\ UNCHANGED <<tools, gauge, name, served, since>>

-----------------------------------------------------------------------------
(* The specification.                                                      *)

\* No request is being served (MaxRequests keeps new ones away).
Quiescent ==
  /\ \A r \in Requests : pc[r] = "idle"
  /\ UNCHANGED vars

Next ==
  \/ \E r \in Requests, n \in Names, t \in Tool : CreateCheck(r, n, t)
  \/ \E r \in Requests : CreateRegister(r)
  \/ \E r \in Requests, n \in Names, p \in Patch : UpdateRead(r, n, p)
  \/ \E r \in Requests : UpdateWrite(r)
  \/ \E r \in Requests, n \in Names, b \in BOOLEAN : ToggleTool(r, n, b)
  \/ \E r \in Requests, n \in Names : DeleteTool(r, n)
  \/ \E r \in Requests : ScrapeRead(r)
  \/ \E r \in Requests : ScrapeSet(r)
  \/ \E r \in Requests : ScrapeGather(r)
  \/ Quiescent

Spec == Init /\ [][Next]_vars

-----------------------------------------------------------------------------
(* Safety.                                                                 *)

\* The creations between check and insert.
Offers ==
  {[by |-> r, name |-> name[r], tool |-> local[r], since |-> since[r]] :
     r \in {q \in Requests : pc[q] = "register"}}

\* The updates between read and write.
Updates ==
  {[by |-> r, name |-> name[r], patch |-> patch[r], since |-> since[r]] :
     r \in {q \in Requests : pc[q] = "write"}}

\* Whatever handlers overlap, the tools go through the states of a catalogue
\* whose operations are instants ("Check if tool already exists", main.rs:331;
\* "Update fields if provided", main.rs:358).  A request whose tool nobody
\* touched between its look and its write creates over no tool and updates
\* exactly the fields given; one that was overtaken undoes no more than what
\* came between; no update brings back a deleted tool.
Catalog == INSTANCE ToolCatalog WITH
             Clients <- Requests,
             catalog <- tools,
             offers <- Offers,
             updates <- Updates

CatalogSpec == Catalog!Spec

\* "Update metrics with current values" (main.rs:264), as far as the shared
\* gauge allows: the number of tools a scrape reports is one the registry had
\* while that scrape, or one under way when it began, was served; a chain of
\* overlapping scrapes hands nothing further on.
ScrapeRecent ==
  [][\A r \in Requests :
       pc[r] = "gather" /\ pc'[r] = "idle" => gauge \in window[r]]_vars
=============================================================================
