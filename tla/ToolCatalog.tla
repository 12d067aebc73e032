---------------------------- MODULE ToolCatalog ----------------------------
(***************************************************************************)
(* What the tool endpoints promise: a catalogue in which creating,         *)
(* updating, toggling and deleting a tool each happen at one instant.      *)
(* Creations and updates are asked for first: a creation while its name is *)
(* free, an update while there is a tool.  Each knows what its name has    *)
(* stood for since then.  When nothing came between, that is one state: a  *)
(* creation replaces no tool and an update changes exactly the fields that *)
(* its request gives.  Otherwise a creation may replace the tool that came *)
(* between, and the fields that an update is not given may go back to what *)
(* they were since it was asked for.                                       *)
(***************************************************************************)
CONSTANTS
  Clients,    \* who asks
  Names,      \* tool names
  Versions,   \* the data of a tool besides its flag
  NoTool,     \* "no such tool"
  Keep        \* "this field is not given"

VARIABLES
  catalog,    \* name -> tool
  offers,     \* creations not yet carried out
  updates     \* updates not yet carried out

Tool  == [version : Versions, enabled : BOOLEAN]
Patch == [version : Versions \cup {Keep}, enabled : BOOLEAN \cup {Keep}]

Patched(t, p) == [f \in DOMAIN t |-> IF p[f] = Keep THEN t[f] ELSE p[f]]

\* The requests of S see that n now stands for t.
Told(S, n, t) ==
  {IF q.name = n THEN [q EXCEPT !.since = @ \cup {t}] ELSE q : q \in S}

\* n stands for t from now on; off and upd are the requests that remain.
Becomes(n, t, off, upd) ==
  /\ catalog' = [catalog EXCEPT ![n] = t]
  /\ offers' = Told(off, n, t)
  /\ updates' = Told(upd, n, t)

Offer(c, n, t) ==
  /\ catalog[n] = NoTool
  /\ offers' = offers \cup
       {[by |-> c, name |-> n, tool |-> t, since |-> {NoTool}]}
  /\ UNCHANGED <<catalog, updates>>

Create(o) == Becomes(o.name, o.tool, offers \ {o}, updates)

Ask(c, n, p) ==
  /\ catalog[n] # NoTool
  /\ updates' = updates \cup
       {[by |-> c, name |-> n, patch |-> p, since |-> {catalog[n]}]}
  /\ UNCHANGED <<catalog, offers>>

Update(u) ==
  /\ catalog[u.name] # NoTool
  /\ \E old \in u.since \ {NoTool} :
       Becomes(u.name, Patched(old, u.patch), offers, updates \ {u})

Refuse(u) ==
  /\ catalog[u.name] = NoTool
  /\ updates' = updates \ {u}
  /\ UNCHANGED <<catalog, offers>>

Toggle(n, b) ==
  /\ catalog[n] # NoTool
  /\ Becomes(n, [catalog[n] EXCEPT !.enabled = b], offers, updates)

Delete(n) ==
  /\ catalog[n] # NoTool
  /\ Becomes(n, NoTool, offers, updates)

Init ==
  /\ catalog \in [Names -> Tool \cup {NoTool}]
  /\ offers = {}
  /\ updates = {}

Next ==
  \/ \E o \in offers : Create(o)
  \/ \E u \in updates : Update(u) \/ Refuse(u)
  \/ \E n \in Names :
       \/ \E c \in Clients, t \in Tool : Offer(c, n, t)
       \/ \E c \in Clients, p \in Patch : Ask(c, n, p)
       \/ \E b \in BOOLEAN : Toggle(n, b)
       \/ Delete(n)

Spec == Init /\ [][Next]_<<catalog, offers, updates>>
=============================================================================
