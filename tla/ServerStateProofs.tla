------------------------- MODULE ServerStateProofs -------------------------
(***************************************************************************)
(* Proofs about ServerState, for every number of handlers, every set of    *)
(* tools and every bound on the requests.                                  *)
(***************************************************************************)
EXTENDS ServerState, FiniteSetTheorems, TLAPS

-----------------------------------------------------------------------------
(* Lemmas on the operators.                                                *)

LEMMA SizeType ==
  ASSUME NEW map
  PROVE  Size(map) \in Nat
<1>1. IsFiniteSet({n \in Names : map[n] # NoTool})
  BY NamesAssumption, FS_Subset
<1>2. QED
  BY <1>1, FS_CardinalityType DEF Size

LEMMA PatchedType ==
  ASSUME NEW t \in Tool, NEW p \in Patch
  PROVE  Patched(t, p) \in Tool
BY DEF Patched, Tool, Patch

LEMMA ToggledType ==
  ASSUME NEW t \in Tool, NEW b \in BOOLEAN
  PROVE  [t EXCEPT !.enabled = b] \in Tool
BY DEF Tool

\* The catalogue patches a tool as the handler does.
LEMMA SamePatched ==
  ASSUME NEW t \in Tool, NEW p \in Patch
  PROVE  Catalog!Patched(t, p) = Patched(t, p)
BY DEF Catalog!Patched, Patched, Tool, Patch

\* What a write to the map does to the observers of the map.
LEMMA BecomeType ==
  ASSUME TypeOK, NEW r \in Requests,
         NEW map \in [Names -> Tool \cup {NoTool}], Become(r, map)
  PROVE  /\ tools' = map
         /\ since' \in [Requests -> SUBSET (Tool \cup {NoTool})]
         /\ sizes' \in [Requests -> SUBSET Nat]
         /\ window' \in [Requests -> SUBSET Nat]
<1>1. \A q \in Requests : map[name[q]] \in Tool \cup {NoTool}
  BY DEF TypeOK
<1>2. since' \in [Requests -> SUBSET (Tool \cup {NoTool})]
  BY <1>1 DEF TypeOK, Become
<1>3. Size(map) \in Nat
  BY SizeType
<1>4. sizes' \in [Requests -> SUBSET Nat] /\ window' \in [Requests -> SUBSET Nat]
  BY <1>3 DEF TypeOK, Become
<1>5. QED
  BY <1>2, <1>4 DEF Become

LEMMA PutType ==
  ASSUME TypeOK, NEW r \in Requests, NEW n \in Names, NEW t \in Tool,
         Put(r, n, t)
  PROVE  /\ tools' = [tools EXCEPT ![n] = t]
         /\ tools' \in [Names -> Tool \cup {NoTool}]
         /\ since' \in [Requests -> SUBSET (Tool \cup {NoTool})]
         /\ sizes' \in [Requests -> SUBSET Nat]
         /\ window' \in [Requests -> SUBSET Nat]
<1>1. [tools EXCEPT ![n] = t] \in [Names -> Tool \cup {NoTool}]
  BY DEF TypeOK
<1>2. QED
  BY <1>1, BecomeType DEF Put

LEMMA RespondType ==
  ASSUME TypeOK, NEW r \in Requests, NEW s \in Statuses, Respond(r, s)
  PROVE  /\ pc' \in [Requests -> Locations]
         /\ status' \in [Requests -> Statuses]
         /\ patch' \in [Requests -> Patch]
         /\ local' \in [Requests -> Tool \cup {NoTool}]
<1>1. NoPatch \in Patch
  BY DEF NoPatch, Patch
<1>2. QED
  BY <1>1 DEF Respond, TypeOK, Locations

-----------------------------------------------------------------------------
(* The inductive invariant.  A handler between its look and its write has  *)
(* seen what its name stands for now, and holds what it made of one of the *)
(* tools it has seen.                                                      *)

Pending(r) ==
  /\ pc[r] \in {"register", "write"} => tools[name[r]] \in since[r]
  /\ pc[r] = "register" => local[r] \in Tool
  /\ pc[r] = "write" =>
       \E old \in since[r] \ {NoTool} : local[r] = Patched(old, patch[r])

Inv ==
  /\ TypeOK
  /\ \A r \in Requests : Pending(r)

LEMMA InvInit == Init => Inv
<1> SUFFICES ASSUME Init PROVE Inv
  OBVIOUS
<1>1. (CHOOSE n \in Startup : TRUE) \in Names
  BY NamesAssumption
<1>2. [version |-> FirstVersion, enabled |-> TRUE] \in Tool
  BY VersionsAssumption DEF Tool
<1>3. NoPatch \in Patch
  BY DEF NoPatch, Patch
<1>4. tools \in [Names -> Tool \cup {NoTool}]
  BY <1>2 DEF Init
<1>5. TypeOK
  BY <1>1, <1>3, <1>4 DEF Init, TypeOK, Locations, Statuses
<1>6. QED
  BY <1>5 DEF Init, Inv, Pending

LEMMA HeldIsTool ==
  ASSUME Inv, NEW r \in Requests, pc[r] \in {"register", "write"}
  PROVE  local[r] \in Tool /\ name[r] \in Names
<1>1. TypeOK
  BY DEF Inv
<1>2. name[r] \in Names /\ patch[r] \in Patch
  BY <1>1 DEF TypeOK
<1>3. CASE pc[r] = "register"
  BY <1>2, <1>3 DEF Inv, Pending
<1>4. CASE pc[r] = "write"
  <2>1. PICK old \in since[r] \ {NoTool} : local[r] = Patched(old, patch[r])
    BY <1>4 DEF Inv, Pending
  <2>2. old \in Tool
    BY <1>1 DEF TypeOK
  <2>3. QED
    BY <1>2, <2>1, <2>2, PatchedType
<1>5. QED
  BY <1>3, <1>4

\* The type part, action by action.
LEMMA TypeStep == Inv /\ [Next]_vars => TypeOK'
<1> SUFFICES ASSUME Inv, [Next]_vars PROVE TypeOK'
  OBVIOUS
<1>0. TypeOK
  BY DEF Inv
<1>1. ASSUME NEW r \in Requests, NEW n \in Names, NEW t \in Tool,
             CreateCheck(r, n, t)
      PROVE  TypeOK'
  <2>1. /\ name' \in [Requests -> Names] /\ served' \in Nat
        /\ UNCHANGED <<tools, gauge, count, sizes, window>>
    BY <1>0, <1>1 DEF CreateCheck, Begin, TypeOK
  <2>2. /\ pc' \in [Requests -> Locations] /\ status' \in [Requests -> Statuses]
        /\ patch' \in [Requests -> Patch]
        /\ local' \in [Requests -> Tool \cup {NoTool}]
        /\ since' \in [Requests -> SUBSET (Tool \cup {NoTool})]
    <3>1. CASE Respond(r, "conflict") /\ UNCHANGED since
      BY <1>0, <3>1, RespondType DEF Statuses, TypeOK
    <3>2. CASE /\ pc' = [pc EXCEPT ![r] = "register"]
               /\ local' = [local EXCEPT ![r] = t]
               /\ since' = [since EXCEPT ![r] = {NoTool}]
               /\ UNCHANGED <<status, patch>>
      BY <1>0, <3>2 DEF TypeOK, Locations
    <3>3. QED
      BY <1>1, <3>1, <3>2 DEF CreateCheck
  <2>3. QED
    BY <1>0, <2>1, <2>2 DEF TypeOK
<1>2. ASSUME NEW r \in Requests, CreateRegister(r)
      PROVE  TypeOK'
  <2>1. name[r] \in Names /\ local[r] \in Tool
    BY <1>0, <1>2 DEF CreateRegister, TypeOK, Inv, Pending
  <2>2. Put(r, name[r], local[r]) /\ Respond(r, "ok")
    BY <1>2 DEF CreateRegister
  <2>3. QED
    BY <1>0, <1>2, <2>1, <2>2, PutType, RespondType
    DEF TypeOK, CreateRegister, Statuses
<1>3. ASSUME NEW r \in Requests, NEW n \in Names, NEW p \in Patch,
             UpdateRead(r, n, p)
      PROVE  TypeOK'
  <2>1. /\ name' \in [Requests -> Names] /\ served' \in Nat
        /\ UNCHANGED <<tools, gauge, count, sizes, window>>
    BY <1>0, <1>3 DEF UpdateRead, Begin, TypeOK
  <2>2. /\ pc' \in [Requests -> Locations] /\ status' \in [Requests -> Statuses]
        /\ patch' \in [Requests -> Patch]
        /\ local' \in [Requests -> Tool \cup {NoTool}]
        /\ since' \in [Requests -> SUBSET (Tool \cup {NoTool})]
    <3>1. CASE tools[n] = NoTool
      <4>1. Respond(r, "notfound") /\ UNCHANGED since
        BY <1>3, <3>1 DEF UpdateRead
      <4>2. QED
        BY <1>0, <4>1, RespondType DEF Statuses, TypeOK
    <3>2. CASE tools[n] # NoTool
      <4>1. Patched(tools[n], p) \in Tool
        BY <1>0, <3>2, PatchedType DEF TypeOK
      <4>2. /\ pc' = [pc EXCEPT ![r] = "write"]
            /\ patch' = [patch EXCEPT ![r] = p]
            /\ local' = [local EXCEPT ![r] = Patched(tools[n], p)]
            /\ since' = [since EXCEPT ![r] = {tools[n]}]
            /\ UNCHANGED status
        BY <1>3, <3>2 DEF UpdateRead
      <4>3. QED
        BY <1>0, <4>1, <4>2 DEF TypeOK, Locations
    <3>3. QED
      BY <3>1, <3>2
  <2>3. QED
    BY <1>0, <2>1, <2>2 DEF TypeOK
<1>4. ASSUME NEW r \in Requests, UpdateWrite(r)
      PROVE  TypeOK'
  <2>1. name[r] \in Names /\ pc[r] = "write"
    BY <1>0, <1>4 DEF UpdateWrite, TypeOK
  <2>2. local[r] \in Tool
    BY <2>1, HeldIsTool
  <2>3. CASE tools[name[r]] # NoTool
    <3>1. Put(r, name[r], local[r]) /\ Respond(r, "ok")
      BY <1>4, <2>3 DEF UpdateWrite
    <3>2. QED
      BY <1>0, <1>4, <2>1, <2>2, <3>1, PutType, RespondType
      DEF TypeOK, UpdateWrite, Statuses
  <2>4. CASE tools[name[r]] = NoTool
    <3>1. /\ Respond(r, "error") /\ since' = [since EXCEPT ![r] = {}]
          /\ UNCHANGED <<tools, sizes, window>>
      BY <1>4, <2>4 DEF UpdateWrite
    <3>2. QED
      BY <1>0, <1>4, <3>1, RespondType DEF TypeOK, UpdateWrite, Statuses
  <2>5. QED
    BY <2>3, <2>4
<1>5. ASSUME NEW r \in Requests, NEW n \in Names, NEW b \in BOOLEAN,
             ToggleTool(r, n, b)
      PROVE  TypeOK'
  <2>1. /\ name' \in [Requests -> Names] /\ served' \in Nat
        /\ UNCHANGED <<gauge, count>>
    BY <1>0, <1>5 DEF ToggleTool, Begin, TypeOK
  <2>2. CASE tools[n] # NoTool
    <3>1. /\ Put(r, n, [tools[n] EXCEPT !.enabled = b])
          /\ Respond(r, "ok")
      BY <1>5, <2>2 DEF ToggleTool
    <3>2. [tools[n] EXCEPT !.enabled = b] \in Tool
      BY <1>0, <2>2, ToggledType DEF TypeOK
    <3>3. QED
      BY <1>0, <2>1, <3>1, <3>2, PutType, RespondType DEF TypeOK, Statuses
  <2>3. CASE tools[n] = NoTool
    <3>1. Respond(r, "notfound") /\ UNCHANGED <<tools, since, sizes, window>>
      BY <1>5, <2>3 DEF ToggleTool, history
    <3>2. QED
      BY <1>0, <2>1, <3>1, RespondType DEF TypeOK, Statuses
  <2>4. QED
    BY <2>2, <2>3
<1>6. ASSUME NEW r \in Requests, NEW n \in Names, DeleteTool(r, n)
      PROVE  TypeOK'
  <2>1. /\ name' \in [Requests -> Names] /\ served' \in Nat
        /\ UNCHANGED <<gauge, count>>
    BY <1>0, <1>6 DEF DeleteTool, Begin, TypeOK
  <2>2. CASE tools[n] # NoTool
    <3>1. /\ Become(r, [tools EXCEPT ![n] = NoTool])
          /\ Respond(r, "ok")
      BY <1>6, <2>2 DEF DeleteTool
    <3>2. [tools EXCEPT ![n] = NoTool] \in [Names -> Tool \cup {NoTool}]
      BY <1>0 DEF TypeOK
    <3>3. /\ tools' \in [Names -> Tool \cup {NoTool}]
          /\ since' \in [Requests -> SUBSET (Tool \cup {NoTool})]
          /\ sizes' \in [Requests -> SUBSET Nat]
          /\ window' \in [Requests -> SUBSET Nat]
      BY <1>0, <3>1, <3>2, BecomeType
    <3>4. QED
      BY <1>0, <2>1, <3>1, <3>3, RespondType DEF TypeOK, Statuses
  <2>3. CASE tools[n] = NoTool
    <3>1. Respond(r, "notfound") /\ UNCHANGED <<tools, since, sizes, window>>
      BY <1>6, <2>3 DEF DeleteTool, history
    <3>2. QED
      BY <1>0, <2>1, <3>1, RespondType DEF TypeOK, Statuses
  <2>4. QED
    BY <2>2, <2>3
<1>7. ASSUME NEW r \in Requests, ScrapeRead(r)
      PROVE  TypeOK'
  <2>1. Size(tools) \in Nat
    BY SizeType
  <2>2. sizes' \in [Requests -> SUBSET Nat] /\ window' \in [Requests -> SUBSET Nat]
    BY <1>0, <1>7, <2>1 DEF ScrapeRead, TypeOK
  <2>3. QED
    BY <1>0, <1>7, <2>1, <2>2 DEF ScrapeRead, Begin, TypeOK, Locations
<1>8. ASSUME NEW r \in Requests, ScrapeSet(r)
      PROVE  TypeOK'
  BY <1>0, <1>8 DEF ScrapeSet, TypeOK, Locations, history
<1>9. ASSUME NEW r \in Requests, ScrapeGather(r)
      PROVE  TypeOK'
  BY <1>0, <1>9, RespondType DEF ScrapeGather, TypeOK, Statuses
<1>10. CASE UNCHANGED vars
  BY <1>0, <1>10 DEF TypeOK, vars, handler, history
<1>11. QED
  BY <1>1, <1>2, <1>3, <1>4, <1>5, <1>6, <1>7, <1>8, <1>9, <1>10
  DEF Next, Quiescent

\* A handler that does not move keeps what it holds, and sees the change of
\* the one that does.
LEMMA OtherPending ==
  ASSUME Inv, NEW r \in Requests, NEW q \in Requests, q # r,
         pc'[q] = pc[q], name'[q] = name[q],
         patch'[q] = patch[q], local'[q] = local[q],
         \/ \E map : Become(r, map)
         \/ UNCHANGED tools /\ since'[q] = since[q]
  PROVE  Pending(q)'
<1>1. Pending(q)
  BY DEF Inv
<1>2. CASE \E map : Become(r, map)
  <2>1. PICK map : Become(r, map)
    BY <1>2
  <2>2. pc[q] \in {"register", "write"} =>
          since'[q] = since[q] \cup {map[name[q]]} /\ tools' = map
    BY <2>1 DEF Become
  <2>3. QED
    BY <1>1, <2>2 DEF Pending
<1>3. CASE UNCHANGED tools /\ since'[q] = since[q]
  BY <1>1, <1>3 DEF Pending
<1>4. QED
  BY <1>2, <1>3

LEMMA RespondFrame ==
  ASSUME TypeOK, NEW r \in Requests, NEW s \in Statuses, Respond(r, s)
  PROVE  /\ pc'[r] = "idle"
         /\ \A q \in Requests : q # r =>
              /\ pc'[q] = pc[q]
              /\ patch'[q] = patch[q]
              /\ local'[q] = local[q]
BY DEF Respond, TypeOK

LEMMA PendingStep ==
  ASSUME Inv, [Next]_vars, NEW q \in Requests
  PROVE  Pending(q)'
<1>0. TypeOK /\ Pending(q)
  BY DEF Inv
<1> DEFINE Seen(r) == \/ \E map : Become(r, map)
                      \/ UNCHANGED tools /\ (q # r => since'[q] = since[q])
<1>a. ASSUME NEW r \in Requests, q # r, Seen(r),
             pc'[q] = pc[q], name'[q] = name[q],
             patch'[q] = patch[q], local'[q] = local[q]
      PROVE  Pending(q)'
  BY <1>a, OtherPending
<1>b. ASSUME pc'[q] \notin {"register", "write"}
      PROVE  Pending(q)'
  BY <1>b DEF Pending
<1>c. ASSUME NEW r \in Requests, NEW s \in Statuses, Respond(r, s), Seen(r),
             q # r => name'[q] = name[q]
      PROVE  Pending(q)'
  <2>1. pc'[r] = "idle" /\ (q # r =>
          pc'[q] = pc[q] /\ patch'[q] = patch[q] /\ local'[q] = local[q])
    BY <1>0, <1>c, RespondFrame
  <2>2. QED
    BY <1>a, <1>b, <1>c, <2>1
<1>1. ASSUME NEW r \in Requests, NEW n \in Names, NEW t \in Tool,
             CreateCheck(r, n, t)
      PROVE  Pending(q)'
  <2>1. name' = [name EXCEPT ![r] = n] /\ UNCHANGED tools
    BY <1>1 DEF CreateCheck
  <2>2. CASE tools[n] # NoTool
    <3>1. Respond(r, "conflict") /\ UNCHANGED since
      BY <1>1, <2>2 DEF CreateCheck
    <3>2. QED
      BY <1>0, <1>c, <2>1, <3>1 DEF TypeOK, Statuses
  <2>3. CASE tools[n] = NoTool
    <3>1. /\ pc' = [pc EXCEPT ![r] = "register"]
          /\ local' = [local EXCEPT ![r] = t]
          /\ since' = [since EXCEPT ![r] = {NoTool}]
          /\ UNCHANGED patch
      BY <1>1, <2>3 DEF CreateCheck
    <3>2. CASE q = r
      <4>1. /\ pc'[q] = "register" /\ local'[q] = t /\ name'[q] = n
            /\ tools'[n] = NoTool /\ since'[q] = {NoTool}
        BY <1>0, <2>1, <2>3, <3>1, <3>2 DEF TypeOK
      <4>2. QED
        BY <4>1 DEF Pending
    <3>3. CASE q # r
      BY <1>0, <1>a, <2>1, <3>1, <3>3 DEF TypeOK
    <3>4. QED
      BY <3>2, <3>3
  <2>4. QED
    BY <2>2, <2>3
<1>2. ASSUME NEW r \in Requests, CreateRegister(r)
      PROVE  Pending(q)'
  <2>1. Respond(r, "ok") /\ Become(r, [tools EXCEPT ![name[r]] = local[r]])
        /\ UNCHANGED name
    BY <1>2 DEF CreateRegister, Put
  <2>2. QED
    BY <1>c, <2>1 DEF Statuses
<1>3. ASSUME NEW r \in Requests, NEW n \in Names, NEW p \in Patch,
             UpdateRead(r, n, p)
      PROVE  Pending(q)'
  <2>1. name' = [name EXCEPT ![r] = n] /\ UNCHANGED tools
    BY <1>3 DEF UpdateRead
  <2>2. CASE tools[n] = NoTool
    <3>1. Respond(r, "notfound") /\ UNCHANGED since
      BY <1>3, <2>2 DEF UpdateRead
    <3>2. QED
      BY <1>0, <1>c, <2>1, <3>1 DEF TypeOK, Statuses
  <2>3. CASE tools[n] # NoTool
    <3>1. /\ pc' = [pc EXCEPT ![r] = "write"]
          /\ patch' = [patch EXCEPT ![r] = p]
          /\ local' = [local EXCEPT ![r] = Patched(tools[n], p)]
          /\ since' = [since EXCEPT ![r] = {tools[n]}]
      BY <1>3, <2>3 DEF UpdateRead
    <3>2. CASE q = r
      <4>1. /\ pc'[q] = "write" /\ patch'[q] = p /\ name'[q] = n
            /\ local'[q] = Patched(tools[n], p)
            /\ tools'[n] = tools[n] /\ since'[q] = {tools[n]}
        BY <1>0, <2>1, <3>1, <3>2 DEF TypeOK
      <4>2. QED
        BY <2>3, <4>1 DEF Pending
    <3>3. CASE q # r
      BY <1>0, <1>a, <2>1, <3>1, <3>3 DEF TypeOK
    <3>4. QED
      BY <3>2, <3>3
  <2>4. QED
    BY <2>2, <2>3
<1>4. ASSUME NEW r \in Requests, UpdateWrite(r)
      PROVE  Pending(q)'
  <2>1. UNCHANGED name
    BY <1>4 DEF UpdateWrite
  <2>2. CASE tools[name[r]] # NoTool
    <3>1. Respond(r, "ok") /\ Become(r, [tools EXCEPT ![name[r]] = local[r]])
      BY <1>4, <2>2 DEF UpdateWrite, Put
    <3>2. QED
      BY <1>c, <2>1, <3>1 DEF Statuses
  <2>3. CASE tools[name[r]] = NoTool
    <3>1. /\ Respond(r, "error") /\ since' = [since EXCEPT ![r] = {}]
          /\ UNCHANGED tools
      BY <1>4, <2>3 DEF UpdateWrite
    <3>2. q # r => since'[q] = since[q]
      BY <1>0, <3>1 DEF TypeOK
    <3>3. QED
      BY <1>c, <2>1, <3>1, <3>2 DEF Statuses
  <2>4. QED
    BY <2>2, <2>3
<1>5. ASSUME NEW r \in Requests, NEW n \in Names, NEW b \in BOOLEAN,
             ToggleTool(r, n, b)
      PROVE  Pending(q)'
  <2>1. name' = [name EXCEPT ![r] = n]
        /\ (Respond(r, "ok") \/ Respond(r, "notfound"))
    BY <1>5 DEF ToggleTool
  <2>2. Seen(r)
    BY <1>5 DEF ToggleTool, Put, history
  <2>3. QED
    BY <1>0, <1>c, <2>1, <2>2 DEF TypeOK, Statuses
<1>6. ASSUME NEW r \in Requests, NEW n \in Names, DeleteTool(r, n)
      PROVE  Pending(q)'
  <2>1. name' = [name EXCEPT ![r] = n]
        /\ (Respond(r, "ok") \/ Respond(r, "notfound"))
    BY <1>6 DEF DeleteTool
  <2>2. Seen(r)
    BY <1>6 DEF DeleteTool, history
  <2>3. QED
    BY <1>0, <1>c, <2>1, <2>2 DEF TypeOK, Statuses
<1>7. ASSUME NEW r \in Requests, ScrapeRead(r) \/ ScrapeSet(r)
      PROVE  Pending(q)'
  <2>1. /\ \E l \in {"set", "gather"} : pc' = [pc EXCEPT ![r] = l]
        /\ UNCHANGED <<tools, name, patch, local, since>>
    BY <1>7 DEF ScrapeRead, ScrapeSet, history
  <2>2. CASE q = r
    BY <1>0, <1>b, <2>1, <2>2 DEF TypeOK
  <2>3. CASE q # r
    BY <1>0, <1>a, <2>1, <2>3 DEF TypeOK
  <2>4. QED
    BY <2>2, <2>3
<1>8. ASSUME NEW r \in Requests, ScrapeGather(r)
      PROVE  Pending(q)'
  BY <1>8, <1>c DEF ScrapeGather, Statuses
<1>9. CASE UNCHANGED vars
  BY <1>0, <1>9 DEF Pending, vars, handler, history
<1>10. QED
  BY <1>1, <1>2, <1>3, <1>4, <1>5, <1>6, <1>7, <1>8, <1>9
  DEF Next, Quiescent

LEMMA InvStep == Inv /\ [Next]_vars => Inv'
<1> SUFFICES ASSUME Inv, [Next]_vars PROVE Inv'
  OBVIOUS
<1>1. TypeOK'
  BY TypeStep
<1>2. \A r \in Requests : Pending(r)'
  BY PendingStep
<1>3. QED
  BY <1>1, <1>2 DEF Inv

LEMMA InvAlways == Spec => []Inv
<1>1. QED
  BY InvInit, InvStep, PTL DEF Spec

-----------------------------------------------------------------------------
(* The theorems.                                                           *)

\* Every handler keeps the registry, the gauge and its own locals in their
\* types, however handlers overlap (server_state.rs, main.rs 254-392).
THEOREM RegistryTypeCorrect == Spec => []TypeOK
<1>1. Inv => TypeOK
  BY DEF Inv
<1>2. QED
  BY <1>1, InvAlways, PTL

\* The refinement, step by step.

LEMMA CatalogTypes == Catalog!Tool = Tool /\ Catalog!Patch = Patch
BY DEF Catalog!Tool, Catalog!Patch, Tool, Patch

LEMMA CatalogInit == Init => Catalog!Init
<1> SUFFICES ASSUME Init PROVE Catalog!Init
  OBVIOUS
<1>1. tools \in [Names -> Tool \cup {NoTool}]
  BY InvInit DEF Inv, TypeOK
<1>2. Offers = {} /\ Updates = {}
  BY DEF Init, Offers, Updates
<1>3. QED
  BY <1>1, <1>2, CatalogTypes DEF Catalog!Init

\* The request that handler q has made.
OfferOf(q)  == [by |-> q, name |-> name[q], tool |-> local[q], since |-> since[q]]
UpdateOf(q) == [by |-> q, name |-> name[q], patch |-> patch[q], since |-> since[q]]

\* A step in which no handler makes or finishes a request leaves them all.
LEMMA RequestsKept ==
  ASSUME \A q \in Requests : (pc'[q] = "register") <=> (pc[q] = "register"),
         \A q \in Requests : (pc'[q] = "write") <=> (pc[q] = "write"),
         \A q \in Requests : pc[q] \in {"register", "write"} =>
           /\ name'[q] = name[q] /\ local'[q] = local[q]
           /\ patch'[q] = patch[q] /\ since'[q] = since[q]
  PROVE  UNCHANGED <<Offers, Updates>>
<1>1. Offers' = Offers
  BY DEF Offers
<1>2. Updates' = Updates
  BY DEF Updates
<1>3. QED
  BY <1>1, <1>2

\* So does an answer to a handler that was not about to write.
LEMMA RequestsAnswered ==
  ASSUME TypeOK, NEW r \in Requests, NEW s \in Statuses, Respond(r, s),
         pc[r] \notin {"register", "write"}, UNCHANGED since,
         \A q \in Requests : q # r => name'[q] = name[q]
  PROVE  UNCHANGED <<Offers, Updates>>
BY RespondFrame, RequestsKept

\* When a handler changes what one name stands for and is done, the requests
\* that remain are those of the others, told of the change.
LEMMA BecomesMaps ==
  ASSUME Inv, NEW r \in Requests, NEW n \in Names,
         NEW t \in Tool \cup {NoTool}, NEW s \in Statuses,
         Become(r, [tools EXCEPT ![n] = t]), Respond(r, s),
         \A q \in Requests : q # r => name'[q] = name[q]
  PROVE  Catalog!Becomes(n, t, Offers \ {OfferOf(r)}, Updates \ {UpdateOf(r)})
<1>0. TypeOK /\ \A q \in Requests : Pending(q)
  BY DEF Inv
<1> DEFINE others(l) == {q \in Requests : q # r /\ pc[q] = l}
           G(x) == IF x.name = n THEN [x EXCEPT !.since = @ \cup {t}] ELSE x
<1>1. /\ pc'[r] = "idle"
      /\ \A q \in Requests : q # r =>
           pc'[q] = pc[q] /\ patch'[q] = patch[q] /\ local'[q] = local[q]
  BY <1>0, RespondFrame
<1>2. ASSUME NEW q \in Requests, q # r, pc[q] \in {"register", "write"}
      PROVE  since'[q] = IF name[q] = n THEN since[q] \cup {t} ELSE since[q]
  <2>1. since'[q] = since[q] \cup {[tools EXCEPT ![n] = t][name[q]]}
    BY <1>2 DEF Become
  <2>2. name[q] \in Names /\ tools[name[q]] \in since[q]
    BY <1>0, <1>2 DEF TypeOK, Pending
  <2>3. QED
    BY <1>0, <2>1, <2>2 DEF TypeOK
<1>3. ASSUME NEW q \in Requests, q # r, pc[q] \in {"register", "write"}
      PROVE  OfferOf(q)' = G(OfferOf(q)) /\ UpdateOf(q)' = G(UpdateOf(q))
  <2>1. name'[q] = name[q] /\ local'[q] = local[q] /\ patch'[q] = patch[q]
    BY <1>1, <1>3
  <2>2. CASE name[q] = n
    <3>1. since'[q] = since[q] \cup {t}
      BY <1>2, <1>3, <2>2
    <3>2. QED
      BY <2>1, <2>2, <3>1 DEF OfferOf, UpdateOf
  <2>3. CASE name[q] # n
    <3>1. since'[q] = since[q]
      BY <1>2, <1>3, <2>3
    <3>2. QED
      BY <2>1, <2>3, <3>1 DEF OfferOf, UpdateOf
  <2>4. QED
    BY <2>2, <2>3
<1>4. Offers \ {OfferOf(r)} = {OfferOf(q) : q \in others("register")}
  BY DEF Offers, OfferOf
<1>5. Updates \ {UpdateOf(r)} = {UpdateOf(q) : q \in others("write")}
  BY DEF Updates, UpdateOf
<1>6. Offers' = {OfferOf(q)' : q \in others("register")}
  BY <1>1 DEF Offers, OfferOf
<1>7. Updates' = {UpdateOf(q)' : q \in others("write")}
  BY <1>1 DEF Updates, UpdateOf
<1>8. Offers' = {G(x) : x \in Offers \ {OfferOf(r)}}
  <2>1. \A q \in others("register") : OfferOf(q)' = G(OfferOf(q))
    BY <1>3
  <2> HIDE DEF G
  <2>2. QED
    BY <1>4, <1>6, <2>1
<1>9. Updates' = {G(x) : x \in Updates \ {UpdateOf(r)}}
  <2>1. \A q \in others("write") : UpdateOf(q)' = G(UpdateOf(q))
    BY <1>3
  <2> HIDE DEF G
  <2>2. QED
    BY <1>5, <1>7, <2>1
<1>10. tools' = [tools EXCEPT ![n] = t]
  BY DEF Become
<1>11. QED
  BY <1>8, <1>9, <1>10 DEF Catalog!Becomes, Catalog!Told

\* A handler that is not about to write has no request to take away.
LEMMA NoRequest ==
  ASSUME NEW r \in Requests
  PROVE  /\ pc[r] # "register" => Offers \ {OfferOf(r)} = Offers
         /\ pc[r] # "write" => Updates \ {UpdateOf(r)} = Updates
BY DEF Offers, Updates, OfferOf, UpdateOf

LEMMA OfferMaps ==
  ASSUME TypeOK, NEW r \in Requests, NEW n \in Names, NEW t \in Tool,
         CreateCheck(r, n, t)
  PROVE  Catalog!Next \/ UNCHANGED <<tools, Offers, Updates>>
<1>1. name' = [name EXCEPT ![r] = n] /\ pc[r] = "idle" /\ UNCHANGED tools
  BY DEF CreateCheck, Begin
<1>2. \A q \in Requests : q # r => name'[q] = name[q]
  BY <1>1 DEF TypeOK
<1>3. CASE tools[n] # NoTool
  <2>1. Respond(r, "conflict") /\ UNCHANGED since
    BY <1>3 DEF CreateCheck
  <2>2. UNCHANGED <<Offers, Updates>>
    BY <1>1, <1>2, <2>1, RequestsAnswered DEF Statuses
  <2>3. QED
    BY <1>1, <2>2
<1>4. CASE tools[n] = NoTool
  <2>1. /\ pc' = [pc EXCEPT ![r] = "register"]
        /\ local' = [local EXCEPT ![r] = t]
        /\ since' = [since EXCEPT ![r] = {NoTool}]
        /\ UNCHANGED patch
    BY <1>4 DEF CreateCheck
  <2>2. /\ pc'[r] = "register" /\ name'[r] = n /\ local'[r] = t
        /\ since'[r] = {NoTool}
        /\ \A q \in Requests : q # r =>
             /\ pc'[q] = pc[q] /\ name'[q] = name[q]
             /\ local'[q] = local[q] /\ since'[q] = since[q]
    BY <1>1, <2>1 DEF TypeOK
  <2>3. Offers' = Offers \cup
          {[by |-> r, name |-> n, tool |-> t, since |-> {NoTool}]}
    <3> DEFINE S == {q \in Requests : pc[q] = "register"}
    <3>1. \A q \in S : OfferOf(q)' = OfferOf(q)
      BY <1>1, <2>2 DEF OfferOf
    <3>2. OfferOf(r)' = [by |-> r, name |-> n, tool |-> t, since |-> {NoTool}]
      BY <2>2 DEF OfferOf
    <3>3. Offers = {OfferOf(q) : q \in S}
      BY DEF Offers, OfferOf
    <3>4. {q \in Requests : pc'[q] = "register"} = S \cup {r}
      BY <2>2
    <3>5. Offers' = {OfferOf(q)' : q \in S \cup {r}}
      BY <3>4 DEF Offers, OfferOf
    <3> HIDE DEF S
    <3>6. QED
      BY <3>1, <3>2, <3>3, <3>5
  <2>4. Updates' = Updates
    BY <1>1, <2>1, <2>2 DEF Updates
  <2>5. Catalog!Offer(r, n, t)
    BY <1>1, <1>4, <2>3, <2>4 DEF Catalog!Offer
  <2>6. QED
    BY <2>5, CatalogTypes DEF Catalog!Next
<1>5. QED
  BY <1>3, <1>4

LEMMA AskMaps ==
  ASSUME TypeOK, NEW r \in Requests, NEW n \in Names, NEW p \in Patch,
         UpdateRead(r, n, p)
  PROVE  Catalog!Next \/ UNCHANGED <<tools, Offers, Updates>>
<1>1. name' = [name EXCEPT ![r] = n] /\ pc[r] = "idle" /\ UNCHANGED tools
  BY DEF UpdateRead, Begin
<1>2. \A q \in Requests : q # r => name'[q] = name[q]
  BY <1>1 DEF TypeOK
<1>3. CASE tools[n] = NoTool
  <2>1. Respond(r, "notfound") /\ UNCHANGED since
    BY <1>3 DEF UpdateRead
  <2>2. UNCHANGED <<Offers, Updates>>
    BY <1>1, <1>2, <2>1, RequestsAnswered DEF Statuses
  <2>3. QED
    BY <1>1, <2>2
<1>4. CASE tools[n] # NoTool
  <2>1. /\ pc' = [pc EXCEPT ![r] = "write"]
        /\ patch' = [patch EXCEPT ![r] = p]
        /\ local' = [local EXCEPT ![r] = Patched(tools[n], p)]
        /\ since' = [since EXCEPT ![r] = {tools[n]}]
    BY <1>4 DEF UpdateRead
  <2>2. /\ pc'[r] = "write" /\ name'[r] = n /\ patch'[r] = p
        /\ since'[r] = {tools[n]}
        /\ \A q \in Requests : q # r =>
             /\ pc'[q] = pc[q] /\ name'[q] = name[q] /\ local'[q] = local[q]
             /\ patch'[q] = patch[q] /\ since'[q] = since[q]
    BY <1>1, <2>1 DEF TypeOK
  <2>3. Updates' = Updates \cup
          {[by |-> r, name |-> n, patch |-> p, since |-> {tools[n]}]}
    <3> DEFINE S == {q \in Requests : pc[q] = "write"}
    <3>1. \A q \in S : UpdateOf(q)' = UpdateOf(q)
      BY <1>1, <2>2 DEF UpdateOf
    <3>2. UpdateOf(r)' = [by |-> r, name |-> n, patch |-> p, since |-> {tools[n]}]
      BY <2>2 DEF UpdateOf
    <3>3. Updates = {UpdateOf(q) : q \in S}
      BY DEF Updates, UpdateOf
    <3>4. {q \in Requests : pc'[q] = "write"} = S \cup {r}
      BY <2>2
    <3>5. Updates' = {UpdateOf(q)' : q \in S \cup {r}}
      BY <3>4 DEF Updates, UpdateOf
    <3> HIDE DEF S
    <3>6. QED
      BY <3>1, <3>2, <3>3, <3>5
  <2>4. Offers' = Offers
    BY <1>1, <2>2 DEF Offers
  <2>5. Catalog!Ask(r, n, p)
    BY <1>1, <1>4, <2>3, <2>4 DEF Catalog!Ask
  <2>6. QED
    BY <2>5, CatalogTypes DEF Catalog!Next
<1>5. QED
  BY <1>3, <1>4

\* A creation's insert carries out its offer.
LEMMA CreateMaps ==
  ASSUME Inv, NEW r \in Requests, CreateRegister(r)
  PROVE  Catalog!Next
<1>1. /\ pc[r] = "register" /\ Respond(r, "ok")
      /\ Become(r, [tools EXCEPT ![name[r]] = local[r]]) /\ UNCHANGED name
  BY DEF CreateRegister, Put
<1>2. OfferOf(r) \in Offers
  BY <1>1 DEF Offers, OfferOf
<1>3. OfferOf(r).name = name[r] /\ OfferOf(r).tool = local[r]
  BY DEF OfferOf
<1>4. name[r] \in Names /\ local[r] \in Tool
  BY <1>1, HeldIsTool
<1>5. Catalog!Becomes(name[r], local[r], Offers \ {OfferOf(r)}, Updates \ {UpdateOf(r)})
  BY <1>1, <1>4, BecomesMaps DEF Statuses
<1>6. Catalog!Create(OfferOf(r))
  BY <1>1, <1>3, <1>5, NoRequest DEF Catalog!Create
<1>7. QED
  BY <1>2, <1>6 DEF Catalog!Next

\* An update's write is the catalogue's update: its own patch, applied to a
\* tool that the name has stood for since the handler looked.
LEMMA UpdateMaps ==
  ASSUME Inv, NEW r \in Requests, UpdateWrite(r), tools[name[r]] # NoTool
  PROVE  Catalog!Next
<1>1. /\ pc[r] = "write" /\ Respond(r, "ok")
      /\ Become(r, [tools EXCEPT ![name[r]] = local[r]]) /\ UNCHANGED name
  BY DEF UpdateWrite, Put
<1>2. UpdateOf(r) \in Updates
  BY <1>1 DEF Updates, UpdateOf
<1>3. /\ UpdateOf(r).name = name[r] /\ UpdateOf(r).patch = patch[r]
      /\ UpdateOf(r).since = since[r]
  BY DEF UpdateOf
<1>4. name[r] \in Names /\ local[r] \in Tool
  BY <1>1, HeldIsTool
<1>5. PICK old \in since[r] \ {NoTool} : local[r] = Patched(old, patch[r])
  BY <1>1 DEF Inv, Pending
<1>6. old \in Tool /\ patch[r] \in Patch
  BY DEF Inv, TypeOK
<1>7. local[r] = Catalog!Patched(old, patch[r])
  BY <1>5, <1>6, SamePatched
<1>8. Catalog!Becomes(name[r], local[r], Offers \ {OfferOf(r)}, Updates \ {UpdateOf(r)})
  BY <1>1, <1>4, BecomesMaps DEF Statuses
<1>9. Catalog!Becomes(name[r], Catalog!Patched(old, patch[r]), Offers, Updates \ {UpdateOf(r)})
  BY <1>1, <1>7, <1>8, NoRequest
<1>10. Catalog!Update(UpdateOf(r))
  BY <1>3, <1>9 DEF Catalog!Update
<1>11. QED
  BY <1>2, <1>10 DEF Catalog!Next

\* An update whose tool is gone is refused.
LEMMA RefuseMaps ==
  ASSUME Inv, NEW r \in Requests, UpdateWrite(r), tools[name[r]] = NoTool
  PROVE  Catalog!Next
<1>0. TypeOK
  BY DEF Inv
<1>1. /\ pc[r] = "write" /\ Respond(r, "error")
      /\ since' = [since EXCEPT ![r] = {}] /\ UNCHANGED <<tools, name>>
  BY DEF UpdateWrite
<1>2. /\ pc'[r] = "idle"
      /\ \A q \in Requests : q # r =>
           /\ pc'[q] = pc[q] /\ patch'[q] = patch[q] /\ local'[q] = local[q]
           /\ name'[q] = name[q] /\ since'[q] = since[q]
  BY <1>0, <1>1, RespondFrame DEF Statuses, TypeOK
<1>3. Offers' = Offers
  BY <1>1, <1>2 DEF Offers
<1>4. Updates' = Updates \ {UpdateOf(r)}
  BY <1>1, <1>2 DEF Updates, UpdateOf
<1>5. UpdateOf(r) \in Updates /\ UpdateOf(r).name = name[r]
  BY <1>1 DEF Updates, UpdateOf
<1>6. Catalog!Refuse(UpdateOf(r))
  BY <1>1, <1>3, <1>4, <1>5 DEF Catalog!Refuse
<1>7. QED
  BY <1>5, <1>6 DEF Catalog!Next

LEMMA ToggleMaps ==
  ASSUME Inv, NEW r \in Requests, NEW n \in Names, NEW b \in BOOLEAN,
         ToggleTool(r, n, b)
  PROVE  Catalog!Next \/ UNCHANGED <<tools, Offers, Updates>>
<1>0. TypeOK
  BY DEF Inv
<1>1. /\ pc[r] = "idle"
      /\ \A q \in Requests : q # r => name'[q] = name[q]
  BY <1>0 DEF ToggleTool, Begin, TypeOK
<1>2. CASE tools[n] # NoTool
  <2> DEFINE t == [tools[n] EXCEPT !.enabled = b]
  <2>1. Become(r, [tools EXCEPT ![n] = t]) /\ Respond(r, "ok")
    BY <1>2 DEF ToggleTool, Put
  <2>2. t \in Tool
    BY <1>0, <1>2, ToggledType DEF TypeOK
  <2>3. Catalog!Becomes(n, t, Offers \ {OfferOf(r)}, Updates \ {UpdateOf(r)})
    BY <1>1, <2>1, <2>2, BecomesMaps DEF Statuses
  <2>4. Catalog!Toggle(n, b)
    BY <1>1, <1>2, <2>3, NoRequest DEF Catalog!Toggle
  <2>5. QED
    BY <2>4 DEF Catalog!Next
<1>3. CASE tools[n] = NoTool
  <2>1. Respond(r, "notfound") /\ UNCHANGED <<tools, since>>
    BY <1>3 DEF ToggleTool, history
  <2>2. QED
    BY <1>0, <1>1, <2>1, RequestsAnswered DEF Statuses
<1>4. QED
  BY <1>2, <1>3

LEMMA DeleteMaps ==
  ASSUME Inv, NEW r \in Requests, NEW n \in Names, DeleteTool(r, n)
  PROVE  Catalog!Next \/ UNCHANGED <<tools, Offers, Updates>>
<1>0. TypeOK
  BY DEF Inv
<1>1. /\ pc[r] = "idle"
      /\ \A q \in Requests : q # r => name'[q] = name[q]
  BY <1>0 DEF DeleteTool, Begin, TypeOK
<1>2. CASE tools[n] # NoTool
  <2>1. Become(r, [tools EXCEPT ![n] = NoTool]) /\ Respond(r, "ok")
    BY <1>2 DEF DeleteTool
  <2>2. Catalog!Becomes(n, NoTool, Offers \ {OfferOf(r)}, Updates \ {UpdateOf(r)})
    BY <1>1, <2>1, BecomesMaps DEF Statuses
  <2>3. Catalog!Delete(n)
    BY <1>1, <1>2, <2>2, NoRequest DEF Catalog!Delete
  <2>4. QED
    BY <2>3 DEF Catalog!Next
<1>3. CASE tools[n] = NoTool
  <2>1. Respond(r, "notfound") /\ UNCHANGED <<tools, since>>
    BY <1>3 DEF DeleteTool, history
  <2>2. QED
    BY <1>0, <1>1, <2>1, RequestsAnswered DEF Statuses
<1>4. QED
  BY <1>2, <1>3

LEMMA CatalogStep ==
  Inv /\ [Next]_vars => [Catalog!Next]_<<tools, Offers, Updates>>
<1> SUFFICES ASSUME Inv, [Next]_vars
             PROVE  Catalog!Next \/ UNCHANGED <<tools, Offers, Updates>>
  OBVIOUS
<1>0. TypeOK
  BY DEF Inv
<1>1. ASSUME NEW r \in Requests, NEW n \in Names, NEW t \in Tool,
             CreateCheck(r, n, t)
      PROVE  Catalog!Next \/ UNCHANGED <<tools, Offers, Updates>>
  BY <1>0, <1>1, OfferMaps
<1>2. ASSUME NEW r \in Requests, CreateRegister(r)
      PROVE  Catalog!Next
  BY <1>2, CreateMaps
<1>3. ASSUME NEW r \in Requests, NEW n \in Names, NEW p \in Patch,
             UpdateRead(r, n, p)
      PROVE  Catalog!Next \/ UNCHANGED <<tools, Offers, Updates>>
  BY <1>0, <1>3, AskMaps
<1>4. ASSUME NEW r \in Requests, UpdateWrite(r)
      PROVE  Catalog!Next
  BY <1>4, UpdateMaps, RefuseMaps
<1>5. ASSUME NEW r \in Requests, NEW n \in Names, NEW b \in BOOLEAN,
             ToggleTool(r, n, b)
      PROVE  Catalog!Next \/ UNCHANGED <<tools, Offers, Updates>>
  BY <1>5, ToggleMaps
<1>6. ASSUME NEW r \in Requests, NEW n \in Names, DeleteTool(r, n)
      PROVE  Catalog!Next \/ UNCHANGED <<tools, Offers, Updates>>
  BY <1>6, DeleteMaps
<1>7. ASSUME NEW r \in Requests, ScrapeRead(r) \/ ScrapeSet(r)
      PROVE  UNCHANGED <<tools, Offers, Updates>>
  <2>1. /\ \E l \in {"set", "gather"} : pc' = [pc EXCEPT ![r] = l]
        /\ pc[r] \in {"idle", "set"}
        /\ UNCHANGED <<tools, name, local, patch, since>>
    BY <1>7 DEF ScrapeRead, ScrapeSet, Begin, history
  <2>2. \A q \in Requests : /\ (pc'[q] = "register") <=> (pc[q] = "register")
                            /\ (pc'[q] = "write") <=> (pc[q] = "write")
    BY <1>0, <2>1 DEF TypeOK
  <2>3. QED
    BY <2>1, <2>2, RequestsKept
<1>8. ASSUME NEW r \in Requests, ScrapeGather(r)
      PROVE  UNCHANGED <<tools, Offers, Updates>>
  BY <1>0, <1>8, RequestsAnswered DEF ScrapeGather, Statuses
<1>9. CASE UNCHANGED vars
  BY <1>9 DEF vars, handler, history, Offers, Updates
<1>10. QED
  BY <1>1, <1>2, <1>3, <1>4, <1>5, <1>6, <1>7, <1>8, <1>9
  DEF Next, Quiescent

\* The tool handlers implement the catalogue: each request that nobody came
\* between creates over no tool, or updates exactly the fields it gives; one
\* that was overtaken puts back only what the name stood for since it looked,
\* and never a deleted tool (main.rs 314-392, 566-585).
THEOREM RegistryImplementsCatalog == Spec => CatalogSpec
<1>1. Spec => [][Catalog!Next]_<<tools, Offers, Updates>>
  BY InvAlways, CatalogStep, PTL DEF Spec
<1>2. Spec => Catalog!Init
  BY CatalogInit DEF Spec
<1>3. QED
  BY <1>1, <1>2 DEF CatalogSpec, Catalog!Spec

-----------------------------------------------------------------------------
(* What a scrape reports.                                                  *)

\* A scrape in progress has seen the size of the registry and, while it has
\* yet to set, its own count; its window holds that, the count any scrape is
\* about to set and, past its own set, the gauge.
Seen ==
  /\ \A r \in Requests : pc[r] \in {"set", "gather"} =>
       Size(tools) \in sizes[r] /\ Size(tools) \in window[r]
  /\ \A r \in Requests : pc[r] = "set" => count[r] \in sizes[r]
  /\ \A q, r \in Requests :
       pc[q] = "set" /\ pc[r] \in {"set", "gather"} => count[q] \in window[r]
  /\ \A r \in Requests : pc[r] = "gather" => gauge \in window[r]

\* No handler of a tool touches a scrape, and a change of the map is seen by all.
LEMMA SeenByChange ==
  ASSUME TypeOK, Seen, NEW r, NEW map, Become(r, map), UNCHANGED <<gauge, count>>,
         \A q \in Requests : pc'[q] \in {"set", "gather"} => pc'[q] = pc[q]
  PROVE  Seen'
<1>1. /\ tools' = map
      /\ \A q \in Requests : pc[q] \in {"set", "gather"} =>
           /\ sizes'[q] = sizes[q] \cup {Size(map)}
           /\ window'[q] = window[q] \cup {Size(map)}
  BY DEF Become
<1>2. Size(tools)' = Size(map)
  BY <1>1 DEF Size
<1>3. QED
  BY <1>1, <1>2 DEF Seen

LEMMA SeenWithoutChange ==
  ASSUME Seen, UNCHANGED <<tools, sizes, window, gauge, count>>,
         \A q \in Requests : pc'[q] \in {"set", "gather"} => pc'[q] = pc[q]
  PROVE  Seen'
<1>1. Size(tools)' = Size(tools)
  BY DEF Size
<1>2. QED
  BY <1>1 DEF Seen

LEMMA AnswerIsNoScrape ==
  ASSUME TypeOK, NEW r \in Requests, NEW s, Respond(r, s)
  PROVE  \A q \in Requests : pc'[q] \in {"set", "gather"} => pc'[q] = pc[q]
BY DEF Respond, TypeOK

LEMMA SeenStep == TypeOK /\ Seen /\ [Next]_vars => Seen'
<1> SUFFICES ASSUME TypeOK, Seen, [Next]_vars PROVE Seen'
  OBVIOUS
<1>1. ASSUME NEW r \in Requests, NEW n \in Names, NEW t \in Tool, CreateCheck(r, n, t)
      PROVE  Seen'
  <2>1. \A q \in Requests : pc'[q] \in {"set", "gather"} => pc'[q] = pc[q]
    BY <1>1, AnswerIsNoScrape DEF CreateCheck, TypeOK
  <2>2. QED
    BY <1>1, <2>1, SeenWithoutChange DEF CreateCheck
<1>2. ASSUME NEW r \in Requests, CreateRegister(r)
      PROVE  Seen'
  BY <1>2, AnswerIsNoScrape, SeenByChange DEF CreateRegister, Put
<1>3. ASSUME NEW r \in Requests, NEW n \in Names, NEW p \in Patch, UpdateRead(r, n, p)
      PROVE  Seen'
  <2>1. \A q \in Requests : pc'[q] \in {"set", "gather"} => pc'[q] = pc[q]
    BY <1>3, AnswerIsNoScrape DEF UpdateRead, TypeOK
  <2>2. QED
    BY <1>3, <2>1, SeenWithoutChange DEF UpdateRead
<1>4. ASSUME NEW r \in Requests, UpdateWrite(r)
      PROVE  Seen'
  <2>1. \A q \in Requests : pc'[q] \in {"set", "gather"} => pc'[q] = pc[q]
    BY <1>4, AnswerIsNoScrape DEF UpdateWrite
  <2>2. QED
    BY <1>4, <2>1, SeenByChange, SeenWithoutChange DEF UpdateWrite, Put
<1>5. ASSUME NEW r \in Requests, NEW n \in Names, NEW b \in BOOLEAN, ToggleTool(r, n, b)
      PROVE  Seen'
  <2>1. \A q \in Requests : pc'[q] \in {"set", "gather"} => pc'[q] = pc[q]
    BY <1>5, AnswerIsNoScrape DEF ToggleTool
  <2>2. QED
    BY <1>5, <2>1, SeenByChange, SeenWithoutChange DEF ToggleTool, Put, history
<1>6. ASSUME NEW r \in Requests, NEW n \in Names, DeleteTool(r, n)
      PROVE  Seen'
  <2>1. \A q \in Requests : pc'[q] \in {"set", "gather"} => pc'[q] = pc[q]
    BY <1>6, AnswerIsNoScrape DEF DeleteTool
  <2>2. QED
    BY <1>6, <2>1, SeenByChange, SeenWithoutChange DEF DeleteTool, history
<1>7. ASSUME NEW r \in Requests, ScrapeRead(r)
      PROVE  Seen'
  <2>1. /\ pc[r] = "idle" /\ pc' = [pc EXCEPT ![r] = "set"] /\ UNCHANGED <<tools, gauge>>
        /\ count' = [count EXCEPT ![r] = Size(tools)]
        /\ sizes' = [sizes EXCEPT ![r] = {Size(tools)}]
        /\ window' = [window EXCEPT ![r] = {Size(tools)} \cup UNION {sizes[q] : q \in Requests}]
    BY <1>7 DEF ScrapeRead, Begin
  <2>2. Size(tools)' = Size(tools)
    BY <2>1 DEF Size
  <2>3. /\ Size(tools) \in window'[r] /\ Size(tools) \in sizes'[r]
        /\ \A q \in Requests : sizes[q] \subseteq window'[r]
        /\ \A q \in Requests \ {r} :
             /\ window'[q] = window[q] /\ sizes'[q] = sizes[q]
             /\ count'[q] = count[q] /\ pc'[q] = pc[q]
        /\ count'[r] = Size(tools) /\ pc'[r] = "set"
    BY <2>1 DEF TypeOK
  <2>4. QED
    BY <2>1, <2>2, <2>3 DEF Seen
<1>8. ASSUME NEW r \in Requests, ScrapeSet(r)
      PROVE  Seen'
  <2>1. /\ pc[r] = "set" /\ pc' = [pc EXCEPT ![r] = "gather"] /\ gauge' = count[r]
        /\ UNCHANGED <<tools, count, sizes, window>>
    BY <1>8 DEF ScrapeSet, history
  <2>2. Size(tools)' = Size(tools)
    BY <2>1 DEF Size
  <2>3. QED
    BY <2>1, <2>2 DEF Seen, TypeOK
<1>9. ASSUME NEW r \in Requests, ScrapeGather(r)
      PROVE  Seen'
  <2>1. /\ pc' = [pc EXCEPT ![r] = "idle"] /\ UNCHANGED <<tools, gauge>>
        /\ \A q \in Requests \ {r} :
             window'[q] = window[q] /\ sizes'[q] = sizes[q] /\ count'[q] = count[q]
    BY <1>9 DEF ScrapeGather, Respond, TypeOK
  <2>2. Size(tools)' = Size(tools)
    BY <2>1 DEF Size
  <2>3. QED
    BY <2>1, <2>2 DEF Seen, TypeOK
<1>10. CASE UNCHANGED vars
  BY <1>10, SeenWithoutChange DEF vars, handler, history
<1>11. QED
  BY <1>1, <1>2, <1>3, <1>4, <1>5, <1>6, <1>7, <1>8, <1>9, <1>10 DEF Next, Quiescent

\* For any number of handlers, the number of tools that a scrape reports is one
\* the registry had while that scrape, or one under way when it began, was
\* served, and none that only an earlier scrape in a chain of them had seen.
THEOREM ScrapesAreRecent == Spec => ScrapeRecent
<1>1. Init => Seen
  BY DEF Init, Seen
<1>2. Spec => []Seen
  BY <1>1, SeenStep, RegistryTypeCorrect, PTL DEF Spec
<1>3. Seen => \A r \in Requests :
                pc[r] = "gather" /\ pc'[r] = "idle" => gauge \in window[r]
  BY DEF Seen
<1>4. QED
  BY <1>2, <1>3, PTL DEF ScrapeRecent
=============================================================================
