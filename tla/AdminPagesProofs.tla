--------------------------- MODULE AdminPagesProofs ---------------------------
(***************************************************************************)
(* Proofs about the pages of the admin UI that show what a server answers: *)
(* Console, for any tools, slots and numbers of clicks, and TestBench, for *)
(* any number of targets, slots, tests and other clicks and every width of *)
(* the connector's counter.  The two share no state; each theorem is about *)
(* the specification it names.                                             *)
(***************************************************************************)
EXTENDS Console, TestBench, FiniteSetTheorems, TLAPS

-----------------------------------------------------------------------------
(* Console: where a call is, and what it knows.                            *)

Values    == Versions \cup Tool \cup BOOLEAN \cup {Nothing}
Contents(p) == IF p = "engine" THEN BOOLEAN ELSE Registry
Told      == [of : BOOLEAN \cup Registry, epoch : Nat]
CallType  ==
  [do : Reads \cup Changes \cup {"none"},
   at : {"none", "change", "write", "changed", "ask", "told", "probe"},
   tool : Names \cup {Nothing}, value : Values, mounted : BOOLEAN,
   answer : BOOLEAN \cup {Nothing} \cup Told, applied : BOOLEAN, since : Nat]

\* The arguments a change is sent with.
Sent(k) ==
  /\ k.do \in {"engine", "toggle"} => k.value \in BOOLEAN
  /\ k.do \in Changes \ {"engine"} => k.tool \in Names
  /\ k.do = "update" => k.value \in Versions
  /\ k.do = "create" => k.value \in Tool

\* A call at its place, when the server's parts have changed e times and the tab
\* on the page is t.  An answer is no newer than the server, and that to the
\* refresh after a change no older than the change.
Sound(k, e, t) ==
  /\ k \in CallType
  /\ k.at \in {"change", "write", "changed"} => k.do \in Changes
  /\ k.at = "change" => Sent(k)
  /\ k.at = "write" => k.do \in {"create", "update"} /\ k.tool \in Names /\ k.value \in Tool
  /\ k.at = "changed" => k.answer \in BOOLEAN
  /\ k.at = "told" /\ k.answer # Nothing =>
       /\ k.answer \in Told /\ k.answer.of \in Contents(Part(k))
       /\ k.answer.epoch <= e[Part(k)]
       /\ k.applied => k.answer.epoch >= k.since
  /\ k.at = "probe" => k.do = "status"
  /\ k.since <= e[Part(k)]
  /\ k.applied => k.do \in Changes
  /\ k.mounted /\ Part(k) = "tools" => t = "tools"

CallsSound ==
  calls \in [Calls -> CallType] /\ \A c \in Calls : Sound(calls[c], epoch, tab)

ServerTyped == engine \in BOOLEAN /\ tools \in Registry /\ epoch \in [Parts -> Nat]

HomeShown ==
  /\ status \in [engine : BOOLEAN \cup {Nothing}, error : BOOLEAN, epoch : Int]
  /\ health \in [core : {"healthy", "down"}, engine : BOOLEAN]
  /\ CoreDownShowsError

TabShown ==
  /\ tab \in {"dashboard", "tools"}
  /\ rows = Nothing \/ rows \in [of : Registry, epoch : Int]
  /\ rows # Nothing => rows.epoch \in -1..epoch.tools
  /\ edit \in [tool : Names \cup {Nothing}, version : Versions \cup {Nothing}]
  /\ edit = NoEdit \/ (edit.tool \in Names /\ edit.version \in Versions)
  /\ create \in [open : BOOLEAN, name : Names \cup {Nothing}]
  /\ tab = "dashboard" => rows = Nothing /\ edit = NoEdit /\ create = NoCreate

\* Every change that the server has made, or may still make, had a click.
Pending == {c \in Calls : calls[c].at \in {"change", "write"}}
Clicked ==
  /\ clicks \in 0..MaxClicks /\ tabs \in 0..MaxTabs
  /\ IsFiniteSet(Pending)
  /\ epoch.engine + epoch.tools + Cardinality(Pending) <= clicks

PageInv == ServerTyped /\ HomeShown /\ TabShown /\ CallsSound /\ Clicked

-----------------------------------------------------------------------------
(* Console: one call takes a step.                                         *)

Weight(k) == IF k.at \in {"change", "write"} THEN 1 ELSE 0

\* The step of one call: it is sound where it comes to, the server only gets
\* newer, and by no more than a change the call gave up or a click.
CallStep(c) ==
  /\ calls' = [calls EXCEPT ![c] = calls'[c]]
  /\ Sound(calls'[c], epoch', tab)
  /\ tab' = tab
  /\ epoch' \in [Parts -> Nat]
  /\ \A p \in Parts : epoch[p] <= epoch'[p]
  /\ clicks' \in 0..MaxClicks /\ tabs' \in 0..MaxTabs
  /\ epoch'.engine + epoch'.tools + Weight(calls'[c]) + clicks
       <= epoch.engine + epoch.tools + Weight(calls[c]) + clicks'

LEMMA PartIsPart == \A k : Part(k) \in Parts
BY DEF Part, Parts

LEMMA NoCallSound ==
  ASSUME ServerTyped
  PROVE  /\ NoCall \in CallType /\ Weight(NoCall) = 0
         /\ \A t : Sound(NoCall, epoch, t)
<1>1. NoCall \in CallType
  BY DEF NoCall, CallType, Values, Reads, Changes
<1>2. NoCall.at = "none" /\ NoCall.since = 0 /\ ~NoCall.applied /\ ~NoCall.mounted
  BY DEF NoCall
<1>3. epoch[Part(NoCall)] \in Nat
  BY PartIsPart DEF ServerTyped
<1>4. QED
  BY <1>1, <1>2, <1>3 DEF Sound, Weight

LEMMA SoundLater ==
  ASSUME NEW k, NEW e \in [Parts -> Nat], NEW f \in [Parts -> Nat], NEW t, Sound(k, e, t),
         \A p \in Parts : e[p] <= f[p]
  PROVE  Sound(k, f, t)
<1>1. /\ e[Part(k)] \in Nat /\ f[Part(k)] \in Nat /\ e[Part(k)] <= f[Part(k)]
      /\ k.since \in Nat
  BY PartIsPart DEF Sound, CallType
<1>2. k.answer \in Told => k.answer.epoch \in Nat
  BY DEF Told
<1>3. QED
  BY <1>1, <1>2 DEF Sound

LEMMA CallStepSound ==
  ASSUME ServerTyped, CallsSound, NEW c \in Calls, CallStep(c)
  PROVE  CallsSound'
<1>1. calls'[c] \in CallType /\ calls' \in [Calls -> CallType]
  BY DEF CallStep, CallsSound, Sound
<1>2. ASSUME NEW d \in Calls
      PROVE  Sound(calls'[d], epoch', tab')
  <2>1. CASE d = c
    BY <2>1 DEF CallStep
  <2>2. CASE d # c
    <3>1. calls'[d] = calls[d] /\ Sound(calls[d], epoch, tab)
      BY <2>2 DEF CallStep, CallsSound
    <3>2. QED
      BY <3>1, SoundLater DEF CallStep, ServerTyped
  <2>3. QED
    BY <2>1, <2>2
<1>3. QED
  BY <1>1, <1>2 DEF CallsSound

LEMMA CallStepClicked ==
  ASSUME ServerTyped, CallsSound, Clicked, NEW c \in Calls, CallStep(c)
  PROVE  Clicked'
<1>1. \A d \in Calls \ {c} : calls'[d] = calls[d]
  BY DEF CallStep, CallsSound
<1>2. Pending' = IF Weight(calls'[c]) = 1 THEN Pending \cup {c} ELSE Pending \ {c}
  BY <1>1 DEF Pending, Weight
<1>3. Weight(calls[c]) = 1 <=> c \in Pending
  BY DEF Pending, Weight
<1>4. IsFiniteSet(Pending) /\ Cardinality(Pending) \in Nat
  BY FS_CardinalityType DEF Clicked
<1>5. /\ IsFiniteSet(Pending')
      /\ Cardinality(Pending') =
           Cardinality(Pending) + Weight(calls'[c]) - Weight(calls[c])
  <2>1. CASE Weight(calls'[c]) = 1
    <3>1. Pending' = Pending \cup {c}
      BY <1>2, <2>1
    <3>2. QED
      BY <1>3, <1>4, <2>1, <3>1, FS_AddElement DEF Weight
  <2>2. CASE Weight(calls'[c]) = 0
    <3>1. Pending' = Pending \ {c}
      BY <1>2, <2>2
    <3>2. QED
      BY <1>3, <1>4, <2>2, <3>1, FS_RemoveElement DEF Weight
  <2>3. QED
    BY <2>1, <2>2 DEF Weight
<1>6. /\ Weight(calls[c]) \in 0..1 /\ Weight(calls'[c]) \in 0..1
      /\ epoch.engine \in Nat /\ epoch.tools \in Nat
      /\ epoch'.engine \in Nat /\ epoch'.tools \in Nat
  BY DEF Weight, CallStep, ServerTyped, Parts
<1>7. QED
  BY <1>4, <1>5, <1>6 DEF CallStep, Clicked

-----------------------------------------------------------------------------
(* Console: the steps, one by one.                                         *)

LEMMA BeginStep ==
  ASSUME PageInv, NEW c \in Calls, NEW do \in Reads \cup Changes,
         NEW t \in Names \cup {Nothing}, NEW v \in Values,
         BeginCall(c, do, t, v),
         do \in Changes => Sent([NoCall EXCEPT !.do = do, !.tool = t, !.value = v]),
         do \notin {"status", "engine"} => tab = "tools",
         server' = server, tab' = tab, tabs' = tabs,
         clicks' \in 0..MaxClicks, clicks' >= clicks, do \in Changes => clicks' = clicks + 1
  PROVE  CallStep(c)
<1> USE DEF PageInv
<1> DEFINE k == [NoCall EXCEPT !.do = do, !.at = IF do \in Reads THEN "ask" ELSE "change",
                               !.tool = t, !.value = v, !.mounted = TRUE]
<1>1. calls' = [calls EXCEPT ![c] = k] /\ calls[c].at = "none"
  BY DEF BeginCall, FreeSlot
<1>2. calls'[c] = k
  BY <1>1 DEF CallsSound
<1>3. /\ k.do = do /\ k.tool = t /\ k.value = v /\ k.mounted = TRUE /\ k.since = 0
      /\ k.applied = FALSE /\ k.at = IF do \in Reads THEN "ask" ELSE "change"
      /\ k \in CallType
  BY DEF NoCall, CallType
<1>4. do \in Changes => Sent(k)
  BY DEF Sent, NoCall
<1>5. epoch[Part(k)] \in Nat
  BY PartIsPart DEF ServerTyped
<1>6. Part(k) = "tools" => do \notin {"status", "engine"}
  BY <1>3 DEF Part
<1> HIDE DEF k
<1>7. Sound(k, epoch, tab)
  BY <1>3, <1>4, <1>5, <1>6 DEF Sound, Reads, Changes
<1>8. UNCHANGED epoch /\ UNCHANGED tab /\ UNCHANGED tabs
  BY DEF server
<1>9. clicks \in Nat /\ tabs \in 0..MaxTabs /\ epoch.engine \in Nat /\ epoch.tools \in Nat
  BY DEF Clicked, ServerTyped, Parts
<1>10. Weight(calls[c]) = 0 /\ (Weight(k) = IF do \in Changes THEN 1 ELSE 0)
  BY <1>1, <1>3 DEF Weight, Reads, Changes
<1>11. epoch'.engine + epoch'.tools + Weight(calls'[c]) + clicks
          <= epoch.engine + epoch.tools + Weight(calls[c]) + clicks'
  BY <1>2, <1>8, <1>9, <1>10
<1>12. epoch' \in [Parts -> Nat] /\ \A p \in Parts : epoch[p] <= epoch'[p]
  BY <1>8 DEF ServerTyped
<1>13. QED
  BY <1>1, <1>2, <1>7, <1>8, <1>9, <1>11, <1>12 DEF CallStep

LEMMA SlotsAreCalls == CallSlots \subseteq Calls /\ {"home", "list"} \subseteq Calls
BY DEF Calls

LEMMA TickStep ==
  ASSUME PageInv, NEW c \in Calls, Tick(c)
  PROVE  CallStep(c)
<1>1. Nothing \in Names \cup {Nothing} /\ Nothing \in Values
  BY DEF Values
<1>2. /\ {"status", "list"} \subseteq Reads /\ {"status", "list"} \cap Changes = {}
      /\ clicks \in 0..MaxClicks /\ MaxClicks \in Nat
  BY ClicksAssumption DEF Reads, Changes, PageInv, Clicked
<1>3. Click => clicks' \in 0..MaxClicks /\ clicks' = clicks + 1
  BY <1>2 DEF Click
<1>t. /\ server' = server /\ tab' = tab /\ tabs' = tabs
      /\ clicks' \in 0..MaxClicks /\ clicks' >= clicks
  BY <1>2, <1>3 DEF Tick
<1>4. CASE BeginCall(c, "status", Nothing, Nothing)
  BY <1>1, <1>2, <1>4, <1>t, BeginStep
<1>5. CASE BeginCall(c, "list", Nothing, Nothing) /\ tab = "tools"
  BY <1>1, <1>2, <1>5, <1>t, BeginStep
<1>6. QED
  BY <1>4, <1>5 DEF Tick

LEMMA ClickStep ==
  ASSUME PageInv, NEW c \in CallSlots,
         \/ ToggleEngine(c) \/ UpdateTool(c) \/ CreateTool(c)
         \/ \E t \in Names : ToggleTool(c, t) \/ DeleteTool(c, t)
  PROVE  CallStep(c)
<1> USE DEF PageInv
<1>1. Nothing \in Names \cup {Nothing} /\ Nothing \in Values /\ c \in Calls
  BY SlotsAreCalls DEF Values
<1>2. Changes \subseteq Reads \cup Changes /\ clicks \in 0..MaxClicks /\ MaxClicks \in Nat
  BY ClicksAssumption DEF Clicked
<1>3. Click => clicks' \in 0..MaxClicks /\ clicks' = clicks + 1 /\ clicks' >= clicks
  BY <1>2 DEF Click
<1>4. ASSUME NEW do, NEW t, NEW v
      PROVE  LET k == [NoCall EXCEPT !.do = do, !.tool = t, !.value = v]
             IN  k.do = do /\ k.tool = t /\ k.value = v
  BY DEF NoCall
<1>5. CASE ToggleEngine(c)
  <2> DEFINE v == ~status.engine
  <2>1. /\ "engine" \in Changes /\ BeginCall(c, "engine", Nothing, v)
        /\ Click /\ server' = server /\ tab' = tab /\ tabs' = tabs
    BY <1>5 DEF ToggleEngine, Changes
  <2>2. v \in BOOLEAN
    OBVIOUS
  <2> HIDE DEF v
  <2>3. v \in Values /\ "engine" \notin {"update", "create", "delete", "toggle"}
    BY <2>2 DEF Values
  <2>4. Sent([NoCall EXCEPT !.do = "engine", !.tool = Nothing, !.value = v])
    BY <1>4, <2>2 DEF Sent
  <2>5. QED
    BY <1>1, <1>2, <1>3, <2>1, <2>3, <2>4, BeginStep
<1>6. CASE UpdateTool(c)
  <2>1. /\ "update" \in Changes /\ BeginCall(c, "update", edit.tool, edit.version)
        /\ Click /\ server' = server /\ tab' = tab /\ tabs' = tabs /\ edit # NoEdit /\ tab = "tools"
    BY <1>6 DEF UpdateTool, Changes, Listed
  <2>2. edit.tool \in Names /\ edit.version \in Versions /\ edit.version \in Values
    BY <2>1 DEF TabShown, Values
  <2>3. Sent([NoCall EXCEPT !.do = "update", !.tool = edit.tool, !.value = edit.version])
    BY <1>4, <2>2 DEF Sent
  <2>4. QED
    BY <1>1, <1>2, <1>3, <2>1, <2>2, <2>3, BeginStep
<1>7. CASE CreateTool(c)
  <2> DEFINE v == [enabled |-> TRUE, version |-> DefaultVersion]
  <2>1. /\ "create" \in Changes /\ BeginCall(c, "create", create.name, v)
        /\ Click /\ server' = server /\ tab' = tab /\ tabs' = tabs
        /\ create.name # Nothing /\ rows # Nothing
    BY <1>7 DEF CreateTool, Changes
  <2>2. create.name \in Names /\ v \in Tool /\ v \in Values /\ tab = "tools"
    BY <2>1, VersionAssumption DEF TabShown, Values, Tool
  <2> HIDE DEF v
  <2>3. Sent([NoCall EXCEPT !.do = "create", !.tool = create.name, !.value = v])
    BY <1>4, <2>2 DEF Sent
  <2>4. QED
    BY <1>1, <1>2, <1>3, <2>1, <2>2, <2>3, BeginStep
<1>8. ASSUME NEW t \in Names, ToggleTool(c, t)
      PROVE  CallStep(c)
  <2> DEFINE v == ~rows.of[t].enabled
  <2>1. /\ "toggle" \in Changes /\ BeginCall(c, "toggle", t, v)
        /\ Click /\ server' = server /\ tab' = tab /\ tabs' = tabs /\ tab = "tools"
    BY <1>8 DEF ToggleTool, Changes, Listed
  <2>2. v \in BOOLEAN /\ v \in Values /\ t \in Names \cup {Nothing}
    BY DEF Values
  <2> HIDE DEF v
  <2>3. Sent([NoCall EXCEPT !.do = "toggle", !.tool = t, !.value = v])
    BY <1>4, <2>2 DEF Sent
  <2>4. QED
    BY <1>1, <1>2, <1>3, <2>1, <2>2, <2>3, BeginStep
<1>9. ASSUME NEW t \in Names, DeleteTool(c, t)
      PROVE  CallStep(c)
  <2>1. /\ "delete" \in Changes /\ BeginCall(c, "delete", t, Nothing)
        /\ Click /\ server' = server /\ tab' = tab /\ tabs' = tabs /\ tab = "tools"
    BY <1>9 DEF DeleteTool, Changes, Listed
  <2>2. Sent([NoCall EXCEPT !.do = "delete", !.tool = t, !.value = Nothing])
    BY <1>4 DEF Sent
  <2>3. QED
    BY <1>1, <1>2, <1>3, <2>1, <2>2, BeginStep
<1>10. QED
  BY <1>5, <1>6, <1>7, <1>8, <1>9

\* A step in which the server stays as it is.
LEMMA StepTo ==
  ASSUME PageInv, NEW c \in Calls, NEW k, calls' = [calls EXCEPT ![c] = k],
         Sound(k, epoch, tab), Weight(k) <= Weight(calls[c]),
         epoch' = epoch, tab' = tab, tabs' = tabs,
         clicks' \in 0..MaxClicks, clicks' >= clicks
  PROVE  CallStep(c)
<1> USE DEF PageInv
<1>1. calls'[c] = k
  BY DEF CallsSound
<1>2. /\ epoch.engine \in Nat /\ epoch.tools \in Nat /\ clicks \in Nat
      /\ Weight(k) \in Nat /\ Weight(calls[c]) \in Nat
  BY DEF ServerTyped, Parts, Clicked, Weight
<1>3. epoch'.engine + epoch'.tools + Weight(calls'[c]) + clicks
         <= epoch.engine + epoch.tools + Weight(calls[c]) + clicks'
  BY <1>1, <1>2
<1>4. epoch' \in [Parts -> Nat] /\ \A p \in Parts : epoch[p] <= epoch'[p]
  BY DEF ServerTyped
<1>5. QED
  BY <1>1, <1>3, <1>4 DEF CallStep, Clicked

LEMMA AppliedStep ==
  ASSUME PageInv, NEW c \in Calls, Applied(c),
         calls[c].at \in {"change", "write"}, tab' = tab, tabs' = tabs, clicks' = clicks
  PROVE  CallStep(c)
<1> USE DEF PageInv
<1> DEFINE p == Part(calls[c])
           k == [calls[c] EXCEPT !.at = "changed", !.answer = TRUE, !.applied = TRUE,
                                 !.since = epoch'[p]]
<1>1. p \in Parts /\ calls[c] \in CallType /\ Sound(calls[c], epoch, tab)
  BY PartIsPart DEF CallsSound
<1>e. epoch' = [epoch EXCEPT ![p] = @ + 1]
  BY DEF Applied
<1>a. calls \in [Calls -> CallType]
  BY DEF CallsSound
<1>b. calls' = [calls EXCEPT ![c].at = "changed", ![c].answer = TRUE, ![c].applied = TRUE,
                             ![c].since = epoch'[p]]
  BY DEF Applied
<1>c. calls' = [calls EXCEPT ![c] = k]
  BY <1>a, <1>b
<1>2. epoch' = [epoch EXCEPT ![p] = @ + 1] /\ calls' = [calls EXCEPT ![c] = k]
  BY <1>e, <1>c
<1>3. calls'[c] = k
  BY <1>2 DEF CallsSound
<1>4. /\ epoch' \in [Parts -> Nat] /\ \A q \in Parts : epoch[q] <= epoch'[q]
      /\ epoch'.engine + epoch'.tools = epoch.engine + epoch.tools + 1
      /\ epoch'[p] \in Nat
  BY <1>1, <1>2 DEF ServerTyped, Parts
<1>5. /\ k.at = "changed" /\ k.answer = TRUE /\ k.applied = TRUE /\ k.since = epoch'[p]
      /\ k.do = calls[c].do /\ k.mounted = calls[c].mounted /\ k \in CallType
      /\ Part(k) = p
  BY <1>1, <1>4 DEF CallType, Part
<1>6. calls[c].do \in Changes /\ Weight(calls[c]) = 1
  BY <1>1 DEF Sound, Weight
<1>7. calls[c].mounted /\ p = "tools" => tab = "tools"
  BY <1>1 DEF Sound
<1> HIDE DEF k, p
<1>8. Sound(k, epoch', tab) /\ Weight(k) = 0
  <2>1. k.since <= epoch'[Part(k)]
    BY <1>4, <1>5
  <2>a. k.answer \in BOOLEAN
    BY <1>5, Zenon
  <2>2. k.mounted /\ Part(k) = "tools" => tab = "tools"
    BY <1>5, <1>7
  <2>3. QED
    BY <1>5, <1>6, <2>1, <2>2, <2>a DEF Sound, Weight
<1>9. /\ clicks \in 0..MaxClicks /\ MaxClicks \in Nat /\ tabs \in 0..MaxTabs
      /\ epoch.engine \in Nat /\ epoch.tools \in Nat
  BY ClicksAssumption DEF Clicked, ServerTyped, Parts
<1>10. epoch'.engine + epoch'.tools + Weight(calls'[c]) + clicks
         <= epoch.engine + epoch.tools + Weight(calls[c]) + clicks'
  BY <1>3, <1>4, <1>6, <1>8, <1>9
<1>11. clicks' \in 0..MaxClicks /\ tabs' \in 0..MaxTabs
  BY <1>9
<1>12. calls' = [calls EXCEPT ![c] = calls'[c]] /\ Sound(calls'[c], epoch', tab)
  BY <1>2, <1>3, <1>8
<1>13. QED
  BY <1>4, <1>10, <1>11, <1>12 DEF CallStep

LEMMA RefusedStep ==
  ASSUME PageInv, NEW c \in Calls, Refused(c),
         calls[c].at \in {"change", "write"}, tab' = tab, tabs' = tabs, clicks' = clicks
  PROVE  CallStep(c)
<1> USE DEF PageInv
<1> DEFINE k == [calls[c] EXCEPT !.at = "changed", !.answer = FALSE]
<1>1. calls[c] \in CallType /\ Sound(calls[c], epoch, tab)
  BY DEF CallsSound
<1>2. calls' = [calls EXCEPT ![c] = k] /\ epoch' = epoch
  BY DEF Refused
<1>3. /\ k.at = "changed" /\ k.answer = FALSE /\ k.do = calls[c].do
      /\ k.mounted = calls[c].mounted /\ k.applied = calls[c].applied
      /\ k.since = calls[c].since /\ k \in CallType /\ Part(k) = Part(calls[c])
  BY <1>1 DEF CallType, Part
<1> HIDE DEF k
<1>4. Sound(k, epoch, tab) /\ Weight(k) = 0
  BY <1>1, <1>3 DEF Sound, Weight
<1>5. Weight(k) <= Weight(calls[c]) /\ clicks' \in 0..MaxClicks /\ clicks' >= clicks
  BY <1>4, ClicksAssumption DEF Weight, Clicked
<1>6. QED
  BY <1>2, <1>4, <1>5, StepTo, Zenon

LEMMA ChangeStep ==
  ASSUME PageInv, NEW c \in Calls, Change(c)
  PROVE  CallStep(c)
<1> USE DEF PageInv
<1>1. /\ calls[c].at = "change" /\ tab' = tab /\ tabs' = tabs /\ clicks' = clicks
      /\ calls[c] \in CallType /\ Sound(calls[c], epoch, tab)
      /\ clicks' \in 0..MaxClicks /\ clicks' >= clicks
  BY ClicksAssumption DEF Change, CallsSound, Clicked
<1>2. CASE Applied(c)
  BY <1>1, <1>2, AppliedStep
<1>3. CASE Refused(c)
  BY <1>1, <1>3, RefusedStep
<1>4. CASE /\ calls[c].do = "update" /\ tools[calls[c].tool] # Nothing
           /\ calls' = [calls EXCEPT ![c].at = "write",
                ![c].value = [tools[calls[c].tool] EXCEPT !.version = calls[c].value]]
           /\ UNCHANGED server
  <2> DEFINE v == [tools[calls[c].tool] EXCEPT !.version = calls[c].value]
             k == [calls[c] EXCEPT !.at = "write", !.value = v]
  <2>1. calls[c].tool \in Names /\ calls[c].value \in Versions
    BY <1>1, <1>4 DEF Sound, Sent, Changes
  <2>2. tools[calls[c].tool] \in Tool
    BY <1>4, <2>1 DEF ServerTyped, Registry
  <2>3. v \in Tool /\ v \in Values
    BY <2>1, <2>2 DEF Tool, Values
  <2>4. calls' = [calls EXCEPT ![c] = k] /\ epoch' = epoch
    BY <1>4 DEF server
  <2> HIDE DEF v
  <2>5. /\ k.at = "write" /\ k.value = v /\ k.do = calls[c].do /\ k.tool = calls[c].tool
        /\ k.mounted = calls[c].mounted /\ k.applied = calls[c].applied
        /\ k.since = calls[c].since /\ k \in CallType /\ Part(k) = Part(calls[c])
    BY <1>1, <2>3 DEF CallType, Part
  <2> HIDE DEF k
  <2>6. Sound(k, epoch, tab)
    BY <1>1, <1>4, <2>1, <2>3, <2>5 DEF Sound
  <2>7. Weight(k) <= Weight(calls[c])
    BY <1>1, <2>5 DEF Weight
  <2>8. QED
    BY <1>1, <2>4, <2>6, <2>7, StepTo, Zenon
<1>5. CASE /\ calls[c].do = "create" /\ calls' = [calls EXCEPT ![c].at = "write"]
           /\ UNCHANGED server
  <2> DEFINE k == [calls[c] EXCEPT !.at = "write"]
  <2>1. calls[c].tool \in Names /\ calls[c].value \in Tool
    BY <1>1, <1>5 DEF Sound, Sent, Changes
  <2>2. calls' = [calls EXCEPT ![c] = k] /\ epoch' = epoch
    BY <1>5 DEF server
  <2>3. /\ k.at = "write" /\ k.value = calls[c].value /\ k.do = calls[c].do
        /\ k.tool = calls[c].tool
        /\ k.mounted = calls[c].mounted /\ k.applied = calls[c].applied
        /\ k.since = calls[c].since /\ k \in CallType /\ Part(k) = Part(calls[c])
    BY <1>1 DEF CallType, Part
  <2> HIDE DEF k
  <2>4. Sound(k, epoch, tab)
    BY <1>1, <1>5, <2>1, <2>3 DEF Sound
  <2>5. Weight(k) <= Weight(calls[c])
    BY <1>1, <2>3 DEF Weight
  <2>6. QED
    BY <1>1, <2>2, <2>4, <2>5, StepTo, Zenon
<1>6. QED
  BY <1>2, <1>3, <1>4, <1>5 DEF Change

LEMMA WriteStep ==
  ASSUME PageInv, NEW c \in Calls, Write(c)
  PROVE  CallStep(c)
BY AppliedStep, RefusedStep DEF Write

LEMMA AnswerStep ==
  ASSUME PageInv, NEW c \in Calls, Answer(c)
  PROVE  CallStep(c)
<1> USE DEF PageInv
<1> DEFINE a == [of |-> IF Part(calls[c]) = "engine" THEN engine ELSE tools,
                 epoch |-> epoch[Part(calls[c])]]
           k == [calls[c] EXCEPT !.at = "told", !.answer = a]
<1>1. calls[c] \in CallType /\ Sound(calls[c], epoch, tab)
  BY DEF CallsSound
<1>2. Part(calls[c]) \in Parts /\ epoch[Part(calls[c])] \in Nat
  BY PartIsPart DEF ServerTyped
<1>3. /\ a.epoch = epoch[Part(calls[c])] /\ a.of \in Contents(Part(calls[c]))
      /\ a \in Told
  BY <1>2 DEF Told, Contents, ServerTyped
<1>a. calls \in [Calls -> CallType]
  BY DEF CallsSound
<1>b. /\ calls' = [calls EXCEPT ![c].at = "told", ![c].answer = a]
      /\ epoch' = epoch /\ tab' = tab /\ tabs' = tabs /\ clicks' = clicks
  BY DEF Answer, server
<1> HIDE DEF a
<1>c. calls' = [calls EXCEPT ![c] = k]
  BY <1>a, <1>b
<1>d. clicks' \in 0..MaxClicks /\ clicks' >= clicks
  BY <1>b, ClicksAssumption DEF Clicked
<1>4. /\ calls' = [calls EXCEPT ![c] = k] /\ epoch' = epoch
      /\ tab' = tab /\ tabs' = tabs /\ clicks' \in 0..MaxClicks /\ clicks' >= clicks
  BY <1>b, <1>c, <1>d
<1>5. /\ k.at = "told" /\ k.answer = a /\ k.do = calls[c].do
      /\ k.mounted = calls[c].mounted /\ k.applied = calls[c].applied
      /\ k.since = calls[c].since /\ k \in CallType /\ Part(k) = Part(calls[c])
  BY <1>1, <1>3 DEF CallType, Part
<1> HIDE DEF k
<1>6. calls[c].since \in Nat
  BY <1>1 DEF CallType
<1>7. Sound(k, epoch, tab)
  BY <1>1, <1>2, <1>3, <1>5, <1>6 DEF Sound
<1>8. Weight(k) <= Weight(calls[c])
  BY <1>5 DEF Weight
<1>9. QED
  BY <1>4, <1>7, <1>8, StepTo, Zenon

LEMMA LoseStep ==
  ASSUME PageInv, NEW c \in Calls, Lose(c)
  PROVE  CallStep(c)
<1> USE DEF PageInv
<1>1. calls[c] \in CallType /\ Sound(calls[c], epoch, tab)
  BY DEF CallsSound
<1>2. /\ clicks' \in 0..MaxClicks /\ clicks' >= clicks
      /\ epoch' = epoch /\ tab' = tab /\ tabs' = tabs
  BY ClicksAssumption DEF Lose, Click, Clicked, server
<1>3. CASE /\ calls[c].at \in {"change", "changed"}
           /\ calls' = [calls EXCEPT ![c].at = "changed", ![c].answer = FALSE]
  <2> DEFINE k == [calls[c] EXCEPT !.at = "changed", !.answer = FALSE]
  <2>1. calls' = [calls EXCEPT ![c] = k]
    BY <1>3
  <2>2. /\ k.at = "changed" /\ k.answer = FALSE /\ k.do = calls[c].do
        /\ k.mounted = calls[c].mounted /\ k.applied = calls[c].applied
        /\ k.since = calls[c].since /\ k \in CallType /\ Part(k) = Part(calls[c])
    BY <1>1 DEF CallType, Part
  <2> HIDE DEF k
  <2>a. k.answer \in BOOLEAN
    BY <2>2, Zenon
  <2>b. Sound(k, epoch, tab)
    BY <1>1, <1>3, <2>2, <2>a DEF Sound
  <2>3. Sound(k, epoch, tab) /\ Weight(k) <= Weight(calls[c])
    BY <1>1, <1>3, <2>2, <2>b DEF Weight
  <2>4. QED
    BY <1>2, <2>1, <2>3, StepTo, Zenon
<1>4. CASE /\ calls[c].at \in {"ask", "told"}
           /\ calls' = [calls EXCEPT ![c].at = "told", ![c].answer = Nothing]
  <2> DEFINE k == [calls[c] EXCEPT !.at = "told", !.answer = Nothing]
  <2>1. calls' = [calls EXCEPT ![c] = k]
    BY <1>4
  <2>2. /\ k.at = "told" /\ k.answer = Nothing /\ k.do = calls[c].do
        /\ k.mounted = calls[c].mounted /\ k.applied = calls[c].applied
        /\ k.since = calls[c].since /\ k \in CallType /\ Part(k) = Part(calls[c])
    BY <1>1 DEF CallType, Part
  <2> HIDE DEF k
  <2>3. Sound(k, epoch, tab) /\ Weight(k) <= Weight(calls[c])
    BY <1>1, <1>4, <2>2 DEF Sound, Weight
  <2>4. QED
    BY <1>2, <2>1, <2>3, StepTo, Zenon
<1>5. QED
  BY <1>3, <1>4 DEF Lose

LEMMA EndStep ==
  ASSUME PageInv, NEW c \in Calls, calls' = [calls EXCEPT ![c] = NoCall],
         server' = server, tab' = tab, tabs' = tabs, clicks' = clicks
  PROVE  CallStep(c)
<1>1. Sound(NoCall, epoch, tab) /\ Weight(NoCall) <= Weight(calls[c])
  BY NoCallSound DEF PageInv, Weight
<1>2. epoch' = epoch /\ clicks' \in 0..MaxClicks /\ clicks' >= clicks
  BY ClicksAssumption DEF server, PageInv, Clicked
<1>3. QED
  BY <1>1, <1>2, StepTo, Zenon

LEMMA GoesStep ==
  ASSUME PageInv, NEW c \in Calls, Goes(c)
  PROVE  CallStep(c)
<1> USE DEF PageInv
<1>1. calls[c] \in CallType /\ Sound(calls[c], epoch, tab)
  BY DEF CallsSound
<1>2. server' = server /\ tab' = tab /\ tabs' = tabs /\ clicks' = clicks
  BY DEF Goes, Changed, StatusTold, Probed, ToggleTold, ListTold, home, toolsTab
<1>e. epoch' = epoch /\ clicks' \in 0..MaxClicks /\ clicks' >= clicks
  BY <1>2, ClicksAssumption DEF server, Clicked
<1>3. CASE calls' = [calls EXCEPT ![c] = NoCall]
  BY <1>2, <1>3, EndStep
<1>4. CASE calls[c].at = "changed" /\ calls' = [calls EXCEPT ![c] = AfterChange(c)]
  <2>1. /\ AfterChange(c).at = "ask" /\ AfterChange(c).do = calls[c].do
        /\ AfterChange(c).mounted = calls[c].mounted
        /\ AfterChange(c).applied = calls[c].applied
        /\ AfterChange(c).since = calls[c].since
    BY <1>1 DEF AfterChange, CallType
  <2>a. AfterChange(c) \in CallType
    BY <1>1 DEF AfterChange, CallType, Values
  <2>b. Part(AfterChange(c)) = Part(calls[c])
    BY <2>1 DEF Part
  <2>2. Sound(AfterChange(c), epoch, tab) /\ Weight(AfterChange(c)) <= Weight(calls[c])
    BY <1>1, <2>1, <2>a, <2>b DEF Sound, Weight
  <2>3. QED
    BY <1>2, <1>4, <1>e, <2>2, StepTo, Zenon
<1>5. CASE calls' = [calls EXCEPT ![c] = [NoCall EXCEPT !.do = "status", !.at = "probe"]]
  <2> DEFINE k == [NoCall EXCEPT !.do = "status", !.at = "probe"]
  <2>1. /\ k.at = "probe" /\ k.do = "status" /\ ~k.applied /\ k.since = 0
        /\ ~k.mounted /\ k \in CallType
    BY DEF NoCall, CallType, Values, Reads
  <2>2. epoch[Part(k)] \in Nat
    BY PartIsPart DEF ServerTyped
  <2> HIDE DEF k
  <2>3. Sound(k, epoch, tab) /\ Weight(k) <= Weight(calls[c])
    BY <2>1, <2>2 DEF Sound, Weight
  <2>4. QED
    BY <1>2, <1>5, <1>e, <2>3, StepTo, Zenon DEF k
<1>6. QED
  BY <1>3, <1>4, <1>5 DEF Goes, Changed, StatusTold, Probed, ToggleTold, ListTold

\* What a step does for one call.
CallMoves(c) ==
  \/ Tick(c) \/ Server(c) \/ Goes(c) \/ Lose(c)
  \/ c \in CallSlots /\ (ToggleEngine(c) \/ UpdateTool(c) \/ CreateTool(c))
  \/ c \in CallSlots /\ \E t \in Names : ToggleTool(c, t) \/ DeleteTool(c, t)

LEMMA NextCases ==
  ASSUME ConsoleNext
  PROVE  \/ \E c \in Calls : CallMoves(c)
         \/ \E t \in Names : EditRow(t)
         \/ FillCreate \/ SwitchTab
BY SlotsAreCalls DEF ConsoleNext, CallMoves

LEMMA CallMovesStep ==
  ASSUME PageInv, NEW c \in Calls, CallMoves(c)
  PROVE  CallStep(c)
BY TickStep, ChangeStep, WriteStep, AnswerStep, GoesStep, LoseStep, ClickStep
   DEF CallMoves, Server

\* The forms are edited, or nothing happens.
LEMMA CallsStay ==
  ASSUME PageInv, calls' = calls, server' = server, tab' = tab, tabs' = tabs,
         clicks' = clicks \/ Click
  PROVE  ServerTyped' /\ CallsSound' /\ Clicked'
<1>1. engine' = engine /\ tools' = tools /\ epoch' = epoch
  BY DEF server
<1>2. ServerTyped' /\ CallsSound'
  BY <1>1 DEF PageInv, ServerTyped, CallsSound
<1>3. Pending' = Pending
  BY DEF Pending
<1>4. /\ clicks \in 0..MaxClicks /\ MaxClicks \in Nat /\ tabs \in 0..MaxTabs
      /\ IsFiniteSet(Pending) /\ Cardinality(Pending) \in Nat
      /\ epoch.engine \in Nat /\ epoch.tools \in Nat
      /\ epoch.engine + epoch.tools + Cardinality(Pending) <= clicks
  BY ClicksAssumption, FS_CardinalityType DEF PageInv, Clicked, ServerTyped, Parts
<1>5. clicks' \in 0..MaxClicks /\ clicks' >= clicks
  BY <1>4 DEF Click
<1>6. Clicked'
  BY <1>1, <1>3, <1>4, <1>5 DEF Clicked
<1>7. QED
  BY <1>2, <1>6

LEMMA SwitchStep ==
  ASSUME PageInv, SwitchTab
  PROVE  ServerTyped' /\ CallsSound' /\ Clicked'
<1> USE DEF PageInv
<1>1. engine' = engine /\ tools' = tools /\ epoch' = epoch
  BY DEF SwitchTab, server
<1>2. ServerTyped'
  BY <1>1 DEF ServerTyped
<1>3. ASSUME NEW c \in Calls
      PROVE  Sound(calls'[c], epoch, tab') /\ calls'[c].at = calls[c].at
  <2>1. calls[c] \in CallType /\ Sound(calls[c], epoch, tab)
    BY DEF CallsSound
  <2>2. CASE Part(calls[c]) = "engine"
    <3>1. calls'[c] = calls[c]
      BY <2>2 DEF SwitchTab
    <3>2. QED
      BY <2>1, <2>2, <3>1 DEF Sound
  <2>3. CASE Part(calls[c]) # "engine"
    <3> DEFINE k == [calls[c] EXCEPT !.mounted = FALSE]
    <3>1. calls'[c] = k
      BY <2>3 DEF SwitchTab
    <3>2. /\ k.at = calls[c].at /\ k.do = calls[c].do /\ k.tool = calls[c].tool
          /\ k.value = calls[c].value /\ k.answer = calls[c].answer
          /\ k.applied = calls[c].applied /\ k.since = calls[c].since
          /\ ~k.mounted /\ k \in CallType /\ Part(k) = Part(calls[c])
      BY <2>1 DEF CallType, Part
    <3>3. Sent(calls[c]) => Sent(k)
      BY <3>2 DEF Sent
    <3> HIDE DEF k
    <3>4. Sound(k, epoch, tab')
      BY <2>1, <3>2, <3>3 DEF Sound
    <3>5. QED
      BY <3>1, <3>2, <3>4
  <2>4. QED
    BY <2>2, <2>3
<1>4. calls' \in [Calls -> CallType]
  <2>1. calls' = [c \in Calls |-> calls'[c]]
    BY DEF SwitchTab
  <2>2. \A c \in Calls : calls'[c] \in CallType
    BY <1>3 DEF Sound
  <2>3. QED
    BY <2>1, <2>2
<1>5. CallsSound'
  BY <1>1, <1>3, <1>4 DEF CallsSound
<1>6. Pending' = Pending
  BY <1>3 DEF Pending
<1>7. /\ clicks \in 0..MaxClicks /\ MaxClicks \in Nat /\ tabs \in 0..MaxTabs
      /\ MaxTabs \in Nat /\ IsFiniteSet(Pending) /\ Cardinality(Pending) \in Nat
      /\ epoch.engine \in Nat /\ epoch.tools \in Nat
      /\ epoch.engine + epoch.tools + Cardinality(Pending) <= clicks
  BY ClicksAssumption, FS_CardinalityType DEF Clicked, ServerTyped, Parts
<1>8. clicks' \in 0..MaxClicks /\ clicks' >= clicks /\ tabs' \in 0..MaxTabs
  BY <1>7 DEF SwitchTab, Click
<1>9. Clicked'
  BY <1>1, <1>6, <1>7, <1>8 DEF Clicked
<1>10. QED
  BY <1>2, <1>5, <1>9

-----------------------------------------------------------------------------
(* Console: the server's parts, what is shown of them, and the forms.      *)

LEMMA ServerStays ==
  ASSUME ServerTyped, server' = server
  PROVE  ServerTyped'
<1>1. engine' = engine /\ tools' = tools /\ epoch' = epoch
  BY DEF server
<1>2. QED
  BY <1>1 DEF ServerTyped

LEMMA ServerMoves ==
  ASSUME PageInv, NEW c \in Calls, CallMoves(c)
  PROVE  ServerTyped'
<1> USE DEF PageInv
<1> DEFINE t == calls[c].tool
<1>1. epoch' \in [Parts -> Nat]
  BY CallMovesStep DEF CallStep
<1>2. calls[c] \in CallType /\ Sound(calls[c], epoch, tab)
  BY DEF CallsSound
<1>3. CASE Change(c)
  <2>1. calls[c].at = "change" /\ Sent(calls[c])
    BY <1>2, <1>3 DEF Change, Sound
  <2>2. CASE calls[c].do = "engine" /\ engine' = calls[c].value /\ tools' = tools
    <3>1. calls[c].value \in BOOLEAN
      BY <2>1, <2>2 DEF Sent
    <3>2. QED
      BY <1>1, <2>2, <3>1, Zenon DEF ServerTyped
  <2>3. CASE /\ calls[c].do = "toggle" /\ tools[t] # Nothing
             /\ tools' = [tools EXCEPT ![t].enabled = calls[c].value] /\ engine' = engine
    <3>1. calls[c].value \in BOOLEAN /\ t \in Names
      BY <2>1, <2>3 DEF Sent, Changes
    <3>2. tools[t] \in Tool
      BY <2>3, <3>1 DEF ServerTyped, Registry
    <3>3. [tools[t] EXCEPT !.enabled = calls[c].value] \in Tool
      BY <3>1, <3>2 DEF Tool
    <3>a. tools' = [tools EXCEPT ![t] = [tools[t] EXCEPT !.enabled = calls[c].value]]
      BY <2>3
    <3>4. tools' \in Registry
      BY <3>1, <3>3, <3>a DEF ServerTyped, Registry
    <3>5. QED
      BY <1>1, <2>3, <3>4 DEF ServerTyped
  <2>4. CASE tools' = [tools EXCEPT ![t] = Nothing] /\ engine' = engine
    <3>1. tools' \in Registry
      BY <2>4 DEF ServerTyped, Registry
    <3>2. QED
      BY <1>1, <2>4, <3>1 DEF ServerTyped
  <2>5. CASE engine' = engine /\ tools' = tools
    BY <1>1, <2>5 DEF ServerTyped
  <2>6. QED
    BY <1>3, <2>2, <2>3, <2>4, <2>5 DEF Change, Refused, server
<1>4. CASE Write(c)
  <2>1. calls[c].value \in Tool /\ engine' = engine
    BY <1>2, <1>4 DEF Write, Sound, Refused
  <2>2. tools' = [tools EXCEPT ![t] = calls[c].value] \/ tools' = tools
    BY <1>4 DEF Write, Refused
  <2>3. tools' \in Registry
    BY <2>1, <2>2 DEF ServerTyped, Registry
  <2>4. QED
    BY <1>1, <2>1, <2>3 DEF ServerTyped
<1>5. CASE server' = server
  BY <1>5, ServerStays
<1>6. QED
  BY <1>3, <1>4, <1>5
     DEF CallMoves, Server, Tick, Answer, Goes, Changed, StatusTold, Probed, ToggleTold,
         ListTold, Lose, ToggleEngine, UpdateTool, CreateTool, ToggleTool, DeleteTool

LEMMA HomeStays ==
  ASSUME HomeShown, home' = home
  PROVE  HomeShown'
<1>1. status' = status /\ health' = health
  BY DEF home
<1>2. QED
  BY <1>1 DEF HomeShown, CoreDownShowsError

LEMMA HomeMoves ==
  ASSUME PageInv, NEW c \in Calls, CallMoves(c)
  PROVE  HomeShown'
<1> USE DEF PageInv
<1>1. calls[c] \in CallType /\ Sound(calls[c], epoch, tab)
  BY DEF CallsSound
<1>2. /\ status \in [engine : BOOLEAN \cup {Nothing}, error : BOOLEAN, epoch : Int]
      /\ health \in [core : {"healthy", "down"}, engine : BOOLEAN]
      /\ health.core = "down" => status.error
  BY DEF HomeShown, CoreDownShowsError
<1> DEFINE a == calls[c].answer
<1>3. ASSUME calls[c].at = "told", calls[c].do \in {"status", "engine"}, a # Nothing
      PROVE  a.of \in BOOLEAN /\ a.epoch \in Int
  <2>1. a \in Told /\ a.of \in Contents(Part(calls[c])) /\ Part(calls[c]) = "engine"
    BY <1>1, <1>3 DEF Sound, Part
  <2>2. QED
    BY <2>1 DEF Told, Contents
<1>4. CASE status' = [status EXCEPT !.error = TRUE] /\ health' = health
  BY <1>2, <1>4 DEF HomeShown, CoreDownShowsError
<1>5. CASE StatusTold(c)
  <2>1. CASE a # Nothing
    <3>1. /\ status' = [engine |-> a.of, epoch |-> a.epoch, error |-> FALSE]
          /\ health' = [core |-> "healthy", engine |-> a.of]
          /\ a.of \in BOOLEAN /\ a.epoch \in Int
      BY <1>3, <1>5, <2>1 DEF StatusTold, HealthAfter
    <3> HIDE DEF a
    <3>2. QED
      BY <3>1 DEF HomeShown, CoreDownShowsError
  <2>2. CASE a = Nothing
    <3>1. /\ status' = [status EXCEPT !.error = TRUE]
          /\ health' = [health EXCEPT !.core = "down"]
      BY <1>5, <2>2 DEF StatusTold
    <3>2. QED
      BY <1>2, <3>1 DEF HomeShown, CoreDownShowsError
  <2>3. QED
    BY <2>1, <2>2
<1>6. CASE ToggleTold(c) /\ a # Nothing
  <2>1. /\ status' = [status EXCEPT !.engine = a.of, !.epoch = a.epoch]
        /\ health' = health /\ a.of \in BOOLEAN /\ a.epoch \in Int
    BY <1>3, <1>6 DEF ToggleTold, Refreshed
  <2> HIDE DEF a
  <2>2. QED
    BY <1>2, <2>1 DEF HomeShown, CoreDownShowsError
<1>7. CASE home' = home
  BY <1>7, HomeStays
<1>8. QED
  <2>1. Changed(c) =>
          \/ home' = home
          \/ status' = [status EXCEPT !.error = TRUE] /\ health' = health
    BY DEF Changed, home
  <2>2. ToggleTold(c) /\ a = Nothing =>
          status' = [status EXCEPT !.error = TRUE] /\ health' = health
    BY DEF ToggleTold
  <2>3. Goes(c) => HomeShown'
    BY <1>4, <1>5, <1>6, <1>7, <2>1, <2>2 DEF Goes, Probed, ListTold
  <2>4. QED
    BY <1>7, <2>3
       DEF CallMoves, Server, Tick, Change, Write, Answer, Lose,
           ToggleEngine, UpdateTool, CreateTool, ToggleTool, DeleteTool

LEMMA TabStays ==
  ASSUME TabShown, tab' = tab, rows' = rows, edit' = edit, create' = create,
         epoch \in [Parts -> Nat], epoch' \in [Parts -> Nat], epoch.tools <= epoch'.tools
  PROVE  TabShown'
<1>1. epoch.tools \in Nat /\ epoch'.tools \in Nat
  BY DEF Parts
<1>2. rows' # Nothing => rows'.epoch \in -1..epoch'.tools
  BY <1>1 DEF TabShown
<1>3. QED
  BY <1>2 DEF TabShown

LEMMA TabMoves ==
  ASSUME PageInv, NEW c \in Calls, CallMoves(c)
  PROVE  TabShown'
<1> USE DEF PageInv
<1>1. /\ epoch' \in [Parts -> Nat] /\ epoch \in [Parts -> Nat]
      /\ epoch.tools <= epoch'.tools /\ tab' = tab
  BY CallMovesStep DEF CallStep, ServerTyped, Parts
<1>2. calls[c] \in CallType /\ Sound(calls[c], epoch, tab)
  BY DEF CallsSound
<1>3. CASE Changed(c)
  <2>1. epoch' = epoch /\ rows' = rows /\ edit' \in {NoEdit, edit}
        /\ create' \in {NoCreate, create}
    BY <1>3 DEF Changed, CloseForms, server
  <2>2. /\ NoEdit \in [tool : Names \cup {Nothing}, version : Versions \cup {Nothing}]
        /\ NoCreate \in [open : BOOLEAN, name : Names \cup {Nothing}]
    BY DEF NoEdit, NoCreate
  <2>3. QED
    BY <1>1, <2>1, <2>2, Zenon DEF TabShown
<1>4. CASE ListTold(c)
  <2>1. epoch' = epoch /\ edit' = edit /\ create' = create
    BY <1>4 DEF ListTold, server
  <2>2. CASE ~calls[c].mounted
    <3>1. rows' = rows
      BY <1>4, <2>2 DEF ListTold
    <3>2. QED
      BY <1>1, <2>1, <3>1, TabStays
  <2>3. CASE calls[c].mounted
    <3>1. tab = "tools" /\ Part(calls[c]) = "tools" /\ epoch.tools \in Nat
      BY <1>1, <1>2, <1>4, <2>3 DEF ListTold, Sound, Part, Parts
    <3>2. rows' = ListAfter(c)
      BY <1>4, <2>3 DEF ListTold
    <3> DEFINE a == calls[c].answer
               none == [of |-> [t \in Names |-> Nothing], epoch |-> -1]
    <3>3. CASE a # Nothing
      <4>1. /\ a \in Told /\ a.of \in Registry /\ a.epoch <= epoch.tools
        BY <1>2, <1>4, <3>1, <3>3 DEF Sound, Contents, ListTold
      <4>2. a \in [of : Registry, epoch : Int] /\ a.epoch \in -1..epoch.tools
        BY <3>1, <4>1 DEF Told
      <4>3. rows' = a
        BY <3>2, <3>3 DEF ListAfter
      <4> HIDE DEF a
      <4>4. QED
        BY <1>1, <2>1, <3>1, <4>2, <4>3 DEF TabShown
    <3>4. CASE a = Nothing /\ rows = Nothing
      <4>1. rows' = none
        BY <3>2, <3>4 DEF ListAfter
      <4>2. none \in [of : Registry, epoch : Int] /\ none.epoch \in -1..epoch.tools
        BY <3>1 DEF Registry
      <4> HIDE DEF none
      <4>3. QED
        BY <1>1, <2>1, <3>1, <4>1, <4>2 DEF TabShown
    <3>5. CASE a = Nothing /\ rows # Nothing
      <4>1. rows' = rows
        BY <3>2, <3>5 DEF ListAfter
      <4>2. QED
        BY <1>1, <2>1, <4>1, TabStays
    <3>6. QED
      BY <3>3, <3>4, <3>5
  <2>4. QED
    BY <2>2, <2>3
<1>5. CASE toolsTab' = toolsTab
  <2>1. rows' = rows /\ edit' = edit /\ create' = create
    BY <1>5 DEF toolsTab
  <2>2. QED
    BY <1>1, <2>1, TabStays
<1>6. QED
  BY <1>3, <1>4, <1>5
     DEF CallMoves, Server, Goes, Tick, Change, Write, Answer, Lose, StatusTold, Probed,
         ToggleTold, ToggleEngine, UpdateTool, CreateTool, ToggleTool, DeleteTool

LEMMA EditMoves ==
  ASSUME PageInv, NEW t \in Names, EditRow(t)
  PROVE  TabShown'
<1> USE DEF PageInv
<1>1. /\ tab = "tools" /\ rows # Nothing /\ rows.of[t] # Nothing
      /\ rows' = rows /\ create' = create /\ tab' = tab /\ epoch' = epoch
  BY DEF EditRow, Listed, server
<1>2. rows.of[t].version \in Versions
  BY <1>1 DEF TabShown, Registry, Tool
<1>3. edit' = NoEdit \/ (edit'.tool \in Names /\ edit'.version \in Versions)
  <2>1. CASE edit' = [tool |-> t, version |-> rows.of[t].version]
    BY <1>2, <2>1
  <2>2. CASE edit.tool = t /\ \E v \in Versions \ {edit.version} :
                                edit' = [edit EXCEPT !.version = v]
    BY <2>2 DEF TabShown
  <2>3. QED
    BY <2>1, <2>2 DEF EditRow
<1>4. edit' \in [tool : Names \cup {Nothing}, version : Versions \cup {Nothing}]
  <2>1. CASE edit' = [tool |-> t, version |-> rows.of[t].version]
    BY <1>2, <2>1
  <2>2. CASE edit.tool = t /\ \E v \in Versions \ {edit.version} :
                                edit' = [edit EXCEPT !.version = v]
    BY <2>2 DEF TabShown
  <2>3. CASE edit' = NoEdit
    BY <2>3 DEF NoEdit
  <2>4. QED
    BY <2>1, <2>2, <2>3 DEF EditRow
<1>5. QED
  BY <1>1, <1>3, <1>4, Zenon DEF TabShown

LEMMA CreateMoves ==
  ASSUME PageInv, FillCreate
  PROVE  TabShown'
<1> USE DEF PageInv
<1>1. /\ tab = "tools" /\ rows' = rows /\ edit' = edit /\ tab' = tab /\ epoch' = epoch
  BY DEF FillCreate, server
<1>2. create' \in [open : BOOLEAN, name : Names \cup {Nothing}]
  <2>1. CASE create' = [create EXCEPT !.open = ~@]
    <3>1. create \in [open : BOOLEAN, name : Names \cup {Nothing}]
      BY DEF TabShown
    <3> DEFINE o == ~create.open
    <3>2. o \in BOOLEAN /\ create' = [create EXCEPT !.open = o]
      BY <2>1
    <3> HIDE DEF o
    <3>3. QED
      BY <3>1, <3>2
  <2>2. CASE \E t \in Names \ {create.name} : create' = [create EXCEPT !.name = t]
    BY <2>2 DEF TabShown
  <2>3. CASE create' = NoCreate
    BY <2>3 DEF NoCreate
  <2>4. QED
    BY <2>1, <2>2, <2>3 DEF FillCreate
<1>3. QED
  BY <1>1, <1>2, Zenon DEF TabShown

LEMMA SwitchMoves ==
  ASSUME PageInv, SwitchTab
  PROVE  TabShown'
<1>1. /\ tab' \in {"dashboard", "tools"}
      /\ rows' = Nothing /\ edit' = NoEdit /\ create' = NoCreate
  BY DEF SwitchTab
<1>2. /\ NoEdit \in [tool : Names \cup {Nothing}, version : Versions \cup {Nothing}]
      /\ NoCreate \in [open : BOOLEAN, name : Names \cup {Nothing}]
  BY DEF NoEdit, NoCreate
<1>3. QED
  BY <1>1, <1>2, Zenon DEF TabShown

-----------------------------------------------------------------------------
(* Console: the invariant, and the theorems.                               *)

LEMMA PageInvInit == ConsoleInit => PageInv
<1> SUFFICES ASSUME ConsoleInit PROVE PageInv
  OBVIOUS
<1>1. ServerTyped
  BY StartedAssumption DEF ConsoleInit, ServerTyped
<1>2. HomeShown
  BY DEF ConsoleInit, HomeShown, CoreDownShowsError
<1>3. TabShown
  BY DEF ConsoleInit, TabShown, NoEdit, NoCreate
<1>4. CallsSound
  BY <1>1, NoCallSound DEF ConsoleInit, CallsSound
<1>5. Clicked
  <2>1. Pending = {}
    BY DEF Pending, ConsoleInit, NoCall
  <2>2. IsFiniteSet(Pending) /\ Cardinality(Pending) = 0
    BY <2>1, FS_EmptySet
  <2>3. QED
    BY <2>2, ClicksAssumption DEF ConsoleInit, Clicked, Parts
<1>6. QED
  BY <1>1, <1>2, <1>3, <1>4, <1>5 DEF PageInv

LEMMA PageInvStep == PageInv /\ [ConsoleNext]_consoleVars => PageInv'
<1> SUFFICES ASSUME PageInv, [ConsoleNext]_consoleVars PROVE PageInv'
  OBVIOUS
<1>1. ASSUME NEW c \in Calls, CallMoves(c)
      PROVE  PageInv'
  <2>1. CallStep(c)
    BY <1>1, CallMovesStep
  <2>2. CallsSound' /\ Clicked'
    BY <2>1, CallStepSound, CallStepClicked DEF PageInv
  <2>3. ServerTyped' /\ HomeShown' /\ TabShown'
    BY <1>1, ServerMoves, HomeMoves, TabMoves
  <2>4. QED
    BY <2>2, <2>3 DEF PageInv
<1>2. ASSUME NEW t \in Names, EditRow(t)
      PROVE  PageInv'
  <2>1. /\ calls' = calls /\ server' = server /\ tab' = tab /\ tabs' = tabs /\ Click
        /\ home' = home
    BY <1>2 DEF EditRow
  <2>2. QED
    BY <1>2, <2>1, CallsStay, HomeStays, EditMoves DEF PageInv
<1>3. CASE FillCreate
  <2>1. /\ calls' = calls /\ server' = server /\ tab' = tab /\ tabs' = tabs /\ Click
        /\ home' = home
    BY <1>3 DEF FillCreate
  <2>2. QED
    BY <1>3, <2>1, CallsStay, HomeStays, CreateMoves DEF PageInv
<1>4. CASE SwitchTab
  <2>1. home' = home
    BY <1>4 DEF SwitchTab
  <2>2. QED
    BY <1>4, <2>1, SwitchStep, HomeStays, SwitchMoves DEF PageInv
<1>5. CASE UNCHANGED consoleVars
  <2>1. /\ calls' = calls /\ server' = server /\ tab' = tab /\ tabs' = tabs
        /\ clicks' = clicks /\ home' = home /\ toolsTab' = toolsTab
    BY <1>5 DEF consoleVars
  <2>2. ServerTyped' /\ CallsSound' /\ Clicked' /\ HomeShown'
    BY <2>1, CallsStay, HomeStays DEF PageInv
  <2>3. rows' = rows /\ edit' = edit /\ create' = create /\ epoch' = epoch
    BY <2>1 DEF toolsTab, server
  <2>4. TabShown'
    BY <2>1, <2>3 DEF PageInv, TabShown
  <2>5. QED
    BY <2>2, <2>4 DEF PageInv
<1>6. QED
  BY <1>1, <1>2, <1>3, <1>4, <1>5, NextCases

LEMMA PageInvAlways == ConsoleSpec => []PageInv
BY PageInvInit, PageInvStep, PTL DEF ConsoleSpec

LEMMA PageInvConsistent == PageInv => PageConsistent
<1> SUFFICES ASSUME PageInv PROVE PageConsistent
  OBVIOUS
<1> USE DEF PageInv
<1>1. epoch \in [Parts -> 0..MaxClicks]
  <2>1. /\ epoch.engine \in Nat /\ epoch.tools \in Nat /\ clicks \in 0..MaxClicks
        /\ Cardinality(Pending) \in Nat /\ MaxClicks \in Nat
        /\ epoch.engine + epoch.tools + Cardinality(Pending) <= clicks
    BY ClicksAssumption, FS_CardinalityType DEF ServerTyped, Clicked, Parts
  <2>2. epoch.engine \in 0..MaxClicks /\ epoch.tools \in 0..MaxClicks
    BY <2>1
  <2>3. QED
    BY <2>2 DEF ServerTyped, Parts
<1>2. \A c \in Calls :
        /\ calls[c].do \in Reads \cup Changes \cup {"none"}
        /\ calls[c].at \in {"none", "change", "write", "changed", "ask", "told", "probe"}
        /\ calls[c].since <= epoch[Part(calls[c])]
        /\ calls[c].applied => calls[c].do \in Changes
  BY DEF CallsSound, Sound, CallType
<1>3. /\ status.engine \in BOOLEAN \cup {Nothing} /\ status.error \in BOOLEAN
      /\ health \in [core : {"healthy", "down"}, engine : BOOLEAN] /\ CoreDownShowsError
  BY Zenon DEF HomeShown
<1>4. /\ rows # Nothing => rows.of \in Registry /\ rows.epoch \in -1..epoch.tools
      /\ create.open \in BOOLEAN /\ create.name \in Names \cup {Nothing}
  BY Zenon DEF TabShown
<1>5. /\ tab \in {"dashboard", "tools"}
      /\ edit = NoEdit \/ (edit.tool \in Names /\ edit.version \in Versions)
      /\ tab = "dashboard" => rows = Nothing /\ edit = NoEdit /\ create = NoCreate
  BY DEF TabShown
<1>6. QED
  BY <1>1, <1>2, <1>3, <1>4, <1>5, Zenon
     DEF PageConsistent, ConsoleTypeOK, ServerTyped, Clicked

\* For any tools, slots and numbers of clicks: the page is typed, and its header
\* and its status bar agree (page.tsx, loadStatus, handleToggleContextEngine).
THEOREM PageConsistentAlways == ConsoleSpec => []PageConsistent
BY PageInvAlways, PageInvConsistent, PTL

\* What one step has to show of a call that it ends.
EndShown(c) ==
  /\ calls[c].applied /\ calls[c].mounted
  /\ calls[c].at # "none" /\ calls'[c].at = "none"
  /\ ~(calls[c].at = "changed" /\ calls[c].answer = FALSE)
  /\ ~(calls[c].at = "told" /\ calls[c].answer = Nothing)
  => IF Part(calls[c]) = "engine"
       THEN status'.epoch >= calls[c].since
       ELSE rows' # Nothing /\ rows'.epoch >= calls[c].since

\* No step but those of the page's own callbacks ends a call.
LEMMA EndsByGoing ==
  ASSUME PageInv, NEW c \in Calls, [ConsoleNext]_consoleVars,
         calls[c].at # "none", calls'[c].at = "none"
  PROVE  Goes(c)
<1> USE DEF PageInv
<1>1. calls \in [Calls -> CallType]
  BY DEF CallsSound
<1>2. ASSUME NEW d \in Calls, CallMoves(d)
      PROVE  d = c
  <2>1. calls' = [calls EXCEPT ![d] = calls'[d]]
    BY <1>2, CallMovesStep DEF CallStep
  <2>2. QED
    BY <1>1, <2>1
<1>3. ~\E t \in Names : EditRow(t)
  BY DEF EditRow
<1>4. ~FillCreate
  BY DEF FillCreate
<1>5. ~SwitchTab
  <2>1. ASSUME SwitchTab
        PROVE  calls'[c].at = calls[c].at
    <3>1. calls[c] \in CallType
      BY <1>1
    <3>2. [calls[c] EXCEPT !.mounted = FALSE].at = calls[c].at
      BY <3>1 DEF CallType
    <3>3. calls'[c] = calls[c] \/ calls'[c] = [calls[c] EXCEPT !.mounted = FALSE]
      BY <2>1 DEF SwitchTab
    <3>4. QED
      BY <3>2, <3>3
  <2>2. QED
    BY <2>1
<1>6. ~UNCHANGED consoleVars
  BY DEF consoleVars
<1>7. CallMoves(c)
  BY <1>2, <1>3, <1>4, <1>5, <1>6, NextCases
<1>8. ~(Change(c) \/ Write(c) \/ Answer(c) \/ Lose(c))
  BY <1>1 DEF Change, Write, Applied, Refused, Answer, Lose, CallType
<1>9. ASSUME NEW do, NEW t, NEW v
      PROVE  ~BeginCall(c, do, t, v)
  BY DEF BeginCall, FreeSlot
<1>10. QED
  BY <1>7, <1>8, <1>9
     DEF CallMoves, Server, Tick, ToggleEngine, UpdateTool, CreateTool, ToggleTool, DeleteTool

LEMMA OwnChangeStep ==
  ASSUME PageInv, [ConsoleNext]_consoleVars, NEW c \in Calls
  PROVE  EndShown(c)
<1> USE DEF PageInv
<1> SUFFICES ASSUME calls[c].applied, calls[c].mounted,
                    calls[c].at # "none", calls'[c].at = "none",
                    ~(calls[c].at = "changed" /\ calls[c].answer = FALSE),
                    ~(calls[c].at = "told" /\ calls[c].answer = Nothing)
             PROVE  IF Part(calls[c]) = "engine"
                      THEN status'.epoch >= calls[c].since
                      ELSE rows' # Nothing /\ rows'.epoch >= calls[c].since
  BY DEF EndShown
<1>1. Goes(c)
  BY EndsByGoing
<1>2. calls[c] \in CallType /\ Sound(calls[c], epoch, tab) /\ calls[c].do \in Changes
  BY DEF CallsSound, Sound
<1>3. ~StatusTold(c) /\ ~Probed(c)
  BY <1>2 DEF StatusTold, Probed, Sound, Changes
<1>4. ~Changed(c)
  <2>1. SUFFICES ASSUME Changed(c) PROVE FALSE
    OBVIOUS
  <2>2. calls[c].at = "changed" /\ calls[c].answer \in BOOLEAN
    BY <1>2, <2>1 DEF Changed, Sound
  <2>3. calls[c].answer = TRUE
    BY <2>2, Zenon
  <2>4. calls'[c] = AfterChange(c)
    BY <2>1, <2>3 DEF Changed, CallsSound
  <2>5. QED
    BY <1>2, <2>4 DEF AfterChange, CallType
<1> DEFINE a == calls[c].answer
<1>5. calls[c].at = "told" /\ a # Nothing
  BY <1>1, <1>3, <1>4 DEF Goes, ToggleTold, ListTold
<1>6. a \in Told /\ a.epoch >= calls[c].since
  BY <1>2, <1>5 DEF Sound
<1>7. CASE ToggleTold(c)
  <2>1. status' = [status EXCEPT !.engine = a.of, !.epoch = a.epoch]
    BY <1>5, <1>7 DEF ToggleTold, Refreshed
  <2>2. status'.epoch = a.epoch
    BY <2>1 DEF HomeShown
  <2>3. Part(calls[c]) = "engine"
    BY <1>7 DEF ToggleTold, Part
  <2>4. QED
    BY <1>6, <2>2, <2>3
<1>8. CASE ListTold(c)
  <2>1. rows' = a
    BY <1>5, <1>8 DEF ListTold, ListAfter
  <2>2. Part(calls[c]) = "tools"
    BY <1>8 DEF ListTold, Part
  <2>3. QED
    BY <1>5, <1>6, <2>1, <2>2
<1>9. QED
  BY <1>1, <1>3, <1>4, <1>7, <1>8 DEF Goes

\* A change that the server made is shown when its callback ends, however the
\* requests of other callbacks overtake it, unless its refresh failed or its tab is
\* gone (page.tsx, handleToggleTool and its siblings, handleToggleContextEngine).
THEOREM OwnChangeAlwaysShown == ConsoleSpec => OwnChangeShown
<1>1. PageInv /\ [ConsoleNext]_consoleVars => [\A c \in Calls : EndShown(c)]_consoleVars
  BY OwnChangeStep
<1>2. ConsoleSpec => [][\A c \in Calls : EndShown(c)]_consoleVars
  BY <1>1, PageInvAlways, PTL DEF ConsoleSpec
<1>3. QED
  BY <1>2 DEF OwnChangeShown, EndShown

-----------------------------------------------------------------------------
(* TestBench: the counter that wraps.                                      *)

LEMMA CounterUp ==
  ASSUME NEW W \in Nat \ {0}, NEW x \in 0..(W - 1)
  PROVE  (x + 1) % W = IF x + 1 < W THEN x + 1 ELSE 0
OBVIOUS

LEMMA CounterDown ==
  ASSUME NEW W \in Nat \ {0}, NEW x \in 0..(W - 1)
  PROVE  (x + W - 1) % W = IF x = 0 THEN W - 1 ELSE x - 1
OBVIOUS

LEMMA CounterOnce ==
  ASSUME NEW W \in Nat \ {0}, NEW x \in 0..(W - 1), NEW d \in 0..(W - 1),
         NEW n \in Int, x = d + n * W
  PROVE  x = d
OBVIOUS

LEMMA CounterShift ==
  ASSUME NEW W \in Nat \ {0}, NEW d \in Int, NEW n \in Int, NEW x \in Int, x = d + n * W
  PROVE  /\ x + 1 = (d + 1) + n * W
         /\ x + 1 - W = (d + 1) + (n - 1) * W
         /\ x - 1 = (d - 1) + n * W
         /\ x - 1 + W = (d - 1) + (n + 1) * W
OBVIOUS

-----------------------------------------------------------------------------
(* TestBench: the inductive invariant.                                     *)

Test == [kind : Kinds \cup {"none"}, target : Targets \cup {None}, step : 0..3,
         built : BOOLEAN, mounted : BOOLEAN]

Shape ==
  /\ busy \in [Kinds -> Targets \cup {None}]
  /\ verdict \in [Kinds -> Verdicts \cup {None}]
  /\ tests \in [Slots -> Test]
  /\ begun \subseteq Kinds

\* What is under way is a test of its kind that has not had its last answer.
UnderWay ==
  \A s \in Slots :
    \/ tests[s] = Idle
    \/ /\ tests[s].kind \in Kinds /\ tests[s].target \in Targets
       /\ tests[s].step \in 1..Steps(tests[s].kind)

\* An execution under way keeps its page's button disabled, so it is alone.
Alone ==
  \A k \in Kinds \ Rows :
    /\ \A s, r \in Running(k) : s = r
    /\ Running(k) # {} => busy[k] # None

\* The counter is that of the connections up to what has wrapped around.
Counting ==
  /\ links \in 0..(Width - 1)
  /\ linked \in [made : Nat, closed : Nat]
  /\ \E n \in Int : links = (linked.made - linked.closed) + n * Width

Showing  == Shape /\ UnderWay /\ Alone /\ BusyIsRunning /\ EndsWithVerdict
BenchInv == Showing /\ Counting

LEMMA IdleType == Idle \in Test /\ Idle.kind = "none" /\ Idle.mounted = FALSE
BY DEF Idle, Test

LEMMA InvImplies == BenchInv => BenchConsistent
<1> SUFFICES ASSUME BenchInv PROVE BenchConsistent
  OBVIOUS
<1>1. TypeOK
  <2>1. \A s \in Slots : tests[s].built \in BOOLEAN
    BY DEF BenchInv, Counting, Showing, Shape, Test
  <2>2. \A k \in Kinds : 1..Steps(k) \subseteq 1..3
    BY DEF Steps
  <2>3. QED
    BY <2>1, <2>2 DEF BenchInv, Counting, Showing, Shape, UnderWay, TypeOK
<1>2. OneExecution
  <2>1. ASSUME NEW k \in Kinds \ Rows
        PROVE  Cardinality(Running(k)) <= 1
    <3>1. CASE Running(k) = {}
      BY <3>1, FS_EmptySet
    <3>2. ASSUME NEW s \in Running(k)
          PROVE  Cardinality(Running(k)) <= 1
      <4>1. Running(k) = {s}
        BY DEF BenchInv, Showing, Alone
      <4>2. QED
        BY <4>1, FS_Singleton
    <3>3. QED
      BY <3>1, <3>2
  <2>2. QED
    BY <2>1 DEF OneExecution
<1>3. LinksAreConnections
  <2>1. ASSUME linked.closed <= linked.made, linked.made < Width
        PROVE  links = linked.made - linked.closed
    <3>1. PICK n \in Int : links = (linked.made - linked.closed) + n * Width
      BY DEF BenchInv, Counting
    <3>2. (linked.made - linked.closed) \in 0..(Width - 1)
      BY <2>1, BoundsAssumption DEF BenchInv, Counting, Showing, Shape
    <3>3. QED
      BY <3>1, <3>2, CounterOnce, BoundsAssumption DEF BenchInv, Counting, Showing, Shape
  <2>2. QED
    BY <2>1 DEF LinksAreConnections
<1>4. QED
  BY <1>1, <1>2, <1>3 DEF BenchInv, Showing, BenchConsistent

LEMMA BenchInit == Init => BenchInv
<1> SUFFICES ASSUME Init PROVE BenchInv
  OBVIOUS
<1>1. Shape
  BY IdleType, BoundsAssumption DEF Init, Shape
<1>2. \A k \in Kinds : Running(k) = {}
  BY IdleType DEF Init, Running, Kinds
<1>3. Counting
  <2>1. links = (linked.made - linked.closed) + 0 * Width
    BY BoundsAssumption DEF Init
  <2>2. QED
    BY <2>1, BoundsAssumption DEF Init, Counting
<1>4. QED
  BY <1>1, <1>2, <1>3 DEF Init, BenchInv, Showing, UnderWay, Alone, BusyIsRunning, EndsWithVerdict

-----------------------------------------------------------------------------
(* The steps of the counter.                                               *)

LEMMA Connected ==
  ASSUME Counting, links' = (links + 1) % Width,
         linked' = [linked EXCEPT !.made = @ + 1]
  PROVE  Counting'
<1>1. PICK n \in Int : links = (linked.made - linked.closed) + n * Width
  BY DEF Counting
<1>2. /\ Width \in Nat \ {0} /\ links \in 0..(Width - 1)
      /\ linked.made \in Nat /\ linked.closed \in Nat
  BY BoundsAssumption DEF Counting
<1>3. links' = IF links + 1 < Width THEN links + 1 ELSE links + 1 - Width
  BY <1>2, CounterUp
<1>4. /\ linked' \in [made : Nat, closed : Nat]
      /\ linked'.made = linked.made + 1 /\ linked'.closed = linked.closed
  BY DEF Counting
<1>5. \/ links' = (linked.made - linked.closed + 1) + n * Width
      \/ links' = (linked.made - linked.closed + 1) + (n - 1) * Width
  BY <1>1, <1>2, <1>3, CounterShift
<1>6. links' \in 0..(Width - 1)
  BY <1>2, <1>3
<1>7. n - 1 \in Int /\ (linked'.made - linked'.closed) = (linked.made - linked.closed + 1)
  BY <1>2, <1>4
<1>8. QED
  BY <1>4, <1>5, <1>6, <1>7 DEF Counting

LEMMA Disconnected ==
  ASSUME Counting, links' = (links + Width - 1) % Width,
         linked' = [linked EXCEPT !.closed = @ + 1]
  PROVE  Counting'
<1>1. PICK n \in Int : links = (linked.made - linked.closed) + n * Width
  BY DEF Counting
<1>2. /\ Width \in Nat \ {0} /\ links \in 0..(Width - 1)
      /\ linked.made \in Nat /\ linked.closed \in Nat
  BY BoundsAssumption DEF Counting
<1>3. links' = IF links = 0 THEN links - 1 + Width ELSE links - 1
  BY <1>2, CounterDown
<1>4. /\ linked' \in [made : Nat, closed : Nat]
      /\ linked'.made = linked.made /\ linked'.closed = linked.closed + 1
  BY DEF Counting
<1>5. \/ links' = (linked.made - linked.closed - 1) + n * Width
      \/ links' = (linked.made - linked.closed - 1) + (n + 1) * Width
  BY <1>1, <1>2, <1>3, CounterShift
<1>6. links' \in 0..(Width - 1)
  BY <1>2, <1>3
<1>7. n + 1 \in Int /\ (linked'.made - linked'.closed) = (linked.made - linked.closed - 1)
  BY <1>2, <1>4
<1>8. QED
  BY <1>4, <1>5, <1>6, <1>7 DEF Counting

LEMMA CountingStep == Counting /\ [Next]_vars => Counting'
<1> SUFFICES ASSUME Counting, [Next]_vars PROVE Counting'
  OBVIOUS
<1>1. ASSUME NEW s \in Slots, Reply(s)
      PROVE  Counting'
  <2>1. PICK reply :
          /\ links' = LinksAfter(tests[s], reply)
          /\ linked' = [linked EXCEPT
                          !.made = IF Connects(tests[s], reply) THEN @ + 1 ELSE @]
    BY <1>1 DEF Reply
  <2>2. CASE Connects(tests[s], reply)
    BY <2>1, <2>2, Connected DEF LinksAfter
  <2>3. CASE ~Connects(tests[s], reply)
    <3>1. linked' = linked /\ links' = links
      BY <2>1, <2>3 DEF LinksAfter, Counting
    <3>2. QED
      BY <3>1 DEF Counting
  <2>4. QED
    BY <2>2, <2>3
<1>2. ASSUME NEW s \in Slots, ConnectedLost(s)
      PROVE  Counting'
  BY <1>2, Connected DEF ConnectedLost
<1>3. CASE Disconnect
  BY <1>3, Disconnected DEF Disconnect
<1>4. CASE UNCHANGED <<links, linked>>
  BY <1>4 DEF Counting
<1>5. QED
  <2>1. ASSUME NEW s, NEW k, NEW t, Begin(s, k, t) \/ BadInput(t) \/ Leave(k)
        PROVE  UNCHANGED <<links, linked>>
    BY <2>1 DEF Begin, BadInput, Leave
  <2>2. QED
    BY <1>1, <1>2, <1>3, <1>4, <2>1 DEF Next, vars

-----------------------------------------------------------------------------
(* The steps of the pages.                                                 *)

LEMMA BeginShowing ==
  ASSUME Showing, NEW s \in Slots, NEW k \in Kinds, NEW t \in Targets, Begin(s, k, t)
  PROVE  Showing'
<1> DEFINE new == [kind |-> k, target |-> t, step |-> 1, built |-> TRUE, mounted |-> TRUE]
<1>1. /\ tests[s] = Idle /\ ~Disabled(k, t)
      /\ tests' = [tests EXCEPT ![s] = new]
      /\ busy' = [busy EXCEPT ![k] = t] /\ verdict' = [verdict EXCEPT ![k] = None]
      /\ begun' = begun \cup {k}
  BY DEF Begin, Free
<1>2. new \in Test
  BY DEF Test
<1>3. Shape'
  BY <1>1, <1>2 DEF Showing, Shape
<1>4. tests'[s] = new /\ \A r \in Slots \ {s} : tests'[r] = tests[r]
  BY <1>1 DEF Showing, Shape
<1>5. UnderWay'
  BY <1>4 DEF Showing, UnderWay, Steps
<1>6. s \notin Running(k) /\ \A j \in Kinds : s \notin Running(j)
  BY <1>1, IdleType DEF Running, Kinds
<1>7. \A j \in Kinds : Running(j)' = IF j = k THEN Running(j) \cup {s} ELSE Running(j)
  BY <1>4, <1>6 DEF Running
<1>8. busy'[k] = t /\ \A j \in Kinds \ {k} : busy'[j] = busy[j] /\ verdict'[j] = verdict[j]
  BY <1>1 DEF Showing, Shape
<1>9. Alone'
  <2>1. k \notin Rows => Running(k) = {}
    BY <1>1 DEF Disabled, Showing, Alone
  <2>2. t # None
    BY NoneAssumption
  <2>3. QED
    BY <1>7, <1>8, <2>1, <2>2 DEF Showing, Alone
<1>10. BusyIsRunning'
  <2>1. ASSUME NEW j \in Kinds, busy'[j] # None
        PROVE  \E r \in Running(j)' : tests'[r].target = busy'[j]
    <3>1. CASE j = k
      BY <1>4, <1>7, <1>8, <3>1
    <3>2. CASE j # k
      <4>1. PICK r \in Running(j) : tests[r].target = busy[j]
        BY <1>8, <2>1, <3>2 DEF Showing, BusyIsRunning
      <4>2. r \in Running(j)' /\ tests'[r] = tests[r]
        BY <1>4, <1>6, <1>7, <3>2, <4>1 DEF Running
      <4>3. QED
        BY <1>8, <3>2, <4>1, <4>2
    <3>3. QED
      BY <3>1, <3>2
  <2>2. QED
    BY <2>1 DEF BusyIsRunning
<1>11. EndsWithVerdict'
  <2>1. begun \subseteq Kinds /\ s \in Running(k)'
    BY <1>7 DEF Showing, Shape
  <2>2. QED
    BY <1>1, <1>7, <1>8, <2>1 DEF Showing, EndsWithVerdict
<1>12. QED
  BY <1>3, <1>5, <1>9, <1>10, <1>11 DEF Showing

LEMMA BadInputShowing ==
  ASSUME Showing, NEW t \in Targets, BadInput(t)
  PROVE  Showing'
<1> DEFINE v == [target |-> t, success |-> FALSE, shown |-> TRUE]
<1>1. /\ verdict' = [verdict EXCEPT !.lab = v]
      /\ begun' = begun \cup {"lab"}
      /\ UNCHANGED <<busy, tests>>
  BY DEF BadInput
<1>2. v \in Verdicts /\ v.shown /\ "lab" \in Kinds
  BY DEF Verdicts, Kinds
<1>3. Shape'
  BY <1>1, <1>2 DEF Showing, Shape
<1>4. v # None
  BY <1>2, NoneAssumption DEF Verdicts
<1> HIDE DEF v
<1>5. verdict'["lab"] = v /\ \A j \in Kinds \ {"lab"} : verdict'[j] = verdict[j]
  BY <1>1, <1>2, <1>4 DEF Showing, Shape
<1>6. EndsWithVerdict'
  <2>1. begun \subseteq Kinds /\ \A j \in Kinds : Running(j)' = Running(j)
    BY <1>1 DEF Showing, Shape, Running
  <2>2. QED
    BY <1>1, <1>2, <1>4, <1>5, <2>1 DEF Showing, EndsWithVerdict
<1>7. QED
  BY <1>1, <1>3, <1>6 DEF Showing, UnderWay, Alone, BusyIsRunning, Running

LEMMA LeaveShowing ==
  ASSUME Showing, NEW k \in Kinds, Leave(k)
  PROVE  Showing'
<1> DEFINE gone == {j \in Kinds : Tab(j) = Tab(k)}
<1>1. /\ busy' = [j \in Kinds |-> IF j \in gone THEN None ELSE busy[j]]
      /\ verdict' = [j \in Kinds |-> IF j \in gone THEN None ELSE verdict[j]]
      /\ tests' = [s \in Slots |-> IF tests[s].kind \in gone
                                     THEN [tests[s] EXCEPT !.mounted = FALSE] ELSE tests[s]]
      /\ begun' = begun \ gone
  BY DEF Leave
<1>2. \A s \in Slots :
        /\ tests'[s] \in Test
        /\ tests'[s].kind = tests[s].kind /\ tests'[s].target = tests[s].target
        /\ tests'[s].step = tests[s].step
        /\ tests'[s].mounted = (tests[s].mounted /\ tests[s].kind \notin gone)
        /\ tests[s] = Idle => tests'[s] = Idle
  <2>1. \A s \in Slots : tests[s] \in Test
    BY DEF Showing, Shape
  <2>2. \A t \in Test : /\ [t EXCEPT !.mounted = FALSE] \in Test
                        /\ [t EXCEPT !.mounted = FALSE].kind = t.kind
                        /\ [t EXCEPT !.mounted = FALSE].target = t.target
                        /\ [t EXCEPT !.mounted = FALSE].step = t.step
                        /\ [t EXCEPT !.mounted = FALSE].mounted = FALSE
                        /\ t.mounted \in BOOLEAN
    BY DEF Test
  <2>3. "none" \notin gone
    BY DEF Kinds
  <2>4. ASSUME NEW s \in Slots, tests[s].kind \in gone
        PROVE  tests'[s] = [tests[s] EXCEPT !.mounted = FALSE] /\ tests[s] # Idle
    BY <1>1, <2>3, <2>4, IdleType
  <2>5. ASSUME NEW s \in Slots, tests[s].kind \notin gone
        PROVE  tests'[s] = tests[s]
    BY <1>1, <2>5
  <2>6. ASSUME NEW s \in Slots, tests[s].kind \in gone
        PROVE  /\ tests'[s] \in Test
               /\ tests'[s].kind = tests[s].kind /\ tests'[s].target = tests[s].target
               /\ tests'[s].step = tests[s].step
               /\ tests'[s].mounted = FALSE /\ tests[s] # Idle
    <3>1. tests[s] \in Test
      BY <2>1
    <3>2. tests'[s] = [tests[s] EXCEPT !.mounted = FALSE] /\ tests[s] # Idle
      BY <2>4, <2>6
    <3> HIDE DEF gone
    <3>3. QED
      BY <2>2, <3>1, <3>2, Zenon
  <2>7. ASSUME NEW s \in Slots, tests[s].kind \notin gone
        PROVE  tests'[s] = tests[s] /\ tests[s] \in Test /\ tests[s].mounted \in BOOLEAN
    BY <2>1, <2>2, <2>5, <2>7
  <2> HIDE DEF gone
  <2>8. QED
    BY <2>6, <2>7
<1>3. Shape'
  BY <1>1, <1>2 DEF Showing, Shape
<1>4. UnderWay'
  BY <1>2 DEF Showing, UnderWay
<1>5. \A j \in Kinds : Running(j)' = IF j \in gone THEN {} ELSE Running(j)
  <2>1. ASSUME NEW j \in Kinds, NEW s \in Slots
        PROVE  s \in Running(j)' <=> s \in Running(j) /\ j \notin gone
    BY <1>2 DEF Running
  <2>2. \A j \in Kinds : Running(j) \subseteq Slots /\ Running(j)' \subseteq Slots
    BY DEF Running
  <2>3. QED
    BY <2>1, <2>2
<1>6. \A j \in Kinds : j \notin gone => busy'[j] = busy[j] /\ verdict'[j] = verdict[j]
  BY <1>1
<1>7. \A j \in Kinds : j \in gone => busy'[j] = None
  BY <1>1
<1>8. Alone'
  BY <1>5, <1>6 DEF Showing, Alone
<1>9. BusyIsRunning'
  BY <1>2, <1>5, <1>6, <1>7 DEF Showing, BusyIsRunning, Running
<1>10. EndsWithVerdict'
  BY <1>1, <1>5, <1>6 DEF Showing, EndsWithVerdict, Shape
<1>11. QED
  BY <1>3, <1>4, <1>8, <1>9, <1>10 DEF Showing

\* A test ends with its verdict, if its page is still there.
Judged(s, success, shown) ==
  [target |-> tests[s].target, success |-> success, shown |-> shown]
Concludes(s, success, shown) ==
  /\ tests' = [tests EXCEPT ![s] = Idle]
  /\ shown \/ (tests[s].kind = "digest" /\ ~success)
  /\ IF tests[s].mounted
       THEN /\ busy' = [busy EXCEPT ![tests[s].kind] = None]
            /\ verdict' = [verdict EXCEPT ![tests[s].kind] = Judged(s, success, shown)]
       ELSE UNCHANGED <<busy, verdict>>
  /\ UNCHANGED begun

LEMMA ConcludesShowing ==
  ASSUME Showing, NEW s \in Slots, NEW success \in BOOLEAN, NEW shown \in BOOLEAN,
         tests[s] # Idle, Concludes(s, success, shown)
  PROVE  Showing'
<1> DEFINE k == tests[s].kind
           v == Judged(s, success, shown)
<1>1. k \in Kinds /\ tests[s].target \in Targets
  BY DEF Showing, UnderWay
<1>2. /\ v \in Verdicts /\ v # None
      /\ v.shown \/ (k = "digest" /\ ~v.success)
  BY <1>1, NoneAssumption DEF Verdicts, Judged, Concludes
<1>v. tests[s].mounted => verdict' = [verdict EXCEPT ![k] = v]
  BY DEF Concludes
<1> HIDE DEF v
<1>3. tests'[s] = Idle /\ \A r \in Slots \ {s} : tests'[r] = tests[r]
  BY DEF Concludes, Showing, Shape
<1>4. Shape'
  BY <1>1, <1>2, <1>v, IdleType DEF Concludes, Showing, Shape
<1>5. UnderWay'
  BY <1>3 DEF Showing, UnderWay
<1>6. \A j \in Kinds : Running(j)' = Running(j) \ {s}
  BY <1>3, IdleType DEF Running
<1>7. \A j \in Kinds \ {k} : busy'[j] = busy[j] /\ verdict'[j] = verdict[j]
                             /\ Running(j)' = Running(j)
  BY <1>3, <1>6, <1>v DEF Concludes, Showing, Shape, Running
<1>8. CASE tests[s].mounted
  <2>1. busy'[k] = None /\ verdict'[k] = v /\ s \in Running(k)
    BY <1>1, <1>8, <1>v DEF Concludes, Showing, Shape, Running
  <2>2. Alone'
    BY <1>6, <1>7, <2>1 DEF Showing, Alone
  <2>3. BusyIsRunning'
    BY <1>3, <1>7, <2>1 DEF Showing, BusyIsRunning, Running
  <2>4. EndsWithVerdict'
    BY <1>2, <1>7, <2>1 DEF Concludes, Showing, EndsWithVerdict, Shape
  <2>5. QED
    BY <1>4, <1>5, <2>2, <2>3, <2>4 DEF Showing
<1>9. CASE ~tests[s].mounted
  <2>1. \A j \in Kinds : Running(j)' = Running(j) /\ s \notin Running(j)
    BY <1>6, <1>9 DEF Running
  <2>2. UNCHANGED <<busy, verdict, begun>>
    BY <1>9 DEF Concludes
  <2>3. Alone'
    BY <2>1, <2>2 DEF Showing, Alone
  <2>4. BusyIsRunning'
    BY <1>3, <2>1, <2>2 DEF Showing, BusyIsRunning, Running
  <2>5. EndsWithVerdict'
    BY <2>1, <2>2 DEF Showing, EndsWithVerdict, Shape
  <2>6. QED
    BY <1>4, <1>5, <2>3, <2>4, <2>5 DEF Showing
<1>10. QED
  BY <1>8, <1>9

\* A test sends its next request.
LEMMA ProceedsShowing ==
  ASSUME Showing, NEW s \in Slots, tests[s] # Idle, NEW b \in BOOLEAN,
         tests[s].step # Steps(tests[s].kind),
         tests' = [tests EXCEPT ![s] = [tests[s] EXCEPT !.step = @ + 1, !.built = b]],
         UNCHANGED <<busy, verdict, begun>>
  PROVE  Showing'
<1>1. tests[s].kind \in Kinds /\ tests[s].step \in 1..Steps(tests[s].kind)
      /\ tests[s] \in Test /\ Steps(tests[s].kind) \in {1, 3}
  BY DEF Showing, UnderWay, Shape, Steps
<1>2. /\ tests'[s] \in Test
      /\ tests'[s].kind = tests[s].kind /\ tests'[s].target = tests[s].target
      /\ tests'[s].mounted = tests[s].mounted
      /\ tests'[s].step = tests[s].step + 1
      /\ \A r \in Slots \ {s} : tests'[r] = tests[r]
  <2>1. \A u \in Test : u.step + 1 \in 0..3 =>
          LET v == [u EXCEPT !.step = u.step + 1, !.built = b]
          IN  /\ v \in Test /\ v.kind = u.kind /\ v.target = u.target
              /\ v.mounted = u.mounted /\ v.step = u.step + 1
    BY DEF Test
  <2>2. tests[s].step + 1 \in 0..3
    BY <1>1
  <2>3. /\ tests'[s] = [tests[s] EXCEPT !.step = tests[s].step + 1, !.built = b]
        /\ \A r \in Slots \ {s} : tests'[r] = tests[r]
    BY DEF Showing, Shape
  <2>4. QED
    BY <1>1, <2>1, <2>2, <2>3
<1>3. Shape'
  BY <1>2 DEF Showing, Shape
<1>4. UnderWay'
  <2>1. tests'[s].step \in 1..Steps(tests[s].kind)
    BY <1>1, <1>2
  <2>2. QED
    BY <1>1, <1>2, <2>1 DEF Showing, UnderWay
<1>5. \A j \in Kinds : Running(j)' = Running(j)
  BY <1>2 DEF Running
<1>6. \A r \in Slots : tests'[r].target = tests[r].target
  BY <1>2
<1>7. QED
  BY <1>3, <1>4, <1>5, <1>6 DEF Showing, Alone, BusyIsRunning, EndsWithVerdict, Running

\* A reply ends the test or leads to its next request.
LEMMA ReplyCases ==
  ASSUME Showing, NEW s \in Slots, Reply(s)
  PROVE  /\ tests[s] # Idle
         /\ \E reply \in Replies(tests[s]) :
              /\ linked' = [linked EXCEPT
                   !.made = IF Connects(tests[s], reply) THEN @ + 1 ELSE @]
              /\ \/ /\ Fails(tests[s], reply) \/ tests[s].step = Steps(tests[s].kind)
                    /\ \E success \in BOOLEAN, shown \in BOOLEAN :
                         /\ Concludes(s, success, shown)
                         /\ success => ~Fails(tests[s], reply)
                 \/ /\ ~Fails(tests[s], reply) /\ tests[s].step # Steps(tests[s].kind)
                    /\ \E b \in BOOLEAN : tests' =
                         [tests EXCEPT ![s] = [tests[s] EXCEPT !.step = @ + 1, !.built = b]]
                    /\ UNCHANGED <<busy, verdict, begun>>
<1> DEFINE test == tests[s]
<1>1. test # Idle /\ test \in Test /\ test.kind \in Kinds
  BY DEF Reply, Showing, UnderWay, Shape
<1>2. PICK reply \in Replies(test) :
        LET next == After(test, reply)
            good == ~Fails(test, reply)
                    /\ (test.kind = "extension" => test.built /\ reply # "empty")
        IN  /\ tests' = [tests EXCEPT ![s] = next]
            /\ IF next = Idle /\ test.mounted
                 THEN /\ busy' = BusyAfter(test, reply)
                      /\ verdict' = VerdictAfter(test, reply, good)
                 ELSE UNCHANGED <<busy, verdict>>
            /\ linked' = [linked EXCEPT !.made = IF Connects(test, reply) THEN @ + 1 ELSE @]
  BY DEF Reply
<1>3. begun' = begun
  BY DEF Reply
<1> DEFINE good == ~Fails(test, reply)
                   /\ (test.kind = "extension" => test.built /\ reply # "empty")
           b == test.built /\ reply # "empty"
<1>4. CASE Fails(test, reply) \/ test.step = Steps(test.kind)
  <2>1. After(test, reply) = Idle
    BY <1>4 DEF After
  <2> DEFINE shown == Shows(test, reply)
  <2>3. good \in BOOLEAN /\ (good => ~Fails(test, reply)) /\ shown \in BOOLEAN
    BY DEF Shows
  <2>a. shown \/ (test.kind = "digest" /\ ~good)
    BY DEF Shows, Fails, DigestFails
  <2>2. Concludes(s, good, shown)
    BY <1>2, <1>3, <2>1, <2>a DEF Concludes, Judged, BusyAfter, VerdictAfter
  <2>4. QED
    BY <1>1, <1>2, <1>4, <2>2, <2>3
<1>5. CASE ~(Fails(test, reply) \/ test.step = Steps(test.kind))
  <2>1. After(test, reply) = [test EXCEPT !.step = @ + 1, !.built = b]
    BY <1>5 DEF After
  <2>2. After(test, reply).kind = test.kind
    BY <1>1, <2>1 DEF Test
  <2>3. After(test, reply) # Idle
    BY <1>1, <2>2, IdleType DEF Kinds
  <2>4. /\ tests' = [tests EXCEPT ![s] = [tests[s] EXCEPT !.step = @ + 1, !.built = b]]
        /\ UNCHANGED <<busy, verdict, begun>>
    BY <1>2, <1>3, <2>1, <2>3
  <2>5. b \in BOOLEAN
    OBVIOUS
  <2>6. QED
    BY <1>1, <1>2, <1>5, <2>4, <2>5
<1>6. QED
  BY <1>4, <1>5

LEMMA LostConcludes ==
  ASSUME NEW s, ConnectedLost(s)
  PROVE  Concludes(s, FALSE, TRUE)
<1>1. Shows(tests[s], "lost") = TRUE
  BY DEF Shows
<1>2. QED
  BY <1>1 DEF ConnectedLost, Concludes, Judged, BusyAfter, VerdictAfter

LEMMA ShowingStep == Showing /\ [Next]_vars => Showing'
<1> SUFFICES ASSUME Showing, [Next]_vars PROVE Showing'
  OBVIOUS
<1>1. ASSUME NEW s \in Slots, Reply(s)
      PROVE  Showing'
  <2>1. PICK reply \in Replies(tests[s]) :
          \/ \E success \in BOOLEAN, shown \in BOOLEAN : Concludes(s, success, shown)
          \/ /\ tests[s].step # Steps(tests[s].kind)
             /\ \E b \in BOOLEAN : tests' =
                  [tests EXCEPT ![s] = [tests[s] EXCEPT !.step = @ + 1, !.built = b]]
             /\ UNCHANGED <<busy, verdict, begun>>
    BY <1>1, ReplyCases
  <2>2. tests[s] # Idle
    BY <1>1, ReplyCases
  <2>3. QED
    BY <2>1, <2>2, ConcludesShowing, ProceedsShowing
<1>2. ASSUME NEW s \in Slots, ConnectedLost(s)
      PROVE  Showing'
  <2>1. tests[s] # Idle
    BY <1>2, IdleType DEF ConnectedLost
  <2>2. QED
    BY <1>2, <2>1, LostConcludes, ConcludesShowing
<1>3. Disconnect \/ UNCHANGED vars => Showing'
  BY DEF Disconnect, vars, Showing, Shape, UnderWay, Alone, BusyIsRunning,
     EndsWithVerdict, Running
<1>4. QED
  BY <1>1, <1>2, <1>3, BeginShowing, BadInputShowing, LeaveShowing DEF Next

\* For every number of tests and every width of the counter: marks, verdicts and
\* executions tell what is and was under way, a verdict is shown unless it is the
\* digest page's and its execution failed on the server, and the connector's counter
\* is right until there were more disconnects than connections (page.tsx,
\* test-tools/page.tsx, tools/session-compression/page.tsx, connector_virtual.rs).
THEOREM BenchIsConsistent == Spec => []BenchConsistent
<1>1. BenchInv /\ [Next]_vars => BenchInv'
  BY ShowingStep, CountingStep DEF BenchInv
<1>2. QED
  BY <1>1, BenchInit, InvImplies, PTL DEF Spec

-----------------------------------------------------------------------------
(* Connection tests.                                                       *)

ConnectionVerdict(s) ==
  tests[s].kind = "connection" /\ tests[s].mounted /\ tests'[s] = Idle
    => \/ linked'.made > linked.made /\ tests[s].step = 3
       \/ linked'.made = linked.made /\ ~verdict'["connection"].success

LEMMA ConnectionStep ==
  ASSUME BenchInv, [Next]_vars, NEW s \in Slots
  PROVE  ConnectionVerdict(s)
<1> SUFFICES ASSUME tests[s].kind = "connection", tests[s].mounted, tests'[s] = Idle
             PROVE  \/ linked'.made > linked.made /\ tests[s].step = 3
                    \/ linked'.made = linked.made /\ ~verdict'["connection"].success
  BY DEF ConnectionVerdict
<1>1. /\ tests[s] # Idle /\ "connection" \in Kinds
      /\ tests \in [Slots -> Test] /\ verdict \in [Kinds -> Verdicts \cup {None}]
      /\ linked \in [made : Nat, closed : Nat]
  BY IdleType DEF BenchInv, Showing, Shape, Counting, Kinds
<1>2. ASSUME NEW r \in Slots, NEW success, NEW shown, Concludes(r, success, shown)
      PROVE  /\ r = s
             /\ verdict'["connection"].success = success
  <2>1. r = s
    BY <1>1, <1>2 DEF Concludes
  <2>2. verdict'["connection"] = Judged(s, success, shown)
    BY <1>1, <1>2, <2>1 DEF Concludes
  <2>3. QED
    BY <2>1, <2>2 DEF Judged
<1>3. ASSUME NEW r \in Slots, Reply(r)
      PROVE  \/ linked'.made > linked.made /\ tests[s].step = 3
             \/ linked'.made = linked.made /\ ~verdict'["connection"].success
  <2>1. PICK reply \in Replies(tests[r]) :
          /\ linked' = [linked EXCEPT
               !.made = IF Connects(tests[r], reply) THEN @ + 1 ELSE @]
          /\ \/ /\ Fails(tests[r], reply) \/ tests[r].step = Steps(tests[r].kind)
                /\ \E success \in BOOLEAN, shown \in BOOLEAN :
                     /\ Concludes(r, success, shown)
                     /\ success => ~Fails(tests[r], reply)
             \/ \E b \in BOOLEAN : tests' =
                  [tests EXCEPT ![r] = [tests[r] EXCEPT !.step = @ + 1, !.built = b]]
    BY <1>3, ReplyCases DEF BenchInv
  <2>2. ASSUME NEW b \in BOOLEAN,
               tests' = [tests EXCEPT ![r] = [tests[r] EXCEPT !.step = @ + 1, !.built = b]]
        PROVE  FALSE
    <3>1. \A u \in Test : [u EXCEPT !.step = @ + 1, !.built = b].kind = u.kind
      BY DEF Test
    <3>2. tests[r] \in Test /\ tests[s] \in Test /\ tests \in [Slots -> Test]
      BY <1>1 DEF BenchInv, Showing, TypeOK
    <3>3. CASE r = s
      <4>1. tests'[s] = [tests[s] EXCEPT !.step = @ + 1, !.built = b]
        BY <2>2, <3>2, <3>3
      <4>2. tests'[s].kind = tests[s].kind
        BY <3>1, <3>2, <4>1
      <4>3. QED
        BY <1>1, <4>2, IdleType
    <3>4. CASE r # s
      BY <1>1, <2>2, <3>2, <3>4, IdleType
    <3>5. QED
      BY <3>3, <3>4
  <2>3. PICK success \in BOOLEAN, shown \in BOOLEAN :
          /\ Concludes(r, success, shown)
          /\ success => ~Fails(tests[r], reply)
          /\ Fails(tests[r], reply) \/ tests[r].step = Steps(tests[r].kind)
    BY <2>1, <2>2
  <2>4. r = s /\ verdict'["connection"].success = success
    BY <1>2, <2>3
  <2>5. Fails(tests[s], reply) <=> reply # "read"
    BY DEF Fails, ConnectionFails
  <2>6. Steps(tests[s].kind) = 3
    BY DEF Steps
  <2>7. linked'.made = IF Connects(tests[s], reply) THEN linked.made + 1 ELSE linked.made
    BY <1>1, <2>1, <2>4
  <2>8. CASE reply = "read"
    BY <1>1, <2>3, <2>4, <2>5, <2>6, <2>7, <2>8 DEF Connects
  <2>9. CASE reply # "read"
    <3>1. ~success
      BY <2>3, <2>4, <2>5, <2>9
    <3>2. ~Connects(tests[s], reply)
      <4>1. tests[s].step # 1 /\ tests[s].step # 2
              => Replies(tests[s]) = {"read", "lost"}
        BY <1>1 DEF Replies
      <4>2. QED
        BY <2>4, <2>9, <4>1 DEF Connects
    <3>3. QED
      BY <2>4, <2>7, <3>1, <3>2
  <2>10. QED
    BY <2>8, <2>9
<1>4. ASSUME NEW r \in Slots, ConnectedLost(r)
      PROVE  linked'.made > linked.made /\ tests[s].step = 3
  <2>1. r = s
    BY <1>2, <1>4, LostConcludes
  <2>2. QED
    BY <1>1, <1>4, <2>1 DEF ConnectedLost
<1>5. ASSUME NEW r \in Slots, NEW k \in Kinds, NEW t \in Targets, Begin(r, k, t)
      PROVE  FALSE
  <2>1. r # s
    BY <1>1, <1>5 DEF Begin, Free
  <2>2. QED
    BY <1>1, <1>5, <2>1 DEF Begin
<1>6. ASSUME NEW k \in Kinds, Leave(k)
      PROVE  FALSE
  <2>1. tests'[s].kind = tests[s].kind
    BY <1>1, <1>6 DEF Leave, Test
  <2>2. QED
    BY <2>1, IdleType
<1>7. ~((\E t \in Targets : BadInput(t)) \/ Disconnect \/ UNCHANGED vars)
  BY <1>1 DEF BadInput, Disconnect, vars
<1>8. QED
  BY <1>3, <1>4, <1>5, <1>6, <1>7 DEF Next

\* A connection test reports success only of a connection that was made, and one
\* that fails before its last request makes none (page.tsx handleTestConnection).
THEOREM VerdictsAreConnections == Spec => VerdictIsConnection
<1>1. BenchInv /\ [Next]_vars => [\A s \in Slots : ConnectionVerdict(s)]_vars
  BY ConnectionStep
<1>2. BenchInv /\ [Next]_vars => BenchInv'
  BY ShowingStep, CountingStep DEF BenchInv
<1>3. QED
  BY <1>1, <1>2, BenchInit, PTL DEF Spec, VerdictIsConnection, ConnectionVerdict

=============================================================================
