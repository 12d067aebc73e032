------------------------------ MODULE AdminForms ------------------------------
(***************************************************************************)
(* The forms of the admin UI that edit a document the server keeps in a    *)
(* file and in memory: the policies (admin-web policies/page.tsx against   *)
(* main.rs and policies.rs) and the server's port (settings/page.tsx and   *)
(* the SettingsTab of page.tsx against settings.rs).  A page is one React  *)
(* component: an action is one callback of it.  The server's handlers run  *)
(* on several threads; std::fs::write truncates the file and then writes.  *)
(***************************************************************************)
EXTENDS Integers, FiniteSets

CONSTANTS
  Pages,       \* open pages
  Forms,       \* which forms they may be: functions from Pages to Form
  Entries,     \* a policies document is a set of entries
  ValidPorts,  \* 1024 to 65535
  DefaultPort, \* what the settings page shows until it is told
  LowPort,     \* a number outside the range, which the server ignores
  NoPort,      \* what is no number: an emptied field, sent as null
  Nothing,     \* "no document yet"
  Empty,       \* a truncated file
  Garbled,     \* a file that two handlers wrote at once
  Files,       \* what the files may hold at the start
  MaxEdits,    \* bound on the edits
  MaxSaves,    \* bound on the saves begun
  MaxMishaps   \* bound on crashes and write errors

Form  == {"policies", "settings", "tab"}
Kinds == {"policies", "port"}
Ports == ValidPorts \cup {LowPort, NoPort}

ASSUME FormsAssumption == Forms \subseteq [Pages -> Form] /\ Forms # {}
ASSUME PortsAssumption ==
  {LowPort, NoPort} \cap ValidPorts = {} /\ DefaultPort \in ValidPorts
ASSUME FilesAssumption == Files \subseteq [policies : SUBSET Entries, port : ValidPorts]
ASSUME BoundsAssumption == {MaxEdits, MaxSaves, MaxMishaps} \subseteq Nat
ASSUME DocumentsAssumption ==
  /\ \A document \in SUBSET Entries : document \notin {LowPort, NoPort, Empty, Garbled}
  /\ ValidPorts \cap {Empty, Garbled} = {}

VARIABLES
  form,     \* which form each page is
  server,   \* "up", "down", or "refused" to start
  file,     \* policies.json and the port in config.json
  memory,   \* what the server holds and answers with
  load,     \* each page's GET: where it is, and its answer
  view,     \* what each page shows: "loading", "failed" or "shown"
  draft,    \* the document as edited on the page
  saving,   \* the page's Save button is disabled
  note,     \* the page's message: "none", "saved" or "error"
  update,   \* each page's POST or PUT: where it is, and its document
  used,     \* edits, used (crashes and write errors) so far
  upset,    \* history: what may part file and memory has happened
  seen      \* history: the entries each page loaded and took away

serverVars == <<server, file, memory>>
pageVars   == <<view, draft, saving, note>>
history    == <<upset, seen>>
vars == <<form, serverVars, load, pageVars, update, used, history>>

Kind(p)  == IF form[p] = "policies" THEN "policies" ELSE "port"
Stages   == {"read", "truncate", "write", "store"}
Answers  == {"ok", "failed", "rejected"}
Begun(d) == [at |-> "sent", doc |-> d, clean |-> TRUE, wrote |-> FALSE]
Idle     == [Begun(Nothing) EXCEPT !.at = "none"]
Readable(k) == file[k] \notin {Empty, Garbled}

TypeOK ==
  /\ form \in Forms
  /\ server \in {"up", "down", "refused"}
  /\ file.policies \in (SUBSET Entries) \cup {Empty, Garbled}
  /\ file.port \in ValidPorts \cup {Empty, Garbled}
  /\ memory.policies \in SUBSET Entries /\ memory.port \in ValidPorts
  /\ \A p \in Pages :
       /\ load[p].at \in {"none", "asked"} \cup Answers
       /\ view[p] \in {"loading", "failed", "shown"}
       /\ saving[p] \in BOOLEAN
       /\ note[p] \in {"none", "saved", "error"}
       /\ update[p].at \in {"none", "sent"} \cup Stages \cup Answers
       /\ form[p] = "policies" => draft[p] \in (SUBSET Entries) \cup {Nothing}
       /\ form[p] # "policies" => draft[p] \in Ports \cup {Nothing}
       /\ update[p].at # "none" => saving[p] /\ update[p].doc # Nothing
  /\ used \in [edits : 0..MaxEdits, saves : 0..MaxSaves, mishaps : 0..MaxMishaps]

Init ==
  /\ form \in Forms
  /\ server = "up"
  /\ file \in Files
  /\ memory = file
  /\ load = [p \in Pages |-> [at |-> "asked", doc |-> Nothing]]
  /\ view = [p \in Pages |-> IF form[p] = "settings" THEN "shown" ELSE "loading"]
  /\ draft = [p \in Pages |-> IF form[p] = "settings" THEN DefaultPort ELSE Nothing]
  /\ saving = [p \in Pages |-> FALSE]
  /\ note = [p \in Pages |-> "none"]
  /\ update = [p \in Pages |-> Idle]
  /\ used = [edits |-> 0, saves |-> 0, mishaps |-> 0]
  /\ upset = [k \in Kinds |-> FALSE]
  /\ seen = [p \in Pages |-> [loaded |-> {}, removed |-> {}]]

-----------------------------------------------------------------------------
(* The pages.                                                              *)

\* get_policies, get_server_settings.
AnswerLoad(p) ==
  /\ server = "up"
  /\ load[p].at = "asked"
  /\ load' = [load EXCEPT ![p] = [at |-> "ok", doc |-> memory[Kind(p)]]]
  /\ UNCHANGED <<form, serverVars, pageVars, update, used, history>>

\* fetchPolicies: a failure is an error.
LoadedPolicies(p) ==
  /\ form[p] = "policies"
  /\ IF load[p].at = "ok"
       THEN /\ draft' = [draft EXCEPT ![p] = load[p].doc]
            /\ view' = [view EXCEPT ![p] = "shown"]
            /\ seen' = [seen EXCEPT ![p].loaded = load[p].doc]
            /\ UNCHANGED note
       ELSE /\ view' = [view EXCEPT ![p] = "failed"]
            /\ note' = [note EXCEPT ![p] = "error"]
            /\ UNCHANGED <<draft, seen>>

\* The settings page and the settings tab: the answer is set, on the page
\* whatever was typed meanwhile, and a failure is silent.
LoadedPort(p) ==
  /\ form[p] # "policies"
  /\ draft' = IF load[p].at = "ok" THEN [draft EXCEPT ![p] = load[p].doc] ELSE draft
  /\ view' = [view EXCEPT ![p] = "shown"]
  /\ UNCHANGED <<note, seen>>

Loaded(p) ==
  /\ load[p].at \in {"ok", "rejected"}
  /\ load' = [load EXCEPT ![p] = [at |-> "none", doc |-> Nothing]]
  /\ LoadedPolicies(p) \/ LoadedPort(p)
  /\ UNCHANGED <<form, serverVars, saving, update, used, upset>>

\* The fields are there; the policies page has none without a document.
Editable(p) == view[p] = "shown"

\* Mutant: what is added replaces the others.
EditAlone(p, e) ==
  /\ form[p] = "policies"
  /\ Editable(p) /\ draft[p] # Nothing
  /\ used.edits < MaxEdits
  /\ used' = [used EXCEPT !.edits = @ + 1]
  /\ draft' = [draft EXCEPT ![p] = IF e \in @ THEN @ \ {e} ELSE {e}]
  /\ seen' = [seen EXCEPT ![p].removed = IF e \in draft[p] THEN @ \cup {e} ELSE @]
  /\ UNCHANGED <<form, serverVars, load, view, saving, note, update, upset>>

\* addRole, removeRole, addUser, removeUser, addAllowPath, removeAllowPath.
EditPolicies(p, e) ==
  /\ form[p] = "policies"
  /\ Editable(p) /\ draft[p] # Nothing
  /\ used.edits < MaxEdits
  /\ used' = [used EXCEPT !.edits = @ + 1]
  /\ draft' = [draft EXCEPT ![p] = IF e \in @ THEN @ \ {e} ELSE @ \cup {e}]
  /\ seen' = [seen EXCEPT ![p].removed = IF e \in draft[p] THEN @ \cup {e} ELSE @]
  /\ UNCHANGED <<form, serverVars, load, view, saving, note, update, upset>>

\* The settings page reads an emptied field as 0, the settings tab as no number.
EditPort(p, port) ==
  /\ form[p] # "policies"
  /\ form[p] = "settings" => port # NoPort
  /\ Editable(p)
  /\ used.edits < MaxEdits
  /\ used' = [used EXCEPT !.edits = @ + 1]
  /\ draft' = [draft EXCEPT ![p] = port]
  /\ UNCHANGED <<form, serverVars, load, view, saving, note, update, history>>

\* The settings page compares the number with the range; the other two send
\* whatever they have.
Sends(p) == draft[p] # Nothing /\ ~(form[p] = "settings" /\ draft[p] = LowPort)

Save(p) ==
  /\ ~saving[p]
  /\ Editable(p)
  /\ draft[p] # Nothing
  /\ IF Sends(p)
       THEN /\ used.saves < MaxSaves
            /\ used' = [used EXCEPT !.saves = @ + 1]
            /\ saving' = [saving EXCEPT ![p] = TRUE]
            /\ note' = [note EXCEPT ![p] = "none"]
            /\ update' = [update EXCEPT ![p] = Begun(draft[p])]
       ELSE /\ note' = [note EXCEPT ![p] = "error"]
            /\ UNCHANGED <<used, saving, update>>
  /\ UNCHANGED <<form, serverVars, load, view, draft, history>>

\* Mutant: a save that fails leaves the button as it is, as on the settings
\* page.
SavedUncaught(p) ==
  /\ update[p].at \in Answers
  /\ update' = [update EXCEPT ![p] = Idle]
  /\ IF update[p].at = "ok"
       THEN /\ saving' = [saving EXCEPT ![p] = FALSE]
            /\ note' = [note EXCEPT ![p] = "saved"]
       ELSE UNCHANGED <<saving, note>>
  /\ UNCHANGED <<form, serverVars, load, view, draft, used, history>>

\* Any 2xx answer is "saved".  The settings page does not catch a rejected
\* fetch: its button stays disabled.
Saved(p) ==
  /\ update[p].at \in Answers
  /\ update' = [update EXCEPT ![p] = Idle]
  /\ IF form[p] = "settings" /\ update[p].at = "rejected"
       THEN UNCHANGED <<saving, note>>
       ELSE /\ saving' = [saving EXCEPT ![p] = FALSE]
            /\ note' = [note EXCEPT ![p] =
                          IF update[p].at = "ok" THEN "saved" ELSE "error"]
  /\ UNCHANGED <<form, serverVars, load, view, draft, used, history>>

\* A timer of this or an earlier success of the policies page runs out.
HideSuccess(p) ==
  /\ form[p] = "policies" /\ note[p] = "saved"
  /\ note' = [note EXCEPT ![p] = "none"]
  /\ UNCHANGED <<form, serverVars, load, view, draft, saving, update, used, history>>

\* fetch rejects: there is no server.
Reject(p) ==
  /\ server # "up"
  /\ \/ /\ load[p].at = "asked"
        /\ load' = [load EXCEPT ![p].at = "rejected"]
        /\ UNCHANGED update
     \/ /\ update[p].at = "sent"
        /\ update' = [update EXCEPT ![p].at = "rejected"]
        /\ UNCHANGED load
  /\ UNCHANGED <<form, serverVars, pageVars, used, history>>

-----------------------------------------------------------------------------
(* The server.                                                             *)

Working(k) == {q \in Pages : Kind(q) = k /\ update[q].at \in Stages}

\* Mutant: the range of the port is left to the page.
FirstStageUnchecked(p) ==
  IF update[p].doc = NoPort THEN "failed"
  ELSE IF Kind(p) = "port" THEN "read" ELSE "truncate"

\* A null port is no body (422); a port out of range is answered with the old
\* one (200).
FirstStage(p) ==
  IF update[p].doc = NoPort THEN "failed"
  ELSE IF update[p].doc = LowPort THEN "ok"
  ELSE IF Kind(p) = "port" THEN "read" ELSE "truncate"

\* The handler starts.
Receive(p) ==
  /\ server = "up"
  /\ update[p].at = "sent"
  /\ LET others  == Working(Kind(p))
         next    == FirstStage(p)
         overlap == others # {} /\ next \in Stages
     IN /\ update' = [q \in Pages |->
             IF q = p THEN [update[p] EXCEPT !.at = next, !.clean = ~overlap]
             ELSE [update[q] EXCEPT !.clean = @ /\ ~(overlap /\ q \in others)]]
        /\ upset' = [upset EXCEPT ![Kind(p)] = @ \/ overlap]
  /\ UNCHANGED <<form, serverVars, load, pageVars, used, seen>>

\* read_to_string, from_str: a configuration that cannot be read is left as
\* it is, and the handler goes on.
ReadConfig(p) ==
  /\ update[p].at = "read"
  /\ update' = [update EXCEPT ![p].at = IF Readable("port") THEN "truncate" ELSE "store",
                              ![p].clean = @ /\ Readable("port")]
  /\ upset' = [upset EXCEPT !.port = @ \/ ~Readable("port")]
  /\ UNCHANGED <<form, serverVars, load, pageVars, used, seen>>

\* Mutant: the policies are stored although they could not be written.
AfterErrorStores(p) == "store"

\* A write error ends the update of the policies, and not that of the port.
AfterError(p) == IF Kind(p) = "policies" THEN "failed" ELSE "store"

WriteError(p) ==
  /\ used.mishaps < MaxMishaps
  /\ used' = [used EXCEPT !.mishaps = @ + 1]
  /\ update' = [update EXCEPT ![p].at = AfterError(p), ![p].clean = FALSE]
  /\ upset' = [upset EXCEPT ![Kind(p)] = TRUE]
  /\ UNCHANGED file

\* fs::write opens the file, which empties it ...
Truncate(p) ==
  /\ update[p].at = "truncate"
  /\ \/ /\ file' = [file EXCEPT ![Kind(p)] = Empty]
        /\ update' = [update EXCEPT ![p].at = "write"]
        /\ UNCHANGED <<used, upset>>
     \/ WriteError(p)
  /\ UNCHANGED <<form, server, memory, load, pageVars, seen>>

\* ... and writes from its own offset 0: of a longer text that another handler
\* has written meanwhile the end remains.
Written(old, doc) == IF old \in {Empty, doc} THEN {doc} ELSE {doc, Garbled}

WriteFile(p) ==
  /\ update[p].at = "write"
  /\ \/ /\ \E text \in Written(file[Kind(p)], update[p].doc) :
             file' = [file EXCEPT ![Kind(p)] = text]
        /\ update' = [update EXCEPT ![p].at = "store", ![p].wrote = TRUE]
        /\ UNCHANGED <<used, upset>>
     \/ WriteError(p)
  /\ UNCHANGED <<form, server, memory, load, pageVars, seen>>

\* Mutant: the memory is left for the next boot to set.
StoreNothing(p) ==
  /\ update[p].at = "store"
  /\ update' = [update EXCEPT ![p].at = "ok"]
  /\ upset' = [upset EXCEPT ![Kind(p)] = @ /\ ~update[p].clean]
  /\ UNCHANGED <<form, serverVars, load, pageVars, used, seen>>

Store(p) ==
  /\ update[p].at = "store"
  /\ memory' = [memory EXCEPT ![Kind(p)] = update[p].doc]
  /\ update' = [update EXCEPT ![p].at = "ok"]
  /\ upset' = [upset EXCEPT ![Kind(p)] = @ /\ ~update[p].clean]
  /\ UNCHANGED <<form, server, file, load, pageVars, used, seen>>

\* The process is killed: the fetches of the requests it had reject.
Crash ==
  /\ server = "up" /\ used.mishaps < MaxMishaps
  /\ used' = [used EXCEPT !.mishaps = @ + 1]
  /\ server' = "down"
  /\ upset' = [k \in Kinds |-> upset[k] \/ \E p \in Working(k) : update[p].at = "write"]
  /\ update' = [p \in Pages |-> IF update[p].at \in Stages
                   THEN [update[p] EXCEPT !.at = "rejected"] ELSE update[p]]
  /\ UNCHANGED <<form, file, memory, load, pageVars, seen>>

\* Mutant: policies without an entry are refused, as a configuration without
\* transports is.
BootStrict ==
  /\ server = "down"
  /\ IF (\A k \in Kinds : Readable(k)) /\ file.policies # {}
       THEN /\ server' = "up"
            /\ memory' = file
            /\ upset' = [k \in Kinds |-> FALSE]
       ELSE server' = "refused" /\ UNCHANGED <<memory, upset>>
  /\ UNCHANGED <<form, file, load, pageVars, update, used, seen>>

\* main: ServerConfig::load(..)? and Policies::load(..)? end it on a file that
\* cannot be parsed.
Boot ==
  /\ server = "down"
  /\ IF \A k \in Kinds : Readable(k)
       THEN /\ server' = "up"
            /\ memory' = file
            /\ upset' = [k \in Kinds |-> FALSE]
       ELSE server' = "refused" /\ UNCHANGED <<memory, upset>>
  /\ UNCHANGED <<form, file, load, pageVars, update, used, seen>>

ServerStep(p) ==
  Receive(p) \/ ReadConfig(p) \/ Truncate(p) \/ WriteFile(p) \/ Store(p)
PageStep(p) == AnswerLoad(p) \/ Loaded(p) \/ Saved(p) \/ Reject(p)

Next ==
  \/ \E p \in Pages : ServerStep(p) \/ PageStep(p) \/ Save(p) \/ HideSuccess(p)
  \/ \E p \in Pages, e \in Entries : EditPolicies(p, e)
  \/ \E p \in Pages, port \in Ports : EditPort(p, port)
  \/ Crash \/ Boot

\* The server's tasks run, and fetch settles.
Fairness == \A p \in Pages : WF_vars(ServerStep(p)) /\ WF_vars(PageStep(p))

Spec == Init /\ [][Next]_vars /\ Fairness

-----------------------------------------------------------------------------
(* Properties.                                                             *)

\* While the server runs and nothing is being saved, a document is the same in
\* its file and in memory, unless two saves of it overlapped, a write failed or
\* a crash cut one short; a later save on its own, or a restart, mends that.
\* So a restart serves what was served before (policies.rs load and save).
FileMatchesMemory ==
  \A k \in Kinds : server = "up" /\ Working(k) = {} /\ ~upset[k]
                     => file[k] = memory[k]

\* The server refuses to start only over a file that two overlapping saves, a
\* failed write or a crash in the middle of one left unreadable
\* (main.rs load(..)?).
RefusedOnlyIfUpset == server = "refused" => \E k \in Kinds : upset[k]

\* The documents survive a restart: what parts file and memory, or spoils a file,
\* is one of the mishaps named above and nothing else.
DocumentsDurable == TypeOK /\ FileMatchesMemory /\ RefusedOnlyIfUpset

\* The policies page says "saved" only of a document that reached the file
\* (main.rs update_policies answers 500 otherwise).
SavedWasWritten ==
  [][\A p \in Pages : form[p] = "policies" /\ note'[p] = "saved" /\ note[p] # "saved"
                       => update[p].wrote]_vars

\* While the server runs, an entry of the policies disappears only by the save
\* of a page whose user took it away, or which was loaded before the entry was
\* added: a page that saw it and kept it never loses it.
LostOnlyByStale ==
  [][\A e \in memory.policies \ memory'.policies :
       server = "up" => \E p \in Pages :
                           /\ update'[p] # update[p]
                           /\ e \in seen[p].removed \/ e \notin seen[p].loaded]_vars

\* Save is available again some time after it was clicked, whatever the server
\* does; not on the settings page, where a fetch that rejects is not caught.
SavingEnds ==
  \A p \in Pages : saving[p] /\ form[p] # "settings" ~> ~saving[p]
=============================================================================
