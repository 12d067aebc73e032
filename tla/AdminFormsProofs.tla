--------------------------- MODULE AdminFormsProofs ---------------------------
(***************************************************************************)
(* Proofs about AdminForms, for any number of pages, entries, ports, edits, *)
(* saves, crashes and write errors.                                        *)
(***************************************************************************)
EXTENDS AdminForms, TLAPS

-----------------------------------------------------------------------------
(* The shape of the variables.                                             *)

Documents == (SUBSET Entries) \cup Ports \cup {Nothing}
Contents  == (SUBSET Entries) \cup ValidPorts \cup {Empty, Garbled}

Load   == [at : {"none", "asked"} \cup Answers, doc : Documents]
Update == [at : {"none", "sent"} \cup Stages \cup Answers,
           doc : Documents, clean : BOOLEAN, wrote : BOOLEAN]

Shape ==
  /\ form \in [Pages -> Form]
  /\ file \in [Kinds -> Contents]
  /\ memory \in [Kinds -> Contents]
  /\ load \in [Pages -> Load]
  /\ draft \in [Pages -> Documents]
  /\ view \in [Pages -> {"loading", "failed", "shown"}]
  /\ saving \in [Pages -> BOOLEAN]
  /\ note \in [Pages -> {"none", "saved", "error"}]
  /\ update \in [Pages -> Update]
  /\ upset \in [Kinds -> BOOLEAN]
  /\ seen \in [Pages -> [loaded : SUBSET Entries, removed : SUBSET Entries]]

\* A form has documents of its own kind, and a port out of range gets no
\* further than the first look at it.
OwnKind ==
  \A p \in Pages :
    /\ load[p].at = "ok" =>
         load[p].doc \in IF form[p] = "policies" THEN SUBSET Entries ELSE ValidPorts
    /\ update[p].at # "none" =>
         update[p].doc \in IF form[p] = "policies" THEN SUBSET Entries ELSE Ports
    /\ form[p] # "policies" /\ update[p].at \in Stages => update[p].doc \in ValidPorts
    /\ update[p].at = "read" => form[p] # "policies"

Typed == TypeOK /\ Shape /\ OwnKind

Ats == {"none", "sent"} \cup Stages \cup Answers

LEMMA LoadType ==
  ASSUME NEW l \in [Pages -> Load], NEW p \in Pages
  PROVE  /\ \A a \in {"none", "asked"} \cup Answers, d \in Documents :
              [l EXCEPT ![p] = [at |-> a, doc |-> d]] \in [Pages -> Load]
         /\ [l EXCEPT ![p].at = "rejected"] \in [Pages -> Load]
BY DEF Load, Answers

LEMMA UpdateType ==
  ASSUME NEW u \in [Pages -> Update], NEW p \in Pages, NEW a \in Ats, NEW c \in BOOLEAN
  PROVE  /\ [u EXCEPT ![p].at = a] \in [Pages -> Update]
         /\ [u EXCEPT ![p].at = a, ![p].clean = c] \in [Pages -> Update]
         /\ [u EXCEPT ![p].at = a, ![p].wrote = TRUE] \in [Pages -> Update]
         /\ \A x \in Update : [u EXCEPT ![p] = x] \in [Pages -> Update]
<1>1. u[p] \in Update
  OBVIOUS
<1>2. /\ [u[p] EXCEPT !.at = a] \in Update
      /\ [u[p] EXCEPT !.at = a, !.clean = c] \in Update
      /\ [u[p] EXCEPT !.at = a, !.wrote = TRUE] \in Update
  BY <1>1 DEF Update, Ats
<1>3. QED
  BY <1>2

LEMMA NoDocument == Nothing \in Documents
BY DEF Documents

LEMMA BegunType ==
  ASSUME NEW d \in Documents
  PROVE  Begun(d) \in Update
BY DEF Begun, Update

LEMMA IdleType == Idle \in Update /\ Idle.at = "none"
<1>1. Begun(Nothing) \in Update
  BY NoDocument, BegunType
<1>2. "none" \in Ats
  BY DEF Ats
<1>3. QED
  BY <1>1, <1>2 DEF Idle, Update

LEMMA KindType == \A p \in Pages : Kind(p) \in Kinds
BY DEF Kind, Kinds

LEMMA ShapeInit == Init => Shape
<1> SUFFICES ASSUME Init PROVE Shape
  OBVIOUS
<1>1. form \in [Pages -> Form]
  BY FormsAssumption DEF Init
<1>2. file \in [policies : SUBSET Entries, port : ValidPorts]
  BY FilesAssumption DEF Init
<1>3. file \in [Kinds -> Contents] /\ memory \in [Kinds -> Contents]
  <2>1. file \in [Kinds -> Contents]
    <3>1. file.policies \in Contents /\ file.port \in Contents
      BY <1>2, Zenon DEF Contents
    <3>2. QED
      BY <1>2, <3>1 DEF Kinds
  <2>2. memory = file
    BY DEF Init
  <2>3. QED
    BY <2>1, <2>2
<1>4. Nothing \in Documents /\ DefaultPort \in Documents
  BY PortsAssumption, NoDocument, Zenon DEF Documents, Ports
<1>5. load \in [Pages -> Load]
  <2>1. [at |-> "asked", doc |-> Nothing] \in Load
    BY <1>4 DEF Load
  <2>2. QED
    BY <2>1 DEF Init
<1>6. draft \in [Pages -> Documents]
  BY <1>4 DEF Init
<1>7. update \in [Pages -> Update]
  BY IdleType DEF Init
<1>8. seen \in [Pages -> [loaded : SUBSET Entries, removed : SUBSET Entries]]
  BY DEF Init
<1>9. /\ view \in [Pages -> {"loading", "failed", "shown"}]
      /\ saving \in [Pages -> BOOLEAN]
      /\ note \in [Pages -> {"none", "saved", "error"}]
      /\ upset \in [Kinds -> BOOLEAN]
  BY DEF Init
<1>10. QED
  BY <1>1, <1>3, <1>5, <1>6, <1>7, <1>8, <1>9 DEF Shape

LEMMA TypedInit == Init => Typed
<1> SUFFICES ASSUME Init PROVE Typed
  OBVIOUS
<1>1. Shape
  BY ShapeInit
<1>2. \A p \in Pages : load[p].at = "asked" /\ update[p] = Idle /\ update[p].at = "none"
  BY IdleType DEF Init
<1>3. OwnKind
  BY <1>2 DEF OwnKind, Stages
<1>4. file \in [policies : SUBSET Entries, port : ValidPorts] /\ memory = file
  BY FilesAssumption DEF Init
<1>5. used \in [edits : 0..MaxEdits, saves : 0..MaxSaves, mishaps : 0..MaxMishaps]
  BY BoundsAssumption DEF Init
<1>6. \A p \in Pages :
        /\ form[p] = "policies" => draft[p] \in (SUBSET Entries) \cup {Nothing}
        /\ form[p] # "policies" => draft[p] \in Ports \cup {Nothing}
  <2>1. DefaultPort \in Ports
    BY PortsAssumption DEF Ports
  <2>2. \A p \in Pages : draft[p] = IF form[p] = "settings" THEN DefaultPort ELSE Nothing
    BY DEF Init
  <2>3. QED
    BY <2>1, <2>2, Zenon
<1>7. form \in Forms /\ server = "up"
  BY DEF Init
<1>8. TypeOK
  BY <1>1, <1>2, <1>4, <1>5, <1>6, <1>7 DEF Shape, TypeOK
<1>9. QED
  BY <1>1, <1>3, <1>8 DEF Typed

LEMMA ShapeStep ==
  ASSUME Typed, [Next]_vars
  PROVE  Shape'
<1> USE DEF Typed
<1>1. ASSUME NEW p \in Pages, AnswerLoad(p)
      PROVE  Shape'
  <2>1. memory[Kind(p)] \in Documents
    BY KindType DEF Kind, Kinds, TypeOK, Shape, Contents, Documents, Ports
  <2>2. load' \in [Pages -> Load]
    BY <1>1, <2>1, LoadType DEF AnswerLoad, Shape, Answers
  <2>3. QED
    BY <1>1, <2>2 DEF AnswerLoad, Shape, serverVars, pageVars, history
<1>2. ASSUME NEW p \in Pages, Loaded(p)
      PROVE  Shape'
  <2>1. load' \in [Pages -> Load]
    BY <1>2, LoadType, NoDocument DEF Loaded, Shape
  <2>2. load[p].doc \in Documents
    BY DEF Shape, Load
  <2>3. draft' \in [Pages -> Documents]
    BY <1>2, <2>2 DEF Loaded, LoadedPolicies, LoadedPort, Shape
  <2>4. load[p].at = "ok" /\ form[p] = "policies" => load[p].doc \in SUBSET Entries
    BY DEF OwnKind
  <2>5. seen' \in [Pages -> [loaded : SUBSET Entries, removed : SUBSET Entries]]
    <3>1. CASE seen' = seen
      BY <3>1 DEF Shape
    <3>2. CASE form[p] = "policies" /\ load[p].at = "ok"
      <4>1. seen' = [seen EXCEPT ![p].loaded = load[p].doc] /\ load[p].doc \in SUBSET Entries
        BY <1>2, <2>4, <3>2 DEF Loaded, LoadedPolicies, LoadedPort
      <4>2. [seen[p] EXCEPT !.loaded = load[p].doc]
              \in [loaded : SUBSET Entries, removed : SUBSET Entries]
        BY <4>1 DEF Shape
      <4>3. QED
        BY <4>1, <4>2 DEF Shape
    <3>3. QED
      BY <1>2, <3>1, <3>2 DEF Loaded, LoadedPolicies, LoadedPort
  <2>6. QED
    BY <1>2, <2>1, <2>3, <2>5 DEF Loaded, LoadedPolicies, LoadedPort, Shape, serverVars
<1>3. ASSUME NEW p \in Pages, Saved(p)
      PROVE  Shape'
  <2>1. update' \in [Pages -> Update]
    BY <1>3, IdleType DEF Saved, Shape
  <2>2. QED
    BY <1>3, <2>1 DEF Saved, Shape, serverVars, history
<1>4. ASSUME NEW p \in Pages, Reject(p)
      PROVE  Shape'
  <2>1. load' \in [Pages -> Load]
    <3>1. load \in [Pages -> Load]
      BY DEF Shape
    <3>2. [load EXCEPT ![p].at = "rejected"] \in [Pages -> Load]
      BY <3>1, LoadType
    <3>3. load' = [load EXCEPT ![p].at = "rejected"] \/ load' = load
      BY <1>4 DEF Reject
    <3>4. QED
      BY <3>1, <3>2, <3>3, Zenon
  <2>2. update' \in [Pages -> Update]
    <3>1. update \in [Pages -> Update]
      BY DEF Shape
    <3>2. [update EXCEPT ![p].at = "rejected"] \in [Pages -> Update]
      BY <3>1, UpdateType DEF Ats, Answers
    <3>3. update' = [update EXCEPT ![p].at = "rejected"] \/ update' = update
      BY <1>4 DEF Reject
    <3>4. QED
      BY <3>1, <3>2, <3>3, Zenon
  <2>3. QED
    BY <1>4, <2>1, <2>2 DEF Reject, Shape, serverVars, pageVars, history
<1>5. ASSUME NEW p \in Pages, Save(p)
      PROVE  Shape'
  <2>1. update' \in [Pages -> Update]
    BY <1>5, BegunType DEF Save, Shape
  <2>2. QED
    BY <1>5, <2>1 DEF Save, Shape, serverVars, history
<1>6. ASSUME NEW p \in Pages, HideSuccess(p)
      PROVE  Shape'
  BY <1>6 DEF HideSuccess, Shape, serverVars, history
<1>7. ASSUME NEW p \in Pages, Receive(p)
      PROVE  Shape'
  <2>1. FirstStage(p) \in Ats
    BY DEF FirstStage, Ats, Stages, Answers
  <2>2. update' \in [Pages -> Update]
    <3>1. \A q \in Pages : update[q] \in Update
      BY DEF Shape
    <3>2. \A u \in Update, c \in BOOLEAN :
            /\ [u EXCEPT !.at = FirstStage(p), !.clean = c] \in Update
            /\ [u EXCEPT !.clean = c] \in Update
      BY <2>1 DEF Update, Ats
    <3>3. \A u \in Update, a \in BOOLEAN :
            [u EXCEPT !.clean = @ /\ a] \in Update
      BY DEF Update
    <3>4. QED
      BY <1>7, <3>1, <3>2, <3>3 DEF Receive
  <2>3. upset' \in [Kinds -> BOOLEAN]
    BY <1>7 DEF Receive, Shape
  <2>4. QED
    BY <1>7, <2>2, <2>3 DEF Receive, Shape, serverVars, pageVars
<1>8. ASSUME NEW p \in Pages, ReadConfig(p)
      PROVE  Shape'
  <2>1. update' \in [Pages -> Update]
    <3>1. update' = [update EXCEPT
                       ![p].at = IF Readable("port") THEN "truncate" ELSE "store",
                       ![p].clean = update[p].clean /\ Readable("port")]
      BY <1>8 DEF ReadConfig
    <3>2. (update[p].clean /\ Readable("port")) \in BOOLEAN
      OBVIOUS
    <3>3. (IF Readable("port") THEN "truncate" ELSE "store") \in Ats
      BY DEF Ats, Stages
    <3>4. QED
      BY <3>1, <3>2, <3>3, UpdateType DEF Shape
  <2>2. upset' \in [Kinds -> BOOLEAN]
    BY <1>8 DEF ReadConfig, Shape
  <2>3. QED
    BY <1>8, <2>1, <2>2 DEF ReadConfig, Shape, serverVars, pageVars
<1>9. ASSUME NEW p \in Pages, WriteError(p)
      PROVE  /\ update' \in [Pages -> Update]
             /\ upset' \in [Kinds -> BOOLEAN]
             /\ file' = file
  <2>1. AfterError(p) \in Ats
    BY DEF AfterError, Ats, Stages, Answers
  <2>2. update' \in [Pages -> Update]
    BY <1>9, <2>1, UpdateType DEF WriteError, Shape
  <2>3. QED
    BY <1>9, <2>2 DEF WriteError, Shape
<1>10. ASSUME NEW p \in Pages, Truncate(p)
       PROVE  Shape'
  <2>1. CASE WriteError(p)
    BY <1>9, <1>10, <2>1 DEF Truncate, Shape, pageVars
  <2>2. CASE /\ file' = [file EXCEPT ![Kind(p)] = Empty]
             /\ update' = [update EXCEPT ![p].at = "write"]
             /\ UNCHANGED <<used, upset>>
    <3>1. update' \in [Pages -> Update]
      BY <2>2, UpdateType DEF Shape, Ats, Stages
    <3>2. file' \in [Kinds -> Contents]
      BY <2>2 DEF Shape, Contents
    <3>3. QED
      BY <1>10, <2>2, <3>1, <3>2 DEF Truncate, Shape, pageVars
  <2>3. QED
    BY <1>10, <2>1, <2>2 DEF Truncate
<1>11. ASSUME NEW p \in Pages, WriteFile(p)
       PROVE  Shape'
  <2>1. CASE WriteError(p)
    BY <1>9, <1>11, <2>1 DEF WriteFile, Shape, pageVars
  <2>2. CASE /\ \E text \in Written(file[Kind(p)], update[p].doc) :
                  file' = [file EXCEPT ![Kind(p)] = text]
             /\ update' = [update EXCEPT ![p].at = "store", ![p].wrote = TRUE]
             /\ UNCHANGED <<used, upset>>
    <3>1. update' \in [Pages -> Update]
      BY <2>2, UpdateType DEF Shape, Ats, Stages
    <3>2. update[p].doc \in Contents /\ Garbled \in Contents
      BY <1>11 DEF WriteFile, OwnKind, Stages, Contents
    <3>3. Written(file[Kind(p)], update[p].doc) \subseteq Contents
      BY <3>2 DEF Written
    <3>4. file' \in [Kinds -> Contents]
      BY <2>2, <3>3 DEF Shape
    <3>5. QED
      BY <1>11, <2>2, <3>1, <3>4 DEF WriteFile, Shape, pageVars
  <2>3. QED
    BY <1>11, <2>1, <2>2 DEF WriteFile
<1>12. ASSUME NEW p \in Pages, Store(p)
       PROVE  Shape'
  <2>1. update' \in [Pages -> Update]
    BY <1>12, UpdateType DEF Store, Shape, Ats, Answers
  <2>2. update[p].doc \in Contents
    BY <1>12 DEF Store, OwnKind, Stages, Contents
  <2>3. memory' \in [Kinds -> Contents]
    BY <1>12, <2>2 DEF Store, Shape
  <2>4. upset' \in [Kinds -> BOOLEAN]
    BY <1>12 DEF Store, Shape
  <2>5. QED
    BY <1>12, <2>1, <2>3, <2>4 DEF Store, Shape, pageVars
<1>13. ASSUME NEW p \in Pages, NEW e \in Entries, EditPolicies(p, e)
       PROVE  Shape'
  <2>1. draft[p] \in SUBSET Entries
    BY <1>13 DEF EditPolicies, TypeOK
  <2>2. draft' \in [Pages -> Documents]
    <3>1. draft[p] \ {e} \in Documents /\ draft[p] \cup {e} \in Documents
      BY <2>1 DEF Documents
    <3>2. QED
      BY <1>13, <3>1 DEF EditPolicies, Shape
  <2>3. seen' \in [Pages -> [loaded : SUBSET Entries, removed : SUBSET Entries]]
    <3>1. [seen[p] EXCEPT !.removed = IF e \in draft[p] THEN @ \cup {e} ELSE @]
            \in [loaded : SUBSET Entries, removed : SUBSET Entries]
      BY DEF Shape
    <3>2. QED
      BY <1>13, <3>1 DEF EditPolicies, Shape
  <2>4. QED
    BY <1>13, <2>2, <2>3 DEF EditPolicies, Shape, serverVars
<1>14. ASSUME NEW p \in Pages, NEW port \in Ports, EditPort(p, port)
       PROVE  Shape'
  <2>1. port \in Documents
    BY DEF Documents
  <2>2. QED
    BY <1>14, <2>1 DEF EditPort, Shape, serverVars, history
<1>15. CASE Crash
  <2>1. \A u \in Update : [u EXCEPT !.at = "rejected"] \in Update
    BY DEF Update, Answers
  <2>2. update' \in [Pages -> Update]
    BY <1>15, <2>1 DEF Crash, Shape
  <2>3. upset' \in [Kinds -> BOOLEAN]
    BY <1>15 DEF Crash, Shape
  <2>4. QED
    BY <1>15, <2>2, <2>3 DEF Crash, Shape, pageVars
<1>16. CASE Boot
  BY <1>16 DEF Boot, Shape, pageVars
<1>17. CASE UNCHANGED vars
  BY <1>17 DEF vars, Shape, serverVars, pageVars, history
<1>18. QED
  BY <1>1, <1>2, <1>3, <1>4, <1>5, <1>6, <1>7, <1>8, <1>10, <1>11, <1>12,
     <1>13, <1>14, <1>15, <1>16, <1>17 DEF Next, ServerStep, PageStep

-----------------------------------------------------------------------------
(* What each step does to the updates, page by page.                       *)

LEMMA UpdateAt ==
  ASSUME Shape, NEW p \in Pages, NEW a, update' = [update EXCEPT ![p].at = a]
  PROVE  /\ \A q \in Pages \ {p} : update'[q] = update[q]
         /\ update'[p] = [update[p] EXCEPT !.at = a]
         /\ update'[p].at = a
         /\ update'[p].doc = update[p].doc
         /\ update'[p].clean = update[p].clean
         /\ update'[p].wrote = update[p].wrote
BY DEF Shape, Update

LEMMA ReceiveUpdate ==
  ASSUME Shape, NEW p \in Pages, Receive(p)
  PROVE  /\ update[p].at = "sent" /\ server = "up"
         /\ update'[p].at = FirstStage(p)
         /\ update'[p].doc = update[p].doc
         /\ update'[p].wrote = update[p].wrote
         /\ update'[p].clean =
              ~(Working(Kind(p)) # {} /\ FirstStage(p) \in Stages)
         /\ \A q \in Pages \ {p} :
              /\ update'[q].at = update[q].at
              /\ update'[q].doc = update[q].doc
              /\ update'[q].wrote = update[q].wrote
              /\ update'[q].clean =
                   (update[q].clean /\ ~(FirstStage(p) \in Stages /\ q \in Working(Kind(p))))
<1> DEFINE overlap == Working(Kind(p)) # {} /\ FirstStage(p) \in Stages
<1>1. /\ update[p].at = "sent" /\ server = "up"
      /\ update' = [q \in Pages |->
           IF q = p THEN [update[p] EXCEPT !.at = FirstStage(p), !.clean = ~overlap]
           ELSE [update[q] EXCEPT !.clean = @ /\ ~(overlap /\ q \in Working(Kind(p)))]]
  BY DEF Receive
<1>2. \A q \in Pages : update[q] \in Update
  BY DEF Shape
<1>3. /\ update'[p].at = FirstStage(p)
      /\ update'[p].doc = update[p].doc
      /\ update'[p].wrote = update[p].wrote
      /\ update'[p].clean = ~overlap
  BY <1>1, <1>2 DEF Update
<1>4. ASSUME NEW q \in Pages \ {p}
      PROVE  /\ update'[q].at = update[q].at
             /\ update'[q].doc = update[q].doc
             /\ update'[q].wrote = update[q].wrote
             /\ update'[q].clean = (update[q].clean /\ ~(overlap /\ q \in Working(Kind(p))))
  BY <1>1, <1>2 DEF Update
<1>5. ASSUME NEW q \in Pages \ {p}
      PROVE  (overlap /\ q \in Working(Kind(p)))
               <=> (FirstStage(p) \in Stages /\ q \in Working(Kind(p)))
  <2>1. q \in Working(Kind(p)) => Working(Kind(p)) # {}
    OBVIOUS
  <2>2. QED
    BY <2>1
<1>6. ASSUME NEW q \in Pages \ {p}
      PROVE  update'[q].clean =
               (update[q].clean /\ ~(FirstStage(p) \in Stages /\ q \in Working(Kind(p))))
  BY <1>4, <1>5, Zenon
<1>7. QED
  BY <1>1, <1>3, <1>4, <1>6, Zenon

LEMMA ReadUpdate ==
  ASSUME Shape, NEW p \in Pages, ReadConfig(p)
  PROVE  /\ update[p].at = "read"
         /\ update'[p].at = IF Readable("port") THEN "truncate" ELSE "store"
         /\ update'[p].doc = update[p].doc
         /\ update'[p].wrote = update[p].wrote
         /\ update'[p].clean = (update[p].clean /\ Readable("port"))
         /\ \A q \in Pages \ {p} : update'[q] = update[q]
BY DEF ReadConfig, Shape, Update

LEMMA ErrorUpdate ==
  ASSUME Shape, NEW p \in Pages, WriteError(p)
  PROVE  /\ update'[p].at = AfterError(p)
         /\ update'[p].doc = update[p].doc
         /\ update'[p].wrote = update[p].wrote
         /\ update'[p].clean = FALSE
         /\ \A q \in Pages \ {p} : update'[q] = update[q]
BY DEF WriteError, Shape, Update

LEMMA WriteUpdate ==
  ASSUME Shape, NEW p \in Pages,
         update' = [update EXCEPT ![p].at = "store", ![p].wrote = TRUE]
  PROVE  /\ update'[p].at = "store"
         /\ update'[p].doc = update[p].doc
         /\ update'[p].clean = update[p].clean
         /\ update'[p].wrote = TRUE
         /\ \A q \in Pages \ {p} : update'[q] = update[q]
BY DEF Shape, Update

LEMMA CrashUpdate ==
  ASSUME Shape, Crash
  PROVE  \A q \in Pages :
           /\ update'[q].at = IF update[q].at \in Stages THEN "rejected" ELSE update[q].at
           /\ update'[q].doc = update[q].doc
           /\ update'[q].clean = update[q].clean
           /\ update'[q].wrote = update[q].wrote
BY DEF Crash, Shape, Update

-----------------------------------------------------------------------------
(* The rest of the type invariant, part by part.                           *)

Stored ==
  /\ file.policies \in (SUBSET Entries) \cup {Empty, Garbled}
  /\ file.port \in ValidPorts \cup {Empty, Garbled}
  /\ memory.policies \in SUBSET Entries /\ memory.port \in ValidPorts

Drafts ==
  \A p \in Pages :
    /\ form[p] = "policies" => draft[p] \in (SUBSET Entries) \cup {Nothing}
    /\ form[p] # "policies" => draft[p] \in Ports \cup {Nothing}

InHand == \A p \in Pages : update[p].at # "none" => saving[p] /\ update[p].doc # Nothing

Counted ==
  /\ form \in Forms
  /\ server \in {"up", "down", "refused"}
  /\ used \in [edits : 0..MaxEdits, saves : 0..MaxSaves, mishaps : 0..MaxMishaps]

LEMMA TypeParts == Shape => (TypeOK <=> Stored /\ Drafts /\ InHand /\ Counted)
<1>1. Shape => \A p \in Pages : load[p].at \in {"none", "asked"} \cup Answers
                                /\ update[p].at \in {"none", "sent"} \cup Stages \cup Answers
  BY DEF Shape, Load, Update
<1>2. QED
  BY <1>1 DEF Shape, TypeOK, Stored, Drafts, InHand, Counted

LEMMA StoredStep ==
  ASSUME Typed, [Next]_vars
  PROVE  Stored'
<1> USE TypeParts DEF Typed
<1>1. ASSUME NEW p \in Pages, Truncate(p) \/ WriteFile(p) \/ Store(p)
      PROVE  Stored'
  <2>1. Kind(p) = IF form[p] = "policies" THEN "policies" ELSE "port"
    BY DEF Kind
  <2>2. ASSUME NEW d, d \in {Empty, Garbled} \/
                 d \in IF form[p] = "policies" THEN SUBSET Entries ELSE ValidPorts
        PROVE  LET f == [file EXCEPT ![Kind(p)] = d]
               IN  /\ f.policies \in (SUBSET Entries) \cup {Empty, Garbled}
                   /\ f.port \in ValidPorts \cup {Empty, Garbled}
    BY <2>1, <2>2 DEF Stored, Shape, Kinds
  <2>3. CASE Truncate(p)
    BY <2>2, <2>3 DEF Truncate, WriteError, Stored
  <2>4. CASE WriteFile(p)
    <3>1. update[p].doc \in IF form[p] = "policies" THEN SUBSET Entries ELSE ValidPorts
      BY <2>4 DEF WriteFile, OwnKind, Stages
    <3>2. \A d \in Written(file[Kind(p)], update[p].doc) : d \in {update[p].doc, Garbled}
      BY DEF Written
    <3>3. QED
      BY <2>2, <2>4, <3>1, <3>2 DEF WriteFile, WriteError, Stored
  <2>5. CASE Store(p)
    <3>1. update[p].doc \in IF form[p] = "policies" THEN SUBSET Entries ELSE ValidPorts
      BY <2>5 DEF Store, OwnKind, Stages
    <3>2. QED
      BY <2>1, <2>5, <3>1 DEF Store, Stored, Shape, Kinds
  <2>6. QED
    BY <1>1, <2>3, <2>4, <2>5
<1>2. CASE Boot
  <2>1. (\A k \in Kinds : Readable(k)) =>
           file.policies \in SUBSET Entries /\ file.port \in ValidPorts
    BY DEF Stored, Readable, Kinds
  <2>2. QED
    BY <1>2, <2>1 DEF Boot, Stored
<1>3. CASE UNCHANGED <<file, memory>>
  BY <1>3 DEF Stored
<1>4. QED
  <2>1. ASSUME NEW p \in Pages,
               Receive(p) \/ ReadConfig(p) \/ PageStep(p) \/ Save(p) \/ HideSuccess(p)
        PROVE  UNCHANGED <<file, memory>>
    BY <2>1 DEF Receive, ReadConfig, PageStep, AnswerLoad, Loaded, Saved, Reject, Save,
       HideSuccess, serverVars
  <2>2. ASSUME NEW p \in Pages, NEW d, EditPolicies(p, d) \/ EditPort(p, d)
        PROVE  UNCHANGED <<file, memory>>
    BY <2>2 DEF EditPolicies, EditPort, serverVars
  <2>3. Crash \/ UNCHANGED vars => UNCHANGED <<file, memory>>
    BY DEF Crash, vars, serverVars
  <2>4. QED
    BY <1>1, <1>2, <1>3, <2>1, <2>2, <2>3 DEF Next, ServerStep

LEMMA DraftsStep ==
  ASSUME Typed, [Next]_vars
  PROVE  Drafts'
<1> USE TypeParts DEF Typed
<1>1. ASSUME NEW p \in Pages, Loaded(p)
      PROVE  Drafts'
  <2>1. load[p].at = "ok" =>
          load[p].doc \in IF form[p] = "policies" THEN SUBSET Entries ELSE Ports
    BY DEF OwnKind, Ports
  <2>2. form' = form /\ \A q \in Pages : draft'[q] \in
          IF q = p /\ load[p].at = "ok" THEN {load[p].doc} ELSE {draft[q]}
    BY <1>1 DEF Loaded, LoadedPolicies, LoadedPort, Shape
  <2>3. QED
    BY <2>1, <2>2 DEF Drafts
<1>2. ASSUME NEW p \in Pages, NEW e \in Entries, EditPolicies(p, e)
      PROVE  Drafts'
  <2>1. form[p] = "policies" /\ draft[p] \in SUBSET Entries
    BY <1>2 DEF EditPolicies, Drafts
  <2>2. draft'[p] \in SUBSET Entries /\ \A q \in Pages \ {p} : draft'[q] = draft[q]
    BY <1>2, <2>1 DEF EditPolicies, Shape
  <2>3. QED
    BY <1>2, <2>1, <2>2 DEF EditPolicies, Drafts
<1>3. ASSUME NEW p \in Pages, NEW port \in Ports, EditPort(p, port)
      PROVE  Drafts'
  BY <1>3 DEF EditPort, Drafts, Shape
<1>4. CASE UNCHANGED <<form, draft>>
  BY <1>4 DEF Drafts
<1>5. QED
  <2>1. ASSUME NEW p \in Pages,
               ServerStep(p) \/ AnswerLoad(p) \/ Saved(p) \/ Reject(p) \/ Save(p)
                 \/ HideSuccess(p)
        PROVE  UNCHANGED <<form, draft>>
    BY <2>1 DEF ServerStep, Receive, ReadConfig, Truncate, WriteFile, Store,
       AnswerLoad, Saved, Reject, Save, HideSuccess, pageVars
  <2>2. Crash \/ Boot \/ UNCHANGED vars => UNCHANGED <<form, draft>>
    BY DEF Crash, Boot, vars, pageVars
  <2>3. QED
    BY <1>1, <1>2, <1>3, <1>4, <2>1, <2>2 DEF Next, PageStep

\* What a server's handler leaves of its own update and of the others.
LEMMA HandlerUpdate ==
  ASSUME Shape, NEW p \in Pages, ServerStep(p)
  PROVE  /\ update[p].at # "none"
         /\ \A q \in Pages : update'[q].doc = update[q].doc
         /\ \A q \in Pages \ {p} : update'[q].at = update[q].at
         /\ UNCHANGED <<form, server, load, pageVars, seen>>
<1>1. CASE Receive(p)
  BY <1>1, ReceiveUpdate DEF Receive, serverVars
<1>2. CASE ReadConfig(p)
  BY <1>2, ReadUpdate DEF ReadConfig, serverVars
<1>3. CASE Truncate(p)
  <2>1. CASE WriteError(p)
    BY <1>3, <2>1, ErrorUpdate DEF Truncate
  <2>2. CASE update' = [update EXCEPT ![p].at = "write"]
    BY <1>3, <2>2, UpdateAt DEF Truncate
  <2>3. QED
    BY <1>3, <2>1, <2>2 DEF Truncate
<1>4. CASE WriteFile(p)
  <2>1. CASE WriteError(p)
    BY <1>4, <2>1, ErrorUpdate DEF WriteFile
  <2>2. CASE update' = [update EXCEPT ![p].at = "store", ![p].wrote = TRUE]
    BY <1>4, <2>2, WriteUpdate DEF WriteFile
  <2>3. QED
    BY <1>4, <2>1, <2>2 DEF WriteFile
<1>5. CASE Store(p)
  BY <1>5, UpdateAt DEF Store
<1>6. QED
  BY <1>1, <1>2, <1>3, <1>4, <1>5 DEF ServerStep

\* A handler that has started touches no other update.
LEMMA OnlyOwn ==
  ASSUME Shape, NEW p \in Pages, ServerStep(p), ~Receive(p)
  PROVE  \A q \in Pages \ {p} : update'[q] = update[q]
<1>1. CASE WriteError(p)
  BY <1>1, ErrorUpdate
<1>2. CASE ~WriteError(p)
  <2>1. CASE ReadConfig(p)
    BY <2>1, ReadUpdate
  <2>2. CASE update' = [update EXCEPT ![p].at = "write"]
    BY <2>2, UpdateAt
  <2>3. CASE update' = [update EXCEPT ![p].at = "store", ![p].wrote = TRUE]
    BY <2>3, WriteUpdate
  <2>4. CASE update' = [update EXCEPT ![p].at = "ok"]
    BY <2>4, UpdateAt
  <2>5. QED
    BY <1>2, <2>1, <2>2, <2>3, <2>4 DEF ServerStep, Truncate, WriteFile, Store
<1>3. QED
  BY <1>1, <1>2

LEMMA InHandStep ==
  ASSUME Typed, [Next]_vars
  PROVE  InHand'
<1> USE TypeParts DEF Typed
<1>1. ASSUME NEW p \in Pages, ServerStep(p)
      PROVE  InHand'
  BY <1>1, HandlerUpdate DEF InHand, pageVars
<1>2. ASSUME NEW p \in Pages, Saved(p)
      PROVE  InHand'
  <2>1. \A q \in Pages \ {p} : update'[q] = update[q] /\ saving'[q] = saving[q]
    BY <1>2 DEF Saved, Shape
  <2>2. update'[p].at = "none"
    BY <1>2, IdleType DEF Saved, Shape
  <2>3. QED
    BY <2>1, <2>2 DEF InHand
<1>3. ASSUME NEW p \in Pages, Reject(p)
      PROVE  InHand'
  <2>1. CASE update' = [update EXCEPT ![p].at = "rejected"] /\ update[p].at = "sent"
    BY <1>3, <2>1, UpdateAt DEF Reject, InHand, pageVars
  <2>2. CASE UNCHANGED update
    BY <1>3, <2>2 DEF Reject, InHand, pageVars
  <2>3. QED
    BY <1>3, <2>1, <2>2 DEF Reject
<1>4. ASSUME NEW p \in Pages, Save(p)
      PROVE  InHand'
  <2>1. draft[p] # Nothing
    BY <1>4 DEF Save
  <2>2. CASE Sends(p)
    <3>1. update'[p].doc = draft[p] /\ saving'[p] = TRUE
      BY <1>4, <2>2 DEF Save, Begun, Shape
    <3>2. \A q \in Pages \ {p} : update'[q] = update[q] /\ saving'[q] = saving[q]
      BY <1>4, <2>2 DEF Save, Shape
    <3>3. QED
      BY <2>1, <3>1, <3>2 DEF InHand
  <2>3. CASE ~Sends(p)
    BY <1>4, <2>3 DEF Save, InHand
  <2>4. QED
    BY <2>2, <2>3
<1>5. CASE Crash
  BY <1>5, CrashUpdate DEF Crash, InHand, pageVars, Stages
<1>6. CASE UNCHANGED <<update, saving>>
  BY <1>6 DEF InHand
<1>7. QED
  <2>1. ASSUME NEW p \in Pages, AnswerLoad(p) \/ Loaded(p) \/ HideSuccess(p)
        PROVE  UNCHANGED <<update, saving>>
    BY <2>1 DEF AnswerLoad, Loaded, HideSuccess, pageVars
  <2>2. ASSUME NEW p \in Pages, NEW d, EditPolicies(p, d) \/ EditPort(p, d)
        PROVE  UNCHANGED <<update, saving>>
    BY <2>2 DEF EditPolicies, EditPort
  <2>3. Boot \/ UNCHANGED vars => UNCHANGED <<update, saving>>
    BY DEF Boot, vars, pageVars
  <2>4. QED
    BY <1>1, <1>2, <1>3, <1>4, <1>5, <1>6, <2>1, <2>2, <2>3 DEF Next, PageStep

LEMMA CountedStep ==
  ASSUME Typed, [Next]_vars
  PROVE  Counted'
<1> USE TypeParts, BoundsAssumption DEF Typed
<1>1. ASSUME NEW p \in Pages, Save(p)
      PROVE  Counted'
  BY <1>1 DEF Save, serverVars, Counted
<1>2. ASSUME NEW p \in Pages, NEW d, EditPolicies(p, d) \/ EditPort(p, d)
      PROVE  Counted'
  BY <1>2 DEF EditPolicies, EditPort, serverVars, Counted
<1>3. ASSUME NEW p \in Pages, Truncate(p) \/ WriteFile(p)
      PROVE  Counted'
  BY <1>3 DEF Truncate, WriteFile, WriteError, Counted
<1>4. CASE Crash
  BY <1>4 DEF Crash, Counted
<1>5. CASE Boot
  BY <1>5 DEF Boot, Counted
<1>6. CASE UNCHANGED <<form, server, used>>
  BY <1>6 DEF Counted
<1>7. QED
  <2>1. ASSUME NEW p \in Pages,
               Receive(p) \/ ReadConfig(p) \/ Store(p) \/ PageStep(p) \/ HideSuccess(p)
        PROVE  UNCHANGED <<form, server, used>>
    BY <2>1 DEF Receive, ReadConfig, Store, PageStep, AnswerLoad, Loaded, Saved, Reject,
       HideSuccess, serverVars
  <2>2. UNCHANGED vars => UNCHANGED <<form, server, used>>
    BY DEF vars, serverVars
  <2>3. QED
    BY <1>1, <1>2, <1>3, <1>4, <1>5, <1>6, <2>1, <2>2 DEF Next, ServerStep

LEMMA OwnKindStep ==
  ASSUME Typed, [Next]_vars
  PROVE  OwnKind'
<1> USE TypeParts DEF Typed
<1>1. ASSUME NEW p \in Pages, AnswerLoad(p)
      PROVE  OwnKind'
  <2>1. /\ form' = form /\ update' = update
        /\ load'[p] = [at |-> "ok", doc |-> memory[Kind(p)]]
        /\ \A q \in Pages \ {p} : load'[q] = load[q]
    BY <1>1 DEF AnswerLoad, Shape
  <2>2. memory[Kind(p)] \in IF form[p] = "policies" THEN SUBSET Entries ELSE ValidPorts
    BY DEF Kind, Stored
  <2>3. QED
    BY <2>1, <2>2 DEF OwnKind
<1>2. ASSUME NEW p \in Pages, Loaded(p)
      PROVE  OwnKind'
  <2>1. /\ form' = form /\ update' = update /\ load'[p].at = "none"
        /\ \A q \in Pages \ {p} : load'[q] = load[q]
    BY <1>2 DEF Loaded, Shape
  <2>2. QED
    BY <2>1 DEF OwnKind
<1>3. ASSUME NEW p \in Pages, Saved(p)
      PROVE  OwnKind'
  <2>1. /\ form' = form /\ load' = load /\ update'[p].at = "none"
        /\ \A q \in Pages \ {p} : update'[q] = update[q]
    BY <1>3, IdleType DEF Saved, Shape
  <2>2. QED
    BY <2>1 DEF OwnKind, Stages
<1>4. ASSUME NEW p \in Pages, Reject(p)
      PROVE  OwnKind'
  <2>1. CASE load' = [load EXCEPT ![p].at = "rejected"] /\ update' = update
    BY <1>4, <2>1 DEF Reject, Shape, Load, OwnKind
  <2>2. CASE update' = [update EXCEPT ![p].at = "rejected"] /\ update[p].at = "sent"
             /\ load' = load
    BY <1>4, <2>2, UpdateAt DEF Reject, OwnKind, Stages
  <2>3. QED
    BY <1>4, <2>1, <2>2 DEF Reject
<1>5. ASSUME NEW p \in Pages, Save(p)
      PROVE  OwnKind'
  <2>1. CASE Sends(p)
    <3>1. /\ form' = form /\ load' = load
          /\ update'[p].at = "sent" /\ update'[p].doc = draft[p]
          /\ \A q \in Pages \ {p} : update'[q] = update[q]
      BY <1>5, <2>1 DEF Save, Begun, Shape
    <3>2. draft[p] \in IF form[p] = "policies" THEN SUBSET Entries ELSE Ports
      BY <1>5 DEF Save, Drafts
    <3>3. QED
      BY <3>1, <3>2 DEF OwnKind, Stages
  <2>2. CASE ~Sends(p)
    BY <1>5, <2>2 DEF Save, OwnKind
  <2>3. QED
    BY <2>1, <2>2
<1>6. ASSUME NEW p \in Pages, Receive(p)
      PROVE  OwnKind'
  <2>1. update[p].doc \in IF form[p] = "policies" THEN SUBSET Entries ELSE Ports
    BY <1>6, ReceiveUpdate DEF OwnKind
  <2>2. FirstStage(p) = "read" => form[p] # "policies"
    BY DEF FirstStage, Kind
  <2>3. FirstStage(p) \in Stages /\ form[p] # "policies" => update[p].doc \in ValidPorts
    BY <2>1 DEF FirstStage, Stages, Ports
  <2>4. form' = form /\ load' = load
    BY <1>6 DEF Receive
  <2>5. QED
    BY <1>6, <2>1, <2>2, <2>3, <2>4, ReceiveUpdate DEF OwnKind
<1>7. ASSUME NEW p \in Pages, ServerStep(p), ~Receive(p)
      PROVE  OwnKind'
  <2>1. update[p].at \in Stages /\ update'[p].at # "read"
    <3>1. CASE ReadConfig(p)
      BY <3>1, ReadUpdate DEF Stages
    <3>2. CASE Truncate(p)
      <4>1. CASE WriteError(p)
        BY <3>2, <4>1, ErrorUpdate DEF Truncate, AfterError, Stages
      <4>2. CASE update' = [update EXCEPT ![p].at = "write"]
        BY <3>2, <4>2, UpdateAt DEF Truncate, Stages
      <4>3. QED
        BY <3>2, <4>1, <4>2 DEF Truncate
    <3>3. CASE WriteFile(p)
      BY <3>3, ErrorUpdate, WriteUpdate DEF WriteFile, AfterError, Stages
    <3>4. CASE Store(p)
      BY <3>4, UpdateAt DEF Store, Stages
    <3>5. QED
      BY <1>7, <3>1, <3>2, <3>3, <3>4 DEF ServerStep
  <2>2. QED
    BY <1>7, <2>1, HandlerUpdate DEF OwnKind, Stages
<1>8. CASE Crash
  <2>1. form' = form /\ load' = load
    BY <1>8 DEF Crash
  <2>2. QED
    BY <1>8, <2>1, CrashUpdate DEF OwnKind, Stages
<1>9. CASE UNCHANGED <<form, load, update>>
  BY <1>9 DEF OwnKind
<1>10. QED
  <2>1. ASSUME NEW p \in Pages, HideSuccess(p)
        PROVE  UNCHANGED <<form, load, update>>
    BY <2>1 DEF HideSuccess
  <2>2. ASSUME NEW p \in Pages, NEW d, EditPolicies(p, d) \/ EditPort(p, d)
        PROVE  UNCHANGED <<form, load, update>>
    BY <2>2 DEF EditPolicies, EditPort
  <2>3. Boot \/ UNCHANGED vars => UNCHANGED <<form, load, update>>
    BY DEF Boot, vars
  <2>4. QED
    BY <1>1, <1>2, <1>3, <1>4, <1>5, <1>6, <1>7, <1>8, <1>9, <2>1, <2>2, <2>3
    DEF Next, PageStep

LEMMA TypedStep == Typed /\ [Next]_vars => Typed'
<1>1. ASSUME Typed, [Next]_vars
      PROVE  Typed'
  <2>1. Shape'
    BY <1>1, ShapeStep
  <2>2. TypeOK'
    <3>1. Stored' /\ Drafts' /\ InHand' /\ Counted'
      BY <1>1, StoredStep, DraftsStep, InHandStep, CountedStep
    <3>2. (Shape => (TypeOK <=> Stored /\ Drafts /\ InHand /\ Counted))'
      BY TypeParts, PTL
    <3>3. QED
      BY <2>1, <3>1, <3>2
  <2>3. QED
    BY <1>1, <2>1, <2>2, OwnKindStep DEF Typed
<1>2. QED
  BY <1>1

LEMMA FormsTyped == Spec => []Typed
BY TypedInit, TypedStep, PTL DEF Spec

-----------------------------------------------------------------------------
(* Files and memory.                                                       *)

\* A handler that has not been disturbed is the only one of its kind, and a
\* document with a disturbed handler is upset.
Alone ==
  \A p \in Pages : update[p].at \in Stages =>
    /\ server = "up"
    /\ update[p].clean =>
         \A q \in Pages \ {p} : Kind(q) = Kind(p) => update[q].at \notin Stages
    /\ ~update[p].clean => upset[Kind(p)]

\* How far an undisturbed handler has come with the file.
Progress ==
  \A p \in Pages : update[p].at \in Stages /\ update[p].clean =>
    /\ update[p].at = "write" => file[Kind(p)] = Empty
    /\ update[p].at = "store" => file[Kind(p)] = update[p].doc
    /\ update[p].at \in {"read", "truncate"} /\ ~upset[Kind(p)] =>
         file[Kind(p)] = memory[Kind(p)]

BootsUnlessUpset == server = "down" => \A k \in Kinds : ~upset[k] => Readable(k)

Durable ==
  Alone /\ Progress /\ FileMatchesMemory /\ BootsUnlessUpset /\ RefusedOnlyIfUpset

LEMMA DurableInit == Init => Durable
<1> SUFFICES ASSUME Init PROVE Durable
  OBVIOUS
<1>1. \A p \in Pages : update[p].at = "none"
  BY IdleType DEF Init
<1>2. QED
  BY <1>1 DEF Init, Durable, Alone, Progress, FileMatchesMemory, BootsUnlessUpset,
     RefusedOnlyIfUpset, Stages

LEMMA DocumentReadable ==
  ASSUME Typed, NEW k \in Kinds
  PROVE  /\ memory[k] \notin {Empty, Garbled}
         /\ \A p \in Pages : Kind(p) = k /\ update[p].at \in Stages =>
              update[p].doc \notin {Empty, Garbled}
<1>1. \A d \in SUBSET Entries : d \notin {Empty, Garbled}
  BY DocumentsAssumption
<1>2. \A d \in ValidPorts : d \notin {Empty, Garbled}
  BY DocumentsAssumption
<1>3. memory[k] \in IF k = "policies" THEN SUBSET Entries ELSE ValidPorts
  BY DEF Typed, TypeOK, Kinds
<1>4. \A p \in Pages : Kind(p) = k /\ update[p].at \in Stages =>
        update[p].doc \in IF k = "policies" THEN SUBSET Entries ELSE ValidPorts
  BY DEF Typed, OwnKind, Kind, Stages
<1>5. QED
  BY <1>1, <1>2, <1>3, <1>4

\* What a crash can spoil is a file that is being written.
LEMMA UpReadable ==
  ASSUME Typed, Durable, server = "up", NEW k \in Kinds, ~upset[k],
         \A p \in Working(k) : update[p].at # "write"
  PROVE  Readable(k)
<1>1. CASE Working(k) = {}
  BY <1>1, DocumentReadable DEF Durable, FileMatchesMemory, Readable
<1>2. ASSUME NEW p \in Working(k)
      PROVE  Readable(k)
  <2>1. p \in Pages /\ Kind(p) = k /\ update[p].at \in Stages /\ update[p].at # "write"
    BY <1>2 DEF Working
  <2>2. update[p].clean
    BY <2>1 DEF Durable, Alone
  <2>3. file[k] \in {memory[k], update[p].doc}
    BY <2>1, <2>2 DEF Durable, Progress, Stages
  <2>4. QED
    BY <2>1, <2>3, DocumentReadable DEF Readable
<1>3. QED
  BY <1>1, <1>2

\* A handler that starts.
LEMMA ReceiveDurable ==
  ASSUME Typed, Durable, NEW p \in Pages, Receive(p)
  PROVE  Durable'
<1> DEFINE k == Kind(p)
           overlap == Working(k) # {} /\ FirstStage(p) \in Stages
<1> USE DEF Typed
<1>1. /\ UNCHANGED <<form, server, file, memory>>
      /\ server = "up" /\ k \in Kinds
      /\ \A q \in Pages : Kind(q)' = Kind(q)
      /\ upset' = [upset EXCEPT ![k] = upset[k] \/ overlap]
  BY KindType DEF Receive, Kind, serverVars
<1>2. /\ upset'[k] = (upset[k] \/ overlap)
      /\ \A j \in Kinds \ {k} : upset'[j] = upset[j]
  BY <1>1 DEF Shape
<1>3. FirstStage(p) \in Stages => FirstStage(p) \in {"read", "truncate"}
  BY DEF FirstStage, Stages
<1>4. update[p].at \notin Stages
  BY ReceiveUpdate DEF Stages
<1>5. \A q \in Pages : q \in Working(k) <=> Kind(q) = k /\ update[q].at \in Stages
  BY DEF Working
<1>6. Alone'
  <2>1. ASSUME NEW q \in Pages, update'[q].at \in Stages, update'[q].clean,
               NEW r \in Pages, r # q, Kind(r) = Kind(q), update'[r].at \in Stages
        PROVE  FALSE
    <3>1. CASE q = p
      <4>1. Working(k) = {} /\ Kind(r) = k
        BY <2>1, <3>1, ReceiveUpdate
      <4>2. update[r].at \in Stages
        BY <2>1, <3>1, ReceiveUpdate
      <4>3. QED
        BY <1>5, <4>1, <4>2
    <3>2. CASE r = p
      <4>1. FirstStage(p) \in Stages /\ q \notin Working(k) /\ Kind(q) = k
        BY <2>1, <3>2, ReceiveUpdate
      <4>2. update[q].at \in Stages
        BY <2>1, <3>2, ReceiveUpdate
      <4>3. QED
        BY <1>5, <4>1, <4>2
    <3>3. CASE q # p /\ r # p
      <4>1. update[q].at \in Stages /\ update[q].clean /\ update[r].at \in Stages
        BY <2>1, <3>3, ReceiveUpdate
      <4>2. QED
        BY <2>1, <4>1 DEF Durable, Alone
    <3>4. QED
      BY <3>1, <3>2, <3>3
  <2>2. ASSUME NEW q \in Pages, update'[q].at \in Stages, ~update'[q].clean
        PROVE  upset'[Kind(q)]
    <3>1. CASE q = p
      BY <1>2, <2>2, <3>1, ReceiveUpdate
    <3>2. CASE q # p /\ update[q].clean
      <4>1. Kind(q) = k /\ overlap
        BY <1>5, <2>2, <3>2, ReceiveUpdate
      <4>2. QED
        BY <1>2, <4>1
    <3>3. CASE q # p /\ ~update[q].clean
      <4>1. upset[Kind(q)] /\ Kind(q) \in Kinds
        BY <2>2, <3>3, ReceiveUpdate, KindType DEF Durable, Alone
      <4>2. QED
        BY <1>2, <4>1
    <3>4. QED
      BY <3>1, <3>2, <3>3
  <2>3. server' = "up" /\ \A q \in Pages : Kind(q)' = Kind(q)
    BY <1>1
  <2>4. QED
    BY <2>1, <2>2, <2>3 DEF Alone
<1>7. Progress'
  <2>1. ASSUME NEW q \in Pages, q # p, update'[q].at \in Stages, update'[q].clean
        PROVE  /\ update'[q].at = "write" => file'[Kind(q)] = Empty
               /\ update'[q].at = "store" => file'[Kind(q)] = update'[q].doc
               /\ update'[q].at \in {"read", "truncate"} /\ ~upset'[Kind(q)] =>
                    file'[Kind(q)] = memory'[Kind(q)]
    <3>1. update[q].at \in Stages /\ update[q].clean /\ Kind(q) \in Kinds
      BY <2>1, ReceiveUpdate, KindType
    <3>2. update'[q].at = update[q].at /\ update'[q].doc = update[q].doc
      BY <2>1, ReceiveUpdate
    <3>3. ~upset'[Kind(q)] => ~upset[Kind(q)]
      BY <1>2, <3>1
    <3>4. QED
      BY <1>1, <3>1, <3>2, <3>3 DEF Durable, Progress
  <2>2. update'[p].at \in Stages /\ update'[p].clean /\ ~upset'[k] => file'[k] = memory'[k]
    BY <1>1, <1>2, ReceiveUpdate DEF Durable, FileMatchesMemory
  <2>3. QED
    BY <1>1, <1>3, <2>1, <2>2, ReceiveUpdate DEF Progress
<1>8. FileMatchesMemory'
  <2>1. ASSUME NEW j \in Kinds, Working(j)' = {}, ~upset'[j]
        PROVE  Working(j) = {} /\ ~upset[j]
    <3>1. \A q \in Pages : Kind(q) = j => update'[q].at \notin Stages
      BY <1>1, <2>1 DEF Working
    <3>2. \A q \in Pages : Kind(q) = j => update[q].at \notin Stages
      BY <1>4, <3>1, ReceiveUpdate
    <3>3. QED
      BY <1>1, <1>2, <2>1, <3>2 DEF Working
  <2>2. QED
    BY <1>1, <2>1 DEF Durable, FileMatchesMemory
<1>9. BootsUnlessUpset' /\ RefusedOnlyIfUpset'
  BY <1>1 DEF BootsUnlessUpset, RefusedOnlyIfUpset
<1>10. QED
  BY <1>6, <1>7, <1>8, <1>9 DEF Durable

\* What the rest of a handler has to keep, on its own document only.
Onward(p) ==
  /\ update[p].at \in Stages
  /\ \A j \in Kinds \ {Kind(p)} :
       file'[j] = file[j] /\ memory'[j] = memory[j] /\ upset'[j] = upset[j]
  /\ ~update[p].clean /\ upset[Kind(p)] => upset'[Kind(p)]
  /\ update'[p].at \in Stages =>
       /\ update'[p].clean => update[p].clean
       /\ ~update'[p].clean => upset'[Kind(p)]
       /\ update'[p].clean =>
            /\ update'[p].at = "write" => file'[Kind(p)] = Empty
            /\ update'[p].at = "store" => file'[Kind(p)] = update'[p].doc
            /\ update'[p].at \in {"read", "truncate"} /\ ~upset'[Kind(p)] =>
                 file'[Kind(p)] = memory'[Kind(p)]
  /\ update'[p].at \notin Stages => upset'[Kind(p)] \/ file'[Kind(p)] = memory'[Kind(p)]

LEMMA OnwardDurable ==
  ASSUME Typed, Durable, NEW p \in Pages, Onward(p), UNCHANGED <<form, server>>,
         \A q \in Pages \ {p} : update'[q] = update[q]
  PROVE  Durable'
<1> DEFINE k == Kind(p)
<1>1. /\ server = "up" /\ server' = "up" /\ k \in Kinds
      /\ \A q \in Pages : Kind(q)' = Kind(q) /\ Kind(q) \in Kinds
  BY KindType DEF Durable, Alone, Onward, Kind
<1>2. ASSUME NEW q \in Pages, q # p, Kind(q) = k, update[q].at \in Stages
      PROVE  ~update[p].clean /\ ~update[q].clean /\ upset'[k]
  <2>1. ~update[p].clean /\ ~update[q].clean
    BY <1>2 DEF Durable, Alone, Onward
  <2>2. upset[k]
    BY <2>1 DEF Durable, Alone, Onward
  <2>3. QED
    BY <2>1, <2>2 DEF Onward
<1>3. Alone'
  <2>1. ASSUME NEW q \in Pages, update'[q].at \in Stages, update'[q].clean,
               NEW r \in Pages, r # q, Kind(r) = Kind(q), update'[r].at \in Stages
        PROVE  FALSE
    <3>1. CASE q = p
      BY <1>2, <2>1, <3>1 DEF Onward
    <3>2. CASE r = p
      BY <1>2, <2>1, <3>2 DEF Onward
    <3>3. CASE q # p /\ r # p
      BY <2>1, <3>3 DEF Durable, Alone
    <3>4. QED
      BY <3>1, <3>2, <3>3
  <2>2. ASSUME NEW q \in Pages, update'[q].at \in Stages, ~update'[q].clean
        PROVE  upset'[Kind(q)]
    <3>1. CASE q = p
      BY <2>2, <3>1 DEF Onward
    <3>2. CASE q # p /\ Kind(q) = k
      BY <1>2, <2>2, <3>2
    <3>3. CASE q # p /\ Kind(q) # k
      BY <1>1, <2>2, <3>3 DEF Durable, Alone, Onward
    <3>4. QED
      BY <3>1, <3>2, <3>3
  <2>3. QED
    BY <1>1, <2>1, <2>2 DEF Alone
<1>4. Progress'
  <2>1. ASSUME NEW q \in Pages, update'[q].at \in Stages, update'[q].clean
        PROVE  /\ update'[q].at = "write" => file'[Kind(q)] = Empty
               /\ update'[q].at = "store" => file'[Kind(q)] = update'[q].doc
               /\ update'[q].at \in {"read", "truncate"} /\ ~upset'[Kind(q)] =>
                    file'[Kind(q)] = memory'[Kind(q)]
    <3>1. CASE q = p
      BY <2>1, <3>1 DEF Onward
    <3>2. CASE q # p
      <4>1. Kind(q) # k
        BY <1>2, <2>1, <3>2
      <4>2. /\ file'[Kind(q)] = file[Kind(q)] /\ memory'[Kind(q)] = memory[Kind(q)]
            /\ upset'[Kind(q)] = upset[Kind(q)]
        BY <1>1, <4>1 DEF Onward
      <4>3. QED
        BY <2>1, <3>2, <4>2 DEF Durable, Progress
    <3>3. QED
      BY <3>1, <3>2
  <2>2. QED
    BY <1>1, <2>1 DEF Progress
<1>5. FileMatchesMemory'
  <2>1. ASSUME NEW j \in Kinds, Working(j)' = {}, ~upset'[j]
        PROVE  file'[j] = memory'[j]
    <3>1. \A q \in Pages : Kind(q) = j => update'[q].at \notin Stages
      BY <1>1, <2>1 DEF Working
    <3>2. CASE j = k
      BY <2>1, <3>1, <3>2 DEF Onward
    <3>3. CASE j # k
      <4>1. \A q \in Pages : Kind(q) = j => q # p /\ update[q].at \notin Stages
        BY <3>1, <3>3
      <4>2. Working(j) = {}
        BY <4>1 DEF Working
      <4>3. QED
        BY <1>1, <2>1, <3>3, <4>2 DEF Durable, FileMatchesMemory, Onward
    <3>4. QED
      BY <3>2, <3>3
  <2>2. QED
    BY <2>1 DEF FileMatchesMemory
<1>6. BootsUnlessUpset' /\ RefusedOnlyIfUpset'
  BY <1>1 DEF BootsUnlessUpset, RefusedOnlyIfUpset
<1>7. QED
  BY <1>3, <1>4, <1>5, <1>6 DEF Durable

LEMMA ErrorOnward ==
  ASSUME Typed, NEW p \in Pages, WriteError(p), update[p].at \in Stages, memory' = memory
  PROVE  Onward(p)
<1>1. /\ Kind(p) \in Kinds /\ upset'[Kind(p)] /\ file' = file
      /\ \A j \in Kinds \ {Kind(p)} : upset'[j] = upset[j]
  BY KindType DEF WriteError, Typed, Shape
<1>2. update'[p].clean = FALSE
  BY ErrorUpdate DEF Typed
<1>3. QED
  BY <1>1, <1>2 DEF Onward

LEMMA HandlerOnward ==
  ASSUME Typed, Durable, NEW p \in Pages, ServerStep(p), ~Receive(p)
  PROVE  Onward(p)
<1> USE DEF Typed
<1>1. Kind(p) \in Kinds
  BY KindType
<1>2. CASE ReadConfig(p)
  <2>1. Kind(p) = "port" /\ file' = file /\ memory' = memory
    BY <1>2 DEF ReadConfig, OwnKind, Kind, serverVars
  <2>2. /\ upset'["port"] = (upset["port"] \/ ~Readable("port"))
        /\ \A j \in Kinds \ {"port"} : upset'[j] = upset[j]
    BY <1>2 DEF ReadConfig, Shape, Kinds
  <2>3. update[p].clean /\ ~upset["port"] => file["port"] = memory["port"]
    BY <1>2, <2>1 DEF ReadConfig, Durable, Progress, Stages
  <2>4. ~update[p].clean => upset["port"]
    BY <1>2, <2>1 DEF ReadConfig, Durable, Alone, Stages
  <2>5. QED
    BY <1>2, <2>1, <2>2, <2>3, <2>4, ReadUpdate DEF Onward, Stages
<1>3. CASE Truncate(p)
  <2>1. update[p].at \in Stages /\ memory' = memory
    BY <1>3 DEF Truncate, Stages
  <2>2. CASE WriteError(p)
    BY <2>1, <2>2, ErrorOnward
  <2>3. CASE /\ file' = [file EXCEPT ![Kind(p)] = Empty]
             /\ update' = [update EXCEPT ![p].at = "write"]
             /\ UNCHANGED <<used, upset>>
    <3>1. file'[Kind(p)] = Empty /\ \A j \in Kinds \ {Kind(p)} : file'[j] = file[j]
      BY <1>1, <2>3 DEF Shape
    <3>2. ~update[p].clean => upset[Kind(p)]
      BY <2>1 DEF Durable, Alone
    <3>3. update'[p].at = "write" /\ update'[p].clean = update[p].clean
      BY <2>3, UpdateAt
    <3>4. UNCHANGED upset
      BY <2>3
    <3>5. QED
      BY <2>1, <3>1, <3>2, <3>3, <3>4 DEF Onward, Stages
  <2>4. QED
    BY <1>3, <2>2, <2>3 DEF Truncate
<1>4. CASE WriteFile(p)
  <2>1. update[p].at \in Stages /\ memory' = memory
    BY <1>4 DEF WriteFile, Stages
  <2>2. CASE WriteError(p)
    BY <2>1, <2>2, ErrorOnward
  <2>3. CASE /\ \E text \in Written(file[Kind(p)], update[p].doc) :
                  file' = [file EXCEPT ![Kind(p)] = text]
             /\ update' = [update EXCEPT ![p].at = "store", ![p].wrote = TRUE]
             /\ UNCHANGED <<used, upset>>
    <3>1. /\ file'[Kind(p)] \in Written(file[Kind(p)], update[p].doc)
          /\ \A j \in Kinds \ {Kind(p)} : file'[j] = file[j]
      BY <1>1, <2>3 DEF Shape
    <3>2. ~update[p].clean => upset[Kind(p)]
      BY <2>1 DEF Durable, Alone
    <3>3. update[p].clean => file[Kind(p)] = Empty
      BY <1>4, <2>1 DEF WriteFile, Durable, Progress
    <3>4. update[p].clean => file'[Kind(p)] = update[p].doc
      BY <3>1, <3>3 DEF Written
    <3>5. QED
      BY <2>1, <2>3, <3>1, <3>2, <3>4, WriteUpdate DEF Onward, Stages
  <2>4. QED
    BY <1>4, <2>2, <2>3 DEF WriteFile
<1>5. CASE Store(p)
  <2>1. update[p].at = "store" /\ file' = file /\ update'[p].at = "ok"
    BY <1>5, UpdateAt DEF Store
  <2>2. /\ memory'[Kind(p)] = update[p].doc
        /\ \A j \in Kinds \ {Kind(p)} : memory'[j] = memory[j]
    BY <1>1, <1>5 DEF Store, Shape
  <2>3. /\ upset'[Kind(p)] = (upset[Kind(p)] /\ ~update[p].clean)
        /\ \A j \in Kinds \ {Kind(p)} : upset'[j] = upset[j]
    BY <1>1, <1>5 DEF Store, Shape
  <2>4. ~update[p].clean => upset[Kind(p)]
    BY <2>1 DEF Durable, Alone, Stages
  <2>5. update[p].clean => file[Kind(p)] = update[p].doc
    BY <2>1 DEF Durable, Progress, Stages
  <2>6. QED
    BY <2>1, <2>2, <2>3, <2>4, <2>5 DEF Onward, Stages
<1>6. QED
  BY <1>2, <1>3, <1>4, <1>5 DEF ServerStep

\* Steps that neither begin nor end a handler.
LEMMA ElsewhereDurable ==
  ASSUME Typed, Durable, UNCHANGED <<form, serverVars, upset>>,
         \A p \in Pages :
           \/ update'[p] = update[p]
           \/ update[p].at \notin Stages /\ update'[p].at \notin Stages
  PROVE  Durable'
<1>1. \A p \in Pages : Kind(p)' = Kind(p)
  BY DEF Kind
<1>2. \A p \in Pages : update'[p].at \in Stages => update'[p] = update[p]
  OBVIOUS
<1>3. \A p \in Pages : update[p].at \in Stages <=> update'[p].at \in Stages
  OBVIOUS
<1>4. \A k \in Kinds : Working(k)' = Working(k)
  BY <1>1, <1>3 DEF Working
<1>5. Alone'
  BY <1>1, <1>2, <1>3 DEF serverVars, Durable, Alone
<1>6. Progress'
  BY <1>1, <1>2 DEF serverVars, Durable, Progress
<1>7. FileMatchesMemory' /\ BootsUnlessUpset' /\ RefusedOnlyIfUpset'
  BY <1>4 DEF serverVars, Durable, FileMatchesMemory, BootsUnlessUpset,
     RefusedOnlyIfUpset, Readable
<1>8. QED
  BY <1>5, <1>6, <1>7 DEF Durable

LEMMA CrashDurable ==
  ASSUME Typed, Durable, Crash
  PROVE  Durable'
<1> USE DEF Typed
<1>1. \A p \in Pages : update'[p].at \notin Stages
  BY CrashUpdate DEF Stages
<1>2. /\ server = "up" /\ server' = "down" /\ file' = file
      /\ \A k \in Kinds :
           upset'[k] = (upset[k] \/ \E p \in Working(k) : update[p].at = "write")
  BY DEF Crash
<1>3. BootsUnlessUpset'
  <2>1. ASSUME NEW k \in Kinds, ~upset'[k]
        PROVE  Readable(k)'
    <3>1. Readable(k)
      BY <1>2, <2>1, UpReadable
    <3>2. QED
      BY <1>2, <3>1 DEF Readable
  <2>2. QED
    BY <2>1 DEF BootsUnlessUpset
<1>4. QED
  BY <1>1, <1>2, <1>3 DEF Durable, Alone, Progress, FileMatchesMemory, RefusedOnlyIfUpset

LEMMA BootDurable ==
  ASSUME Typed, Durable, Boot
  PROVE  Durable'
<1>1. \A p \in Pages : update'[p].at \notin Stages
  BY DEF Boot, Durable, Alone
<1>2. Alone' /\ Progress'
  BY <1>1 DEF Alone, Progress
<1>3. CASE \A k \in Kinds : Readable(k)
  BY <1>2, <1>3 DEF Boot, Durable, FileMatchesMemory, BootsUnlessUpset, RefusedOnlyIfUpset
<1>4. CASE ~ \A k \in Kinds : Readable(k)
  <2>1. \E k \in Kinds : upset[k]
    BY <1>4 DEF Boot, Durable, BootsUnlessUpset
  <2>2. QED
    BY <1>2, <1>4, <2>1 DEF Boot, Durable, FileMatchesMemory, BootsUnlessUpset,
       RefusedOnlyIfUpset
<1>5. QED
  BY <1>3, <1>4

LEMMA DurableStep == Typed /\ Durable /\ [Next]_vars => Durable'
<1> SUFFICES ASSUME Typed, Durable, [Next]_vars PROVE Durable'
  OBVIOUS
<1> USE DEF Typed
<1>1. ASSUME NEW p \in Pages, ServerStep(p)
      PROVE  Durable'
  <2>1. CASE Receive(p)
    BY <2>1, ReceiveDurable
  <2>2. CASE ~Receive(p)
    BY <1>1, <2>2, HandlerOnward, HandlerUpdate, OnwardDurable, OnlyOwn
  <2>3. QED
    BY <2>1, <2>2
<1>2. ASSUME NEW p \in Pages, Saved(p)
      PROVE  Durable'
  <2>1. update[p].at \notin Stages /\ update'[p].at \notin Stages
    BY <1>2, IdleType DEF Saved, Shape, Answers, Stages
  <2>2. \A q \in Pages \ {p} : update'[q] = update[q]
    BY <1>2 DEF Saved, Shape
  <2>3. QED
    BY <1>2, <2>1, <2>2, ElsewhereDurable DEF Saved, history
<1>3. ASSUME NEW p \in Pages, Reject(p)
      PROVE  Durable'
  <2>1. CASE update' = [update EXCEPT ![p].at = "rejected"] /\ update[p].at = "sent"
    BY <1>3, <2>1, UpdateAt, ElsewhereDurable DEF Reject, history, Stages
  <2>2. CASE UNCHANGED update
    BY <1>3, <2>2, ElsewhereDurable DEF Reject, history
  <2>3. QED
    BY <1>3, <2>1, <2>2 DEF Reject
<1>4. ASSUME NEW p \in Pages, Save(p)
      PROVE  Durable'
  <2>1. UNCHANGED <<form, serverVars, upset>>
    BY <1>4 DEF Save, history
  <2>2. CASE Sends(p)
    <3>1. update[p].at = "none"
      BY <1>4 DEF Save, TypeOK
    <3>2. update'[p].at = "sent" /\ \A q \in Pages \ {p} : update'[q] = update[q]
      BY <1>4, <2>2 DEF Save, Begun, Shape
    <3>3. QED
      BY <2>1, <3>1, <3>2, ElsewhereDurable DEF Stages
  <2>3. CASE UNCHANGED update
    BY <2>1, <2>3, ElsewhereDurable
  <2>4. QED
    BY <1>4, <2>2, <2>3 DEF Save
<1>5. CASE UNCHANGED <<form, serverVars, update, upset>>
  BY <1>5, ElsewhereDurable
<1>6. QED
  <2>1. ASSUME NEW p \in Pages, AnswerLoad(p) \/ Loaded(p) \/ HideSuccess(p)
        PROVE  UNCHANGED <<form, serverVars, update, upset>>
    BY <2>1 DEF AnswerLoad, Loaded, HideSuccess, history
  <2>2. ASSUME NEW p \in Pages, NEW d, EditPolicies(p, d) \/ EditPort(p, d)
        PROVE  UNCHANGED <<form, serverVars, update, upset>>
    BY <2>2 DEF EditPolicies, EditPort, history
  <2>3. UNCHANGED vars => UNCHANGED <<form, serverVars, update, upset>>
    BY DEF vars, history
  <2>4. QED
    BY <1>1, <1>2, <1>3, <1>4, <1>5, <2>1, <2>2, <2>3, CrashDurable, BootDurable
    DEF Next, PageStep

\* Documents survive a restart: file and memory differ, and a server refuses to
\* start, only after two saves of a document overlapped, a write failed or a
\* crash cut one short (policies.rs load and save, settings.rs
\* update_server_settings, main.rs load(..)?).
THEOREM DocumentsSurvive == Spec => []DocumentsDurable
<1>1. Typed /\ Durable => DocumentsDurable
  BY DEF Typed, Durable, DocumentsDurable
<1>2. QED
  BY <1>1, TypedInit, TypedStep, DurableInit, DurableStep, PTL DEF Spec

-----------------------------------------------------------------------------
(* "Saved" on the policies page.                                           *)

WroteFirst ==
  \A p \in Pages :
    form[p] = "policies" /\ update[p].at \in {"store", "ok"} => update[p].wrote

LEMMA WroteFirstStep == Typed /\ WroteFirst /\ [Next]_vars => WroteFirst'
<1> SUFFICES ASSUME Typed, WroteFirst, [Next]_vars PROVE WroteFirst'
  OBVIOUS
<1> USE DEF Typed
<1>1. ASSUME NEW p \in Pages, Receive(p)
      PROVE  WroteFirst'
  <2>1. form[p] = "policies" => FirstStage(p) \notin {"store", "ok"}
    <3>1. form[p] = "policies" => update[p].doc \in SUBSET Entries
      BY <1>1, ReceiveUpdate DEF OwnKind
    <3>2. form[p] = "policies" => update[p].doc # LowPort
      BY <3>1, DocumentsAssumption
    <3>3. QED
      BY <3>2 DEF FirstStage
  <2>2. form' = form
    BY <1>1 DEF Receive
  <2>3. QED
    BY <1>1, <2>1, <2>2, ReceiveUpdate DEF WroteFirst
<1>2. ASSUME NEW p \in Pages, ServerStep(p), ~Receive(p)
      PROVE  WroteFirst'
  <2>1. form[p] = "policies" /\ update'[p].at \in {"store", "ok"} => update'[p].wrote
    <3>1. CASE ReadConfig(p)
      <4>1. update[p].at = "read"
        BY <3>1, ReadUpdate
      <4>2. form[p] # "policies"
        BY <4>1 DEF OwnKind
      <4>3. QED
        BY <4>2
    <3>2. CASE WriteError(p)
      <4>1. update'[p].at = AfterError(p)
        BY <3>2, ErrorUpdate
      <4>2. QED
        BY <4>1 DEF AfterError, Kind
    <3>3. CASE update' = [update EXCEPT ![p].at = "write"]
      <4>1. update'[p].at = "write"
        BY <3>3, UpdateAt
      <4>2. QED
        BY <4>1
    <3>4. CASE update' = [update EXCEPT ![p].at = "store", ![p].wrote = TRUE]
      BY <3>4, WriteUpdate
    <3>5. CASE Store(p)
      <4>1. update[p].at = "store" /\ update' = [update EXCEPT ![p].at = "ok"]
        BY <3>5 DEF Store
      <4>2. update'[p].wrote = update[p].wrote
        BY <4>1, UpdateAt
      <4>3. QED
        BY <4>1, <4>2 DEF WroteFirst
    <3>6. QED
      BY <1>2, <3>1, <3>2, <3>3, <3>4, <3>5 DEF ServerStep, Truncate, WriteFile
  <2>2. form' = form
    BY <1>2, HandlerUpdate
  <2>3. QED
    BY <1>2, <2>1, <2>2, OnlyOwn DEF WroteFirst
<1>3. ASSUME NEW p \in Pages, Saved(p)
      PROVE  WroteFirst'
  <2>1. /\ form' = form /\ update'[p].at = "none"
        /\ \A q \in Pages \ {p} : update'[q] = update[q]
    BY <1>3, IdleType DEF Saved, Shape
  <2>2. QED
    BY <2>1 DEF WroteFirst
<1>4. ASSUME NEW p \in Pages, Reject(p)
      PROVE  WroteFirst'
  <2>1. CASE update' = [update EXCEPT ![p].at = "rejected"]
    BY <1>4, <2>1, UpdateAt DEF Reject, WroteFirst
  <2>2. CASE UNCHANGED update
    BY <1>4, <2>2 DEF Reject, WroteFirst
  <2>3. QED
    BY <1>4, <2>1, <2>2 DEF Reject
<1>5. ASSUME NEW p \in Pages, Save(p)
      PROVE  WroteFirst'
  <2>1. CASE Sends(p)
    <3>1. /\ form' = form /\ update'[p].at = "sent"
          /\ \A q \in Pages \ {p} : update'[q] = update[q]
      BY <1>5, <2>1 DEF Save, Begun, Shape
    <3>2. QED
      BY <3>1 DEF WroteFirst
  <2>2. CASE ~Sends(p)
    BY <1>5, <2>2 DEF Save, WroteFirst
  <2>3. QED
    BY <2>1, <2>2
<1>6. CASE Crash
  BY <1>6, CrashUpdate DEF Crash, WroteFirst
<1>7. CASE UNCHANGED <<form, update>>
  BY <1>7 DEF WroteFirst
<1>8. QED
  <2>1. ASSUME NEW p \in Pages, AnswerLoad(p) \/ Loaded(p) \/ HideSuccess(p)
        PROVE  UNCHANGED <<form, update>>
    BY <2>1 DEF AnswerLoad, Loaded, HideSuccess
  <2>2. ASSUME NEW p \in Pages, NEW d, EditPolicies(p, d) \/ EditPort(p, d)
        PROVE  UNCHANGED <<form, update>>
    BY <2>2 DEF EditPolicies, EditPort
  <2>3. Boot \/ UNCHANGED vars => UNCHANGED <<form, update>>
    BY DEF Boot, vars
  <2>4. QED
    BY <1>1, <1>2, <1>3, <1>4, <1>5, <1>6, <1>7, <2>1, <2>2, <2>3 DEF Next, PageStep

\* Only an answer makes the note "saved".
LEMMA SavedOnlyByAnswer ==
  ASSUME Typed, [Next]_vars, NEW p \in Pages, note'[p] = "saved", note[p] # "saved"
  PROVE  update[p].at = "ok"
<1> USE DEF Typed
<1>1. ASSUME NEW q \in Pages, Saved(q)
      PROVE  update[p].at = "ok"
  BY <1>1 DEF Saved, Shape, Answers
<1>2. ASSUME NEW q \in Pages,
             Loaded(q) \/ Save(q) \/ HideSuccess(q)
      PROVE  FALSE
  BY <1>2 DEF Loaded, LoadedPolicies, LoadedPort, Save, HideSuccess, Shape
<1>3. ASSUME NEW q \in Pages, ServerStep(q) \/ AnswerLoad(q) \/ Reject(q)
      PROVE  FALSE
  BY <1>3, HandlerUpdate DEF AnswerLoad, Reject, pageVars
<1>4. ASSUME NEW q \in Pages, NEW d, EditPolicies(q, d) \/ EditPort(q, d)
      PROVE  FALSE
  BY <1>4 DEF EditPolicies, EditPort
<1>5. ~ (Crash \/ Boot \/ UNCHANGED vars)
  BY DEF Crash, Boot, vars, pageVars
<1>6. QED
  BY <1>1, <1>2, <1>3, <1>4, <1>5 DEF Next, PageStep

\* The policies page says "saved" only of a document that reached the file
\* (policies/page.tsx savePolicies, main.rs update_policies).
THEOREM SavedIsWritten == Spec => SavedWasWritten
<1>1. Init => WroteFirst
  BY IdleType DEF Init, WroteFirst
<1>2. Typed /\ WroteFirst /\ [Next]_vars =>
        [\A p \in Pages : form[p] = "policies" /\ note'[p] = "saved" /\ note[p] # "saved"
                            => update[p].wrote]_vars
  BY SavedOnlyByAnswer DEF WroteFirst
<1>3. QED
  BY <1>1, <1>2, TypedInit, TypedStep, WroteFirstStep, PTL DEF Spec, SavedWasWritten

-----------------------------------------------------------------------------
(* What a save of the policies takes away.                                 *)

\* A policies page edits what it loaded, once, and saves what it edited: the
\* entries it loaded and kept are in its draft and in the update it sends.
KeepsSeen ==
  \A p \in Pages : form[p] = "policies" =>
    /\ load[p].at # "none" => update[p].at = "none" /\ draft[p] = Nothing
    /\ draft[p] # Nothing => seen[p].loaded \ seen[p].removed \subseteq draft[p]
    /\ update[p].at # "none" => seen[p].loaded \ seen[p].removed \subseteq update[p].doc

LEMMA KeepsSeenInit == Init => KeepsSeen
BY IdleType DEF Init, KeepsSeen

LEMMA KeepsSeenStep == Typed /\ KeepsSeen /\ [Next]_vars => KeepsSeen'
<1> SUFFICES ASSUME Typed, KeepsSeen, [Next]_vars PROVE KeepsSeen'
  OBVIOUS
<1> USE DEF Typed
<1>1. ASSUME NEW p \in Pages, ServerStep(p)
      PROVE  KeepsSeen'
  <2>1. \A q \in Pages : update'[q].at # "none" => update[q].at # "none"
    BY <1>1, HandlerUpdate
  <2>2. UNCHANGED <<form, load, draft, seen>>
    BY <1>1, HandlerUpdate DEF pageVars
  <2>3. QED
    BY <1>1, <2>1, <2>2, HandlerUpdate DEF KeepsSeen
<1>2. ASSUME NEW p \in Pages, AnswerLoad(p)
      PROVE  KeepsSeen'
  <2>1. /\ UNCHANGED <<form, update, draft, seen>> /\ load[p].at = "asked"
        /\ \A q \in Pages \ {p} : load'[q] = load[q]
    BY <1>2 DEF AnswerLoad, pageVars, history, Shape
  <2>2. QED
    BY <2>1 DEF KeepsSeen
<1>3. ASSUME NEW p \in Pages, Loaded(p)
      PROVE  KeepsSeen'
  <2>1. /\ UNCHANGED <<form, update>> /\ load'[p].at = "none"
        /\ \A q \in Pages \ {p} : load'[q] = load[q] /\ draft'[q] = draft[q] /\ seen'[q] = seen[q]
    BY <1>3 DEF Loaded, LoadedPolicies, LoadedPort, Shape
  <2>2. load[p].at # "none"
    BY <1>3 DEF Loaded
  <2>3. form[p] = "policies" =>
          \/ draft'[p] = load[p].doc /\ seen'[p].loaded = load[p].doc
          \/ draft'[p] = draft[p]
    BY <1>3 DEF Loaded, LoadedPolicies, LoadedPort, Shape
  <2>4. form[p] = "policies" =>
          /\ draft'[p] # Nothing => seen'[p].loaded \ seen'[p].removed \subseteq draft'[p]
          /\ update'[p].at = "none"
    BY <2>1, <2>2, <2>3 DEF KeepsSeen
  <2>5. QED
    BY <2>1, <2>4 DEF KeepsSeen
<1>4. ASSUME NEW p \in Pages, Saved(p)
      PROVE  KeepsSeen'
  <2>1. /\ UNCHANGED <<form, load, draft, seen>> /\ update'[p].at = "none"
        /\ \A q \in Pages \ {p} : update'[q] = update[q]
    BY <1>4, IdleType DEF Saved, history, Shape
  <2>2. QED
    BY <2>1 DEF KeepsSeen
<1>5. ASSUME NEW p \in Pages, Reject(p)
      PROVE  KeepsSeen'
  <2>1. UNCHANGED <<form, draft, seen>>
    BY <1>5 DEF Reject, pageVars, history
  <2>2. CASE load' = [load EXCEPT ![p].at = "rejected"] /\ load[p].at = "asked"
             /\ update' = update
    <3>1. \A q \in Pages \ {p} : load'[q] = load[q]
      BY <2>2 DEF Shape
    <3>2. QED
      BY <2>1, <2>2, <3>1 DEF KeepsSeen
  <2>3. CASE update' = [update EXCEPT ![p].at = "rejected"] /\ update[p].at = "sent"
             /\ load' = load
    BY <2>1, <2>3, UpdateAt DEF KeepsSeen
  <2>4. QED
    BY <1>5, <2>2, <2>3 DEF Reject
<1>6. ASSUME NEW p \in Pages, Save(p)
      PROVE  KeepsSeen'
  <2>1. UNCHANGED <<form, load, draft, seen>> /\ draft[p] # Nothing
    BY <1>6 DEF Save, history
  <2>2. CASE Sends(p)
    <3>1. update'[p].doc = draft[p] /\ \A q \in Pages \ {p} : update'[q] = update[q]
      BY <1>6, <2>2 DEF Save, Begun, Shape
    <3>2. QED
      BY <2>1, <3>1 DEF KeepsSeen
  <2>3. CASE ~Sends(p)
    BY <1>6, <2>1, <2>3 DEF Save, KeepsSeen
  <2>4. QED
    BY <2>2, <2>3
<1>7. ASSUME NEW p \in Pages, NEW e \in Entries, EditPolicies(p, e)
      PROVE  KeepsSeen'
  <2>1. /\ UNCHANGED <<form, load, update>>
        /\ \A q \in Pages \ {p} : draft'[q] = draft[q] /\ seen'[q] = seen[q]
    BY <1>7 DEF EditPolicies, Shape
  <2>2. /\ draft[p] # Nothing
        /\ draft'[p] = IF e \in draft[p] THEN draft[p] \ {e} ELSE draft[p] \cup {e}
        /\ seen'[p].loaded = seen[p].loaded
        /\ seen'[p].removed = IF e \in draft[p] THEN seen[p].removed \cup {e}
                                               ELSE seen[p].removed
    BY <1>7 DEF EditPolicies, Shape
  <2>3. QED
    BY <2>1, <2>2 DEF KeepsSeen
<1>8. ASSUME NEW p \in Pages, NEW port \in Ports, EditPort(p, port)
      PROVE  KeepsSeen'
  <2>1. /\ UNCHANGED <<form, load, update, seen>> /\ form[p] # "policies"
        /\ \A q \in Pages \ {p} : draft'[q] = draft[q]
    BY <1>8 DEF EditPort, history, Shape
  <2>2. QED
    BY <2>1 DEF KeepsSeen
<1>9. CASE Crash
  <2>1. UNCHANGED <<form, load, draft, seen>>
    BY <1>9 DEF Crash, pageVars
  <2>2. \A q \in Pages : update'[q].at # "none" => update[q].at # "none"
    BY <1>9, CrashUpdate DEF Stages
  <2>3. QED
    BY <1>9, <2>1, <2>2, CrashUpdate DEF KeepsSeen, Stages
<1>10. CASE UNCHANGED <<form, load, draft, update, seen>>
  BY <1>10 DEF KeepsSeen
<1>11. QED
  <2>1. ASSUME NEW p \in Pages, HideSuccess(p)
        PROVE  UNCHANGED <<form, load, draft, update, seen>>
    BY <2>1 DEF HideSuccess, history
  <2>2. Boot \/ UNCHANGED vars => UNCHANGED <<form, load, draft, update, seen>>
    BY DEF Boot, vars, pageVars, history
  <2>3. QED
    BY <1>1, <1>2, <1>3, <1>4, <1>5, <1>6, <1>7, <1>8, <1>9, <1>10, <2>1, <2>2
    DEF Next, PageStep

\* While the server runs, only a handler that stores changes the memory.
LEMMA MemoryByStore ==
  ASSUME [Next]_vars, server = "up", memory' # memory
  PROVE  \E p \in Pages : Store(p)
<1>1. ASSUME NEW p \in Pages, ServerStep(p), ~Store(p)
      PROVE  memory' = memory
  BY <1>1 DEF ServerStep, Receive, ReadConfig, Truncate, WriteFile, serverVars
<1>2. ASSUME NEW p \in Pages, PageStep(p) \/ Save(p) \/ HideSuccess(p)
      PROVE  memory' = memory
  BY <1>2 DEF PageStep, AnswerLoad, Loaded, Saved, Reject, Save, HideSuccess, serverVars
<1>3. ASSUME NEW p \in Pages, NEW d, EditPolicies(p, d) \/ EditPort(p, d)
      PROVE  memory' = memory
  BY <1>3 DEF EditPolicies, EditPort, serverVars
<1>4. Crash \/ UNCHANGED vars => memory' = memory
  BY DEF Crash, vars, serverVars
<1>5. ~Boot
  BY DEF Boot
<1>6. QED
  BY <1>1, <1>2, <1>3, <1>4, <1>5 DEF Next

LEMMA LossIsStale ==
  ASSUME Typed, KeepsSeen, [Next]_vars, server = "up",
         NEW e \in memory.policies \ memory'.policies
  PROVE  \E p \in Pages :
           /\ update'[p] # update[p]
           /\ e \in seen[p].removed \/ e \notin seen[p].loaded
<1> USE DEF Typed
<1>1. PICK p \in Pages : Store(p)
  BY MemoryByStore
<1>2. update[p].at = "store" /\ update'[p].at = "ok"
  BY <1>1, UpdateAt DEF Store
<1>3. Kind(p) = "policies"
  <2>1. CASE Kind(p) = "port"
    BY <1>1, <2>1 DEF Store, Shape, Kinds
  <2>2. QED
    BY <2>1 DEF Kind
<1>4. memory'.policies = update[p].doc
  BY <1>1, <1>3 DEF Store, Shape, Kinds
<1>5. form[p] = "policies"
  BY <1>3 DEF Kind
<1>6. e \notin seen[p].loaded \ seen[p].removed
  BY <1>2, <1>4, <1>5 DEF KeepsSeen
<1>7. QED
  BY <1>2, <1>6

\* An entry of the policies is lost only by the save of a page whose user took
\* it away or that never saw it (policies/page.tsx, main.rs update_policies).
THEOREM LossesAreStale == Spec => LostOnlyByStale
<1>1. Typed /\ KeepsSeen /\ [Next]_vars =>
        [\A e \in memory.policies \ memory'.policies :
           server = "up" => \E p \in Pages :
                               /\ update'[p] # update[p]
                               /\ e \in seen[p].removed \/ e \notin seen[p].loaded]_vars
  BY LossIsStale
<1>2. QED
  BY <1>1, TypedInit, TypedStep, KeepsSeenInit, KeepsSeenStep, PTL
  DEF Spec, LostOnlyByStale
=============================================================================
