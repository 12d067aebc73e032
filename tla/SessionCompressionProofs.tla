---------------------- MODULE SessionCompressionProofs ----------------------
(***************************************************************************)
(* Proofs about the session-compression extension.                         *)
(* SessionCompression: for any number of calls, however they overlap,      *)
(* abort or are days apart, the types, what a record and a duplicate's     *)
(* answer stand for, and that calls one after the other write the results  *)
(* of a key once.                                                          *)
(* CompressionTiers: for any input and any answers of the LLM, that a call *)
(* keeps within its policy, keeps the quality it promises and answers what *)
(* it did; and that the score's table is the longest common subsequence.   *)
(***************************************************************************)
EXTENDS SessionCompression, CompressionTiers, FiniteSetTheorems, WellFoundedInduction, TLAPS

-----------------------------------------------------------------------------
(* Where a call is, and what it has done by then.                          *)

Progress ==
  \A c \in Calls :
    /\ pc[c] \in {"none", "check"} => processed[c] = 0
    /\ pc[c] \in {"process", "summary"} => processed[c] < Len(request[c].sources)
    /\ pc[c] \in {"summary", "index", "timeline", "store", "save"} => ~request[c].dry
    /\ c \in opened => pc[c] \in Writing
    /\ c \in recorded => pc[c] \in {"clean", "resave", "done", "failed"} /\ ~request[c].dry

\* The flag is raised before two calls run at the same time, and a file that a
\* call has opened is still empty unless it is.
Apart ==
  ~overlapped =>
    /\ \A c, d \in Calls : pc[c] \in Running /\ pc[d] \in Running => c = d
    /\ \A c \in opened : disk[Target(c)] = Empty

\* What RecordedIsComplete says of a summary file.
Whole(f) ==
  /\ disk[f] # Missing
  /\ \/ disk[f] \in Sources
     \/ f \in cut
     \/ \E d \in opened : Target(d) = f
     \/ overlapped /\ disk[f] = Garbled

\* A call leaves its files behind in the order in which it writes them.
TrailOf(c) ==
  /\ ~request[c].dry /\ pc[c] \in {"process", "summary"} =>
       \A i \in 1 .. processed[c] : Whole(FileOf[request[c].sources[i]])
  /\ pc[c] \in {"index", "timeline", "store", "save"} \/ c \in recorded =>
       \A s \in SourcesOf(c) : Whole(FileOf[s])
  /\ pc[c] \in {"timeline", "store", "save"} \/ c \in recorded =>
       disk[IndexFile] # Missing
  /\ pc[c] \in {"store", "save"} \/ c \in recorded =>
       disk[TimelineFile] # Missing

Trail == \A c \in Calls : TrailOf(c)

\* A record, in the file or in the memory of a call that will write it, is that
\* of a call which has written it, and is found under that call's key.
Traced ==
  /\ \A k \in Keys :
       LoadRecords[k] # NoCall =>
         LoadRecords[k] \in recorded /\ request[LoadRecords[k]].key = k
  /\ \A c \in Calls, k \in Keys :
       pc[c] \in {"save", "resave"} /\ loaded[c][k] # NoCall =>
         /\ loaded[c][k] \in recorded \/ (pc[c] = "save" /\ loaded[c][k] = c)
         /\ request[loaded[c][k]].key = k

\* A call that is answered as a duplicate has seen a record of its key, which is
\* still there when it reads the file again unless another call runs.
Answered ==
  \A c \in Calls :
    /\ pc[c] \in {"existing", "duplicate"} =>
         \E d \in recorded \ {c} :
           /\ request[d].key = request[c].key
           /\ pc[c] = "duplicate" /\ ~overlapped => answer[c] = Len(request[d].sources)
    /\ pc[c] = "existing" /\ ~overlapped => LoadRecords[request[c].key] # NoCall

\* While calls do not overlap and no save is cut short, the file, or the call
\* that is writing it, holds every record of the day, and none under the key of
\* a call that is doing its work.
Kept ==
  ~overlapped /\ RecordsFile \notin cut =>
    /\ (\A d \in opened : pc[d] \notin {"save", "resave"}) =>
         \A c \in recorded \ expired : LoadRecords[request[c].key] = c
    /\ \A d \in Calls :
         pc[d] \in {"process", "summary", "index", "timeline", "store"} =>
           LoadRecords[request[d].key] = NoCall
    /\ \A d \in Calls :
         pc[d] \in {"save", "resave"} =>
           \A c \in recorded \ expired : loaded[d][request[c].key] = c
    /\ \A d \in Calls : pc[d] = "save" => loaded[d][request[d].key] = d

CallsInv == Progress /\ Apart /\ Trail /\ Traced /\ Answered /\ Kept
-----------------------------------------------------------------------------
(* The operators.                                                          *)

LEMMA AfterIs ==
  \A r \in Requests, n \in Nat :
    /\ After(r, n) \in {"process", "clean", "index"}
    /\ After(r, n) = "process" <=> n < Len(r.sources)
    /\ After(r, n) = "index" <=> n >= Len(r.sources) /\ ~r.dry
  BY RequestsAssumption DEF After, Request

\* The file that a call writes at each place, what it writes there and where it
\* is then.
LEMMA SummaryWrite ==
  ASSUME NEW c \in Calls, pc[c] = "summary"
  PROVE  /\ Target(c) = FileOf[request[c].sources[processed[c] + 1]]
         /\ Contents(c) = request[c].sources[processed[c] + 1]
         /\ AfterWrite(c) = After(request[c], processed[c] + 1)
  BY DEF Target, Contents, AfterWrite

LEMMA IndexWrite ==
  ASSUME NEW c \in Calls, pc[c] = "index"
  PROVE  Target(c) = IndexFile /\ Contents(c) = SourcesOf(c) /\ AfterWrite(c) = "timeline"
  BY DEF Target, Contents, AfterWrite

LEMMA TimelineWrite ==
  ASSUME NEW c \in Calls, pc[c] = "timeline"
  PROVE  Target(c) = TimelineFile /\ Contents(c) = SourcesOf(c) /\ AfterWrite(c) = "store"
  BY DEF Target, Contents, AfterWrite

LEMMA RecordsWrite ==
  ASSUME NEW c \in Calls, pc[c] \in {"save", "resave"}
  PROVE  /\ Target(c) = RecordsFile /\ Contents(c) = loaded[c]
         /\ AfterWrite(c) = IF pc[c] = "save" THEN "clean" ELSE "done"
  BY DEF Target, Contents, AfterWrite

LEMMA RequestIs ==
  ASSUME TypeOK, NEW c \in Calls
  PROVE  /\ request[c] \in Requests /\ request[c].key \in Keys /\ request[c].dry \in BOOLEAN
         /\ request[c].sources \in Seq(Sources) /\ Len(request[c].sources) \in Nat
         /\ \A i \in 1 .. Len(request[c].sources) :
              /\ request[c].sources[i] \in Sources
              /\ FileOf[request[c].sources[i]] \in SummaryFiles
         /\ SourcesOf(c) = {request[c].sources[i] : i \in 1 .. Len(request[c].sources)}
         /\ SourcesOf(c) \subseteq Sources
  BY RequestsAssumption, FilesAssumption DEF TypeOK, Request, SourcesOf

LEMMA NextPlaces ==
  ASSUME TypeOK, NEW c \in Calls
  PROVE  /\ After(request[c], 0) \in {"process", "clean", "index"}
         /\ After(request[c], processed[c] + 1) \in {"process", "clean", "index"}
<1>1. request[c] \in Requests /\ processed[c] + 1 \in Nat
  BY DEF TypeOK
<1>2. QED
  BY <1>1, AfterIs

\* A call that is writing knows its file and its contents.
LEMMA WriteIs ==
  ASSUME TypeOK, Progress, NEW c \in Calls, pc[c] \in Writing
  PROVE  /\ Target(c) \in Files
         /\ Target(c) \in SummaryFiles <=> pc[c] = "summary"
         /\ Target(c) = IndexFile <=> pc[c] = "index"
         /\ Target(c) = TimelineFile <=> pc[c] = "timeline"
         /\ Target(c) = RecordsFile <=> pc[c] \in {"save", "resave"}
         /\ pc[c] = "summary" => Contents(c) \in Sources
         /\ pc[c] \in {"index", "timeline"} => Contents(c) \in SUBSET Sources
         /\ pc[c] \in {"save", "resave"} => Contents(c) \in Records /\ Contents(c) = loaded[c]
         /\ AfterWrite(c) \in {"process", "clean", "index", "timeline", "store", "done"}
         /\ pc[c] = "summary" => AfterWrite(c) = After(request[c], processed[c] + 1)
         /\ pc[c] = "index" => AfterWrite(c) = "timeline"
         /\ pc[c] = "timeline" => AfterWrite(c) = "store"
         /\ pc[c] = "save" => AfterWrite(c) = "clean"
         /\ pc[c] = "resave" => AfterWrite(c) = "done"
<1>1. CASE pc[c] = "summary"
  <2>1. processed[c] \in Nat /\ processed[c] + 1 \in 1 .. Len(request[c].sources)
    BY <1>1, RequestIs DEF TypeOK, Progress
  <2>2. QED
    BY <1>1, <2>1, SummaryWrite, RequestIs, AfterIs, FilesAssumption DEF Files
<1>2. CASE pc[c] \in {"index", "timeline"}
  BY <1>2, IndexWrite, TimelineWrite, RequestIs, FilesAssumption DEF Files
<1>3. CASE pc[c] \in {"save", "resave"}
  BY <1>3, RecordsWrite, FilesAssumption DEF Files, TypeOK
<1>4. QED
  BY <1>1, <1>2, <1>3 DEF Writing

LEMMA LoadedIs == TypeOK => LoadRecords \in Records
  BY DEF TypeOK, LoadRecords, NoRecords, Records

\* What the provers need to know of the markers.
LEMMA MarkersApart ==
  /\ NoCall \notin Calls
  /\ Missing # Empty /\ Missing # Garbled /\ Empty # Garbled
  /\ Missing \notin Sources /\ Empty \notin Sources /\ Garbled \notin Sources
  /\ \A S \in SUBSET Sources : S \notin Unreadable
  /\ \A R \in Records : R \notin Unreadable
  BY MarkersAssumption DEF Unreadable

LEMMA OverwrittenIs ==
  ASSUME NEW old, NEW new
  PROVE  \A v \in Overwritten(old, new) :
           (v = new \/ v = Garbled) /\ (old = Empty => v = new)
  BY DEF Overwritten

-----------------------------------------------------------------------------
(* A step is one call's, a day's, or changes nothing.                      *)

Step(c) ==
  \/ \E r \in Requests : Start(c, r)
  \/ CheckDuplicate(c)
  \/ AnswerDuplicate(c)
  \/ ProcessSource(c)
  \/ StoreResult(c)
  \/ Cleanup(c)
  \/ OpenFile(c)
  \/ WriteFile(c)
  \/ SaveFails(c)
  \/ Abort(c)

LEMMA StepIs ==
  [Next]_vars => (\E c \in Calls : Step(c)) \/ DayPasses \/ UNCHANGED vars
  BY DEF Next, Step, Quiescent

-----------------------------------------------------------------------------
(* Types, and where a call is.                                             *)

LEMMA TypeInit == Init => TypeOK /\ Progress
<1> SUFFICES ASSUME Init PROVE TypeOK /\ Progress
  OBVIOUS
<1>1. (CHOOSE r \in Requests : TRUE) \in Requests
  BY RequestsAssumption
<1>2. NoRecords \in Records
  BY DEF NoRecords, Records
<1>3. QED
  BY <1>1, <1>2 DEF Init, TypeOK, Progress, Files, Unreadable, Locations

LEMMA TypeStep == TypeOK /\ Progress /\ [Next]_vars => TypeOK' /\ Progress'
<1> SUFFICES ASSUME TypeOK, Progress, [Next]_vars
             PROVE  TypeOK' /\ Progress'
  OBVIOUS
<1> USE DEF TypeOK, Progress
<1>l. /\ Writing \subseteq Locations /\ Running \subseteq Locations
      /\ {"process", "clean", "index", "timeline", "store", "done", "failed", "check",
          "existing", "duplicate", "summary", "save", "resave"} \subseteq Locations
  BY DEF Writing, Running, Locations
<1>1. ASSUME NEW c \in Calls, NEW r \in Requests, Start(c, r)
      PROVE  TypeOK' /\ Progress'
  BY <1>1, <1>l DEF Start, Goto, Writing
<1>2. ASSUME NEW c \in Calls, CheckDuplicate(c)
      PROVE  TypeOK' /\ Progress'
  <2>1. request[c] \in Requests /\ After(request[c], 0) \in {"process", "clean", "index"}
    BY AfterIs
  <2>2. QED
    BY <1>2, <2>1, <1>l, AfterIs, RequestIs DEF CheckDuplicate, Goto, history, Writing
<1>3. ASSUME NEW c \in Calls, AnswerDuplicate(c)
      PROVE  TypeOK' /\ Progress'
  <2>1. LoadRecords[request[c].key] \in Calls \cup {NoCall}
    BY LoadedIs, RequestIs DEF Records
  <2>2. Processed(LoadRecords[request[c].key]) \in Nat
    BY <2>1, RequestIs DEF Processed
  <2>3. QED
    BY <1>3, <2>2, <1>l DEF AnswerDuplicate, Goto, history, Writing
<1>4. ASSUME NEW c \in Calls, ProcessSource(c)
      PROVE  TypeOK' /\ Progress'
  <2>1. request[c] \in Requests /\ processed[c] + 1 \in Nat
    OBVIOUS
  <2>a. pc[c] = "process" /\ c \notin opened /\ c \notin recorded
    BY <1>4 DEF ProcessSource, Writing
  <2>2. CASE request[c].dry
    <3>1. /\ After(request[c], processed[c] + 1) \in {"process", "clean"}
          /\ After(request[c], processed[c] + 1) = "process" =>
               processed[c] + 1 < Len(request[c].sources)
      BY <2>1, <2>2, AfterIs
    <3>2. /\ pc' = [pc EXCEPT ![c] = After(request[c], processed[c] + 1)]
          /\ processed' = [processed EXCEPT ![c] = processed[c] + 1]
          /\ UNCHANGED <<disk, request, loaded, opened, answer, expired, recorded, cut, overlapped>>
      BY <1>4, <2>2 DEF ProcessSource, Goto, history
    <3>3. TypeOK'
      BY <2>1, <3>1, <3>2, <1>l
    <3>4. Progress'
      BY <2>1, <2>a, <3>1, <3>2
    <3>5. QED
      BY <3>3, <3>4
  <2>3. CASE ~request[c].dry
    BY <1>4, <2>1, <2>3, <1>l, RequestIs DEF ProcessSource, Goto, history, Writing
  <2>4. QED
    BY <2>2, <2>3
<1>5. ASSUME NEW c \in Calls, StoreResult(c)
      PROVE  TypeOK' /\ Progress'
  <2>1. [LoadRecords EXCEPT ![request[c].key] = c] \in Records
    BY LoadedIs, RequestIs DEF Records
  <2>2. QED
    BY <1>5, <2>1, <1>l DEF StoreResult, Goto, history, Writing
<1>6. ASSUME NEW c \in Calls, Cleanup(c)
      PROVE  TypeOK' /\ Progress'
  <2>1. Fresh(LoadRecords) \in Records
    BY LoadedIs DEF Records, Fresh
  <2>2. pc[c] = "clean" /\ (pc' = [pc EXCEPT ![c] = "done"] \/ pc' = [pc EXCEPT ![c] = "resave"])
    BY <1>6 DEF Cleanup, Goto
  <2>3. loaded' \in [Calls -> Records]
    BY <1>6, <2>1 DEF Cleanup
  <2>4. UNCHANGED <<disk, request, processed, opened, answer, expired, recorded, cut, overlapped>>
    BY <1>6 DEF Cleanup, history
  <2>5. TypeOK'
    BY <2>2, <2>3, <2>4, <1>l
  <2>6. Progress'
    BY <2>2, <2>4 DEF Writing
  <2>7. QED
    BY <2>5, <2>6
<1>7. ASSUME NEW c \in Calls, OpenFile(c)
      PROVE  TypeOK' /\ Progress'
  <2>1. Target(c) \in Files
    BY <1>7, WriteIs DEF OpenFile
  <2>2. DOMAIN disk' = Files /\ \A f \in Files : disk'[f] = IF f = Target(c) THEN Empty ELSE disk[f]
    BY <1>7, <2>1 DEF OpenFile
  <2>3. Progress'
    BY <1>7 DEF OpenFile, history
  <2>4. QED
    BY <1>7, <2>2, <2>3 DEF OpenFile, history, Files, Unreadable
<1>8. ASSUME NEW c \in Calls, WriteFile(c)
      PROVE  TypeOK' /\ Progress'
  <2>1. pc[c] \in Writing /\ Target(c) \in Files
    BY <1>8, WriteIs DEF WriteFile
  <2>2. PICK v \in Overwritten(disk[Target(c)], Contents(c)) :
          disk' = [disk EXCEPT ![Target(c)] = v]
    BY <1>8 DEF WriteFile
  <2>3. DOMAIN disk' = Files /\ \A f \in Files : disk'[f] = IF f = Target(c) THEN v ELSE disk[f]
    BY <2>1, <2>2
  <2>4. v = Contents(c) \/ v = Garbled
    BY OverwrittenIs
  <2>5. /\ \A f \in SummaryFiles : disk'[f] \in Unreadable \cup Sources
        /\ \A f \in {IndexFile, TimelineFile} : disk'[f] \in Unreadable \cup SUBSET Sources
        /\ disk'[RecordsFile] \in Unreadable \cup Records
    <3>1. Garbled \in Unreadable
      BY DEF Unreadable
    <3>2. SummaryFiles \subseteq Files /\ {IndexFile, TimelineFile, RecordsFile} \subseteq Files
      BY DEF Files
    <3>3. \A f \in SummaryFiles : disk'[f] \in Unreadable \cup Sources
      BY <2>1, <2>3, <2>4, <3>1, <3>2, WriteIs
    <3>4. \A f \in {IndexFile, TimelineFile} : disk'[f] \in Unreadable \cup SUBSET Sources
      BY <2>1, <2>3, <2>4, <3>1, <3>2, WriteIs, SMTT(30)
    <3>5. disk'[RecordsFile] \in Unreadable \cup Records
      BY <2>1, <2>3, <2>4, <3>1, <3>2, WriteIs
    <3>6. QED
      BY <3>3, <3>4, <3>5
  <2>6. AfterWrite(c) \in {"process", "clean", "index", "timeline", "store", "done"}
    BY <2>1, WriteIs
  <2>7. pc' \in [Calls -> Locations] /\ processed' \in [Calls -> Nat]
    BY <1>8, <2>6, <1>l DEF WriteFile, Goto
  <2>8. /\ pc'[c] = AfterWrite(c)
        /\ processed'[c] = IF pc[c] = "summary" THEN processed[c] + 1 ELSE processed[c]
        /\ request' = request
        /\ opened' = opened \ {c}
        /\ recorded' = IF pc[c] = "save" THEN recorded \cup {c} ELSE recorded
        /\ \A d \in Calls \ {c} : pc'[d] = pc[d] /\ processed'[d] = processed[d]
    BY <1>8 DEF WriteFile, Goto
  <2>9. Progress'
    <3>1. pc[c] = "summary" => AfterWrite(c) = After(request[c], processed[c] + 1)
      BY <2>1, WriteIs
    <3>2. c \in recorded' => pc'[c] \in {"clean", "resave", "done", "failed"} /\ ~request[c].dry
      BY <2>1, <2>8, WriteIs DEF Writing
    <3>3. pc'[c] \in {"process", "summary"} => processed'[c] < Len(request[c].sources)
      <4>1. CASE pc[c] = "summary"
        <5>1. request[c] \in Requests /\ processed[c] + 1 \in Nat
          OBVIOUS
        <5>2. /\ After(request[c], processed[c] + 1) \in {"process", "clean", "index"}
              /\ After(request[c], processed[c] + 1) = "process" =>
                   processed[c] + 1 < Len(request[c].sources)
          BY <5>1, AfterIs
        <5>3. QED
          BY <2>8, <3>1, <4>1, <5>2
      <4>2. CASE pc[c] # "summary"
        BY <2>1, <2>8, <4>2, WriteIs DEF Writing
      <4>3. QED
        BY <4>1, <4>2
    <3>4. pc'[c] \notin {"none", "check"}
      BY <2>6, <2>8
    <3>5. pc'[c] \in {"summary", "index", "timeline", "store", "save"} => ~request[c].dry
      BY <2>1, <2>8, WriteIs DEF Writing
    <3>6. QED
      BY <2>8, <3>2, <3>3, <3>4, <3>5
  <2>10. QED
    BY <1>8, <2>3, <2>5, <2>7, <2>8, <2>9 DEF WriteFile
<1>9. ASSUME NEW c \in Calls, SaveFails(c)
      PROVE  TypeOK' /\ Progress'
  <2>1. Target(c) = RecordsFile /\ AfterWrite(c) = IF pc[c] = "save" THEN "clean" ELSE "done"
    BY <1>9, RecordsWrite DEF SaveFails
  <2>2. QED
    BY <1>9, <2>1, <1>l DEF SaveFails, CutShort, Goto, Writing, Files
<1>10. ASSUME NEW c \in Calls, Abort(c)
       PROVE  TypeOK' /\ Progress'
  <2>1. c \in opened => Target(c) \in Files
    BY WriteIs
  <2>2. QED
    BY <1>10, <2>1, <1>l DEF Abort, CutShort, Goto, Writing
<1>11. CASE DayPasses
  BY <1>11 DEF DayPasses, call, history
<1>12. CASE UNCHANGED vars
  BY <1>12 DEF vars, call, history
<1>13. QED
  BY <1>1, <1>2, <1>3, <1>4, <1>5, <1>6, <1>7, <1>8, <1>9, <1>10, <1>11, <1>12
     DEF Next, Quiescent

THEOREM CallTypeCorrect == Spec => []TypeOK
<1>1. Spec => [](TypeOK /\ Progress)
  BY TypeInit, TypeStep, PTL DEF Spec
<1>2. QED
  BY <1>1, PTL

-----------------------------------------------------------------------------
(* What a step of one call leaves alone.                                   *)

\* Of the other calls, all but the overlap flag.
LEMMA OthersStay ==
  ASSUME TypeOK, NEW c \in Calls, Step(c), NEW d \in Calls \ {c}
  PROVE  /\ pc'[d] = pc[d] /\ request'[d] = request[d] /\ processed'[d] = processed[d]
         /\ loaded'[d] = loaded[d] /\ answer'[d] = answer[d]
         /\ d \in opened' <=> d \in opened
         /\ d \in recorded' <=> d \in recorded
  BY DEF Step, TypeOK, Start, CheckDuplicate, AnswerDuplicate, ProcessSource, StoreResult, Cleanup,
         OpenFile, WriteFile, SaveFails, Abort, CutShort, Goto, history

\* Of the history, and of what the call itself was asked for.
LEMMA HistoryGrows ==
  ASSUME TypeOK, Progress, NEW c \in Calls, Step(c)
  PROVE  /\ recorded \subseteq recorded' /\ cut \subseteq cut' /\ (overlapped => overlapped')
         /\ expired' = expired
         /\ pc[c] # "none" => request' = request /\ pc[c] \in Running /\ overlapped' = overlapped
         /\ c \in recorded => pc[c] # "none"
         /\ c \in opened => pc[c] \in Writing
         /\ pc[c] = "none" =>
              /\ pc'[c] = "check"
              /\ UNCHANGED <<disk, opened, recorded, cut>>
              /\ overlapped' = (overlapped \/ \E d \in Calls : pc[d] \in Running)
  BY DEF Step, TypeOK, Progress, Start, CheckDuplicate, AnswerDuplicate, ProcessSource, StoreResult,
         Cleanup, OpenFile, WriteFile, SaveFails, Abort, CutShort, Goto, history, Running, Writing

\* A call that keeps its place keeps its file.
LEMMA TargetStays ==
  ASSUME NEW d \in Calls, pc'[d] = pc[d], request'[d] = request[d], processed'[d] = processed[d]
  PROVE  Target(d)' = Target(d)
  BY DEF Target

\* Only an open and a write change a file, and only that of the call.
LEMMA DiskIs ==
  ASSUME TypeOK, Progress, NEW c \in Calls, Step(c)
  PROVE  \/ ~OpenFile(c) /\ ~WriteFile(c) /\ disk' = disk
         \/ /\ OpenFile(c) /\ Target(c) \in Files
            /\ \A f \in Files : disk'[f] = IF f = Target(c) THEN Empty ELSE disk[f]
         \/ /\ WriteFile(c) /\ Target(c) \in Files
            /\ \E v \in Overwritten(disk[Target(c)], Contents(c)) :
                 \A f \in Files : disk'[f] = IF f = Target(c) THEN v ELSE disk[f]
<1>1. CASE OpenFile(c)
  BY <1>1, WriteIs DEF OpenFile, TypeOK
<1>2. CASE WriteFile(c)
  <2>1. Target(c) \in Files
    BY <1>2, WriteIs DEF WriteFile, Progress
  <2>2. QED
    BY <1>2, <2>1 DEF WriteFile, TypeOK
<1>3. CASE ~OpenFile(c) /\ ~WriteFile(c)
  BY <1>3 DEF Step, Start, CheckDuplicate, AnswerDuplicate, ProcessSource, StoreResult, Cleanup,
     SaveFails, Abort
<1>4. QED
  BY <1>1, <1>2, <1>3

\* A call whose file is open after its step has just opened it, and one whose
\* file was open has written it or left it cut short.
LEMMA OpenedIs ==
  ASSUME TypeOK, Progress, NEW c \in Calls, Step(c)
  PROVE  /\ c \in opened' => OpenFile(c) /\ Target(c)' = Target(c)
         /\ c \in opened /\ ~WriteFile(c) => Target(c) \in cut' /\ disk' = disk
         /\ OpenFile(c) => c \notin opened /\ c \in opened' /\ pc[c] \in Writing
         /\ WriteFile(c) => c \in opened /\ pc[c] \in Writing
<1>1. c \in opened => pc[c] \in Writing
  BY DEF Progress
<1>2. CASE OpenFile(c)
  BY <1>1, <1>2, TargetStays DEF OpenFile, TypeOK, WriteFile
<1>3. CASE ~OpenFile(c)
  BY <1>1, <1>3 DEF Step, Writing, Start, CheckDuplicate, AnswerDuplicate, ProcessSource,
     StoreResult, Cleanup, WriteFile, SaveFails, Abort, CutShort, history
<1>4. QED
  BY <1>2, <1>3

\* What was written once is never missing again.
LEMMA NeverMissing ==
  ASSUME TypeOK, Progress, NEW c \in Calls, Step(c), NEW f \in Files,
         disk[f] # Missing \/ (f = Target(c) /\ WriteFile(c))
  PROVE  disk'[f] # Missing
<1>1. CASE OpenFile(c) \/ (~WriteFile(c) /\ disk' = disk)
  BY <1>1, DiskIs, MarkersApart DEF OpenFile, TypeOK
<1>2. CASE WriteFile(c)
  <2>1. pc[c] \in Writing
    BY <1>2, OpenedIs
  <2>2. Contents(c) # Missing
    BY <2>1, WriteIs, MarkersApart DEF Writing, Unreadable
  <2>3. PICK v \in Overwritten(disk[Target(c)], Contents(c)) :
          \A g \in Files : disk'[g] = IF g = Target(c) THEN v ELSE disk[g]
    BY <1>2, DiskIs, OpenedIs
  <2>4. v # Missing
    BY <2>2, OverwrittenIs, MarkersApart
  <2>5. QED
    BY <2>3, <2>4
<1>3. QED
  BY <1>1, <1>2, DiskIs

LEMMA ApartStep == TypeOK /\ Progress /\ Apart /\ [Next]_vars => Apart'
<1> SUFFICES ASSUME TypeOK, Progress, Apart, [Next]_vars, ~overlapped'
             PROVE  /\ \A d, e \in Calls : pc'[d] \in Running /\ pc'[e] \in Running => d = e
                    /\ \A e \in opened' : disk'[Target(e)'] = Empty
  BY DEF Apart
<1>1. ASSUME NEW c \in Calls, Step(c)
      PROVE  /\ \A d, e \in Calls : pc'[d] \in Running /\ pc'[e] \in Running => d = e
             /\ \A e \in opened' : disk'[Target(e)'] = Empty
  <2>1. ~overlapped
    BY <1>1, HistoryGrows
  <2>2. ASSUME NEW d \in Calls \ {c}
        PROVE  pc[d] \notin Running /\ pc'[d] = pc[d] /\ d \notin opened'
    <3>1. pc[d] \notin Running
      BY <1>1, <2>1, HistoryGrows DEF Apart
    <3>2. QED
      BY <1>1, <3>1, OthersStay DEF Progress, Running
  <2>3. c \in opened' => disk'[Target(c)'] = Empty
    <3>1. ASSUME c \in opened'
          PROVE  OpenFile(c) /\ Target(c)' = Target(c) /\ c \notin opened
      BY <1>1, <3>1, OpenedIs
    <3>2. OpenFile(c) => Target(c) \in Files /\ disk'[Target(c)] = Empty
      BY <1>1, DiskIs, OpenedIs
    <3>3. QED
      BY <3>1, <3>2
  <2>4. opened' \subseteq Calls
    BY TypeStep DEF TypeOK
  <2>5. QED
    BY <2>2, <2>3, <2>4
<1>2. CASE DayPasses \/ UNCHANGED vars
  BY <1>2 DEF DayPasses, vars, call, history, Apart, Target
<1>3. QED
  BY <1>1, <1>2, StepIs

-----------------------------------------------------------------------------
(* The files a call leaves behind.                                         *)

LEMMA WholeStays ==
  ASSUME TypeOK, Progress, Apart, NEW c \in Calls, Step(c), NEW f \in SummaryFiles,
         Whole(f) \/ (f = Target(c) /\ WriteFile(c))
  PROVE  Whole(f)'
<1>1. f \in Files
  BY DEF Files
<1>2. disk'[f] # Missing
  BY <1>1, NeverMissing DEF Whole
<1>3. (overlapped => overlapped') /\ cut \subseteq cut'
  BY HistoryGrows
<1>4. ASSUME NEW d \in opened, Target(d) = f, d # c
      PROVE  d \in opened' /\ Target(d)' = f
  <2>1. d \in Calls \ {c}
    BY <1>4 DEF TypeOK
  <2>2. QED
    BY <1>4, <2>1, OthersStay, TargetStays
<1>5. CASE f = Target(c) /\ OpenFile(c)
  BY <1>2, <1>5, OpenedIs DEF Whole
<1>6. CASE f = Target(c) /\ WriteFile(c)
  <2>1. c \in opened /\ pc[c] = "summary" /\ Contents(c) \in Sources
    BY <1>6, OpenedIs, WriteIs
  <2>2. PICK v \in Overwritten(disk[f], Contents(c)) : disk'[f] = v
    BY <1>1, <1>6, DiskIs DEF OpenFile, WriteFile
  <2>3. v \in Sources \/ (v = Garbled /\ overlapped)
    BY <1>6, <2>1, OverwrittenIs DEF Apart
  <2>4. QED
    BY <1>2, <1>3, <2>2, <2>3 DEF Whole
<1>7. CASE ~(f = Target(c) /\ OpenFile(c)) /\ ~(f = Target(c) /\ WriteFile(c))
  <2>1. disk'[f] = disk[f] /\ Whole(f)
    BY <1>1, <1>7, DiskIs
  <2>2. ASSUME NEW d \in opened, Target(d) = f
        PROVE  f \in cut' \/ \E e \in opened' : Target(e)' = f
    BY <1>4, <1>7, <2>2, OpenedIs
  <2>3. QED
    BY <1>2, <1>3, <2>1, <2>2 DEF Whole
<1>8. QED
  BY <1>5, <1>6, <1>7

\* The steps of other calls leave a call's trail alone.
LEMMA TrailOfOthers ==
  ASSUME TypeOK, Progress, Apart, NEW c \in Calls, Step(c), NEW d \in Calls \ {c}, TrailOf(d)
  PROVE  TrailOf(d)'
<1>1. /\ pc'[d] = pc[d] /\ request'[d] = request[d] /\ processed'[d] = processed[d]
      /\ d \in recorded' <=> d \in recorded
      /\ SourcesOf(d)' = SourcesOf(d)
  BY OthersStay DEF SourcesOf
<1>2. \A f \in SummaryFiles : Whole(f) => Whole(f)'
  BY WholeStays
<1>3. {IndexFile, TimelineFile} \subseteq Files
  BY DEF Files
<1>4. /\ disk[IndexFile] # Missing => disk'[IndexFile] # Missing
      /\ disk[TimelineFile] # Missing => disk'[TimelineFile] # Missing
  BY <1>3, NeverMissing
<1>5. \A s \in SourcesOf(d) : FileOf[s] \in SummaryFiles
  BY RequestIs, FilesAssumption
<1>6. ASSUME pc[d] \in {"process", "summary"}, NEW i \in 1 .. processed[d]
      PROVE  FileOf[request[d].sources[i]] \in SummaryFiles
  BY <1>6, RequestIs DEF TypeOK, Progress
<1>7. QED
  BY <1>1, <1>2, <1>4, <1>5, <1>6 DEF TrailOf

LEMMA TrailStep == TypeOK /\ Progress /\ Apart /\ Trail /\ [Next]_vars => Trail'
<1> SUFFICES ASSUME TypeOK, Progress, Apart, Trail, [Next]_vars
             PROVE  Trail'
  OBVIOUS
<1>1. ASSUME NEW c \in Calls, Step(c)
      PROVE  TrailOf(c)'
  <2>1. TrailOf(c) /\ (pc[c] # "none" => request' = request)
    BY <1>1, HistoryGrows DEF Trail
  <2>2. pc[c] # "none" => SourcesOf(c)' = SourcesOf(c)
    BY <2>1 DEF SourcesOf
  <2>3. \A f \in SummaryFiles : Whole(f) \/ (f = Target(c) /\ WriteFile(c)) => Whole(f)'
    BY <1>1, WholeStays
  <2>4. \A f \in {IndexFile, TimelineFile} :
          disk[f] # Missing \/ (f = Target(c) /\ WriteFile(c)) => disk'[f] # Missing
    BY <1>1, NeverMissing DEF Files
  <2>5. \A s \in SourcesOf(c) : FileOf[s] \in SummaryFiles
    BY RequestIs, FilesAssumption
  <2>6. /\ \A i \in 1 .. Len(request[c].sources) :
             FileOf[request[c].sources[i]] \in SummaryFiles
        /\ SourcesOf(c) = {request[c].sources[i] : i \in 1 .. Len(request[c].sources)}
        /\ Len(request[c].sources) \in Nat /\ processed[c] \in Nat
    BY RequestIs DEF TypeOK
  <2>7. CASE \E r \in Requests : Start(c, r)
    BY <1>1, <2>7 DEF Start, Goto, TrailOf, TypeOK, Progress
  <2>8. CASE CheckDuplicate(c)
    <3>1. /\ pc[c] = "check" /\ c \notin recorded /\ processed' = processed /\ processed[c] = 0
          /\ recorded' = recorded /\ request' = request
          /\ pc'[c] \in {"existing", After(request[c], 0)}
      BY <2>8 DEF CheckDuplicate, Goto, TypeOK, Progress, history
    <3>2. /\ After(request[c], 0) \in {"process", "clean", "index"}
          /\ After(request[c], 0) = "index" => Len(request[c].sources) = 0
      BY <2>6, AfterIs, RequestIs
    <3>3. pc'[c] = "index" => SourcesOf(c)' = {}
      BY <2>2, <2>6, <3>1, <3>2
    <3>4. QED
      BY <3>1, <3>2, <3>3 DEF TrailOf
  <2>9. CASE ProcessSource(c)
    <3>1. /\ pc[c] = "process" /\ c \notin recorded /\ recorded' = recorded /\ request' = request
          /\ request[c].dry => pc'[c] \in {"process", "clean"}
          /\ ~request[c].dry => pc'[c] = "summary" /\ processed'[c] = processed[c]
      <4>0. pc[c] = "process" /\ c \notin recorded /\ recorded' = recorded /\ request' = request
        BY <2>9 DEF ProcessSource, TypeOK, Progress, history
      <4>1. request[c] \in Requests /\ processed[c] + 1 \in Nat
        BY DEF TypeOK
      <4>2. request[c].dry => After(request[c], processed[c] + 1) \in {"process", "clean"}
        BY <4>1, AfterIs
      <4>3. QED
        BY <2>9, <4>0, <4>2 DEF ProcessSource, Goto, TypeOK
    <3>2. \A i \in 1 .. processed[c] : FileOf[request[c].sources[i]] \in SummaryFiles
      BY <2>6, <3>1 DEF Progress
    <3>3. QED
      BY <2>1, <2>3, <3>1, <3>2 DEF TrailOf
  <2>10. CASE WriteFile(c)
    <3>1. /\ request' = request /\ pc[c] \in Writing /\ pc'[c] = AfterWrite(c)
          /\ c \in recorded => pc[c] = "resave"
          /\ processed'[c] = IF pc[c] = "summary" THEN processed[c] + 1 ELSE processed[c]
          /\ c \in recorded' <=> (pc[c] = "save" \/ c \in recorded)
      <4>1. pc[c] \in Writing
        BY <1>1, <2>10, OpenedIs
      <4>2. QED
        BY <2>10, <4>1 DEF WriteFile, Goto, TypeOK, Progress, Writing
    <3>2. SourcesOf(c)' = SourcesOf(c)
      BY <3>1 DEF SourcesOf
    <3>3. CASE pc[c] = "summary"
      <4>1. /\ Target(c) = FileOf[request[c].sources[processed[c] + 1]] /\ ~request[c].dry
            /\ processed[c] + 1 <= Len(request[c].sources)
        BY <2>6, <3>3, SummaryWrite DEF Progress
      <4>2. \A i \in 1 .. processed[c] + 1 : Whole(FileOf[request[c].sources[i]])'
        BY <2>1, <2>3, <2>6, <2>10, <3>3, <4>1 DEF TrailOf
      <4>3. /\ AfterWrite(c) = After(request[c], processed[c] + 1)
            /\ After(request[c], processed[c] + 1) \in {"process", "clean", "index"}
            /\ After(request[c], processed[c] + 1) = "index" =>
                 processed[c] + 1 = Len(request[c].sources)
        BY <2>6, <3>3, <4>1, SummaryWrite, AfterIs, RequestIs
      <4>4. pc'[c] = "index" => \A s \in SourcesOf(c) : Whole(FileOf[s])'
        BY <2>6, <3>1, <4>2, <4>3
      <4>5. QED
        BY <3>1, <3>2, <3>3, <4>2, <4>3, <4>4 DEF TrailOf
    <3>4. CASE pc[c] = "index"
      BY <2>1, <2>3, <2>4, <2>5, <2>10, <3>1, <3>2, <3>4, IndexWrite DEF TrailOf
    <3>5. CASE pc[c] = "timeline"
      BY <2>1, <2>3, <2>4, <2>5, <2>10, <3>1, <3>2, <3>5, TimelineWrite DEF TrailOf
    <3>6. CASE pc[c] \in {"save", "resave"}
      BY <2>1, <2>3, <2>4, <2>5, <2>10, <3>1, <3>2, <3>6, RecordsWrite DEF TrailOf
    <3>7. QED
      BY <3>1, <3>3, <3>4, <3>5, <3>6 DEF Writing
  <2>11. CASE OpenFile(c)
    <3>1. /\ request' = request /\ pc' = pc /\ processed' = processed /\ recorded' = recorded
          /\ SourcesOf(c)' = SourcesOf(c)
      BY <2>11 DEF OpenFile, history, SourcesOf
    <3>2. pc[c] \in {"process", "summary"} =>
            \A i \in 1 .. processed[c] : FileOf[request[c].sources[i]] \in SummaryFiles
      BY <2>6 DEF Progress
    <3>3. QED
      BY <2>1, <2>3, <2>4, <2>5, <3>1, <3>2 DEF TrailOf
  <2>12. CASE \/ AnswerDuplicate(c) \/ StoreResult(c) \/ Cleanup(c) \/ SaveFails(c) \/ Abort(c)
    <3>1. /\ pc[c] # "none" /\ recorded' = recorded
          /\ pc'[c] \in {"duplicate", "save", "done", "resave", "clean", "failed"}
          /\ pc'[c] = "save" => pc[c] = "store"
      <4>1. CASE SaveFails(c)
        BY <4>1, RecordsWrite DEF SaveFails, CutShort, Goto, TypeOK
      <4>2. CASE ~SaveFails(c)
        BY <2>12, <4>2 DEF AnswerDuplicate, StoreResult, Cleanup, Abort, CutShort, Goto, TypeOK,
           history, Running, Writing
      <4>3. QED
        BY <4>1, <4>2
    <3>2. QED
      BY <2>1, <2>2, <2>3, <2>4, <2>5, <3>1 DEF TrailOf
  <2>13. QED
    BY <1>1, <2>7, <2>8, <2>9, <2>10, <2>11, <2>12 DEF Step
<1>2. ASSUME NEW c \in Calls, Step(c)
      PROVE  Trail'
  BY <1>1, <1>2, TrailOfOthers DEF Trail
<1>3. CASE DayPasses \/ UNCHANGED vars
  BY <1>3 DEF DayPasses, vars, call, history, Trail, TrailOf, Whole, SourcesOf, Target
<1>4. QED
  BY <1>2, <1>3, StepIs

-----------------------------------------------------------------------------
(* The records.                                                            *)

\* The request of a call that has a record is never replaced.
LEMMA RecordStays ==
  ASSUME TypeOK, Progress, NEW c \in Calls, Step(c), NEW d \in recorded
  PROVE  d \in recorded' /\ request'[d] = request[d]
<1>1. CASE d = c
  BY <1>1, HistoryGrows
<1>2. CASE d # c
  BY <1>2, HistoryGrows, OthersStay DEF TypeOK
<1>3. QED
  BY <1>1, <1>2

\* What a step does to the records that a reader of the file finds.
LEMMA LoadRecordsIs ==
  ASSUME TypeOK, Progress, NEW c \in Calls, Step(c)
  PROVE  \/ /\ LoadRecords' = LoadRecords
            /\ ~(WriteFile(c) /\ pc[c] \in {"save", "resave"})
         \/ /\ LoadRecords' = NoRecords /\ OpenFile(c) /\ pc[c] \in {"save", "resave"}
         \/ /\ LoadRecords' = NoRecords /\ WriteFile(c) /\ pc[c] \in {"save", "resave"}
            /\ disk[RecordsFile] # Empty
         \/ /\ LoadRecords' = loaded[c] /\ WriteFile(c) /\ pc[c] \in {"save", "resave"}
<1>1. RecordsFile \in Files /\ Empty \in Unreadable /\ Garbled \in Unreadable
  BY DEF Files, Unreadable
<1>2. CASE ~OpenFile(c) /\ ~WriteFile(c) /\ disk' = disk
  BY <1>2 DEF LoadRecords
<1>3. CASE Target(c) # RecordsFile /\ (OpenFile(c) \/ WriteFile(c))
  <2>1. pc[c] \notin {"save", "resave"}
    BY <1>3, RecordsWrite
  <2>2. disk'[RecordsFile] = disk[RecordsFile]
    BY <1>1, <1>3, DiskIs
  <2>3. QED
    BY <2>1, <2>2 DEF LoadRecords
<1>4. CASE Target(c) = RecordsFile /\ OpenFile(c)
  <2>1. pc[c] \in {"save", "resave"} /\ ~WriteFile(c)
    BY <1>4, OpenedIs, WriteIs
  <2>2. disk'[RecordsFile] = Empty
    BY <1>1, <1>4, <2>1, DiskIs
  <2>3. QED
    BY <1>1, <1>4, <2>1, <2>2 DEF LoadRecords
<1>5. CASE Target(c) = RecordsFile /\ WriteFile(c)
  <2>1. /\ pc[c] \in {"save", "resave"} /\ ~OpenFile(c)
        /\ Contents(c) = loaded[c] /\ loaded[c] \notin Unreadable
    BY <1>5, OpenedIs, WriteIs, MarkersApart
  <2>2. PICK v \in Overwritten(disk[RecordsFile], loaded[c]) : disk'[RecordsFile] = v
    BY <1>1, <1>5, <2>1, DiskIs
  <2>3. v = loaded[c] \/ (v = Garbled /\ disk[RecordsFile] # Empty)
    BY <2>1, OverwrittenIs, <1>1
  <2>4. QED
    BY <1>1, <1>5, <2>1, <2>2, <2>3 DEF LoadRecords
<1>6. QED
  BY <1>2, <1>3, <1>4, <1>5, DiskIs

LEMMA TracedStep == TypeOK /\ Progress /\ Traced /\ [Next]_vars => Traced'
<1> SUFFICES ASSUME TypeOK, Progress, Traced, [Next]_vars
             PROVE  Traced'
  OBVIOUS
<1>1. ASSUME NEW c \in Calls, Step(c), NEW k \in Keys, LoadRecords'[k] # NoCall
      PROVE  LoadRecords'[k] \in recorded' /\ request'[LoadRecords'[k]].key = k
  <2>1. CASE LoadRecords' = LoadRecords
    BY <1>1, <2>1, RecordStays DEF Traced
  <2>2. CASE LoadRecords' = loaded[c] /\ WriteFile(c) /\ pc[c] \in {"save", "resave"}
    BY <1>1, <2>2, RecordStays DEF Traced, WriteFile
  <2>3. QED
    BY <1>1, <2>1, <2>2, LoadRecordsIs DEF NoRecords
<1>2. ASSUME NEW c \in Calls, Step(c), NEW d \in Calls, NEW k \in Keys,
             pc'[d] \in {"save", "resave"}, loaded'[d][k] # NoCall
      PROVE  /\ loaded'[d][k] \in recorded' \/ (pc'[d] = "save" /\ loaded'[d][k] = d)
             /\ request'[loaded'[d][k]].key = k
  <2>1. CASE d # c
    <3>1. d \in Calls \ {c} /\ pc'[d] = pc[d] /\ loaded'[d] = loaded[d] /\ request'[d] = request[d]
      BY <1>2, <2>1, OthersStay
    <3>2. QED
      BY <1>2, <3>1, RecordStays DEF Traced
  <2>2. CASE d = c /\ StoreResult(c)
    <3>1. /\ pc'[c] = "save" /\ request' = request /\ recorded' = recorded
          /\ loaded'[c] = [LoadRecords EXCEPT ![request[c].key] = c]
      BY <2>2 DEF StoreResult, Goto, TypeOK, history
    <3>2. LoadRecords \in [Keys -> Calls \cup {NoCall}]
      BY LoadedIs DEF Records
    <3>3. QED
      BY <1>2, <2>2, <3>1, <3>2 DEF Traced
  <2>3. CASE d = c /\ Cleanup(c)
    <3>1. /\ loaded'[c] = Fresh(LoadRecords) /\ request' = request /\ recorded' = recorded
      BY <1>2, <2>3 DEF Cleanup, Goto, TypeOK, history
    <3>2. loaded'[c][k] = LoadRecords[k]
      BY <1>2, <2>3, <3>1 DEF Fresh
    <3>3. QED
      BY <1>2, <2>3, <3>1, <3>2 DEF Traced
  <2>4. CASE d = c /\ OpenFile(c)
    BY <1>2, <2>4 DEF Traced, OpenFile, history
  <2>5. CASE d = c /\ ~StoreResult(c) /\ ~Cleanup(c) /\ ~OpenFile(c)
    <3>1. /\ After(request[c], 0) \notin {"save", "resave"}
          /\ After(request[c], processed[c] + 1) \notin {"save", "resave"}
      BY NextPlaces
    <3>2. pc[c] \in Writing => AfterWrite(c) \notin {"save", "resave"}
      BY WriteIs
    <3>3. pc'[c] \notin {"save", "resave"}
      <4>1. CASE WriteFile(c) \/ SaveFails(c)
        <5>1. pc[c] \in Writing /\ pc'[c] = AfterWrite(c)
          BY <1>2, <4>1, OpenedIs DEF WriteFile, SaveFails, Goto, TypeOK, Writing
        <5>2. QED
          BY <3>2, <5>1
      <4>2. CASE ProcessSource(c)
        BY <3>1, <4>2 DEF ProcessSource, Goto, TypeOK
      <4>3. CASE CheckDuplicate(c)
        BY <3>1, <4>3 DEF CheckDuplicate, Goto, TypeOK
      <4>4. CASE (\E r \in Requests : Start(c, r)) \/ AnswerDuplicate(c) \/ Abort(c)
        BY <4>4 DEF Start, AnswerDuplicate, Abort, Goto, TypeOK
      <4>5. QED
        BY <1>2, <2>5, <4>1, <4>2, <4>3, <4>4 DEF Step
    <3>4. QED
      BY <1>2, <2>5, <3>3
  <2>6. QED
    BY <2>1, <2>2, <2>3, <2>4, <2>5
<1>3. ASSUME NEW c \in Calls, Step(c)
      PROVE  Traced'
  BY <1>1, <1>2, <1>3 DEF Traced
<1>4. CASE DayPasses \/ UNCHANGED vars
  BY <1>4 DEF DayPasses, vars, call, history, Traced, LoadRecords
<1>5. QED
  BY <1>3, <1>4, StepIs

LEMMA AnsweredStep ==
  TypeOK /\ Progress /\ Apart /\ Traced /\ Answered /\ [Next]_vars => Answered'
<1> SUFFICES ASSUME TypeOK, Progress, Apart, Traced, Answered, [Next]_vars
             PROVE  Answered'
  OBVIOUS
<1> DEFINE
      Twin(c, d) == /\ request[d].key = request[c].key
                    /\ pc[c] = "duplicate" /\ ~overlapped => answer[c] = Len(request[d].sources)
<1>1. ASSUME NEW c \in Calls, Step(c), NEW d \in Calls \ {c},
             pc'[d] \in {"existing", "duplicate"}
      PROVE  /\ \E e \in recorded' \ {d} : Twin(d, e)'
             /\ pc'[d] = "existing" /\ ~overlapped' => LoadRecords'[request'[d].key] # NoCall
  <2>1. /\ pc'[d] = pc[d] /\ request'[d] = request[d] /\ answer'[d] = answer[d]
        /\ overlapped => overlapped'
    BY <1>1, OthersStay, HistoryGrows
  <2>2. PICK e \in recorded \ {d} : Twin(d, e)
    BY <1>1, <2>1 DEF Answered
  <2>3. e \in recorded' /\ request'[e] = request[e]
    BY <1>1, RecordStays
  <2>4. ASSUME pc[d] = "existing", ~overlapped'
        PROVE  FALSE
    <3>1. pc[d] \in Running
      BY <2>4 DEF Running
    <3>2. QED
      BY <1>1, <2>1, <2>4, <3>1, HistoryGrows DEF Apart
  <2>5. QED
    BY <2>1, <2>2, <2>3, <2>4
<1>2. ASSUME NEW c \in Calls, CheckDuplicate(c), pc'[c] \in {"existing", "duplicate"}
      PROVE  /\ \E e \in recorded' \ {c} : Twin(c, e)'
             /\ pc'[c] = "existing" /\ ~overlapped' => LoadRecords'[request'[c].key] # NoCall
  <2>1. After(request[c], 0) \notin {"existing", "duplicate"}
    BY AfterIs DEF TypeOK
  <2>2. /\ pc[c] = "check" /\ pc'[c] = "existing" /\ UNCHANGED <<disk, request, recorded>>
        /\ LoadRecords[request[c].key] # NoCall
    BY <1>2, <2>1 DEF CheckDuplicate, Goto, TypeOK, history
  <2>3. request[c].key \in Keys /\ LoadRecords' = LoadRecords
    BY <2>2, RequestIs DEF LoadRecords
  <2>4. /\ LoadRecords[request[c].key] \in recorded \ {c}
        /\ request[LoadRecords[request[c].key]].key = request[c].key
    BY <2>2, <2>3 DEF Traced, Progress
  <2>5. QED
    BY <2>2, <2>3, <2>4
<1>3. ASSUME NEW c \in Calls, AnswerDuplicate(c)
      PROVE  /\ pc'[c] = "duplicate"
             /\ \E e \in recorded' \ {c} : Twin(c, e)'
  <2>1. /\ pc[c] = "existing" /\ pc'[c] = "duplicate"
        /\ UNCHANGED <<request, recorded, overlapped>>
        /\ answer'[c] = Processed(LoadRecords[request[c].key])
    BY <1>3 DEF AnswerDuplicate, Goto, TypeOK, history
  <2>2. CASE overlapped
    BY <2>1, <2>2 DEF Answered
  <2>3. CASE ~overlapped
    <3> DEFINE e == LoadRecords[request[c].key]
    <3>1. request[c].key \in Keys /\ e # NoCall
      BY <2>1, <2>3, RequestIs DEF Answered
    <3>2. e \in recorded \ {c} /\ request[e].key = request[c].key
      BY <2>1, <3>1 DEF Traced, Progress
    <3>3. answer'[c] = Len(request[e].sources)
      BY <2>1, <3>1 DEF Processed
    <3>4. QED
      BY <2>1, <3>2, <3>3
  <2>4. QED
    BY <2>2, <2>3
<1>4. ASSUME NEW c \in Calls, Step(c), ~CheckDuplicate(c), ~AnswerDuplicate(c)
      PROVE  pc'[c] \notin {"existing", "duplicate"}
  <2>1. /\ After(request[c], processed[c] + 1) \notin {"existing", "duplicate"}
        /\ pc[c] \in Writing => AfterWrite(c) \notin {"existing", "duplicate"}
    BY NextPlaces, WriteIs
  <2>2. CASE WriteFile(c) \/ SaveFails(c)
    <3>1. pc[c] \in Writing /\ pc'[c] = AfterWrite(c)
      BY <1>4, <2>2, OpenedIs DEF WriteFile, SaveFails, Goto, TypeOK, Writing
    <3>2. QED
      BY <2>1, <3>1
  <2>3. CASE ProcessSource(c)
    BY <2>1, <2>3 DEF ProcessSource, Goto, TypeOK
  <2>4. CASE \/ \E r \in Requests : Start(c, r)
             \/ StoreResult(c) \/ Cleanup(c) \/ OpenFile(c) \/ Abort(c)
    BY <2>4 DEF Start, StoreResult, Cleanup, OpenFile, Abort, Goto, TypeOK, Writing
  <2>5. QED
    BY <1>4, <2>2, <2>3, <2>4 DEF Step
<1>5. ASSUME NEW c \in Calls, Step(c)
      PROVE  Answered'
  BY <1>1, <1>2, <1>3, <1>4, <1>5 DEF Answered
<1>6. CASE DayPasses \/ UNCHANGED vars
  BY <1>6 DEF DayPasses, vars, call, history, Answered, LoadRecords
<1>7. QED
  BY <1>5, <1>6, StepIs

-----------------------------------------------------------------------------
(* One record a day.                                                       *)

\* While calls do not overlap, only the one that moves runs.
LEMMA OnlyOne ==
  ASSUME TypeOK, Progress, Apart, NEW c \in Calls, Step(c), ~overlapped'
  PROVE  /\ ~overlapped /\ opened \subseteq {c}
         /\ \A d \in Calls \ {c} : pc[d] \notin Running /\ pc'[d] = pc[d]
         /\ pc[c] # "none" => request' = request
<1>1. ASSUME NEW d \in Calls \ {c}
      PROVE  pc[d] \notin Running
  BY HistoryGrows DEF Apart
<1>2. ~overlapped /\ (pc[c] # "none" => request' = request)
  BY HistoryGrows
<1>3. \A d \in Calls \ {c} : d \notin opened
  BY <1>1 DEF Progress, Running
<1>4. \A d \in Calls \ {c} : pc'[d] = pc[d]
  BY OthersStay
<1>5. QED
  BY <1>1, <1>2, <1>3, <1>4 DEF TypeOK

\* The parts of Kept.
InFile == \A c \in recorded \ expired : LoadRecords[request[c].key] = c
InMemory(d) == \A c \in recorded \ expired : loaded[d][request[c].key] = c

LEMMA KeptByOne ==
  ASSUME TypeOK, Progress, Apart, Traced, Kept, NEW c \in Calls, Step(c),
         ~overlapped', RecordsFile \notin cut'
  PROVE  /\ (c \in opened' => pc'[c] \notin {"save", "resave"}) => InFile'
         /\ pc'[c] \in {"process", "summary", "index", "timeline", "store"} =>
              LoadRecords'[request'[c].key] = NoCall
         /\ pc'[c] \in {"save", "resave"} => InMemory(c)'
         /\ pc'[c] = "save" => loaded'[c][request'[c].key] = c
<1>1. /\ ~overlapped /\ RecordsFile \notin cut /\ opened \subseteq {c} /\ expired' = expired
      /\ pc[c] # "none" => request' = request
  BY OnlyOne, HistoryGrows
<1>2. /\ (c \in opened => pc[c] \notin {"save", "resave"}) => InFile
      /\ pc[c] \in {"process", "summary", "index", "timeline", "store"} =>
           LoadRecords[request[c].key] = NoCall
      /\ pc[c] \in {"save", "resave"} => InMemory(c)
      /\ pc[c] = "save" => loaded[c][request[c].key] = c
  BY <1>1 DEF Kept, InFile, InMemory
<1>3. \A d \in recorded : d \in Calls /\ request[d].key \in Keys /\ request'[d] = request[d]
  BY RequestIs, RecordStays DEF TypeOK
<1>4. LoadRecords \in [Keys -> Calls \cup {NoCall}] /\ request[c].key \in Keys
  BY LoadedIs, RequestIs DEF Records
<1>5. CASE \E r \in Requests : Start(c, r)
  <2>1. /\ pc[c] = "none" /\ pc'[c] = "check" /\ UNCHANGED <<disk, recorded, opened>>
    BY <1>5 DEF Start, Goto, TypeOK
  <2>2. LoadRecords' = LoadRecords
    BY <2>1 DEF LoadRecords
  <2>3. QED
    BY <1>1, <1>2, <1>3, <2>1, <2>2 DEF InFile
<1>6. CASE CheckDuplicate(c) \/ AnswerDuplicate(c) \/ ProcessSource(c)
  <2>1. /\ pc[c] \in {"check", "existing", "process"}
        /\ UNCHANGED <<disk, request, recorded, opened>>
        /\ pc[c] = "check" /\ pc'[c] # "existing" => LoadRecords[request[c].key] = NoCall
    BY <1>6 DEF CheckDuplicate, AnswerDuplicate, ProcessSource, Goto, TypeOK, history
  <2>2. /\ pc'[c] \notin {"save", "resave"}
        /\ pc[c] = "existing" => pc'[c] = "duplicate"
    BY <1>6, NextPlaces DEF CheckDuplicate, AnswerDuplicate, ProcessSource, Goto, TypeOK
  <2>3. LoadRecords' = LoadRecords
    BY <2>1 DEF LoadRecords
  <2>4. QED
    BY <1>1, <1>2, <1>3, <2>1, <2>2, <2>3 DEF InFile
<1>7. CASE StoreResult(c)
  <2>1. /\ pc[c] = "store" /\ pc'[c] = "save" /\ UNCHANGED <<disk, request, recorded, opened>>
        /\ loaded'[c] = [LoadRecords EXCEPT ![request[c].key] = c]
    BY <1>7 DEF StoreResult, Goto, TypeOK, history
  <2>2. LoadRecords' = LoadRecords /\ InFile /\ LoadRecords[request[c].key] = NoCall
    BY <1>2, <2>1 DEF LoadRecords
  <2>3. \A d \in recorded \ expired :
          loaded'[c][request[d].key] = d
    BY <1>3, <1>4, <2>1, <2>2, MarkersApart DEF InFile
  <2>4. InFile' /\ InMemory(c)'
    BY <1>1, <2>1, <2>2, <2>3 DEF InFile, InMemory
  <2>5. QED
    BY <1>4, <2>1, <2>4
<1>8. CASE Cleanup(c)
  <2>1. /\ pc[c] = "clean" /\ pc'[c] \in {"done", "resave"}
        /\ UNCHANGED <<disk, request, recorded, opened>>
        /\ pc'[c] = "resave" => loaded'[c] = Fresh(LoadRecords)
    BY <1>8 DEF Cleanup, Goto, TypeOK, history
  <2>2. LoadRecords' = LoadRecords /\ InFile
    BY <1>2, <2>1 DEF LoadRecords
  <2>3. \A d \in recorded \ expired : Fresh(LoadRecords)[request[d].key] = d
    BY <1>3, <2>2 DEF InFile, Fresh
  <2>4. InFile' /\ (pc'[c] = "resave" => InMemory(c)')
    BY <1>1, <2>1, <2>2, <2>3 DEF InFile, InMemory
  <2>5. QED
    BY <2>1, <2>4
<1>9. CASE OpenFile(c)
  <2>1. /\ pc' = pc /\ UNCHANGED <<request, recorded, loaded>>
        /\ c \notin opened /\ c \in opened' /\ ~WriteFile(c)
    BY <1>9, OpenedIs DEF OpenFile, history
  <2>2. pc[c] \notin {"save", "resave"} => LoadRecords' = LoadRecords
    BY <2>1, LoadRecordsIs
  <2>3. QED
    BY <1>1, <1>2, <2>1, <2>2 DEF InFile, InMemory
<1>10. CASE WriteFile(c)
  <2>1. /\ c \in opened /\ pc[c] \in Writing /\ opened' = opened \ {c} /\ request' = request
        /\ pc'[c] = AfterWrite(c) /\ ~OpenFile(c)
        /\ recorded' = IF pc[c] = "save" THEN recorded \cup {c} ELSE recorded
    <3>1. c \in opened /\ pc[c] \in Writing /\ ~OpenFile(c)
      BY <1>10, OpenedIs
    <3>2. /\ opened' = opened \ {c} /\ request' = request /\ pc' = [pc EXCEPT ![c] = AfterWrite(c)]
          /\ recorded' = IF pc[c] = "save" THEN recorded \cup {c} ELSE recorded
      BY <1>10 DEF WriteFile, Goto
    <3>3. QED
      BY <3>1, <3>2 DEF TypeOK
  <2>2. CASE pc[c] \in {"save", "resave"}
    <3>1. disk[RecordsFile] = Empty
      BY <1>1, <2>1, <2>2, RecordsWrite DEF Apart
    <3>2. LoadRecords' = loaded[c] /\ pc'[c] \in {"clean", "done"}
      BY <1>10, <2>1, <2>2, <3>1, LoadRecordsIs, RecordsWrite
    <3>3. InFile'
      BY <1>1, <1>2, <2>1, <2>2, <3>2 DEF InFile, InMemory
    <3>4. QED
      BY <3>2, <3>3
  <2>3. CASE pc[c] \notin {"save", "resave"}
    <3>1. LoadRecords' = LoadRecords /\ recorded' = recorded
      BY <2>1, <2>3, LoadRecordsIs
    <3>2. pc'[c] \notin {"save", "resave"} /\ pc[c] \in {"summary", "index", "timeline"}
      BY <2>1, <2>3, WriteIs DEF Writing
    <3>3. InFile'
      BY <1>1, <1>2, <2>1, <2>3, <3>1 DEF InFile
    <3>4. QED
      BY <1>2, <2>1, <3>1, <3>2, <3>3
  <2>4. QED
    BY <2>2, <2>3
<1>11. CASE SaveFails(c) \/ Abort(c)
  <2>1. /\ pc[c] # "none" /\ UNCHANGED <<disk, request, recorded>>
        /\ pc'[c] \in {"clean", "done", "failed"}
        /\ c \in opened => Target(c) \in cut'
    <3>1. CASE SaveFails(c)
      BY <3>1, RecordsWrite DEF SaveFails, CutShort, Goto, TypeOK
    <3>2. CASE Abort(c)
      BY <3>2 DEF Abort, CutShort, Goto, TypeOK, Running, Writing
    <3>3. QED
      BY <1>11, <3>1, <3>2
  <2>2. c \in opened => pc[c] \notin {"save", "resave"}
    BY <2>1, RecordsWrite
  <2>3. LoadRecords' = LoadRecords /\ InFile
    BY <1>2, <2>1, <2>2 DEF LoadRecords
  <2>4. QED
    BY <1>1, <2>1, <2>3 DEF InFile
<1>12. QED
  BY <1>5, <1>6, <1>7, <1>8, <1>9, <1>10, <1>11 DEF Step

LEMMA KeptStep ==
  TypeOK /\ Progress /\ Apart /\ Traced /\ Kept /\ [Next]_vars => Kept'
<1> SUFFICES ASSUME TypeOK, Progress, Apart, Traced, Kept, [Next]_vars
             PROVE  Kept'
  OBVIOUS
<1>1. ASSUME NEW c \in Calls, Step(c), ~overlapped', RecordsFile \notin cut'
      PROVE  Kept'
  <2>1. \A d \in Calls \ {c} : pc'[d] \notin Running
    BY <1>1, OnlyOne
  <2>2. opened' \subseteq {c}
    BY <1>1, OnlyOne, OthersStay, TypeStep DEF TypeOK
  <2>3. (\A d \in opened' : pc'[d] \notin {"save", "resave"}) => InFile'
    BY <1>1, <2>2, KeptByOne
  <2>4. ASSUME NEW d \in Calls
        PROVE  /\ pc'[d] \in {"process", "summary", "index", "timeline", "store"} =>
                    LoadRecords'[request'[d].key] = NoCall
               /\ pc'[d] \in {"save", "resave"} => InMemory(d)'
               /\ pc'[d] = "save" => loaded'[d][request'[d].key] = d
    BY <1>1, <2>1, KeptByOne DEF Running, Writing
  <2>5. QED
    BY <2>3, <2>4 DEF Kept, InFile, InMemory
<1>2. CASE DayPasses
  <2>1. /\ recorded' \ expired' = {} /\ pc' = pc
        /\ \A d \in Calls : pc[d] \notin Running
    BY <1>2 DEF DayPasses, call, history
  <2>2. QED
    BY <2>1 DEF Kept, Running, Writing
<1>3. CASE UNCHANGED vars
  BY <1>3 DEF vars, call, history, Kept, LoadRecords
<1>4. CASE overlapped' \/ RecordsFile \in cut'
  BY <1>4 DEF Kept
<1>5. QED
  BY <1>1, <1>2, <1>3, <1>4, StepIs

-----------------------------------------------------------------------------
(* The theorems.                                                           *)

LEMMA CallsInit == Init => CallsInv
<1> SUFFICES ASSUME Init PROVE CallsInv
  OBVIOUS
<1>1. LoadRecords = NoRecords
  BY DEF Init, LoadRecords, Unreadable, Files
<1>2. Progress
  BY TypeInit
<1>3. QED
  BY <1>1, <1>2 DEF Init, CallsInv, Apart, Trail, TrailOf, Traced, Answered, Kept, NoRecords,
     Running, Writing

LEMMA CallsAlways == Spec => [](TypeOK /\ CallsInv)
<1>1. Init => TypeOK /\ CallsInv
  BY TypeInit, CallsInit
<1>2. TypeOK /\ CallsInv /\ [Next]_vars => TypeOK' /\ CallsInv'
  BY TypeStep, ApartStep, TrailStep, TracedStep, AnsweredStep, KeptStep DEF CallsInv
<1>3. QED
  BY <1>1, <1>2, PTL DEF Spec

\* Whatever overlaps, throws or is killed, a record in the file is that of a call
\* that asked for its key and wrote everything before it, and its summaries are
\* whole but for the writes that RecordedIsComplete names.
THEOREM RecordsAreComplete == Spec => []RecordedIsComplete
<1>1. TypeOK /\ CallsInv => RecordedIsComplete
  <2> SUFFICES ASSUME TypeOK, CallsInv, NEW k \in Keys, LoadRecords[k] # NoCall
               PROVE  LET c == LoadRecords[k]
                      IN  /\ request[c].key = k /\ ~request[c].dry
                          /\ disk[IndexFile] # Missing /\ disk[TimelineFile] # Missing
                          /\ \A s \in SourcesOf(c) :
                               /\ disk[FileOf[s]] # Missing
                               /\ \/ disk[FileOf[s]] \in Sources
                                  \/ FileOf[s] \in cut
                                  \/ \E d \in opened : Target(d) = FileOf[s]
                                  \/ overlapped /\ disk[FileOf[s]] = Garbled
    BY DEF RecordedIsComplete
  <2>1. PICK c \in recorded : c = LoadRecords[k] /\ request[c].key = k
    BY DEF CallsInv, Traced
  <2>2. c \in Calls
    BY DEF TypeOK
  <2>3. ~request[c].dry /\ TrailOf(c)
    BY <2>2 DEF CallsInv, Progress, Trail
  <2>4. \A s \in SourcesOf(c) : Whole(FileOf[s])
    BY <2>3 DEF TrailOf
  <2>5. QED
    BY <2>1, <2>3, <2>4 DEF TrailOf, Whole
<1>2. QED
  BY <1>1, CallsAlways, PTL

\* A call is answered as a duplicate only if another one with its key has written
\* its results; without overlap the answer counts them.
THEOREM DuplicatesAreOfDoneWork == Spec => []DuplicatesWereDone
<1>1. TypeOK /\ CallsInv => DuplicatesWereDone
  BY DEF TypeOK, CallsInv, Answered, Progress, DuplicatesWereDone
<1>2. QED
  BY <1>1, CallsAlways, PTL

\* Calls that do not overlap write the results of a key once a day, if no save
\* of the records was cut short.
THEOREM KeysAreWrittenOnce == Spec => []OncePerKey
<1>1. TypeOK /\ CallsInv => OncePerKey
  <2> SUFFICES ASSUME TypeOK, CallsInv, ~overlapped, RecordsFile \notin cut,
                      NEW c \in recorded \ expired, NEW d \in recorded \ expired,
                      request[c].key = request[d].key
               PROVE  c = d
    BY DEF OncePerKey
  <2>1. CASE \A e \in opened : pc[e] \notin {"save", "resave"}
    BY <2>1 DEF CallsInv, Kept
  <2>2. CASE \E e \in opened : pc[e] \in {"save", "resave"}
    BY <2>2 DEF CallsInv, Kept, TypeOK
  <2>3. QED
    BY <2>1, <2>2
<1>2. QED
  BY <1>1, CallsAlways, PTL

-----------------------------------------------------------------------------
(* CompressionTiers: the score's table against the longest common choice.  *)

LEMMA LeastNatural ==
  ASSUME NEW T \in SUBSET Nat, T # {}
  PROVE  \E m \in T : \A k \in T : m <= k
<1>1. IsWellFoundedOn(OpToRel(<, Nat), Nat)
  BY NatLessThanWellFounded
<1>2. PICK m \in T : \A k \in T : <<k, m>> \notin OpToRel(<, Nat)
  BY <1>1, WFMin
<1>3. \A k \in T : ~(k < m)
  BY <1>2 DEF OpToRel
<1>4. QED
  BY <1>3

LEMMA Induction ==
  ASSUME NEW S, 0 \in S, \A n \in Nat : n \in S => n + 1 \in S
  PROVE  \A n \in Nat : n \in S
<1>1. SUFFICES ASSUME Nat \ S # {} PROVE FALSE
  OBVIOUS
<1>2. PICK m \in Nat \ S : \A k \in Nat \ S : m <= k
  BY <1>1, LeastNatural
<1>3. m # 0 /\ m - 1 \in Nat
  BY <1>2
<1>4. m - 1 \in S
  BY <1>2, <1>3
<1>5. QED
  BY <1>2, <1>3, <1>4

\* n words can be picked from the first i of s and the first j of t.
Picks(s, t, i, j, n) ==
  \E f \in Rising(n, i), g \in Rising(n, j) : \A k \in 1..n : s[f[k]] = t[g[k]]

\* The most that can.
Most(s, t, i, j, n) ==
  n \in 0..i /\ Picks(s, t, i, j, n) /\ \A m \in Nat : Picks(s, t, i, j, m) => m <= n

LEMMA RisingNone == \A m \in Nat : [k \in 1..0 |-> 0] \in Rising(0, m)
BY DEF Rising

LEMMA RisingMore ==
  ASSUME NEW n \in Nat, NEW m \in Nat, NEW f \in Rising(n, m)
  PROVE  [k \in 1..(n + 1) |-> IF k = n + 1 THEN m + 1 ELSE f[k]] \in Rising(n + 1, m + 1)
<1> DEFINE h == [k \in 1..(n + 1) |-> IF k = n + 1 THEN m + 1 ELSE f[k]]
<1>1. f \in [1..n -> 1..m] /\ \A j, k \in 1..n : j < k => f[j] < f[k]
  BY DEF Rising
<1>2. h \in [1..(n + 1) -> 1..(m + 1)]
  BY <1>1
<1>3. ASSUME NEW j \in 1..(n + 1), NEW k \in 1..(n + 1), j < k
      PROVE  h[j] < h[k]
  <2>1. j \in 1..n /\ h[j] = f[j] /\ f[j] \in 1..m
    BY <1>1, <1>3
  <2>2. CASE k = n + 1
    BY <2>1, <2>2
  <2>3. CASE k # n + 1
    BY <1>1, <1>3, <2>1, <2>3
  <2>4. QED
    BY <2>2, <2>3
<1>4. QED
  BY <1>2, <1>3 DEF Rising

LEMMA RisingLess ==
  ASSUME NEW n \in Nat, NEW m \in Nat, NEW f \in Rising(n + 1, m)
  PROVE  m >= 1 /\ [k \in 1..n |-> f[k]] \in Rising(n, m - 1)
<1> DEFINE h == [k \in 1..n |-> f[k]]
<1>1. /\ f \in [1..(n + 1) -> 1..m]
      /\ \A j, k \in 1..(n + 1) : j < k => f[j] < f[k]
  BY DEF Rising
<1>2. n + 1 \in 1..(n + 1) /\ f[n + 1] \in 1..m
  BY <1>1
<1>3. ASSUME NEW k \in 1..n
      PROVE  f[k] \in 1..(m - 1) /\ k \in 1..(n + 1)
  BY <1>1, <1>2
<1>4. h \in [1..n -> 1..(m - 1)]
  BY <1>3
<1>5. \A j, k \in 1..n : j < k => h[j] < h[k]
  BY <1>1, <1>3
<1>6. QED
  BY <1>2, <1>4, <1>5 DEF Rising

LEMMA RisingWider ==
  ASSUME NEW n \in Nat, NEW m \in Nat \ {0}, NEW f \in Rising(n, m - 1)
  PROVE  f \in Rising(n, m)
BY DEF Rising

LEMMA RisingWithin ==
  ASSUME NEW n \in Nat, NEW m \in Nat \ {0}, NEW f \in Rising(n + 1, m), f[n + 1] # m
  PROVE  f \in Rising(n + 1, m - 1)
<1>1. /\ f \in [1..(n + 1) -> 1..m]
      /\ \A j, k \in 1..(n + 1) : j < k => f[j] < f[k]
  BY DEF Rising
<1>2. n + 1 \in 1..(n + 1) /\ f[n + 1] \in 1..(m - 1)
  BY <1>1
<1>3. \A k \in 1..(n + 1) : f[k] \in 1..(m - 1)
  BY <1>1, <1>2
<1>4. f \in [1..(n + 1) -> 1..(m - 1)]
  BY <1>1, <1>3
<1>5. QED
  BY <1>1, <1>4 DEF Rising

LEMMA PicksNone == ASSUME NEW s, NEW t, NEW i \in Nat, NEW j \in Nat
                   PROVE  Picks(s, t, i, j, 0)
BY RisingNone DEF Picks

LEMMA PicksFewer ==
  ASSUME NEW s, NEW t, NEW i \in Nat, NEW j \in Nat, NEW n \in Nat, Picks(s, t, i, j, n + 1)
  PROVE  i >= 1 /\ j >= 1 /\ Picks(s, t, i - 1, j - 1, n)
<1>1. PICK f \in Rising(n + 1, i), g \in Rising(n + 1, j) :
             \A k \in 1..(n + 1) : s[f[k]] = t[g[k]]
  BY DEF Picks
<1> DEFINE F == [k \in 1..n |-> f[k]]
           G == [k \in 1..n |-> g[k]]
<1>2. F \in Rising(n, i - 1) /\ G \in Rising(n, j - 1) /\ i >= 1 /\ j >= 1
  BY RisingLess
<1>3. \A k \in 1..n : s[F[k]] = t[G[k]]
  BY <1>1
<1> HIDE DEF F, G
<1>4. QED
  BY <1>2, <1>3 DEF Picks

\* An empty beginning.
LEMMA MostEmpty ==
  ASSUME NEW s, NEW t, NEW i \in Nat, NEW j \in Nat, i = 0 \/ j = 0
  PROVE  Most(s, t, i, j, 0)
<1>1. ASSUME NEW m \in Nat, Picks(s, t, i, j, m)
      PROVE  m <= 0
  <2>1. SUFFICES ASSUME m # 0 PROVE FALSE
    OBVIOUS
  <2>2. m - 1 \in Nat /\ Picks(s, t, i, j, (m - 1) + 1)
    BY <1>1, <2>1
  <2> DEFINE n == m - 1
  <2>a. n \in Nat /\ Picks(s, t, i, j, n + 1)
    BY <2>2
  <2> HIDE DEF n
  <2>b. i >= 1 /\ j >= 1
    BY <2>a, PicksFewer
  <2>3. QED
    BY <2>b
<1>2. QED
  BY <1>1, PicksNone DEF Most

\* The same word at both ends.
LEMMA MostSame ==
  ASSUME NEW s, NEW t, NEW i \in Nat \ {0}, NEW j \in Nat \ {0}, s[i] = t[j],
         NEW n, Most(s, t, i - 1, j - 1, n)
  PROVE  Most(s, t, i, j, n + 1)
<1>1. n \in Nat /\ n + 1 \in 0..i
  BY DEF Most
<1>2. Picks(s, t, i, j, n + 1)
  <2>1. PICK f \in Rising(n, i - 1), g \in Rising(n, j - 1) :
               \A k \in 1..n : s[f[k]] = t[g[k]]
    BY DEF Most, Picks
  <2> DEFINE F == [k \in 1..(n + 1) |-> IF k = n + 1 THEN i - 1 + 1 ELSE f[k]]
             G == [k \in 1..(n + 1) |-> IF k = n + 1 THEN j - 1 + 1 ELSE g[k]]
  <2>a. i - 1 \in Nat /\ j - 1 \in Nat
    OBVIOUS
  <2>2. F \in Rising(n + 1, i - 1 + 1) /\ G \in Rising(n + 1, j - 1 + 1)
    BY <1>1, <2>1, <2>a, RisingMore, Zenon
  <2>3. i - 1 + 1 = i /\ j - 1 + 1 = j
    OBVIOUS
  <2>4. \A k \in 1..(n + 1) : s[F[k]] = t[G[k]]
    BY <1>1, <2>1, <2>3
  <2> HIDE DEF F, G
  <2>5. QED
    BY <2>2, <2>3, <2>4 DEF Picks
<1>3. ASSUME NEW m \in Nat, Picks(s, t, i, j, m)
      PROVE  m <= n + 1
  <2>1. SUFFICES ASSUME m # 0 PROVE m <= n + 1
    BY <1>1
  <2>2. m - 1 \in Nat /\ Picks(s, t, i, j, (m - 1) + 1)
    BY <1>3, <2>1
  <2>3. Picks(s, t, i - 1, j - 1, m - 1)
    BY <2>2, PicksFewer
  <2>4. m - 1 <= n
    BY <2>2, <2>3 DEF Most
  <2>5. QED
    BY <1>1, <2>4
<1>4. QED
  BY <1>1, <1>2, <1>3 DEF Most

\* Different words: one of the two is left out.
LEMMA MostDiffer ==
  ASSUME NEW s, NEW t, NEW i \in Nat \ {0}, NEW j \in Nat \ {0}, s[i] # t[j],
         NEW a, Most(s, t, i - 1, j, a), NEW b, Most(s, t, i, j - 1, b)
  PROVE  Most(s, t, i, j, Max({a, b}))
<1>1. a \in 0..(i - 1) /\ b \in 0..i
  BY DEF Most
<1>2. Max({a, b}) = IF a >= b THEN a ELSE b
  BY <1>1 DEF Max
<1>3. \A n \in Nat : Picks(s, t, i - 1, j, n) => Picks(s, t, i, j, n)
  BY RisingWider DEF Picks
<1>4. \A n \in Nat : Picks(s, t, i, j - 1, n) => Picks(s, t, i, j, n)
  BY RisingWider DEF Picks
<1>5. Max({a, b}) \in 0..i /\ Picks(s, t, i, j, Max({a, b}))
  BY <1>1, <1>2, <1>3, <1>4 DEF Most
<1>6. ASSUME NEW m \in Nat, Picks(s, t, i, j, m)
      PROVE  m <= a \/ m <= b
  <2>1. SUFFICES ASSUME m # 0 PROVE m <= a \/ m <= b
    BY <1>1
  <2>2. m - 1 \in Nat /\ m = (m - 1) + 1
    BY <2>1
  <2>3. PICK f \in Rising(m, i), g \in Rising(m, j) : \A k \in 1..m : s[f[k]] = t[g[k]]
    BY <1>6 DEF Picks
  <2>4. f[m] # i \/ g[m] # j
    BY <2>2, <2>3
  <2>5. CASE f[m] # i
    <3>1. f \in Rising(m, i - 1)
      BY <2>2, <2>5, RisingWithin
    <3>2. QED
      BY <2>3, <3>1 DEF Picks, Most
  <2>6. CASE g[m] # j
    <3>1. g \in Rising(m, j - 1)
      BY <2>2, <2>6, RisingWithin
    <3>2. QED
      BY <2>3, <3>1 DEF Picks, Most
  <2>7. QED
    BY <2>4, <2>5, <2>6
<1>7. QED
  BY <1>1, <1>2, <1>5, <1>6 DEF Most

LEMMA MostIsOne ==
  ASSUME NEW s, NEW t, NEW i \in Nat, NEW j \in Nat,
         NEW n, NEW m, Most(s, t, i, j, n), Most(s, t, i, j, m)
  PROVE  n = m
BY DEF Most

LEMMA MostExists ==
  ASSUME NEW s, NEW t, NEW i \in Nat, NEW j \in Nat
  PROVE  \E n : Most(s, t, i, j, n)
<1> DEFINE S == {k \in Nat : \A x, y \in Nat : x + y <= k => \E n : Most(s, t, x, y, n)}
<1>1. 0 \in S
  BY MostEmpty
<1>2. ASSUME NEW k \in Nat, k \in S
      PROVE  k + 1 \in S
  <2>1. SUFFICES ASSUME NEW x \in Nat, NEW y \in Nat, x + y <= k + 1
                 PROVE  \E n : Most(s, t, x, y, n)
    OBVIOUS
  <2>2. CASE x = 0 \/ y = 0
    BY <2>2, MostEmpty
  <2>3. CASE x # 0 /\ y # 0
    <3>1. x - 1 \in Nat /\ y - 1 \in Nat /\ x - 1 + y <= k /\ x + (y - 1) <= k
          /\ (x - 1) + (y - 1) <= k
      BY <2>1, <2>3
    <3>2. CASE s[x] = t[y]
      BY <1>2, <2>3, <3>1, <3>2, MostSame
    <3>3. CASE s[x] # t[y]
      <4>1. PICK a : Most(s, t, x - 1, y, a)
        BY <1>2, <3>1
      <4>2. PICK b : Most(s, t, x, y - 1, b)
        BY <1>2, <3>1
      <4>3. QED
        BY <2>3, <3>3, <4>1, <4>2, MostDiffer
    <3>4. QED
      BY <3>2, <3>3
  <2>4. QED
    BY <2>2, <2>3
<1> HIDE DEF S
<1>3. i + j \in S
  BY <1>1, <1>2, Induction
<1>4. QED
  BY <1>3 DEF S

\* The recurrence that calculateRougeL fills its table in by.
Table(s, t, d) ==
  d = [cell \in (0..Len(s)) \X (0..Len(t)) |->
        LET i == cell[1]  j == cell[2] IN
        IF i = 0 \/ j = 0 THEN 0
        ELSE IF s[i] = t[j] THEN d[<<i - 1, j - 1>>] + 1
        ELSE Max({d[<<i - 1, j>>], d[<<i, j - 1>>]})]

LEMMA TableIsMost ==
  ASSUME NEW s \in Seq(Word), NEW t \in Seq(Word), NEW d, Table(s, t, d)
  PROVE  Most(s, t, Len(s), Len(t), d[<<Len(s), Len(t)>>])
<1> DEFINE S == {k \in Nat : \A x \in 0..Len(s), y \in 0..Len(t) :
                   x + y <= k => Most(s, t, x, y, d[<<x, y>>])}
<1>1. Len(s) \in Nat /\ Len(t) \in Nat
  OBVIOUS
<1>2. ASSUME NEW x \in 0..Len(s), NEW y \in 0..Len(t), x = 0 \/ y = 0
      PROVE  Most(s, t, x, y, d[<<x, y>>])
  <2>1. d[<<x, y>>] = 0
    BY <1>2 DEF Table
  <2>a. x \in Nat /\ y \in Nat
    BY <1>1
  <2>2. QED
    BY <1>2, <2>1, <2>a, MostEmpty, Zenon
<1>3. 0 \in S
  BY <1>1, <1>2
<1>4. ASSUME NEW k \in Nat, k \in S
      PROVE  k + 1 \in S
  <2>1. SUFFICES ASSUME NEW x \in 0..Len(s), NEW y \in 0..Len(t), x + y <= k + 1
                 PROVE  Most(s, t, x, y, d[<<x, y>>])
    OBVIOUS
  <2>2. CASE x = 0 \/ y = 0
    BY <1>2, <2>2
  <2>3. CASE x # 0 /\ y # 0
    <3>1. /\ x \in Nat \ {0} /\ y \in Nat \ {0}
          /\ x - 1 \in 0..Len(s) /\ y - 1 \in 0..Len(t)
          /\ x - 1 + y <= k /\ x + (y - 1) <= k /\ (x - 1) + (y - 1) <= k
      BY <1>1, <2>1, <2>3
    <3>2. CASE s[x] = t[y]
      <4>1. Most(s, t, x - 1, y - 1, d[<<x - 1, y - 1>>])
        BY <1>4, <3>1
      <4>2. d[<<x, y>>] = d[<<x - 1, y - 1>>] + 1
        BY <2>3, <3>2 DEF Table
      <4>3. QED
        BY <3>1, <3>2, <4>1, <4>2, MostSame, Zenon
    <3>3. CASE s[x] # t[y]
      <4>1. Most(s, t, x - 1, y, d[<<x - 1, y>>]) /\ Most(s, t, x, y - 1, d[<<x, y - 1>>])
        BY <1>4, <3>1
      <4>2. d[<<x, y>>] = Max({d[<<x - 1, y>>], d[<<x, y - 1>>]})
        BY <2>3, <3>3 DEF Table
      <4> DEFINE a == d[<<x - 1, y>>]  b == d[<<x, y - 1>>]
      <4>3. Most(s, t, x - 1, y, a) /\ Most(s, t, x, y - 1, b)
        BY <4>1
      <4> HIDE DEF a, b
      <4>4. Most(s, t, x, y, Max({a, b}))
        BY <3>1, <3>3, <4>3, MostDiffer
      <4>5. QED
        BY <4>2, <4>4 DEF a, b
    <3>4. QED
      BY <3>2, <3>3
  <2>4. QED
    BY <2>2, <2>3
<1> HIDE DEF S
<1>5. Len(s) + Len(t) \in Nat /\ Len(s) \in 0..Len(s) /\ Len(t) \in 0..Len(t)
  BY <1>1
<1>6. Len(s) + Len(t) \in S
  BY <1>3, <1>4, <1>5, Induction
<1>7. QED
  BY <1>5, <1>6 DEF S

LEMMA TableExists ==
  ASSUME NEW s \in Seq(Word), NEW t \in Seq(Word)
  PROVE  \E d : Table(s, t, d)
<1> DEFINE most(i, j) == CHOOSE n : Most(s, t, i, j, n)
           d == [cell \in (0..Len(s)) \X (0..Len(t)) |-> most(cell[1], cell[2])]
           body(cell) ==
             LET i == cell[1]  j == cell[2] IN
             IF i = 0 \/ j = 0 THEN 0
             ELSE IF s[i] = t[j] THEN d[<<i - 1, j - 1>>] + 1
             ELSE Max({d[<<i - 1, j>>], d[<<i, j - 1>>]})
<1>1. Len(s) \in Nat /\ Len(t) \in Nat
  OBVIOUS
<1>2. ASSUME NEW i \in Nat, NEW j \in Nat
      PROVE  Most(s, t, i, j, most(i, j)) /\ \A n : Most(s, t, i, j, n) => n = most(i, j)
  BY MostExists, MostIsOne
<1>3. \A i \in 0..Len(s), j \in 0..Len(t) : d[<<i, j>>] = most(i, j)
  OBVIOUS
<1> HIDE DEF most
<1>4. ASSUME NEW i \in 0..Len(s), NEW j \in 0..Len(t)
      PROVE  most(i, j) = IF i = 0 \/ j = 0 THEN 0
                          ELSE IF s[i] = t[j] THEN d[<<i - 1, j - 1>>] + 1
                          ELSE Max({d[<<i - 1, j>>], d[<<i, j - 1>>]})
  <2>1. i \in Nat /\ j \in Nat
    BY <1>1
  <2>2. CASE i = 0 \/ j = 0
    BY <1>2, <2>1, <2>2, MostEmpty
  <2>3. CASE i # 0 /\ j # 0
    <3>1. /\ i \in Nat \ {0} /\ j \in Nat \ {0} /\ i - 1 \in Nat /\ j - 1 \in Nat
          /\ i - 1 \in 0..Len(s) /\ j - 1 \in 0..Len(t)
      BY <1>1, <2>3
    <3>2. /\ d[<<i - 1, j - 1>>] = most(i - 1, j - 1)
          /\ d[<<i - 1, j>>] = most(i - 1, j) /\ d[<<i, j - 1>>] = most(i, j - 1)
      BY <1>3, <3>1
    <3>3. CASE s[i] = t[j]
      <4>1. Most(s, t, i, j, most(i - 1, j - 1) + 1)
        BY <1>2, <3>1, <3>3, MostSame
      <4>2. most(i, j) = most(i - 1, j - 1) + 1
        BY <1>2, <2>1, <4>1
      <4>3. QED
        BY <2>3, <3>2, <3>3, <4>2
    <3>4. CASE s[i] # t[j]
      <4>1. Most(s, t, i, j, Max({most(i - 1, j), most(i, j - 1)}))
        BY <1>2, <3>1, <3>4, MostDiffer
      <4>2. most(i, j) = Max({most(i - 1, j), most(i, j - 1)})
        BY <1>2, <2>1, <4>1
      <4>3. QED
        BY <2>3, <3>2, <3>4, <4>2
    <3>5. QED
      BY <3>3, <3>4
  <2>4. QED
    BY <2>2, <2>3
<1>5. \A cell \in (0..Len(s)) \X (0..Len(t)) : most(cell[1], cell[2]) = body(cell)
  BY <1>4
<1>6. d = [cell \in (0..Len(s)) \X (0..Len(t)) |-> body(cell)]
  BY <1>5
<1>7. Table(s, t, d)
  BY <1>6 DEF Table
<1>8. QED
  BY <1>7

LEMMA LcsInTable ==
  ASSUME NEW s, NEW t, \E d : Table(s, t, d)
  PROVE  \E d : Table(s, t, d) /\ Lcs(s, t) = d[<<Len(s), Len(t)>>]
BY DEF Lcs, Table

\* The table's last cell is the most words that can be picked from both texts.
LEMMA LcsIsMost ==
  ASSUME NEW s \in Seq(Word), NEW t \in Seq(Word)
  PROVE  Most(s, t, Len(s), Len(t), Lcs(s, t))
BY TableExists, LcsInTable, TableIsMost

\* The table of QualityScorer.lcs ends in the length of the longest common subsequence
\* of the two texts, whatever their words and lengths.
THEOREM LcsIsLongest ==
  ASSUME NEW s \in Seq(Word), NEW t \in Seq(Word)
  PROVE  Lcs(s, t) \in 0..Len(s) /\ Lcs(s, t) = LongestCommon(s, t)
<1> DEFINE N == {n \in 0..Len(s) : Share(s, t, n)}
<1>1. Most(s, t, Len(s), Len(t), Lcs(s, t))
  BY LcsIsMost
<1>2. \A n : Share(s, t, n) <=> Picks(s, t, Len(s), Len(t), n)
  BY DEF Share, Picks
<1>3. /\ Lcs(s, t) \in N /\ N \subseteq Nat /\ \A n \in N : n <= Lcs(s, t)
  BY <1>1, <1>2 DEF Most
<1>4. Max(N) = Lcs(s, t)
  BY <1>3 DEF Max
<1>5. QED
  BY <1>3, <1>4 DEF LongestCommon

-----------------------------------------------------------------------------
(* CompressionTiers: what a call has done with its sources.                *)

Before  == {"authorize", "duplicate", "prepare"}
Working == {"stamp", "compress", "ask", "backoff", "score", "write"}

Drafts ==
  [tierUsed : Tiers, madeBy : Tiers, tokens : 0..1, scored : BOOLEAN, passed : BOOLEAN,
   rollback : BOOLEAN, llmText : Text \cup {NoText}]
Written == [metadata : Nat, text : Text]
Digests ==
  [digest : Written, charCount : Nat, given : Text, stamp : Stamps, fields : Drafts]

\* The fields d of a finished source, by a call at tier t with an LLM or not and the
\* check on or off.
Finished(d, source, t, client, check) ==
  /\ d \in Drafts
  /\ d.llmText = NoText =>
       /\ ~client /\ ~d.scored /\ ~d.passed /\ ~d.rollback
       /\ d.madeBy = 0 /\ d.tierUsed = t /\ d.tokens = 0
  /\ d.llmText # NoText =>
       LET good == Passes(source.text.words, d.llmText.words, t) IN
       /\ client /\ d.tokens = 1
       /\ d.scored <=> check
       /\ d.passed <=> check /\ good
       /\ d.rollback <=> check /\ ~good
       /\ d.madeBy = (IF d.rollback THEN 0 ELSE t) /\ d.tierUsed = d.madeBy

\* A digest, of the source that it is in the place of.
Made(s, source, limit, t, client, check) ==
  /\ s \in Digests
  /\ s.digest.text = CompressDigest(s.given, limit)
  /\ s.charCount = CharCount(s.digest.text)
  /\ s.stamp \in ParseTimestamp(source)
  /\ Finished(s.fields, source, t, client, check)

TierKnown ==
  /\ stage \in Stages \cup Over /\ input \in Inputs /\ tier \in Tiers
  /\ scoring \in BOOLEAN /\ llm \in BOOLEAN
  /\ stage = "authorize" \/ tier \in GetPolicy.allowedTiers
  /\ llm => tier # 0
  /\ stage \in Before => ~llm /\ summaries = <<>>
  /\ stage \in {"ask", "backoff", "score"} => llm
  /\ stage = "score" => scoring

SummariesMade ==
  /\ summaries \in Seq(Digests) /\ Len(summaries) <= Len(input.sources)
  /\ \A i \in 1..Len(summaries) :
       Made(summaries[i], input.sources[i], input.limit, tier, llm, scoring)

\* The source in hand, as far as it has come.
InHand ==
  /\ content \in Text \cup {NoText} /\ text \in Text \cup {NoText} /\ stamp \in Stamps
  /\ attempt \in 0..MaxRetries /\ (stage = "backoff" => attempt < MaxRetries)
  /\ stage \in Working => Len(summaries) < Len(input.sources) /\ content = SourceInHand.text
  /\ stage \in Working \ {"stamp"} => stamp \in ParseTimestamp(SourceInHand)
  /\ stage \in {"stamp", "compress", "ask", "backoff"} => draft = Blank
  /\ stage = "score" => text \in Text /\ draft = [Blank EXCEPT !.madeBy = tier, !.tokens = 1,
                                                               !.llmText = text]
  /\ stage = "write" => text \in Text /\ Finished(draft, SourceInHand, tier, llm, scoring)

\* How many answers the source in hand may have been billed for by now.
Asked ==
  IF stage = "ask" THEN attempt
  ELSE IF stage \in {"backoff", "score", "write"} THEN attempt + 1 ELSE 0

Dropped == {i \in 1..Len(summaries) : summaries[i].fields.scored /\ ~summaries[i].fields.passed}

Accounted ==
  /\ totals \in [tokens : Nat, rollbacks : Nat] /\ billed \in Nat /\ wasted \in Nat
  /\ stage \in Before => billed = 0
  /\ billed # 0 => llm
  /\ billed <= (MaxRetries + 1) * Len(input.sources)
  /\ stage \in Working \cup {"load"} => billed <= (MaxRetries + 1) * Len(summaries) + Asked
  /\ stage # "failed" =>
       billed = totals.tokens + wasted + (IF stage \in {"score", "write"} THEN draft.tokens ELSE 0)
  /\ IsFiniteSet(Dropped) /\ totals.rollbacks = Cardinality(Dropped)

TiersInv == TierKnown /\ SummariesMade /\ InHand /\ Accounted

-----------------------------------------------------------------------------
(* CompressionTiers: what the steps are built from.                        *)

LEMMA MaxOfTwo ==
  ASSUME NEW a \in Int, NEW b \in Int
  PROVE  Max({a, b}) = IF a >= b THEN a ELSE b
BY DEF Max

LEMMA PolicyTiers ==
  \E h \in 1..3 : GetPolicy.allowedTiers = 0..h
<1> DEFINE r == IF input.risk \in 0..2 THEN input.risk ELSE 2
<1>1. r \in 0..2
  OBVIOUS
<1>2. GetPolicy = RiskLevelPolicies[r]
  BY DEF GetPolicy
<1> HIDE DEF r
<1>3. GetPolicy.allowedTiers = 0..(3 - r)
  BY <1>1, <1>2 DEF RiskLevelPolicies
<1>4. QED
  BY <1>1, <1>3

\* No tier is refused after it is tuned.
LEMMA TunedAllowed ==
  ASSUME NEW t \in Tiers
  PROVE  AutoTuneTier(t) \in GetPolicy.allowedTiers \cap Tiers
<1>1. PICK h \in 1..3 : GetPolicy.allowedTiers = 0..h
  BY PolicyTiers
<1>2. Max(0..h) = h
  BY DEF Max
<1>3. QED
  BY <1>1, <1>2 DEF AutoTuneTier, Tiers

LEMMA CutIsText ==
  ASSUME NEW t \in Text, NEW limit \in Int
  PROVE  CompressDigest(t, limit) \in Text
<1>1. t.header \in Nat /\ t.body \in Nat
  BY DEF Text
<1> DEFINE room == Room(t.header, limit)
<1>2. room \in Int
  BY <1>1 DEF Room
<1> HIDE DEF room
<1>3. Max({0, t.body + room}) \in Nat
  BY <1>1, <1>2, MaxOfTwo
<1>4. Slice(t.body, room) \in Nat
  BY <1>1, <1>2, <1>3 DEF Slice
<1>5. QED
  BY <1>4 DEF CompressDigest, Text, room

\* A body that is cut fits whenever its header does.
LEMMA CutFits ==
  ASSUME NEW t \in Text, NEW limit \in Int, t.header + 2 <= limit
  PROVE  CharCount(CompressDigest(t, limit)) <= limit
<1>1. t.header \in Nat /\ t.body \in Nat
  BY DEF Text
<1> DEFINE short == CompressDigest(t, limit)
<1>2. short.header = t.header /\ short.body = Slice(t.body, limit - t.header - 2)
  BY DEF CompressDigest, Text, Room
<1> HIDE DEF short
<1>3. short.body \in Nat /\ short.body <= limit - t.header - 2
  BY <1>1, <1>2 DEF Slice
<1>4. QED
  BY <1>1, <1>2, <1>3 DEF CharCount, short

\* A header that leaves no room costs the body as much as it is too long by.
LEMMA CutDrops ==
  ASSUME NEW t \in Text, NEW limit \in Int, t.header + 2 - limit > 0
  PROVE  /\ CompressDigest(t, limit).header = t.header
         /\ CompressDigest(t, limit).body <= Max({0, t.body - (t.header + 2 - limit)})
<1>1. t.header \in Nat /\ t.body \in Nat
  BY DEF Text
<1> DEFINE short == CompressDigest(t, limit)
           room  == limit - t.header - 2
<1>2. short.header = t.header /\ short.body = Slice(t.body, room)
  BY DEF CompressDigest, Text, Room
<1> HIDE DEF short
<1>3. /\ room \in Int /\ room < 0 /\ ~(t.body <= room) /\ ~(room >= 0)
      /\ t.body + room = t.body - (t.header + 2 - limit) /\ t.body + room \in Int
  BY <1>1
<1> HIDE DEF room
<1>4. short.body = Max({0, t.body + room})
  BY <1>2, <1>3 DEF Slice
<1>5. Max({0, t.body + room}) \in Int
  BY <1>3, MaxOfTwo
<1>6. QED
  BY <1>2, <1>3, <1>4, <1>5 DEF short

LEMMA PlaceIsFirst ==
  ASSUME NEW places \in Seq(Found)
  PROVE  /\ Place(places) \in 0..Len(places)
         /\ Place(places) = 0 => \A k \in 1..Len(places) : places[k] = "none"
         /\ Place(places) # 0 => /\ places[Place(places)] # "none"
                                 /\ \A k \in 1..(Place(places) - 1) : places[k] = "none"
<1> DEFINE says == {i \in DOMAIN places : places[i] # "none"}
<1>1. DOMAIN places = 1..Len(places) /\ Len(places) \in Nat
  OBVIOUS
<1>2. says \in SUBSET Nat
  BY <1>1
<1>3. CASE says = {}
  BY <1>1, <1>3 DEF Place
<1>4. CASE says # {}
  <2> HIDE DEF says
  <2>1. PICK m \in says : \A k \in says : m <= k
    BY <1>2, <1>4, LeastNatural
  <2>2. Min(says) \in says /\ \A k \in says : Min(says) <= k
    BY <2>1 DEF Min
  <2>3. Place(places) = Min(says)
    BY <1>4 DEF Place, says
  <2>4. /\ Min(says) \in 1..Len(places) /\ places[Min(says)] # "none"
        /\ \A k \in 1..Len(places) : places[k] # "none" => Min(says) <= k
    BY <1>1, <2>2 DEF says
  <2>5. \A k \in 1..(Min(says) - 1) : k \in 1..Len(places) /\ ~(Min(says) <= k)
    BY <1>1, <2>4
  <2>6. QED
    BY <1>1, <2>3, <2>4, <2>5
<1>5. QED
  BY <1>3, <1>4

LEMMA TriedPlaces ==
  ASSUME NEW source \in Source
  PROVE  Tried(source) \in Seq(Found) /\ Len(Tried(source)) \in {2, 3}
BY DEF Tried, Source

LEMMA StampIsOne ==
  ASSUME NEW source \in Source, NEW at \in ParseTimestamp(source)
  PROVE  at \in Stamps
<1> DEFINE places == Tried(source)
<1>1. Place(places) \in 0..3
  BY PlaceIsFirst, TriedPlaces
<1> HIDE DEF places
<1>2. Place(places) # 0 => Labels[Place(places)] \in Origins
  BY <1>1 DEF Labels, Origins
<1>3. PICK from \in Origins : at = Dated(from)
  <2>1. CASE Place(places) # 0
    <3>1. at = Dated(IF places[Place(places)] = "date" THEN Labels[Place(places)] ELSE "now")
      BY <2>1 DEF ParseTimestamp, places
    <3>2. QED
      BY <1>2, <2>1, <3>1 DEF Origins
  <2>2. CASE Place(places) = 0
    <3>1. at = Dated("now") \/ at = Dated("mtime")
      BY <2>2 DEF ParseTimestamp, places
    <3>2. QED
      BY <3>1 DEF Origins
  <2>3. QED
    BY <2>1, <2>2
<1>4. QED
  BY <1>3 DEF Stamps

LEMMA InputKnown ==
  ASSUME TierKnown
  PROVE  /\ input.tier \in Tiers /\ input.limit \in Int
         /\ input.sources \in Seq(Source) /\ Len(input.sources) \in Nat
BY InputsAssumption DEF TierKnown, Input

LEMMA HandIsSource ==
  ASSUME TierKnown, SummariesMade, Len(summaries) < Len(input.sources)
  PROVE  SourceInHand \in Source /\ SourceInHand.text \in Text
<1>1. Len(summaries) + 1 \in 1..Len(input.sources)
  BY InputKnown DEF SummariesMade
<1>2. SourceInHand \in Source
  BY <1>1, InputKnown DEF SourceInHand
<1>3. QED
  BY <1>2 DEF Source

LEMMA TextHand ==
  NoText \notin Text /\ Answers \subseteq Text
BY AnswersAssumption

-----------------------------------------------------------------------------
(* CompressionTiers: the steps, one by one.                                *)

\* A step that adds no digest.
LEMMA SummariesStay ==
  ASSUME SummariesMade, summaries' = summaries, input' = input,
         \/ summaries = <<>>
         \/ tier' = tier /\ llm' = llm /\ scoring' = scoring
  PROVE  /\ SummariesMade' /\ Dropped' = Dropped
         /\ SourceInHand' = SourceInHand /\ GetPolicy' = GetPolicy
<1>1. Dropped' = Dropped /\ SourceInHand' = SourceInHand /\ GetPolicy' = GetPolicy
  BY DEF Dropped, SourceInHand, GetPolicy
<1>2. SummariesMade'
  <2>1. CASE summaries = <<>>
    <3>1. Len(summaries) = 0
      BY <2>1
    <3>2. \A i \in 1..Len(summaries)' : FALSE
      BY <3>1
    <3>3. summaries' \in Seq(Digests) /\ Len(summaries)' <= Len(input.sources)'
      BY DEF SummariesMade
    <3>4. QED
      BY <3>2, <3>3 DEF SummariesMade
  <2>2. CASE tier' = tier /\ llm' = llm /\ scoring' = scoring
    BY <2>2 DEF SummariesMade
  <2>3. QED
    BY <2>1, <2>2
<1>3. QED
  BY <1>1, <1>2

LEMMA AuthorizeStep ==
  ASSUME TiersInv, Authorize
  PROVE  TiersInv'
<1> USE DEF TiersInv
<1>1. /\ stage = "authorize" /\ stage' \in {"duplicate", "failed"}
      /\ summaries = <<>> /\ ~llm /\ input' = input /\ summaries' = summaries /\ llm' = llm
      /\ content' = content /\ text' = text /\ stamp' = stamp /\ attempt' = attempt
      /\ totals' = totals /\ billed' = billed /\ wasted' = wasted
      /\ tier' = AutoTuneTier(input.tier) /\ scoring' \in BOOLEAN
  BY DEF Authorize, TierKnown, Before
<1>2. SummariesMade' /\ Dropped' = Dropped /\ GetPolicy' = GetPolicy
  BY <1>1, SummariesStay
<1>3. tier' \in GetPolicy.allowedTiers /\ tier' \in Tiers
  BY <1>1, InputKnown, TunedAllowed
<1>4. TierKnown'
  BY <1>1, <1>2, <1>3 DEF TierKnown, Stages, Over
<1>5. InHand'
  BY <1>1 DEF InHand, Working
<1>6. Accounted'
  BY <1>1, <1>2 DEF Accounted, Before, Working
<1>7. QED
  BY <1>2, <1>4, <1>5, <1>6

LEMMA PassStep ==
  ASSUME TiersInv, PassDuplicateCheck
  PROVE  TiersInv'
<1> USE DEF TiersInv
<1>1. /\ stage = "duplicate" /\ stage' \in {"prepare", "refused"}
      /\ input' = input /\ summaries' = summaries /\ llm' = llm /\ tier' = tier
      /\ content' = content /\ text' = text /\ stamp' = stamp /\ attempt' = attempt
      /\ totals' = totals /\ billed' = billed /\ wasted' = wasted /\ scoring' = scoring
  BY DEF PassDuplicateCheck
<1>2. SummariesMade' /\ Dropped' = Dropped /\ GetPolicy' = GetPolicy
  BY <1>1, SummariesStay
<1>3. TierKnown'
  BY <1>1, <1>2 DEF TierKnown, Stages, Over, Before
<1>4. InHand'
  BY <1>1 DEF InHand, Working
<1>5. Accounted'
  BY <1>1, <1>2 DEF Accounted, Before, Working
<1>6. QED
  BY <1>2, <1>3, <1>4, <1>5

LEMMA PrepareStep ==
  ASSUME TiersInv, Prepare
  PROVE  TiersInv'
<1> USE DEF TiersInv
<1>1. /\ stage = "prepare" /\ stage' \in {"load", "failed"} /\ summaries = <<>>
      /\ input' = input /\ summaries' = summaries /\ tier' = tier
      /\ content' = content /\ text' = text /\ stamp' = stamp /\ attempt' = attempt
      /\ totals' = totals /\ billed' = billed /\ wasted' = wasted /\ scoring' = scoring
  BY DEF Prepare, TierKnown, Before
<1>a. llm' = (tier # 0 /\ input.llm)
  BY DEF Prepare
<1>b. llm' \in BOOLEAN /\ (llm' => tier # 0)
  BY <1>a
<1>2. SummariesMade' /\ Dropped' = Dropped /\ GetPolicy' = GetPolicy
  BY <1>1, SummariesStay
<1>3. TierKnown'
  BY <1>1, <1>b, <1>2 DEF TierKnown, Stages, Over, Before
<1>4. InHand'
  BY <1>1 DEF InHand, Working
<1>c. billed = 0 /\ Len(summaries) = 0
  BY <1>1 DEF Accounted, Before
<1>5. Accounted'
  BY <1>1, <1>c, <1>2 DEF Accounted, Before, Working, Asked, MaxRetries
<1>6. QED
  BY <1>2, <1>3, <1>4, <1>5

LEMMA LoadStep ==
  ASSUME TiersInv, LoadContent
  PROVE  TiersInv'
<1> USE DEF TiersInv
<1>1. /\ stage = "load" /\ Len(summaries) < Len(input.sources)
      /\ input' = input /\ summaries' = summaries /\ tier' = tier /\ llm' = llm
      /\ text' = text /\ stamp' = stamp /\ attempt' = attempt
      /\ totals' = totals /\ billed' = billed /\ wasted' = wasted /\ scoring' = scoring
      /\ draft' = Blank
      /\ \/ content' = SourceInHand.text /\ stage' = "stamp"
         \/ content' = content /\ stage' = "failed"
  BY DEF LoadContent
<1>2. SummariesMade' /\ Dropped' = Dropped /\ GetPolicy' = GetPolicy /\ SourceInHand' = SourceInHand
  BY <1>1, SummariesStay
<1>3. TierKnown'
  BY <1>1, <1>2 DEF TierKnown, Stages, Over, Before
<1>a. Blank' = Blank
  BY <1>1 DEF Blank
<1>4. InHand'
  BY <1>1, <1>2, <1>a, HandIsSource DEF InHand, Working
<1>5. Accounted'
  BY <1>1, <1>2 DEF Accounted, Before, Working, Asked
<1>6. QED
  BY <1>2, <1>3, <1>4, <1>5

LEMMA StampStep ==
  ASSUME TiersInv, Stamp
  PROVE  TiersInv'
<1> USE DEF TiersInv
<1>1. /\ stage = "stamp"
      /\ input' = input /\ summaries' = summaries /\ tier' = tier /\ llm' = llm
      /\ text' = text /\ content' = content /\ attempt' = attempt /\ draft' = draft
      /\ totals' = totals /\ billed' = billed /\ wasted' = wasted /\ scoring' = scoring
      /\ \/ stage' = "failed" /\ stamp' = stamp
         \/ stage' = "compress" /\ stamp' \in ParseTimestamp(SourceInHand)
  BY DEF Stamp
<1>2. SummariesMade' /\ Dropped' = Dropped /\ GetPolicy' = GetPolicy /\ SourceInHand' = SourceInHand
  BY <1>1, SummariesStay
<1>3. TierKnown'
  BY <1>1, <1>2 DEF TierKnown, Stages, Over, Before
<1>a. Blank' = Blank
  BY <1>1 DEF Blank
<1>b. Len(summaries) < Len(input.sources) /\ SourceInHand \in Source
  BY <1>1, HandIsSource DEF InHand, Working
<1>c. stamp' \in Stamps
  BY <1>1, <1>b, StampIsOne DEF InHand
<1>4. InHand'
  BY <1>1, <1>2, <1>a, <1>c DEF InHand, Working
<1>5. Accounted'
  BY <1>1, <1>2 DEF Accounted, Before, Working, Asked
<1>6. QED
  BY <1>2, <1>3, <1>4, <1>5

LEMMA CompressStep ==
  ASSUME TiersInv, Compress
  PROVE  TiersInv'
<1> USE DEF TiersInv
<1>1. /\ stage = "compress" /\ attempt' = 0
      /\ input' = input /\ summaries' = summaries /\ tier' = tier /\ llm' = llm
      /\ content' = content /\ stamp' = stamp /\ draft' = draft
      /\ totals' = totals /\ billed' = billed /\ wasted' = wasted /\ scoring' = scoring
  BY DEF Compress
<1>0. \/ ~llm /\ stage' = "write" /\ text' = CompressDigest(content, input.limit)
      \/ llm /\ stage' \in {"ask", "failed"} /\ text' = text
  <2>1. tier = 0 => ~llm
    BY DEF TierKnown
  <2>2. CASE tier = 0 \/ ~llm
    <3>1. stage' = "write" /\ text' = CompressDigest(content, input.limit)
      BY <2>2, Zenon DEF Compress
    <3>2. QED
      BY <2>1, <2>2, <3>1
  <2>3. CASE ~(tier = 0 \/ ~llm)
    <3>1. stage' \in {"ask", "failed"} /\ text' = text
      BY <2>3 DEF Compress
    <3>2. QED
      BY <2>3, <3>1
  <2>4. QED
    BY <2>2, <2>3
<1>2. SummariesMade' /\ Dropped' = Dropped /\ GetPolicy' = GetPolicy /\ SourceInHand' = SourceInHand
  BY <1>1, SummariesStay
<1>3. TierKnown'
  BY <1>0, <1>1, <1>2 DEF TierKnown, Stages, Over, Before
<1>a. Blank' = Blank /\ draft = Blank /\ draft.tokens = 0
  BY <1>1 DEF Blank, InHand
<1>b. /\ Len(summaries) < Len(input.sources) /\ SourceInHand \in Source
      /\ content = SourceInHand.text /\ content \in Text
  BY <1>1, HandIsSource DEF InHand, Working
<1>c. text' \in Text \cup {NoText} /\ (stage' = "write" => text' \in Text)
  BY <1>0, <1>1, <1>b, CutIsText, InputKnown DEF InHand
<1>d. ~llm => Finished(Blank, SourceInHand, tier, llm, scoring)
  BY DEF Finished, Blank, Drafts, TierKnown, Tiers
<1>4. InHand'
  BY <1>0, <1>1, <1>2, <1>a, <1>b, <1>c, <1>d DEF InHand, Working, MaxRetries
<1>e. Len(summaries) \in Nat
  BY DEF SummariesMade
<1>5. Accounted'
  BY <1>0, <1>1, <1>2, <1>a, <1>e DEF Accounted, Before, Working, Asked, MaxRetries
<1>6. QED
  BY <1>2, <1>3, <1>4, <1>5

LEMMA BlankIsDraft ==
  ASSUME TierKnown
  PROVE  /\ Blank \in Drafts /\ Blank.tierUsed = tier /\ Blank.madeBy = 0 /\ Blank.tokens = 0
         /\ Blank.scored = FALSE /\ Blank.passed = FALSE /\ Blank.rollback = FALSE
         /\ Blank.llmText = NoText
BY DEF Blank, Drafts, TierKnown, Tiers

LEMMA RolledBackDraft ==
  ASSUME NEW b \in Drafts, NEW d, d = RolledBack(b)
  PROVE  /\ d \in Drafts /\ d.tierUsed = 0 /\ d.madeBy = 0
         /\ d.tokens = b.tokens /\ d.llmText = b.llmText
         /\ d.scored = b.scored /\ d.passed = b.passed /\ d.rollback = TRUE
<1>1. 0 \in Tiers /\ TRUE \in BOOLEAN
  BY DEF Tiers
<1>2. QED
  BY <1>1 DEF Drafts, RolledBack

\* A request: answered with a text, billed without one, or not billed.
LEMMA AskStep ==
  ASSUME TiersInv, AskLLM
  PROVE  TiersInv'
<1> USE DEF TiersInv
<1>1. /\ stage = "ask"
      /\ input' = input /\ summaries' = summaries /\ tier' = tier /\ llm' = llm
      /\ content' = content /\ stamp' = stamp /\ attempt' = attempt
      /\ totals' = totals /\ scoring' = scoring
  BY DEF AskLLM
<1>2. SummariesMade' /\ Dropped' = Dropped /\ GetPolicy' = GetPolicy /\ SourceInHand' = SourceInHand
  BY <1>1, SummariesStay
<1>a. Blank' = Blank /\ draft = Blank /\ draft.tokens = 0 /\ llm
  BY <1>1 DEF Blank, InHand, TierKnown
<1>b. /\ Len(summaries) < Len(input.sources) /\ SourceInHand \in Source
      /\ content = SourceInHand.text /\ content \in Text /\ stamp \in ParseTimestamp(SourceInHand)
      /\ attempt \in 0..3 /\ Len(summaries) \in Nat /\ Len(input.sources) \in Nat
  BY <1>1, HandIsSource, InputKnown DEF InHand, Working, SummariesMade, MaxRetries
<1>c. /\ billed \in Nat /\ wasted \in Nat /\ totals.tokens \in Nat
      /\ totals \in [tokens : Nat, rollbacks : Nat]
      /\ billed <= 4 * Len(summaries) + attempt /\ billed = totals.tokens + wasted
      /\ IsFiniteSet(Dropped) /\ totals.rollbacks = Cardinality(Dropped)
  BY <1>1 DEF Accounted, Working, Asked, MaxRetries
<1>d. billed + 1 <= 4 * Len(input.sources)
  <2>1. 4 * Len(summaries) + 4 <= 4 * Len(input.sources)
    BY <1>b
  <2>2. QED
    BY <1>b, <1>c, <2>1
<1>3. CASE \E reply \in Answers :
             /\ text' = reply
             /\ draft' = [draft EXCEPT !.madeBy = tier, !.tokens = 1, !.llmText = reply]
             /\ billed' = billed + 1 /\ wasted' = wasted
             /\ stage' = IF scoring THEN "score" ELSE "write"
  <2>1. PICK reply \in Answers :
             /\ text' = reply
             /\ draft' = [Blank EXCEPT !.madeBy = tier, !.tokens = 1, !.llmText = reply]
             /\ billed' = billed + 1 /\ wasted' = wasted
             /\ stage' = IF scoring THEN "score" ELSE "write"
    BY <1>3, <1>a
  <2>2. reply \in Text /\ reply # NoText
    BY TextHand
  <2>3. stage' \in {"score", "write"} /\ (stage' = "score" <=> scoring)
    BY <2>1
  <2> DEFINE d == [Blank EXCEPT !.madeBy = tier, !.tokens = 1, !.llmText = reply]
  <2>4. /\ d.tierUsed = tier /\ d.madeBy = tier /\ d.tokens = 1 /\ d.scored = FALSE
        /\ d.passed = FALSE /\ d.rollback = FALSE /\ d.llmText = reply /\ d \in Drafts
    <3>1. /\ Blank \in Drafts
          /\ Blank.tierUsed = tier /\ Blank.scored = FALSE /\ Blank.passed = FALSE
          /\ Blank.rollback = FALSE
      BY BlankIsDraft, Zenon
    <3>2. tier \in Tiers /\ 1 \in 0..1 /\ reply \in Text \cup {NoText}
      BY <2>2 DEF TierKnown
    <3>3. d = [Blank EXCEPT !.madeBy = tier, !.tokens = 1, !.llmText = reply]
      OBVIOUS
    <3> HIDE DEF d
    <3>4. QED
      BY <3>1, <3>2, <3>3 DEF Drafts
  <2>5. draft' = d
    BY <2>1
  <2> HIDE DEF d
  <2>6. ~scoring => Finished(d, SourceInHand, tier, llm, scoring)
    BY <1>a, <2>2, <2>4 DEF Finished
  <2>7. TierKnown'
    BY <1>1, <1>2, <1>a, <2>3 DEF TierKnown, Stages, Over, Before
  <2>8. InHand'
    <3>1. stage' = "score" =>
            draft' = [Blank EXCEPT !.madeBy = tier, !.tokens = 1, !.llmText = text']
      BY <2>1
    <3>2. stage' = "write" => Finished(draft', SourceInHand, tier, llm, scoring)
      BY <2>3, <2>5, <2>6
    <3>3. text' \in Text
      BY <2>1, <2>2
    <3>4. (stage = "score" =>
             draft = [Blank EXCEPT !.madeBy = tier, !.tokens = 1, !.llmText = text])'
      BY <1>1, <1>a, <3>1
    <3>5. QED
      BY <1>1, <1>2, <1>b, <2>3, <3>2, <3>3, <3>4 DEF InHand, Working, MaxRetries
  <2>9. Accounted'
    <3>1. draft'.tokens = 1
      BY <2>4, <2>5
    <3>2. /\ billed' = billed + 1 /\ wasted' = wasted /\ billed' \in Nat
          /\ billed' <= 4 * Len(input.sources)
          /\ billed' <= 4 * Len(summaries) + (attempt + 1)
          /\ billed' = totals.tokens + wasted + 1
      <4>1. billed' = billed + 1 /\ wasted' = wasted
        BY <2>1
      <4>2. QED
        BY <1>b, <1>c, <1>d, <4>1
    <3>3. Asked' = attempt + 1
      BY <1>1, <2>3 DEF Asked
    <3>4. QED
      BY <1>1, <1>2, <1>a, <1>c, <2>3, <3>1, <3>2, <3>3
         DEF Accounted, Before, Working, MaxRetries
  <2>10. QED
    BY <1>2, <2>7, <2>8, <2>9
<1>4. CASE /\ \/ billed' = billed + 1 /\ wasted' = wasted + 1
              \/ billed' = billed /\ wasted' = wasted
           /\ Retry /\ text' = text /\ draft' = draft
  <2>a. Retry
    BY <1>4
  <2>1. stage' = "failed" \/ (stage' = "backoff" /\ attempt < 3)
    BY <2>a, <1>b DEF Retry, MaxRetries
  <2>2. TierKnown'
    BY <1>1, <1>2, <1>a, <2>1 DEF TierKnown, Stages, Over, Before
  <2>3. InHand'
    BY <1>1, <1>2, <1>4, <1>a, <1>b, <2>1 DEF InHand, Working, MaxRetries
  <2>4. Accounted'
    <3>1. /\ billed' \in Nat /\ wasted' \in Nat
          /\ billed' <= 4 * Len(input.sources)
          /\ billed' <= 4 * Len(summaries) + (attempt + 1)
          /\ billed' = totals.tokens + wasted'
      <4>1. CASE billed' = billed /\ wasted' = wasted
        BY <1>b, <1>c, <1>d, <4>1
      <4>2. CASE billed' = billed + 1 /\ wasted' = wasted + 1
        BY <1>b, <1>c, <1>d, <4>2
      <4>3. QED
        BY <1>4, <4>1, <4>2
    <3>2. stage' = "backoff" => Asked' = attempt + 1
      BY <1>1, <2>1 DEF Asked
    <3>3. stage' \notin Before \cup {"score", "write"} /\ (stage' \in Working => stage' = "backoff")
      BY <2>1 DEF Before, Working
    <3>4. QED
      BY <1>1, <1>2, <1>a, <1>c, <2>1, <3>1, <3>2, <3>3 DEF Accounted, MaxRetries
  <2>5. QED
    BY <1>2, <2>2, <2>3, <2>4
<1>5. CASE /\ stage' = "failed" /\ text' = text /\ draft' = draft
           /\ billed' = billed /\ wasted' = wasted
  <2>2. TierKnown'
    BY <1>1, <1>2, <1>5, <1>a DEF TierKnown, Stages, Over, Before
  <2>3. InHand'
    BY <1>1, <1>2, <1>5, <1>b DEF InHand, Working, MaxRetries
  <2>4. Accounted'
    BY <1>1, <1>2, <1>5, <1>a, <1>b DEF Accounted, Before, Working, Asked, MaxRetries
  <2>5. QED
    BY <1>2, <2>2, <2>3, <2>4
<1>6. QED
  BY <1>3, <1>4, <1>5 DEF AskLLM

LEMMA BackoffStep ==
  ASSUME TiersInv, Backoff
  PROVE  TiersInv'
<1> USE DEF TiersInv
<1>1. /\ stage = "backoff" /\ stage' = "ask" /\ attempt' = attempt + 1
      /\ input' = input /\ summaries' = summaries /\ tier' = tier /\ llm' = llm
      /\ content' = content /\ stamp' = stamp /\ text' = text /\ draft' = draft
      /\ totals' = totals /\ scoring' = scoring /\ billed' = billed /\ wasted' = wasted
  BY DEF Backoff
<1>2. SummariesMade' /\ Dropped' = Dropped /\ GetPolicy' = GetPolicy /\ SourceInHand' = SourceInHand
  BY <1>1, SummariesStay
<1>a. Blank' = Blank /\ draft = Blank /\ draft.tokens = 0
  BY <1>1 DEF Blank, InHand
<1>b. attempt \in 0..3 /\ attempt < 3
  BY <1>1 DEF InHand, MaxRetries
<1>3. TierKnown'
  BY <1>1, <1>2 DEF TierKnown, Stages, Over, Before
<1>4. InHand'
  BY <1>1, <1>2, <1>a, <1>b DEF InHand, Working, MaxRetries
<1>5. Accounted'
  BY <1>1, <1>2, <1>a, <1>b DEF Accounted, Before, Working, Asked
<1>6. QED
  BY <1>2, <1>3, <1>4, <1>5

LEMMA ScoreStep ==
  ASSUME TiersInv, Score
  PROVE  TiersInv'
<1> USE DEF TiersInv
<1> DEFINE good == Passes(content.words, text.words, tier)
           scored == [draft EXCEPT !.scored = TRUE, !.passed = good]
<1>1. /\ stage = "score" /\ stage' = "write"
      /\ input' = input /\ summaries' = summaries /\ tier' = tier /\ llm' = llm
      /\ content' = content /\ stamp' = stamp /\ attempt' = attempt
      /\ totals' = totals /\ scoring' = scoring /\ billed' = billed /\ wasted' = wasted
      /\ text' = IF good THEN text ELSE CompressDigest(content, input.limit)
      /\ draft' = IF good THEN scored ELSE RolledBack(scored)
  BY DEF Score
<1>2. SummariesMade' /\ Dropped' = Dropped /\ GetPolicy' = GetPolicy /\ SourceInHand' = SourceInHand
  BY <1>1, SummariesStay
<1>a. /\ text \in Text /\ llm /\ scoring
      /\ draft = [Blank EXCEPT !.madeBy = tier, !.tokens = 1, !.llmText = text]
  BY <1>1 DEF InHand, TierKnown
<1>b. /\ Len(summaries) < Len(input.sources) /\ SourceInHand \in Source
      /\ content = SourceInHand.text /\ content \in Text
  BY <1>1, HandIsSource DEF InHand, Working
<1>c. /\ draft.tierUsed = tier /\ draft.madeBy = tier /\ draft.tokens = 1
      /\ draft.scored = FALSE /\ draft.passed = FALSE /\ draft.rollback = FALSE
      /\ draft.llmText = text /\ draft \in Drafts
  <2>1. /\ Blank \in Drafts
        /\ Blank.tierUsed = tier /\ Blank.scored = FALSE /\ Blank.passed = FALSE
        /\ Blank.rollback = FALSE
    BY BlankIsDraft, Zenon
  <2>2. tier \in Tiers /\ 1 \in 0..1 /\ text \in Text \cup {NoText}
    BY <1>a DEF TierKnown
  <2>3. QED
    BY <1>a, <2>1, <2>2 DEF Drafts
<1>d. good \in BOOLEAN /\ TRUE \in BOOLEAN
  BY DEF Passes
<1>e. text' \in Text
  BY <1>1, <1>a, <1>b, CutIsText, InputKnown
<1> HIDE DEF good
<1>s. /\ scored \in Drafts /\ scored.tierUsed = tier /\ scored.madeBy = tier
      /\ scored.tokens = 1 /\ scored.scored = TRUE /\ scored.passed = good
      /\ scored.rollback = FALSE /\ scored.llmText = text
  <2>1. scored = [draft EXCEPT !.scored = TRUE, !.passed = good]
    OBVIOUS
  <2> HIDE DEF scored
  <2>2. QED
    BY <1>c, <1>d, <2>1 DEF Drafts
<1> HIDE DEF scored
<1>f. Finished(draft', SourceInHand, tier, llm, scoring) /\ draft'.tokens = 1
  <2>1. CASE good
    <3>1. draft' = scored /\ scored.passed = TRUE
      BY <1>1, <1>s, <2>1
    <3>2. QED
      BY <1>a, <1>b, <1>s, <2>1, <3>1, TextHand DEF Finished, good
  <2>2. CASE ~good
    <3>1. draft' = RolledBack(scored) /\ scored.passed = FALSE
      BY <1>1, <1>d, <1>s, <2>2
    <3>2. /\ draft' \in Drafts /\ draft'.tierUsed = 0 /\ draft'.madeBy = 0
          /\ draft'.tokens = 1 /\ draft'.scored = TRUE /\ draft'.passed = FALSE
          /\ draft'.rollback = TRUE /\ draft'.llmText = text
      BY <1>s, <3>1, RolledBackDraft, Zenon
    <3>3. QED
      BY <1>a, <1>b, <2>2, <3>2, TextHand DEF Finished, good
  <2>3. QED
    BY <2>1, <2>2
<1>3. TierKnown'
  BY <1>1, <1>2 DEF TierKnown, Stages, Over, Before
<1>4. InHand'
  BY <1>1, <1>2, <1>b, <1>e, <1>f DEF InHand, Working, MaxRetries
<1>5. Accounted'
  BY <1>1, <1>2, <1>c, <1>f DEF Accounted, Before, Working, Asked
<1>6. QED
  BY <1>2, <1>3, <1>4, <1>5

LEMMA WriteSummaryStep ==
  ASSUME TiersInv, WriteSummary
  PROVE  TiersInv'
<1> USE DEF TiersInv
<1>1. /\ stage = "write"
      /\ input' = input /\ tier' = tier /\ llm' = llm /\ scoring' = scoring
      /\ content' = content /\ stamp' = stamp /\ attempt' = attempt /\ text' = text
      /\ draft' = draft /\ billed' = billed /\ wasted' = wasted
  BY DEF WriteSummary
<1>a. /\ Len(summaries) < Len(input.sources) /\ SourceInHand \in Source
      /\ Len(summaries) \in Nat /\ Len(input.sources) \in Nat /\ summaries \in Seq(Digests)
      /\ text \in Text /\ Finished(draft, SourceInHand, tier, llm, scoring) /\ draft \in Drafts
      /\ stamp \in ParseTimestamp(SourceInHand) /\ stamp \in Stamps /\ attempt \in 0..3
  BY <1>1, HandIsSource, InputKnown DEF InHand, Working, SummariesMade, MaxRetries, Finished
<1>b. GetPolicy' = GetPolicy
  BY <1>1 DEF GetPolicy
<1>2. CASE stage' = "failed" /\ summaries' = summaries /\ totals' = totals
  <2>1. SummariesMade' /\ Dropped' = Dropped
    BY <1>1, <1>2, SummariesStay
  <2>2. TierKnown'
    BY <1>1, <1>2, <1>b DEF TierKnown, Stages, Over, Before
  <2>3. InHand'
    BY <1>1, <1>2 DEF InHand, Working
  <2>4. Accounted'
    BY <1>1, <1>2, <2>1 DEF Accounted, Before, Working
  <2>5. QED
    BY <2>1, <2>2, <2>3, <2>4
<1> DEFINE short == CompressDigest(text, input.limit)
<1>3. ASSUME NEW metadata \in MetadataLengths,
             stage' = "load", summaries' = Append(summaries, SessionDigest(short, metadata)),
             totals' = [tokens |-> totals.tokens + draft.tokens,
                        rollbacks |-> totals.rollbacks + (IF draft.rollback THEN 1 ELSE 0)]
      PROVE  TiersInv'
  <2> DEFINE s == SessionDigest(short, metadata)
  <2>0. short \in Text /\ CharCount(short) \in Nat /\ metadata \in Nat
    <3>1. short \in Text
      BY <1>a, CutIsText, InputKnown
    <3> HIDE DEF short
    <3>2. QED
      BY <3>1, MetadataAssumption DEF CharCount, Text
  <2>1. /\ s.digest.text = CompressDigest(s.given, input.limit) /\ s.fields = draft
        /\ s.charCount = CharCount(s.digest.text)
        /\ s.stamp \in ParseTimestamp(SourceInHand) /\ s \in Digests
    <3>1. s.given = text /\ s.digest.text = short
      BY DEF SessionDigest, FormatSessionDigest
    <3>2. s.digest.text = CompressDigest(s.given, input.limit)
      BY <3>1
    <3> HIDE DEF short
    <3>3. QED
      BY <1>a, <2>0, <3>2 DEF Digests, Written, SessionDigest, FormatSessionDigest
  <2>b. summaries' = Append(summaries, s)
    BY <1>3
  <2> HIDE DEF s
  <2>2. Made(s, SourceInHand, input.limit, tier, llm, scoring)
    BY <1>a, <2>1 DEF Made
  <2> DEFINE n == Len(summaries)
  <2>3. /\ summaries' \in Seq(Digests) /\ Len(summaries') = n + 1
        /\ summaries'[n + 1] = s /\ \A i \in 1..n : summaries'[i] = summaries[i]
    BY <2>b, <1>a, <2>1
  <2>4. SummariesMade'
    <3>1. ASSUME NEW i \in 1..(n + 1)
          PROVE  Made(summaries'[i], input.sources[i], input.limit, tier, llm, scoring)
      <4>1. CASE i = n + 1
        BY <2>2, <2>3, <4>1 DEF SourceInHand
      <4>2. CASE i # n + 1
        <5>1. i \in 1..n
          BY <1>a, <4>2
        <5>2. QED
          BY <2>3, <5>1 DEF SummariesMade
      <4>3. QED
        BY <4>1, <4>2
    <3>2. QED
      BY <1>1, <1>a, <2>3, <3>1 DEF SummariesMade
  <2>5. TierKnown'
    BY <1>1, <1>3, <1>b DEF TierKnown, Stages, Over, Before
  <2>6. InHand'
    BY <1>1, <1>3 DEF InHand, Working
  <2>7. /\ IsFiniteSet(Dropped') /\ totals'.rollbacks = Cardinality(Dropped')
    <3>1. draft.rollback <=> draft.scored /\ ~draft.passed
      BY <1>a DEF Finished
    <3>2. IsFiniteSet(Dropped) /\ totals.rollbacks = Cardinality(Dropped) /\ n + 1 \notin Dropped
      BY <1>a DEF Accounted, Dropped
    <3>3. CASE draft.rollback
      <4>1. Dropped' = Dropped \cup {n + 1}
        BY <1>a, <2>1, <2>3, <3>1, <3>3 DEF Dropped
      <4>2. totals'.rollbacks = totals.rollbacks + 1
        BY <1>3, <3>3
      <4>3. QED
        BY <3>2, <4>1, <4>2, FS_AddElement
    <3>4. CASE ~draft.rollback
      <4>1. Dropped' = Dropped
        BY <1>a, <2>1, <2>3, <3>1, <3>4 DEF Dropped
      <4>2. totals'.rollbacks = totals.rollbacks
        BY <1>3, <3>2, <3>4, FS_CardinalityType
      <4>3. QED
        BY <3>2, <4>1, <4>2
    <3>5. QED
      BY <3>3, <3>4
  <2>8. /\ totals.tokens \in Nat /\ draft.tokens \in Nat
        /\ totals'.tokens = totals.tokens + draft.tokens
        /\ totals' \in [tokens : Nat, rollbacks : Nat]
    <3>1. totals.tokens \in Nat /\ totals.rollbacks \in Nat /\ draft.tokens \in Nat
      BY <1>a DEF Accounted, Drafts
    <3>2. totals.rollbacks + (IF draft.rollback THEN 1 ELSE 0) \in Nat
      BY <3>1
    <3>3. QED
      BY <1>3, <3>1, <3>2
  <2>9. Accounted'
    <3>1. /\ billed \in Nat /\ wasted \in Nat /\ billed <= 4 * Len(input.sources)
          /\ billed <= 4 * n + (attempt + 1) /\ billed = totals.tokens + wasted + draft.tokens
          /\ billed # 0 => llm
      BY <1>1 DEF Accounted, Working, Asked, MaxRetries
    <3>2. billed <= 4 * (n + 1)
      BY <1>a, <3>1
    <3>3. Asked' = 0
      BY <1>3 DEF Asked
    <3>4. /\ totals'.tokens = totals.tokens + draft.tokens
          /\ billed' = billed /\ wasted' = wasted /\ wasted' \in Nat /\ draft' = draft
          /\ stage' = "load" /\ input' = input /\ Len(summaries') = n + 1
          /\ attempt' = attempt
      BY <1>1, <1>3, <2>3, <2>8 DEF Accounted
    <3>5. billed' = totals'.tokens + wasted'
      BY <2>8, <3>1, <3>4
    <3>6. billed' # 0 => llm'
      BY <1>1, <3>1
    <3>7. billed' <= 4 * Len(summaries')
      BY <3>2, <3>4
    <3>8. QED
      BY <1>a, <2>7, <2>8, <3>1, <3>3, <3>4, <3>5, <3>6, <3>7
         DEF Accounted, Before, Working, MaxRetries
  <2>10. QED
    BY <2>4, <2>5, <2>6, <2>9
<1>4. QED
  BY <1>2, <1>3 DEF WriteSummary

LEMMA AnswerStep ==
  ASSUME TiersInv, Answer
  PROVE  TiersInv'
<1> USE DEF TiersInv
<1>1. /\ stage = "load" /\ stage' = "answered"
      /\ input' = input /\ summaries' = summaries /\ tier' = tier /\ llm' = llm
      /\ content' = content /\ text' = text /\ stamp' = stamp /\ attempt' = attempt
      /\ totals' = totals /\ billed' = billed /\ wasted' = wasted /\ scoring' = scoring
  BY DEF Answer
<1>2. SummariesMade' /\ Dropped' = Dropped /\ GetPolicy' = GetPolicy
  BY <1>1, SummariesStay
<1>3. TierKnown'
  BY <1>1, <1>2 DEF TierKnown, Stages, Over, Before
<1>4. InHand'
  BY <1>1 DEF InHand, Working
<1>5. Accounted'
  BY <1>1, <1>2 DEF Accounted, Before, Working
<1>6. QED
  BY <1>2, <1>3, <1>4, <1>5

LEMMA StandStill ==
  ASSUME TiersInv, UNCHANGED tiersVars
  PROVE  TiersInv'
<1> USE DEF TiersInv
<1>1. /\ stage' = stage /\ draft' = draft
      /\ input' = input /\ summaries' = summaries /\ tier' = tier /\ llm' = llm
      /\ content' = content /\ text' = text /\ stamp' = stamp /\ attempt' = attempt
      /\ totals' = totals /\ billed' = billed /\ wasted' = wasted /\ scoring' = scoring
  BY DEF tiersVars
<1>2. SummariesMade' /\ Dropped' = Dropped /\ GetPolicy' = GetPolicy /\ SourceInHand' = SourceInHand
  BY <1>1, SummariesStay
<1>3. TierKnown'
  BY <1>1, <1>2 DEF TierKnown
<1>a. Blank' = Blank /\ Asked' = Asked
  BY <1>1 DEF Blank, Asked
<1>4. InHand'
  BY <1>1, <1>2, <1>a DEF InHand
<1>5. Accounted'
  BY <1>1, <1>2, <1>a DEF Accounted
<1>6. QED
  BY <1>2, <1>3, <1>4, <1>5

LEMMA TiersInvInit == TiersInit => TiersInv
<1> SUFFICES ASSUME TiersInit PROVE TiersInv
  OBVIOUS
<1>1. input \in Input /\ input.tier \in Tiers /\ Len(input.sources) \in Nat
  BY InputsAssumption DEF TiersInit, Input
<1>2. TierKnown
  BY <1>1 DEF TiersInit, TierKnown, Stages, Before
<1>3. SummariesMade
  <2>1. summaries = <<>> /\ summaries \in Seq(Digests) /\ Len(summaries) = 0
    BY DEF TiersInit
  <2>2. QED
    BY <1>1, <2>1 DEF SummariesMade
<1>4. InHand
  <2>1. Dated("now") \in Stamps
    BY DEF Stamps, Origins
  <2>2. QED
    BY <2>1 DEF TiersInit, InHand, Working, MaxRetries
<1>5. Accounted
  <2>1. Dropped = {}
    BY DEF TiersInit, Dropped
  <2>2. IsFiniteSet(Dropped) /\ Cardinality(Dropped) = 0
    BY <2>1, FS_EmptySet
  <2>3. QED
    BY <1>1, <2>2 DEF TiersInit, Accounted, Before, Working, MaxRetries
<1>6. QED
  BY <1>2, <1>3, <1>4, <1>5 DEF TiersInv

LEMMA TiersInvStep == TiersInv /\ [TiersNext]_tiersVars => TiersInv'
BY AuthorizeStep, PassStep, PrepareStep, LoadStep, StampStep, CompressStep, AskStep,
   BackoffStep, ScoreStep, WriteSummaryStep, AnswerStep, StandStill
   DEF TiersNext, CallOver

LEMMA TiersInvAlways == TiersSpec => []TiersInv
BY TiersInvInit, TiersInvStep, PTL DEF TiersSpec

-----------------------------------------------------------------------------
(* CompressionTiers: what the invariant says of every call.                *)

\* A digest's place in the input, and what is known of it.
LEMMA DigestKnown ==
  ASSUME TiersInv, NEW i \in DOMAIN summaries
  PROVE  /\ i \in 1..Len(summaries) /\ summaries[i] \in Digests
         /\ input.sources[i] \in Source
         /\ Made(summaries[i], input.sources[i], input.limit, tier, llm, scoring)
<1>1. summaries \in Seq(Digests) /\ Len(summaries) <= Len(input.sources)
  BY DEF TiersInv, SummariesMade
<1>2. i \in 1..Len(summaries) /\ summaries[i] \in Digests
  BY <1>1
<1>3. input.sources \in Seq(Source) /\ Len(input.sources) \in Nat
  BY InputKnown DEF TiersInv
<1>4. Len(summaries) \in Nat
  BY <1>1
<1>5. i \in 1..Len(input.sources)
  BY <1>1, <1>2, <1>3, <1>4
<1>6. input.sources[i] \in Source
  BY <1>3, <1>5
<1>7. Made(summaries[i], input.sources[i], input.limit, tier, llm, scoring)
  BY <1>2 DEF TiersInv, SummariesMade
<1>8. QED
  BY <1>2, <1>6, <1>7

LEMMA InvGivesTypes == TiersInv => TiersTypeOK
<1> SUFFICES ASSUME TiersInv PROVE TiersTypeOK
  OBVIOUS
<1>1. /\ stage \in Stages \cup Over /\ input \in Inputs /\ tier \in Tiers
      /\ scoring \in BOOLEAN /\ llm \in BOOLEAN
  BY DEF TiersInv, TierKnown
<1>2. /\ content \in Text \cup {NoText} /\ stamp \in Stamps /\ text \in Text \cup {NoText}
      /\ attempt \in Nat
  BY DEF TiersInv, InHand, MaxRetries
<1>3. stage \in {"stamp", "compress", "ask", "backoff", "score"} => content # NoText
  <2>1. SUFFICES ASSUME stage \in {"stamp", "compress", "ask", "backoff", "score"}
                 PROVE  content # NoText
    OBVIOUS
  <2>2. Len(summaries) < Len(input.sources) /\ content = SourceInHand.text
    BY <2>1 DEF TiersInv, InHand, Working
  <2>3. SourceInHand.text \in Text
    BY <2>2, HandIsSource DEF TiersInv
  <2>4. QED
    BY <2>2, <2>3, TextHand
<1>4. stage \in {"score", "write"} => text # NoText
  BY TextHand DEF TiersInv, InHand
<1>5. Len(summaries) <= Len(input.sources)
  BY DEF TiersInv, SummariesMade
<1>6. totals \in [tokens : Nat, rollbacks : Nat] /\ billed \in Nat /\ wasted \in Nat
  BY DEF TiersInv, Accounted
<1>7. QED
  BY <1>1, <1>2, <1>3, <1>4, <1>5, <1>6 DEF TiersTypeOK

LEMMA InvGivesTiers == TiersInv => TierAllowed
<1> SUFFICES ASSUME TiersInv PROVE TierAllowed
  OBVIOUS
<1>1. stage = "authorize" \/ tier \in GetPolicy.allowedTiers
  BY DEF TiersInv, TierKnown
<1>2. ASSUME NEW i \in DOMAIN summaries
      PROVE  /\ summaries[i].fields.tierUsed \in GetPolicy.allowedTiers
             /\ summaries[i].fields.madeBy \in GetPolicy.allowedTiers
  <2>1. stage # "authorize"
    <3>1. SUFFICES ASSUME summaries = <<>> PROVE FALSE
      BY DEF TiersInv, TierKnown, Before
    <3>2. i \in 1..0
      BY <1>2, <3>1
    <3>3. QED
      BY <3>2
  <2>2. Finished(summaries[i].fields, input.sources[i], tier, llm, scoring)
    BY <1>2, DigestKnown DEF Made
  <2>3. summaries[i].fields.tierUsed \in {0, tier} /\ summaries[i].fields.madeBy \in {0, tier}
    BY <2>2 DEF Finished
  <2>4. 0 \in GetPolicy.allowedTiers
    BY PolicyTiers
  <2>5. QED
    BY <1>1, <2>1, <2>3, <2>4
<1>3. \A d \in Fields : {d.tierUsed, d.madeBy} \subseteq GetPolicy.allowedTiers
  BY <1>2 DEF Fields
<1>4. QED
  BY <1>1, <1>3 DEF TierAllowed

LEMMA InvGivesLimits == TiersInv => DigestFits /\ RequestsBounded
<1> SUFFICES ASSUME TiersInv PROVE DigestFits /\ RequestsBounded
  OBVIOUS
<1>1. ASSUME NEW i \in DOMAIN summaries
      PROVE  LET s    == summaries[i]
                 over == s.given.header + 2 - input.limit
             IN  /\ DigestLength(s.digest) = s.digest.metadata + s.charCount
                 /\ over <= 0 => DigestLength(s.digest) <= s.digest.metadata + input.limit
                 /\ over > 0 =>
                      /\ s.digest.text.header = s.given.header
                      /\ s.digest.text.body <= Max({0, s.given.body - over})
  <2> DEFINE s    == summaries[i]
             over == s.given.header + 2 - input.limit
  <2>1. s.given \in Text /\ s.digest.metadata \in Nat /\ s.charCount \in Nat
    BY DigestKnown DEF Digests, Written
  <2>2. /\ s.digest.text = CompressDigest(s.given, input.limit)
        /\ s.charCount = CharCount(s.digest.text)
    BY DigestKnown DEF Made
  <2>3. input.limit \in Int
    BY InputKnown DEF TiersInv
  <2> HIDE DEF s
  <2>4. DigestLength(s.digest) = s.digest.metadata + s.charCount
    BY <2>2 DEF DigestLength
  <2>5. ASSUME over <= 0
        PROVE  DigestLength(s.digest) <= s.digest.metadata + input.limit
    <3>1. s.given.header + 2 <= input.limit
      BY <2>1, <2>3, <2>5 DEF Text
    <3>2. s.charCount <= input.limit
      BY <2>1, <2>2, <2>3, <3>1, CutFits
    <3>3. QED
      BY <2>1, <2>3, <2>4, <3>2
  <2>6. ASSUME over > 0
        PROVE  /\ s.digest.text.header = s.given.header
               /\ s.digest.text.body <= Max({0, s.given.body - over})
    BY <2>1, <2>2, <2>3, <2>6, CutDrops
  <2>7. QED
    BY <2>4, <2>5, <2>6 DEF s
<1>2. DigestFits
  BY <1>1 DEF DigestFits
<1>3. billed <= (MaxRetries + 1) * Len(input.sources) /\ (tier = 0 => billed = 0)
  BY DEF TiersInv, Accounted, TierKnown
<1>4. QED
  BY <1>2, <1>3 DEF RequestsBounded

\* A call stays within its policy (authorize, compressSession): its tier, those it uses and
\* those it reports are among the risk level's; what is written and returned is at most the
\* metadata longer than the limit, if the header leaves room, and otherwise its body is cut
\* by what the header is too long by; a source costs at most four requests, at T0 none.
THEOREM CallWithinPolicy == TiersSpec => []WithinPolicy
<1>1. TiersInv => WithinPolicy
  BY InvGivesTypes, InvGivesTiers, InvGivesLimits DEF WithinPolicy
<1>2. QED
  BY <1>1, TiersInvAlways, PTL

LEMMA ThresholdKnown ==
  ASSUME NEW t \in Tiers
  PROVE  Threshold(t) = 85 \/ Threshold(t) = 70 \/ Threshold(t) = 60 \/ Threshold(t) = 50
BY DEF Threshold, Tiers

\* The code's test of the score and the reference for it agree.
LEMMA PassesIsGood ==
  ASSUME NEW ref \in Seq(Word), NEW sum \in Seq(Word), NEW t \in Tiers
  PROVE  Passes(ref, sum, t) <=>
           /\ Len(ref) + Len(sum) > 0
           /\ 200 * LongestCommon(ref, sum) >= Threshold(t) * (Len(ref) + Len(sum))
<1>1. Len(ref) \in Nat /\ Len(sum) \in Nat
  OBVIOUS
<1>2. LongestCommon(ref, sum) = Lcs(ref, sum)
  BY LcsIsLongest
<1>3. CASE ref # <<>> /\ sum # <<>>
  <2>1. Len(ref) > 0
    BY <1>1, <1>3
  <2>2. QED
    BY <1>1, <1>2, <1>3, <2>1 DEF Passes
<1>4. CASE ref = <<>> \/ sum = <<>>
  <2>1. Len(ref) = 0 \/ Len(sum) = 0
    BY <1>4
  <2>2. Lcs(ref, sum) = 0
    <3>1. Most(ref, sum, Len(ref), Len(sum), Lcs(ref, sum))
      BY LcsIsMost
    <3>2. Most(ref, sum, Len(ref), Len(sum), 0)
      BY <1>1, <2>1, MostEmpty
    <3>3. QED
      BY <1>1, <3>1, <3>2, MostIsOne
  <2> DEFINE all == Len(ref) + Len(sum)
  <2>3. all \in Nat
    BY <1>1
  <2> HIDE DEF all
  <2>4. all > 0 => ~(200 * 0 >= Threshold(t) * all)
    BY <2>3, ThresholdKnown
  <2>5. QED
    BY <1>2, <1>4, <2>2, <2>4 DEF Passes, all
<1>5. QED
  BY <1>3, <1>4

\* With the check on, a text of the LLM stays only when the words it has in common with the
\* source, in order, reach the tier's threshold; otherwise the extract replaces it and the
\* rollback is reported, and nothing else is (calculateRougeL, scoreQuality, compressSession).
THEOREM QualityAlwaysKept == TiersSpec => []QualityKept
<1>1. ASSUME TiersInv PROVE QualityKept
  <2>1. ASSUME NEW i \in DOMAIN summaries, summaries[i].fields.llmText = NoText
        PROVE  ~summaries[i].fields.rollback /\ summaries[i].fields.madeBy = 0
    BY <1>1, <2>1, DigestKnown DEF Made, Finished
  <2>2. ASSUME NEW i \in DOMAIN summaries, summaries[i].fields.llmText # NoText
        PROVE  LET d    == summaries[i].fields
                   ref  == input.sources[i].text.words
                   sum  == d.llmText.words
                   good == /\ Len(ref) + Len(sum) > 0
                           /\ 200 * LongestCommon(ref, sum)
                                >= Threshold(tier) * (Len(ref) + Len(sum))
               IN  /\ d.rollback <=> scoring /\ ~good
                   /\ d.passed <=> scoring /\ good
                   /\ d.madeBy = IF d.rollback THEN 0 ELSE tier
    <3> DEFINE d    == summaries[i].fields
               ref  == input.sources[i].text.words
               sum  == d.llmText.words
    <3>1. input.sources[i] \in Source /\ Finished(d, input.sources[i], tier, llm, scoring)
      BY <1>1, <2>2, DigestKnown DEF Made
    <3>2. d.llmText \in Text
      BY <2>2, <3>1 DEF Finished, Drafts
    <3>3. ref \in Seq(Word) /\ sum \in Seq(Word)
      BY <3>1, <3>2 DEF Source, Text
    <3>4. tier \in Tiers
      BY <1>1 DEF TiersInv, TierKnown
    <3>5. /\ d.rollback <=> scoring /\ ~Passes(ref, sum, tier)
          /\ d.passed <=> scoring /\ Passes(ref, sum, tier)
          /\ d.madeBy = IF d.rollback THEN 0 ELSE tier
      BY <2>2, <3>1 DEF Finished
    <3> HIDE DEF d, ref, sum
    <3>6. Passes(ref, sum, tier) <=>
            /\ Len(ref) + Len(sum) > 0
            /\ 200 * LongestCommon(ref, sum) >= Threshold(tier) * (Len(ref) + Len(sum))
      BY <3>3, <3>4, PassesIsGood
    <3>7. QED
      BY <3>5, <3>6 DEF d, ref, sum
  <2>3. QED
    BY <2>1, <2>2 DEF QualityKept
<1>2. QED
  BY <1>1, TiersInvAlways, PTL

\* What a timestamp says of where it is from.
LEMMA StampTells ==
  ASSUME NEW source \in Source, NEW at \in ParseTimestamp(source)
  PROVE  LET places == Tried(source)
             silent == \A k \in DOMAIN places : places[k] = "none"
             First(says) == \E k \in DOMAIN places :
               /\ places[k] = says
               /\ \A j \in 1..(k - 1) : places[j] = "none"
         IN  /\ at.source = "mtime" =>
                  \/ silent /\ at.from = IF source.kind = "paste" THEN "now" ELSE "mtime"
                  \/ First("unreadable") /\ at.from = "now"
             /\ at.source # "mtime" =>
                  /\ at.from = at.source
                  /\ First("date")
                  /\ \A k \in DOMAIN places :
                       places[k] = "date" /\ Labels[k] # at.from
                         => \E j \in 1..(k - 1) : Labels[j] = at.from
<1> DEFINE places == Tried(source)
           p == Place(places)
<1>1. places \in Seq(Found) /\ Len(places) \in {2, 3}
  BY TriedPlaces
<1> HIDE DEF places, p
<1>a. Len(places) \in Nat /\ Len(places) <= 3
  <2>1. CASE Len(places) = 2
    BY <2>1
  <2>2. CASE Len(places) = 3
    BY <2>2
  <2>3. QED
    BY <1>1, <2>1, <2>2
<1>2. DOMAIN places = 1..Len(places)
  BY <1>1
<1>3. /\ p \in 0..Len(places)
      /\ p = 0 => \A k \in 1..Len(places) : places[k] = "none"
      /\ p # 0 => places[p] # "none" /\ \A k \in 1..(p - 1) : places[k] = "none"
  BY <1>1, PlaceIsFirst DEF p
<1>4. p # 0 => at = Dated(IF places[p] = "date" THEN Labels[p] ELSE "now")
  BY DEF ParseTimestamp, places, p
<1>5. p = 0 => \/ at = Dated("now") /\ source.kind = "paste"
               \/ at = Dated("mtime") /\ source.kind = "file"
  BY DEF ParseTimestamp, places, p
<1>6. CASE p = 0
  <2>1. \A k \in DOMAIN places : places[k] = "none"
    BY <1>2, <1>3, <1>6
  <2>2. /\ at.source = "mtime"
        /\ at.from = IF source.kind = "paste" THEN "now" ELSE "mtime"
    BY <1>5, <1>6 DEF Dated
  <2>3. QED
    BY <2>1, <2>2 DEF places
<1>7. CASE p # 0
  <2>a. p \in 1..Len(places)
    BY <1>1, <1>3, <1>7
  <2>b. p \in 1..3
    BY <1>a, <2>a
  <2>d. places[p] \in Found
    BY <1>1, <2>a
  <2>c. places[p] \in Found /\ places[p] # "none"
    BY <1>3, <1>7, <2>d
  <2>1. p \in 1..Len(places) /\ p \in 1..3 /\ places[p] \in {"date", "unreadable"}
    BY <2>a, <2>b, <2>c DEF Found
  <2>2. CASE places[p] = "unreadable"
    <3>1. at = Dated("now")
      BY <1>4, <1>7, <2>2
    <3>a. at.source = "mtime" /\ at.from = "now"
      BY <3>1 DEF Dated
    <3>2. \E k \in DOMAIN places :
            places[k] = "unreadable" /\ \A j \in 1..(k - 1) : places[j] = "none"
      BY <1>2, <1>3, <1>7, <2>1, <2>2
    <3>3. QED
      BY <3>a, <3>2 DEF places
  <2>3. CASE places[p] = "date"
    <3>a. at = Dated(Labels[p])
      BY <1>4, <1>7, <2>3
    <3>b. Labels[p] \notin {"now", "mtime"}
      BY <2>1 DEF Labels
    <3>1. at.from = Labels[p]
      BY <3>a DEF Dated
    <3>2. at.source = at.from /\ at.source # "mtime"
      BY <3>a, <3>b DEF Dated
    <3>3. \E k \in DOMAIN places :
            places[k] = "date" /\ \A j \in 1..(k - 1) : places[j] = "none"
      BY <1>2, <1>3, <1>7, <2>1, <2>3
    <3>4. ASSUME NEW k \in DOMAIN places, places[k] = "date", Labels[k] # at.from
          PROVE  \E j \in 1..(k - 1) : Labels[j] = at.from
      <4>1. k \in 1..Len(places) /\ k # p
        BY <1>2, <3>1, <3>4
      <4>2. k \notin 1..(p - 1)
        BY <1>3, <1>7, <3>4
      <4>3. p \in 1..(k - 1)
        BY <1>1, <2>1, <4>1, <4>2
      <4>4. QED
        BY <3>1, <4>3
    <3>5. QED
      BY <3>2, <3>3, <3>4 DEF places
  <2>4. QED
    BY <2>1, <2>2, <2>3
<1>8. QED
  BY <1>6, <1>7

LEMMA InvGivesStamps == TiersInv => StampedByPriority
<1> SUFFICES ASSUME TiersInv PROVE StampedByPriority
  OBVIOUS
<1>1. ASSUME NEW i \in DOMAIN summaries
      PROVE  /\ input.sources[i] \in Source
             /\ summaries[i].stamp \in ParseTimestamp(input.sources[i])
  BY DigestKnown DEF Made
<1>2. QED
  BY <1>1, StampTells DEF StampedByPriority

LEMMA InvGivesReport == TiersInv => TierReportedRan /\ SpendingReported
<1> SUFFICES ASSUME TiersInv PROVE TierReportedRan /\ SpendingReported
  OBVIOUS
<1>1. ASSUME NEW i \in DOMAIN summaries
      PROVE  LET d == summaries[i].fields
             IN  /\ d.tierUsed # d.madeBy <=> tier # 0 /\ ~llm
                 /\ d.tierUsed # d.madeBy <=> d.tierUsed # 0 /\ d.tokens = 0
  <2>1. Finished(summaries[i].fields, input.sources[i], tier, llm, scoring)
    BY DigestKnown DEF Made
  <2>2. QED
    BY <2>1 DEF Finished
<1>2. TierReportedRan
  BY <1>1 DEF TierReportedRan, Fields
<1>3. stage = "answered" => totals.tokens = billed - wasted
  BY DEF TiersInv, Accounted
<1>4. DOMAIN summaries = 1..Len(summaries)
  BY DEF TiersInv, SummariesMade
<1>5. totals.rollbacks = Cardinality({i \in DOMAIN summaries :
         summaries[i].fields.scored /\ ~summaries[i].fields.passed})
  BY <1>4 DEF TiersInv, Accounted, Dropped
<1>6. QED
  BY <1>2, <1>3, <1>5 DEF SpendingReported

\* What a call answers is what it did (compressSession, parseTimestamp): the tier that it
\* reports for a digest made the digest, unless no LLM was available, and then it reports a
\* tier above T0 and no tokens; its total is what the LLM was paid for answers with a text,
\* its rollbacks are the texts that failed the check; a date is from the first place that
\* gives one and is said to be, and one said to be the file's own is that, or the time of
\* the call when nothing, or something unreadable, came first.
THEOREM AnswerAlwaysAccurate == TiersSpec => []AnswerAccurate
<1>1. TiersInv => AnswerAccurate
  BY InvGivesStamps, InvGivesReport DEF AnswerAccurate
<1>2. QED
  BY <1>1, TiersInvAlways, PTL
=============================================================================
