------------------------- MODULE SessionCompression -------------------------
(***************************************************************************)
(* The session.compress tool: every call that the server executes is a     *)
(* node process of its own (mcp-core/src/tool_executor.rs, cli.js) that    *)
(* runs compressSession (extensions/session-compression/src/index.ts).     *)
(* The processes share one output directory and one file of idempotency    *)
(* records (idempotency.ts) and use no lock, so an action is one system    *)
(* call on these files with the code around it.  writeFileSync is two:     *)
(* the open, which truncates, and the write.                               *)
(* A source stands for a text and the digest it has at the key's character *)
(* limit; calls through the server are all at tier T0.                     *)
(***************************************************************************)
EXTENDS Integers, Sequences, FiniteSets

CONSTANTS
  Calls,         \* tool executions (a bound)
  Keys,          \* idempotency keys
  Sources,       \* the sources of all requests
  Requests,      \* what callers ask for
  SummaryFiles,  \* names of summary files
  FileOf,        \* source -> date, session id and length: its summary's name
  RecordsFile,   \* records.json
  IndexFile,     \* _index.json
  TimelineFile,  \* _timeline.md
  Missing,       \* no such file
  Empty,         \* opened for writing, and truncated by that
  Garbled,       \* one content written over another, longer one
  NoCall         \* "no record"

Request == [key : Keys, sources : Seq(Sources), dry : BOOLEAN]
Files   == SummaryFiles \cup {RecordsFile, IndexFile, TimelineFile}
Records == [Keys -> Calls \cup {NoCall}]

Unreadable == {Missing, Empty, Garbled}

ASSUME RequestsAssumption == Requests \subseteq Request /\ Requests # {}
\* The key covers the sources, whatever their order.
ASSUME KeysAssumption ==
  \A q, r \in Requests :
    q.key = r.key => /\ Len(q.sources) = Len(r.sources)
                     /\ {q.sources[i] : i \in DOMAIN q.sources} =
                          {r.sources[i] : i \in DOMAIN r.sources}
ASSUME FilesAssumption ==
  /\ FileOf \in [Sources -> SummaryFiles]
  /\ RecordsFile \notin SummaryFiles \cup {IndexFile, TimelineFile}
  /\ IndexFile \notin SummaryFiles \cup {TimelineFile}
  /\ TimelineFile \notin SummaryFiles
ASSUME MarkersAssumption ==
  /\ NoCall \notin Calls
  /\ Missing # Empty /\ Missing # Garbled /\ Empty # Garbled
  /\ \A m \in Unreadable :
       /\ m \notin Sources
       /\ \A S \in SUBSET Sources : m # S
       /\ \A R \in Records : m # R

VARIABLES
  disk,        \* the contents of each file
  pc,          \* where each call is
  request,     \* what it was asked for
  processed,   \* summaries.length
  loaded,      \* the records it has in memory
  opened,      \* the calls between the open and the write of a file
  answer,      \* report.processed of a duplicate's answer
  expired,     \* the calls whose records are older than the TTL
  recorded,    \* history: the calls whose record has been written
  cut,         \* history: the files a write of which was cut short
  overlapped   \* history: two calls have run at the same time

call    == <<pc, request, processed, loaded, opened, answer>>
history == <<recorded, cut, overlapped>>
vars    == <<disk, call, expired, history>>

Writing   == {"summary", "index", "timeline", "save", "resave"}
Running   == Writing \cup {"check", "existing", "process", "store", "clean"}
Locations == Running \cup {"none", "done", "duplicate", "failed"}

NoRecords == [k \in Keys |-> NoCall]

TypeOK ==
  /\ DOMAIN disk = Files
  /\ \A f \in SummaryFiles : disk[f] \in Unreadable \cup Sources
  /\ \A f \in {IndexFile, TimelineFile} :
       disk[f] \in Unreadable \cup SUBSET Sources
  /\ disk[RecordsFile] \in Unreadable \cup Records
  /\ pc \in [Calls -> Locations]
  /\ request \in [Calls -> Requests]
  /\ processed \in [Calls -> Nat]
  /\ loaded \in [Calls -> Records]
  /\ opened \subseteq Calls
  /\ answer \in [Calls -> Nat]
  /\ expired \subseteq Calls
  /\ recorded \subseteq Calls
  /\ cut \subseteq Files
  /\ overlapped \in BOOLEAN

Init ==
  /\ disk = [f \in Files |-> Missing]
  /\ pc = [c \in Calls |-> "none"]
  /\ request = [c \in Calls |-> CHOOSE r \in Requests : TRUE]
  /\ processed = [c \in Calls |-> 0]
  /\ loaded = [c \in Calls |-> NoRecords]
  /\ opened = {}
  /\ answer = [c \in Calls |-> 0]
  /\ expired = {}
  /\ recorded = {}
  /\ cut = {}
  /\ overlapped = FALSE

-----------------------------------------------------------------------------
(* The files.                                                              *)

\* loadRecords: what cannot be read or parsed counts as no records at all.
LoadRecords ==
  IF disk[RecordsFile] \in Unreadable
    THEN NoRecords ELSE disk[RecordsFile]

SourcesOf(c) == {request[c].sources[i] : i \in DOMAIN request[c].sources}

\* The file a call is writing, and the contents it writes.
Target(c) ==
  CASE pc[c] = "summary"  -> FileOf[request[c].sources[processed[c] + 1]]
    [] pc[c] = "index"    -> IndexFile
    [] pc[c] = "timeline" -> TimelineFile
    [] OTHER              -> RecordsFile

Contents(c) ==
  CASE pc[c] = "summary"               -> request[c].sources[processed[c] + 1]
    [] pc[c] \in {"index", "timeline"} -> SourcesOf(c)
    [] OTHER                           -> loaded[c]

\* What a file with contents old may hold once new is written to its start.
Overwritten(old, new) == IF old \in {Empty, new} THEN {new} ELSE {new, Garbled}

\* Mutant: the index and the timeline are built before the summaries.
AfterUnlisted(r, n) ==
  IF n < Len(r.sources) THEN "process"
  ELSE IF r.dry THEN "clean"
  ELSE "store"

\* Where compressSession is once n sources of r are processed.
After(r, n) ==
  IF n < Len(r.sources) THEN "process"
  ELSE IF r.dry THEN "clean"
  ELSE "index"

\* Where it is once the file it writes there is written.
AfterWrite(c) ==
  CASE pc[c] = "summary"  -> After(request[c], processed[c] + 1)
    [] pc[c] = "index"    -> "timeline"
    [] pc[c] = "timeline" -> "store"
    [] pc[c] = "save"     -> "clean"
    [] pc[c] = "resave"   -> "done"

Goto(c, l) == pc' = [pc EXCEPT ![c] = l]

-----------------------------------------------------------------------------
(* compressSession.                                                        *)

\* The server spawns a process.
Start(c, r) ==
  /\ pc[c] = "none"
  /\ Goto(c, "check")
  /\ request' = [request EXCEPT ![c] = r]
  /\ overlapped' = (overlapped \/ \E d \in Calls : pc[d] \in Running)
  /\ UNCHANGED <<disk, processed, loaded, opened, answer, expired, recorded,
                 cut>>

\* Mutant: the key leaves the sources out.
CheckAnySources(c) ==
  /\ pc[c] = "check"
  /\ Goto(c, IF LoadRecords # NoRecords THEN "existing" ELSE After(request[c], 0))
  /\ UNCHANGED <<disk, request, processed, loaded, opened, answer, expired,
                 history>>

\* isDuplicate; the age of the record is not looked at.
CheckDuplicate(c) ==
  /\ pc[c] = "check"
  /\ Goto(c, IF LoadRecords[request[c].key] # NoCall
               THEN "existing" ELSE After(request[c], 0))
  /\ UNCHANGED <<disk, request, processed, loaded, opened, answer, expired,
                 history>>

\* Mutant: the record is expected to be there.
ProcessedUnchecked(d) == IF d = NoCall THEN NoCall ELSE Len(request[d].sources)

\* existing?.metadata.processed || 0
Processed(d) == IF d = NoCall THEN 0 ELSE Len(request[d].sources)

\* getExistingResult, a second read of the file, and the duplicate's answer.
AnswerDuplicate(c) ==
  /\ pc[c] = "existing"
  /\ Goto(c, "duplicate")
  /\ answer' = [answer EXCEPT ![c] = Processed(LoadRecords[request[c].key])]
  /\ UNCHANGED <<disk, request, processed, loaded, opened, expired, history>>

\* processSource up to the write of the summary; a dry run writes none.
ProcessSource(c) ==
  /\ pc[c] = "process"
  /\ IF request[c].dry
       THEN /\ processed' = [processed EXCEPT ![c] = @ + 1]
            /\ Goto(c, After(request[c], processed[c] + 1))
       ELSE Goto(c, "summary") /\ UNCHANGED processed
  /\ UNCHANGED <<disk, request, loaded, opened, answer, expired, history>>

\* storeResult up to saveRecords.
StoreResult(c) ==
  /\ pc[c] = "store"
  /\ loaded' = [loaded EXCEPT ![c] = [LoadRecords EXCEPT ![request[c].key] = c]]
  /\ Goto(c, "save")
  /\ UNCHANGED <<disk, request, processed, opened, answer, expired, history>>

\* Mutant: createdAt > cutoff
FreshDropped(records) ==
  [k \in Keys |-> IF records[k] \in expired THEN records[k] ELSE NoCall]

\* The records that cleanup keeps.
Fresh(records) ==
  [k \in Keys |-> IF records[k] \in expired THEN NoCall ELSE records[k]]

\* cleanup, which saves the records only when it has removed one.
Cleanup(c) ==
  /\ pc[c] = "clean"
  /\ IF Fresh(LoadRecords) = LoadRecords
       THEN Goto(c, "done") /\ UNCHANGED loaded
       ELSE /\ Goto(c, "resave")
            /\ loaded' = [loaded EXCEPT ![c] = Fresh(LoadRecords)]
  /\ UNCHANGED <<disk, request, processed, opened, answer, expired, history>>

-----------------------------------------------------------------------------
(* writeFileSync, of a summary, the index, the timeline or the records.    *)

OpenFile(c) ==
  /\ pc[c] \in Writing
  /\ c \notin opened
  /\ opened' = opened \cup {c}
  /\ disk' = [disk EXCEPT ![Target(c)] = Empty]
  /\ UNCHANGED <<pc, request, processed, loaded, answer, expired, history>>

WriteFile(c) ==
  /\ c \in opened
  /\ opened' = opened \ {c}
  /\ \E v \in Overwritten(disk[Target(c)], Contents(c)) :
       disk' = [disk EXCEPT ![Target(c)] = v]
  /\ processed' = [processed EXCEPT ![c] = IF pc[c] = "summary" THEN @ + 1 ELSE @]
  /\ recorded' = IF pc[c] = "save" THEN recorded \cup {c} ELSE recorded
  /\ Goto(c, AfterWrite(c))
  /\ UNCHANGED <<request, loaded, answer, expired, cut, overlapped>>

\* The write that a call leaves unfinished, if there is one.
CutShort(c) ==
  /\ opened' = opened \ {c}
  /\ cut' = IF c \in opened THEN cut \cup {Target(c)} ELSE cut

\* saveRecords catches and logs the error of a write that fails.
SaveFails(c) ==
  /\ pc[c] \in {"save", "resave"}
  /\ CutShort(c)
  /\ Goto(c, AfterWrite(c))
  /\ UNCHANGED <<disk, request, processed, loaded, answer, expired, recorded,
                 overlapped>>

\* The call throws (its risk level forbids it, a source cannot be read, the
\* disk is full) or the process is killed.
Abort(c) ==
  /\ pc[c] \in Running
  /\ CutShort(c)
  /\ Goto(c, "failed")
  /\ UNCHANGED <<disk, request, processed, loaded, answer, expired, recorded,
                 overlapped>>

\* More than 24 hours without a call go by.
DayPasses ==
  /\ \A c \in Calls : pc[c] \notin Running
  /\ expired # recorded
  /\ expired' = recorded
  /\ UNCHANGED <<disk, call, history>>

-----------------------------------------------------------------------------
(* The specification.                                                      *)

\* Every call has been made and has ended.
Quiescent ==
  /\ \A c \in Calls : pc[c] \in {"done", "duplicate", "failed"}
  /\ UNCHANGED vars

Next ==
  \/ \E c \in Calls, r \in Requests : Start(c, r)
  \/ \E c \in Calls :
       \/ CheckDuplicate(c)
       \/ AnswerDuplicate(c)
       \/ ProcessSource(c)
       \/ StoreResult(c)
       \/ Cleanup(c)
       \/ OpenFile(c)
       \/ WriteFile(c)
       \/ SaveFails(c)
       \/ Abort(c)
  \/ DayPasses
  \/ Quiescent

Spec == Init /\ [][Next]_vars

-----------------------------------------------------------------------------
(* Safety.                                                                 *)

\* Whatever calls overlap or abort, a record in the file is that of a call
\* which wrote every summary, the index and the timeline before it; and such a
\* summary is whole, unless a later write of it was cut short, is going on, or
\* overlapped with that of another source of the same name.
RecordedIsComplete ==
  \A k \in Keys :
    LET c == LoadRecords[k]
    IN  c # NoCall =>
          /\ request[c].key = k /\ ~request[c].dry
          /\ disk[IndexFile] # Missing /\ disk[TimelineFile] # Missing
          /\ \A s \in SourcesOf(c) :
               /\ disk[FileOf[s]] # Missing
               /\ \/ disk[FileOf[s]] \in Sources
                  \/ FileOf[s] \in cut
                  \/ \E d \in opened : Target(d) = FileOf[s]
                  \/ overlapped /\ disk[FileOf[s]] = Garbled

\* "Already written previously" (index.ts:322): a call is answered as a
\* duplicate only if another call with its key has written its results; and
\* when calls do not overlap it reports how many there were.
DuplicatesWereDone ==
  \A c \in Calls :
    pc[c] = "duplicate" =>
      \E d \in recorded \ {c} :
        /\ request[d].key = request[c].key
        /\ ~request[d].dry
        /\ ~overlapped => answer[c] = Len(request[d].sources)

\* Calls that do not overlap write the results of a key once a day, if no save
\* of the records was cut short: retries, dry runs, failed calls and the
\* cleanup of other records leave a fresh record in place.
OncePerKey ==
  ~overlapped /\ RecordsFile \notin cut =>
    \A c, d \in recorded \ expired :
      request[c].key = request[d].key => c = d
=============================================================================
