------------------------------ MODULE EventBus ------------------------------
(***************************************************************************)
(* InMemoryEventBus (mcp-core/src/event_bus.rs): an in-memory, append-only *)
(* event log that de-duplicates by correlation id, numbers the events of a *)
(* stream, and runs the subscribed handlers.  It is shared by the tasks of *)
(* a multi-threaded runtime.  A task gives up control wherever the code    *)
(* awaits one of the four RwLocks, so every action below is the code        *)
(* between two such awaits.  The events and seen_correlations write guards *)
(* are held until publish_internal returns; all other guards are released  *)
(* before the next await and need no variable.                             *)
(***************************************************************************)
EXTENDS Integers, Sequences, FiniteSets

CONSTANTS
  Tasks,             \* runtime tasks that call the bus
  NoTask,            \* "the lock is free"
  Correlations,      \* correlation ids
  Streams,           \* stream ids
  EventTypes,        \* event types
  Events,            \* the events the tasks publish
  NoEvent,           \* "the last call was not a publish"
  Batches,           \* the vectors passed to publish_batch
  Handlers,          \* subscribable handlers
  BatchSize,         \* BATCH_SIZE
  MaxAttempts,       \* bound: calls that carry a given correlation id
  MaxSubscriptions   \* bound: subscriptions per event type

\* What the code reads of an event; valid abstracts ContextFrame::validate.
Event == [corr : Correlations, stream : Streams, type : EventTypes,
          valid : BOOLEAN]

ASSUME TasksAssumption == NoTask \notin Tasks
ASSUME EventsAssumption == Events \subseteq Event /\ NoEvent \notin Event
ASSUME BatchesAssumption == Batches \subseteq Seq(Events)
ASSUME BatchSizeAssumption == BatchSize \in Nat \ {0}
ASSUME BoundsAssumption ==
  MaxAttempts \in [Correlations -> Nat] /\ MaxSubscriptions \in Nat

VARIABLES
  events,        \* the log; an event id (a fresh UUID) is its position
  correlations,  \* seen_correlations: correlation id -> event id, 0 if absent
  handlers,      \* event type -> vector of subscribed handlers
  batch,         \* pending_batch
  eventsLock,    \* holder of the write guard on events
  corrLock,      \* holder of the write guard on seen_correlations
  pc,            \* where each task is
  own,           \* the event its last call passed to publish
  input,         \* the events its call hands to publish_internal, in order
  out,           \* the event ids of the responses it has collected
  eventId,       \* the local existing_id / event_id
  result,        \* how its last call ended
  seen,          \* history: the event ids each handler was called with
  attempts,      \* history: calls made with each correlation id
  overtaken,     \* history: tasks whose flush no longer finds the batch as
                 \* their own push left it
  dropped        \* history: correlation ids a failed call left unanswered

busVars  == <<events, correlations, handlers, batch, eventsLock, corrLock>>
taskVars == <<pc, own, input, out, eventId, result>>
history  == <<seen, attempts, overtaken, dropped>>
vars     == <<busVars, taskVars, history>>

\* by is a history field: the task that stored the event.
StoredEvent == [corr : Correlations, stream : Streams, type : EventTypes,
                version : Nat \ {0}, by : Tasks]

Locations == {"idle", "flush", "check", "lookup", "store", "record", "notify"}
Outcomes  == {"none", "ok", "err", "panic"}

TypeOK ==
  /\ events \in Seq(StoredEvent)
  /\ correlations \in [Correlations -> Nat]
  /\ handlers \in [EventTypes -> Seq(Handlers)]
  /\ batch \in Seq(Events)
  /\ eventsLock \in Tasks \cup {NoTask}
  /\ corrLock \in Tasks \cup {NoTask}
  /\ pc \in [Tasks -> Locations]
  /\ own \in [Tasks -> Events \cup {NoEvent}]
  /\ input \in [Tasks -> Seq(Events)]
  /\ out \in [Tasks -> Seq(Nat)]
  /\ eventId \in [Tasks -> Nat]
  /\ result \in [Tasks -> Outcomes]
  /\ seen \in [Handlers -> Seq(Nat)]
  /\ attempts \in [Correlations -> Nat]
  /\ overtaken \subseteq Tasks
  /\ dropped \subseteq Correlations

Init ==
  /\ events = <<>>
  /\ correlations = [c \in Correlations |-> 0]
  /\ handlers = [y \in EventTypes |-> <<>>]
  /\ batch = <<>>
  /\ eventsLock = NoTask
  /\ corrLock = NoTask
  /\ pc = [t \in Tasks |-> "idle"]
  /\ own = [t \in Tasks |-> NoEvent]
  /\ input = [t \in Tasks |-> <<>>]
  /\ out = [t \in Tasks |-> <<>>]
  /\ eventId = [t \in Tasks |-> 0]
  /\ result = [t \in Tasks |-> "none"]
  /\ seen = [h \in Handlers |-> <<>>]
  /\ attempts = [c \in Correlations |-> 0]
  /\ overtaken = {}
  /\ dropped = {}

-----------------------------------------------------------------------------
(* The calls.                                                              *)

Occurrences(s, x) == Cardinality({k \in DOMAIN s : s[k] = x})

CorrOf(s) == [k \in DOMAIN s |-> s[k].corr]

\* Count the call against the bound on the number of attempts.
Attempt(s) ==
  LET n == [c \in Correlations |-> attempts[c] + Occurrences(CorrOf(s), c)]
  IN  /\ \A c \in Correlations : n[c] <= MaxAttempts[c]
      /\ attempts' = n

\* Mutant: the batch is flushed one event late.
ShouldFlushLate(b) == Len(b) > BatchSize

\* batch.len() >= BATCH_SIZE, evaluated under the batch lock.
ShouldFlush(b) == Len(b) >= BatchSize

\* The other tasks that are about to flush the batch t is changing.
Flushing(t) == {u \in Tasks \ {t} : pc[u] = "flush"}

\* publish: push a clone onto the pending batch, then either flush the batch
\* or store this one event at once (it stays in the batch as well).
Publish(t, e) ==
  /\ pc[t] = "idle"
  /\ Attempt(<<e>>)
  /\ batch' = Append(batch, e)
  /\ own' = [own EXCEPT ![t] = e]
  /\ out' = [out EXCEPT ![t] = <<>>]
  /\ IF ShouldFlush(batch')
       THEN /\ pc' = [pc EXCEPT ![t] = "flush"]
            /\ input' = [input EXCEPT ![t] = <<>>]
       ELSE /\ pc' = [pc EXCEPT ![t] = "check"]
            /\ input' = [input EXCEPT ![t] = <<e>>]
  /\ overtaken' = (overtaken \ {t}) \cup Flushing(t)
  /\ UNCHANGED <<events, correlations, handlers, eventsLock, corrLock,
                 eventId, result, seen, dropped>>

\* publish_batch: the events go to publish_internal one after the other; an
\* empty vector is answered at once.
PublishBatch(t, s) ==
  /\ pc[t] = "idle"
  /\ Attempt(s)
  /\ own' = [own EXCEPT ![t] = NoEvent]
  /\ input' = [input EXCEPT ![t] = s]
  /\ out' = [out EXCEPT ![t] = <<>>]
  /\ IF s = <<>>
       THEN /\ result' = [result EXCEPT ![t] = "ok"]
            /\ UNCHANGED pc
       ELSE /\ pc' = [pc EXCEPT ![t] = "check"]
            /\ UNCHANGED result
  /\ overtaken' = overtaken \ {t}
  /\ UNCHANGED <<busVars, eventId, seen, dropped>>

\* subscribe: a handler may be pushed several times.
Subscribe(y, h) ==
  /\ Len(handlers[y]) < MaxSubscriptions
  /\ handlers' = [handlers EXCEPT ![y] = Append(@, h)]
  /\ UNCHANGED <<events, correlations, batch, eventsLock, corrLock, taskVars,
                 history>>

-----------------------------------------------------------------------------
(* flush_batch.                                                            *)

\* Another task drained the batch first: flush_batch answers Ok(vec![]) and
\* the unwrap() in publish panics, which ends this call (and its task).
FlushEmpty(t) ==
  /\ pc[t] = "flush"
  /\ batch = <<>>
  /\ pc' = [pc EXCEPT ![t] = "idle"]
  /\ result' = [result EXCEPT ![t] = "panic"]
  /\ UNCHANGED <<busVars, own, input, out, eventId, history>>

\* Take everything that is pending and release the batch lock.
DrainBatch(t) ==
  /\ pc[t] = "flush"
  /\ batch # <<>>
  /\ input' = [input EXCEPT ![t] = batch]
  /\ batch' = <<>>
  /\ pc' = [pc EXCEPT ![t] = "check"]
  /\ overtaken' = overtaken \cup Flushing(t)
  /\ UNCHANGED <<events, correlations, handlers, eventsLock, corrLock, own,
                 out, eventId, result, seen, attempts, dropped>>

-----------------------------------------------------------------------------
(* publish_internal.                                                       *)

\* The event the task's publish_internal is working on.
Current(t) == input[t][Len(out[t]) + 1]

\* publish_internal returns Ok: go on with the next event, or end the call.
Answer(t, id) ==
  /\ out' = [out EXCEPT ![t] = Append(@, id)]
  /\ IF Len(out[t]) + 1 = Len(input[t])
       THEN /\ pc' = [pc EXCEPT ![t] = "idle"]
            /\ result' = [result EXCEPT ![t] = "ok"]
       ELSE /\ pc' = [pc EXCEPT ![t] = "check"]
            /\ UNCHANGED result

\* Mutant: publish answers with the first response of its flush.
ResponseFirst(t) == out[t][1]

\* What publish returns: the last response of the batch it flushed, or the
\* only one of the event it stored at once.
Response(t) == out[t][Len(out[t])]

\* The correlation ids of the events the call has not answered yet.
Remaining(t) ==
  {input[t][k].corr : k \in (Len(out[t]) + 1) .. Len(input[t])}

\* context.validate()?: an error ends the whole call, this event and those
\* after it are dropped.
ValidateContext(t) ==
  IF Current(t).valid
    THEN /\ pc' = [pc EXCEPT ![t] = "store"]
         /\ UNCHANGED <<result, dropped>>
    ELSE /\ pc' = [pc EXCEPT ![t] = "idle"]
         /\ result' = [result EXCEPT ![t] = "err"]
         /\ dropped' = dropped \cup Remaining(t)

\* Mutant: no duplicate check.
CheckNothing(t) ==
  /\ pc[t] = "check"
  /\ corrLock = NoTask
  /\ ValidateContext(t)
  /\ UNCHANGED <<busVars, own, input, out, eventId, seen, attempts, overtaken>>

\* check_duplicate: the read guard on seen_correlations is released at once.
CheckDuplicate(t) ==
  /\ pc[t] = "check"
  /\ corrLock = NoTask
  /\ LET existing == correlations[Current(t).corr]
     IN  IF existing # 0
           THEN /\ pc' = [pc EXCEPT ![t] = "lookup"]
                /\ eventId' = [eventId EXCEPT ![t] = existing]
                /\ UNCHANGED <<result, dropped>>
           ELSE ValidateContext(t) /\ UNCHANGED eventId
  /\ UNCHANGED <<busVars, own, input, out, seen, attempts, overtaken>>

\* Answer a duplicate with the stored event, if find() returns one.
LookupStored(t) ==
  /\ pc[t] = "lookup"
  /\ eventsLock = NoTask
  /\ IF eventId[t] \in DOMAIN events
       THEN Answer(t, eventId[t]) /\ UNCHANGED dropped
       ELSE ValidateContext(t) /\ UNCHANGED out
  /\ UNCHANGED <<busVars, own, input, eventId, seen, attempts, overtaken>>

\* Mutants: versions count from zero; one counter for all streams.
NextVersionFromZero(s) ==
  Cardinality({i \in DOMAIN events : events[i].stream = s})
NextVersionGlobal(s) == Len(events) + 1

\* events.iter().filter(same stream).count() + 1
NextVersion(s) ==
  Cardinality({i \in DOMAIN events : events[i].stream = s}) + 1

\* Mutant: the events guard is dropped after the push.
StoreEventUnguarded(t) ==
  /\ pc[t] = "store"
  /\ eventsLock = NoTask
  /\ LET e == Current(t)
     IN  events' = Append(events,
                     [corr |-> e.corr, stream |-> e.stream, type |-> e.type,
                      version |-> NextVersion(e.stream), by |-> t])
  /\ eventId' = [eventId EXCEPT ![t] = Len(events) + 1]
  /\ pc' = [pc EXCEPT ![t] = "record"]
  /\ UNCHANGED <<correlations, handlers, batch, eventsLock, corrLock, own,
                 input, out, result, history>>

\* Number and append the event under the events write guard, which is kept.
StoreEvent(t) ==
  /\ pc[t] = "store"
  /\ eventsLock = NoTask
  /\ LET e == Current(t)
     IN  events' = Append(events,
                     [corr |-> e.corr, stream |-> e.stream, type |-> e.type,
                      version |-> NextVersion(e.stream), by |-> t])
  /\ eventId' = [eventId EXCEPT ![t] = Len(events) + 1]
  /\ eventsLock' = t
  /\ pc' = [pc EXCEPT ![t] = "record"]
  /\ UNCHANGED <<correlations, handlers, batch, corrLock, own, input, out,
                 result, history>>

\* Mutants: entry().or_insert() keeps the first id; the log is read again
\* while its write guard is held.
RecordIfAbsent(t) ==
  /\ pc[t] = "record"
  /\ corrLock = NoTask
  /\ correlations' = [correlations EXCEPT
                        ![Current(t).corr] = IF @ = 0 THEN eventId[t] ELSE @]
  /\ corrLock' = t
  /\ pc' = [pc EXCEPT ![t] = "notify"]
  /\ UNCHANGED <<events, handlers, batch, eventsLock, own, input, out,
                 eventId, result, history>>

RecordAfterReread(t) == eventsLock = NoTask /\ RecordIfAbsent(t)

\* Insert (or overwrite) the correlation under its write guard, also kept.
RecordCorrelation(t) ==
  /\ pc[t] = "record"
  /\ corrLock = NoTask
  /\ correlations' = [correlations EXCEPT ![Current(t).corr] = eventId[t]]
  /\ corrLock' = t
  /\ pc' = [pc EXCEPT ![t] = "notify"]
  /\ UNCHANGED <<events, handlers, batch, eventsLock, own, input, out,
                 eventId, result, history>>

\* Call every subscribed handler of the type (a handler's error is logged
\* only), answer, and drop the guards.
Notify(t) ==
  /\ pc[t] = "notify"
  /\ LET subscribed == handlers[Current(t).type]
     IN  seen' = [h \in Handlers |->
                    seen[h] \o [k \in 1 .. Occurrences(subscribed, h)
                                  |-> eventId[t]]]
  /\ Answer(t, eventId[t])
  /\ eventsLock' = NoTask
  /\ corrLock' = NoTask
  /\ UNCHANGED <<events, correlations, handlers, batch, own, input, eventId,
                 attempts, overtaken, dropped>>

-----------------------------------------------------------------------------
(* The specification.                                                      *)

\* One step of a call that has begun.
TaskStep(t) ==
  \/ FlushEmpty(t)
  \/ DrainBatch(t)
  \/ CheckDuplicate(t)
  \/ LookupStored(t)
  \/ StoreEvent(t)
  \/ RecordCorrelation(t)
  \/ Notify(t)

\* Every call has returned (MaxAttempts keeps new ones away).
Quiescent ==
  /\ \A t \in Tasks : pc[t] = "idle"
  /\ UNCHANGED vars

Next ==
  \/ \E t \in Tasks, e \in Events : Publish(t, e)
  \/ \E t \in Tasks, s \in Batches : PublishBatch(t, s)
  \/ \E y \in EventTypes, h \in Handlers : Subscribe(y, h)
  \/ \E t \in Tasks : TaskStep(t)
  \/ Quiescent

Spec == Init /\ [][Next]_vars

\* The runtime polls every task that is ready; callers need not call.
FairSpec == Spec /\ \A t \in Tasks : WF_vars(TaskStep(t))

-----------------------------------------------------------------------------
(* Safety.                                                                 *)

\* The versions of a stream are 1, 2, 3, ... in the order of the log, however
\* the tasks interleave: the count in publish_internal and the push that
\* follows it see the same log.
VersionsContiguous ==
  \A i \in DOMAIN events :
    events[i].version =
      Cardinality({j \in 1 .. i : events[j].stream = events[i].stream})

\* The event whose task has pushed it but not yet inserted its correlation.
Unrecorded(i) ==
  /\ i = Len(events)
  /\ eventsLock # NoTask
  /\ pc[eventsLock] = "record"

\* seen_correlations never dangles and never lags: an entry names a stored
\* event of that correlation, and no later recorded event has it too.  The
\* find() of a duplicate therefore always succeeds.
CorrelationsIndexLog ==
  \A c \in Correlations :
    /\ correlations[c] # 0 =>
         /\ correlations[c] \in DOMAIN events
         /\ events[correlations[c]].corr = c
    /\ \A i \in DOMAIN events :
         events[i].corr = c => i <= correlations[c] \/ Unrecorded(i)

\* The de-duplication the code does achieve: a task never stores a correlation
\* id twice, whatever it retries, batches or flushes (test_idempotency is the
\* case of two publish calls in a row).
StoredOncePerTask ==
  \A i, j \in DOMAIN events :
    i # j /\ events[i].corr = events[j].corr => events[i].by # events[j].by

\* Every response collected is that of the event in its position, and names a
\* stored event of its correlation.  A call that succeeds has answered all its
\* events; one that fails has stopped at an event whose context is invalid,
\* never at one it has already answered.
AnswersMatchInput ==
  \A t \in Tasks :
    /\ Len(out[t]) <= Len(input[t])
    /\ \A k \in DOMAIN out[t] :
         /\ out[t][k] \in DOMAIN events
         /\ events[out[t][k]].corr = input[t][k].corr
         /\ correlations[input[t][k].corr] # 0
    /\ pc[t] = "idle" /\ result[t] = "ok" => Len(out[t]) = Len(input[t])
    /\ pc[t] = "idle" /\ result[t] = "err" =>
         Len(out[t]) < Len(input[t]) /\ ~Current(t).valid

\* publish answers with the stored event of the event it was given, unless
\* another task pushed to the batch or took it between this call's push and
\* its flush.  Only then can the answer be another caller's event (the last
\* of what was drained), and only then can the unwrap() of an empty flush
\* panic.
OwnAnswer ==
  \A t \in Tasks :
    pc[t] = "idle" /\ own[t] # NoEvent /\ t \notin overtaken =>
      /\ result[t] = "ok" =>
           out[t] # <<>> /\ events[Response(t)].corr = own[t].corr
      /\ result[t] # "panic"

\* No published event is lost but by a call that failed: it is recorded, or
\* pending in the batch, or in the hands of a running call (its own or the one
\* that flushed it), or it stood at or after the event at which a call failed.
NothingLost ==
  \A c \in Correlations :
    attempts[c] > 0 =>
      \/ correlations[c] # 0
      \/ \E k \in DOMAIN batch : batch[k].corr = c
      \/ \E t \in Tasks : pc[t] \notin {"idle", "flush"} /\ c \in Remaining(t)
      \/ c \in dropped

\* What the callers of publish and publish_batch are told is so.
OutcomeAccurate == AnswersMatchInput /\ OwnAnswer /\ NothingLost

\* Handlers run under the events lock, so each handler is called in the order
\* of the log and never sees an event before the ones stored earlier.
HandlersSeeLogOrder ==
  \A h \in Handlers : \A k, m \in DOMAIN seen[h] :
    k < m => seen[h][k] <= seen[h][m]

\* A full batch is never stranded: some task that saw it full has yet to
\* drain it (should_flush is computed under the batch lock, acted on later).
FullBatchHasFlusher ==
  Len(batch) >= BatchSize => \E t \in Tasks : pc[t] = "flush"

-----------------------------------------------------------------------------
(* The abstract store this implements.                                     *)

\* The log as other tasks can observe it: an event becomes visible together
\* with its correlation, since both locks are held until then.
RecordedLog ==
  LET n == IF Unrecorded(Len(events)) THEN Len(events) - 1 ELSE Len(events)
  IN  [i \in 1 .. n |-> [corr |-> events[i].corr, stream |-> events[i].stream,
                         version |-> events[i].version]]

OneCaller == \A t, u \in Tasks : t = u

\* With a single caller the bus is idempotent, with several it is not.
Store == INSTANCE EventStore WITH
           log <- RecordedLog,
           index <- correlations,
           Idempotent <- OneCaller

\* Every step of the bus is an atomic append to the store or invisible.
StoreSpec == Store!Spec

-----------------------------------------------------------------------------
(* Liveness.                                                               *)

\* Every call returns: the nested locks cannot leave callers waiting on one
\* another, and a flush works through its whole batch.
CallsComplete == \A t \in Tasks : pc[t] # "idle" ~> pc[t] = "idle"

-----------------------------------------------------------------------------
(* What the repository says of the bus and the code does not do.           *)

\* "idempotent event routing" (event_bus.rs:13) and test_idempotency
\* (event_bus.rs:289): one stored event per correlation id.
OneEventPerCorrelation ==
  \A i, j \in DOMAIN events : events[i].corr = events[j].corr => i = j
=============================================================================
