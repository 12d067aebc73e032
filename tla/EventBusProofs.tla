--------------------------- MODULE EventBusProofs ---------------------------
(***************************************************************************)
(* Proofs about EventBus, for every set of tasks, events and handlers and  *)
(* every batch size.                                                       *)
(***************************************************************************)
EXTENDS EventBus, FiniteSetTheorems, SequenceTheorems, TLAPS

-----------------------------------------------------------------------------
(* Lemmas on the operators.                                                *)

\* The number of positions of a sequence with some property is a natural.
LEMMA CountInSeq ==
  ASSUME NEW S, NEW s \in Seq(S), NEW T \in SUBSET DOMAIN s
  PROVE  IsFiniteSet(T) /\ Cardinality(T) \in Nat
<1>1. DOMAIN s = 1 .. Len(s) /\ Len(s) \in Nat
  OBVIOUS
<1>2. IsFiniteSet(1 .. Len(s))
  BY <1>1, FS_Interval
<1>3. IsFiniteSet(T)
  BY <1>1, <1>2, FS_Subset
<1>4. QED
  BY <1>3, FS_CardinalityType

LEMMA OccurrencesType ==
  ASSUME NEW S, NEW s \in Seq(S), NEW x
  PROVE  Occurrences(s, x) \in Nat
BY CountInSeq DEF Occurrences

LEMMA CorrOfType ==
  ASSUME NEW s \in Seq(Events)
  PROVE  CorrOf(s) \in Seq(Correlations)
<1>1. \A k \in 1 .. Len(s) : s[k] \in Events
  OBVIOUS
<1>2. \A k \in 1 .. Len(s) : s[k].corr \in Correlations
  BY <1>1, EventsAssumption DEF Event
<1>3. CorrOf(s) = [k \in 1 .. Len(s) |-> s[k].corr]
  BY DEF CorrOf
<1>4. QED
  BY <1>2, <1>3

\* Counting a call keeps the counters natural.
LEMMA AttemptType ==
  ASSUME TypeOK, NEW s \in Seq(Events), Attempt(s)
  PROVE  attempts' \in [Correlations -> Nat]
<1>1. \A c \in Correlations : Occurrences(CorrOf(s), c) \in Nat
  BY CorrOfType, OccurrencesType
<1>2. QED
  BY <1>1 DEF Attempt, TypeOK

\* Versions start at one.
LEMMA NextVersionType ==
  ASSUME TypeOK, NEW s
  PROVE  NextVersion(s) \in Nat \ {0}
<1>1. events \in Seq(StoredEvent)
  BY DEF TypeOK
<1>2. Cardinality({i \in DOMAIN events : events[i].stream = s}) \in Nat
  BY <1>1, CountInSeq
<1>3. QED
  BY <1>2 DEF NextVersion

-----------------------------------------------------------------------------
(* Type correctness.  A call that is running has an event left to answer,  *)
(* which is what keeps Current(t) an event.                                *)

Running == {"check", "lookup", "store", "record", "notify"}

WorkLeft ==
  \A t \in Tasks : /\ Len(out[t]) <= Len(input[t])
                   /\ pc[t] \in Running => Len(out[t]) < Len(input[t])
                   /\ pc[t] = "flush" => out[t] = <<>>

TypeInv == TypeOK /\ WorkLeft

LEMMA CurrentType ==
  ASSUME TypeInv, NEW t \in Tasks, pc[t] \in Running
  PROVE  /\ Current(t) \in Events
         /\ Current(t).corr \in Correlations
         /\ Current(t).stream \in Streams
         /\ Current(t).type \in EventTypes
         /\ Current(t).valid \in BOOLEAN
<1>1. /\ input[t] \in Seq(Events)
      /\ out[t] \in Seq(Nat)
      /\ Len(out[t]) < Len(input[t])
  BY DEF TypeInv, TypeOK, WorkLeft
<1>2. Len(out[t]) + 1 \in 1 .. Len(input[t])
  BY <1>1
<1>3. Current(t) \in Events
  BY <1>1, <1>2 DEF Current
<1>4. QED
  BY <1>3, EventsAssumption DEF Event

LEMMA TypeInvInit == Init => TypeInv
BY DEF Init, TypeInv, TypeOK, WorkLeft, Locations, Outcomes, Running

\* publish_internal's two ways on keep the types.
LEMMA AnswerType ==
  ASSUME TypeInv, NEW t \in Tasks, pc[t] \in Running, NEW id \in Nat,
         Answer(t, id), UNCHANGED input
  PROVE  /\ pc' \in [Tasks -> Locations]
         /\ out' \in [Tasks -> Seq(Nat)]
         /\ result' \in [Tasks -> Outcomes]
         /\ WorkLeft'
<1>1. /\ input[t] \in Seq(Events)
      /\ out \in [Tasks -> Seq(Nat)]
      /\ out[t] \in Seq(Nat)
      /\ Len(out[t]) < Len(input[t])
      /\ pc \in [Tasks -> Locations]
      /\ result \in [Tasks -> Outcomes]
  BY DEF TypeInv, TypeOK, WorkLeft
<1>2. Append(out[t], id) \in Seq(Nat) /\ Len(Append(out[t], id)) = Len(out[t]) + 1
  BY <1>1
<1>3. pc' \in [Tasks -> Locations]
  BY <1>1 DEF Answer, Locations
<1>4. out' \in [Tasks -> Seq(Nat)]
  BY <1>1, <1>2 DEF Answer
<1>5. result' \in [Tasks -> Outcomes]
  BY <1>1 DEF Answer, Outcomes
<1>6. ASSUME NEW u \in Tasks
      PROVE  /\ Len(out'[u]) <= Len(input'[u])
             /\ pc'[u] \in Running => Len(out'[u]) < Len(input'[u])
             /\ pc'[u] = "flush" => out'[u] = <<>>
  <2>1. CASE u = t
    <3>1. out'[t] = Append(out[t], id)
      BY <1>1 DEF Answer
    <3>2. /\ pc'[t] \in Running => Len(out[t]) + 1 # Len(input[t])
          /\ pc'[t] # "flush"
      BY <1>1 DEF Answer, Running
    <3>3. QED
      BY <1>1, <1>2, <2>1, <3>1, <3>2
  <2>2. CASE u # t
    BY <1>1, <2>2 DEF Answer, TypeInv, WorkLeft
  <2>3. QED
    BY <2>1, <2>2
<1>7. QED
  BY <1>3, <1>4, <1>5, <1>6 DEF WorkLeft

LEMMA ValidateType ==
  ASSUME TypeInv, NEW t \in Tasks, pc[t] \in Running,
         ValidateContext(t), UNCHANGED <<input, out>>
  PROVE  /\ pc' \in [Tasks -> Locations]
         /\ result' \in [Tasks -> Outcomes]
         /\ WorkLeft'
<1>1. pc' \in [Tasks -> Locations] /\ result' \in [Tasks -> Outcomes]
  BY DEF ValidateContext, TypeInv, TypeOK, Locations, Outcomes
<1>2. WorkLeft'
  BY DEF ValidateContext, TypeInv, TypeOK, WorkLeft, Running
<1>3. QED
  BY <1>1, <1>2

\* The histories stay sets of tasks and of correlation ids.
LEMMA HistoryType ==
  ASSUME TypeInv, [Next]_vars
  PROVE  overtaken' \subseteq Tasks /\ dropped' \subseteq Correlations
<1>0. overtaken \subseteq Tasks /\ dropped \subseteq Correlations
  BY DEF TypeInv, TypeOK
<1>1. ASSUME NEW t \in Tasks PROVE Remaining(t) \subseteq Correlations
  <2>1. input[t] \in Seq(Events) /\ Len(out[t]) \in Nat
    BY DEF TypeInv, TypeOK
  <2>2. ASSUME NEW k \in (Len(out[t]) + 1) .. Len(input[t])
        PROVE  input[t][k].corr \in Correlations
    <3>1. k \in 1 .. Len(input[t])
      BY <2>1
    <3>2. input[t][k] \in Events
      BY <2>1, <3>1
    <3>3. QED
      BY <3>2, EventsAssumption DEF Event
  <2>3. QED
    BY <2>2 DEF Remaining
<1>2. ASSUME NEW t \in Tasks, ValidateContext(t)
      PROVE  dropped' \subseteq Correlations
  BY <1>0, <1>1, <1>2 DEF ValidateContext
<1>3. ASSUME NEW t \in Tasks, CheckDuplicate(t) \/ LookupStored(t)
      PROVE  overtaken' \subseteq Tasks /\ dropped' \subseteq Correlations
  <2>1. overtaken' = overtaken /\ (dropped' = dropped \/ ValidateContext(t))
    BY <1>3 DEF CheckDuplicate, LookupStored
  <2>2. QED
    BY <1>0, <1>2, <2>1
<1>4. ASSUME NEW t \in Tasks,
             \/ \E e \in Events : Publish(t, e)
             \/ \E b \in Batches : PublishBatch(t, b)
             \/ DrainBatch(t)
      PROVE  overtaken' \subseteq Tasks /\ dropped' \subseteq Correlations
  BY <1>0, <1>4 DEF Publish, PublishBatch, DrainBatch, Flushing
<1>5. CASE UNCHANGED <<overtaken, dropped>>
  BY <1>0, <1>5
<1>6. QED
  BY <1>3, <1>4, <1>5
  DEF Next, vars, history, TaskStep, Subscribe, FlushEmpty, StoreEvent,
      RecordCorrelation, Notify, Quiescent

LEMMA TypeInvStep == TypeInv /\ [Next]_vars => TypeInv'
<1> SUFFICES ASSUME TypeInv, [Next]_vars PROVE TypeInv'
  OBVIOUS
<1> USE DEF TypeInv
<1>0. overtaken' \subseteq Tasks /\ dropped' \subseteq Correlations
  BY HistoryType
<1>1. ASSUME NEW t \in Tasks, NEW e \in Events, Publish(t, e) PROVE TypeInv'
  <2>1. <<e>> \in Seq(Events)
    OBVIOUS
  <2>2. attempts' \in [Correlations -> Nat]
    BY <1>1, <2>1, AttemptType DEF Publish
  <2>3. batch' \in Seq(Events)
    BY <1>1 DEF Publish, TypeOK
  <2>4. /\ pc' \in [Tasks -> Locations]
        /\ input' \in [Tasks -> Seq(Events)]
        /\ out' = [out EXCEPT ![t] = <<>>]
        /\ pc'[t] \in Running => input'[t] = <<e>>
        /\ \A u \in Tasks \ {t} : pc'[u] = pc[u] /\ input'[u] = input[u]
    <3>1. CASE ShouldFlush(batch')
      <4>1. /\ pc' = [pc EXCEPT ![t] = "flush"]
            /\ input' = [input EXCEPT ![t] = <<>>]
            /\ out' = [out EXCEPT ![t] = <<>>]
        BY <1>1, <3>1 DEF Publish
      <4>2. <<>> \in Seq(Events)
        OBVIOUS
      <4>3. QED
        BY <4>1, <4>2 DEF TypeOK, Locations, Running
    <3>2. CASE ~ShouldFlush(batch')
      BY <1>1, <2>1, <3>2 DEF Publish, TypeOK, Locations, Running
    <3>3. QED
      BY <3>1, <3>2
  <2>5. TypeOK'
    <3>1. out' \in [Tasks -> Seq(Nat)]
      <4>1. <<>> \in Seq(Nat) /\ out \in [Tasks -> Seq(Nat)]
        BY DEF TypeOK
      <4>2. QED
        BY <2>4, <4>1
    <3>2. own' \in [Tasks -> Events \cup {NoEvent}]
      <4>1. own \in [Tasks -> Events \cup {NoEvent}]
        BY DEF TypeOK
      <4>2. own' = [own EXCEPT ![t] = e]
        BY <1>1 DEF Publish
      <4>3. QED
        BY <4>1, <4>2
    <3>3. UNCHANGED <<events, correlations, handlers, eventsLock, corrLock,
                      eventId, result, seen>>
      BY <1>1 DEF Publish
    <3>4. QED
      BY <1>0, <2>2, <2>3, <2>4, <3>1, <3>2, <3>3 DEF TypeOK
  <2>6. WorkLeft'
    <3>1. Len(out'[t]) = 0 /\ Len(input'[t]) \in Nat
      BY <2>4, <2>5 DEF TypeOK
    <3>2. ASSUME NEW u \in Tasks, u # t
          PROVE  pc'[u] = pc[u] /\ input'[u] = input[u] /\ out'[u] = out[u]
      BY <2>4, <3>2 DEF TypeOK
    <3>3. out'[t] = <<>>
      BY <2>4 DEF TypeOK
    <3>4. pc'[t] \in Running => Len(out'[t]) < Len(input'[t])
      <4>1. SUFFICES ASSUME pc'[t] \in Running
                     PROVE  Len(out'[t]) < Len(input'[t])
        OBVIOUS
      <4>2. input'[t] = <<e>>
        BY <2>4, <4>1
      <4>3. Len(input'[t]) = 1
        BY <4>2
      <4>4. QED
        BY <3>1, <4>3
    <3>5. Len(out'[t]) <= Len(input'[t])
      BY <3>1
    <3>6. ASSUME NEW u \in Tasks
          PROVE  /\ Len(out'[u]) <= Len(input'[u])
                 /\ pc'[u] \in Running => Len(out'[u]) < Len(input'[u])
                 /\ pc'[u] = "flush" => out'[u] = <<>>
      <4>1. CASE u = t
        BY <3>3, <3>4, <3>5, <4>1
      <4>2. CASE u # t
        BY <3>2, <4>2 DEF WorkLeft
      <4>3. QED
        BY <4>1, <4>2
    <3>7. QED
      BY <3>6 DEF WorkLeft
  <2>7. QED
    BY <2>5, <2>6
<1>2. ASSUME NEW t \in Tasks, NEW s \in Batches, PublishBatch(t, s)
      PROVE  TypeInv'
  <2>1. s \in Seq(Events)
    BY BatchesAssumption
  <2>2. attempts' \in [Correlations -> Nat]
    BY <1>2, <2>1, AttemptType DEF PublishBatch
  <2>3. TypeOK'
    <3>1. pc' \in [Tasks -> Locations] /\ result' \in [Tasks -> Outcomes]
      BY <1>2 DEF PublishBatch, TypeOK, Locations, Outcomes
    <3>2. own' \in [Tasks -> Events \cup {NoEvent}]
      BY <1>2 DEF PublishBatch, TypeOK
    <3>3. input' \in [Tasks -> Seq(Events)] /\ out' \in [Tasks -> Seq(Nat)]
      <4>1. <<>> \in Seq(Nat)
        OBVIOUS
      <4>2. /\ input' = [input EXCEPT ![t] = s]
            /\ out' = [out EXCEPT ![t] = <<>>]
        BY <1>2 DEF PublishBatch
      <4>3. QED
        BY <2>1, <4>1, <4>2 DEF TypeOK
    <3>4. UNCHANGED <<events, correlations, handlers, batch, eventsLock,
                      corrLock, eventId, seen>>
      BY <1>2 DEF PublishBatch, busVars
    <3>5. QED
      BY <1>0, <2>2, <3>1, <3>2, <3>3, <3>4 DEF TypeOK
  <2>4. WorkLeft'
    BY <1>2, <2>1 DEF PublishBatch, TypeOK, WorkLeft, Running
  <2>5. QED
    BY <2>3, <2>4
<1>3. ASSUME NEW y \in EventTypes, NEW h \in Handlers, Subscribe(y, h)
      PROVE  TypeInv'
  <2>1. /\ handlers' = [handlers EXCEPT ![y] = Append(@, h)]
        /\ UNCHANGED <<events, correlations, batch, eventsLock, corrLock>>
        /\ UNCHANGED <<pc, own, input, out, eventId, result, seen, attempts>>
    BY <1>3 DEF Subscribe, taskVars, history
  <2>2. handlers' \in [EventTypes -> Seq(Handlers)]
    BY <2>1 DEF TypeOK
  <2>3. TypeOK'
    BY <1>0, <2>1, <2>2 DEF TypeOK
  <2>4. WorkLeft'
    BY <2>1 DEF WorkLeft
  <2>5. QED
    BY <2>3, <2>4
<1>4. ASSUME NEW t \in Tasks, FlushEmpty(t) PROVE TypeInv'
  <2>1. /\ pc' = [pc EXCEPT ![t] = "idle"]
        /\ result' = [result EXCEPT ![t] = "panic"]
        /\ UNCHANGED <<busVars, own, input, out, eventId, history>>
    BY <1>4 DEF FlushEmpty
  <2>2. /\ pc' \in [Tasks -> Locations] /\ result' \in [Tasks -> Outcomes]
        /\ \A u \in Tasks : pc'[u] = pc[u] \/ pc'[u] = "idle"
    BY <2>1 DEF TypeOK, Locations, Outcomes
  <2>3. TypeOK'
    BY <2>1, <2>2, <1>0 DEF TypeOK, busVars, history
  <2>4. WorkLeft'
    BY <2>1, <2>2 DEF WorkLeft, Running
  <2>5. QED
    BY <2>3, <2>4
<1>5. ASSUME NEW t \in Tasks, DrainBatch(t) PROVE TypeInv'
  <2>1. /\ pc' = [pc EXCEPT ![t] = "check"] /\ pc[t] = "flush"
        /\ input' = [input EXCEPT ![t] = batch] /\ batch' = <<>>
        /\ batch # <<>>
        /\ UNCHANGED <<events, correlations, handlers, eventsLock, corrLock,
                       own, out, eventId, result, seen, attempts>>
    BY <1>5 DEF DrainBatch
  <2>2. batch \in Seq(Events) /\ batch # <<>> /\ Len(batch) > 0
    BY <2>1 DEF TypeOK
  <2>3. TypeOK'
    <3>1. pc' \in [Tasks -> Locations] /\ input' \in [Tasks -> Seq(Events)]
      BY <2>1, <2>2 DEF TypeOK, Locations
    <3>2. batch' \in Seq(Events)
      BY <2>1
    <3>3. QED
      BY <1>0, <2>1, <3>1, <3>2 DEF TypeOK
  <2>4. WorkLeft'
    <3>1. pc'[t] = "check" /\ input'[t] = batch /\ out'[t] = <<>>
      BY <2>1 DEF TypeOK, WorkLeft
    <3>2. \A u \in Tasks \ {t} :
            pc'[u] = pc[u] /\ input'[u] = input[u] /\ out'[u] = out[u]
      BY <2>1 DEF TypeOK
    <3>3. QED
      BY <2>2, <3>1, <3>2 DEF WorkLeft, Running
  <2>5. QED
    BY <2>3, <2>4
<1>6. ASSUME NEW t \in Tasks, CheckDuplicate(t) PROVE TypeInv'
  <2>1. pc[t] \in Running
    BY <1>6 DEF CheckDuplicate, Running
  <2>2. CASE correlations[Current(t).corr] # 0
    <3>1. correlations[Current(t).corr] \in Nat
      BY <2>1, CurrentType DEF TypeOK
    <3>2. QED
      BY <1>6, <2>2, <3>1
      DEF CheckDuplicate, TypeOK, WorkLeft, Running, Locations, busVars
  <2>3. CASE correlations[Current(t).corr] = 0
    <3>1. ValidateContext(t) /\ UNCHANGED <<busVars, own, input, out, eventId,
                                             seen, attempts, overtaken>>
      BY <1>6, <2>3 DEF CheckDuplicate
    <3>2. QED
      BY <1>0, <2>1, <3>1, ValidateType DEF TypeOK, busVars
  <2>4. QED
    BY <2>2, <2>3
<1>7. ASSUME NEW t \in Tasks, LookupStored(t) PROVE TypeInv'
  <2>1. pc[t] \in Running /\ eventId[t] \in Nat
    BY <1>7 DEF LookupStored, Running, TypeOK
  <2>2. CASE eventId[t] \in DOMAIN events
    <3>1. Answer(t, eventId[t])
          /\ UNCHANGED <<busVars, own, input, eventId, seen, attempts, overtaken>>
      BY <1>7, <2>2 DEF LookupStored
    <3>2. QED
      BY <1>0, <2>1, <3>1, AnswerType DEF TypeOK, busVars
  <2>3. CASE eventId[t] \notin DOMAIN events
    <3>1. ValidateContext(t) /\ UNCHANGED <<busVars, own, input, out, eventId,
                                             seen, attempts, overtaken>>
      BY <1>7, <2>3 DEF LookupStored
    <3>2. QED
      BY <1>0, <2>1, <3>1, ValidateType DEF TypeOK, busVars
  <2>4. QED
    BY <2>2, <2>3
<1>8. ASSUME NEW t \in Tasks, StoreEvent(t) PROVE TypeInv'
  <2>1. pc[t] \in Running
    BY <1>8 DEF StoreEvent, Running
  <2> DEFINE new == [corr |-> Current(t).corr, stream |-> Current(t).stream,
                     type |-> Current(t).type,
                     version |-> NextVersion(Current(t).stream), by |-> t]
  <2>2. new \in StoredEvent
    BY <2>1, CurrentType, NextVersionType DEF StoredEvent
  <2>3. events' = Append(events, new)
    BY <1>8 DEF StoreEvent
  <2>4. events' \in Seq(StoredEvent)
    BY <2>2, <2>3 DEF TypeOK
  <2>5. TypeOK'
    <3>1. Len(events) \in Nat
      BY DEF TypeOK
    <3>2. /\ eventId' \in [Tasks -> Nat]
          /\ pc' \in [Tasks -> Locations]
          /\ eventsLock' \in Tasks \cup {NoTask}
      BY <1>8, <3>1 DEF StoreEvent, TypeOK, Locations
    <3>3. UNCHANGED <<correlations, handlers, batch, corrLock, own, input, out,
                      result, history>>
      BY <1>8 DEF StoreEvent
    <3>4. QED
      BY <1>0, <2>4, <3>2, <3>3 DEF TypeOK, history
  <2>6. WorkLeft'
    BY <1>8, <2>1 DEF StoreEvent, TypeOK, WorkLeft, Running
  <2>7. QED
    BY <2>5, <2>6
<1>9. ASSUME NEW t \in Tasks, RecordCorrelation(t) PROVE TypeInv'
  BY <1>0, <1>9 DEF RecordCorrelation, history, TypeOK, WorkLeft, Running, Locations
<1>10. ASSUME NEW t \in Tasks, Notify(t) PROVE TypeInv'
  <2>1. pc[t] \in Running /\ eventId[t] \in Nat
    BY <1>10 DEF Notify, Running, TypeOK
  <2> DEFINE calls(h) == Occurrences(handlers[Current(t).type], h)
  <2>2. handlers[Current(t).type] \in Seq(Handlers)
    BY <2>1, CurrentType DEF TypeOK
  <2>3. \A h \in Handlers : calls(h) \in Nat
    BY <2>2, OccurrencesType
  <2> HIDE DEF calls
  <2>4. \A h \in Handlers :
          seen[h] \o [k \in 1 .. calls(h) |-> eventId[t]] \in Seq(Nat)
    <3>1. ASSUME NEW h \in Handlers
          PROVE  [k \in 1 .. calls(h) |-> eventId[t]] \in Seq(Nat)
      BY <2>1, <2>3
    <3>2. QED
      BY <3>1, ConcatProperties DEF TypeOK
  <2>5. seen' \in [Handlers -> Seq(Nat)]
    BY <1>10, <2>4 DEF Notify, calls
  <2>6. QED
    BY <1>0, <1>10, <2>1, <2>5, AnswerType DEF Notify, TypeOK
<1>11. CASE UNCHANGED vars
  BY <1>0, <1>11 DEF vars, busVars, taskVars, history, TypeOK, WorkLeft
<1>12. CASE Quiescent
  BY <1>11, <1>12 DEF Quiescent
<1>13. QED
  BY <1>1, <1>2, <1>3, <1>4, <1>5, <1>6, <1>7, <1>8, <1>9, <1>10, <1>11,
     <1>12
  DEF Next, TaskStep

\* Every reachable state is well typed.
THEOREM TypeCorrect == Spec => []TypeOK
<1>1. Spec => []TypeInv
  BY TypeInvInit, TypeInvStep, PTL DEF Spec
<1>2. TypeInv => TypeOK
  BY DEF TypeInv
<1>3. QED
  BY <1>1, <1>2, PTL

-----------------------------------------------------------------------------
(* The lock discipline and what it protects.                               *)

\* The write guards are held exactly over record / notify.
Locks ==
  \A t \in Tasks :
    /\ eventsLock = t <=> pc[t] \in {"record", "notify"}
    /\ corrLock = t <=> pc[t] = "notify"

\* What a task's local id names while it is used.
LocalIds ==
  \A t \in Tasks :
    /\ pc[t] = "lookup" => /\ eventId[t] \in DOMAIN events
                           /\ events[eventId[t]].corr = Current(t).corr
                           /\ correlations[Current(t).corr] # 0
    /\ pc[t] \in {"record", "notify"} =>
         /\ eventId[t] = Len(events) /\ eventId[t] # 0
         /\ events[eventId[t]].corr = Current(t).corr
         /\ events[eventId[t]].by = t
    /\ pc[t] = "record" => correlations[Current(t).corr] # eventId[t]
    /\ pc[t] = "notify" => correlations[Current(t).corr] = eventId[t]

\* A task that passed the duplicate check has not stored the correlation: at
\* the check no recorded event had it, and the only unrecorded event belongs
\* to another task.
NotStoredYet ==
  \A t \in Tasks :
    pc[t] = "store" =>
      \A i \in DOMAIN events :
        ~(events[i].by = t /\ events[i].corr = Current(t).corr)

SafeInv ==
  /\ TypeInv
  /\ Locks
  /\ LocalIds
  /\ CorrelationsIndexLog
  /\ NotStoredYet
  /\ StoredOncePerTask

LEMMA LogDomain ==
  ASSUME TypeInv
  PROVE  Len(events) \in Nat /\ DOMAIN events = 1 .. Len(events)
<1>1. events \in Seq(StoredEvent)
  BY DEF TypeInv, TypeOK
<1>2. QED
  BY <1>1

LEMMA SafeInvInit == Init => SafeInv
<1> SUFFICES ASSUME Init PROVE SafeInv
  OBVIOUS
<1>1. TypeInv
  BY TypeInvInit
<1>2. Locks
  BY TasksAssumption DEF Init, Locks
<1>3. events = <<>> /\ DOMAIN events = {} /\ Len(events) = 0
  BY DEF Init
<1>4. QED
  BY <1>1, <1>2, <1>3
  DEF Init, SafeInv, LocalIds, CorrelationsIndexLog, NotStoredYet,
      StoredOncePerTask

\* What the push of StoreEvent does to the log.
LEMMA StoreEffect ==
  ASSUME TypeInv, NEW t \in Tasks, StoreEvent(t)
  PROVE  /\ Len(events) \in Nat
         /\ DOMAIN events = 1 .. Len(events)
         /\ Len(events') = Len(events) + 1
         /\ DOMAIN events' = 1 .. (Len(events) + 1)
         /\ \A i \in 1 .. Len(events) : events'[i] = events[i]
         /\ events'[Len(events) + 1] =
              [corr |-> Current(t).corr, stream |-> Current(t).stream,
               type |-> Current(t).type,
               version |-> NextVersion(Current(t).stream), by |-> t]
<1> DEFINE new == [corr |-> Current(t).corr, stream |-> Current(t).stream,
                   type |-> Current(t).type,
                   version |-> NextVersion(Current(t).stream), by |-> t]
<1>1. pc[t] \in Running /\ events \in Seq(StoredEvent)
  BY DEF StoreEvent, Running, TypeInv, TypeOK
<1>2. new \in StoredEvent
  BY <1>1, CurrentType, NextVersionType DEF StoredEvent, TypeInv
<1>3. events' = Append(events, new)
  BY DEF StoreEvent
<1> HIDE DEF new
<1>4. /\ Len(events) \in Nat
      /\ DOMAIN events = 1 .. Len(events)
      /\ Len(events') = Len(events) + 1
      /\ DOMAIN events' = 1 .. (Len(events) + 1)
      /\ \A i \in 1 .. Len(events) : events'[i] = events[i]
      /\ events'[Len(events) + 1] = new
  BY <1>1, <1>2, <1>3, AppendProperties
<1>5. QED
  BY <1>4 DEF new

\* A step that leaves the log, the index and the locks alone, and takes one
\* task that holds no lock to a place where it needs none, is harmless.
LEMMA QuietStep ==
  ASSUME SafeInv, TypeInv', NEW t \in Tasks,
         UNCHANGED <<events, correlations, eventsLock, corrLock>>,
         pc[t] \notin {"record", "notify"},
         pc'[t] \in {"idle", "flush", "check"},
         \A u \in Tasks \ {t} : /\ pc'[u] = pc[u]
                                /\ input'[u] = input[u]
                                /\ out'[u] = out[u]
                                /\ eventId'[u] = eventId[u]
  PROVE  SafeInv'
<1>1. \A u \in Tasks \ {t} : Current(u)' = Current(u)
  BY DEF Current
<1>2. Locks'
  BY DEF SafeInv, Locks
<1>3. LocalIds'
  BY <1>1 DEF SafeInv, LocalIds
<1>4. \A i \in DOMAIN events : Unrecorded(i)' = Unrecorded(i)
  BY TasksAssumption DEF SafeInv, TypeInv, TypeOK, Locks, Unrecorded
<1>5. CorrelationsIndexLog'
  BY <1>4 DEF SafeInv, CorrelationsIndexLog
<1>6. NotStoredYet'
  BY <1>1 DEF SafeInv, NotStoredYet
<1>7. StoredOncePerTask'
  BY DEF SafeInv, StoredOncePerTask
<1>8. QED
  BY <1>2, <1>3, <1>5, <1>6, <1>7 DEF SafeInv

\* The four steps of publish_internal that matter.
LEMMA CheckDuplicateSafe ==
  ASSUME SafeInv, TypeInv', NEW t \in Tasks, CheckDuplicate(t)
  PROVE  SafeInv'
<1>1. /\ pc[t] = "check" /\ pc[t] \in Running
      /\ corrLock = NoTask
      /\ UNCHANGED <<events, correlations, eventsLock, corrLock, input, out>>
  BY DEF CheckDuplicate, Running, busVars
<1>2. \A u \in Tasks : Current(u)' = Current(u)
  BY <1>1 DEF Current
<1>3. Current(t).corr \in Correlations
  BY <1>1, CurrentType DEF SafeInv
<1> DEFINE c == Current(t).corr
<1>4. CASE correlations[c] # 0
  <2>1. /\ pc' = [pc EXCEPT ![t] = "lookup"]
        /\ eventId' = [eventId EXCEPT ![t] = correlations[c]]
    BY <1>4 DEF CheckDuplicate
  <2>2. Locks'
    BY <1>1, <2>1 DEF SafeInv, TypeInv, TypeOK, Locks
  <2>3. LocalIds'
    <3>1. /\ correlations[c] \in DOMAIN events
          /\ events[correlations[c]].corr = c
      BY <1>3, <1>4 DEF SafeInv, CorrelationsIndexLog
    <3>2. /\ pc'[t] = "lookup" /\ eventId'[t] = correlations[c]
          /\ \A u \in Tasks \ {t} : pc'[u] = pc[u] /\ eventId'[u] = eventId[u]
      BY <2>1 DEF SafeInv, TypeInv, TypeOK
    <3>3. QED
      BY <1>1, <1>2, <1>4, <3>1, <3>2 DEF SafeInv, LocalIds
  <2>4. \A i \in DOMAIN events : Unrecorded(i)' = Unrecorded(i)
    BY <1>1, <2>1, TasksAssumption
    DEF SafeInv, TypeInv, TypeOK, Locks, Unrecorded
  <2>5. CorrelationsIndexLog'
    BY <1>1, <2>4 DEF SafeInv, CorrelationsIndexLog
  <2>6. NotStoredYet'
    <3>1. pc'[t] = "lookup" /\ \A u \in Tasks \ {t} : pc'[u] = pc[u]
      BY <2>1 DEF SafeInv, TypeInv, TypeOK
    <3>2. QED
      BY <1>1, <1>2, <3>1 DEF SafeInv, NotStoredYet
  <2>7. StoredOncePerTask'
    BY <1>1 DEF SafeInv, StoredOncePerTask
  <2>8. QED
    BY <2>2, <2>3, <2>5, <2>6, <2>7 DEF SafeInv
<1>5. CASE correlations[c] = 0 /\ Current(t).valid
  <2>1. /\ pc' = [pc EXCEPT ![t] = "store"]
        /\ eventId' = eventId
    BY <1>5 DEF CheckDuplicate, ValidateContext
  <2>2. Locks'
    BY <1>1, <2>1 DEF SafeInv, TypeInv, TypeOK, Locks
  <2>3. LocalIds'
    BY <1>1, <1>2, <2>1 DEF SafeInv, TypeInv, TypeOK, LocalIds
  <2>4. \A i \in DOMAIN events : Unrecorded(i)' = Unrecorded(i)
    BY <1>1, <2>1, TasksAssumption
    DEF SafeInv, TypeInv, TypeOK, Locks, Unrecorded
  <2>5. CorrelationsIndexLog'
    BY <1>1, <2>4 DEF SafeInv, CorrelationsIndexLog
  <2>6. \A i \in DOMAIN events : ~(events[i].by = t /\ events[i].corr = c)
    <3>1. SUFFICES ASSUME NEW i \in DOMAIN events,
                          events[i].by = t, events[i].corr = c
                   PROVE  FALSE
      OBVIOUS
    <3>2. i \in 1 .. Len(events) /\ Len(events) \in Nat
      BY LogDomain DEF SafeInv
    <3>3. Unrecorded(i)
      BY <1>3, <1>5, <3>1, <3>2 DEF SafeInv, CorrelationsIndexLog
    <3>4. /\ i = Len(events)
          /\ eventsLock \in Tasks
          /\ pc[eventsLock] = "record"
      BY <3>3 DEF Unrecorded, SafeInv, TypeInv, TypeOK
    <3>5. events[i].by = eventsLock
      BY <3>4 DEF SafeInv, LocalIds
    <3>6. QED
      BY <1>1, <3>1, <3>4, <3>5
  <2>7. NotStoredYet'
    BY <1>1, <1>2, <2>1, <2>6 DEF SafeInv, TypeInv, TypeOK, NotStoredYet
  <2>8. StoredOncePerTask'
    BY <1>1 DEF SafeInv, StoredOncePerTask
  <2>9. QED
    BY <2>2, <2>3, <2>5, <2>7, <2>8 DEF SafeInv
<1>6. CASE correlations[c] = 0 /\ ~Current(t).valid
  <2>1. pc' = [pc EXCEPT ![t] = "idle"] /\ eventId' = eventId
    BY <1>6 DEF CheckDuplicate, ValidateContext
  <2>2. QED
    BY <1>1, <2>1, QuietStep DEF SafeInv, TypeInv, TypeOK
<1>7. QED
  BY <1>4, <1>5, <1>6

LEMMA LookupStoredSafe ==
  ASSUME SafeInv, TypeInv', NEW t \in Tasks, LookupStored(t)
  PROVE  SafeInv'
<1>1. /\ pc[t] = "lookup"
      /\ eventId[t] \in DOMAIN events
      /\ UNCHANGED <<events, correlations, eventsLock, corrLock, input, eventId>>
  BY DEF LookupStored, busVars, SafeInv, LocalIds
<1>2. Answer(t, eventId[t])
  BY <1>1 DEF LookupStored
<1>3. /\ pc'[t] \in {"idle", "check"}
      /\ \A u \in Tasks \ {t} : pc'[u] = pc[u] /\ out'[u] = out[u]
  BY <1>2 DEF Answer, SafeInv, TypeInv, TypeOK
<1>4. QED
  BY <1>1, <1>3, QuietStep

LEMMA StoreEventSafe ==
  ASSUME SafeInv, TypeInv', NEW t \in Tasks, StoreEvent(t)
  PROVE  SafeInv'
<1>1. /\ pc[t] = "store" /\ pc[t] \in Running
      /\ eventsLock = NoTask /\ eventsLock' = t
      /\ pc' = [pc EXCEPT ![t] = "record"]
      /\ eventId' = [eventId EXCEPT ![t] = Len(events) + 1]
      /\ UNCHANGED <<correlations, corrLock, input, out>>
  BY DEF StoreEvent, Running
<1>2. \A u \in Tasks : Current(u)' = Current(u)
  BY <1>1 DEF Current
<1> DEFINE n == Len(events) + 1
<1>3. /\ n \in Nat \ {0}
      /\ DOMAIN events = 1 .. (n - 1)
      /\ DOMAIN events' = 1 .. n
      /\ Len(events') = n
      /\ \A i \in 1 .. (n - 1) : events'[i] = events[i]
      /\ events'[n].corr = Current(t).corr
      /\ events'[n].by = t
  <2>1. TypeInv
    BY DEF SafeInv
  <2>2. /\ Len(events) \in Nat
        /\ DOMAIN events = 1 .. Len(events)
        /\ Len(events') = Len(events) + 1
        /\ DOMAIN events' = 1 .. (Len(events) + 1)
        /\ \A i \in 1 .. Len(events) : events'[i] = events[i]
        /\ events'[Len(events) + 1] =
             [corr |-> Current(t).corr, stream |-> Current(t).stream,
              type |-> Current(t).type,
              version |-> NextVersion(Current(t).stream), by |-> t]
    BY <2>1, StoreEffect
  <2>3. n - 1 = Len(events)
    BY <2>2
  <2>4. QED
    BY <2>2, <2>3
<1>4. \A u \in Tasks : pc[u] \notin {"record", "notify"}
  BY <1>1, TasksAssumption DEF SafeInv, Locks
<1>5. Locks'
  BY <1>1, <1>4 DEF SafeInv, TypeInv, TypeOK, Locks
<1>6. LocalIds'
  <2>1. ASSUME NEW u \in Tasks, u # t, pc[u] = "lookup"
        PROVE  /\ eventId'[u] \in DOMAIN events'
               /\ events'[eventId'[u]].corr = Current(u).corr
               /\ correlations'[Current(u).corr] # 0
    BY <1>1, <1>3, <2>1 DEF SafeInv, LocalIds, TypeInv, TypeOK
  <2>2. eventId'[t] = n
    BY <1>1 DEF SafeInv, TypeInv, TypeOK
  <2>3. \A u \in Tasks \ {t} : pc'[u] = pc[u]
    BY <1>1 DEF SafeInv, TypeInv, TypeOK
  <2>4. pc'[t] = "record"
    BY <1>1 DEF SafeInv, TypeInv, TypeOK
  <2>5. correlations'[Current(t).corr] # n
    <3>1. Current(t).corr \in Correlations
      BY <1>1, CurrentType DEF SafeInv
    <3>2. \A i \in DOMAIN events : i # n
      BY <1>3
    <3>3. QED
      BY <1>1, <1>3, <3>1, <3>2 DEF SafeInv, CorrelationsIndexLog
  <2> HIDE DEF n
  <2>6. QED
    BY <1>2, <1>3, <1>4, <2>1, <2>2, <2>3, <2>4, <2>5 DEF LocalIds
<1>7. CorrelationsIndexLog'
  <2>1. \A i \in DOMAIN events' : i = n => Unrecorded(i)'
    <3>1. eventsLock' # NoTask /\ pc'[eventsLock'] = "record"
      BY <1>1, TasksAssumption DEF SafeInv, TypeInv, TypeOK
    <3>2. QED
      BY <1>3, <3>1 DEF Unrecorded
  <2>2. \A i \in DOMAIN events : ~Unrecorded(i)
    BY <1>1 DEF Unrecorded
  <2> HIDE DEF n
  <2>3. ASSUME NEW d \in Correlations
        PROVE  /\ correlations'[d] # 0 =>
                    /\ correlations'[d] \in DOMAIN events'
                    /\ events'[correlations'[d]].corr = d
               /\ \A i \in DOMAIN events' :
                    events'[i].corr = d =>
                      i <= correlations'[d] \/ Unrecorded(i)'
    <3>1. /\ correlations[d] # 0 =>
               /\ correlations[d] \in DOMAIN events
               /\ events[correlations[d]].corr = d
          /\ \A i \in DOMAIN events : events[i].corr = d => i <= correlations[d]
      BY <2>2 DEF SafeInv, CorrelationsIndexLog
    <3>2. \A i \in DOMAIN events' : i # n => i \in DOMAIN events /\ events'[i] = events[i]
      BY <1>3
    <3>3. \A i \in DOMAIN events : i \in DOMAIN events' /\ events'[i] = events[i]
      BY <1>3
    <3>4. correlations'[d] = correlations[d]
      BY <1>1
    <3>5. QED
      BY <2>1, <3>1, <3>2, <3>3, <3>4
  <2>4. QED
    BY <2>3 DEF CorrelationsIndexLog
<1>8. NotStoredYet'
  <2>1. ASSUME NEW u \in Tasks, pc'[u] = "store", NEW i \in DOMAIN events',
               events'[i].by = u, events'[i].corr = Current(u).corr
        PROVE  FALSE
    <3>1. u # t /\ pc[u] = "store"
      BY <1>1, <2>1 DEF SafeInv, TypeInv, TypeOK
    <3>2. i # n
      BY <1>3, <2>1, <3>1
    <3>3. i \in DOMAIN events /\ events'[i] = events[i]
      BY <1>3, <3>2
    <3>4. QED
      BY <2>1, <3>1, <3>3 DEF SafeInv, NotStoredYet
  <2>2. QED
    BY <1>2, <2>1 DEF NotStoredYet
<1>9. StoredOncePerTask'
  <2>1. \A i \in DOMAIN events : ~(events[i].by = t /\ events[i].corr = Current(t).corr)
    BY <1>1 DEF SafeInv, NotStoredYet
  <2>2. StoredOncePerTask
    BY DEF SafeInv
  <2> HIDE DEF n
  <2>3. QED
    BY <1>3, <2>1, <2>2 DEF StoredOncePerTask
<1>10. QED
  BY <1>5, <1>6, <1>7, <1>8, <1>9 DEF SafeInv

LEMMA RecordCorrelationSafe ==
  ASSUME SafeInv, TypeInv', NEW t \in Tasks, RecordCorrelation(t)
  PROVE  SafeInv'
<1> DEFINE c == Current(t).corr
<1>1. /\ pc[t] = "record" /\ pc[t] \in Running
      /\ corrLock' = t
      /\ correlations' = [correlations EXCEPT ![c] = eventId[t]]
      /\ pc' = [pc EXCEPT ![t] = "notify"]
      /\ UNCHANGED <<events, eventsLock, input, out, eventId>>
  BY DEF RecordCorrelation, Running
<1>2. \A u \in Tasks : Current(u)' = Current(u)
  BY <1>1 DEF Current
<1>3. c \in Correlations
  BY <1>1, CurrentType DEF SafeInv
<1>4. /\ eventsLock = t
      /\ eventId[t] = Len(events) /\ eventId[t] # 0
      /\ events[eventId[t]].corr = c
  BY <1>1 DEF SafeInv, Locks, LocalIds
<1>5. Len(events) \in Nat /\ DOMAIN events = 1 .. Len(events)
  BY LogDomain DEF SafeInv
<1>6. /\ pc'[t] = "notify"
      /\ \A u \in Tasks \ {t} : pc'[u] = pc[u]
      /\ correlations'[c] = eventId[t]
      /\ \A d \in Correlations \ {c} : correlations'[d] = correlations[d]
  BY <1>1, <1>3 DEF SafeInv, TypeInv, TypeOK
<1> HIDE DEF c
<1>7. Locks'
  BY <1>1, <1>4, <1>6 DEF SafeInv, Locks
<1>8. LocalIds'
  <2>1. ASSUME NEW u \in Tasks, u # t, pc[u] = "lookup"
        PROVE  correlations'[Current(u).corr] # 0
    <3>1. Current(u).corr \in Correlations
      BY <2>1, CurrentType DEF SafeInv, Running
    <3>2. correlations[Current(u).corr] # 0
      BY <2>1 DEF SafeInv, LocalIds
    <3>3. QED
      BY <1>4, <1>6, <3>1, <3>2
  <2>2. \A u \in Tasks \ {t} : pc[u] \notin {"record", "notify"}
    BY <1>4 DEF SafeInv, Locks
  <2>3. LocalIds
    BY DEF SafeInv
  <2>4. ASSUME NEW u \in Tasks \ {t}
        PROVE  /\ pc'[u] = "lookup" =>
                    /\ eventId'[u] \in DOMAIN events'
                    /\ events'[eventId'[u]].corr = Current(u)'.corr
                    /\ correlations'[Current(u)'.corr] # 0
               /\ pc'[u] \notin {"record", "notify"}
    BY <1>1, <1>2, <1>6, <2>1, <2>2, <2>3 DEF LocalIds
  <2>5. Current(t).corr = c
    BY DEF c
  <2>6. /\ eventId'[t] = Len(events') /\ eventId'[t] # 0
        /\ events'[eventId'[t]].corr = Current(t)'.corr
        /\ events'[eventId'[t]].by = t
        /\ correlations'[Current(t)'.corr] = eventId'[t]
    BY <1>1, <1>2, <1>4, <1>6, <2>3, <2>5 DEF LocalIds
  <2>7. QED
    BY <1>6, <2>4, <2>6 DEF LocalIds
<1>9. CorrelationsIndexLog'
  <2>1. \A i \in DOMAIN events : Unrecorded(i) => i = Len(events)
    BY DEF Unrecorded
  <2>2. ASSUME NEW d \in Correlations
        PROVE  /\ correlations'[d] # 0 =>
                    /\ correlations'[d] \in DOMAIN events
                    /\ events[correlations'[d]].corr = d
               /\ \A i \in DOMAIN events :
                    events[i].corr = d => i <= correlations'[d]
    <3>1. CASE d = c
      BY <1>4, <1>5, <1>6, <3>1
    <3>2. CASE d # c
      BY <1>4, <1>5, <1>6, <2>1, <3>2 DEF SafeInv, CorrelationsIndexLog
    <3>3. QED
      BY <3>1, <3>2
  <2>3. QED
    BY <1>1, <2>2 DEF CorrelationsIndexLog
<1>10. NotStoredYet'
  BY <1>1, <1>2, <1>6 DEF SafeInv, NotStoredYet
<1>11. StoredOncePerTask'
  BY <1>1 DEF SafeInv, StoredOncePerTask
<1>12. QED
  BY <1>7, <1>8, <1>9, <1>10, <1>11 DEF SafeInv

LEMMA NotifySafe ==
  ASSUME SafeInv, TypeInv', NEW t \in Tasks, Notify(t)
  PROVE  SafeInv'
<1>1. /\ pc[t] = "notify"
      /\ eventsLock' = NoTask /\ corrLock' = NoTask
      /\ Answer(t, eventId[t])
      /\ UNCHANGED <<events, correlations, input, eventId>>
  BY DEF Notify
<1>2. /\ pc'[t] \in {"idle", "check"}
      /\ \A u \in Tasks \ {t} : pc'[u] = pc[u] /\ out'[u] = out[u]
  BY <1>1 DEF Answer, SafeInv, TypeInv, TypeOK
<1>3. \A u \in Tasks \ {t} : Current(u)' = Current(u)
  BY <1>1, <1>2 DEF Current
<1>4. eventsLock = t /\ \A u \in Tasks \ {t} : pc[u] \notin {"record", "notify"}
  BY <1>1 DEF SafeInv, Locks
<1>5. Locks'
  BY <1>1, <1>2, <1>4, TasksAssumption DEF SafeInv, Locks
<1>6. LocalIds'
  BY <1>1, <1>2, <1>3 DEF SafeInv, LocalIds
<1>7. \A i \in DOMAIN events : ~Unrecorded(i)
  BY <1>1, <1>4 DEF Unrecorded
<1>8. CorrelationsIndexLog'
  BY <1>1, <1>7 DEF SafeInv, CorrelationsIndexLog
<1>9. NotStoredYet'
  BY <1>1, <1>2, <1>3 DEF SafeInv, NotStoredYet
<1>10. StoredOncePerTask'
  BY <1>1 DEF SafeInv, StoredOncePerTask
<1>11. QED
  BY <1>5, <1>6, <1>8, <1>9, <1>10 DEF SafeInv

LEMMA SafeInvStep == SafeInv /\ [Next]_vars => SafeInv'
<1> SUFFICES ASSUME SafeInv, [Next]_vars PROVE SafeInv'
  OBVIOUS
<1>0. TypeInv'
  BY TypeInvStep DEF SafeInv
<1>1. ASSUME NEW t \in Tasks, NEW e \in Events, Publish(t, e) PROVE SafeInv'
  <2>1. /\ UNCHANGED <<events, correlations, eventsLock, corrLock, eventId>>
        /\ pc[t] = "idle" /\ pc'[t] \in {"flush", "check"}
        /\ \A u \in Tasks \ {t} : /\ pc'[u] = pc[u]
                                  /\ input'[u] = input[u]
                                  /\ out'[u] = out[u]
    BY <1>1 DEF Publish, SafeInv, TypeInv, TypeOK
  <2>2. QED
    BY <1>0, <2>1, QuietStep
<1>2. ASSUME NEW t \in Tasks, NEW s \in Batches, PublishBatch(t, s)
      PROVE  SafeInv'
  <2>1. /\ UNCHANGED <<events, correlations, eventsLock, corrLock, eventId>>
        /\ pc[t] = "idle" /\ pc'[t] \in {"idle", "check"}
        /\ \A u \in Tasks \ {t} : /\ pc'[u] = pc[u]
                                  /\ input'[u] = input[u]
                                  /\ out'[u] = out[u]
    BY <1>2 DEF PublishBatch, SafeInv, TypeInv, TypeOK, busVars
  <2>2. QED
    BY <1>0, <2>1, QuietStep
<1>3. ASSUME UNCHANGED <<events, correlations, eventsLock, corrLock, pc,
                         input, out, eventId>>
      PROVE  SafeInv'
  <2>1. \A u \in Tasks : Current(u)' = Current(u)
    BY <1>3 DEF Current
  <2>2. \A i \in DOMAIN events : Unrecorded(i)' = Unrecorded(i)
    BY <1>3 DEF Unrecorded
  <2>3. Locks' /\ LocalIds'
    BY <1>3, <2>1 DEF SafeInv, Locks, LocalIds
  <2>4. CorrelationsIndexLog'
    BY <1>3, <2>2 DEF SafeInv, CorrelationsIndexLog
  <2>5. NotStoredYet' /\ StoredOncePerTask'
    BY <1>3, <2>1 DEF SafeInv, NotStoredYet, StoredOncePerTask
  <2>6. QED
    BY <1>0, <2>3, <2>4, <2>5 DEF SafeInv
<1>4. ASSUME NEW y \in EventTypes, NEW h \in Handlers, Subscribe(y, h)
      PROVE  SafeInv'
  BY <1>3, <1>4 DEF Subscribe, taskVars
<1>5. ASSUME NEW t \in Tasks, FlushEmpty(t) PROVE SafeInv'
  <2>1. /\ UNCHANGED <<events, correlations, eventsLock, corrLock, eventId,
                       input, out>>
        /\ pc[t] = "flush" /\ pc'[t] = "idle"
        /\ \A u \in Tasks \ {t} : pc'[u] = pc[u]
    BY <1>5 DEF FlushEmpty, SafeInv, TypeInv, TypeOK, busVars
  <2>2. QED
    BY <1>0, <2>1, QuietStep
<1>6. ASSUME NEW t \in Tasks, DrainBatch(t) PROVE SafeInv'
  <2>1. /\ UNCHANGED <<events, correlations, eventsLock, corrLock, eventId, out>>
        /\ pc[t] = "flush" /\ pc'[t] = "check"
        /\ \A u \in Tasks \ {t} : pc'[u] = pc[u] /\ input'[u] = input[u]
    BY <1>6 DEF DrainBatch, SafeInv, TypeInv, TypeOK
  <2>2. QED
    BY <1>0, <2>1, QuietStep
<1>7. CASE Quiescent \/ UNCHANGED vars
  BY <1>3, <1>7 DEF Quiescent, vars, busVars, taskVars
<1>8. QED
  BY <1>0, <1>1, <1>2, <1>4, <1>5, <1>6, <1>7, CheckDuplicateSafe,
     LookupStoredSafe, StoreEventSafe, RecordCorrelationSafe, NotifySafe
  DEF Next, TaskStep

LEMMA SafeInvAlways == Spec => []SafeInv
BY SafeInvInit, SafeInvStep, PTL DEF Spec

\* seen_correlations never dangles and never lags behind the log.
THEOREM CorrelationsCorrect == Spec => []CorrelationsIndexLog
<1>1. SafeInv => CorrelationsIndexLog
  BY DEF SafeInv
<1>2. QED
  BY <1>1, SafeInvAlways, PTL

\* No task ever stores one correlation id twice.
THEOREM OncePerTask == Spec => []StoredOncePerTask
<1>1. SafeInv => StoredOncePerTask
  BY DEF SafeInv
<1>2. QED
  BY <1>1, SafeInvAlways, PTL

-----------------------------------------------------------------------------
(* Versions.                                                               *)

LEMMA VersionsStep == TypeInv /\ VersionsContiguous /\ [Next]_vars
                        => VersionsContiguous'
<1> SUFFICES ASSUME TypeInv, VersionsContiguous, [Next]_vars
             PROVE  VersionsContiguous'
  OBVIOUS
<1>1. CASE UNCHANGED events
  BY <1>1 DEF VersionsContiguous
<1>2. ASSUME NEW t \in Tasks, StoreEvent(t) PROVE VersionsContiguous'
  <2> DEFINE n == Len(events) + 1
             e == Current(t)
             SameStream(i) == {j \in 1 .. i : events'[j].stream = events'[i].stream}
  <2>1. /\ Len(events) \in Nat
        /\ DOMAIN events = 1 .. Len(events)
        /\ DOMAIN events' = 1 .. n
        /\ \A i \in 1 .. Len(events) : events'[i] = events[i]
        /\ events'[n].stream = e.stream
        /\ events'[n].version = NextVersion(e.stream)
    <3>1. /\ Len(events) \in Nat
          /\ DOMAIN events = 1 .. Len(events)
          /\ DOMAIN events' = 1 .. (Len(events) + 1)
          /\ \A i \in 1 .. Len(events) : events'[i] = events[i]
          /\ events'[Len(events) + 1] =
               [corr |-> Current(t).corr, stream |-> Current(t).stream,
                type |-> Current(t).type,
                version |-> NextVersion(Current(t).stream), by |-> t]
      BY <1>2, StoreEffect
    <3>2. QED
      BY <3>1
  <2>2. ASSUME NEW i \in 1 .. Len(events)
        PROVE  events'[i].version = Cardinality(SameStream(i))
    <3>1. SameStream(i) = {j \in 1 .. i : events[j].stream = events[i].stream}
      BY <2>1
    <3>2. QED
      BY <2>1, <3>1 DEF VersionsContiguous
  <2>3. events'[n].version = Cardinality(SameStream(n))
    <3> DEFINE earlier == {j \in DOMAIN events : events[j].stream = e.stream}
    <3>1. SameStream(n) = earlier \cup {n} /\ n \notin earlier
      BY <2>1
    <3>2. events \in Seq(StoredEvent)
      BY DEF TypeInv, TypeOK
    <3>3. IsFiniteSet(earlier)
      BY <3>2, CountInSeq
    <3>4. Cardinality(earlier \cup {n}) = Cardinality(earlier) + 1
      BY <3>1, <3>3, FS_AddElement
    <3>5. QED
      BY <2>1, <3>1, <3>4 DEF NextVersion
  <2>4. \A i \in DOMAIN events' : i = n \/ i \in 1 .. Len(events)
    BY <2>1
  <2> HIDE DEF n
  <2>5. ASSUME NEW i \in DOMAIN events'
        PROVE  events'[i].version = Cardinality(SameStream(i))
    BY <2>2, <2>3, <2>4
  <2>6. QED
    BY <2>5 DEF VersionsContiguous
<1>3. QED
  BY <1>1, <1>2
  DEF Next, vars, busVars, taskVars, TaskStep, Publish, PublishBatch,
      Subscribe, FlushEmpty, DrainBatch, CheckDuplicate, LookupStored,
      RecordCorrelation, Notify, Quiescent

\* Every stream is numbered 1, 2, 3, ... in the order of the log.
THEOREM VersionsCorrect == Spec => []VersionsContiguous
<1>1. Init => VersionsContiguous
  BY DEF Init, VersionsContiguous
<1>2. Spec => []TypeInv
  BY TypeInvInit, TypeInvStep, PTL DEF Spec
<1>3. QED
  BY <1>1, <1>2, VersionsStep, PTL DEF Spec

-----------------------------------------------------------------------------
(* Flushing.                                                               *)

\* A batch that is full has a task on its way to drain it.
THEOREM FullBatchCorrect == Spec => []FullBatchHasFlusher
<1>1. Init => FullBatchHasFlusher
  BY BatchSizeAssumption DEF Init, FullBatchHasFlusher
<1>2. TypeInv /\ FullBatchHasFlusher /\ [Next]_vars => FullBatchHasFlusher'
  <2> SUFFICES ASSUME TypeInv, FullBatchHasFlusher, [Next]_vars
               PROVE  FullBatchHasFlusher'
    OBVIOUS
  <2>1. ASSUME NEW t \in Tasks, NEW e \in Events, Publish(t, e)
        PROVE  FullBatchHasFlusher'
    <3>1. CASE Len(batch') >= BatchSize
      <4>1. pc' = [pc EXCEPT ![t] = "flush"]
        BY <2>1, <3>1 DEF Publish, ShouldFlush
      <4>2. pc'[t] = "flush"
        BY <4>1 DEF TypeInv, TypeOK
      <4>3. QED
        BY <4>2 DEF FullBatchHasFlusher
    <3>2. QED
      BY <3>1 DEF FullBatchHasFlusher
  <2>2. ASSUME NEW t \in Tasks, FlushEmpty(t) \/ DrainBatch(t)
        PROVE  FullBatchHasFlusher'
    <3>1. batch' = <<>>
      BY <2>2 DEF FlushEmpty, DrainBatch, busVars
    <3>2. QED
      BY <3>1, BatchSizeAssumption DEF FullBatchHasFlusher
  <2>3. ASSUME NEW t \in Tasks, pc[t] # "flush", UNCHANGED batch,
               \A u \in Tasks \ {t} : pc'[u] = pc[u]
        PROVE  FullBatchHasFlusher'
    BY <2>3 DEF FullBatchHasFlusher
  <2>4. ASSUME NEW t \in Tasks, NEW s \in Batches, PublishBatch(t, s)
        PROVE  FullBatchHasFlusher'
    BY <2>3, <2>4 DEF PublishBatch, busVars, TypeInv, TypeOK
  <2>5. ASSUME NEW t \in Tasks, CheckDuplicate(t) \/ LookupStored(t)
        PROVE  FullBatchHasFlusher'
    <3>1. pc[t] # "flush" /\ UNCHANGED batch
      BY <2>5 DEF CheckDuplicate, LookupStored, busVars
    <3>2. \A u \in Tasks \ {t} : pc'[u] = pc[u]
      BY <2>5
      DEF CheckDuplicate, LookupStored, ValidateContext, Answer, TypeInv,
          TypeOK
    <3>3. QED
      BY <2>3, <3>1, <3>2
  <2>6. ASSUME NEW t \in Tasks,
               StoreEvent(t) \/ RecordCorrelation(t) \/ Notify(t)
        PROVE  FullBatchHasFlusher'
    <3>1. pc[t] # "flush" /\ UNCHANGED batch
      BY <2>6 DEF StoreEvent, RecordCorrelation, Notify
    <3>2. \A u \in Tasks \ {t} : pc'[u] = pc[u]
      BY <2>6
      DEF StoreEvent, RecordCorrelation, Notify, Answer, TypeInv, TypeOK
    <3>3. QED
      BY <2>3, <3>1, <3>2
  <2>7. CASE UNCHANGED <<batch, pc>>
    BY <2>7 DEF FullBatchHasFlusher
  <2>8. QED
    BY <2>1, <2>2, <2>4, <2>5, <2>6, <2>7
    DEF Next, TaskStep, Subscribe, Quiescent, vars, busVars, taskVars
<1>3. Spec => []TypeInv
  BY TypeInvInit, TypeInvStep, PTL DEF Spec
<1>4. QED
  BY <1>1, <1>2, <1>3, PTL DEF Spec

-----------------------------------------------------------------------------
(* The bus implements the abstract store.                                  *)

\* The visible log as a sequence: its length and its entries.

Entry == [corr : Correlations, stream : Streams, version : Nat]

Recording == \E t \in Tasks : pc[t] = "record"

LogShape ==
  /\ RecordedLog \in Seq(Entry)
  /\ DOMAIN RecordedLog = 1 .. Len(RecordedLog)
  /\ Len(RecordedLog) = IF Recording THEN Len(events) - 1 ELSE Len(events)
  /\ \A i \in DOMAIN RecordedLog :
       RecordedLog[i] = [corr |-> events[i].corr,
                         stream |-> events[i].stream,
                         version |-> events[i].version]

LEMMA RecordedLogShape == SafeInv => LogShape
<1> SUFFICES ASSUME SafeInv PROVE LogShape
  OBVIOUS
<1> DEFINE n == IF Unrecorded(Len(events)) THEN Len(events) - 1 ELSE Len(events)
           view(i) == [corr |-> events[i].corr, stream |-> events[i].stream,
                       version |-> events[i].version]
<1>1. Len(events) \in Nat /\ DOMAIN events = 1 .. Len(events)
  BY LogDomain DEF SafeInv
<1>2. ~Recording => n = Len(events)
  BY DEF Recording, Unrecorded, SafeInv, TypeInv, TypeOK
<1>3. ASSUME Recording
      PROVE  n = Len(events) - 1 /\ n \in Nat
  <2>0. PICK t \in Tasks : pc[t] = "record"
    BY <1>3 DEF Recording
  <2>1. eventsLock = t /\ Len(events) # 0
    BY <2>0 DEF SafeInv, Locks, LocalIds
  <2>2. Unrecorded(Len(events))
    BY <2>0, <2>1, TasksAssumption DEF Unrecorded
  <2>3. QED
    BY <1>1, <2>1, <2>2
<1> HIDE DEF n
<1>4. n \in Nat /\ n <= Len(events)
  BY <1>1, <1>2, <1>3
<1>5. RecordedLog = [i \in 1 .. n |-> view(i)]
  BY DEF RecordedLog, n
<1>6. \A i \in 1 .. n : view(i) \in Entry
  <2>1. \A i \in 1 .. n : events[i] \in StoredEvent
    BY <1>1, <1>4 DEF SafeInv, TypeInv, TypeOK
  <2>2. QED
    BY <2>1 DEF StoredEvent, Entry
<1>7. /\ DOMAIN RecordedLog = 1 .. n
      /\ \A i \in 1 .. n : RecordedLog[i] = view(i)
  BY <1>5
<1>8. RecordedLog \in Seq(Entry)
  BY <1>4, <1>5, <1>6
<1>9. Len(RecordedLog) = n
  BY <1>4, <1>7, <1>8
<1>10. QED
  BY <1>2, <1>3, <1>7, <1>8, <1>9 DEF LogShape

\* A step that adds no visible entry and changes none leaves the log as it is.
LEMMA SameLog ==
  ASSUME LogShape, LogShape', Len(RecordedLog') = Len(RecordedLog),
         \A i \in DOMAIN RecordedLog : events'[i] = events[i]
  PROVE  RecordedLog' = RecordedLog
<1>1. \A i \in 1 .. Len(RecordedLog) : RecordedLog'[i] = RecordedLog[i]
  BY DEF LogShape
<1>2. RecordedLog \in Seq(Entry) /\ RecordedLog' \in Seq(Entry)
  BY DEF LogShape
<1>3. QED
  BY <1>1, <1>2, SeqEqual

\* RecordCorrelation is the step at which the event becomes visible.
LEMMA RecordIsStore ==
  ASSUME SafeInv, VersionsContiguous, LogShape, LogShape',
         NEW t \in Tasks, RecordCorrelation(t)
  PROVE  Store!Next
<1> DEFINE c == Current(t).corr
           n == Len(events)
           s == events[n].stream
           entry == [corr |-> c, stream |-> s, version |-> events[n].version]
           earlier == {i \in 1 .. (n - 1) : events[i].stream = s}
<1>1. /\ pc[t] = "record" /\ pc[t] \in Running
      /\ events' = events
      /\ pc' = [pc EXCEPT ![t] = "notify"]
      /\ correlations' = [correlations EXCEPT ![c] = eventId[t]]
  BY DEF RecordCorrelation, Running
<1>2. /\ c \in Correlations /\ pc \in [Tasks -> Locations]
      /\ n \in Nat /\ DOMAIN events = 1 .. n
  BY <1>1, CurrentType, LogDomain DEF SafeInv, TypeInv, TypeOK
<1>3. /\ eventId[t] = n /\ n # 0
      /\ events[n].corr = c /\ events[n].by = t
      /\ correlations[c] # n
      /\ eventsLock = t
  BY <1>1 DEF SafeInv, LocalIds, Locks
<1>4. events[n] \in StoredEvent
  BY <1>2, <1>3 DEF SafeInv, TypeInv, TypeOK
<1>5. s \in Streams /\ entry \in Entry
  BY <1>2, <1>4 DEF StoredEvent, Entry
<1>6. Recording /\ ~Recording'
  BY <1>1, <1>2, <1>3 DEF Recording, SafeInv, Locks
<1>7. /\ Len(RecordedLog) = n - 1 /\ DOMAIN RecordedLog = 1 .. (n - 1)
      /\ Len(RecordedLog') = n /\ DOMAIN RecordedLog' = 1 .. n
      /\ RecordedLog \in Seq(Entry) /\ RecordedLog' \in Seq(Entry)
  BY <1>1, <1>6 DEF LogShape
<1> HIDE DEF n
<1>8. RecordedLog' = Append(RecordedLog, entry)
  <2> HIDE DEF entry
  <2>1. /\ Append(RecordedLog, entry) \in Seq(Entry)
        /\ Len(Append(RecordedLog, entry)) = n
        /\ \A i \in 1 .. (n - 1) : Append(RecordedLog, entry)[i] = RecordedLog[i]
        /\ Append(RecordedLog, entry)[n] = entry
    BY <1>2, <1>3, <1>5, <1>7, AppendProperties
  <2>2. \A i \in 1 .. (n - 1) : RecordedLog'[i] = RecordedLog[i]
    <3>1. \A i \in 1 .. n : RecordedLog'[i] = [corr |-> events[i].corr,
                                              stream |-> events[i].stream,
                                              version |-> events[i].version]
      BY <1>1, <1>7 DEF LogShape
    <3>2. \A i \in 1 .. (n - 1) : RecordedLog[i] = [corr |-> events[i].corr,
                                                   stream |-> events[i].stream,
                                                   version |-> events[i].version]
      BY <1>7 DEF LogShape
    <3>3. \A i \in 1 .. (n - 1) : i \in 1 .. n
      BY <1>2
    <3>4. QED
      BY <3>1, <3>2, <3>3
  <2>3. RecordedLog'[n] = entry
    <3>1. n \in 1 .. n
      BY <1>2, <1>3
    <3>2. RecordedLog'[n] = [corr |-> events[n].corr,
                             stream |-> events[n].stream,
                             version |-> events[n].version]
      BY <1>1, <1>7, <3>1 DEF LogShape
    <3>3. QED
      BY <1>3, <3>2 DEF entry
  <2>4. \A i \in 1 .. n : RecordedLog'[i] = Append(RecordedLog, entry)[i]
    BY <1>2, <2>1, <2>2, <2>3
  <2>5. QED
    BY <1>7, <2>1, <2>4, SeqEqual
<1>9. events[n].version = Store!VersionIn(s)
  <2>1. {i \in DOMAIN RecordedLog : RecordedLog[i].stream = s} = earlier
    <3>1. ASSUME NEW i \in 1 .. (n - 1)
          PROVE  RecordedLog[i].stream = events[i].stream
      <4>1. RecordedLog[i] = [corr |-> events[i].corr,
                              stream |-> events[i].stream,
                              version |-> events[i].version]
        BY <1>7 DEF LogShape
      <4>2. QED
        BY <4>1
    <3>2. QED
      BY <1>7, <3>1
  <2>2. {j \in 1 .. n : events[j].stream = events[n].stream} = earlier \cup {n}
    BY <1>2, <1>3
  <2>3. IsFiniteSet(earlier) /\ n \notin earlier
    <3>1. n - 1 \in Int /\ 1 \in Int
      BY <1>2
    <3>2. IsFiniteSet(1 .. (n - 1))
      BY <3>1, FS_Interval
    <3>3. earlier \in SUBSET (1 .. (n - 1)) /\ n \notin earlier
      BY <1>2
    <3>4. QED
      BY <3>2, <3>3, FS_Subset
  <2>4. Cardinality(earlier \cup {n}) = Cardinality(earlier) + 1
    BY <2>3, FS_AddElement
  <2>5. n \in DOMAIN events
    BY <1>2, <1>3
  <2>6. events[n].version = Cardinality({j \in 1 .. n : events[j].stream = events[n].stream})
    BY <2>5 DEF VersionsContiguous
  <2>7. events[n].version = Cardinality(earlier) + 1
    BY <2>2, <2>4, <2>6
  <2>8. Store!VersionIn(s) = Cardinality(earlier) + 1
    <3> HIDE DEF earlier, s
    <3>1. Store!VersionIn(s) =
            Cardinality({i \in DOMAIN RecordedLog : RecordedLog[i].stream = s}) + 1
      BY DEF Store!VersionIn, Store!Cardinality, Cardinality
    <3>2. QED
      BY <2>1, <3>1
  <2>9. QED
    BY <2>7, <2>8
<1>10. OneCaller => correlations[c] = 0
  <2>1. SUFFICES ASSUME OneCaller, correlations[c] # 0 PROVE FALSE
    OBVIOUS
  <2>2. /\ correlations[c] \in DOMAIN events
        /\ events[correlations[c]].corr = c
    BY <1>2, <2>1 DEF SafeInv, CorrelationsIndexLog
  <2>3. events[correlations[c]].by \in Tasks
    <3>1. events \in Seq(StoredEvent)
      BY DEF SafeInv, TypeInv, TypeOK
    <3>2. events[correlations[c]] \in StoredEvent
      BY <1>2, <2>2, <3>1, ElementOfSeq DEF n
    <3>3. QED
      BY <3>2 DEF StoredEvent
  <2>4. events[correlations[c]].by = t
    BY <2>1, <2>3 DEF OneCaller
  <2>5. n \in DOMAIN events
    BY <1>2, <1>3
  <2>6. QED
    BY <1>3, <2>2, <2>4, <2>5 DEF SafeInv, StoredOncePerTask
<1>11. correlations' = [correlations EXCEPT ![c] = Len(RecordedLog) + 1]
  <2>1. Len(RecordedLog) + 1 = eventId[t]
    BY <1>2, <1>3, <1>7
  <2>2. QED
    BY <1>1, <2>1
<1>12. Store!Store(c, s)
  BY <1>8, <1>9, <1>10, <1>11 DEF Store!Store
<1>13. QED
  BY <1>2, <1>5, <1>12 DEF Store!Next

LEMMA RefinementStep ==
  SafeInv /\ SafeInv' /\ VersionsContiguous /\ LogShape /\ LogShape'
    /\ [Next]_vars => [Store!Next]_<<RecordedLog, correlations>>
<1> SUFFICES ASSUME SafeInv, SafeInv', VersionsContiguous, LogShape,
                    LogShape', [Next]_vars
             PROVE  Store!Next \/ UNCHANGED <<RecordedLog, correlations>>
  OBVIOUS
<1>1. ASSUME NEW t \in Tasks, RecordCorrelation(t) PROVE Store!Next
  BY <1>1, RecordIsStore
<1>2. ASSUME NEW t \in Tasks, StoreEvent(t)
      PROVE  UNCHANGED <<RecordedLog, correlations>>
  <2>1. /\ Len(events) \in Nat /\ Len(events') = Len(events) + 1
        /\ \A i \in 1 .. Len(events) : events'[i] = events[i]
    BY <1>2, StoreEffect DEF SafeInv
  <2>2. Recording'
    BY <1>2 DEF StoreEvent, Recording, SafeInv, TypeInv, TypeOK
  <2>3. ~Recording
    BY <1>2, TasksAssumption DEF StoreEvent, Recording, SafeInv, Locks
  <2>4. RecordedLog' = RecordedLog
    BY <2>1, <2>2, <2>3, SameLog DEF LogShape
  <2>5. QED
    BY <1>2, <2>4 DEF StoreEvent
<1>3. ASSUME UNCHANGED <<events, correlations>>, Recording' <=> Recording
      PROVE  UNCHANGED <<RecordedLog, correlations>>
  BY <1>3, SameLog DEF LogShape
<1>4. ASSUME NEW t \in Tasks, NEW e \in Events, Publish(t, e)
      PROVE  UNCHANGED <<RecordedLog, correlations>>
  <2>1. pc \in [Tasks -> Locations]
    BY DEF SafeInv, TypeInv, TypeOK
  <2>2. /\ pc[t] = "idle"
        /\ \E l \in {"flush", "check"} : pc' = [pc EXCEPT ![t] = l]
        /\ UNCHANGED <<events, correlations, eventsLock>>
    BY <1>4 DEF Publish
  <2>3. pc'[t] # "record" /\ \A u \in Tasks \ {t} : pc'[u] = pc[u]
    BY <2>1, <2>2
  <2>4. QED
    BY <1>3, <2>2, <2>3 DEF Recording
<1>5. ASSUME NEW t \in Tasks, NEW s \in Batches, PublishBatch(t, s)
      PROVE  UNCHANGED <<RecordedLog, correlations>>
  BY <1>3, <1>5
  DEF PublishBatch, Recording, SafeInv, TypeInv, TypeOK, busVars
<1>6. ASSUME NEW t \in Tasks,
             FlushEmpty(t) \/ DrainBatch(t) \/ CheckDuplicate(t)
               \/ LookupStored(t) \/ Notify(t)
      PROVE  UNCHANGED <<RecordedLog, correlations>>
  <2>0. pc \in [Tasks -> Locations]
    BY DEF SafeInv, TypeInv, TypeOK
  <2>1. UNCHANGED <<events, correlations>>
    BY <1>6
    DEF FlushEmpty, DrainBatch, CheckDuplicate, LookupStored, Notify, busVars
  <2>2. pc[t] # "record"
    BY <1>6
    DEF FlushEmpty, DrainBatch, CheckDuplicate, LookupStored, Notify
  <2>3. \E l \in {pc[t], "idle", "check", "lookup", "store"} :
          pc' = [pc EXCEPT ![t] = l]
    <3>1. CASE FlushEmpty(t) \/ DrainBatch(t)
      BY <2>0, <3>1 DEF FlushEmpty, DrainBatch
    <3>2. CASE CheckDuplicate(t)
      BY <2>0, <3>2 DEF CheckDuplicate, ValidateContext
    <3>3. CASE LookupStored(t)
      BY <2>0, <3>3 DEF LookupStored, ValidateContext, Answer
    <3>4. CASE Notify(t)
      BY <2>0, <3>4 DEF Notify, Answer
    <3>5. QED
      BY <1>6, <3>1, <3>2, <3>3, <3>4
  <2>4. pc'[t] # "record" /\ \A u \in Tasks \ {t} : pc'[u] = pc[u]
    BY <2>0, <2>2, <2>3
  <2>5. QED
    BY <1>3, <2>1, <2>2, <2>4 DEF Recording
<1>7. CASE UNCHANGED <<events, correlations, pc>>
  BY <1>3, <1>7 DEF Recording
<1>8. QED
  BY <1>1, <1>2, <1>4, <1>5, <1>6, <1>7
  DEF Next, TaskStep, Subscribe, Quiescent, vars, busVars, taskVars

\* The bus implements an append-only store, one atomic step per event; with a
\* single caller that store is idempotent.
THEOREM BusImplementsStore == Spec => StoreSpec
<1>1. Init => Store!Init
  <2> SUFFICES ASSUME Init PROVE Store!Init
    OBVIOUS
  <2>1. LogShape
    BY SafeInvInit, RecordedLogShape
  <2>2. ~Recording /\ Len(events) = 0
    BY DEF Init, Recording
  <2>3. RecordedLog \in Seq(Entry) /\ Len(RecordedLog) = 0
    BY <2>1, <2>2 DEF LogShape
  <2>4. RecordedLog = <<>>
    BY <2>3, EmptySeq
  <2>5. QED
    BY <2>4 DEF Init, Store!Init
<1>2. Spec => []SafeInv
  BY SafeInvAlways
<1>3. Spec => []VersionsContiguous
  BY VersionsCorrect
<1>4. Spec => []LogShape
  BY <1>2, RecordedLogShape, PTL
<1>5. QED
  BY <1>1, <1>2, <1>3, <1>4, RefinementStep, PTL DEF Spec, StoreSpec, Store!Spec

-----------------------------------------------------------------------------
(* Responses.                                                              *)

\* The log only grows, and a recorded correlation stays recorded.
LEMMA LogGrows ==
  ASSUME SafeInv, [Next]_vars
  PROVE  /\ \A i \in DOMAIN events : i \in DOMAIN events' /\ events'[i] = events[i]
         /\ \A c \in Correlations : correlations[c] # 0 => correlations'[c] # 0
<1>1. CASE UNCHANGED <<events, correlations>>
  BY <1>1
<1>2. ASSUME NEW t \in Tasks, StoreEvent(t)
      PROVE  /\ \A i \in DOMAIN events :
                  i \in DOMAIN events' /\ events'[i] = events[i]
             /\ UNCHANGED correlations
  <2>1. UNCHANGED correlations
    BY <1>2 DEF StoreEvent
  <2>2. TypeInv
    BY DEF SafeInv
  <2>3. /\ Len(events) \in Nat
        /\ DOMAIN events = 1 .. Len(events)
        /\ DOMAIN events' = 1 .. (Len(events) + 1)
        /\ \A i \in 1 .. Len(events) : events'[i] = events[i]
    BY <1>2, <2>2, StoreEffect
  <2>4. \A i \in DOMAIN events : i \in DOMAIN events' /\ events'[i] = events[i]
    BY <2>3
  <2>5. QED
    BY <2>1, <2>4
<1>3. ASSUME NEW t \in Tasks, RecordCorrelation(t)
      PROVE  /\ UNCHANGED events
             /\ \A c \in Correlations :
                  correlations[c] # 0 => correlations'[c] # 0
  BY <1>3 DEF RecordCorrelation, SafeInv, TypeInv, TypeOK, LocalIds
<1>4. QED
  BY <1>1, <1>2, <1>3
  DEF Next, vars, busVars, taskVars, TaskStep, Publish, PublishBatch,
      Subscribe, FlushEmpty, DrainBatch, CheckDuplicate, LookupStored, Notify,
      Quiescent

\* What AnswersMatchInput says of one task.
Outcome(t) ==
  /\ \A k \in DOMAIN out[t] :
       /\ out[t][k] \in DOMAIN events
       /\ events[out[t][k]].corr = input[t][k].corr
       /\ correlations[input[t][k].corr] # 0
  /\ pc[t] = "idle" /\ result[t] = "ok" => Len(out[t]) = Len(input[t])
  /\ pc[t] = "idle" /\ result[t] = "err" =>
       Len(out[t]) < Len(input[t]) /\ ~Current(t).valid

LEMMA OutcomeParts ==
  TypeInv => (AnswersMatchInput <=> \A t \in Tasks : Outcome(t))
BY DEF TypeInv, WorkLeft, AnswersMatchInput, Outcome

\* Responses collected so far name events of this call.
LEMMA OutInInput ==
  ASSUME TypeInv, NEW t \in Tasks, NEW k \in DOMAIN out[t]
  PROVE  input[t][k].corr \in Correlations
<1>1. /\ input[t] \in Seq(Events) /\ out[t] \in Seq(Nat)
      /\ Len(out[t]) <= Len(input[t])
  BY DEF TypeInv, TypeOK, WorkLeft
<1>2. k \in 1 .. Len(input[t])
  BY <1>1
<1>3. input[t][k] \in Events
  BY <1>1, <1>2
<1>4. QED
  BY <1>3, EventsAssumption DEF Event

\* A task that does not move keeps its outcome.
LEMMA OutcomeFrame ==
  ASSUME SafeInv, [Next]_vars, NEW t \in Tasks, Outcome(t),
         input'[t] = input[t], out'[t] = out[t],
         \/ pc'[t] = pc[t] /\ result'[t] = result[t]
         \/ pc'[t] # "idle"
         \/ result'[t] \in {"none", "panic"}
  PROVE  Outcome(t)'
<1>1. \A k \in DOMAIN out[t] : input[t][k].corr \in Correlations
  BY OutInInput DEF SafeInv
<1>2. Current(t)' = Current(t)
  BY DEF Current
<1>3. QED
  BY <1>1, <1>2, LogGrows DEF Outcome

\* Answering the current event with an event of its correlation.
LEMMA OutcomeAnswer ==
  ASSUME SafeInv, [Next]_vars, NEW t \in Tasks, Outcome(t), pc[t] \in Running,
         NEW id \in DOMAIN events, events[id].corr = Current(t).corr,
         correlations[Current(t).corr] # 0,
         Answer(t, id), UNCHANGED input
  PROVE  Outcome(t)'
<1> DEFINE n == Len(out[t])
<1>0. /\ input \in [Tasks -> Seq(Events)] /\ out \in [Tasks -> Seq(Nat)]
      /\ pc \in [Tasks -> Locations] /\ result \in [Tasks -> Outcomes]
  BY DEF SafeInv, TypeInv, TypeOK
<1>1. /\ input[t] \in Seq(Events) /\ out[t] \in Seq(Nat)
      /\ n \in Nat /\ n < Len(input[t])
      /\ pc \in [Tasks -> Locations] /\ result \in [Tasks -> Outcomes]
      /\ out \in [Tasks -> Seq(Nat)] /\ id \in Nat
  <2>1. input[t] \in Seq(Events) /\ out[t] \in Seq(Nat)
    BY <1>0
  <2>2. n \in Nat
    BY <2>1
  <2>3. n < Len(input[t])
    BY DEF SafeInv, TypeInv, WorkLeft
  <2>4. id \in Nat
    BY LogDomain DEF SafeInv
  <2>5. QED
    BY <1>0, <2>1, <2>2, <2>3, <2>4
<1>2. out'[t] = Append(out[t], id)
  BY <1>1 DEF Answer
<1>3. /\ DOMAIN out'[t] = 1 .. (n + 1) /\ DOMAIN out[t] = 1 .. n
      /\ Len(out'[t]) = n + 1
      /\ \A k \in 1 .. n : out'[t][k] = out[t][k]
      /\ out'[t][n + 1] = id
  BY <1>1, <1>2, AppendProperties
<1>4. ASSUME NEW k \in 1 .. n
      PROVE  /\ out'[t][k] \in DOMAIN events'
             /\ events'[out'[t][k]].corr = input'[t][k].corr
             /\ correlations'[input'[t][k].corr] # 0
  <2>1. input[t][k].corr \in Correlations
    BY <1>3, OutInInput DEF SafeInv
  <2>2. /\ out[t][k] \in DOMAIN events
        /\ events[out[t][k]].corr = input[t][k].corr
        /\ correlations[input[t][k].corr] # 0
    BY <1>3 DEF Outcome
  <2>3. QED
    BY <1>3, <2>1, <2>2, LogGrows
<1>5. /\ id \in DOMAIN events'
      /\ events'[id].corr = input'[t][n + 1].corr
      /\ correlations'[input'[t][n + 1].corr] # 0
  <2>1. Current(t).corr \in Correlations
    BY CurrentType DEF SafeInv
  <2>2. QED
    BY <2>1, LogGrows DEF Current
<1>6. \A k \in 1 .. (n + 1) : k \in 1 .. n \/ k = n + 1
  BY <1>1
<1> HIDE DEF n
<1>7. \A k \in DOMAIN out'[t] :
        /\ out'[t][k] \in DOMAIN events'
        /\ events'[out'[t][k]].corr = input'[t][k].corr
        /\ correlations'[input'[t][k].corr] # 0
  BY <1>3, <1>4, <1>5, <1>6
<1>8. pc'[t] = "idle" => result'[t] = "ok" /\ n + 1 = Len(input[t])
  BY <1>1 DEF Answer, n
<1>9. QED
  BY <1>3, <1>7, <1>8 DEF Outcome

\* A call that fails fails at an event whose context is invalid.
LEMMA OutcomeValidate ==
  ASSUME SafeInv, [Next]_vars, NEW t \in Tasks, Outcome(t), pc[t] \in Running,
         ValidateContext(t), UNCHANGED <<input, out>>
  PROVE  Outcome(t)'
<1>1. \A k \in DOMAIN out[t] : input[t][k].corr \in Correlations
  BY OutInInput DEF SafeInv
<1>2. Current(t)' = Current(t)
  BY DEF Current
<1>3. pc'[t] = "idle" =>
        result'[t] = "err" /\ ~Current(t).valid /\ Len(out[t]) < Len(input[t])
  BY DEF ValidateContext, SafeInv, TypeInv, TypeOK, WorkLeft
<1>4. QED
  BY <1>1, <1>2, <1>3, LogGrows DEF Outcome

\* The call of the task that moves.
LEMMA OutcomeMover ==
  ASSUME SafeInv, [Next]_vars, NEW t \in Tasks, Outcome(t),
         \/ \E e \in Events : Publish(t, e)
         \/ \E s \in Batches : PublishBatch(t, s)
         \/ TaskStep(t)
  PROVE  Outcome(t)'
<1>0. /\ pc \in [Tasks -> Locations] /\ result \in [Tasks -> Outcomes]
      /\ out \in [Tasks -> Seq(Nat)] /\ input \in [Tasks -> Seq(Events)]
  BY DEF SafeInv, TypeInv, TypeOK
<1>1. ASSUME NEW e \in Events, Publish(t, e)
      PROVE  Outcome(t)'
  <2>1. out'[t] = <<>> /\ pc'[t] # "idle"
    BY <1>0, <1>1 DEF Publish
  <2>2. QED
    BY <2>1 DEF Outcome
<1>2. ASSUME NEW s \in Batches, PublishBatch(t, s)
      PROVE  Outcome(t)'
  <2>1. out'[t] = <<>> /\ input'[t] = s
    BY <1>0, <1>2 DEF PublishBatch
  <2>2. pc'[t] = "idle" => s = <<>> /\ result'[t] = "ok"
    BY <1>0, <1>2 DEF PublishBatch
  <2>3. QED
    BY <2>1, <2>2 DEF Outcome
<1>3. CASE FlushEmpty(t)
  BY <1>0, <1>3, OutcomeFrame DEF FlushEmpty
<1>4. CASE DrainBatch(t)
  <2>1. out'[t] = <<>> /\ pc'[t] # "idle"
    BY <1>0, <1>4 DEF DrainBatch, SafeInv, TypeInv, WorkLeft
  <2>2. QED
    BY <2>1 DEF Outcome
<1>5. CASE CheckDuplicate(t)
  <2>1. pc[t] \in Running /\ UNCHANGED <<input, out>>
    BY <1>5 DEF CheckDuplicate, Running
  <2>2. \/ ValidateContext(t)
        \/ pc'[t] # "idle"
    BY <1>0, <1>5 DEF CheckDuplicate
  <2>3. QED
    BY <2>1, <2>2, OutcomeFrame, OutcomeValidate
<1>6. CASE LookupStored(t)
  <2>1. /\ pc[t] \in Running /\ eventId[t] \in DOMAIN events
        /\ events[eventId[t]].corr = Current(t).corr
        /\ correlations[Current(t).corr] # 0
    BY <1>6 DEF LookupStored, Running, SafeInv, LocalIds
  <2>2. Answer(t, eventId[t]) /\ UNCHANGED input
    BY <1>6, <2>1 DEF LookupStored
  <2>3. QED
    BY <2>1, <2>2, OutcomeAnswer
<1>7. CASE StoreEvent(t)
  BY <1>0, <1>7, OutcomeFrame DEF StoreEvent
<1>8. CASE RecordCorrelation(t)
  BY <1>0, <1>8, OutcomeFrame DEF RecordCorrelation
<1>9. CASE Notify(t)
  <2>1. /\ pc[t] \in Running /\ eventId[t] = Len(events) /\ eventId[t] # 0
        /\ events[eventId[t]].corr = Current(t).corr
        /\ correlations[Current(t).corr] = eventId[t]
    BY <1>9 DEF Notify, Running, SafeInv, LocalIds
  <2>2. eventId[t] \in DOMAIN events
    <3>1. Len(events) \in Nat /\ DOMAIN events = 1 .. Len(events)
      BY LogDomain DEF SafeInv
    <3>2. QED
      BY <2>1, <3>1
  <2>3. Answer(t, eventId[t]) /\ UNCHANGED input
    BY <1>9 DEF Notify
  <2>4. QED
    BY <2>1, <2>2, <2>3, OutcomeAnswer
<1>10. QED
  BY <1>1, <1>2, <1>3, <1>4, <1>5, <1>6, <1>7, <1>8, <1>9 DEF TaskStep

\* The calls of the others.
LEMMA OutcomeOthers ==
  ASSUME SafeInv, [Next]_vars, NEW t \in Tasks, Outcome(t),
         ~ \E e \in Events : Publish(t, e),
         ~ \E s \in Batches : PublishBatch(t, s),
         ~ TaskStep(t)
  PROVE  Outcome(t)'
<1>0. /\ pc \in [Tasks -> Locations] /\ result \in [Tasks -> Outcomes]
      /\ out \in [Tasks -> Seq(Nat)] /\ input \in [Tasks -> Seq(Events)]
  BY DEF SafeInv, TypeInv, TypeOK
<1>1. ASSUME NEW u \in Tasks, u # t, NEW e \in Events, Publish(u, e)
      PROVE  UNCHANGED <<input[t], out[t], pc[t], result[t]>>
  BY <1>0, <1>1 DEF Publish
<1>2. ASSUME NEW u \in Tasks, u # t, NEW s \in Batches, PublishBatch(u, s)
      PROVE  UNCHANGED <<input[t], out[t], pc[t], result[t]>>
  BY <1>0, <1>2 DEF PublishBatch
<1>3. ASSUME NEW u \in Tasks, u # t, TaskStep(u)
      PROVE  UNCHANGED <<input[t], out[t], pc[t], result[t]>>
  BY <1>0, <1>3
  DEF TaskStep, FlushEmpty, DrainBatch, CheckDuplicate, LookupStored,
      StoreEvent, RecordCorrelation, Notify, Answer, ValidateContext
<1>4. CASE UNCHANGED taskVars
  BY <1>4, OutcomeFrame DEF taskVars
<1>5. \/ UNCHANGED taskVars
      \/ \E u \in Tasks : u # t /\ \/ \E e \in Events : Publish(u, e)
                                   \/ \E s \in Batches : PublishBatch(u, s)
                                   \/ TaskStep(u)
  BY DEF Next, vars, Subscribe, Quiescent
<1>6. QED
  BY <1>1, <1>2, <1>3, <1>4, <1>5, OutcomeFrame

LEMMA OutcomeStep ==
  SafeInv /\ AnswersMatchInput /\ [Next]_vars => AnswersMatchInput'
<1> SUFFICES ASSUME SafeInv, AnswersMatchInput, [Next]_vars
             PROVE  AnswersMatchInput'
  OBVIOUS
<1>1. TypeInv /\ TypeInv'
  BY TypeInvStep DEF SafeInv
<1>2. \A t \in Tasks : Outcome(t)
  BY <1>1, OutcomeParts
<1>3. \A t \in Tasks : Outcome(t)'
  BY <1>2, OutcomeMover, OutcomeOthers
<1>4. (TypeInv => (AnswersMatchInput <=> \A t \in Tasks : Outcome(t)))'
  BY OutcomeParts, PTL
<1>5. QED
  BY <1>1, <1>3, <1>4

\* Whose answer it is: what a publish that has not been overtaken finds last
\* in the batch, and then last among its own events, is the event it pushed.
OwnLast ==
  \A t \in Tasks :
    /\ pc[t] = "flush" => own[t] # NoEvent
    /\ own[t] # NoEvent /\ t \notin overtaken =>
         IF pc[t] = "flush"
           THEN batch # <<>> /\ batch[Len(batch)] = own[t]
           ELSE /\ input[t] # <<>> /\ input[t][Len(input[t])] = own[t]
                /\ pc[t] = "idle" => result[t] # "panic"

LEMMA OwnLastStep ==
  ASSUME TypeInv, TypeInv', OwnLast, [Next]_vars
  PROVE  OwnLast'
<1>0. /\ pc \in [Tasks -> Locations] /\ result \in [Tasks -> Outcomes]
      /\ own \in [Tasks -> Events \cup {NoEvent}]
      /\ input \in [Tasks -> Seq(Events)] /\ batch \in Seq(Events)
      /\ NoEvent \notin Events
  BY EventsAssumption DEF TypeInv, TypeOK
<1>1. ASSUME NEW t \in Tasks, NEW e \in Events, Publish(t, e) PROVE OwnLast'
  <2>1. /\ batch' = Append(batch, e) /\ own' = [own EXCEPT ![t] = e]
        /\ overtaken' = (overtaken \ {t}) \cup Flushing(t)
        /\ UNCHANGED result
    BY <1>1 DEF Publish
  <2>2. /\ pc'[t] # "idle"
        /\ pc'[t] # "flush" => input'[t] = <<e>>
        /\ \A u \in Tasks \ {t} : pc'[u] = pc[u] /\ input'[u] = input[u]
    <3>1. CASE ShouldFlush(batch')
      <4>1. /\ pc' = [pc EXCEPT ![t] = "flush"]
            /\ input' = [input EXCEPT ![t] = <<>>]
        BY <1>1, <3>1 DEF Publish
      <4>2. QED
        BY <1>0, <4>1
    <3>2. CASE ~ShouldFlush(batch')
      <4>1. /\ pc' = [pc EXCEPT ![t] = "check"]
            /\ input' = [input EXCEPT ![t] = <<e>>]
        BY <1>1, <3>2 DEF Publish
      <4>2. QED
        BY <1>0, <4>1
    <3>3. QED
      BY <3>1, <3>2
  <2>3. batch' # <<>> /\ batch'[Len(batch')] = e
    <3>1. /\ Len(batch') = Len(batch) + 1 /\ Len(batch) \in Nat
          /\ batch'[Len(batch) + 1] = e
      BY <1>0, <2>1, AppendProperties
    <3>2. Len(batch') # 0
      BY <3>1
    <3>3. QED
      BY <3>1, <3>2
  <2>4. <<e>> # <<>> /\ <<e>>[Len(<<e>>)] = e
    OBVIOUS
  <2>5. own'[t] = e /\ \A u \in Tasks \ {t} : own'[u] = own[u]
    BY <1>0, <2>1
  <2>6. \A u \in Tasks \ {t} :
          u \notin overtaken' => pc[u] # "flush" /\ u \notin overtaken
    BY <2>1 DEF Flushing
  <2>7. ASSUME NEW u \in Tasks \ {t}
        PROVE  /\ pc'[u] = "flush" => own'[u] # NoEvent
               /\ own'[u] # NoEvent /\ u \notin overtaken' =>
                    /\ pc'[u] # "flush"
                    /\ input'[u] # <<>> /\ input'[u][Len(input'[u])] = own'[u]
                    /\ pc'[u] = "idle" => result'[u] # "panic"
    BY <2>1, <2>2, <2>5, <2>6 DEF OwnLast
  <2>8. /\ own'[t] # NoEvent
        /\ IF pc'[t] = "flush"
             THEN batch' # <<>> /\ batch'[Len(batch')] = own'[t]
             ELSE /\ input'[t] # <<>> /\ input'[t][Len(input'[t])] = own'[t]
                  /\ pc'[t] = "idle" => result'[t] # "panic"
    <3>1. own'[t] # NoEvent
      BY <1>0, <2>5
    <3>2. pc'[t] # "flush" =>
            input'[t] # <<>> /\ input'[t][Len(input'[t])] = own'[t]
      BY <2>2, <2>4, <2>5
    <3>3. QED
      BY <2>2, <2>3, <2>5, <3>1, <3>2
  <2>9. QED
    BY <2>7, <2>8 DEF OwnLast
<1>2. ASSUME NEW t \in Tasks, NEW b \in Batches, PublishBatch(t, b)
      PROVE  OwnLast'
  <2>1. /\ overtaken' = overtaken \ {t} /\ UNCHANGED batch
        /\ own'[t] = NoEvent /\ pc'[t] # "flush"
    BY <1>0, <1>2 DEF PublishBatch, busVars
  <2>2. \A u \in Tasks \ {t} : /\ pc'[u] = pc[u] /\ input'[u] = input[u]
                               /\ own'[u] = own[u] /\ result'[u] = result[u]
    BY <1>0, <1>2 DEF PublishBatch
  <2>3. QED
    BY <2>1, <2>2 DEF OwnLast
<1>3. ASSUME NEW t \in Tasks, FlushEmpty(t) PROVE OwnLast'
  <2>1. /\ UNCHANGED <<batch, own, input, overtaken>>
        /\ pc[t] = "flush" /\ batch = <<>> /\ pc'[t] # "flush"
    BY <1>0, <1>3 DEF FlushEmpty, busVars, history
  <2>2. \A u \in Tasks \ {t} : pc'[u] = pc[u] /\ result'[u] = result[u]
    BY <1>0, <1>3 DEF FlushEmpty
  <2>3. own[t] # NoEvent => t \in overtaken
    BY <2>1 DEF OwnLast
  <2>4. QED
    BY <2>1, <2>2, <2>3 DEF OwnLast
<1>4. ASSUME NEW t \in Tasks, DrainBatch(t) PROVE OwnLast'
  <2>1. /\ overtaken' = overtaken \cup Flushing(t)
        /\ UNCHANGED <<own, result>>
        /\ pc[t] = "flush" /\ pc'[t] = "check" /\ input'[t] = batch
        /\ \A u \in Tasks \ {t} : pc'[u] = pc[u] /\ input'[u] = input[u]
    BY <1>0, <1>4 DEF DrainBatch
  <2>2. \A u \in Tasks \ {t} :
          u \notin overtaken' => pc[u] # "flush" /\ u \notin overtaken
    BY <2>1 DEF Flushing
  <2>3. t \notin overtaken' => t \notin overtaken
    BY <2>1
  <2>4. ASSUME NEW u \in Tasks \ {t}
        PROVE  /\ pc'[u] = "flush" => own'[u] # NoEvent
               /\ own'[u] # NoEvent /\ u \notin overtaken' =>
                    /\ pc'[u] # "flush"
                    /\ input'[u] # <<>> /\ input'[u][Len(input'[u])] = own'[u]
                    /\ pc'[u] = "idle" => result'[u] # "panic"
    BY <2>1, <2>2 DEF OwnLast
  <2>5. /\ pc'[t] # "flush" /\ pc'[t] # "idle"
        /\ own'[t] # NoEvent /\ t \notin overtaken' =>
             input'[t] # <<>> /\ input'[t][Len(input'[t])] = own'[t]
    BY <2>1, <2>3 DEF OwnLast
  <2>6. QED
    BY <2>4, <2>5 DEF OwnLast
<1>5. ASSUME NEW t \in Tasks, pc[t] # "flush", pc[t] # "idle", pc'[t] # "flush",
             UNCHANGED <<batch, own, input, overtaken>>,
             pc'[t] = "idle" => result'[t] # "panic",
             \A u \in Tasks \ {t} : pc'[u] = pc[u] /\ result'[u] = result[u]
      PROVE  OwnLast'
  BY <1>5 DEF OwnLast
<1>6. ASSUME NEW t \in Tasks, CheckDuplicate(t) \/ LookupStored(t)
      PROVE  OwnLast'
  BY <1>0, <1>5, <1>6
  DEF CheckDuplicate, LookupStored, ValidateContext, Answer, busVars
<1>7. ASSUME NEW t \in Tasks, StoreEvent(t) \/ RecordCorrelation(t) \/ Notify(t)
      PROVE  OwnLast'
  BY <1>0, <1>5, <1>7
  DEF StoreEvent, RecordCorrelation, Notify, Answer, history
<1>8. CASE UNCHANGED <<batch, taskVars, overtaken>>
  BY <1>8 DEF OwnLast, taskVars
<1>9. QED
  BY <1>1, <1>2, <1>3, <1>4, <1>6, <1>7, <1>8
  DEF Next, TaskStep, Subscribe, Quiescent, vars, busVars, history

\* The last response is then the own event's.
LEMMA OwnAnswered ==
  ASSUME TypeInv, AnswersMatchInput, OwnLast
  PROVE  OwnAnswer
<1>1. SUFFICES ASSUME NEW t \in Tasks, pc[t] = "idle", own[t] # NoEvent,
                      t \notin overtaken
               PROVE  /\ result[t] = "ok" =>
                           /\ out[t] # <<>>
                           /\ events[Response(t)].corr = own[t].corr
                      /\ result[t] # "panic"
  BY DEF OwnAnswer
<1>2. /\ input[t] # <<>> /\ input[t][Len(input[t])] = own[t]
      /\ result[t] # "panic"
  BY <1>1 DEF OwnLast
<1>3. ASSUME result[t] = "ok"
      PROVE  out[t] # <<>> /\ events[Response(t)].corr = own[t].corr
  <2>1. input[t] \in Seq(Events) /\ out[t] \in Seq(Nat)
    BY DEF TypeInv, TypeOK
  <2>2. Len(out[t]) = Len(input[t])
    BY <1>1, <1>3 DEF AnswersMatchInput
  <2>3. out[t] # <<>> /\ Len(out[t]) \in DOMAIN out[t]
    BY <1>2, <2>1, <2>2
  <2>4. events[out[t][Len(out[t])]].corr = input[t][Len(out[t])].corr
    BY <2>3 DEF AnswersMatchInput
  <2>5. QED
    BY <1>2, <2>2, <2>3, <2>4 DEF Response
<1>4. QED
  BY <1>2, <1>3

\* Where a published correlation id is to be found (a disjunct of NothingLost).
Held(c) ==
  \/ correlations[c] # 0
  \/ \E k \in DOMAIN batch : batch[k].corr = c
  \/ \E t \in Tasks : pc[t] \notin {"idle", "flush"} /\ c \in Remaining(t)
  \/ c \in dropped

\* Answering one event takes its correlation, which is recorded, from the rest.
LEMMA AnswerRemaining ==
  ASSUME TypeInv, NEW t \in Tasks, pc[t] \in Running, NEW id, Answer(t, id),
         UNCHANGED input, NEW c \in Remaining(t), c # Current(t).corr
  PROVE  pc'[t] \notin {"idle", "flush"} /\ c \in Remaining(t)'
<1> DEFINE n == Len(out[t])
           m == Len(input[t])
<1>1. /\ n \in Nat /\ m \in Nat /\ n < m /\ out \in [Tasks -> Seq(Nat)]
      /\ pc \in [Tasks -> Locations]
  BY DEF TypeInv, TypeOK, WorkLeft
<1>2. PICK k \in (n + 1) .. m : input[t][k].corr = c
  BY DEF Remaining
<1>3. k # n + 1
  BY <1>2 DEF Current
<1>4. n + 1 # m /\ k \in (n + 2) .. m
  BY <1>1, <1>2, <1>3
<1>5. pc'[t] = "check"
  BY <1>1, <1>4 DEF Answer
<1>6. out'[t] = Append(out[t], id)
  BY <1>1 DEF Answer
<1>7. Len(out'[t]) = n + 1
  BY <1>1, <1>6, AppendProperties
<1>8. k \in (Len(out'[t]) + 1) .. Len(input'[t]) /\ input'[t][k].corr = c
  BY <1>1, <1>2, <1>4, <1>7
<1>9. QED
  BY <1>5, <1>8 DEF Remaining

\* The task that moves passes on every correlation id it had in hand.
LEMMA HeldByMover ==
  ASSUME SafeInv, NEW t \in Tasks, TaskStep(t), NEW c \in Remaining(t),
         pc[t] \in Running, c \in Correlations
  PROVE  \/ correlations[c] # 0
         \/ pc'[t] \notin {"idle", "flush"} /\ c \in Remaining(t)'
         \/ c \in dropped'
<1>0. TypeInv /\ pc \in [Tasks -> Locations]
  BY DEF SafeInv, TypeInv, TypeOK
<1>1. ASSUME ValidateContext(t), UNCHANGED <<input, out>>
      PROVE  \/ pc'[t] \notin {"idle", "flush"} /\ c \in Remaining(t)'
             \/ c \in dropped'
  BY <1>0, <1>1 DEF ValidateContext, Remaining
<1>2. ASSUME UNCHANGED <<input, out>>, pc'[t] \notin {"idle", "flush"}
      PROVE  c \in Remaining(t)'
  BY <1>2 DEF Remaining
<1>3. ASSUME NEW id, Answer(t, id), UNCHANGED input,
             correlations[Current(t).corr] # 0
      PROVE  \/ correlations[c] # 0
             \/ pc'[t] \notin {"idle", "flush"} /\ c \in Remaining(t)'
  <2>1. CASE c = Current(t).corr
    BY <1>3, <2>1
  <2>2. CASE c # Current(t).corr
    BY <1>0, <1>3, <2>2, AnswerRemaining
  <2>3. QED
    BY <2>1, <2>2
<1>4. CASE CheckDuplicate(t)
  BY <1>0, <1>1, <1>2, <1>4 DEF CheckDuplicate
<1>5. CASE LookupStored(t)
  <2>1. eventId[t] \in DOMAIN events /\ correlations[Current(t).corr] # 0
    BY <1>5 DEF LookupStored, SafeInv, LocalIds
  <2>2. Answer(t, eventId[t]) /\ UNCHANGED input
    BY <1>5, <2>1 DEF LookupStored
  <2>3. QED
    BY <1>3, <2>1, <2>2
<1>6. CASE StoreEvent(t) \/ RecordCorrelation(t)
  BY <1>0, <1>2, <1>6 DEF StoreEvent, RecordCorrelation
<1>7. CASE Notify(t)
  <2>1. correlations[Current(t).corr] # 0
    BY <1>7 DEF Notify, SafeInv, LocalIds
  <2>2. Answer(t, eventId[t]) /\ UNCHANGED input
    BY <1>7 DEF Notify
  <2>3. QED
    BY <1>3, <2>1, <2>2
<1>8. QED
  BY <1>4, <1>5, <1>6, <1>7 DEF TaskStep, FlushEmpty, DrainBatch, Running

\* What is held stays held.
LEMMA HeldStays ==
  ASSUME SafeInv, SafeInv', [Next]_vars, NEW c \in Correlations, Held(c)
  PROVE  Held(c)'
<1>0. /\ pc \in [Tasks -> Locations] /\ input \in [Tasks -> Seq(Events)]
      /\ out \in [Tasks -> Seq(Nat)] /\ batch \in Seq(Events)
  BY DEF SafeInv, TypeInv, TypeOK
<1>1. CASE correlations[c] # 0
  BY <1>1, LogGrows DEF Held
<1>2. ASSUME NEW k \in DOMAIN batch, batch[k].corr = c
      PROVE  Held(c)'
  <2>1. ASSUME NEW t \in Tasks, NEW e \in Events, Publish(t, e)
        PROVE  Held(c)'
    <3>1. batch' = Append(batch, e)
      BY <2>1 DEF Publish
    <3>2. k \in DOMAIN batch' /\ batch'[k] = batch[k]
      BY <1>0, <1>2, <3>1, AppendProperties
    <3>3. QED
      BY <1>2, <3>2 DEF Held
  <2>2. ASSUME NEW t \in Tasks, DrainBatch(t)
        PROVE  Held(c)'
    <3>1. input'[t] = batch /\ out'[t] = <<>> /\ pc'[t] = "check"
      BY <1>0, <2>2 DEF DrainBatch, SafeInv, TypeInv, WorkLeft
    <3>2. k \in (Len(out'[t]) + 1) .. Len(input'[t])
      BY <1>0, <1>2, <3>1
    <3>3. c \in Remaining(t)'
      BY <1>2, <3>1, <3>2 DEF Remaining
    <3>4. QED
      BY <3>1, <3>3 DEF Held
  <2>3. CASE UNCHANGED batch
    BY <1>2, <2>3 DEF Held
  <2>4. QED
    BY <2>1, <2>2, <2>3
    DEF Next, vars, busVars, taskVars, TaskStep, PublishBatch, Subscribe,
        FlushEmpty, CheckDuplicate, LookupStored, StoreEvent,
        RecordCorrelation, Notify, Quiescent
<1>3. ASSUME NEW t \in Tasks, pc[t] \notin {"idle", "flush"}, c \in Remaining(t)
      PROVE  Held(c)'
  <2>1. pc[t] \in Running
    BY <1>0, <1>3 DEF Locations, Running
  <2>2. CASE TaskStep(t)
    <3>1. \/ correlations[c] # 0
          \/ pc'[t] \notin {"idle", "flush"} /\ c \in Remaining(t)'
          \/ c \in dropped'
      BY <1>3, <2>1, <2>2, HeldByMover
    <3>2. QED
      BY <3>1, LogGrows DEF Held
  <2>3. CASE ~TaskStep(t)
    <3>1. UNCHANGED <<input[t], out[t], pc[t]>>
      <4>1. ASSUME NEW u \in Tasks,
                   \/ \E e \in Events : Publish(u, e)
                   \/ \E b \in Batches : PublishBatch(u, b)
            PROVE  UNCHANGED <<input[t], out[t], pc[t]>>
        BY <1>0, <1>3, <4>1 DEF Publish, PublishBatch
      <4>2. ASSUME NEW u \in Tasks, u # t, TaskStep(u)
            PROVE  UNCHANGED <<input[t], out[t], pc[t]>>
        BY <1>0, <4>2
        DEF TaskStep, FlushEmpty, DrainBatch, CheckDuplicate, LookupStored,
            StoreEvent, RecordCorrelation, Notify, Answer, ValidateContext
      <4>3. CASE UNCHANGED taskVars
        BY <4>3 DEF taskVars
      <4>4. QED
        BY <2>3, <4>1, <4>2, <4>3 DEF Next, vars, Subscribe, Quiescent
    <3>2. c \in Remaining(t)'
      BY <1>3, <3>1 DEF Remaining
    <3>3. QED
      BY <1>3, <3>1, <3>2 DEF Held
  <2>4. QED
    BY <2>2, <2>3
<1>4. CASE c \in dropped
  <2>1. dropped \subseteq dropped'
    BY DEF Next, vars, history, TaskStep, Publish, PublishBatch, Subscribe,
           FlushEmpty, DrainBatch, CheckDuplicate, LookupStored, StoreEvent,
           RecordCorrelation, Notify, ValidateContext, Quiescent
  <2>2. QED
    BY <1>4, <2>1 DEF Held
<1>5. QED
  BY <1>1, <1>2, <1>3, <1>4 DEF Held

\* A count that is not zero counts something.
LEMMA OccurrenceFound ==
  ASSUME NEW s \in Seq(Events), NEW c, Occurrences(CorrOf(s), c) # 0
  PROVE  \E k \in 1 .. Len(s) : s[k].corr = c
<1>1. {k \in DOMAIN CorrOf(s) : CorrOf(s)[k] = c} # {}
  BY FS_EmptySet DEF Occurrences
<1>2. PICK k \in DOMAIN CorrOf(s) : CorrOf(s)[k] = c
  BY <1>1
<1>3. k \in 1 .. Len(s) /\ s[k].corr = c
  BY <1>2 DEF CorrOf
<1>4. QED
  BY <1>3

LEMMA NothingLostStep ==
  SafeInv /\ NothingLost /\ [Next]_vars => NothingLost'
<1> SUFFICES ASSUME SafeInv, NothingLost, [Next]_vars,
                    NEW c \in Correlations, attempts'[c] > 0
             PROVE  Held(c)'
  BY DEF NothingLost, Held
<1>0. /\ SafeInv' /\ attempts \in [Correlations -> Nat]
      /\ pc \in [Tasks -> Locations] /\ input \in [Tasks -> Seq(Events)]
      /\ out \in [Tasks -> Seq(Nat)] /\ batch \in Seq(Events)
  BY SafeInvStep DEF SafeInv, TypeInv, TypeOK
<1>1. CASE attempts[c] > 0
  <2>1. Held(c)
    BY <1>1 DEF NothingLost, Held
  <2>2. QED
    BY <1>0, <2>1, HeldStays
<1>2. CASE ~(attempts[c] > 0)
  <2>1. attempts[c] = 0
    BY <1>0, <1>2
  <2>2. ASSUME NEW s \in Seq(Events), Attempt(s)
        PROVE  \E k \in 1 .. Len(s) : s[k].corr = c
    <3>1. attempts'[c] = attempts[c] + Occurrences(CorrOf(s), c)
      BY <2>2 DEF Attempt
    <3>2. Occurrences(CorrOf(s), c) \in Nat
      BY CorrOfType, OccurrencesType
    <3>3. Occurrences(CorrOf(s), c) # 0
      BY <2>1, <3>1, <3>2
    <3>4. QED
      BY <3>3, OccurrenceFound
  <2>3. ASSUME NEW t \in Tasks, NEW e \in Events, Publish(t, e)
        PROVE  Held(c)'
    <3>1. <<e>> \in Seq(Events) /\ Attempt(<<e>>) /\ batch' = Append(batch, e)
      BY <2>3 DEF Publish
    <3>2. e.corr = c
      <4>1. PICK k \in 1 .. Len(<<e>>) : <<e>>[k].corr = c
        BY <2>2, <3>1
      <4>2. k = 1
        BY <4>1
      <4>3. QED
        BY <4>1, <4>2
    <3>3. Len(batch) + 1 \in DOMAIN batch' /\ batch'[Len(batch) + 1] = e
      BY <1>0, <3>1, AppendProperties
    <3>4. QED
      BY <3>2, <3>3 DEF Held
  <2>4. ASSUME NEW t \in Tasks, NEW b \in Batches, PublishBatch(t, b)
        PROVE  Held(c)'
    <3>1. b \in Seq(Events) /\ Attempt(b)
      BY <2>4, BatchesAssumption DEF PublishBatch
    <3>2. PICK k \in 1 .. Len(b) : b[k].corr = c
      BY <2>2, <3>1
    <3>3. b # <<>>
      BY <3>2
    <3>4. input'[t] = b /\ out'[t] = <<>> /\ pc'[t] = "check"
      BY <1>0, <2>4, <3>3 DEF PublishBatch
    <3>5. k \in (Len(out'[t]) + 1) .. Len(input'[t])
      BY <3>2, <3>4
    <3>6. c \in Remaining(t)'
      BY <3>2, <3>4, <3>5 DEF Remaining
    <3>7. QED
      BY <3>4, <3>6 DEF Held
  <2>5. CASE UNCHANGED attempts
    BY <1>2, <2>5
  <2>6. QED
    BY <2>3, <2>4, <2>5
    DEF Next, vars, history, TaskStep, Subscribe, FlushEmpty, DrainBatch,
        CheckDuplicate, LookupStored, StoreEvent, RecordCorrelation, Notify,
        Quiescent
<1>3. QED
  BY <1>1, <1>2

\* However the tasks interleave: a caller gets one response per event, each
\* naming a stored event of that event's correlation; what publish returns
\* (the last of them) is the response of the event it was given unless another
\* task got between its push and its flush; and only a failed call loses
\* events (publish, flush_batch, publish_internal).
THEOREM OutcomesCorrect == Spec => []OutcomeAccurate
<1>1. Init => AnswersMatchInput /\ OwnLast /\ NothingLost
  BY DEF Init, AnswersMatchInput, OwnLast, NothingLost
<1>2. TypeInv /\ OwnLast /\ TypeInv' /\ [Next]_vars => OwnLast'
  BY OwnLastStep
<1>3. TypeInv /\ AnswersMatchInput /\ OwnLast /\ NothingLost => OutcomeAccurate
  BY OwnAnswered DEF OutcomeAccurate
<1>4. Spec => []TypeInv
  BY TypeInvInit, TypeInvStep, PTL DEF Spec
<1>5. Spec => []AnswersMatchInput
  BY <1>1, OutcomeStep, SafeInvAlways, PTL DEF Spec
<1>6. Spec => []OwnLast
  BY <1>1, <1>2, <1>4, PTL DEF Spec
<1>7. Spec => []NothingLost
  BY <1>1, NothingLostStep, SafeInvAlways, PTL DEF Spec
<1>8. QED
  BY <1>3, <1>4, <1>5, <1>6, <1>7, PTL

-----------------------------------------------------------------------------
(* The order in which handlers see the log.                                *)

\* Strengthening: no handler has seen an event that is not yet in the log.
SeenInLog ==
  \A h \in Handlers : \A k \in DOMAIN seen[h] : seen[h][k] <= Len(events)

\* Notify appends copies of the newest event's id to what a handler saw.
LEMMA NotifySeen ==
  ASSUME SafeInv, NEW t \in Tasks, Notify(t), NEW h \in Handlers
  PROVE  /\ seen[h] \in Seq(Nat) /\ Len(seen[h]) \in Nat
         /\ \A k \in DOMAIN seen'[h] :
              \/ k \in DOMAIN seen[h] /\ seen'[h][k] = seen[h][k]
              \/ k \in Nat /\ k > Len(seen[h]) /\ seen'[h][k] = Len(events)
         /\ UNCHANGED events
<1> DEFINE n == Occurrences(handlers[Current(t).type], h)
           new == [k \in 1 .. n |-> eventId[t]]
<1>1. /\ seen[h] \in Seq(Nat) /\ handlers \in [EventTypes -> Seq(Handlers)]
      /\ eventId[t] \in Nat /\ Len(seen[h]) \in Nat
  BY DEF SafeInv, TypeInv, TypeOK
<1>2. eventId[t] = Len(events) /\ pc[t] \in Running
  BY DEF Notify, SafeInv, LocalIds, Running
<1>3. n \in Nat
  BY <1>1, <1>2, CurrentType, OccurrencesType DEF SafeInv
<1>4. seen'[h] = seen[h] \o new
  BY DEF Notify
<1> HIDE DEF n
<1>5. new \in Seq(Nat) /\ Len(new) = n
  BY <1>1, <1>3
<1>6. \A k \in 1 .. n : new[k] = Len(events)
  BY <1>2
<1> HIDE DEF new
<1>7. /\ DOMAIN seen'[h] = 1 .. (Len(seen[h]) + n)
      /\ DOMAIN seen[h] = 1 .. Len(seen[h])
      /\ \A k \in 1 .. (Len(seen[h]) + n) :
           seen'[h][k] = IF k <= Len(seen[h]) THEN seen[h][k]
                                              ELSE new[k - Len(seen[h])]
  <2>1. /\ seen'[h] \in Seq(Nat)
        /\ Len(seen'[h]) = Len(seen[h]) + n
        /\ \A k \in 1 .. (Len(seen[h]) + Len(new)) :
             seen'[h][k] = IF k <= Len(seen[h]) THEN seen[h][k]
                                                ELSE new[k - Len(seen[h])]
    <3>1. /\ seen[h] \o new \in Seq(Nat)
          /\ Len(seen[h] \o new) = Len(seen[h]) + Len(new)
          /\ \A k \in 1 .. (Len(seen[h]) + Len(new)) :
               (seen[h] \o new)[k] = IF k <= Len(seen[h]) THEN seen[h][k]
                                      ELSE new[k - Len(seen[h])]
      <4>1. seen[h] \in Seq(Nat) /\ new \in Seq(Nat)
        BY <1>1, <1>5
      <4>2. QED
        BY ONLY <4>1, ConcatProperties, Zenon
    <3>2. QED
      BY <1>4, <1>5, <3>1, Zenon
  <2>2. QED
    BY <1>1, <1>5, <2>1
<1>8. ASSUME NEW k \in DOMAIN seen'[h]
      PROVE  \/ k \in DOMAIN seen[h] /\ seen'[h][k] = seen[h][k]
             \/ k \in Nat /\ k > Len(seen[h]) /\ seen'[h][k] = Len(events)
  <2>1. CASE k <= Len(seen[h])
    BY <1>1, <1>3, <1>7, <2>1
  <2>2. CASE k > Len(seen[h])
    <3>1. k - Len(seen[h]) \in 1 .. n
      BY <1>1, <1>3, <1>7, <2>2
    <3>2. QED
      BY <1>1, <1>3, <1>6, <1>7, <2>2, <3>1
  <2>3. QED
    BY <1>1, <1>3, <1>7, <2>1, <2>2
<1>9. QED
  BY <1>1, <1>8 DEF Notify

LEMMA SeenStep ==
  SafeInv /\ SeenInLog /\ HandlersSeeLogOrder /\ [Next]_vars
    => (SeenInLog /\ HandlersSeeLogOrder)'
<1> SUFFICES ASSUME SafeInv, SeenInLog, HandlersSeeLogOrder, [Next]_vars
             PROVE  (SeenInLog /\ HandlersSeeLogOrder)'
  OBVIOUS
<1>0. /\ Len(events) \in Nat /\ TypeInv
      /\ \A h \in Handlers : /\ seen[h] \in Seq(Nat)
                             /\ DOMAIN seen[h] = 1 .. Len(seen[h])
                             /\ Len(seen[h]) \in Nat
                             /\ \A k \in DOMAIN seen[h] : seen[h][k] \in Nat
  <2>1. TypeInv
    BY DEF SafeInv
  <2>2. seen \in [Handlers -> Seq(Nat)]
    BY <2>1 DEF TypeInv, TypeOK
  <2>3. QED
    BY <2>1, <2>2, LogDomain
<1>1. CASE UNCHANGED <<seen, events>>
  BY <1>1 DEF SeenInLog, HandlersSeeLogOrder
<1>2. ASSUME NEW t \in Tasks, StoreEvent(t)
      PROVE  (SeenInLog /\ HandlersSeeLogOrder)'
  <2>1. UNCHANGED seen /\ Len(events') = Len(events) + 1
    BY <1>0, <1>2, StoreEffect DEF StoreEvent, history
  <2>2. QED
    BY <1>0, <2>1 DEF SeenInLog, HandlersSeeLogOrder
<1>3. ASSUME NEW t \in Tasks, Notify(t)
      PROVE  (SeenInLog /\ HandlersSeeLogOrder)'
  <2>1. ASSUME NEW h \in Handlers, NEW k \in DOMAIN seen'[h]
        PROVE  seen'[h][k] <= Len(events')
    <3>1. \/ k \in DOMAIN seen[h] /\ seen'[h][k] = seen[h][k]
          \/ seen'[h][k] = Len(events)
      BY <1>3, <2>1, NotifySeen
    <3>2. UNCHANGED events
      BY <1>3 DEF Notify
    <3>3. QED
      BY <1>0, <2>1, <3>1, <3>2 DEF SeenInLog
  <2>2. ASSUME NEW h \in Handlers, NEW k \in DOMAIN seen'[h],
               NEW m \in DOMAIN seen'[h], k < m
        PROVE  seen'[h][k] <= seen'[h][m]
    <3>1. /\ \/ k \in DOMAIN seen[h] /\ seen'[h][k] = seen[h][k]
             \/ k \in Nat /\ k > Len(seen[h]) /\ seen'[h][k] = Len(events)
          /\ \/ m \in DOMAIN seen[h] /\ seen'[h][m] = seen[h][m]
             \/ m \in Nat /\ m > Len(seen[h]) /\ seen'[h][m] = Len(events)
      BY <1>3, <2>2, NotifySeen
    <3>2. CASE seen'[h][m] = Len(events)
      BY <1>0, <3>1, <3>2 DEF SeenInLog
    <3>3. CASE m \in DOMAIN seen[h] /\ seen'[h][m] = seen[h][m]
      <4>1. m <= Len(seen[h]) /\ m \in Nat
        BY <1>0, <3>3
      <4>2. k \in DOMAIN seen[h] /\ seen'[h][k] = seen[h][k]
        BY <1>0, <2>2, <3>1, <4>1
      <4>3. QED
        BY <2>2, <3>3, <4>2 DEF HandlersSeeLogOrder
    <3>4. QED
      BY <3>1, <3>2, <3>3
  <2>3. QED
    BY <2>1, <2>2 DEF SeenInLog, HandlersSeeLogOrder
<1>4. QED
  BY <1>1, <1>2, <1>3
  DEF Next, vars, busVars, taskVars, history, TaskStep, Publish, PublishBatch,
      Subscribe, FlushEmpty, DrainBatch, CheckDuplicate, LookupStored,
      RecordCorrelation, Quiescent

\* The guards publish_internal keeps while it runs the handlers are enough:
\* no handler is ever called with an event older than one it has seen.
THEOREM HandlersOrdered == Spec => []HandlersSeeLogOrder
<1>1. Init => SeenInLog /\ HandlersSeeLogOrder
  BY DEF Init, SeenInLog, HandlersSeeLogOrder
<1>2. QED
  BY <1>1, SeenStep, SafeInvAlways, PTL DEF Spec
=============================================================================
