----------------------------- MODULE EventStore -----------------------------
(***************************************************************************)
(* What the event bus promises its callers, without locks, batches or      *)
(* tasks: one atomic step appends an event to the log, numbers it within   *)
(* its stream and points its correlation id at it.  When Idempotent, a     *)
(* correlation id that is already in the index is never appended again;    *)
(* otherwise the store is at-least-once.                                   *)
(***************************************************************************)
EXTENDS Integers, Sequences, FiniteSets

CONSTANTS
  Correlations,   \* correlation ids
  Streams,        \* stream ids
  Idempotent      \* BOOLEAN: a known correlation id is never stored again

VARIABLES
  log,     \* stored events, in order
  index    \* correlation id -> position of its latest event, 0 if none

Init ==
  /\ log = <<>>
  /\ index = [c \in Correlations |-> 0]

VersionIn(s) == Cardinality({i \in DOMAIN log : log[i].stream = s}) + 1

Store(c, s) ==
  /\ Idempotent => index[c] = 0
  /\ log' = Append(log, [corr |-> c, stream |-> s, version |-> VersionIn(s)])
  /\ index' = [index EXCEPT ![c] = Len(log) + 1]

Next == \E c \in Correlations, s \in Streams : Store(c, s)

Spec == Init /\ [][Next]_<<log, index>>
=============================================================================
