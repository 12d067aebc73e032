----------------------------- MODULE MCEventBus -----------------------------
(* Small instances of EventBus for TLC.                                     *)
EXTENDS EventBus

CONSTANTS c1, c2, c3, s1, s2, y1

\* Two valid events of different streams and one whose context is invalid.
\* Two tasks that race on A store it twice, in one stream.
A == [corr |-> c1, stream |-> s1, type |-> y1, valid |-> TRUE]
B == [corr |-> c2, stream |-> s2, type |-> y1, valid |-> TRUE]
X == [corr |-> c3, stream |-> s2, type |-> y1, valid |-> FALSE]

MCCorrelations == {c1, c2, c3}
MCStreams == {s1, s2}
MCTypes == {y1}
MCEvents == {A, B, X}
MCBatches == {<<A, B>>, <<>>}
NoBatches == {}

\* A may be retried once, B and X are published once.
Retried == [c \in MCCorrelations |-> IF c = c1 THEN 2 ELSE 1]
Once == [c \in MCCorrelations |-> 1]
=============================================================================
