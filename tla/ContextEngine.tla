--------------------------- MODULE ContextEngine ---------------------------
(***************************************************************************)
(* ContextEngine (mcp-core/src/context.rs): bounded self-tuning of named   *)
(* metrics.  Callers propose values; the engine clamps a proposal to a     *)
(* percentage around the metric's baseline, moves the baseline after two   *)
(* successes, and can roll a value back to it.  Every method does its work *)
(* under one write guard, so an action is a whole method, and the calls of *)
(* several threads interleave freely.                                      *)
(* A floating-point value is an integer here and the percentage of it is   *)
(* rounded down; NaN and the infinities are left out.                      *)
(***************************************************************************)
EXTENDS Integers, FiniteSets

CONSTANTS
  Keys,            \* metric names
  Values,          \* the values callers propose
  Frames,          \* the context frames callers present
  Absent,          \* None, in an optional field of a frame
  Enabled,         \* enabled
  ChangeCapPct,    \* change_cap_pct
  MinConfidence,   \* min_confidence, in percent
  MaxSuccesses     \* bound: successes recorded per metric

Frame == [risk : {"safe", "caution", "block"},
          confidence : Int \cup {Absent},
          allow : BOOLEAN \cup {Absent}]

ASSUME ValuesAssumption == Values \subseteq Int
ASSUME FramesAssumption == Frames \subseteq Frame /\ Absent \notin Int
ASSUME CapAssumption == ChangeCapPct \in 0 .. 255
ASSUME SettingsAssumption ==
  Enabled \in BOOLEAN /\ MinConfidence \in Int /\ MaxSuccesses \in Nat

VARIABLES
  known,       \* the keys of the metrics map
  current,     \* key -> current_value
  baseline,    \* key -> baseline
  successes,   \* key -> consecutive_successes
  origin,      \* history: key -> the baseline it was created with
  recorded,    \* history: key -> successes recorded since it was created
  dayBase      \* history: key -> its baseline when the day (or it) began

metrics == <<known, current, baseline, successes>>
history == <<origin, recorded, dayBase>>
vars    == <<metrics, history>>

TypeOK ==
  /\ known \subseteq Keys
  /\ current \in [Keys -> Int]
  /\ baseline \in [Keys -> Int]
  /\ successes \in [Keys -> {0, 1}]
  /\ origin \in [Keys -> Int]
  /\ recorded \in [Keys -> Nat]
  /\ dayBase \in [Keys -> Int]

Init ==
  /\ known = {}
  /\ current = [k \in Keys |-> 0]
  /\ baseline = [k \in Keys |-> 0]
  /\ successes = [k \in Keys |-> 0]
  /\ origin = [k \in Keys |-> 0]
  /\ recorded = [k \in Keys |-> 0]
  /\ dayBase = [k \in Keys |-> 0]

-----------------------------------------------------------------------------
(* Eligibility.                                                            *)

Confidence(f) == IF f.confidence = Absent THEN 0 ELSE f.confidence

\* ContextFrame::can_autotune
FrameAllows(f) ==
  /\ f.risk = "safe"
  /\ Confidence(f) >= 60
  /\ f.allow # FALSE

\* ContextEngine::can_autotune
CanAutotune(f) ==
  /\ Enabled
  /\ FrameAllows(f)
  /\ Confidence(f) >= MinConfidence

-----------------------------------------------------------------------------
(* The methods.                                                            *)

\* max_change
MaxChange(b) == (b * ChangeCapPct) \div 100

\* Mutant: only increases are clamped.
ClampAbove(b, v) == IF v > b + MaxChange(b) THEN b + MaxChange(b) ELSE v

Clamp(b, v) ==
  IF v > b + MaxChange(b) THEN b + MaxChange(b)
  ELSE IF v < b - MaxChange(b) THEN b - MaxChange(b)
  ELSE v

\* adjust_metric with a frame that may not tune answers the proposal itself.
Decline(f) == ~CanAutotune(f) /\ UNCHANGED vars

\* adjust_metric: the first proposal for a key becomes its baseline.
AdjustMetric(k, v, f) ==
  /\ CanAutotune(f)
  /\ LET b == IF k \in known THEN baseline[k] ELSE v
         a == Clamp(b, v)
     IN  /\ baseline' = [baseline EXCEPT ![k] = b]
         /\ current' = [current EXCEPT ![k] = a]
         /\ origin' = [origin EXCEPT ![k] = IF k \in known THEN @ ELSE v]
         /\ dayBase' = [dayBase EXCEPT ![k] = IF k \in known THEN @ ELSE v]
  /\ known' = known \cup {k}
  /\ UNCHANGED <<successes, recorded>>

\* Mutant: the counter is not reset, so every later success adopts.
RecordSuccessSticky(k) ==
  /\ k \in known
  /\ recorded[k] < MaxSuccesses
  /\ recorded' = [recorded EXCEPT ![k] = @ + 1]
  /\ successes' = [successes EXCEPT ![k] = @ + 1]
  /\ baseline' = [baseline EXCEPT
                    ![k] = IF successes[k] + 1 >= 2 THEN current[k] ELSE @]
  /\ UNCHANGED <<known, current, origin, dayBase>>

\* record_success: the second success makes the current value the baseline.
\* Nothing is done for an unknown key.
RecordSuccess(k) ==
  /\ k \in known
  /\ recorded[k] < MaxSuccesses
  /\ recorded' = [recorded EXCEPT ![k] = @ + 1]
  /\ IF successes[k] + 1 >= 2
       THEN /\ baseline' = [baseline EXCEPT ![k] = current[k]]
            /\ successes' = [successes EXCEPT ![k] = 0]
       ELSE /\ successes' = [successes EXCEPT ![k] = @ + 1]
            /\ UNCHANGED baseline
  /\ UNCHANGED <<known, current, origin, dayBase>>

\* rollback; None for an unknown key.
Rollback(k) ==
  /\ k \in known
  /\ current' = [current EXCEPT ![k] = baseline[k]]
  /\ successes' = [successes EXCEPT ![k] = 0]
  /\ UNCHANGED <<known, baseline, history>>

\* Time passes.  The engine stamps last_update and never reads it, so a new
\* day changes nothing but what the days are told apart by.
NewDay == dayBase' = baseline /\ UNCHANGED <<metrics, origin, recorded>>

Next ==
  \/ \E f \in Frames : Decline(f)
  \/ \E k \in Keys, v \in Values, f \in Frames : AdjustMetric(k, v, f)
  \/ \E k \in Keys : RecordSuccess(k) \/ Rollback(k)
  \/ NewDay

Spec == Init /\ [][Next]_vars

-----------------------------------------------------------------------------
(* Safety.                                                                 *)

Distance(x, y) == IF x >= y THEN x - y ELSE y - x
Magnitude(x)   == Distance(x, 0)

\* However calls interleave, the value in force never leaves the cap around
\* the baseline in force, although each of the two moves on its own and the
\* clamp of adjust_metric only looks at the value it is given.
CapRespected ==
  \A k \in known :
    Distance(current[k], baseline[k]) <= Magnitude(MaxChange(baseline[k]))

\* The farthest a baseline can be after n adoptions.
Ceiling(b, n) ==
  LET up[i \in 0 .. n] == IF i = 0 THEN b ELSE up[i - 1] + MaxChange(up[i - 1])
  IN  up[n]
Floor(b, n) ==
  LET down[i \in 0 .. n] ==
        IF i = 0 THEN b ELSE down[i - 1] - MaxChange(down[i - 1])
  IN  down[n]

\* The pace the code does keep is one of successes, not of time: the baseline
\* compounds the cap at most once for every two successes (from a non-negative
\* value, and with a cap that ServerConfig::validate admits).  Any number of
\* them fits in a day: see WithinDailyCap.
DriftPaced ==
  \A k \in known :
    LET n == recorded[k] \div 2
    IN  origin[k] >= 0 =>
          baseline[k] \in Floor(origin[k], n) .. Ceiling(origin[k], n)

-----------------------------------------------------------------------------
(* What the repository says of the engine and the code does not do.        *)

\* "Limit automated changes to +-10% in 24 hours" (spec/1_nurones_mcp_server_
\* prd_v0-5.md:66; "per day" at context.rs:53, changeCapPctPerDay in the
\* configuration, "%/day" at main.rs:195): within a day the value in force stays
\* within one cap of the baseline the day began with.
WithinDailyCap ==
  \A k \in known :
    Distance(current[k], dayBase[k]) <= Magnitude(MaxChange(dayBase[k]))
=============================================================================
