---------------------------- MODULE SessionMeter ----------------------------
(* The meter of a call (pkg/billing/meter.go, cdr.go, ratecard.go): the     *)
(* stages of the call enable features concurrently, by compare-and-swap,    *)
(* the hangup finalizes, and a goroutine writes the record to the log of    *)
(* BillingWAL while the process may already be ending.  Time is the wall    *)
(* clock, which may be set back: the start is kept without its monotonic    *)
(* part.                                                                    *)
EXTENDS Integers, FiniteSets, FiniteSetsExt

CONSTANTS
  Features,    \* the features, each enabled by a goroutine of its own
  PulseMs,     \* cfg.PulseMs, maybe not positive
  MaxClock     \* bound: the wall clock

ASSUME MeterAssumption == IsFiniteSet(Features) /\ PulseMs \in Int /\ MaxClock \in Nat

VARIABLES
  features,    \* m.features
  enabling,    \* where each goroutine is: before, has read, has returned
  read,        \* what it has read
  wallClock, startMs,
  hangup,      \* Finalize: before, the end taken, the record made
  endMs, record, \* its local endTime, and the record it returned
  logged,      \* the record's way to the log
  before,      \* history: enabled when Finalize began
  priced       \* history: the price of a unit of the record

meterVars == <<features, enabling, read, wallClock, startMs, hangup, endMs, record, logged, before, priced>>

defaultPulse == 3

NoRecord == [units |-> 0, duration |-> 0, features |-> {}]

MeterTypeOK ==
  /\ features \in SUBSET Features
  /\ enabling \in [Features -> {"idle", "read", "done"}]
  /\ read \in [Features -> SUBSET Features]
  /\ wallClock \in 0 .. MaxClock /\ startMs \in 0 .. MaxClock /\ endMs \in 0 .. MaxClock
  /\ hangup \in {"before", "ended", "done"}
  /\ record \in [units : Nat, duration : Nat, features : SUBSET Features]
  /\ logged \in {"no", "pending", "written", "lost"}
  /\ before \in SUBSET Features /\ priced \in Nat

NewSessionMeter ==
  /\ wallClock \in 0 .. MaxClock /\ startMs = wallClock
  /\ features = {} /\ enabling = [f \in Features |-> "idle"] /\ read = [f \in Features |-> {}]
  /\ hangup = "before" /\ endMs = 0 /\ record = NoRecord
  /\ logged = "no" /\ before = {} /\ priced = 0

(* The wall clock goes on, or is set.                                       *)
ClockMoves ==
  /\ wallClock' \in 0 .. MaxClock /\ hangup = "before"
  /\ UNCHANGED <<features, enabling, read, startMs, hangup, endMs, record, logged, before, priced>>

EnableLoad(f) ==
  /\ enabling[f] = "idle"
  /\ enabling' = [enabling EXCEPT ![f] = "read"] /\ read' = [read EXCEPT ![f] = features]
  /\ UNCHANGED <<features, wallClock, startMs, hangup, endMs, record, logged, before, priced>>

\* Mutant of EnableSwap: a plain store of what was read, with the bit set.
EnableStore(f) ==
  /\ enabling[f] = "read" /\ enabling' = [enabling EXCEPT ![f] = "done"]
  /\ features' = read[f] \cup {f}
  /\ UNCHANGED <<read, wallClock, startMs, hangup, endMs, record, logged, before, priced>>

(* The swap fails if anybody has changed the word, and the loop starts over.*)
EnableSwap(f) ==
  /\ enabling[f] = "read"
  /\ IF features = read[f]
     THEN features' = features \cup {f} /\ enabling' = [enabling EXCEPT ![f] = "done"]
     ELSE enabling' = [enabling EXCEPT ![f] = "idle"] /\ UNCHANGED features
  /\ UNCHANGED <<read, wallClock, startMs, hangup, endMs, record, logged, before, priced>>

(* NewCDR *)
Pulse == IF PulseMs <= 0 THEN defaultPulse ELSE PulseMs
Ceil(n, d) == (n + d - 1) \div d

BilledUnits(duration) == IF Ceil(duration, Pulse) < 1 THEN 1 ELSE Ceil(duration, Pulse)
DurationMs == IF endMs < startMs THEN 0 ELSE endMs - startMs

(* StaticRateCard: a base price of 5 and one of 2 for each feature on top.  *)
UnitPrice(fs) == MapThenSumSet(LAMBDA f : 2, {f \in Features : f \in fs}) + 5

(* Finalize takes the end, then the features, hands the record to a         *)
(* goroutine that writes it, and returns it.                                *)
FinalizeEnd ==
  /\ hangup = "before" /\ hangup' = "ended" /\ endMs' = wallClock
  /\ before' = {f \in Features : enabling[f] = "done"}
  /\ UNCHANGED <<features, enabling, read, wallClock, startMs, record, logged, priced>>

FinalizeRecord ==
  /\ hangup = "ended" /\ hangup' = "done" /\ logged' = "pending"
  /\ record' = [units |-> BilledUnits(DurationMs), duration |-> DurationMs, features |-> features]
  /\ priced' = UnitPrice(features)
  /\ UNCHANGED <<features, enabling, read, wallClock, startMs, endMs, before>>

(* The goroutine; its error is dropped, and nobody waits for it: if the     *)
(* process ends first, the record is gone.                                  *)
WriteAsync ==
  /\ logged = "pending" /\ logged' \in {"written", "lost"}
  /\ UNCHANGED <<features, enabling, read, wallClock, startMs, hangup, endMs, record, before, priced>>

MeterNext ==
  \/ ClockMoves \/ (\E f \in Features : EnableLoad(f) \/ EnableSwap(f))
  \/ FinalizeEnd \/ FinalizeRecord \/ WriteAsync

MeterSpec == NewSessionMeter /\ [][MeterNext]_meterVars

-----------------------------------------------------------------------------
(* Properties *)

(* No feature is lost to another that is enabled at the same time.          *)
NoFeatureLost == \A f \in Features : enabling[f] = "done" => f \in features

(* What was enabled when the call was hung up is in its record, and nothing *)
(* is that was not enabled; the price of a unit is that of each feature in  *)
(* it, once.                                                                *)
RecordBillsWhatRan ==
  hangup = "done" =>
    /\ before \subseteq record.features /\ record.features \subseteq features
    /\ priced = 5 + 2 * Cardinality(record.features)

(* The units are the fewest that cover the call, and never none, whatever   *)
(* pulse is configured and however the clock was set.                       *)
UnitsCoverCall ==
  hangup = "done" =>
    LET covers(n) == n >= 1 /\ n * (IF PulseMs > 0 THEN PulseMs ELSE defaultPulse) >= record.duration
    IN  covers(record.units) /\ \A n \in 0 .. record.units - 1 : ~covers(n)

(* What was enabled when the call was hung up stays so until the record is  *)
(* made.                                                                    *)
HungUpKept == before \subseteq features

MeterInv == MeterTypeOK /\ NoFeatureLost /\ RecordBillsWhatRan /\ UnitsCoverCall /\ HungUpKept
=============================================================================
