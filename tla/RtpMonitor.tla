----------------------------- MODULE RtpMonitor -----------------------------
(* The quality monitor of an RTP session (pkg/eval/rtp_monitor.go): a       *)
(* goroutine samples the session and raises alerts; Stop, which does not    *)
(* wait for it, makes a report of what there is.  Samples are taken from a  *)
(* small set of readings around the thresholds; files, averages and the     *)
(* wording of recommendations are left out, but for the one that says that  *)
(* nothing is wrong.                                                        *)
EXTENDS Integers, Sequences, FiniteSets, SequencesExt

CONSTANTS
  Losses,      \* packet loss of a sample, in percent
  Jitters,     \* its jitter, in milliseconds
  Estimates,   \* what SNREstimateFn may return, in dB: any number
  Stops,       \* calls of Stop
  MaxSamples   \* bound: ticks

ASSUME MonitorAssumption ==
  /\ Losses \subseteq Nat /\ Jitters \subseteq Nat /\ MaxSamples \in Nat
  /\ Losses # {} /\ Jitters # {} /\ Estimates \subseteq Int

VARIABLES
  estimator,  \* cfg.SNREstimateFn is set
  sampler,    \* where the sampling goroutine is
  snap,       \* the snapshot it is making
  stopCh,     \* m.stopCh is closed
  snapshots,  \* m.snapshots
  alerts,     \* m.alerts
  aggressiveness,  \* of the pipeline
  stopAt,     \* where each call of Stop is
  copied,     \* the snapshots it has copied
  report      \* the report it has built

monitorVars ==
  <<estimator, sampler, snap, stopCh, snapshots, alerts, aggressiveness, stopAt, copied, report>>
reportVars == <<estimator, stopAt, copied, report>>

poorLossPct == 3
poorJitterMs == 40
poorSNRDB == 15

(* max(0, 30 - 4 loss): above a loss of 7.5 percent nothing is left.        *)
estimateSNRFromLoss(loss) == IF loss * 4 >= 30 THEN 0 ELSE 30 - loss * 4

Reading(loss, jitter, snr) == [loss |-> loss, jitter |-> jitter, snr |-> snr]

(* What a sample may read: the SNR is what the callback says of it, and     *)
(* follows from the loss only where there is none.                          *)
ReadingsOf(withCallback) ==
  IF withCallback
  THEN {Reading(l, j, e) : l \in Losses, j \in Jitters, e \in Estimates}
  ELSE {Reading(l, j, estimateSNRFromLoss(l)) : l \in Losses, j \in Jitters}

(* checkThresholds; an SNR of 0 or less counts as unknown.                  *)
Alerting(s) ==
  \/ s.loss > poorLossPct
  \/ s.jitter > poorJitterMs
  \/ s.snr > 0 /\ s.snr < poorSNRDB

Wanted(s) ==
  IF s.loss > poorLossPct THEN 3 ELSE IF s.jitter > poorJitterMs THEN 2 ELSE 1

NoReport == [snaps |-> << >>, alertCount |-> 0, good |-> FALSE]
Readings == ReadingsOf(TRUE) \cup ReadingsOf(FALSE)

MonitorTypeOK ==
  /\ estimator \in BOOLEAN
  /\ sampler \in {"off", "select", "count", "tune", "append", "ended"}
  /\ snap \in Readings /\ stopCh \in BOOLEAN
  /\ snapshots \in Seq(Readings) /\ alerts \in 0 .. MaxSamples
  /\ aggressiveness \in 0 .. 3
  /\ stopAt \in [Stops -> {"before", "copy", "build", "done"}]
  /\ copied \in [Stops -> Seq(Readings)]
  /\ report \in [Stops -> [snaps : Seq(Readings), alertCount : 0 .. MaxSamples, good : BOOLEAN]]

NewRTPMonitor ==
  /\ estimator \in BOOLEAN
  /\ sampler = "off" /\ snap = (CHOOSE s \in Readings : TRUE) /\ stopCh = FALSE
  /\ snapshots = << >> /\ alerts = 0 /\ aggressiveness = 0
  /\ stopAt = [s \in Stops |-> "before"] /\ copied = [s \in Stops |-> << >>]
  /\ report = [s \in Stops |-> NoReport]

Start ==
  /\ sampler = "off" /\ sampler' = "select"
  /\ UNCHANGED <<snap, stopCh, snapshots, alerts, aggressiveness, reportVars>>

\* Mutant of Tick: only packet loss counts as an alert.
TickLossOnly ==
  /\ sampler = "select" /\ Len(snapshots) < MaxSamples
  /\ snap' \in ReadingsOf(estimator)
  /\ sampler' = IF snap'.loss > poorLossPct THEN "count" ELSE "tune"
  /\ UNCHANGED <<stopCh, snapshots, alerts, aggressiveness, reportVars>>

(* The loop: of a tick and a closed stopCh either may be taken.             *)
Tick ==
  /\ sampler = "select" /\ Len(snapshots) < MaxSamples
  /\ snap' \in ReadingsOf(estimator)
  /\ sampler' = IF Alerting(snap') THEN "count" ELSE "tune"
  /\ UNCHANGED <<stopCh, snapshots, alerts, aggressiveness, reportVars>>

LoopStops ==
  /\ sampler = "select" /\ stopCh /\ sampler' = "ended"
  /\ UNCHANGED <<snap, stopCh, snapshots, alerts, aggressiveness, reportVars>>

(* The alert is counted, OnAlert called, the pipeline tuned, and only then  *)
(* is the snapshot there to be seen.                                        *)
CountAlert ==
  /\ sampler = "count" /\ sampler' = "tune" /\ alerts' = alerts + 1
  /\ UNCHANGED <<snap, stopCh, snapshots, aggressiveness, reportVars>>

SetAggressiveness ==
  /\ sampler = "tune" /\ sampler' = "append" /\ aggressiveness' = Wanted(snap)
  /\ UNCHANGED <<snap, stopCh, snapshots, alerts, reportVars>>

AppendSnapshot ==
  /\ sampler = "append" /\ sampler' = "select" /\ snapshots' = Append(snapshots, snap)
  /\ UNCHANGED <<snap, stopCh, alerts, aggressiveness, reportVars>>

(* Stop, in whatever state the loop is, and more than once.                 *)
StopMonitor(s) ==
  /\ stopAt[s] = "before" /\ sampler # "off"
  /\ stopAt' = [stopAt EXCEPT ![s] = "copy"] /\ stopCh' = TRUE
  /\ UNCHANGED <<sampler, snap, snapshots, alerts, aggressiveness, estimator, copied, report>>

StopCopy(s) ==
  /\ stopAt[s] = "copy"
  /\ stopAt' = [stopAt EXCEPT ![s] = "build"] /\ copied' = [copied EXCEPT ![s] = snapshots]
  /\ UNCHANGED <<sampler, snap, stopCh, snapshots, alerts, aggressiveness, estimator, report>>

(* buildReport loads the counter after the snapshots were copied; recommend *)
(* says "Session quality is good" of a count of 0.                          *)
BuildReport(s) ==
  /\ stopAt[s] = "build" /\ stopAt' = [stopAt EXCEPT ![s] = "done"]
  /\ report' = [report EXCEPT ![s] =
                  [snaps |-> copied[s], alertCount |-> alerts, good |-> alerts = 0]]
  /\ UNCHANGED <<sampler, snap, stopCh, snapshots, alerts, aggressiveness, estimator, copied>>

MonitorNext ==
  \/ Start \/ Tick \/ LoopStops \/ CountAlert \/ SetAggressiveness \/ AppendSnapshot
  \/ \E s \in Stops : StopMonitor(s) \/ StopCopy(s) \/ BuildReport(s)

MonitorSpec == NewRTPMonitor /\ [][MonitorNext]_monitorVars

\* Goroutines run, and select does not pass over a closed channel for ever.
MonitorFairness ==
  /\ WF_monitorVars(CountAlert \/ SetAggressiveness \/ AppendSnapshot)
  /\ SF_monitorVars(LoopStops)

-----------------------------------------------------------------------------
(* Properties *)

Shown(snaps) == Cardinality({i \in DOMAIN snaps : Alerting(snaps[i])})

(* Stop does not wait for the sample in hand, and yet no report counts      *)
(* fewer alerts than its snapshots show; a session that had one is never    *)
(* reported as good.  The count may be ahead by the sample in hand.         *)
ReportCoversAlerts ==
  \A s \in Stops : stopAt[s] = "done" =>
    /\ report[s].alertCount >= Shown(report[s].snaps)
    /\ report[s].good => Shown(report[s].snaps) = 0

(* Between two samples the pipeline is set as the last snapshot calls for,  *)
(* and the counter is that of the snapshots.                                *)
TunedToLastSnapshot ==
  (sampler \in {"select", "ended"} /\ snapshots # << >>) =>
    /\ aggressiveness = Wanted(Last(snapshots))
    /\ alerts = Shown(snapshots)

(* A reading that is no better in loss, jitter and SNR than one that raised *)
(* an alert raises one too, and calls for no milder suppression.  The SNR   *)
(* that is estimated from the loss falls to 0, unknown, but then the loss   *)
(* itself alerts.  Nothing makes up for it where a callback says 0 or less: *)
(* that is the one exception, a call that is drowned and raises no alert.   *)
WorseAlertsToo ==
  \A s, t \in ReadingsOf(estimator) :
    (s.loss <= t.loss /\ s.jitter <= t.jitter /\ t.snr <= s.snr) =>
      /\ Alerting(s) => Alerting(t) \/ (estimator /\ t.snr <= 0)
      /\ Wanted(s) <= Wanted(t)

(* The sample in hand: an alert counted, and the pipeline tuned, before the *)
(* snapshot is there; what a Stop has copied is counted already.            *)
CountedAhead ==
  /\ alerts = Shown(snapshots) + (IF sampler \in {"tune", "append"} /\ Alerting(snap) THEN 1 ELSE 0)
  /\ Len(snapshots) + (IF sampler \in {"count", "tune", "append"} THEN 1 ELSE 0) <= MaxSamples
  /\ sampler = "off" => snapshots = << >>
  /\ sampler = "count" => Alerting(snap)
  /\ sampler = "append" => aggressiveness = Wanted(snap)
  /\ sampler \in {"count", "tune", "append"} => snap \in ReadingsOf(estimator)
  /\ \A s \in Stops : stopAt[s] = "build" => Shown(copied[s]) <= alerts

MonitorInv ==
  /\ MonitorTypeOK /\ ReportCoversAlerts /\ TunedToLastSnapshot /\ WorseAlertsToo
  /\ CountedAhead

(* Stop ends the sampling, also of a loop that is in the middle of a sample.*)
SamplingEnds == stopCh ~> sampler = "ended"
=============================================================================
