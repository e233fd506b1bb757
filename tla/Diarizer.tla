------------------------------ MODULE Diarizer ------------------------------
(* The energy diarizer (pkg/audio/diarize.go): each frame belongs to the    *)
(* near end, the far end or nobody, and segments are closed by another      *)
(* speaker or by a long silence, back to where it began.  The far end is    *)
(* reported by a goroutine of its own, also late or never, and Reset and    *)
(* Stats come at any time.  Time is counted in frames; energies are active  *)
(* or not.                                                                  *)
EXTENDS Integers, Sequences, SequencesExt

CONSTANTS
  SpeakerChangeGap,  \* frames of silence that end a segment
  MaxFrames          \* bound: frames since the last Reset

ASSUME DiarizerAssumption == SpeakerChangeGap \in Nat \ {0} /\ MaxFrames \in Nat

VARIABLES
  segments,     \* d.segments
  current,      \* d.current
  silStart,     \* d.silStartMs, or -1
  farActive,    \* whether d.farEndRMS reaches the threshold
  started, sessionStart,
  clock,        \* time of the next frame
  heard,        \* history: the labels returned since the session began
  stats         \* a Stats call: what it has read, what it returned

diarVars == <<segments, current, silStart, farActive, started, sessionStart, clock, heard, stats>>

Speakers == {"near", "far", "silence"}
Times == 0 .. 2 * MaxFrames
NoStats == [phase |-> "none", lasted |-> 0, total |-> 0]

DiarTypeOK ==
  /\ segments \in Seq([speaker : Speakers, start : Times, end : Times])
  /\ current \in [speaker : Speakers, start : Times]
  /\ silStart \in Times \cup {-1} /\ farActive \in BOOLEAN /\ started \in BOOLEAN
  /\ sessionStart \in Times /\ clock \in Times /\ heard \in Seq(Speakers)
  /\ stats \in [phase : {"none", "read", "reset", "done"}, lasted : Times, total : Times]

NewDiarizer ==
  /\ segments = << >> /\ current = [speaker |-> "silence", start |-> 0]
  /\ silStart = -1 /\ farActive = FALSE /\ started = FALSE
  /\ sessionStart = 0 /\ clock = 0 /\ heard = << >> /\ stats = NoStats

SetFarEndRMS ==
  /\ farActive' \in BOOLEAN
  /\ UNCHANGED <<segments, current, silStart, started, sessionStart, clock, heard, stats>>

Label(nearActive) == IF nearActive THEN "near" ELSE IF farActive THEN "far" ELSE "silence"

(* The segment in hand ends at e, and another speaker's begins there.       *)
Turn(open, speaker, e) ==
  /\ segments' = Append(segments, [speaker |-> open.speaker, start |-> open.start, end |-> e])
  /\ current' = [speaker |-> speaker, start |-> e]

(* ProcessFrame: speech of another speaker than the current one ends its    *)
(* segment now, silence ends it when it has lasted, as of its beginning.    *)
Speech(speaker, open) ==
  /\ silStart' = -1
  /\ IF open.speaker # speaker THEN Turn(open, speaker, clock)
     ELSE current' = open /\ UNCHANGED segments

\* Mutant of Silence: the segment ends where the silence is noticed.
SilenceNoticed(open) ==
  LET s == IF silStart < 0 THEN clock ELSE silStart
  IN  /\ silStart' = s
      /\ IF clock - s >= SpeakerChangeGap /\ open.speaker # "silence"
         THEN Turn(open, "silence", clock)
         ELSE current' = open /\ UNCHANGED segments

Silence(open) ==
  LET s == IF silStart < 0 THEN clock ELSE silStart
  IN  /\ silStart' = s
      /\ IF clock - s >= SpeakerChangeGap /\ open.speaker # "silence"
         THEN Turn(open, "silence", s)
         ELSE current' = open /\ UNCHANGED segments

ProcessFrame(nearActive) ==
  /\ Len(heard) < MaxFrames /\ clock < 2 * MaxFrames
  /\ clock' = clock + 1 /\ heard' = Append(heard, Label(nearActive))
  /\ started' = TRUE /\ sessionStart' = IF started THEN sessionStart ELSE clock
  /\ LET open == IF started THEN current ELSE [current EXCEPT !.start = clock]
     IN  IF Label(nearActive) = "silence" THEN Silence(open) ELSE Speech(Label(nearActive), open)
  /\ UNCHANGED <<farActive, stats>>

(* Reset keeps sessionStartMs until the next frame.                         *)
ResetDiarizer ==
  /\ heard # << >>
  /\ segments' = << >> /\ current' = [speaker |-> "silence", start |-> 0]
  /\ silStart' = -1 /\ started' = FALSE /\ farActive' = FALSE /\ heard' = << >>
  /\ stats' = IF stats.phase = "read" THEN [stats EXCEPT !.phase = "reset"] ELSE stats
  /\ UNCHANGED <<sessionStart, clock>>

(* Stats copies the segments under the lock, and reads the session's start  *)
(* without it.                                                              *)
StatsCopy ==
  /\ stats.phase \notin {"read", "reset"}
  /\ stats' = [phase |-> "read", total |-> 0,
               lasted |-> FoldLeft(LAMBDA n, s : n + s.end - s.start, 0, segments)]
  /\ UNCHANGED <<segments, current, silStart, farActive, started, sessionStart, clock, heard>>

StatsTotal ==
  /\ stats.phase \in {"read", "reset"}
  /\ stats' = IF stats.phase = "read"
              THEN [stats EXCEPT !.phase = "done", !.total = clock - sessionStart] ELSE NoStats
  /\ UNCHANGED <<segments, current, silStart, farActive, started, sessionStart, clock, heard>>

DiarNext ==
  SetFarEndRMS \/ (\E a \in BOOLEAN : ProcessFrame(a)) \/ ResetDiarizer \/ StatsCopy \/ StatsTotal

DiarSpec == NewDiarizer /\ [][DiarNext]_diarVars

-----------------------------------------------------------------------------
(* Properties *)

\* The frames of the silent run around frame t, as far as heard.
SilentRun(t) ==
  {u \in DOMAIN heard : \A v \in DOMAIN heard :
     (v >= (IF t < u THEN t ELSE u) /\ v <= (IF t < u THEN u ELSE t)) => heard[v] = "silence"}

(* Whose frame t is, by the labels alone: its own speaker's, or, in a pause *)
(* shorter than the gap, that of the speaker before it.                     *)
Owner(t) ==
  LET run == SilentRun(t)
      first == CHOOSE u \in run : \A v \in run : u <= v
      last == CHOOSE u \in run : \A v \in run : v <= u
  IN  IF heard[t] # "silence" THEN heard[t]
      ELSE IF last - first >= SpeakerChangeGap \/ first = 1 THEN "silence"
      ELSE heard[first - 1]

(* The segments are what the labels say: they follow each other without a   *)
(* gap, the speaker changes at each border, and every frame so far lies in  *)
(* the segment of its owner, however late a silence was recognised.         *)
SegmentsMatchLabels ==
  LET Covers(s, t) == s.start <= sessionStart + t - 1 /\ sessionStart + t - 1 < s.end
      all == Append(segments, [speaker |-> current.speaker, start |-> current.start, end |-> clock])
  IN  started =>
        /\ all[1].start = sessionStart
        /\ \A i \in 1 .. Len(segments) :
             all[i].end = all[i + 1].start /\ all[i].speaker # all[i + 1].speaker
        /\ \A t \in DOMAIN heard : \E i \in DOMAIN all :
             Covers(all[i], t) /\ all[i].speaker = Owner(t)

(* A summary never shows more speech and silence than time has passed,      *)
(* unless a Reset came between its two reads.                               *)
StatsFit == stats.phase = "done" => stats.lasted <= stats.total

(* A session's frames are those heard since its first, at its start; before *)
(* it nothing is kept of the last one.                                      *)
SessionKept ==
  /\ sessionStart <= clock
  /\ IF started THEN heard # << >> /\ clock = sessionStart + Len(heard)
     ELSE heard = << >> /\ segments = << >> /\ current.speaker = "silence" /\ silStart = -1

(* The speaker in hand is the owner of the last frame, and a silence that   *)
(* goes on is known from its first frame.                                   *)
SilenceTracked ==
  LET n == Len(heard)
      a == silStart - sessionStart + 1
  IN  started =>
        /\ current.start \in sessionStart .. clock /\ current.speaker = Owner(n)
        /\ IF heard[n] # "silence" THEN silStart = -1
           ELSE /\ a \in 1 .. n /\ \A u \in a .. n : heard[u] = "silence"
                /\ a = 1 \/ heard[a - 1] # "silence"

(* What a summary has read fits the time that has passed since.             *)
ReadFits ==
  stats.phase = "read" => stats.lasted <= clock - sessionStart /\ (started \/ stats.lasted = 0)

DiarInv == DiarTypeOK /\ SegmentsMatchLabels /\ StatsFit /\ SessionKept /\ SilenceTracked /\ ReadFits
=============================================================================
