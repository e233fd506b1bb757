-------------------------- MODULE StreamResampler --------------------------
(* The sample-rate conversions (pkg/audio/resample.go): the pair of causal  *)
(* 3:1 filters that Process48k (pipeline.go) runs frame by frame with the   *)
(* end of the last frame as history, across failing stages and resets, and  *)
(* the conversions of a whole buffer, with the channel and peak helpers.    *)
(*                                                                          *)
(* A sample is its position in the stream, counted from the last reset, and *)
(* negative in the silence before it; an output is its window, which sample *)
(* each tap of the filter meets.  The filter coefficients are left out.     *)
EXTENDS Integers, Sequences, FiniteSets, SequencesExt, FiniteSetsExt

CONSTANTS
  Taps,        \* kaiser3xL, L of the 2x filters: odd
  LinearTaps,  \* L of linearResample: even
  Frame48,     \* samples in a frame of Process48k, a multiple of 3
  Stream48,    \* bound: frames between two resets
  Rates,       \* input rates of the pipeline
  Buffers,     \* lengths of the buffers converted at once
  Pcm          \* values of the samples of ToMono and Normalize

ASSUME ResamplerAssumption ==
  /\ Taps \in Nat /\ Taps % 2 = 1 /\ LinearTaps \in Nat /\ LinearTaps % 2 = 0
  /\ Frame48 \in Nat \ {0} /\ Frame48 % 3 = 0 /\ Stream48 \in Nat
  /\ Rates \subseteq Nat \ {0} /\ Buffers \subseteq Nat /\ Pcm \subseteq Int

VARIABLES
  downHist, upHist,      \* p.resample48kDownHist, p.resample48kUpHist
  fed48,                   \* history: frames fed since the reset
  made,                  \* history: the 16 kHz samples that reached the second filter
  downWindows, upWindows,\* history: the windows of the last frame
  converted              \* history: the last conversion of a buffer, and its windows

resamplerVars == <<downHist, upHist, fed48, made, downWindows, upWindows, converted>>
stream48Vars == <<downHist, upHist, fed48, made, downWindows, upWindows>>

Before(n) == [i \in 1 .. n |-> i - 1 - n]
DownHistLen == Taps - 1
UpHistLen == (Taps - 1 + 2) \div 3
Narrow == Frame48 \div 3

NothingConverted == [from |-> 1, to |-> 1, length |-> 0, windows |-> << >>]

ResamplerTypeOK ==
  /\ downHist \in Seq(Int) /\ Len(downHist) = DownHistLen
  /\ upHist \in Seq(Int) /\ Len(upHist) = UpHistLen
  /\ fed48 \in 0 .. Stream48 /\ made \in Seq(Nat) /\ Len(made) <= Stream48 * Narrow
  /\ DOMAIN downWindows \in {{}, 0 .. Narrow - 1} /\ DOMAIN upWindows \in {{}, 0 .. Frame48 - 1}
  /\ converted.length \in Buffers \cup {0}

ResamplerInit ==
  /\ downHist = Before(DownHistLen) /\ upHist = Before(UpHistLen)
  /\ fed48 = 0 /\ made = << >> /\ downWindows = << >> /\ upWindows = << >>
  /\ converted = NothingConverted

-----------------------------------------------------------------------------
(* The stateful pair *)

LastN(s, n) == SubSeq(s, Len(s) - n + 1, Len(s))

DownWindows(combined) ==
  [i \in 0 .. Narrow - 1 |-> {<<k, combined[3 * i + k + 1]>> : k \in 0 .. Taps - 1}]

\* Taps meet a sample at every third place, zeros between.
UpWindows(combined, past) ==
  [i \in 0 .. Frame48 - 1 |->
     LET pos(k) == 3 * past + i - (Taps - 1) + k
         meets == {k \in 0 .. Taps - 1 :
                     pos(k) >= 0 /\ pos(k) % 3 = 0 /\ pos(k) \div 3 < Len(combined)}
     IN  {<<k, combined[pos(k) \div 3 + 1]>> : k \in meets}]

\* Mutant of NextHist: as before the filters kept state, each call starts from silence.
NextHistForgotten(combined, n) == Before(n)

NextHist(combined, n) == LastN(combined, n)

(* Process48k: the first filter runs before the stages that may fail, the   *)
(* second after them.                                                       *)
Process48k(fails) ==
  /\ fed48 < Stream48 /\ fed48' = fed48 + 1
  /\ LET down == downHist \o [i \in 1 .. Frame48 |-> fed48 * Frame48 + i - 1]
         processed == [i \in 1 .. Narrow |-> fed48 * Narrow + i - 1]
         up == upHist \o processed
     IN  /\ downWindows' = DownWindows(down) /\ downHist' = NextHist(down, DownHistLen)
         /\ IF fails THEN UNCHANGED <<upHist, upWindows, made>>
            ELSE /\ upWindows' = UpWindows(up, Len(upHist)) /\ upHist' = NextHist(up, UpHistLen)
                 /\ made' = made \o processed
  /\ UNCHANGED converted

ResetResampler ==
  /\ fed48 > 0 /\ downHist' = Before(DownHistLen) /\ upHist' = Before(UpHistLen)
  /\ fed48' = 0 /\ made' = << >> /\ downWindows' = << >> /\ upWindows' = << >>
  /\ UNCHANGED converted

-----------------------------------------------------------------------------
(* Conversions of a buffer of n samples; outputs are counted from 0.        *)

Half == (Taps - 1) \div 2

\* Left of the buffer the signal is its odd reflection, right of it silence.
Reflected(n, k, at) ==
  IF at >= 0 /\ at < n THEN {<<k, at, 1>>}
  ELSE IF at < 0 /\ -at < n THEN {<<k, -at, -1>>} ELSE {}

kaiserFIRUpsample2x(n) ==
  [i \in 0 .. 2 * n - 1 |->
     UNION {Reflected(n, k, (i - k + Half) \div 2) :
              k \in {j \in 0 .. Taps - 1 : i - j + Half < 2 * n /\ (i - j + Half) % 2 = 0}}]

kaiserFIRDownsample2x(n) ==
  [i \in 0 .. (n + 1) \div 2 - 1 |->
     UNION {Reflected(n, k, 2 * i - Half + k) : k \in 0 .. Taps - 1}]

Rounded(a, b) == (2 * a + b) \div (2 * b)

Centre(i, src, dst) == Rounded(i * src, dst)
linearLength(n, src, dst) == Rounded(n * dst, src)

linearResample(n, src, dst) ==
  [i \in 0 .. linearLength(n, src, dst) - 1 |->
     LET at(k) == Centre(i, src, dst) - (LinearTaps \div 2 - 1) + k
     IN  {<<k, at(k), 1>> : k \in {j \in 0 .. LinearTaps - 1 : at(j) >= 0 /\ at(j) < n}}]

Resample(n, src, dst) ==
  IF src = 1 /\ dst = 2 THEN kaiserFIRUpsample2x(n)
  ELSE IF src = 2 /\ dst = 1 THEN kaiserFIRDownsample2x(n)
  ELSE linearResample(n, src, dst)

(* Rates as ratios: 1 is 8 kHz, 2 is 16, 3 is 24.                           *)
Convert(n, src, dst) ==
  /\ src # dst
  /\ converted' = [from |-> src, to |-> dst, length |-> n, windows |-> Resample(n, src, dst)]
  /\ UNCHANGED stream48Vars

\* Go's division truncates.
Quotient(a, b) == IF a < 0 THEN -((-a) \div b) ELSE a \div b
Magnitude(v) == IF v < 0 THEN -v ELSE v

ToMono(samples, channels) ==
  IF channels <= 1 THEN samples
  ELSE [i \in 1 .. Len(samples) \div channels |->
          Quotient(FoldLeft(+, 0, SubSeq(samples, (i - 1) * channels + 1, i * channels)), channels)]

ToStereo(samples) == [i \in 1 .. 2 * Len(samples) |-> samples[(i + 1) \div 2]]

Normalize(samples, maxAbs) ==
  LET peak == FoldLeft(LAMBDA p, s : IF Magnitude(s) > p THEN Magnitude(s) ELSE p, 0, samples)
  IN  IF peak <= maxAbs THEN samples
      ELSE [i \in DOMAIN samples |-> Quotient(samples[i] * maxAbs, peak)]

-----------------------------------------------------------------------------
ResamplerNext ==
  \/ \E fails \in BOOLEAN : Process48k(fails)
  \/ ResetResampler
  \/ \E n \in Buffers, src, dst \in 1 .. 3 : Convert(n, src, dst)

ResamplerSpec == ResamplerInit /\ [][ResamplerNext]_resamplerVars

-----------------------------------------------------------------------------
(* Properties *)

(* Frame by frame is as good as the whole stream: what each output of the   *)
(* last frame sees is what one filter over everything fed since the reset   *)
(* would, its newest sample three for each output, with no seam between     *)
(* frames, and no sample from before the reset.                             *)
DownSeamless ==
  \A i \in DOMAIN downWindows :
    downWindows[i] = {<<k, (fed48 - 1) * Frame48 + 3 * i - (Taps - 1) + k>> : k \in 0 .. Taps - 1}

(* The second filter sees the stream of frames that reached it, of the      *)
(* others nothing: at a frame that failed the sound is cut, not mixed with  *)
(* silence, and no tap meets a sample later than its output.                *)
UpSeamless ==
  \A i \in DOMAIN upWindows :
    LET o == 3 * (Len(made) - Narrow) + i
        sample(j) == IF j < 0 THEN j ELSE made[j + 1]
    IN  upWindows[i] =
          {<<3 * j - o + Taps - 1, sample(j)>> :
             j \in {m \in -UpHistLen .. Len(made) - 1 : 3 * m <= o /\ 3 * m >= o - (Taps - 1)}}

(* An output of a buffer meets only samples of the buffer, each at the tap  *)
(* that is its distance away; away from the ends it meets as many as the    *)
(* filter has.                                                              *)
WindowsCentred ==
  LET n == converted.length
      w == converted.windows
      up == converted.from = 1 /\ converted.to = 2
      whole(i) == Rounded(i * converted.from, converted.to)
      linear == ~up /\ ~(converted.from = 2 /\ converted.to = 1)
  IN  \A i \in DOMAIN w :
        /\ \A t \in w[i] : t[2] \in 0 .. n - 1
        /\ (whole(i) >= Taps + LinearTaps /\ whole(i) < n - Taps - LinearTaps) =>
             /\ Cardinality(w[i]) = IF linear THEN LinearTaps
                                    ELSE IF up THEN Cardinality({k \in 0 .. Taps - 1 : (i - k + Half) % 2 = 0})
                                    ELSE Taps
             /\ \A t, u \in w[i] : t[1] < u[1] => IF up THEN t[2] > u[2] ELSE t[2] < u[2]

(* A frame of the pipeline, n samples, becomes one of the suppressor's, 160,*)
(* exactly where the part of a sample it leaves out is small against the    *)
(* rate, as at all the usual ones; it comes back with the length it had or, *)
(* where it leaves out half a sample or more, as at 22050 Hz, one sample    *)
(* longer, each of them.                                                    *)
FramesKeepLength ==
  \A r \in Rates : r >= 100 =>
    LET n == (160 * r) \div 16000
    IN  /\ linearLength(n, r, 16000) = 160 <=> 320 * (r % 100) <= r
        /\ linearLength(160, 16000, r) = IF r % 100 >= 50 THEN n + 1 ELSE n

(* Mono stays within the channels it came from and is undone by ToStereo,   *)
(* and nothing normalized exceeds the peak allowed, the most negative       *)
(* sample included.                                                         *)
MonoAndPeak ==
  /\ \A a, b \in Pcm :
       LET m == ToMono(<<a, b>>, 2)[1]
       IN  /\ m >= IF a < b THEN a ELSE b
           /\ m <= IF a < b THEN b ELSE a
           /\ ToMono(ToStereo(<<a, b>>), 2) = <<a, b>>
  /\ \A a, b \in Pcm : \A maxAbs \in {p \in Pcm : p >= 0} :
       \A i \in 1 .. 2 : Magnitude(Normalize(<<a, b>>, maxAbs)[i]) <= maxAbs

\* The histories are the last samples fed and made, or the silence before them.
HistoriesKept ==
  /\ downHist = [i \in 1 .. DownHistLen |-> fed48 * Frame48 + i - 1 - DownHistLen]
  /\ upHist = [i \in 1 .. UpHistLen |->
                LET j == Len(made) - UpHistLen + i - 1 IN IF j < 0 THEN j ELSE made[j + 1]]
  /\ Len(made) <= fed48 * Narrow

ResamplerInv ==
  /\ ResamplerTypeOK /\ HistoriesKept /\ DownSeamless /\ UpSeamless /\ WindowsCentred
  /\ FramesKeepLength /\ MonoAndPeak
=============================================================================
