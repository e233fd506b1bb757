-------------------------- MODULE TranscriptScorer --------------------------
(* Scoring of transcripts (pkg/eval/transcript.go): the ratio of matching   *)
(* characters or words, by a longest common subsequence kept in two rows,   *)
(* and, where an endpoint is configured, the opinion of a language model,   *)
(* asked no more often than the rate limit allows, over a list of pairs and *)
(* under a context that may be cancelled.                                   *)
(*                                                                          *)
(* A text is a sequence of tokens, its runes or its words, normalised.      *)
EXTENDS Integers, Sequences, FiniteSets, SequencesExt

CONSTANTS
  Texts,        \* the transcripts
  Delay,        \* cfg.RateLimitDelay, 0 for the default
  CallTime,     \* the longest a call to the model takes
  MaxPairs      \* bound: pairs given to ScoreAll

ASSUME ScorerAssumption ==
  /\ \A t \in Texts : t \in Seq(Nat)
  /\ {Delay, CallTime, MaxPairs} \subseteq Nat

VARIABLES
  scoring,      \* "next" pair, "limit" (waiting), "ask"
  pair,         \* the pair in hand
  now, lastCall,    \* the clock, s.last
  endpoint, ctxDone,
  rows, skipped, nLLM,   \* of ScoreAll
  seen,         \* history: pairs taken
  calls         \* history: when calls began and ended

scorerVars == <<scoring, pair, now, lastCall, endpoint, ctxDone, rows, skipped, nLLM, seen, calls>>

RateLimitDelay == IF Delay = 0 THEN 1 ELSE Delay

ScorerTypeOK ==
  /\ scoring \in {"next", "limit", "ask"} /\ pair \in Texts \X Texts
  /\ now \in Nat /\ lastCall \in Int /\ endpoint \in BOOLEAN /\ ctxDone \in BOOLEAN
  /\ rows \in Seq([pair : Texts \X Texts, matched : Nat, llm : -1 .. 1, error : BOOLEAN])
  /\ calls \in Seq([from : Nat, to : Nat])
  /\ {skipped, nLLM, seen} \subseteq 0 .. MaxPairs

\* s.last begins as the zero time, long ago.
ScorerInit ==
  /\ scoring = "next" /\ pair \in {p \in Texts \X Texts : p[1] = << >> /\ p[2] = << >>}
  /\ now = 0 /\ lastCall = -RateLimitDelay /\ endpoint \in BOOLEAN /\ ctxDone = FALSE
  /\ rows = << >> /\ skipped = 0 /\ nLLM = 0 /\ seen = 0 /\ calls = << >>

-----------------------------------------------------------------------------
Larger(a, b) == IF a > b THEN a ELSE b

(* The row of token x from the one before: entry j + 1 is for the first j   *)
(* tokens of b.                                                             *)
NextRow(prev, x, b) ==
  FoldLeftDomain(LAMBDA curr, j :
    Append(curr, IF x = b[j] THEN prev[j] + 1 ELSE Larger(prev[j + 1], curr[j])), <<0>>, b)

lcsMatcher(a, b) ==
  FoldLeft(LAMBDA prev, x : NextRow(prev, x, b), [j \in 1 .. Len(b) + 1 |-> 0], a)[Len(b) + 1]

(* The score is twice the matches over the tokens of both.                  *)
Row(p, llm, error) == [pair |-> p, matched |-> lcsMatcher(p[1], p[2]), llm |-> llm, error |-> error]

-----------------------------------------------------------------------------
(* ScoreAll takes the next pair; one with an empty side is skipped, one that*)
(* needs no opinion is done.                                                *)
TakePair(p) ==
  /\ scoring = "next" /\ seen < MaxPairs /\ seen' = seen + 1 /\ pair' = p
  /\ IF p[1] = << >> \/ p[2] = << >>
     THEN skipped' = skipped + 1 /\ UNCHANGED <<rows, scoring>>
     ELSE /\ UNCHANGED skipped
          /\ IF endpoint THEN scoring' = "limit" /\ UNCHANGED rows
             ELSE rows' = Append(rows, Row(p, -1, FALSE)) /\ UNCHANGED scoring
  /\ UNCHANGED <<now, lastCall, endpoint, ctxDone, nLLM, calls>>

(* The wait for the rate limit, which a cancelled context ends: the row     *)
(* keeps its text scores.                                                   *)
Waited ==
  /\ scoring = "limit" /\ scoring' = "ask"
  /\ now' = Larger(now, lastCall + RateLimitDelay)
  /\ UNCHANGED <<pair, lastCall, endpoint, ctxDone, rows, skipped, nLLM, seen, calls>>

WaitCancelled ==
  /\ scoring = "limit" /\ ctxDone /\ now - lastCall < RateLimitDelay
  /\ scoring' = "next" /\ rows' = Append(rows, Row(pair, -1, TRUE))
  /\ UNCHANGED <<pair, now, lastCall, endpoint, ctxDone, skipped, nLLM, seen, calls>>

(* llmScore: an answer in 0 .. 1, or an error, which is dropped.            *)
Answer(took, llm) ==
  /\ scoring = "ask" /\ scoring' = "next"
  /\ ctxDone => llm = -1
  /\ now' = now + took /\ lastCall' = now + took
  /\ rows' = Append(rows, Row(pair, llm, FALSE))
  /\ nLLM' = nLLM + (IF llm >= 0 THEN 1 ELSE 0)
  /\ calls' = Append(calls, [from |-> now, to |-> now + took])
  /\ UNCHANGED <<pair, endpoint, ctxDone, skipped, seen>>

CancelScoring ==
  /\ ~ctxDone /\ ctxDone' = TRUE
  /\ UNCHANGED <<scoring, pair, now, lastCall, endpoint, rows, skipped, nLLM, seen, calls>>

ScorerNext ==
  \/ \E p \in Texts \X Texts : TakePair(p)
  \/ Waited \/ WaitCancelled \/ CancelScoring
  \/ \E took \in 0 .. CallTime, llm \in -1 .. 1 : Answer(took, llm)

ScorerSpec == ScorerInit /\ [][ScorerNext]_scorerVars

-----------------------------------------------------------------------------
(* Properties *)

\* k of the first n places of a text, in order.
Places(k, n) == {s \in [1 .. k -> 1 .. n] : \A i, j \in 1 .. k : i < j => s[i] < s[j]}

\* The first m tokens of a and the first n of b have k in common, in order.
CommonSubsequence(a, m, b, n, k) ==
  \E s \in Places(k, m), t \in Places(k, n) : \A i \in 1 .. k : a[s[i]] = b[t[i]]

\* ... and no more.
IsLongest(a, m, b, n, k) ==
  CommonSubsequence(a, m, b, n, k) /\ ~CommonSubsequence(a, m, b, n, k + 1)

(* The two rows find the longest common subsequence, neither less nor more, *)
(* whatever the order of the two texts.                                     *)
MatchedIsLongest ==
  \A r \in Range(rows) :
    /\ IsLongest(r.pair[1], Len(r.pair[1]), r.pair[2], Len(r.pair[2]), r.matched)
    /\ r.matched = lcsMatcher(r.pair[2], r.pair[1])

(* The model is asked no sooner than the delay after its last answer, and   *)
(* whatever fails or is cancelled no pair is lost: each is skipped or has   *)
(* its row, and the average of opinions is over those that were given.      *)
AskedSlowly == \A i \in 1 .. Len(calls) - 1 : calls[i + 1].from - calls[i].to >= RateLimitDelay

PairsAccountedFor ==
  /\ Len(rows) + skipped + (IF scoring = "next" THEN 0 ELSE 1) = seen
  /\ nLLM = Cardinality({i \in 1 .. Len(rows) : rows[i].llm >= 0})

\* s.last is the end of the latest call; a request goes out after the delay.
LastKept ==
  /\ lastCall = IF calls = << >> THEN -RateLimitDelay ELSE calls[Len(calls)].to
  /\ scoring = "ask" => now - lastCall >= RateLimitDelay

ScorerInv == ScorerTypeOK /\ MatchedIsLongest /\ AskedSlowly /\ PairsAccountedFor /\ LastKept
=============================================================================
