------------------------------- MODULE HttpApi -------------------------------
(* The HTTP API (pkg/http/handler.go): requests served concurrently, each   *)
(* with its exit paths, its temporary files and two sets of counters: plain *)
(* fields incremented without a lock, in a load and a store, and            *)
(* Prometheus counters, incremented atomically.  The running average is of  *)
(* the first kind, and like bodies and headers left out.                    *)
EXTENDS Integers, Sequences, FiniteSets

CONSTANT Requests

ASSUME HttpAssumption == IsFiniteSet(Requests)

VARIABLES
  handler,  \* the handler ServeHTTP routed each request to, or "none"
  at,       \* what the request is at: a stage, a step of a counter, its reply
  stage,    \* the stage it has reached in its handler
  counter,  \* the counter it increments
  loaded,   \* the value of the plain counter it has loaded
  due,      \* the status it will answer with
  status,   \* the statuses written so far
  temp,     \* its temporary files
  json,     \* the plain counters
  prom      \* the Prometheus counters

httpVars == <<handler, at, stage, counter, loaded, due, status, temp, json, prom>>
requestVars == <<handler, stage, loaded, status, temp>>

Counters == {"total", "ok", "failed"}

-----------------------------------------------------------------------------
(* Construction *)

GoodRates == {8000, 16000, 32000, 48000}

HandlerConfigs == [suppressor : {"nil", "given"}, sampleRate : {0, 8000, 44100},
                   channels : {-1, 0, 2, 3}, poolSize : {-1, 0, 5}]

GoodField(c) == [suppressor |-> c.suppressor # "nil",
                 sampleRate |-> c.sampleRate \in GoodRates \cup {0},
                 channels |-> c.channels \in 0 .. 2,
                 poolSize |-> c.poolSize >= 0]

Validate(c) == \A f \in DOMAIN c : GoodField(c)[f]

Safe == [suppressor |-> "passthrough", sampleRate |-> 0, channels |-> 0, poolSize |-> 0]

Defaults(c) == [c EXCEPT !.sampleRate = IF @ = 0 THEN 16000 ELSE @,
                         !.channels = IF @ = 0 THEN 1 ELSE @]

(* Each bad field is repaired, not only the one Validate reports.           *)
NewHandler(c) == Defaults([f \in DOMAIN c |-> IF GoodField(c)[f] THEN c[f] ELSE Safe[f]])

-----------------------------------------------------------------------------
(* Formats of the response *)

CodecFamily == [mp3 |-> "mp3", libmp3lame |-> "mp3", opus |-> "opus", libopus |-> "opus",
                ogg |-> "opus", flac |-> "flac", pcm_s16le |-> "pcm", pcm_mulaw |-> "pcm",
                pcm_alaw |-> "pcm", wav |-> "pcm", aac |-> "aac", m4a |-> "aac"]

(* codecToExt, "" for a codec it does not know.                             *)
codecToExt(codec) ==
  IF codec \notin DOMAIN CodecFamily THEN ""
  ELSE [mp3 |-> "mp3", opus |-> "opus", flac |-> "flac", pcm |-> "wav", aac |-> "aac"]
         [CodecFamily[codec]]

(* inferOutputCodec of pkg/file, which encodes to that extension.           *)
inferOutputCodec(ext) ==
  LET of == [mp3 |-> "mp3", opus |-> "opus", ogg |-> "opus", flac |-> "flac", wav |-> "pcm"]
  IN  IF ext \in DOMAIN of THEN of[ext] ELSE "aac"

(* extToMIME: an .opus file has no audio type of its own.                   *)
extToMIME(ext) ==
  LET of == [mp3 |-> "mpeg", wav |-> "wav", ogg |-> "ogg", aac |-> "aac", m4a |-> "aac",
             flac |-> "flac", mp4 |-> "mp4", mkv |-> "matroska"]
  IN  IF ext \in DOMAIN of THEN of[ext] ELSE "octet-stream"

-----------------------------------------------------------------------------
(* Requests *)

HttpTypeOK ==
  /\ handler \in [Requests -> {"none", "enhance", "dir", "stream", "page"}]
  /\ at \in [Requests -> {"away", "work", "load", "store", "inc", "reply", "returned"}]
  /\ stage \in [Requests -> 1 .. 7]
  /\ counter \in [Requests -> Counters]
  /\ loaded \in [Requests -> 0 .. Cardinality(Requests)]
  /\ due \in [Requests -> {200, 400, 404, 405, 500}]
  /\ status \in [Requests -> Seq({200, 400, 404, 405, 500})]
  /\ temp \in [Requests -> SUBSET {"in", "out"}]
  /\ json \in [Counters -> Nat] /\ prom \in [Counters -> Nat]

HttpInit ==
  /\ handler = [r \in Requests |-> "none"] /\ at = [r \in Requests |-> "away"]
  /\ stage = [r \in Requests |-> 1] /\ counter = [r \in Requests |-> "total"]
  /\ loaded = [r \in Requests |-> 0] /\ due = [r \in Requests |-> 200]
  /\ status = [r \in Requests |-> << >>] /\ temp = [r \in Requests |-> {}]
  /\ json = [c \in Counters |-> 0] /\ prom = [c \in Counters |-> 0]

Go(r, a, c, d) ==
  /\ at' = [at EXCEPT ![r] = a] /\ counter' = [counter EXCEPT ![r] = c]
  /\ due' = [due EXCEPT ![r] = d]

(* The routes: a preflight, the endpoints that answer at once, an unknown   *)
(* one, a stream by GET, and the three that work.                           *)
ServeHTTP(r) ==
  /\ at[r] = "away"
  /\ \E h \in {"enhance", "dir", "stream", "page"} :
       /\ handler' = [handler EXCEPT ![r] = h]
       /\ \/ h \in {"enhance", "dir"} /\ Go(r, "load", "total", 200)
          \/ h = "stream" /\ (Go(r, "work", "ok", 200) \/ Go(r, "reply", "total", 405))
          \/ h = "page" /\ \E d \in {200, 404} : Go(r, "reply", "total", d)
  /\ UNCHANGED <<stage, loaded, status, temp, json, prom>>

(* h.metrics.X++: the load, the store, and then the atomic Inc.             *)
Load(r) ==
  /\ at[r] = "load"
  /\ loaded' = [loaded EXCEPT ![r] = json[counter[r]]]
  /\ Go(r, "store", counter[r], due[r])
  /\ UNCHANGED <<handler, stage, status, temp, json, prom>>

Store(r) ==
  /\ at[r] = "store"
  /\ json' = [json EXCEPT ![counter[r]] = loaded[r] + 1]
  /\ Go(r, "inc", counter[r], due[r])
  /\ UNCHANGED <<requestVars, prom>>

Inc(r) ==
  /\ at[r] = "inc"
  /\ prom' = [prom EXCEPT ![counter[r]] = @ + 1]
  /\ Go(r, IF counter[r] = "total" THEN "work" ELSE "reply", counter[r], due[r])
  /\ UNCHANGED <<requestVars, json>>

(* The stages of /enhance: parse the form, find its field, create the input *)
(* file, copy, create the output file, process, open the result; those of   *)
(* /enhance/dir: decode the body, find its directories, run the batch.      *)
LastStage(r) == [enhance |-> 7, dir |-> 3, stream |-> 1][handler[r]]

Creates(r) ==
  IF handler[r] # "enhance" THEN {}
  ELSE CASE stage[r] = 3 -> {"in"} [] stage[r] = 5 -> {"out"} [] OTHER -> {}

Pass(r) ==
  /\ at[r] = "work" /\ stage[r] < LastStage(r)
  /\ stage' = [stage EXCEPT ![r] = @ + 1]
  /\ temp' = [temp EXCEPT ![r] = @ \cup Creates(r)]
  /\ UNCHANGED <<handler, at, counter, loaded, due, status, json, prom>>

(* A failed stage is counted before it is answered; files of a batch that   *)
(* failed are counted as one failed request, which is answered with 200.    *)
FailRequest(r) ==
  /\ at[r] = "work" /\ handler[r] # "stream"
  /\ Go(r, "load", "failed", IF stage[r] <= 2 THEN 400
                             ELSE IF handler[r] = "dir" THEN 200 ELSE 500)
  /\ UNCHANGED <<requestVars, json, prom>>

(* /enhance writes its header and body before it counts, /enhance/dir after.*)
Succeed(r) ==
  /\ at[r] = "work" /\ handler[r] # "stream" /\ stage[r] = LastStage(r)
  /\ Go(r, "load", "ok", 200)
  /\ status' = [status EXCEPT ![r] = IF handler[r] = "enhance" THEN <<200>> ELSE @]
  /\ UNCHANGED <<handler, stage, loaded, temp, json, prom>>

(* A stream has sent its header with its first chunk: an error ends it with *)
(* no other status and no counter, a success counts in Prometheus alone.    *)
StreamEnds(r) ==
  /\ at[r] = "work" /\ handler[r] = "stream"
  /\ Go(r, "inc", "ok", 200) \/ Go(r, "reply", "failed", 200)
  /\ UNCHANGED <<requestVars, json, prom>>

\* Mutant of Return: the output file is not among the deferred removals.
ReturnLittering(r) ==
  /\ at[r] = "reply"
  /\ Go(r, "returned", counter[r], due[r])
  /\ status' = [status EXCEPT ![r] = IF @ = << >> THEN <<due[r]>> ELSE @]
  /\ temp' = [temp EXCEPT ![r] = @ \ {"in"}]
  /\ UNCHANGED <<handler, stage, loaded, json, prom>>

(* The handler writes its status, unless it has, and its defers run.        *)
Return(r) ==
  /\ at[r] = "reply"
  /\ Go(r, "returned", counter[r], due[r])
  /\ status' = [status EXCEPT ![r] = IF @ = << >> THEN <<due[r]>> ELSE @]
  /\ temp' = [temp EXCEPT ![r] = {}]
  /\ UNCHANGED <<handler, stage, loaded, json, prom>>

HttpNext ==
  \E r \in Requests : \/ ServeHTTP(r) \/ Load(r) \/ Store(r) \/ Inc(r) \/ Pass(r)
                      \/ FailRequest(r) \/ Succeed(r) \/ StreamEnds(r) \/ Return(r)

HttpSpec == HttpInit /\ [][HttpNext]_httpVars

-----------------------------------------------------------------------------
(* Properties *)

HasStored(r, c) ==
  /\ handler[r] \in {"enhance", "dir"}
  /\ \/ c = "total" /\ (counter[r] # "total" \/ at[r] \in {"inc", "work"})
     \/ c = counter[r] /\ at[r] \in {"inc", "reply", "returned"}

HasCounted(r, c) == HasStored(r, c) /\ ~(counter[r] = c /\ at[r] = "inc")

Stored(c) == {r \in Requests : HasStored(r, c)}
Counted(c) == {r \in Requests : HasCounted(r, c)}
Streamed == {r \in Requests : /\ handler[r] = "stream" /\ counter[r] = "ok"
                              /\ at[r] \in {"reply", "returned"}}
Serving == Counted("total") \ (Counted("ok") \cup Counted("failed"))

(* The lost updates of the plain counters only ever lose: none of them is   *)
(* above the number of requests that have come to it.                       *)
NeverOvercounted == \A c \in Counters : json[c] <= Cardinality(Stored(c))

(* The Prometheus counters balance on every exit path: what was received    *)
(* has succeeded, has failed, or is still being served.  Streams count in   *)
(* the second only.                                                         *)
PrometheusBalances ==
  prom.total + Cardinality(Streamed) = prom.ok + prom.failed + Cardinality(Serving)

(* A request is answered once, after its work, and an upload with 200 only  *)
(* if it is counted among the successful ones.                              *)
AnsweredAsCounted ==
  \A r \in Requests :
    /\ Len(status[r]) <= 1
    /\ at[r] = "returned" => status[r] = <<due[r]>>
    /\ (handler[r] = "enhance" /\ status[r] = <<200>>) => counter[r] = "ok"

(* The input is there while it is processed, and a request that has         *)
(* returned, by whichever path, leaves no temporary file.                   *)
NoTempLeft ==
  \A r \in Requests :
    /\ (handler[r] = "enhance" /\ at[r] = "work" /\ stage[r] >= 6) => temp[r] = {"in", "out"}
    /\ at[r] = "returned" => temp[r] = {}

(* NewHandler makes a valid handler of any configuration, and keeps the     *)
(* valid fields of it.                                                      *)
ConfigRepaired ==
  \A c \in HandlerConfigs :
    /\ Validate(NewHandler(c)) /\ NewHandler(c).sampleRate # 0 /\ NewHandler(c).channels # 0
    /\ c.suppressor = "given" => NewHandler(c).suppressor = "given"
    /\ \A f \in DOMAIN c \ {"suppressor"} :
         (GoodField(c)[f] /\ c[f] # 0) => NewHandler(c)[f] = c[f]

(* "The inverse of file.inferOutputCodec": the extension of a response      *)
(* makes the encoder choose the family of the codec that was asked for, and *)
(* only Opus is served without an audio type.                               *)
ExtensionFits ==
  \A c \in DOMAIN CodecFamily :
    /\ inferOutputCodec(codecToExt(c)) = CodecFamily[c]
    /\ extToMIME(codecToExt(c)) = "octet-stream" <=> CodecFamily[c] = "opus"

(* Where a request can be in its handler, and what it has written there.    *)
Placed(r) ==
  /\ at[r] = "away" => handler[r] = "none" /\ stage[r] = 1
  /\ at[r] \in {"load", "store"} => handler[r] \in {"enhance", "dir"}
  /\ at[r] = "inc" => handler[r] \in {"enhance", "dir"} \/ (handler[r] = "stream" /\ counter[r] = "ok")
  /\ at[r] = "work" => handler[r] = "stream" \/ (handler[r] \in {"enhance", "dir"} /\ counter[r] = "total")
  /\ status[r] # << >> =>
       at[r] = "returned" \/ (handler[r] = "enhance" /\ counter[r] = "ok" /\ at[r] # "work")
  /\ handler[r] = "enhance" =>
       /\ counter[r] = "total" => at[r] \in {"load", "store", "inc", "work"}
       /\ counter[r] = "ok" => status[r] = <<200>> /\ due[r] = 200
       /\ counter[r] = "failed" => due[r] \in {400, 500}
       /\ at[r] # "returned" =>
            (stage[r] >= 4 => "in" \in temp[r]) /\ (stage[r] >= 6 => "out" \in temp[r])

OnRoute == \A r \in Requests : Placed(r)

(* What a request has loaded is no more than what others have stored, and   *)
(* the Prometheus counters are exact.                                       *)
CountsExact ==
  /\ \A r \in Requests : at[r] = "store" => loaded[r] <= Cardinality(Stored(counter[r]))
  /\ prom.total = Cardinality(Counted("total")) /\ prom.failed = Cardinality(Counted("failed"))
  /\ prom.ok = Cardinality(Counted("ok")) + Cardinality(Streamed)

HttpInv ==
  /\ HttpTypeOK /\ NeverOvercounted /\ PrometheusBalances /\ AnsweredAsCounted
  /\ NoTempLeft /\ ConfigRepaired /\ ExtensionFits /\ OnRoute /\ CountsExact
=============================================================================
