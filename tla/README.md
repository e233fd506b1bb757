# ClearStream in TLA+

TLA+ models of ClearStream, the noise-suppression service for telephone calls
whose Go sources are under `src/`. TLC checks the models on small instances, and
TLAPS proves every invariant these runs check, and what follows from them, for every size.
Paths below are relative to `src/`; symbols are the code's names.

## The system

Audio of a call enters as RTP, as WebSocket messages or as files, is cut into
10 ms frames, cleaned by a suppressor and sent on.

**RTP.** A `Session` (`pkg/rtp/session.go`) owns a media socket, an RTCP socket
and four goroutines: the receive loop, the RTCP listener, the statistics loop and
the playback loop. The receive loop takes each packet through SSRC-change
detection, DTMF, the jitter buffer (reordering, adaptive depth, concealment of
losses), the audio pipeline and out to the forward address; clean frames also go
to a consumer over a channel that drops its oldest entry when full. Bot audio is
injected into a queue the playback loop drains, and a barge-in empties it. The
RTCP listener keeps the latest report of the stream. `Start` and `Stop` are
called by the SIP proxy (`pkg/sip/proxy.go`), an HTTP server that keeps a map of
calls, and by the SDK (`clearstream.go`).

**Audio.** A `Pipeline` (`pkg/audio/pipeline.go`) is owned by one audio
goroutine; a controller changes its thresholds and its bypass and reads its
statistics concurrently. Voice activity detection decides which frames reach the
suppressor, the turn-end detector turns silence into events on another
drop-oldest channel, gain control and limiter set the level, and a diarizer, told of the
far end by another goroutine, keeps segments of who spoke. `Process48k` is the path of
48 kHz callers, with a filter down and a filter up that keep history between frames.

**Models.** Suppressors come from a pool (`pkg/model/pool.go`) shared by the
calls of a process: a buffered channel, a mutex and a counter. One kind of suppressor
(`pkg/model/deepfilter_server.go`) sends its frames to a server process on a fixed port,
which it starts, watches and stops if nobody else has.

**WebSocket.** The AgentStream server (`pkg/agentstream`) runs a message protocol
(start, media, reconfigure, stop) per connection over its own pipeline; the
reconnecting client (`pkg/websocket/client.go`) forwards frames from a bounded
queue and redials when the connection drops. The bridge (`pkg/websocket/bridge.go`) gives
each connection a pipeline of its own, all over one suppressor.

**Files.** The file processor (`pkg/file/processor.go`) runs ffmpeg to decode,
cleans the PCM that comes through a chain of pipes and goroutines, encodes into a
temporary file and renames it; directories are processed by a bounded number of
goroutines and can be processed again, skipping what is done. The HTTP API
(`pkg/http/handler.go`) does the same for uploads and directories, concurrently, with
temporary files and counters.

**Billing.** Call detail records go through a write-ahead log
(`pkg/billing/wal.go`) of files that are rotated, pushed and recovered. A meter
(`pkg/billing/meter.go`) collects what a call used and makes the record at the hangup.

**Evaluation.** A batch runner (`pkg/eval/batch.go`) measures files over a pool of workers
and tunes a configuration from the result, a scorer (`pkg/eval/transcript.go`) compares
transcripts, and a monitor (`pkg/eval/rtp_monitor.go`) samples a running session, raises
alerts and changes the aggressiveness of its pipeline.

What is hard here: goroutines that share a struct and only partly a mutex;
channels that drop; wrap-around arithmetic on sequence numbers; state of one call
leg that must not survive into the next; loss, reordering and duplication on the
network; crashes between file operations; a child process whose pipes must be
drained in the right order; and start, stop and reconfigure calls in any order.
`PROJECT.json` lists these hazards, each at its line and with the properties that
would catch it.

### Components

| component | source | modules | status |
|---|---|---|---|
| RTP jitter buffer and loss concealment | `pkg/rtp/jitter.go` | `JitterBuffer`, `LossConcealment`, `MediaPathProofs` | partly: Push, Pop, Reset, adaptDepth with wrapping sequence numbers, GeneratePLC and OnGoodPacket. Arrival timing is reduced to the depth it chooses and a frame to its peak; detectPitch and the read-only JitterMs/Len are left out. |
| RTP receive path | `pkg/rtp/session.go` | `MediaPath`, `MediaPathProofs`, `PlayoutLag` | partly: handlePacket from the SSRC check to the forwarded packet, with whose audio the pipeline holds. Header parsing, buildRTPPacket, codecs and telemetry are data and not modelled. |
| RTP session life cycle | `pkg/rtp/session.go` | `RtpSession` | partly: NewSession, Start, Stop and how the four loops end. SetForwardAddr and the statistics loop's contents are left out. |
| Clean-audio feed | `pkg/rtp/session.go` | `DropOldest`, `CleanAudioFeed`, `ChannelsProofs` | modelled: The drop-oldest channel between the receive loop and the consumer, with Stop closing it. |
| RTCP statistics | `pkg/rtp/session.go`, `pkg/rtp/rtcp.go` | `RtcpStats`, `SessionStreamsProofs` | partly: listenRTCP and the SSRC-change reset, interleaved. RTTMs, QualityReport and sender-report packing are left out. |
| DTMF detector | `pkg/rtp/dtmf.go` | `DtmfDetector`, `SessionStreamsProofs` | modelled: Duplicate suppression of RFC 4733 events and its resets. |
| Bot audio playback | `pkg/rtp/playback.go` | `Playback`, `SessionStreamsProofs` | modelled: PlaybackQueue, InjectBotAudioAtRate, barge-in, the playback loop and the counters; a Stats snapshot is not an action of its own. Encoding and pacing are left out. |
| SIP media proxy | `pkg/sip/proxy.go` | `SipProxy`, `SipProxyProofs` | modelled: Start and stop requests of concurrent handlers over the session life cycle. Listing calls and HTTP decoding read only. |
| SDP parser | `pkg/sip/sdp.go` | - | not modelled: Pure text parsing without state. |
| Suppressor pool | `pkg/model/pool.go` | `SuppressorLease`, `SuppressorPool`, `SuppressorPoolProofs` | partly: Acquire, Release, WarmPool and Close step by step, refining an abstract lease. NewSuppressorPool's partial failure is not modelled. |
| SDK facade | `clearstream.go` | `SDKSessions` | partly: How NewRTPSession uses the pool. Configuration, presets and ProcessFile wrappers are left out. |
| Billing write-ahead log | `pkg/billing/wal.go` | `BillingWAL`, `FilesProofs` | modelled: Open, write, rotate, recover, close, crash and restart of a writer, for any number of writers on a directory; the runs use one. |
| Billing meters and rates | `pkg/billing/meter.go`, `pkg/billing/cdr.go`, `pkg/billing/feature.go`, `pkg/billing/ratecard.go` | `SessionMeter`, `AnalysisProofs` | modelled: Features enabled concurrently by compare-and-swap, the hangup with a clock that may be set, billed units and prices, and the asynchronous write of the record. String forms are left out. |
| WebSocket reconnect client | `pkg/websocket/client.go` | `ReconnectClient`, `ChannelsProofs` | modelled: Send, the connect loop with its backoff, drainQueue and Stop. |
| WebSocket bridge | `pkg/websocket/bridge.go` | `WebSocketBridge`, `ChannelsProofs` | modelled: Each connection from upgrade to flush, with the frames of its pipeline, over one suppressor with its mutex. What the shared recurrent state does to the sound is left out. |
| Adaptive voice activity detection | `pkg/audio/vad.go` | `AdaptiveVad`, `PartsProofs` | modelled: Calibration, hang-over, the margin rule, runtime threshold and Reset; loudness is a small level. |
| Turn-end detector | `pkg/audio/turnend.go` | `TurnEnd`, `ChannelsProofs` | modelled: Observe, Reset and Close with the drop-oldest event channel and a consumer. |
| Audio pipeline | `pkg/audio/pipeline.go` | `AudioPipeline`, `StreamResampler`, `PartsProofs`, `AnalysisProofs` | partly: Control of ProcessFrames, Flush, Process48k, Reset, bypass and statistics, and the history of the 48 kHz filters. The signal processing inside a stage and most setters are left out. |
| Level control: tiered noise reduction, AGC, limiter | `pkg/audio/tiered_nr.go`, `pkg/audio/agc.go`, `pkg/audio/limiter.go` | `LevelControl`, `PartsProofs` | partly: Tier selection and noise floor, the gain with its caps and runtime target, soft limit and limiter, over small integers and one sample a frame. The suppressors of the tiers, the clip count and smoothing coefficients are left out. |
| Speaker diarisation | `pkg/audio/diarize.go` | `Diarizer`, `AnalysisProofs` | modelled: Labels, segments, the far-end reference, Reset and the two reads of Stats. Energies are active or not; the text report is left out. |
| Sample-rate conversion | `pkg/audio/resample.go` | `StreamResampler`, `AnalysisProofs` | modelled: The stateful 3:1 filters frame by frame, the 2:1 filters, the linear resampler and the channel and peak helpers, each by the window of samples its outputs see. Filter coefficients are left out. |
| AEC, noise reducer, codecs, bands | `pkg/audio/aec.go`, `pkg/audio/codec.go`, `pkg/audio/noise_reducer.go`, `pkg/audio/band.go` | - | not modelled: Floating-point filters and table-driven codecs of one caller, with no control of their own to check. |
| Audio quality and A/B runner | `pkg/audio/quality.go`, `pkg/audio/ab_runner.go` | - | not modelled: Offline numeric measurement without concurrency. |
| AgentStream server | `pkg/agentstream/server.go`, `pkg/agentstream/state.go`, `pkg/agentstream/events.go` | `AgentStream`, `PartsProofs` | partly: Every message handler of one connection and what it reports, down to partial frames and pipelines replaced. The threshold modes of reconfigure are LevelControl's; parsing of custom parameters and JSON is left out. |
| File decode | `pkg/file/processor.go` | `FileDecode`, `FilesProofs` | modelled: decodeAndSuppress: ffmpeg, its pipes, the goroutines, the kills and the caller. |
| File batches | `pkg/file/processor.go` | `FileBatch`, `FilesProofs` | partly: ProcessDir with SkipExisting, the encode to a temporary file and its promotion, cancellation and process death. Progress, ffmpeg's argument list and StreamProcess are left out. |
| Suppressor backends | `pkg/model/interface.go`, `pkg/model/rnnoise.go`, `pkg/model/rnnoise_onnx.go`, `pkg/model/deepfilter.go`, `pkg/model/deepfilter_server.go`, `scripts/df_server.py`, `pkg/model/aggressiveness.go`, `pkg/model/batch.go`, `pkg/model/profile.go`, `pkg/model/telemetry.go` | `DeepFilterServer`, `WebSocketBridge`, `ChannelsProofs` | partly: Start-up, polling, reaping and shutdown of the DeepFilterNet server by several suppressors, and the mutex of RNNoise under the bridge. Inference, the ONNX and subprocess backends, wrappers and profiles are left out. |
| HTTP API | `pkg/http/handler.go` | `HttpApi`, `PartsProofs` | partly: Concurrent requests on every exit path with their temporary files, statuses and both sets of counters, construction, and the formats of a response. The running average, bodies and headers are left out. |
| RTP quality monitor | `pkg/eval/rtp_monitor.go` | `RtpMonitor`, `ChannelsProofs` | modelled: Sampling loop, alerts, tuning of the pipeline, concurrent Stops and the report. Report files and averages are left out. |
| Offline evaluation | `pkg/eval/batch.go`, `pkg/eval/metrics.go`, `pkg/eval/report.go`, `pkg/eval/transcript.go`, `cmd/clearstream-eval/main.go` | `EvalBatch`, `TranscriptScorer`, `AnalysisProofs` | partly: A batch over workers and one suppressor, cancellation, aggregation and tuning; scoring of transcripts with its rate limit. The formulas of SNR and latency, report files and the command line are left out. |
| Compatibility checks | `pkg/compat/compat.go` | - | not modelled: A stateless probe of the host. |
| Load test harness | `pkg/loadtest/loadtest.go` | - | not modelled: A measuring tool, not part of the service. |
| Telemetry | `pkg/telemetry/sink.go`, `pkg/telemetry/telemetry.go` | - | not modelled: Sinks that no decision of the program depends on. |
| Command line and examples | `cmd/clearstream/main.go`, `examples/bridge/main.go` | - | not modelled: Flag parsing and wiring. |

## The modules

Each component has a module with its state as variables, one action per handler,
method or step, and its properties at the end; an `MC...` module with the
instance values; and one `.cfg` per question. The definitions whose comment begins
with "Faulty" or "Mutant of" are wrong versions of the definition next to them, each a
plausible slip; they are not part of any specification. Replacing the definition by
its faulty version makes the property it belongs to fail, which shows that the property
depends on the code and that the instance is large enough to see it.

Components that share no state are checked by one run per group: `MCReceive`,
`MCSessionStreams`, `MCChannels`, `MCAudioParts` and `MCResources` extend the modules of their
group and add a variable `subject`. A behaviour is about its subject: only that component
moves, and only its fairness is assumed. This is no composition, only several
instances in one run; the modules that do compose components are `MediaPath`,
`PlayoutLag`, `SipProxy` and `SDKSessions`.

**`JitterBuffer`** keeps `buf`, `nextSeq`, `primed` and the depth. Every method
of the code holds the mutex throughout, so `Push`, `Pop` and `Reset` are single
actions; insertion, the drift test and tail-drop are as in `Push`, with `uint16`
subtraction reduced modulo `2 * Half`. Arrival times only decide the depth, so
`adaptDepth` picks any depth within its clamp. The environment sends packets
within `Window` of one another until playout begins (`Plausible`).
**`LossConcealment`** is the other half of the same struct: a frame is its leg and
its peak, so that "fades" and "belongs to the current leg" can be said.
**`MediaPath`** composes the two into `handlePacket`, in steps because the
buffer's mutex is released between `Push` and `Pop`, over a network that reorders,
duplicates, loses and changes SSRC. Of the pipeline it keeps in `pipe` whose audio entered since the last
`Reset`: what comes out may be any of it, or nothing while a frame is incomplete. **`PlayoutLag`** drives it with an in-order
stream in which a few numbers never arrive.

**`RtpSession`** is the life of sessions: sockets, `cancel`, the loops and the two
channels `Stop` waits for. **`SipProxy`** extends it with HTTP handlers that hold
the map's mutex only while they look at the map.

**`DropOldest`** is the send-or-drop idiom of Go, step by step: try to send, else
receive one, then send. **`CleanAudioFeed`** and **`TurnEnd`** instantiate it with a
consumer, a closer and, in `TurnEnd`, the detector that produces the events.

**`Playback`**, **`DtmfDetector`** and **`RtcpStats`** are the remaining state of a
session. In `Playback` an injection is a loop of `Push` calls that barge-ins
interrupt. In `DtmfDetector` the telephone sends a start packet and three end
packets of a digit into a network that loses any of them. In
`RtcpStats` the listener parses and stores in separate steps while the receive
loop changes the SSRC.

**`SuppressorLease`** is what a pool promises: a suppressor is absent, ready, held
by one session, or shut for good. **`SuppressorPool`** is the code, with `Acquire`
split at the channel receive and the count, `Release` and `WarmPool` holding the
mutex across a send that may block, and `Close` draining after it gave the mutex
back. It implements the lease through a refinement mapping (`ImplementsLease`).
`MCResources` adds a variable `warming`: in one kind of behaviour `WarmPool` is called at any
time, in the other only while no call leg runs, as its comment in the code advises; that nobody
waits for ever is claimed for the second kind only.
**`SDKSessions`** is how `NewRTPSession` uses it.

**`AdaptiveVad`** counts loudness in small levels and keeps calibration, margin,
hang-over and the runtime threshold. **`AudioPipeline`** counts audio in units and
records which stages a frame went through; each stage is a step, so the bypass may
change and the statistics may be reset in between. The variable `wideband` chooses
between `ProcessFrames` and `Process48k`, `suppressor` whether the latter has one to run.

**`StreamResampler`** is what `pkg/audio/resample.go` computes with its signal taken away: a
sample is its position in the stream, an output the set of (tap, sample) pairs its filter meets.
Whether frame-wise filtering equals filtering of the whole stream, across resets and failing stages,
is then a question about positions. **`LevelControl`** is tier, gain and limiter over small integers;
a frame is one sample. **`Diarizer`** keeps a history of the labels it has returned, from which the
segments it should have follow.

**`AgentStream`** is one connection of the server: `callState`, every message handler, every pipeline a start
built, and what each outgoing message claims about the audio it carries. A payload is one unit of audio, of which
`FrameUnits` make a frame, so that a pipeline may hold audio when it is replaced. The modes of `reconfigure` that move the
thresholds of a tiered pipeline are `SetThresholds` of `LevelControl`.
**`WebSocketBridge`** is the bridge: a goroutine per connection and, as a step of its own, each frame's
stay in the suppressor they share.
**`ReconnectClient`** is `Send`, the connect loop with its backoff, and `drainQueue`
against a peer that drops connections, or keeps one and reads no more (`PeerStalls`): a write to it does not return.

**`BillingWAL`** takes every file operation as a step; a file is the set of
records that can be read back from it, and a process may crash between any two. A write
that tears leaves a line the next record is glued to, a push may be refused, and a log may have no `OnFlush` at all
(`forwards` is false), where rotation and recovery remove what nobody was given; the records lost in
these three ways are collected in `glued`, `refused` and `discarded`, and `AckedDurable` says that nothing
else is ever lost.

**`SessionMeter`** is the meter in front of the log: the compare-and-swap of each feature in its two
steps, and the hangup in its two, with a clock that may be set in between.

**`DeepFilterServer`**, of the Go side and of `scripts/df_server.py`, has several suppressors looking for, starting, watching and closing servers on one
port, while a process may be slow, crash or lose the race for the port; `reap` is entered by the watcher, the
deadline and `Close`.

**`HttpApi`** takes a request through the stages of its handler; each may fail, a plain counter is incremented in a
load and a store, and the defers run at the end. Its construction and its tables of formats are functions.

**`EvalBatch`** is `Run` with its workers over one suppressor, of which it remembers whose frames are in its state;
**`TranscriptScorer`** scores pairs, with the two rows of the longest common subsequence, and keeps the rate limit.
**`RtpMonitor`** is the sampling loop in the steps in which others see it, against calls of `Stop`.

**`FileDecode`** is `decodeAndSuppress`: ffmpeg writing to two bounded pipes, the
relay of `os/exec`, the reader, the scanner, the watcher and the caller. The variable
`statistics` says whether ffmpeg writes the progress lines that end in carriage returns; the
properties of the log and of returning are claimed where it does not.
**`FileBatch`** is what surrounds it: the list of a directory, the semaphore, the
temporary file and its promotion, cancellation, crashes and the next batch.

Modelled as the environment, from how the code uses it: the network, the
telephone, ffmpeg and what it forks, peers of the WebSocket client, the owner of
a source directory, the wall clock, callers' contexts.

## What is checked

### Runs that pass

| run | configuration | properties | what it shows |
|---|---|---|---|
| `media_path` | `MCMediaPath.cfg` | `MediaInv`, `PlayoutForward`, `NoCrossLegAudio` | The whole receive path under reordering, duplication, loss, DTMF, codec errors and SSRC changes: frames leave in stream order and once, no audio of an old leg is heard under a new one, the buffer cannot be wedged. |
| `receive` | `MCReceive.cfg` | `JitterInv`, `ReceiveGetsOn`, `DueKeptBurstFades` | The jitter buffer under any plausible mix of reordered, duplicated, lost and renumbered packets, concealment under any mix of losses, good frames and resets, and both under one ordered stream with a few numbers missing: the buffer stays bounded and is never wedged, bursts fade, an intact stream is eventually played without losses. |
| `sip_proxy` | `MCSipProxy.cfg` | `ProxyInv`, `RequestAnswered` | Three handlers start, replace and stop the same call in every overlap: each session is stopped by one handler, no socket is leaked, and no request hangs, also when a Stop overtakes the Start of its session. |
| `session_streams` | `MCSessionStreams.cfg` | `PlaybackInv`, `DtmfInv`, `RtcpInv`, `PlayedOrSilenced` | Bot audio, telephone events and RTCP reports of a session, each with its goroutines interleaved: what a barge-in discarded stays silent and what was accepted is played, one key press is one report on a lossy wire and across legs, and statistics of an old leg survive a change of SSRC by at most the packet in hand. |
| `channels` | `MCChannels.cfg` | `FeedInv`, `TurnInv`, `ClientInv`, `BridgeInv`, `MonitorInv`, `ServerInv`, `EventAfterUtterance`, `ChannelsEnd` | The drop-oldest send at its three users, each with a slow consumer, concurrent closers or senders and a failing endpoint; the connections of a WebSocket bridge over one suppressor; the sampling loop of the RTP monitor against its stops; and suppressors that start, share and stop one DeepFilterNet server. The newest item always gets in and in order, nobody sends on a closed channel, no process is left behind, and every call, loop and queued frame comes to its end. |
| `audio_parts` | `MCAudioParts.cfg` | `VadInv`, `PipelineInv`, `AgentInv`, `LevelInv`, `DiarInv`, `ResamplingInv`, `EvaluationInv`, `MeterInv`, `HttpInv`, `BurstsDoNotRaiseFloor` | Ten parts next to each other, each in any order of its calls: the voice detector, the frame pipeline, an AgentStream connection, level control, diarisation, the resampler and its state in the pipeline, an evaluation batch and its transcript scoring, a metered session and the HTTP API. Audio and its state survive every order of calls, counters and records add up on every exit path, and what a caller is told is what happened. |
| `resources` | `MCResources.cfg` | `PoolInv`, `ClosedLeavesNothing`, `ImplementsLease`, `EveryCallReturns`, `DecodeInv`, `BatchInv`, `WALInv`, `FilesEnd`, `DestinationsTrue` | The suppressor pool step by step: no suppressor is shared or used after it was closed, shutting down neither panics nor leaks, the pool implements SuppressorLease, and where WarmPool is only called before sessions begin every Release returns and every Acquire is served or refused.  The decode, the batch over a directory and the write-ahead log, with failures, cancellation and process deaths at every step: no truncated decode counts as a success, destinations are whole or absent, decodes and batches return, an acknowledged record is lost only to a failed flush, an unfinished line or a log without an OnFlush, and where there is one, what a crash left behind is pushed. |

Each component has one invariant, named `...Inv`, which is the conjunction of its type
invariant and of named parts; the parts are what it is about:

| invariant | parts besides the type |
| --- | --- |
| `MediaInv` | `PathNeverWedged`: every buffered packet can still be played; `ConcealsCurrentLeg`: concealment is made of the leg being played; `RepeatsLastGood`; `JitterInv`; `StreamOrder`, `PlayedOrder`: where buffer, playout point, last frame played and newest packet lie to one another; `FrameInHand`; `OneLeg`: frame in hand and pipeline hold audio of the current leg only |
| `JitterInv` | `Bounded`; `NoWedge`: entries lie ahead of the playout point, in stream order; `Gathering`: before priming they lie close together |
| `PoolInv` | `Locked`: who is inside the mutex; `Holding`; `ExclusiveUse`: one session per suppressor; `Accounted`: none is out of sight |
| `ProxyInv` | `OneStopper`: a session is stopped by one handler; `SocketsAccounted`: an open socket has an owner; `OnePlace`: a session is in one call or with the request creating it; `StoppedOrHeld`: it has an owner or was stopped; `AtHand` |
| `PlaybackInv` | `FramesBalanced`; `AnswersTruly`: a refused frame makes its injection answer false; `FramesOnce`: no frame is queued twice or again |
| `DtmfInv` | `NoDoubleDigit`; `HeardIsReported`; `FirstDigitOfLeg`; `FlowInTurn`: packets on the wire keep their order; `DetectorTracks`: the detector remembers the press handled last; `ReportsHandled` |
| `RtcpInv` | `ReportAndTimeTogether`; `AtMostOneStale`: a change of SSRC is survived by at most the packet in hand; `InHand`: the listener has what its next step needs |
| `FeedInv` | `FreshestKept`; `SentInOrder`; `ClosedAfterLastSend`; `Underway`: what is in the channel is newer than what was heard, and older than the frame in hand |
| `TurnInv` | `NewestBoundaryKept`; `SentInOrder`; `BoundaryUnderway`; `SilenceCounted` |
| `ClientInv` | `DeliveredInOrder`, of all that is delivered, in hand or queued; `FramesAccounted`; `OnlySettled`: nothing is on its way before its `Send` is done with it |
| `VadInv` | `SpeechIffRecentlyLoud`; `HangoverRunsOut`: the hangover is what is left of the last loud frame |
| `PipelineInv` | `FedIsWritten`; `RawOrEnhanced`; `StatsAddUp`; `Stats48Ahead`; `OnItsPath`: where the frame in hand can be; `UnitsBalance`: the same balances in the middle of a call; `StagesFollowLatch` |
| `AgentInv` | `AudioAccounted`: what was received is sent and numbered, held, or lost to a failure or a restart; `GainTold`; `NamedAsStarted`; `OpenAreReplaced`: which pipelines the connection leaves open; `CallAsStarted`: what the call would name and tell next |
| `DecodeInv` | `SuccessIsWhole`; `LogIsWhole`; `NobodyLeft`; `Unlost`: until the first error every unit is somewhere on its way; `InTurn`: what the caller may rely on at each step |
| `BatchInv` | `DestinationWhole`; `SuccessIsCurrent`; `AttemptsSound`: whose temporary file is made of what; `TimesTell`: modification times tell current from old |
| `WALInv` | `AckedDurable`; `InHand`: a file a writer is about to remove is safe to remove; `ReadBackIsAcked` |
| `BridgeInv` | `OwnFramesInOrder`: a client gets its own frames, each once, and is answered before it is heard again; `MutexGivenBack`; `FramesCounted` |
| `MonitorInv` | `ReportCoversAlerts`; `TunedToLastSnapshot`; `WorseAlertsToo`; `CountedAhead`: the alert count against the snapshots and the reading in hand |
| `ServerInv` | `WaitOnce`; `NoOrphan`; `PassthroughExplained`: nobody loses its server to the closing of one that only found it; `ReadyWasServed`; `StageTells`: what a stage says of process, watcher and `once` |
| `LevelInv` | `GainBounded`: gain and target stay positive and within the cap, whatever the times configured; `WithinCeiling`: what leaves the limiter, whatever the gain did |
| `DiarInv` | `SegmentsMatchLabels`: every frame lies in the segment of its owner; `StatsFit`; `SessionKept`; `SilenceTracked`: since when there is silence, and whose it is; `ReadFits`: a summary between its two reads |
| `ResamplingInv` | `HistoriesKept`: the last samples of the stream, or the silence before it; `DownSeamless` and `UpSeamless`: frame by frame is one filter over the stream; `WindowsCentred`; `FramesKeepLength`; `MonoAndPeak` |
| `EvaluationInv` | `SummaryHonest`; `MeasuredAlone`; `TuningMonotone`; `FilesInOrder`: which files have begun, have a result, are counted; `OwnSound`; of the scorer `MatchedIsLongest`, `AskedSlowly`, `PairsAccountedFor`, `LastKept` |
| `MeterInv` | `NoFeatureLost`; `RecordBillsWhatRan`; `UnitsCoverCall`; `HungUpKept`: what was enabled at the hangup stays so |
| `HttpInv` | `NeverOvercounted`; `PrometheusBalances`; `AnsweredAsCounted`; `NoTempLeft`; `ConfigRepaired`; `ExtensionFits`; `OnRoute`: what a request has written and created where it is; `CountsExact`: what is loaded is behind what is stored, and the Prometheus counters are exact |

Several temporal properties are conjunctions of parts defined in the modules or in the `MC...` module, each part
claimed where its subject moves.

### Runs that show a disagreement

Each checks one statement the code base makes about itself and finds behaviour of
the code that contradicts it.

| run | configuration | properties | what it shows |
|---|---|---|---|
| `media_path_fade` | `MCMediaPathFade.cfg` | `BurstFades` | In the session a burst of losses does not fade: every concealed frame is fed back as a good one. |
| `sdk_sessions_served` | `MCSDKSessionsServed.cfg` | `NewSessionServed` | The SDK never returns a suppressor: after Size sessions, live or ended, NewRTPSession blocks for good. |
| `sip_proxy_loops` | `MCSipProxyLoops.cfg` | `LoopsEnd` | A session stopped between its insertion into the map and its Start keeps its stats and playback goroutines for ever. |
| `billing_wal_unforwarded` | `MCBillingWALUnforwarded.cfg` | `WrittenJustNotForwarded` | A log without an OnFlush removes every file it rotates or recovers: what it acknowledged is neither pushed nor on disk. |
| `billing_wal_rotate` | `MCBillingWALRotate.cfg` | `RemovedOnceFlushed` | A rotation whose OnFlush fails removes the file and with it acknowledged records. |

### What they found

- **BurstFades** (`src/pkg/rtp/session.go:652`, run `media_path_fade`): handlePacket calls onGoodPacket for concealed frames too, which resets the burst counter, so the third loss never fades; pkg/rtp/jitter.go:331 says "Loss 3+: exponential fade-to-silence (0.85× per frame). Avoids the uncanny loop of repeating audio indefinitely."
- **NewSessionServed** (`src/clearstream.go:359`, run `sdk_sessions_served`): NewRTPSession acquires a suppressor that nothing releases when the session ends; pkg/model/pool.go:45 says "Caller MUST call Release when the session ends."
- **LoopsEnd** (`src/pkg/sip/proxy.go:151`, run `sip_proxy_loops`): A session is put into the map before it is started; stopped in between, its Start then launches loops nobody cancels; pkg/sip/proxy.go:157 names the leak of "receive/RTCP/stats/playback goroutines forever" as what the handler prevents.
- **WrittenJustNotForwarded** (`src/pkg/billing/wal.go:158`, run `billing_wal_unforwarded`): Without an OnFlush rotate and RecoverAndFlush remove each file they go through, so what Write acknowledged is neither pushed nor on disk; pkg/billing/wal.go:31 says "OnFlush may be nil (CDRs are still written to disk, just not forwarded)."
- **RemovedOnceFlushed** (`src/pkg/billing/wal.go:108`, run `billing_wal_rotate`): rotate ignores the error of OnFlush and removes the file; DEVLOG.md:1249 says "**WAL before Kafka** — CDR survives pod crash, retried on restart", and RecoverAndFlush keeps the file in the same case (pkg/billing/wal.go:154).

### Observed deviations without a run

While the modules were written, statements of the comments and documents were compared with
what the code does. Besides the five above, these do not hold. Each was seen in a counterexample of the
module named; the property is not part of a run, and where a checked property would otherwise fail, its
definition names the exception.

- `MediaPath`: a frame is delivered to the consumer with the timestamp of the packet just
  received (`pkg/rtp/session.go:662`), not of its source packet (`pkg/rtp/session.go:210`).
- `PlayoutLag`: numbers that never arrive cost one frame of lag each, for good
  (`pkg/rtp/jitter.go:308`); one more than fits under the cap, and an intact stream is tail-dropped for ever.
  `CatchesUp` is therefore claimed for as many missing numbers as fit.
- `SuppressorPool`: `WarmPool` between the two halves of an `Acquire` makes a suppressor too
  many, and a later `Release` blocks with the mutex held (`pkg/model/pool.go:53`, against `pkg/model/pool.go:83`).
- `BillingWAL`: a rotation that cannot close its file fails now and ever after, as `w.f` stays set
  (`pkg/billing/wal.go:100`). A write that fails half-way leaves part of a line, and the next acknowledged record is
  appended to it (`pkg/billing/wal.go:87`); with two writers, recovery removes the file the other one is
  appending to (`pkg/billing/wal.go:143`).
- `ReconnectClient`: `Stop` "closes the underlying connection" (`pkg/websocket/client.go:102`), but it only closes a channel the
  loop looks at between two writes, and these have no deadline (`pkg/websocket/client.go:170`, the close frame in line 165
  included): a peer that reads no more keeps loop and connection for good, which `ClientLive` names as its exception. A peer that accepts and drops connections is redialled without any wait
  (`pkg/websocket/client.go:150`), and the frame whose write failed is not put back (`pkg/websocket/client.go:170`).
- `Playback`: any write error ends the playback loop while `Push` goes on accepting
  (`pkg/rtp/playback.go:143`, against line 109); `Stats` loads four counters one after the other
  (`pkg/rtp/playback.go:99`).
- `DtmfDetector`: `Stop` resets the detector under the receive loop, and a repeated end packet is then
  reported again (`pkg/rtp/session.go:349`); a start packet that arrives between two end packets makes the second
  look new, and the same key pressed twice is one press when the second start is lost (`pkg/rtp/dtmf.go:49`). The
  network of the module therefore keeps the order.
- `RtcpStats`: one report parsed before a change of SSRC may be stored after the reset
  (`pkg/rtp/session.go:829`); `AtMostOneStale` bounds it.
- `AdaptiveVad`: the margin rule bypasses the safety floor in a silent room and a raised
  runtime threshold (`pkg/audio/vad.go:215`, against `pkg/audio/vad.go:247` and `pkg/audio/pipeline.go:715`).
- `AudioPipeline`: `Process48k` does not look at the bypass switch (`pkg/audio/pipeline.go:843`, against
  `pkg/audio/pipeline.go:194`) and counts a frame under two locks (`pkg/audio/pipeline.go:834`); `Flush` discards what a leftover above 16 kHz has
  beyond its frame (`pkg/audio/pipeline.go:491`), and all of it when the suppressor fails (`pkg/audio/pipeline.go:492`); speech that
  `Process48k` passes on for want of a suppressor is in no counter (`pkg/audio/pipeline.go:875`). `RawOrEnhanced` and `StatsAddUp` are claimed for
  `ProcessFrames`, `FedIsWritten` for rates whose leftover fits.
- `AgentStream`: handlers assign states the transition table does not allow, also after a terminal one
  (`pkg/agentstream/server.go:267`); gain control stays reported after a start without it
  (`pkg/agentstream/server.go:252`, against "rather than claiming a capability that does not exist", line 324), and suppression
  for the passthrough backend (`pkg/agentstream/server.go:319`); a start that fails has renamed the running stream by then
  (`pkg/agentstream/server.go:212`); a second start drops the audio still buffered for the first and never closes its pipeline
  (`pkg/agentstream/server.go:266`), and no suppressor built for a start is ever closed (`pkg/agentstream/server.go:228`, as
  `Pipeline.Close` ends the turn-end tracker only); a stopped stream goes on processing media.
  `GainTold`, `NamedAsStarted`, `AudioAccounted` and `OpenAreReplaced` name these exceptions, and exclude every other.
- `FileDecode`: the scanner of standard error stops at 64 KiB without a line end and nobody
  drains the pipe after it (`pkg/file/processor.go:503`); statistics of a long decode reach that.
- `FileBatch`: a source replaced while it is processed is older than its destination and is
  skipped later (`pkg/file/processor.go:330`). Sources are therefore replaced between batches only.

- `StreamResampler`: after a stage that failed, the up filter goes on without that frame while the down filter has
  it (`pkg/audio/pipeline.go:854`); a rate such as 22050 Hz gets back one sample more than it sent, in every frame
  (`pkg/audio/resample.go:412`), which `FramesKeepLength` states.
- `LevelControl`: the soft limit approaches 1.31 times its threshold, so `ASRConfig` does not keep its
  "-3 dBFS ceiling" (`pkg/audio/agc.go:73`); the limiter after it keeps its own. `NewAGC` repairs times it says would let the gain diverge
  (`pkg/audio/agc.go:111`); of these only negative ones would, as zero makes the gain jump (`exp(-Inf)` is 0). The noise floor begins at its least and
  moves on quiet frames only, so behind a steady noise it stays where it is (`pkg/audio/tiered_nr.go:108`).
- `Diarizer`: the energy of a closed segment is that of the next speaker (`pkg/audio/diarize.go:187`); `Stats` reads the
  session's start without the lock and, after a `Reset`, that of the old session (`pkg/audio/diarize.go:250`).
- `WebSocketBridge`: the frames of all connections run through the recurrent state of one RNNoise
  (`pkg/websocket/bridge.go:128`), although each has a "stateful pipeline" of its own.
- `DeepFilterServer`: a suppressor whose own process lost the race for the port is served by another's, and shuts that one
  down when it is closed (`pkg/model/deepfilter_server.go:281`).
- `RtpMonitor`: alerts of a sample in hand are counted in a report whose snapshots do not show it
  (`pkg/eval/rtp_monitor.go:160`), and a snapshot is appended after `Stop` has returned. An SNR of 0 or less counts as unknown
  (`pkg/eval/rtp_monitor.go:252`, against "estimated SNR below this triggers aggressiveness suggestion", line 23), so that a worse
  reading of `SNREstimateFn` may raise no alert where a better one does; `WorseAlertsToo` names that exception.
- `HttpApi`: the plain counters lose increments, so successes and failures may exceed the total
  (`pkg/http/handler.go:274`); a successful stream counts in Prometheus only (`pkg/http/handler.go:626`); a batch of which
  files failed is a failed request answered with 200 (`pkg/http/handler.go:561`); an Opus answer has no audio type
  (`pkg/http/handler.go:701`).
- `SessionMeter`: the record is lost when the process ends before the goroutine has written it
  (`pkg/billing/meter.go:81`).
- `EvalBatch`: files a cancelled batch never began count as processed (`pkg/eval/metrics.go:313`), and with several
  workers over one suppressor a file is measured with others' frames in it (`pkg/eval/batch.go:208`).

### Bounds, and why they are enough

- Sequence spaces are 12 and 14 numbers instead of 65536. What the buffer does depends on
  how a distance compares with 0, with the drift limit and with half of the space;
  each of these comes out both ways, and streams wrap around many times.
  The theorems below do not depend on the size.
- Buffer, queue and pool capacities are 2 to 4: full, empty and in between all occur,
  and so does filling up while somebody else drains.
- Actors are two or three: two injectors, three sessions, a warmer and a closer on two suppressors,
  three HTTP handlers on one call, two closers of a channel. The WAL has one writer and the batch
  two files for one worker, so that waiting for the slot happens.
- `LossCap` stops telling burst lengths apart beyond the point where the code's cases end.
- `MaxItems`, `MaxBreaks`, `MaxFrames`, `MaxEvents`, `MaxUtterances`, `MaxFed`, `MaxErrors`,
  `MaxToggles`, `MaxResets`, `MaxStarts`, `MaxMedia`, `MaxPresses`, `MaxLegs`, `MaxPackets`, `MaxChanges`,
  `MaxRuns`, `MaxVersion`, `Budget`, `Glitches` and the supplies
  `Ids` and `WALFiles` of `SipProxy` and `BillingWAL` bound how often something happens.
  They end behaviours, so a liveness property is only stated where reaching the bound cannot
  make it true or false by itself, and such runs do not check for deadlock.
- `FileDecode` has pipes of one unit and sources of up to three, so every writer blocks at least
  once, and a scanner buffer of two units, which logs of three overrun.
- The bridge has two connections and messages below, above and exactly at a frame; the monitor two `Stop`s, two samples and
  readings on both sides of each threshold; the server two starters, one started by hand or not, and one fault.
- `StreamResampler` has filters shorter than a frame, as the code has, and buffers shorter and longer than both; one pass
  over three frames goes beyond what any history reaches. Its rates are those telephony and audio files use, and 12050 Hz, whose
  frame does not become a whole one of the suppressor. `LevelControl` has levels on both sides of each border of the soft
  limit and of full scale. `Diarizer` has silences shorter than, equal to and longer than the gap.
- `HttpApi` has two requests, enough for a lost update; `EvalBatch` two workers and a file more than that; `SessionMeter`
  two features, a pulse shorter than the call and a clock set in either direction.
- `AgentStream` has frames of two payloads, three starts and media enough to fill a frame, leave another half full and lose it.
  In `MCReceive` the bound `OneFrameEach` makes the packets of the ordered stream as long as a frame of the pipeline.
- Symmetry is used in `media_path` only, which checks invariants and no temporal property.

### Fairness

Each module names its fairness (`JitterFairness`, `PoolFairness`, ...) apart from its next-state relation.
Weak fairness of an action says that a goroutine that can go on is scheduled in the end, which
Go's scheduler does. Strong fairness is assumed only where several goroutines compete for one
thing and the runtime serves them in turn: the receive of `Acquire` and the mutex of `Release`
in `SuppressorPool`, the mutex of the log in `BillingWAL`, the semaphore of `FileBatch`, the shared suppressor of
`WebSocketBridge`; where a `select` must not pass over a closed channel for ever, in `RtpMonitor`; for the
thirty seconds of a start-up, which pass, in `DeepFilterServer`; and in
`ReconnectClient`, where the `select` of `connectLoop` and `drainQueue` chooses among ready cases at random and where
a peer that is dialled again and again accepts in the end; a write to a peer that has stalled is not assumed to return
(`GetsOn`), so that `Stop` and the emptying of the queue are claimed but for a loop that is `Blocked` for good. Nothing outside the program is
fair unless a property says so: packets, requests, cancellations and crashes may stop
at any time. The exceptions are named: `PlayoutLag` assumes that the stream goes on,
`JitterBuffer` and `LossConcealment` that they are called again, `CleanAudioFeed` and `TurnEnd` that the
consumer reads on where they say so, `BillingWAL` that a process is started again and that a push
tried again and again succeeds in the end, `ReconnectClient` that of the dials tried again and again one succeeds, and `FileDecode` that ffmpeg works on unless it is blocked in a write; a process ffmpeg forked may
stay for ever.

## What is proved

- `BufferInvariant` (`MediaPathProofs`): `JitterInv`. The inductive invariant of the jitter buffer: shape, cap, the order of the entries, before and after priming.
- `TypeCorrect` (`MediaPathProofs`): Every reachable jitter buffer has the declared shape, for every sequence space, depth and drift the assumptions allow.
- `BufferBounded` (`MediaPathProofs`): The buffer never holds more than maxDepth packets.
- `BufferNeverWedged` (`MediaPathProofs`): No packet the buffer keeps can be behind the playout point: whatever is at the head is deliverable.
- `BufferHasNoDuplicates` (`MediaPathProofs`): No two buffered packets carry the same sequence number.
- `PoolInvariant` (`SuppressorPoolProofs`): `PoolInv`. The inductive invariant of the pool: mutex, holders and the whereabouts of every suppressor at each step.
- `PoolTypeCorrect` (`SuppressorPoolProofs`): Type correctness of the pool with any number of suppressors and sessions.
- `PoolExclusive` (`SuppressorPoolProofs`): No suppressor is in use by two sessions, or in use and idle at once.
- `PoolClosesAll` (`SuppressorPoolProofs`): `ClosedLeavesNothing`. After Close has returned and the sessions have released, no suppressor is left open.
- `PoolImplementsLease` (`SuppressorPoolProofs`): `ImplementsLease`. The pool, step by step, implements the abstract lease: ready, held by one session, shut for good.
- `MediaInvariant` (`MediaPathProofs`): `MediaInv`. Over a network that reorders, duplicates, loses and changes legs, for every sequence space, depth and window: buffer, playout point, frame in hand and concealment history stay in stream order and of one leg.
- `PlayoutMovesForward` (`MediaPathProofs`): `PlayoutForward`. No packet is played twice or after a later one of its leg, also across wrap-around and resynchronisation.
- `NoLegMixed` (`MediaPathProofs`): `NoCrossLegAudio`. No frame of one call leg, played or concealed, is forwarded under the SSRC of another.
- `MediaImplementsBuffer` (`MediaPathProofs`): The receive path uses the jitter buffer only as its specification says, so every theorem about the buffer holds of the path.
- `MediaImplementsConcealment` (`MediaPathProofs`): The receive path uses the concealment only as its specification says.
- `ConcealmentOnlyFades` (`MediaPathProofs`): Within a burst of losses no concealed frame is louder than the one before.
- `PathKeepsDueAndFades` (`MediaPathProofs`): `DueKeptBurstFades`. On the receive path the packet that is due is never lost to a full buffer, and concealment only fades.
- `BufferKeepsDue` (`MediaPathProofs`): No Push takes the packet that is due out of a primed buffer, whatever it drops to make room.
- `ProxyInvariant` (`SipProxyProofs`): `ProxyInv`. For any number of handlers, calls and sessions: every session created has one owner who will stop it, or its sockets are closed.
- `FeedInvariant` (`ChannelsProofs`): `FeedInv`. For any channel size, number of frames and of Stops the freshest frame gets in, frames stay in order and nothing is sent after the close.
- `TurnInvariant` (`ChannelsProofs`): `TurnInv`. For any channel size and silence threshold the newest boundary gets in, events are received in order and silence is counted rightly.
- `EventsFollowUtterances` (`ChannelsProofs`): `EventAfterUtterance`. Every turn-end event is fired by exactly the configured silence after speech.
- `ClientInvariant` (`ChannelsProofs`): `ClientInv`. For any queue size and any number of senders, frames of a sender are delivered in order and every one is delivered, queued, dropped as the oldest, or lost with a connection.
- `BridgeInvariant` (`ChannelsProofs`): `BridgeInv`. For any number of connections over one suppressor each client gets its own frames, each once and in order, and the mutex is given back.
- `ServerInvariant` (`ChannelsProofs`): `ServerInv`. For any number of suppressors on one port every process is waited for once, none is orphaned, and nobody loses its server without a fault or a closing.
- `PlaybackInvariant` (`SessionStreamsProofs`): `PlaybackInv`. For any number of injectors and any queue size the counters balance and an injection that was refused a frame says so.
- `SilencedStaysSilent` (`SessionStreamsProofs`): A frame of bot audio that a barge-in discarded is never sent afterwards.
- `DtmfInvariant` (`SessionStreamsProofs`): `DtmfInv`. For any losses in an ordered network, a digit is reported at most once while the session runs, and each press heard on a leg is reported.
- `RtcpInvariant` (`SessionStreamsProofs`): `RtcpInv`. For any SSRCs and any number of packets and changes, what is stored about a stream is consistent at every step of the listener and of the receive loop.
- `RtcpTimesMatch` (`SessionStreamsProofs`): A report never stands without its arrival time, and of the old leg at most the packet in hand survives a change of SSRC.
- `DecodeInvariant` (`FilesProofs`): `DecodeInv`. For any length of the source and any order of failures, cancellation and pipe operations, a decode reported as a success is whole and the log is complete.
- `BatchInvariant` (`FilesProofs`): `BatchInv`. For any set of files, a destination is absent or whole, and one that counts as done was made from the present source.
- `BatchTellsTruth` (`FilesProofs`): `DestinationsTrue`. A failed attempt leaves the destination as it was, and a later batch takes up exactly what is missing or out of date.
- `WALInvariant` (`FilesProofs`): `WALInv`. While one process at a time owns the directory, an acknowledged record is on disk or pushed, unless an unfinished line, a refused push, or a log that has no OnFlush took it.
- `MonitorInvariant` (`ChannelsProofs`): `MonitorInv`. For any readings, SNR callback, number of samples and of Stops, no report counts fewer alerts than its snapshots show, between two samples the pipeline is tuned to the last one, and of two readings with a known SNR the worse one alerts too.
- `AgentInvariant` (`PartsProofs`): `AgentInv`. For any streams, frame size and order of messages: clean audio is numbered by the frames sent and lost only to a failure or a restart, gain control is told when done and else only after an earlier start that had it, and once the connection is gone only pipelines replaced while open are left open.
- `VadInvariant` (`PartsProofs`): `VadInv`. Through calibration, threshold changes and Resets, for any energies and lengths of window and hangover, a frame is speech exactly if it or one of the hangover's frames before it was loud.
- `BurstsLeaveFloor` (`PartsProofs`): `BurstsDoNotRaiseFloor`. Bursts that fill less than four fifths of the calibration window leave the floor at the steady noise, however loud they are.
- `LevelInvariant` (`PartsProofs`): `LevelInv`. For any cap, target and sequence of levels the gain stays within its bounds and the output within the scale, the ceiling and the limiter's input.
- `PipelineInvariant` (`PartsProofs`): `PipelineInv`. For any frame sizes and cuts of the input, and any order of calls, failures, switches and resets: no audio is doubled, none is lost but where Flush cuts or a failure drops it, and the counters tell what was done.
- `HttpInvariant` (`PartsProofs`): `HttpInv`. For any finite set of concurrent requests: plain counters never overcount, Prometheus counters balance on every exit path, each request is answered once and as counted, and none leaves a temporary file.
- `MeterInvariant` (`AnalysisProofs`): `MeterInv`. For any features, pulse and clock, set back or not: a feature enabled before the hangup is billed, the units are the fewest that cover the call, and the price counts every feature once.
- `DiarInvariant` (`AnalysisProofs`): `DiarInv`. For any gap and any sequence of speech, silence, far-end reports and resets, each frame lies in the segment of the speaker it belongs to, segments follow each other without a hole, and a summary never shows more speech than time.
- `EvalInvariant` (`AnalysisProofs`): For any number of files and workers the summary accounts for every file once, and with one worker no file is measured with another's sound in the suppressor.
- `ScorerInvariant` (`AnalysisProofs`): For texts of any length the two rows of the scorer compute the length of their longest common subsequence; the model is asked no sooner than the delay, and every pair is accounted for.
- `EvaluationInvariant` (`AnalysisProofs`): `EvaluationInv`. Both promises of the offline evaluation, as the run checks them.
- `ResamplerInvariant` (`AnalysisProofs`): For any filter lengths, frames and buffers, filtering frame by frame is one filter over the stream between two resets, and every output of a conversion sees a window centred where it should be.
- `ResamplingInvariant` (`AnalysisProofs`): `ResamplingInv`. The same of the conversions in the run that explores them.
- `PartsAreTheirSpecs` (`AnalysisProofs`): The run that explores ten parts side by side implements the specification of each: what is proved of a part holds of its instance in the run.
- `PartsInvariant` (`AnalysisProofs`): All invariants and the action property of the run audio_parts, of its own specification and for every value of its constants.

The assumptions are the named `ASSUME`s of the modules, which TLC also evaluates: the drift limit
is smaller than half of the sequence space, depths lie in their clamps, the pool, the feed and the event channel have a
positive size, the monitor has readings to take, the requests of the HTTP API and
the features of a meter are finitely many, a diarizer's gap and a batch's permits are positive, filters of the resampler have odd (2:1) or even (linear) lengths
and a 48 kHz frame is a multiple of three samples, tokens are numbers, and the names of
goroutines and of sentinels differ. `MediaAssumption` adds that a packet which is only late
is not far enough behind to be taken for a restart (`Window < MaxDrift`; 500 numbers in the code), and
that a gap on top of the drift limit does not go round the circle. One theorem has a hypothesis on the behaviour:
`WALInvariant` is about a directory one process at a time writes to (`OneAtATime`). It is what a pod and its restart do, and
without it the property is false: recovery by a second process removes the file the first is appending to, as listed above.

Every invariant proved here is the one its run checks: it is stated in inductive form in the module of its component, so
TLC and TLAPS are about the same formula.

**Jitter buffer** (`MediaPathProofs`, its first half). `NoWedge` is not inductive on its own: the step that
primes the buffer needs to know what an unprimed buffer holds. The invariant is
`JitterInv == TypeOK /\ Bounded /\ NoWedge /\ Gathering`, which the run `receive` also checks, where `Gathering` says that the packets
collected before playout begins lie close together and in stream order. The lemmas first relate `seqLess`
to distances from a base (`OrderIsDistance`, `NearTransitive`: the comparison is not transitive
on the whole circle, but is within a window), then say what insertion into an ordered buffer
returns (`InsertShape`, `InsertKeepsOrder`, `InsertKeepsGathering`), and then take `Push`, `Pop` and
`Reset` in turn. `NoDuplicates` follows from the strict order of `NoWedge` and `Gathering`. That tail-drop never costs the
packet that is due (`BufferKeepsDue`) is a case analysis of one step: before a head that is due nothing is inserted,
because what would go there is stale.

**Receive path** (`MediaPathProofs`). That playout moves forward does not follow from the buffer alone: after a drift
resynchronisation the buffer is unprimed and takes its next playout point from what it then holds. `PlayedOrder` says that in that
case the frame played last lies more than a window behind the newest packet, so that even the latest of late packets comes
after it; `StreamOrder` keeps buffer and playout point behind the newest packet and within half of the circle of it, and
`FrameInHand` and `OneLeg` carry both facts through the three steps of `handlePacket`. `DueBeforeNewest`, `PlayedBeforeDue` and
`DistToNext` are the arithmetic on the circle; `ArrivalKeepsInv`, `LegChangeKeepsInv`, `PushKeepsPath`, `PopKeepsPath` and the five
lemmas about the way out take one action each. `PlayoutForward` and `NoCrossLegAudio` follow. The path also implements
its two parts: every step is a `[Next]_jitterVars` step (`PathStepIsBufferStep`) and a `[PLCNext]_plcVars` step
(`PathStepIsPLCStep`), so what is proved of the buffer and of the concealment (`ConcealmentOnlyFades`) holds of the path
(`PathKeepsDueAndFades`).

**SIP proxy** (`SipProxyProofs`). `SocketsAccounted` is not inductive: nothing in it says what becomes of a session a handler lets go of.
`StoppedOrHeld` does: whoever lets go of one has closed its media socket and its RTCP socket, or seen that there will be none, and a `Start`
that comes late opens neither again. With `OnePlace` and `AtHand` it is inductive. `OwnersStay` deals with all steps that move
no session; the two critical sections (`MapKeepsInv`) and the last step of a stop move some.

**Suppressor pool** (`SuppressorPoolProofs`). The invariant is
`PoolInv == PoolTypeOK /\ Locked /\ Holding /\ ExclusiveUse /\ Accounted`, which `resources` checks: who is at a step inside
the mutex is its holder (`Locked`), a session holds a suppressor exactly at the steps between
receive and release (`Holding`), and every suppressor made is idle, held, being put in by
`WarmPool` or shut (`Accounted`). `Locked` also says that whoever is about to send on the channel does so before it
is closed, so shutting down cannot panic; that nothing stays open follows from `Accounted`. For the refinement `LeaseIsDetermined` shows that the mapping is a function
of the pool's state, `OneMoves` and `NoneMoves` that each step changes the lease of at most one
suppressor, and `LeaseStep` matches every action with a lease action or a stutter.

**Clean-audio feed** (`ChannelsProofs`). `FreshestKept` is not inductive: that the second try finds room
holds because the loop is the only sender and has just dropped a frame. `Underway` says that there is room where a frame is
tried again, that the frame in hand is newer than
all in the channel and these newer than what was received, and that a frame in hand holds up the end of the loop.
`SentNewest`, `TailOfFeed` and `TailInOrder` say what a send and a receive leave; then `DeliverKeepsInv` takes the
three selects, `ConsumeKeepsInv` the receive and `StopKeepsInv` the rest.

**Turn ends** (`ChannelsProofs`). The same idiom with a producer that counts: `BoundaryUnderway` is its `Underway`,
and `SilenceCounted` ties the counter to the last frames observed. From the latter follows that an event is preceded by
speech and exactly the configured silence (`EventsFollowUtterances`).

**Reconnect client** (`ChannelsProofs`). Delivered frames, the frame being written and the queue form one sequence, `Pipe`;
order is proved of it as a whole, because a frame moves along it (`FrameMoves`), leaves it in the middle when the oldest is
dropped (`HeadDropped`) or the connection breaks (`HeldLost`), and enters at its end only (`FrameSent`). `OnlySettled` is what makes
an entering frame the newest of its sender.

**WebSocket bridge** (`ChannelsProofs`). `FramesCounted` says that the samples framed so far are exactly the frames made, and that the frame in the
suppressor is the next one of whoever holds the mutex; without it `OwnFramesInOrder` says nothing about the frame that is
about to be appended. `EachServedRight` reduces the invariant to one connection, `OthersServedRight` to the one that moves.

**DeepFilterNet server** (`ChannelsProofs`). `WaitOnce` and `NoOrphan` need `StageTells`, the relation between the stage of a suppressor, its
process, the watcher and the state of `reapOnce`. `PassthroughExplained` needs `ReadyWasServed`: between the start
and the first frame sent the server must not have gone without a reason, and reasons stay (`ExplainedStays`).

**Playback** (`SessionStreamsProofs`). The counters count frames, so `FramesBalanced` needs that no frame is in two places:
`FramesOnce`, with `Behind` for a frame its injector is done with. `SilencedStaysSilent` follows, because what is sent is in
no set of discarded frames.

**DTMF** (`SessionStreamsProofs`). The detector's memory is one event and one flag. `FlowInTurn` says that what is still on the
wire comes after what was handled, `DetectorTracks` that the memory is that of the last press handled on this leg, and `ReportsHandled` that reports
stem from handled end packets. `ParseKeepsInv` goes through the cases of the comparison; the rest only moves packets.

**RTCP statistics** (`SessionStreamsProofs`). A store in the middle of a reset is what could break it; `InHand` says that the
listener's packet counts no
less than the last reset and that it has a block to store. `PacketsKeepInv` takes the receive loop, `ListenerKeepsInv` the listener,
and `PreferredIsLeg` shows that the block it prefers always is about a leg.

**File decode** (`FilesProofs`). `SuccessIsWhole` is a statement about the end of a chain of pipes and goroutines. `Unlost` follows
the units through it until the first error, and `InTurn` says what the caller has learnt when it reaches each of its steps: the
success of the child, of the copy goroutine and of the reader together leave no unit anywhere but in the result.

**File batches** (`FilesProofs`). `TimesTell` says that the comparison of modification times decides whether the source has been replaced since;
it holds because a destination gets the time of its own encode (`AttemptsSound`). `BatchTellsTruth` is proved of each step from the
invariant: what a failure leaves, and what a later batch takes up.

**Write-ahead log** (`FilesProofs`). `AckedDurable` is in danger where a file is removed; `InHand` says that at these steps its records are
pushed, refused or discarded for want of an `OnFlush`, that no other step holds the file open, and that a record being written is one that was offered. `CreatedFile` and `RemovedFile`
say what creating and removing do to the records on disk.

**Agent stream** (`PartsProofs`). What an event names and tells is state of the connection, so `GainTold` and `NamedAsStarted` need
`CallAsStarted`, the same two statements about the call before the event is made. `AudioAccounted` is arithmetic with the
product of frames and their length: a frame completed moves `FrameUnits` from what is held to what was sent or failed, and a start forgets less than that.
`StartKeepsInv`, `MediaKeepsInv` and `FailureKeepsInv` take the messages that build, send or fail; `ControlKeepsInv` all others.

**Voice activity** (`PartsProofs`). `HangoverRunsOut` ties the countdown to the age of the last loud frame, and with it the verdict is
inductive. `BurstsLeaveFloor` is about the percentile of a window of any length: `NoiseFloor` chooses the energy at a rank, and first it must
be shown that there is one (`RankedExists`). That is an induction over the energies of the window; it is done without an
induction rule, by the least element of a set of naturals (`LeastElement`) and the largest of a bounded one (`LargestElement`), both
from the well-foundedness of strict inclusion on a finite set (`MinimalMember`). `FloorIsSteadyNoise` is then counting: more
than a fifth of the window is no louder than the steady noise, so the energy at the rank is not either.

**Level control** (`PartsProofs`). The invariant is inductive as it stands; what the proof needs is arithmetic with products and quotients:
a desired gain is at least one unit of it, a smoothed one lies between the old one and the target (`SmoothedBetween`), a share of at most the whole is at most the
whole (`ShareAtMost`), and so the limiter's output is within ceiling and input (`LimitedWithin`).

**Audio pipeline** (`PartsProofs`). `FedIsWritten` speaks of a pipeline between two calls. `UnitsBalance` says the same at every step, counting the frame in
hand at the place it has reached (`Holding`): what was fed has been begun, waits to be, or was flushed. `OnItsPath` and `StagesFollowLatch`
say where that frame can be and what has been done to it. The bounds of the types follow from the balance
(`BalanceBounds`), so the induction is over the invariant with natural counters (`PipelineIInv`). The balance is an equation only while
nothing fails, `Flush` included, and what `Flush` finds fits its frame; `Flush` cuts what is left over above 16 kHz, and the theorem says so.

**HTTP API** (`PartsProofs`). Counters are compared with sets of requests: those that have stored, those that have been counted, by the place each has
reached. Only the step of one request changes its membership (`OthersStay`, `RequestCounts`), by at most one element
(`SetsMove`, `CountsMove`). A lost update then stores one more than was loaded, while the set of those that stored has grown by one
since at the least (`PlainCountsKept`); the atomic counters are exactly the sizes of their sets (`AtomicCountsKept`), and their balance is the
partition of the requests received (`ExactBalances`). `OnRoute` carries what a request has written and created from place to place
(`RequestSettles`). `ConfigsRepaired` and `ExtensionsFit` are about constants.

**RTP monitor** (`ChannelsProofs`). `ReportCoversAlerts` compares a counter with what a slice of snapshots shows, and the sampler counts an alert
before it appends the snapshot. `CountedAhead` says by how much the counter is ahead at each of its steps; `ShownAppend` says what
an appended snapshot adds.

**Meter** (`AnalysisProofs`). `HungUpKept` ties the record to the features seen at the hangup, whose goroutines may still be at a swap
(`EnableKeepsInv`). `UnitsCover` is about rounding up: the units cover the call and one fewer would not. `SumOfTwos` says what the
fold over the features adds up to, which is why each is counted once.

**Diarisation** (`AnalysisProofs`). The segments are compared with the labels returned, of which each may change its owner when a silence grows
longer than the gap. `FrameState` is the invariant as a relation between labels, segments, the one in hand and the start of the silence; `SpeechFrame` and
`SilenceFrame` take a frame from one such state to the next, by `StaysMatches` where the speaker stays and by `TurnMatches` where a segment ends, back at the first
frame of the silence. `OwnerKept` says which frames keep their owner when another is heard. That a summary fits the time needs the sum of the segments:
they lie end to end, so their lengths add up to the way from the first to the last (`SumOfSegments`).

**Batch evaluation** (`AnalysisProofs`). `SummaryHonest` is a partition of the files by what became of them, `MeasuredAlone` a statement about the moment
a result is made. `FilesInOrder` and `OwnSound` are what both need earlier: with one permit nobody else is in work (`AtMostOne`), and
what the suppressor holds since the reset is the file's own.

**Scoring** (`AnalysisProofs`). That two rows of a table yield the length of the longest common subsequence is a property of all texts, not of steps. A
common subsequence is defined by places in both texts (`Places`), without reference to the table. `MatchStep` and `DifferStep` say that a
token which ends both texts is in one of the longest, and that of two different ones one is not needed; `LongestStep` turns that into the entry of the table,
`RowAfter` goes along a row, `LcsLongest` down the rows.

**Folds** (`AnalysisProofs`). Both computations, and the sums of other components, are folds over sequences of the community modules, which are a
recursive function chosen by `CHOOSE`. What such a function computes is an induction over data, for which the provers take no rule. Here it is done
like the ranks of voice activity, by a least counterexample: `FoldExists` shows that there is such a function for every length, `FoldTakes` gives its value at the first
`k` elements from its value at `k - 1`. As an operator cannot be a parameter of a lemma, `FoldStep` lists the steps of the folds the models use.

**Sample-rate conversion** (`AnalysisProofs`). `HistoriesKept` says which samples of the two streams the filters remember, those of the silence before a stream
included. `DownStep` then shows that a frame behind its history is a piece of the stream, `UpStep` the same of the second filter, whose stream is what the first has
made and which may miss frames when a stage fails; `DownKept`, `UpKept` and `ResetResamplerKeeps` are the actions. For a conversion of a buffer `WindowSize` and `WindowMembers` count what a
window meets, and `UpCentred`, `DownCentred` and `LinearCentred` take the kinds, with reflections at both ends. `FramesKept` is arithmetic with
quotients: at which rates a frame is one of the suppressor's, and at which it comes back longer. It holds of rates from 100 Hz on; below, a frame of 10 ms has no sample.
`MonoAndPeakHold` is about sums and peaks of two samples.

**The parts side by side** (`AnalysisProofs`). The run `audio_parts` explores ten components in one state space. `PartsAreTheirSpecs` proves that its specification implements each
of theirs, so every theorem about a component holds of that run too; `PartsInvariant` collects all that the run checks.

Only model-checked is what lies beyond `[]` and `[][A]`, liveness under fairness: `ReceiveGetsOn`, `EveryCallReturns`, `RequestAnswered`,
`PlayedOrSilenced`, `ChannelsEnd` and `FilesEnd`. The provers have no rule for it that does not need `ENABLED`. The five properties of the
runs that show a disagreement are false and have no theorem. No module uses a recursive operator. The equation of `FedIsWritten` is proved for the rates whose
leftover fits, the log for one process at a time; these are hypotheses of the properties and of `WALInvariant` themselves, and
the deviations listed above say what happens without them.

## Not modelled

Suppression models, echo cancellation, the adaptive noise reducer, codecs and band filters compute in floating point
without control worth checking; of level control and resampling the control is modelled and the coefficients are not. SDP,
RTP header and JSON parsing are stateless. Telemetry, load tests, compatibility probes, the formulas of the quality
measures, report files, command lines and examples decide nothing in the service. Some properties of the models a reader
should know: the jitter buffer's timing is reduced to a choice of depth, so nothing is said about milliseconds; a
pipeline stage is one step that works or fails, so nothing is said about sound; and `LevelControl` takes a frame as one
sample, so nothing is said about how fast a gain settles.

## Plan

Done, in the order it was built: the jitter buffer, concealment and the receive path with the buffer's proof; the
suppressor pool with its lease, its proof and the SDK; session life cycle and SIP proxy; the log; the feeds;
the reconnecting client; playback, DTMF and RTCP; voice activity, turn ends and the pipeline; AgentStream; file decode and
batches; the DeepFilterNet server, the WebSocket bridge and the RTP monitor; level control, diarisation and resampling; the
meter, the HTTP API, batch evaluation and transcript scoring.

Next modules: a composition of session life cycle, feed and playback, to check `Stop` against all loops at once;
`HttpApi` composed with `FileBatch`, and `SessionMeter` with `BillingWAL`; the framing of `ProcessFrames` at the other rates.

Next theorems: what `Flush` cuts, counted, at the rates where it does; the log with two processes whose recovery leaves the open file alone, when the
code does so; the safety half of the liveness properties (what must hold at the end of a call if it ends). Liveness itself stays with TLC.
