-------------------------- MODULE DeepFilterServer --------------------------
(* The deepfilter-server suppressors of one host                            *)
(* (pkg/model/deepfilter_server.go) and the script they start               *)
(* (scripts/df_server.py).  Each looks for a server on the common port and, *)
(* if there is none and it has a script, starts one, watches it in a        *)
(* goroutine, and polls until it is ready, has exited or is late.  A server *)
(* binds the port when its model is loaded, and exits if another has it.    *)
EXTENDS Integers, FiniteSets

CONSTANTS
  Starters,   \* the suppressors
  Manual,     \* the server somebody has started by hand, if any
  MaxFaults   \* bound: crashes of servers and lost requests

ASSUME ServerAssumption == Manual \notin Starters /\ MaxFaults \in Nat

VARIABLES
  starter,    \* where each suppressor is, in its constructor or in Close
  cmd,        \* s.cmd is not nil
  proc,       \* the server process it started; Manual's
  once,       \* s.waitOnce: not entered, in Wait, done
  waits,      \* calls of cmd.Wait
  watcher,    \* the goroutine that waits for the exit
  unenhanced, \* the suppressors that have passed a frame through
  faults

serverVars == <<starter, cmd, proc, once, waits, watcher, unenhanced, faults>>
reapVars == <<once, waits, watcher>>

ServerTypeOK ==
  /\ starter \in [Starters -> {"new", "start", "poll", "ping", "late", "ready",
                               "kill", "reap", "failed", "closed"}]
  /\ cmd \in [Starters -> BOOLEAN]
  /\ proc \in [Starters \cup {Manual} -> {"none", "loading", "serving", "dead", "reaped"}]
  /\ once \in [Starters -> {"fresh", "waiting", "done"}]
  /\ waits \in [Starters -> 0 .. 2]
  /\ watcher \in [Starters -> {"none", "spawned", "reaping", "exited"}]
  /\ unenhanced \in SUBSET Starters /\ faults \in 0 .. MaxFaults

ServerInit ==
  /\ starter = [d \in Starters |-> "new"] /\ cmd = [d \in Starters |-> FALSE]
  /\ proc \in [Starters \cup {Manual} -> {"none", "serving"}]
  /\ \A d \in Starters : proc[d] = "none"
  /\ once = [d \in Starters |-> "fresh"] /\ waits = [d \in Starters |-> 0]
  /\ watcher = [d \in Starters |-> "none"] /\ unenhanced = {} /\ faults = 0

Serving == \E p \in DOMAIN proc : proc[p] = "serving"
Killed(state) == IF state \in {"loading", "serving"} THEN "dead" ELSE state
At(d, s) == starter' = [starter EXCEPT ![d] = s]

\* A request is answered by a server, or lost at the price of a fault.
Answered == Serving /\ UNCHANGED faults
Unanswered == IF Serving THEN faults < MaxFaults /\ faults' = faults + 1 ELSE UNCHANGED faults

(* The constructor: a server that answers will do; otherwise a script, if   *)
(* it was given one.                                                        *)
NewSuppressor(d) ==
  /\ starter[d] = "new"
  /\ \/ Answered /\ At(d, "ready")
     \/ Unanswered /\ (At(d, "start") \/ At(d, "failed"))
  /\ UNCHANGED <<cmd, proc, reapVars, unenhanced>>

(* startServer: no script, no python3, or a process and its watcher.        *)
StartServer(d) ==
  /\ starter[d] = "start"
  /\ \/ At(d, "failed") /\ UNCHANGED <<cmd, proc, watcher>>
     \/ /\ At(d, "poll") /\ cmd' = [cmd EXCEPT ![d] = TRUE]
        /\ proc' = [proc EXCEPT ![d] = "loading"]
        /\ watcher' = [watcher EXCEPT ![d] = "spawned"]
  /\ UNCHANGED <<once, waits, unenhanced, faults>>

(* The select: the process has exited, or the interval has passed first.    *)
PollExited(d) ==
  /\ starter[d] = "poll" /\ watcher[d] = "exited" /\ At(d, "failed")
  /\ UNCHANGED <<cmd, proc, reapVars, unenhanced, faults>>

PollTimer(d) ==
  /\ starter[d] = "poll" /\ watcher[d] # "exited" /\ At(d, "ping")
  /\ UNCHANGED <<cmd, proc, reapVars, unenhanced, faults>>

Ping(d) ==
  /\ starter[d] = "ping"
  /\ (Answered /\ At(d, "ready")) \/ (Unanswered /\ At(d, "poll"))
  /\ UNCHANGED <<cmd, proc, reapVars, unenhanced>>

Deadline(d) ==
  /\ starter[d] = "poll" /\ At(d, "late")
  /\ proc' = [proc EXCEPT ![d] = Killed(@)]
  /\ UNCHANGED <<cmd, reapVars, unenhanced, faults>>

(* reap(), by the watcher, the deadline and Close: the first to come calls  *)
(* Wait, the others wait for it.                                            *)
EnterOnce(d) ==
  /\ once[d] = "fresh"
  /\ once' = [once EXCEPT ![d] = "waiting"] /\ waits' = [waits EXCEPT ![d] = @ + 1]

Watch(d) ==
  /\ watcher[d] = "spawned" /\ watcher' = [watcher EXCEPT ![d] = "reaping"]
  /\ EnterOnce(d) \/ (once[d] # "fresh" /\ UNCHANGED <<once, waits>>)
  /\ UNCHANGED <<starter, cmd, proc, unenhanced, faults>>

ReapFirst(d) ==
  /\ starter[d] \in {"late", "reap"} /\ EnterOnce(d)
  /\ UNCHANGED <<starter, cmd, proc, watcher, unenhanced, faults>>

WaitReturns(d) ==
  /\ once[d] = "waiting" /\ proc[d] = "dead"
  /\ once' = [once EXCEPT ![d] = "done"] /\ proc' = [proc EXCEPT ![d] = "reaped"]
  /\ UNCHANGED <<starter, cmd, waits, watcher, unenhanced, faults>>

WatchEnds(d) ==
  /\ watcher[d] = "reaping" /\ once[d] = "done"
  /\ watcher' = [watcher EXCEPT ![d] = "exited"]
  /\ UNCHANGED <<starter, cmd, proc, once, waits, unenhanced, faults>>

Reaped(d) ==
  /\ starter[d] \in {"late", "reap"} /\ once[d] = "done"
  /\ \/ starter[d] = "late" /\ At(d, "failed") /\ UNCHANGED cmd
     \/ starter[d] = "reap" /\ At(d, "closed") /\ cmd' = [cmd EXCEPT ![d] = FALSE]
  /\ UNCHANGED <<proc, reapVars, unenhanced, faults>>

Shutdown == proc' = [p \in DOMAIN proc |-> IF proc[p] = "serving" THEN "dead" ELSE proc[p]]

\* Mutant of CloseServer: whoever is closed asks the server to shut down.
CloseAnyway(d) ==
  /\ starter[d] = "ready"
  /\ Shutdown /\ (IF cmd[d] THEN At(d, "kill") ELSE At(d, "closed"))
  /\ UNCHANGED <<cmd, reapVars, unenhanced, faults>>

(* Close of a suppressor that has started a process asks the server on the  *)
(* port to shut down, whosever it is, then kills and reaps its own.  The    *)
(* mutex makes a second Close find cmd nil.                                 *)
CloseServer(d) ==
  /\ starter[d] = "ready"
  /\ IF cmd[d] THEN At(d, "kill") /\ (Shutdown \/ UNCHANGED proc)
               ELSE At(d, "closed") /\ UNCHANGED proc
  /\ UNCHANGED <<cmd, reapVars, unenhanced, faults>>

KillOwn(d) ==
  /\ starter[d] = "kill" /\ At(d, "reap")
  /\ proc' = [proc EXCEPT ![d] = Killed(@)]
  /\ UNCHANGED <<cmd, reapVars, unenhanced, faults>>

(* A frame goes to the server and comes back enhanced, at its own length;   *)
(* without a usable answer the caller gets the frame as it was.             *)
Process(d) ==
  /\ starter[d] = "ready"
  /\ \/ Answered /\ UNCHANGED unenhanced
     \/ Unanswered /\ unenhanced' = unenhanced \cup {d}
  /\ UNCHANGED <<starter, cmd, proc, reapVars>>

\* The script loads its model and takes the port.  It exits if it cannot load
\* the model, or if the port is taken, be it by a server that is shutting down.
Bind(d) ==
  /\ proc[d] = "loading"
  /\ \/ ~Serving /\ proc' = [proc EXCEPT ![d] = "serving"]
     \/ proc' = [proc EXCEPT ![d] = "dead"]
  /\ UNCHANGED <<starter, cmd, reapVars, unenhanced, faults>>

\* The script dies, loading or serving: an exception, a signal.
Crash(p) ==
  /\ proc[p] \in {"loading", "serving"} /\ faults < MaxFaults
  /\ proc' = [proc EXCEPT ![p] = "dead"] /\ faults' = faults + 1
  /\ UNCHANGED <<starter, cmd, reapVars, unenhanced>>

ServerStep(d) ==
  \/ NewSuppressor(d) \/ StartServer(d) \/ PollExited(d) \/ PollTimer(d) \/ Ping(d)
  \/ Watch(d) \/ ReapFirst(d) \/ WaitReturns(d) \/ WatchEnds(d) \/ Reaped(d) \/ KillOwn(d)

ServerNext ==
  \/ \E d \in Starters : ServerStep(d) \/ Deadline(d) \/ CloseServer(d) \/ Process(d) \/ Bind(d)
  \/ \E p \in Starters \cup {Manual} : Crash(p)

ServerSpec == ServerInit /\ [][ServerNext]_serverVars

(* Goroutines run, requests have a timeout of five seconds, a killed        *)
(* process dies, and the thirty seconds of the start pass.                  *)
ServerFairness ==
  \A d \in Starters : WF_serverVars(ServerStep(d)) /\ WF_serverVars(Watch(d) \/ WaitReturns(d))
                      /\ SF_serverVars(Deadline(d))

-----------------------------------------------------------------------------
(* Properties *)

(* "Wait must only be called once", and on a command that is still there:   *)
(* the watcher goroutine may come to reap after Close has set cmd to nil.   *)
WaitOnce ==
  \A d \in Starters : waits[d] <= 1 /\ ((proc[d] # "none" /\ ~cmd[d]) => once[d] = "done")

(* No process survives its suppressor, and none is left unreaped: not by    *)
(* Close, and not by a constructor that failed after starting it.           *)
NoOrphan ==
  \A d \in Starters : starter[d] \in {"failed", "closed"} => proc[d] \in {"none", "reaped"}

\* A fault, or a suppressor that had started a process was closed or gave up.
Explained ==
  \/ faults > 0
  \/ \E d \in Starters : starter[d] \in {"late", "kill", "reap", "failed", "closed"}
                         /\ proc[d] # "none"

(* A suppressor passes frames through because of a fault, or because one    *)
(* that had started a process was closed or gave up on it: closing one that *)
(* only found a server leaves the others theirs.                            *)
PassthroughExplained == unenhanced # {} => Explained

(* Whoever is ready has been answered, by a server that is still there      *)
(* unless its end is explained.                                             *)
ReadyWasServed == (\E d \in Starters : starter[d] = "ready") => Serving \/ Explained

(* A suppressor has a process, and somebody who reaps it, as its stage says.*)
StageTells ==
  \A d \in Starters :
    /\ starter[d] \in {"new", "start"} => proc[d] = "none"
    /\ starter[d] \in {"poll", "ping", "late", "kill", "reap"} => proc[d] # "none" /\ cmd[d]
    /\ starter[d] \in {"late", "reap"} => proc[d] \in {"dead", "reaped"}
    /\ (proc[d] = "none" <=> watcher[d] = "none") /\ (proc[d] = "none" => ~cmd[d])
    /\ (once[d] = "fresh" <=> waits[d] = 0) /\ (once[d] # "fresh" <=> waits[d] = 1)
    /\ once[d] = "done" <=> proc[d] = "reaped"
    /\ proc[d] = "none" => once[d] = "fresh"
    /\ watcher[d] = "exited" => once[d] = "done"

ServerInv ==
  /\ ServerTypeOK /\ StageTells /\ WaitOnce /\ NoOrphan
  /\ ReadyWasServed /\ PassthroughExplained

(* Constructors and Close return, whatever becomes of the process.          *)
ServerCallsReturn ==
  \A d \in Starters :
    (starter[d] \notin {"new", "ready"}) ~> (starter[d] \in {"ready", "failed", "closed"})
=============================================================================
