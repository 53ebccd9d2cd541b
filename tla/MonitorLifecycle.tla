--------------------------- MODULE MonitorLifecycle ---------------------------
(***************************************************************************)
(* One monitor of the detector from its start to its end: the goroutine of *)
(* BaseMonitor that checks (pkg/monitors/base.go), the fan-in goroutine    *)
(* that hands its statuses on, and MonitorHandle.Stop, which ends both     *)
(* (pkg/detector/detector.go).  A reload that removes or changes the       *)
(* monitor and the detector's Stop may both stop it; Stop then closes the  *)
(* status channel.  A check may take any time: its context is cancelled    *)
(* after its timeout, but nothing makes it return.                         *)
(***************************************************************************)
EXTENDS Integers

CONSTANTS
    StatusBuffer,   \* capacity of the monitor's status channel
    MaxChecks       \* bound on the checks of a behaviour

Stoppers == {"reload", "detector"}

VARIABLES
    runner,       \* BaseMonitor.run: "check", "wait" or "ended", when the channel is closed
    running,      \* b.running
    stopChan,     \* times b.stopChan was closed
    buffered,     \* statuses in b.statusChan
    fanIn,        \* fanInFromMonitor: "receive", "send" or "ended"
    handleCtx,    \* the handle's context: "live" or "done"
    mhStopped,    \* mh.stopped
    stopper,      \* per caller of MonitorHandle.Stop: where it is
    outChan,      \* pd.statusChan: "open" or "closed"
    crashed,      \* a send on a closed channel, or a second close, ended the agent
    checks        \* checks so far

lifecycleVars == <<runner, running, stopChan, buffered, fanIn, handleCtx, mhStopped, stopper,
                   outChan, crashed, checks>>
handleVars == <<handleCtx, mhStopped, stopper, outChan>>

(* addMonitor: CreateMonitor has validated and built the monitor, Start    *)
(* has started it, and the fan-in follows it.                              *)
LifecycleInit ==
    /\ runner = "check" /\ running = TRUE /\ stopChan = 0 /\ buffered = 0
    /\ fanIn = "receive" /\ handleCtx = "live" /\ mhStopped = FALSE
    /\ stopper = [c \in Stoppers |-> "idle"]
    /\ outChan = "open" /\ crashed = FALSE /\ checks = 1

(* executeCheck returns.  An error, a panic and no status at all each      *)
(* become a status (createErrorStatus, createHealthyStatus); a full        *)
(* channel drops it (sendStatus).                                          *)
CheckReturns ==
    /\ runner = "check"
    /\ runner' = "wait"
    /\ buffered' = IF buffered < StatusBuffer THEN buffered + 1 ELSE buffered
    /\ UNCHANGED <<running, stopChan, fanIn, handleVars, crashed, checks>>

(* The ticker may win against a stop signal that is there as well. *)
NextCheck ==
    /\ runner = "wait" /\ checks < MaxChecks
    /\ runner' = "check"
    /\ checks' = checks + 1
    /\ UNCHANGED <<running, stopChan, buffered, fanIn, handleVars, crashed>>

RunEnds ==
    /\ runner = "wait" /\ stopChan > 0
    /\ runner' = "ended"
    /\ UNCHANGED <<running, stopChan, buffered, fanIn, handleVars, crashed, checks>>

----------------------------------------------------------------------------
(* fanInFromMonitor: a status is received, ... *)
Receive ==
    /\ fanIn = "receive" /\ buffered > 0
    /\ buffered' = buffered - 1
    /\ fanIn' = "send"
    /\ UNCHANGED <<runner, running, stopChan, handleVars, crashed, checks>>

(* ... and sent on, or dropped after five seconds; a closed channel ends   *)
(* the program.                                                            *)
SendOn ==
    /\ fanIn = "send"
    /\ crashed' = (outChan = "closed")
    /\ fanIn' = "receive"
    /\ UNCHANGED <<runner, running, stopChan, buffered, handleVars, checks>>

FanInEnds ==
    /\ \/ fanIn # "ended" /\ handleCtx = "done"
       \/ fanIn = "receive" /\ buffered = 0 /\ runner = "ended"
    /\ fanIn' = "ended"
    /\ UNCHANGED <<runner, running, stopChan, buffered, handleVars, crashed, checks>>

----------------------------------------------------------------------------
At(c, from, to) == stopper[c] = from /\ stopper' = [stopper EXCEPT ![c] = to]

MutNoFlag(c) ==
    /\ At(c, "idle", "cancel")
    /\ mhStopped' = TRUE
    /\ UNCHANGED <<runner, running, stopChan, buffered, fanIn, handleCtx, outChan, crashed, checks>>

(* MonitorHandle.Stop: only the first caller goes on. *)
BeginHandleStop(c) ==
    /\ At(c, "idle", IF mhStopped THEN "skipped" ELSE "cancel")
    /\ mhStopped' = TRUE
    /\ UNCHANGED <<runner, running, stopChan, buffered, fanIn, handleCtx, outChan, crashed, checks>>

(* mh.cancelFunc, and BaseMonitor.Stop up to its look at b.running. *)
CancelHandle(c) ==
    /\ At(c, "cancel", IF running THEN "close" ELSE "wait")
    /\ handleCtx' = "done"
    /\ UNCHANGED <<runner, running, stopChan, buffered, fanIn, mhStopped, outChan, crashed, checks>>

CloseStopChan(c) ==
    /\ At(c, "close", "join")
    /\ stopChan' = stopChan + 1
    /\ crashed' = (crashed \/ stopChan > 0)
    /\ UNCHANGED <<runner, running, buffered, fanIn, handleCtx, mhStopped, outChan, checks>>

(* BaseMonitor.Stop returns: the goroutine has ended, or 30 seconds passed.*)
BaseStopReturns(c) ==
    /\ At(c, "join", "wait")
    /\ running' = FALSE
    /\ UNCHANGED <<runner, stopChan, buffered, fanIn, handleCtx, mhStopped, outChan, crashed, checks>>

(* MonitorHandle.Stop returns nil once the fan-in has ended, ... *)
HandleStopped(c) ==
    /\ At(c, "wait", "ok") /\ fanIn = "ended"
    /\ UNCHANGED <<runner, running, stopChan, buffered, fanIn, handleCtx, mhStopped, outChan,
                   crashed, checks>>

(* ... and an error if it has not within five seconds. *)
HandleTimeout(c) ==
    /\ At(c, "wait", "late") /\ fanIn # "ended"
    /\ UNCHANGED <<runner, running, stopChan, buffered, fanIn, handleCtx, mhStopped, outChan,
                   crashed, checks>>

(* ProblemDetector.Stop: having stopped the handles of its snapshot, or    *)
(* logged that it could not, it cancels every context and closes the       *)
(* channel.                                                                *)
CloseOutChan ==
    /\ stopper["detector"] \in {"ok", "late", "skipped"} /\ outChan = "open"
    /\ handleCtx' = "done" /\ outChan' = "closed"
    /\ UNCHANGED <<runner, running, stopChan, buffered, fanIn, mhStopped, stopper, crashed, checks>>

StopStep(c) ==
    \/ BeginHandleStop(c) \/ CancelHandle(c) \/ CloseStopChan(c)
    \/ BaseStopReturns(c) \/ HandleStopped(c) \/ HandleTimeout(c)

LifecycleNext ==
    /\ ~crashed
    /\ \/ CheckReturns \/ NextCheck \/ RunEnds
       \/ Receive \/ SendOn \/ FanInEnds
       \/ \E c \in Stoppers : StopStep(c)
       \/ CloseOutChan

LifecycleSpec == LifecycleInit /\ [][LifecycleNext]_lifecycleVars

----------------------------------------------------------------------------
(* A Stop that reports success has silenced the monitor: its fan-in has    *)
(* ended, so that no status of it can follow, not even the one of a check  *)
(* that hangs and comes back after Stop gave up on it.  The stop signal is *)
(* given once, whoever stops the monitor; and the status channel is closed *)
(* under a fan-in only where the detector did not itself see it end        *)
(* (MonitorHandle.Stop, BaseMonitor.Stop, fanInFromMonitor).               *)
StopSilences ==
    /\ \A c \in Stoppers : stopper[c] = "ok" => fanIn = "ended"
    /\ stopChan <= 1
    /\ crashed => stopper["detector"] \in {"late", "skipped"}

(* What makes it so: one caller at most gets past the flag, the stop       *)
(* signal has not been given while that caller is still on its way to give *)
(* it, and the channel is closed only behind the detector's own Stop.      *)
StopperStates == {"idle", "skipped", "cancel", "close", "join", "wait", "ok", "late"}
Past(c) == stopper[c] \notin {"idle", "skipped"}
StopIsOrderly ==
    /\ stopper \in [Stoppers -> StopperStates]
    /\ stopChan \in {0, 1} /\ crashed \in BOOLEAN
    /\ \A c \in Stoppers :
         /\ stopper[c] # "idle" => mhStopped
         /\ stopper[c] \in {"cancel", "close"} => stopChan = 0
         /\ \A d \in Stoppers : Past(c) /\ Past(d) => c = d
    /\ ~mhStopped => stopChan = 0
    /\ outChan = "closed" => stopper["detector"] \in {"ok", "late", "skipped"}
=============================================================================
