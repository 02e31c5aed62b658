--------------------------- MODULE CommandRunner ---------------------------
(***************************************************************************)
(* OSCommandRunner.run (src/internal/platform/runner.go): one subprocess,  *)
(* the goroutine that forwards the caller's cancellation, the timer        *)
(* callback of the internal timeout, and the classification of the result. *)
(*                                                                         *)
(* os/exec is external: Start, the goroutine that watches the context and  *)
(* calls cmd.Cancel, Wait and the WaitDelay timer are modelled from how    *)
(* the runner uses them.  The child may fork a descendant that keeps the   *)
(* output pipe open, inside its process group or outside it.               *)
(***************************************************************************)
EXTENDS Integers, FiniteSets, FiniteSetsExt

CONSTANTS Capacity,  \* maxRunnerOutputBytes
          Initial,   \* initialRunnerOutputBytes
          MaxWrites, \* bound on the writes of a run
          Sizes      \* sizes of one write

ASSUME BufferAssumption ==
    /\ Capacity \in Nat \ {0}
    /\ Initial \in Nat \ {0}
    /\ MaxWrites \in Nat
    /\ Sizes \subseteq Nat

VARIABLES
    ctx,        \* the caller's ctx.Err(): "live", "canceled", "deadline"
    worker,     \* run was given files: the target worker, ended by SIGTERM
    main,       \* position of the goroutine that called run
    internal,   \* internalCtx is cancelled
    forwarder,  \* the goroutine that forwards ctx.Done
    timer,      \* the timer and its callback
    timedOut,   \* internalTimedOut
    child,      \* the direct child
    signal,     \* what cmd.Cancel sent to the process group
    descendant, \* a descendant that holds the pipe: "none", "group", "escaped"
    pipe,       \* the goroutine that copies output: "idle", "copying", "eof", "failed"
    watch,      \* os/exec's goroutine that waits for internalCtx
    delay,      \* os/exec's WaitDelay timer
    runErr,     \* what cmd.Run returns
    buffer,     \* boundedBuffer: retained bytes, cap(data), truncated
    written,    \* history: bytes and writes the pipe delivered
    result      \* what run returned

process == <<child, signal, descendant>>
exec    == <<pipe, watch, delay, runErr>>
output  == <<buffer, written>>
helpers == <<internal, forwarder, timer, timedOut>>
vars    == <<ctx, worker, main, helpers, process, exec, output, result>>

ContextErrors == {"canceled", "deadline"}
NoResult == [err |-> "none", timedOut |-> FALSE, incomplete |-> FALSE, truncated |-> FALSE]
Dead == {"exit0", "exitN", "killed"}
RunErrors == {"nil", "exitN", "killed", "interrupted", "startup", "waitdelay"}

-----------------------------------------------------------------------------
(* boundedBuffer                                                           *)

newBoundedBuffer ==
    [len |-> 0, cap |-> Min({Initial, Capacity}), truncated |-> FALSE]

(* Growth as append would do it. *)
WriteUnbounded(b, n) ==
    LET needed == b.len + Min({n, Capacity - b.len})
    IN  IF b.truncated \/ n = 0 THEN b
        ELSE [len |-> needed,
              cap |-> IF needed > b.cap THEN Max({needed, 2 * b.cap}) ELSE b.cap,
              truncated |-> Min({n, Capacity - b.len}) < n]

(* Write accepts everything, keeps what fits, and grows the backing array  *)
(* by doubling, never past the capacity.                                   *)
Write(b, n) ==
    LET retained == Min({n, Capacity - b.len})
        needed == b.len + retained
    IN  IF b.truncated \/ n = 0 THEN b
        ELSE [len |-> needed,
              cap |-> IF needed > b.cap
                      THEN Min({Capacity, Max({needed, 2 * b.cap})}) ELSE b.cap,
              truncated |-> retained < n]

-----------------------------------------------------------------------------

Init ==
    /\ ctx \in {"live", "canceled"}
    /\ worker \in BOOLEAN
    /\ main = "entry"
    /\ internal = FALSE
    /\ forwarder = "none"
    /\ timer = "none"
    /\ timedOut = FALSE
    /\ child = "none"
    /\ signal = "none"
    /\ descendant = "none"
    /\ pipe = "idle"
    /\ watch = "none"
    /\ delay = "off"
    /\ runErr = "nil"
    /\ buffer = newBoundedBuffer
    /\ written = [bytes |-> 0, writes |-> 0]
    /\ result = NoResult

(* The caller cancels, or its deadline passes. *)
Cancel ==
    /\ ctx = "live"
    /\ main # "returned"
    /\ ctx' \in ContextErrors
    /\ UNCHANGED <<worker, main, helpers, process, exec, output, result>>

(* An ended context or an invalid specification is refused before anything *)
(* is started.                                                             *)
Refuse ==
    /\ main = "entry"
    /\ \E invalid \in BOOLEAN :
         /\ ctx # "live" \/ invalid
         /\ result' = [NoResult EXCEPT !.err = IF ctx # "live" THEN ctx ELSE "invalid"]
    /\ main' = "returned"
    /\ UNCHANGED <<ctx, worker, helpers, process, exec, output>>

(* Forwarder and timer are started, then cmd.Run begins. *)
Prepare ==
    /\ main = "entry"
    /\ ctx = "live"
    /\ forwarder' = "select"
    /\ timer' = "armed"
    /\ main' = "start"
    /\ UNCHANGED <<ctx, worker, internal, timedOut, process, exec, output, result>>

-----------------------------------------------------------------------------
(* The forwarding goroutine: select on ctx.Done and internalCtx.Done.      *)

ForwardCancel ==
    /\ forwarder = "select"
    /\ ctx # "live"
    /\ internal' = TRUE
    /\ forwarder' = "closing"
    /\ UNCHANGED <<ctx, worker, main, timer, timedOut, process, exec, output, result>>

ForwardStop ==
    /\ \/ forwarder = "closing"
       \/ forwarder = "select" /\ internal
    /\ forwarder' = "done"
    /\ UNCHANGED <<ctx, worker, main, internal, timer, timedOut, process, exec, output,
                   result>>

(* The timer callback: store the flag, cancel, close timeoutDone. *)
TimerFire ==
    /\ timer = "armed"
    /\ timer' = "fired"
    /\ UNCHANGED <<ctx, worker, main, internal, forwarder, timedOut, process, exec, output,
                   result>>

TimerFlag ==
    /\ timer = "fired"
    /\ timedOut' = TRUE
    /\ timer' = "flagged"
    /\ UNCHANGED <<ctx, worker, main, internal, forwarder, process, exec, output, result>>

TimerCancel ==
    /\ timer = "flagged"
    /\ internal' = TRUE
    /\ timer' = "done"
    /\ UNCHANGED <<ctx, worker, main, forwarder, timedOut, process, exec, output, result>>

-----------------------------------------------------------------------------
(* The child and what it leaves behind.                                    *)

(* It ends by itself, or by the SIGTERM it was sent (or handles). *)
ChildExit ==
    /\ child = "running"
    /\ child' \in {"exit0", "exitN"} \cup IF signal = "none" THEN {} ELSE {"killed"}
    /\ UNCHANGED <<ctx, worker, main, helpers, signal, descendant, exec, output, result>>

ChildForks ==
    /\ child = "running"
    /\ descendant = "none"
    /\ pipe = "copying"
    /\ descendant' \in {"group", "escaped"}
    /\ UNCHANGED <<ctx, worker, main, helpers, child, signal, exec, output, result>>

DescendantExit ==
    /\ descendant # "none"
    /\ descendant' = "none"
    /\ UNCHANGED <<ctx, worker, main, helpers, child, signal, exec, output, result>>

PipeWriter == child = "running" \/ descendant # "none"

(* The copying goroutine delivers one write to the buffer. *)
Output ==
    /\ pipe = "copying"
    /\ PipeWriter
    /\ written.writes < MaxWrites
    /\ \E n \in Sizes :
         /\ buffer' = Write(buffer, n)
         /\ written' = [bytes |-> written.bytes + n, writes |-> written.writes + 1]
    /\ UNCHANGED <<ctx, worker, main, helpers, process, exec, result>>

(* The last writer is gone: io.Copy returns nil. *)
PipeEOF ==
    /\ pipe = "copying"
    /\ ~PipeWriter
    /\ pipe' = "eof"
    /\ UNCHANGED <<ctx, worker, main, helpers, process, watch, delay, runErr, output, result>>

-----------------------------------------------------------------------------
(* os/exec.                                                                *)

(* Cmd.Start: refused when the context is already done; may fail. *)
StartFails ==
    /\ main = "start"
    /\ runErr' = IF internal THEN "interrupted" ELSE "startup"
    /\ main' = "stop"
    /\ UNCHANGED <<ctx, worker, helpers, process, pipe, watch, delay, output, result>>

StartChild ==
    /\ main = "start"
    /\ ~internal
    /\ child' = "running"
    /\ pipe' = "copying"
    /\ watch' = "watching"
    /\ main' = "wait"
    /\ UNCHANGED <<ctx, worker, helpers, signal, descendant, delay, runErr, output, result>>

(* cmd.Cancel, called by the watching goroutine, also when the child has   *)
(* exited but Wait has not taken the watch back.  SIGKILL to the group     *)
(* ends the child and its descendants in the group at once, and for a      *)
(* child already reaped Process.Kill reports os.ErrProcessDone, which is   *)
(* no error to Wait; SIGTERM to the worker's group leaves it to them.      *)
(* WaitDelay starts.                                                       *)
WatchCancel ==
    /\ watch = "watching"
    /\ internal
    /\ main \in {"wait", "collect"}
    /\ signal' = IF worker THEN "term" ELSE "kill"
    /\ child' = IF child = "running" /\ ~worker THEN "killed" ELSE child
    /\ descendant' = IF descendant = "group" /\ ~worker THEN "none" ELSE descendant
    /\ watch' = IF main = "collect" /\ ~worker THEN "late" ELSE "cancelled"
    /\ delay' = "armed"
    /\ UNCHANGED <<ctx, worker, main, helpers, pipe, runErr, output, result>>

(* WaitDelay passed and the child is still there: it is killed and the     *)
(* pipes are closed under the copying goroutine.                           *)
WatchExpire ==
    /\ watch = "cancelled"
    /\ delay = "armed"
    /\ main = "wait"
    /\ child' = IF child = "running" THEN "killed" ELSE child
    /\ pipe' = IF pipe = "copying" THEN "failed" ELSE pipe
    /\ delay' = "expired"
    /\ UNCHANGED <<ctx, worker, main, helpers, signal, descendant, watch, runErr, output,
                   result>>

(* Process.Wait returns: the direct child is reaped. *)
Reap ==
    /\ main = "wait"
    /\ child \in Dead
    /\ runErr' = IF child = "exit0" THEN "nil" ELSE child
    /\ main' = "collect"
    /\ UNCHANGED <<ctx, worker, helpers, process, pipe, watch, delay, output, result>>

(* Wait takes the watch back; a cancellation makes even a clean exit an    *)
(* error.  Without a running WaitDelay timer one is started for the drain. *)
Collect ==
    /\ main = "collect"
    /\ runErr' = IF runErr = "nil" /\ watch = "cancelled" THEN "interrupted" ELSE runErr
    /\ watch' = "done"
    /\ delay' = IF delay = "off" THEN "armed" ELSE delay
    /\ main' = "drain"
    /\ UNCHANGED <<ctx, worker, helpers, process, pipe, output, result>>

(* awaitGoroutines: the copy ended, or the delay passed and the pipes are  *)
(* closed; a drain error is masked by an earlier one.                      *)
Drained ==
    /\ main = "drain"
    /\ pipe \in {"eof", "failed"}
    /\ runErr' = IF runErr = "nil" /\ pipe = "failed" THEN "waitdelay" ELSE runErr
    /\ main' = "stop"
    /\ UNCHANGED <<ctx, worker, helpers, process, pipe, watch, delay, output, result>>

DrainExpires ==
    /\ main = "drain"
    /\ pipe = "copying"
    /\ pipe' = "failed"
    /\ delay' = "expired"
    /\ UNCHANGED <<ctx, worker, main, helpers, process, watch, runErr, output, result>>

-----------------------------------------------------------------------------
(* The rest of run.                                                        *)

(* A callback that has started is left to itself. *)
StopTimerNoJoin ==
    /\ main = "stop"
    /\ timer' = IF timer = "armed" THEN "stopped" ELSE timer
    /\ main' = "classify"
    /\ UNCHANGED <<ctx, worker, internal, forwarder, timedOut, process, exec, output, result>>

(* timer.Stop(): a callback that has started is joined before its flag is  *)
(* read.                                                                   *)
StopTimer ==
    /\ main = "stop"
    /\ timer \in {"armed", "done"}
    /\ timer' = IF timer = "armed" THEN "stopped" ELSE timer
    /\ main' = "classify"
    /\ UNCHANGED <<ctx, worker, internal, forwarder, timedOut, process, exec, output, result>>

(* The error of cmd.Run first. *)
OutcomeExitFirst(e, c, t) ==
    IF e # "nil" THEN [err |-> e, timedOut |-> FALSE]
    ELSE IF c # "live" THEN [err |-> c, timedOut |-> FALSE]
    ELSE IF t THEN [err |-> "deadline", timedOut |-> TRUE]
    ELSE [err |-> "nil", timedOut |-> FALSE]

(* The caller's cancellation comes before the internal timeout, and that   *)
(* before the error of cmd.Run.                                            *)
Outcome(e, c, t) ==
    IF c # "live" THEN [err |-> c, timedOut |-> FALSE]
    ELSE IF t THEN [err |-> "deadline", timedOut |-> TRUE]
    ELSE [err |-> e, timedOut |-> FALSE]

(* The drain failure is forgotten. *)
ClassifyWithoutDrain ==
    /\ main = "classify"
    /\ result' = [err |-> Outcome(runErr, ctx, timedOut).err,
                  timedOut |-> Outcome(runErr, ctx, timedOut).timedOut,
                  incomplete |-> FALSE,
                  truncated |-> buffer.truncated]
    /\ main' = "unwind"
    /\ UNCHANGED <<ctx, worker, helpers, process, exec, output>>

(* The result, and which of the three errors run returns. *)
Classify ==
    /\ main = "classify"
    /\ result' = [err |-> Outcome(runErr, ctx, timedOut).err,
                  timedOut |-> Outcome(runErr, ctx, timedOut).timedOut,
                  incomplete |-> (pipe = "failed"),
                  truncated |-> buffer.truncated]
    /\ main' = "unwind"
    /\ UNCHANGED <<ctx, worker, helpers, process, exec, output>>

(* The deferred function without its cancel. *)
UnwindWithoutCancel ==
    /\ main = "unwind"
    /\ main' = "join"
    /\ UNCHANGED <<ctx, worker, helpers, process, exec, output, result>>

(* The deferred function: cancel, then join the forwarder. *)
Unwind ==
    /\ main = "unwind"
    /\ internal' = TRUE
    /\ main' = "join"
    /\ UNCHANGED <<ctx, worker, forwarder, timer, timedOut, process, exec, output, result>>

JoinForwarder ==
    /\ main = "join"
    /\ forwarder = "done"
    /\ main' = "returned"
    /\ UNCHANGED <<ctx, worker, helpers, process, exec, output, result>>

Returned ==
    /\ main = "returned"
    /\ UNCHANGED vars

Main == Refuse \/ Prepare \/ StopTimer \/ Classify \/ Unwind \/ JoinForwarder
Forwarder == ForwardCancel \/ ForwardStop
Timer == TimerFire \/ TimerFlag \/ TimerCancel
Wait == Reap \/ Collect \/ Drained \/ DrainExpires
Start == StartFails \/ StartChild
Watch == WatchCancel \/ WatchExpire
World == Cancel \/ ChildExit \/ ChildForks \/ DescendantExit \/ Output

Next == Main \/ Forwarder \/ Timer \/ Start \/ Watch \/ Wait \/ PipeEOF \/ World \/ Returned

(* Goroutines run and timers expire.  Nothing is assumed of the child, its *)
(* descendants or the caller: they may hang for ever.                      *)
Spec == /\ Init /\ [][Next]_vars
        /\ WF_vars(Main) /\ WF_vars(Forwarder) /\ WF_vars(Timer)
        /\ WF_vars(Start) /\ WF_vars(Watch) /\ WF_vars(Wait) /\ WF_vars(PipeEOF)

-----------------------------------------------------------------------------
(* Properties.                                                             *)

TypeOK ==
    /\ ctx \in ContextErrors \cup {"live"}
    /\ main \in {"entry", "start", "wait", "collect", "drain", "stop", "classify", "unwind",
                 "join", "returned"}
    /\ forwarder \in {"none", "select", "closing", "done"}
    /\ timer \in {"none", "armed", "fired", "flagged", "done", "stopped"}
    /\ child \in {"none", "running"} \cup Dead
    /\ pipe \in {"idle", "copying", "eof", "failed"}
    /\ watch \in {"none", "watching", "cancelled", "late", "done"}
    /\ runErr \in RunErrors
    /\ result.err \in RunErrors \cup ContextErrors \cup {"none", "invalid"}

(* When run returns it has left nothing running: the child is reaped, the  *)
(* copying goroutine and the forwarder have ended, the timer callback has  *)
(* not started or has finished, so no flag is written after the return.    *)
NothingLeftBehind ==
    main = "returned" =>
        /\ child # "running"
        /\ pipe # "copying"
        /\ watch \in {"none", "done"}
        /\ forwarder \in {"none", "done"}
        /\ timer \in {"none", "stopped", "done"}

(* A run that signalled the process group is reported as the interruption  *)
(* that caused it, the caller's or the timeout's, never as the exit status *)
(* the signal produced; and TimedOut is the timeout's alone.               *)
InterruptionIsAttributed ==
    main = "returned" =>
        /\ signal # "none" => result.err \in ContextErrors
        /\ result.timedOut => timedOut /\ result.err = "deadline"
        /\ result.err \in ContextErrors /\ ~result.timedOut => ctx = result.err

(* CommandCompleted, for a result whose exit code agrees with its error. *)
CommandCompleted(r) ==
    /\ ~r.timedOut /\ ~r.truncated /\ ~r.incomplete
    /\ r.err \in {"nil", "exitN"}

(* A result that counts as completed is one of a child that ended by       *)
(* itself, unsignalled, with its whole output delivered: an ordinary       *)
(* nonzero exit does not hide that a descendant kept the pipe open.        *)
CompletedIsSound ==
    main = "returned" /\ CommandCompleted(result) =>
        /\ child \in {"exit0", "exitN"}
        /\ result.err = "exitN" <=> child = "exitN"
        /\ signal = "none"
        /\ pipe = "eof"
        /\ buffer.len = written.bytes

(* What run returns tells what happened: an interruption by its cause, a   *)
(* completion only of a child that ended by itself.                        *)
ResultIsSound == InterruptionIsAttributed /\ CompletedIsSound

(* The buffer retains the longest prefix that fits, reports truncation     *)
(* exactly when something was dropped, and its backing array never exceeds *)
(* the limit.                                                              *)
OutputIsBounded ==
    /\ TypeOK
    /\ buffer.len = Min({written.bytes, Capacity})
    /\ buffer.truncated <=> written.bytes > Capacity
    /\ buffer.len <= buffer.cap /\ buffer.cap <= Capacity

(* run returns, though the child may ignore SIGTERM or hang and a          *)
(* descendant may hold the pipe for ever.                                  *)
AlwaysReturns == <>(main = "returned")
-----------------------------------------------------------------------------
(* The inductive invariant behind the theorems of CommandRunnerProofs.     *)

Results == [err : RunErrors \cup ContextErrors \cup {"none", "invalid"},
            timedOut : BOOLEAN, incomplete : BOOLEAN, truncated : BOOLEAN]

Domains ==
    /\ worker \in BOOLEAN /\ internal \in BOOLEAN /\ timedOut \in BOOLEAN
    /\ signal \in {"none", "term", "kill"}
    /\ descendant \in {"none", "group", "escaped"}
    /\ delay \in {"off", "armed", "expired"}
    /\ result \in Results

(* The forwarder and the timer callback are joined on the way out.         *)
HelperInv ==
    /\ main = "entry" => forwarder = "none" /\ timer = "none"
    /\ main \in {"classify", "unwind", "join"} => timer \in {"stopped", "done"}
    /\ main = "returned" => /\ forwarder \in {"none", "done"}
                            /\ timer \in {"none", "stopped", "done"}

(* The context of the subprocess ends, and the process group is signalled, *)
(* for one of two causes, until the deferred cancel.                       *)
CauseInv ==
    /\ timer = "flagged" => timedOut
    /\ internal => ctx # "live" \/ timedOut \/ main \in {"join", "returned"}
    /\ signal # "none" => ctx # "live" \/ timedOut

(* The child, the pipe and the watching goroutine, by the position of run. *)
ProcessInv ==
    /\ main \in {"entry", "start"} => /\ child = "none" /\ pipe = "idle"
                                      /\ watch = "none" /\ signal = "none"
    /\ main = "wait" => /\ child # "none" /\ pipe # "idle"
                        /\ watch \in {"watching", "cancelled"}
    /\ main \in {"collect", "drain"} => child \in Dead /\ pipe # "idle"
    /\ main = "drain" => watch = "done"
    /\ main \in {"stop", "classify", "unwind", "join", "returned"} =>
         \/ child = "none" /\ pipe = "idle" /\ watch = "none" /\ signal = "none"
         \/ child \in Dead /\ pipe \in {"eof", "failed"} /\ watch = "done"

(* The error of cmd.Run is the child's exit status, or says why not.       *)
ErrorInv ==
    /\ main = "collect" => runErr = IF child = "exit0" THEN "nil" ELSE child
    /\ main \in {"drain", "stop", "classify"} =>
         /\ runErr = "nil" => child = "exit0"
         /\ runErr = "exitN" <=> child = "exitN"

(* What the result says stays true until run returns.                      *)
ResultInv ==
    main \in {"unwind", "join", "returned"} =>
        /\ signal # "none" => result.err \in ContextErrors
        /\ result.timedOut => timedOut /\ result.err = "deadline"
        /\ result.err \in ContextErrors /\ ~result.timedOut => ctx = result.err
        /\ CommandCompleted(result) =>
             /\ child \in {"exit0", "exitN"}
             /\ result.err = "exitN" <=> child = "exitN"
             /\ signal = "none"
             /\ pipe = "eof"
             /\ ~buffer.truncated

RunInv == Domains /\ HelperInv /\ CauseInv /\ ProcessInv /\ ErrorInv /\ ResultInv

BufferInv ==
    /\ buffer \in [len : Nat, cap : Nat, truncated : BOOLEAN]
    /\ written \in [bytes : Nat, writes : Nat]
    /\ buffer.len = IF written.bytes <= Capacity THEN written.bytes ELSE Capacity
    /\ buffer.truncated <=> written.bytes > Capacity
    /\ buffer.len <= buffer.cap /\ buffer.cap <= Capacity
=============================================================================
