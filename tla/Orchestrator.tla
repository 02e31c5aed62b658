---------------------------- MODULE Orchestrator ----------------------------
(***************************************************************************)
(* Orchestrator.Run (src/internal/probe/orchestrator.go): a pool of worker *)
(* goroutines takes probes from a FIFO queue guarded by a condition        *)
(* variable, runs them, and under stateMu records each outcome, releases   *)
(* the dependents that became runnable or skips those that never will.  An *)
(* atomic counter of finalized probes closes the channel allDone, on which *)
(* the calling goroutine waits before it closes the queue and joins the    *)
(* workers.                                                                *)
(*                                                                         *)
(* A probe is its registration index.  One action is one critical section, *)
(* one atomic operation, one queue operation or one read of ctx.Err().     *)
(***************************************************************************)
EXTENDS Integers, Sequences, FiniteSets

CONSTANTS N,              \* len(o.plan.nodes)
          MaxConcurrency, \* o.maxConcurrency
          Plans,          \* dependency lists that Registry.Resolve accepts
          ReturnErrors    \* what Probe.Run may return: sets of error kinds,
                          \* {} is nil; a member is what errors.Is matches

Node == 1..N

(* The effective worker count: never more workers than probes. *)
Workers == 1..(IF MaxConcurrency > N THEN N ELSE MaxConcurrency)

ContextErrors == {"canceled", "deadline"}

ASSUME SizeAssumption ==
    /\ N \in Nat
    /\ MaxConcurrency \in Nat \ {0}

ASSUME PlansAssumption == Plans \subseteq [Node -> Seq(Node)]

(* What Registry.Resolve guarantees of a plan it publishes. *)
ASSUME AcyclicAssumption ==
    \A d \in Plans : \E rank \in [Node -> Node] :
        \A p \in Node : \A i \in DOMAIN d[p] : rank[d[p][i]] < rank[p]

ASSUME ErrorsAssumption ==
    ReturnErrors \subseteq SUBSET (ContextErrors \cup {"other"})

Final == {"Succeeded", "Failed", "Cancelled", "Skipped"}

VARIABLES
    plan,      \* node.dependencies of every node, duplicates kept
    ctx,       \* ctx.Err(): "live" (nil), "canceled" or "deadline"
    status,    \* probeState.finalized and result.Status; "none": not finalized
    remaining, \* probeState.remainingDeps
    queue,     \* runQueue.items
    closed,    \* runQueue.closed
    count,     \* schedulerContext.finalized, the atomic counter
    allDone,   \* schedulerContext.allDone is closed
    main,      \* program counter of the goroutine that called Run
    scan,      \* main's loop index
    out,       \* the slice Run returns
    pc,        \* program counter of each worker
    cur,       \* the probe a worker took from the queue
    err,       \* what Probe.Run returned to the worker
    outcome,   \* the Status the worker is about to record
    cascade,   \* the probes the worker skipped and has not yet counted
    runnable   \* newlyRunnable: released by the worker, not yet pushed

shared == <<plan, ctx, status, remaining, queue, closed, count, allDone>>
local  == <<pc, cur, err, outcome, cascade, runnable>>
caller == <<main, scan, out>>
vars   == <<shared, caller, local>>

-----------------------------------------------------------------------------
(* The dependency graph of the compiled plan.                              *)

DependsOn(p, q) == \E i \in DOMAIN plan[p] : plan[p][i] = q

(* How often p declares q: compilePlan keeps duplicates on both sides.     *)
Edges(p, q) == Cardinality({i \in DOMAIN plan[p] : plan[p][i] = q})

(* cascadeSkipLocked: the least set of probes not yet finalized that holds *)
(* the dependents of id and of its own members.  The search never passes   *)
(* through a finalized probe; id is finalized before the search begins.    *)
Open(id) == {q \in Node : status[q] = "none" /\ q # id}

CascadeClosed(S, id) ==
    \A q \in Open(id) : (\E p \in S \cup {id} : DependsOn(q, p)) => q \in S

(* Direct dependents only. *)
CascadeSkipDirect(id) == {q \in Open(id) : DependsOn(q, id)}

CascadeSkip(id) ==
    {q \in Open(id) : \A S \in SUBSET Node : CascadeClosed(S, id) => q \in S}

-----------------------------------------------------------------------------

Init ==
    /\ plan \in Plans
    /\ ctx = "live"
    /\ status = [p \in Node |-> "none"]
    /\ remaining = [p \in Node |-> Len(plan[p])]
    /\ queue = <<>>
    /\ closed = FALSE
    /\ count = 0
    /\ allDone = FALSE
    /\ main = IF N = 0 THEN "returned" ELSE "enqueue"
    /\ scan = 1
    /\ out = <<>>
    /\ pc = [w \in Workers |-> "pop"]
    /\ cur = [w \in Workers |-> 0]
    /\ err = [w \in Workers |-> {}]
    /\ outcome = [w \in Workers |-> "none"]
    /\ cascade = [w \in Workers |-> {}]
    /\ runnable = [w \in Workers |-> {}]

(* The wakeup is forgotten. *)
NoBroadcast(at) == at

(* sync.Cond.Broadcast: every blocked pop checks the queue again. *)
Broadcast(at) == [w \in Workers |-> IF at[w] = "parked" THEN "pop" ELSE at[w]]

(* The caller's context ends at any moment of the run. *)
Cancel ==
    /\ ctx = "live"
    /\ main # "returned"
    /\ ctx' \in ContextErrors
    /\ UNCHANGED <<plan, status, remaining, queue, closed, count, allDone>>
    /\ UNCHANGED <<caller, local>>

-----------------------------------------------------------------------------
(* The goroutine that called Run.                                          *)

(* The loop runs one turn too many. *)
EnqueuePastEnd ==
    /\ main = "enqueue"
    /\ queue' = IF scan \in Node /\ remaining[scan] = 0 THEN Append(queue, scan) ELSE queue
    /\ scan' = scan + 1
    /\ main' = IF scan > N THEN "wait" ELSE "enqueue"
    /\ UNCHANGED <<plan, ctx, status, remaining, closed, count, allDone>>
    /\ UNCHANGED <<out, local>>

(* One turn of the loop that enqueues the probes without dependencies; the *)
(* workers are spawned when the loop ends.                                 *)
Enqueue ==
    /\ main = "enqueue"
    /\ queue' = IF remaining[scan] = 0 THEN Append(queue, scan) ELSE queue
    /\ scan' = scan + 1
    /\ main' = IF scan = N THEN "wait" ELSE "enqueue"
    /\ UNCHANGED <<plan, ctx, status, remaining, closed, count, allDone>>
    /\ UNCHANGED <<out, local>>

(* <-sc.allDone, then queue.close() *)
CloseQueue ==
    /\ main = "wait"
    /\ allDone
    /\ closed' = TRUE
    /\ pc' = Broadcast(pc)
    /\ main' = "join"
    /\ UNCHANGED <<plan, ctx, status, remaining, queue, count, allDone>>
    /\ UNCHANGED <<scan, out, cur, err, outcome, cascade, runnable>>

(* wg.Wait(), then the results in registration order.  A probe that was    *)
(* never finalized would be reported as skipped.                           *)
Join ==
    /\ main = "join"
    /\ \A w \in Workers : pc[w] = "exited"
    /\ out' = [p \in Node |->
                 [id |-> p,
                  status |-> IF status[p] = "none" THEN "Skipped" ELSE status[p]]]
    /\ main' = "returned"
    /\ UNCHANGED <<shared, local, scan>>

-----------------------------------------------------------------------------
(* A worker.                                                               *)

(* pop on a queue with items: also when it has been closed meanwhile. *)
Pop(w) ==
    /\ pc[w] = "pop"
    /\ main # "enqueue"
    /\ queue # <<>>
    /\ cur' = [cur EXCEPT ![w] = Head(queue)]
    /\ queue' = Tail(queue)
    /\ pc' = [pc EXCEPT ![w] = "check"]
    /\ UNCHANGED <<plan, ctx, status, remaining, closed, count, allDone>>
    /\ UNCHANGED <<caller, err, outcome, cascade, runnable>>

(* pop on an empty open queue: cond.Wait *)
Park(w) ==
    /\ pc[w] = "pop"
    /\ main # "enqueue"
    /\ queue = <<>>
    /\ ~closed
    /\ pc' = [pc EXCEPT ![w] = "parked"]
    /\ UNCHANGED <<shared, caller, cur, err, outcome, cascade, runnable>>

(* pop on a closed and drained queue ends the worker. *)
Exit(w) ==
    /\ pc[w] = "pop"
    /\ queue = <<>>
    /\ closed
    /\ pc' = [pc EXCEPT ![w] = "exited"]
    /\ UNCHANGED <<shared, caller, cur, err, outcome, cascade, runnable>>

(* processProbe's fast path, under stateMu. *)
Check(w) ==
    /\ pc[w] = "check"
    /\ pc' = [pc EXCEPT ![w] = IF status[cur[w]] # "none" THEN "pop" ELSE "ctx"]
    /\ UNCHANGED <<shared, caller, cur, err, outcome, cascade, runnable>>

(* The context ended before the probe ran: it is not run at all. *)
CancelBeforeRun(w) ==
    /\ pc[w] = "ctx"
    /\ ctx # "live"
    /\ outcome' = [outcome EXCEPT ![w] = "Cancelled"]
    /\ pc' = [pc EXCEPT ![w] = "record"]
    /\ UNCHANGED <<shared, caller, cur, err, cascade, runnable>>

(* Probe.Run without a look at the context. *)
StartUnchecked(w) ==
    /\ pc[w] = "ctx"
    /\ pc' = [pc EXCEPT ![w] = "run"]
    /\ UNCHANGED <<shared, caller, cur, err, outcome, cascade, runnable>>

Start(w) ==
    /\ pc[w] = "ctx"
    /\ ctx = "live"
    /\ pc' = [pc EXCEPT ![w] = "run"]
    /\ UNCHANGED <<shared, caller, cur, err, outcome, cascade, runnable>>

(* Probe.Run returns e; retainObservation joins an error of its own when   *)
(* the observation was made in another scope.                              *)
Return(w) ==
    /\ pc[w] = "run"
    /\ \E e \in ReturnErrors, scopeMismatch \in BOOLEAN :
         err' = [err EXCEPT ![w] = e \cup IF scopeMismatch THEN {"other"} ELSE {}]
    /\ pc' = [pc EXCEPT ![w] = "classify"]
    /\ UNCHANGED <<shared, caller, cur, outcome, cascade, runnable>>

(* The switch on runErr, with the context as it is now, not as it was when *)
(* the probe ran.                                                          *)
Classification(e, c) ==
    IF e = {} THEN "Succeeded"
    ELSE IF c \in e THEN "Cancelled"
    ELSE "Failed"

Classify(w) ==
    /\ pc[w] = "classify"
    /\ outcome' = [outcome EXCEPT ![w] = Classification(err[w], ctx)]
    /\ pc' = [pc EXCEPT ![w] = "record"]
    /\ UNCHANGED <<shared, caller, cur, err, cascade, runnable>>

(* A dependent that declares the probe twice is released once. *)
ReleaseOnce(id) ==
    /\ remaining' = [q \in Node |-> IF DependsOn(q, id) THEN remaining[q] - 1
                                    ELSE remaining[q]]

(* Any one dependency releases the dependent. *)
ReleaseAny(id) ==
    /\ remaining' = [q \in Node |-> IF DependsOn(q, id) THEN 0 ELSE remaining[q]]

(* recordFinal's critical section for a success: every declared edge to    *)
(* the probe is taken off its dependents' counters.                        *)

Release(id) ==
    /\ remaining' = [q \in Node |-> remaining[q] - Edges(q, id)]

RecordSuccess(w) ==
    /\ pc[w] = "record"
    /\ outcome[w] = "Succeeded"
    /\ IF status[cur[w]] # "none"
       THEN /\ pc' = [pc EXCEPT ![w] = "pop"]
            /\ UNCHANGED <<status, remaining, runnable>>
       ELSE /\ status' = [status EXCEPT ![cur[w]] = "Succeeded"]
            /\ Release(cur[w])
            /\ runnable' = [runnable EXCEPT ![w] =
                 {q \in Node : DependsOn(q, cur[w]) /\ remaining'[q] = 0}]
            /\ pc' = [pc EXCEPT ![w] = "push"]
    /\ outcome' = [outcome EXCEPT ![w] = "none"]
    /\ UNCHANGED <<plan, ctx, queue, closed, count, allDone>>
    /\ UNCHANGED <<caller, cur, err, cascade>>

(* recordFinal's critical section for any other outcome. *)
RecordOther(w) ==
    /\ pc[w] = "record"
    /\ outcome[w] # "Succeeded"
    /\ IF status[cur[w]] # "none"
       THEN /\ pc' = [pc EXCEPT ![w] = "pop"]
            /\ UNCHANGED <<status, cascade>>
       ELSE /\ status' = [q \in Node |->
                            IF q = cur[w] THEN outcome[w]
                            ELSE IF q \in CascadeSkip(cur[w]) THEN "Skipped"
                            ELSE status[q]]
            /\ cascade' = [cascade EXCEPT ![w] = CascadeSkip(cur[w])]
            /\ pc' = [pc EXCEPT ![w] = "count"]
    /\ outcome' = [outcome EXCEPT ![w] = "none"]
    /\ err' = [err EXCEPT ![w] = {}]
    /\ UNCHANGED <<plan, ctx, remaining, queue, closed, count, allDone>>
    /\ UNCHANGED <<caller, cur, runnable>>

(* The probe itself is counted here and again by signalCompletion. *)
CountSkippedAndSelf(w) ==
    /\ pc[w] = "count"
    /\ IF cascade[w] = {}
       THEN /\ pc' = [pc EXCEPT ![w] = "push"]
            /\ count' = count + 1
            /\ UNCHANGED cascade
       ELSE /\ \E p \in cascade[w] : cascade' = [cascade EXCEPT ![w] = @ \ {p}]
            /\ count' = count + 1
            /\ pc' = pc
    /\ UNCHANGED <<plan, ctx, status, remaining, queue, closed, allDone>>
    /\ UNCHANGED <<caller, cur, err, outcome, runnable>>

(* sc.finalized.Add(1), once for every probe this worker skipped. *)
CountSkipped(w) ==
    /\ pc[w] = "count"
    /\ IF cascade[w] = {}
       THEN /\ pc' = [pc EXCEPT ![w] = "push"]
            /\ UNCHANGED <<count, cascade>>
       ELSE /\ \E p \in cascade[w] :
                 /\ \A q \in cascade[w] : p <= q
                 /\ cascade' = [cascade EXCEPT ![w] = @ \ {p}]
            /\ count' = count + 1
            /\ pc' = pc
    /\ UNCHANGED <<plan, ctx, status, remaining, queue, closed, allDone>>
    /\ UNCHANGED <<caller, cur, err, outcome, runnable>>

(* Only the first of the released probes is pushed. *)
PushFirst(w) ==
    /\ pc[w] = "push"
    /\ pc' = [pc EXCEPT ![w] = "signal"]
    /\ runnable' = [runnable EXCEPT ![w] = {}]
    /\ \/ runnable[w] = {} /\ UNCHANGED queue
       \/ \E p \in runnable[w] : queue' = Append(queue, p)
    /\ UNCHANGED <<plan, ctx, status, remaining, closed, count, allDone>>
    /\ UNCHANGED <<caller, cur, err, outcome, cascade>>

(* queue.push for the released probes, in the order of the downstream list *)
(* (which is ascending).  A closed queue drops the probe.                  *)
Push(w) ==
    /\ pc[w] = "push"
    /\ IF runnable[w] = {}
       THEN /\ pc' = [pc EXCEPT ![w] = "signal"]
            /\ UNCHANGED <<queue, runnable>>
       ELSE /\ \E p \in runnable[w] :
                 /\ \A q \in runnable[w] : p <= q
                 /\ runnable' = [runnable EXCEPT ![w] = @ \ {p}]
                 /\ queue' = IF closed THEN queue ELSE Append(queue, p)
            /\ pc' = IF closed THEN pc ELSE Broadcast(pc)
    /\ UNCHANGED <<plan, ctx, status, remaining, closed, count, allDone>>
    /\ UNCHANGED <<caller, cur, err, outcome, cascade>>

(* signalCompletion: the worker whose Add reaches the total closes allDone. *)
SignalCompletion(w) ==
    /\ pc[w] = "signal"
    /\ count' = count + 1
    /\ allDone' = (allDone \/ count' = N)
    /\ cur' = [cur EXCEPT ![w] = 0]
    /\ pc' = [pc EXCEPT ![w] = "pop"]
    /\ UNCHANGED <<plan, ctx, status, remaining, queue, closed>>
    /\ UNCHANGED <<caller, err, outcome, cascade, runnable>>

-----------------------------------------------------------------------------

Worker(w) ==
    \/ Pop(w) \/ Park(w) \/ Exit(w)
    \/ Check(w) \/ CancelBeforeRun(w) \/ Start(w) \/ Return(w) \/ Classify(w)
    \/ RecordSuccess(w) \/ RecordOther(w)
    \/ CountSkipped(w) \/ Push(w) \/ SignalCompletion(w)

Main == Enqueue \/ CloseQueue \/ Join

(* Run has returned: nothing of it is left. *)
Returned ==
    /\ main = "returned"
    /\ UNCHANGED vars

Next == Cancel \/ Main \/ Returned \/ \E w \in Workers : Worker(w)

(* The Go scheduler runs every goroutine that can run, mutexes and the     *)
(* condition variable do not starve, and Probe.Run returns (probe.go makes *)
(* that the probe's obligation).                                           *)
Spec == /\ Init /\ [][Next]_vars
        /\ WF_vars(Main)
        /\ \A w \in Workers : WF_vars(Worker(w))
-----------------------------------------------------------------------------
(* Properties.                                                             *)

TypeOK ==
    /\ plan \in Plans
    /\ ctx \in ContextErrors \cup {"live"}
    /\ status \in [Node -> Final \cup {"none"}]
    /\ remaining \in [Node -> Int]
    /\ queue \in Seq(Node)
    /\ closed \in BOOLEAN
    /\ count \in Nat
    /\ allDone \in BOOLEAN
    /\ main \in {"enqueue", "wait", "join", "returned"}
    /\ scan \in 1..(N + 1)
    /\ main = "enqueue" => scan \in Node
    /\ pc \in [Workers -> {"pop", "parked", "exited", "check", "ctx", "run",
                           "classify", "record", "count", "push", "signal"}]
    /\ cur \in [Workers -> Node \cup {0}]
    /\ err \in [Workers -> SUBSET (ContextErrors \cup {"other"})]
    /\ outcome \in [Workers -> {"none", "Succeeded", "Failed", "Cancelled"}]
    /\ cascade \in [Workers -> SUBSET Node]
    /\ runnable \in [Workers -> SUBSET Node]

(* The worker has taken cur[w] and has not recorded it. *)
Holds(w) == pc[w] \in {"check", "ctx", "run", "classify", "record"}

(* The worker has recorded cur[w] and has not counted it. *)
Owes(w) == pc[w] \in {"count", "push", "signal"}

Ready(p) == \A i \in DOMAIN plan[p] : status[plan[p][i]] = "Succeeded"

(* A probe runs, and gets an outcome of its own (success, failure or       *)
(* cancellation), only when every dependency it declared has succeeded,    *)
(* whatever order the workers release, enqueue and record probes in.       *)
RunsAfterDependencies ==
    /\ \A w \in Workers : Holds(w) => Ready(cur[w])
    /\ \A p \in Node : status[p] \in {"Succeeded", "Failed", "Cancelled"} => Ready(p)

(* A probe is skipped exactly when one of its dependencies failed, was     *)
(* cancelled or was itself skipped: cascadeSkipLocked misses no dependent  *)
(* though it does not search beyond probes already finalized, and no       *)
(* dependent of such a probe is ever reported as cancelled.                *)
SkippedIffDependencyDidNotSucceed ==
    \A p \in Node :
        status[p] = "Skipped" <=>
            \E i \in DOMAIN plan[p] :
                status[plan[p][i]] \in {"Failed", "Cancelled", "Skipped"}

(* Where a probe can wait for its turn: by index in the queue, or with the *)
(* worker that holds it or is about to push it.                            *)
Places(p) ==
    {<<"queue", i>> : i \in {j \in DOMAIN queue : queue[j] = p}}
    \cup {<<"held", w>> : w \in {v \in Workers : Holds(v) /\ cur[v] = p}}
    \cup {<<"released", w>> : w \in {v \in Workers : p \in runnable[v]}}

(* No probe is lost and none is run twice: once the first probes are in    *)
(* the queue, a probe that is ready and not finalized is in exactly one    *)
(* place, and every other probe is in none.                                *)
ReadyProbeIsInOnePlace ==
    main # "enqueue" =>
        \A p \in Node :
            Cardinality(Places(p)) =
                IF Ready(p) /\ status[p] = "none" THEN 1 ELSE 0

(* When allDone is closed every probe is finalized and no worker still has *)
(* anything to run, count or push: so Run never closes the queue under a   *)
(* push, and its fallback for a probe that was not finalized is dead code. *)
AllDoneMeansFinal ==
    allDone => /\ \A p \in Node : status[p] # "none"
               /\ queue = <<>>
               /\ \A w \in Workers : ~Holds(w) /\ ~Owes(w)

(* Run returns: every probe is finalized, every wakeup arrives, the count  *)
(* reaches the total in a signalCompletion and every worker is joined.     *)
Terminates == <>(main = "returned")

(* The refinement mapping: a probe is running from the start of Probe.Run  *)
(* until its outcome is recorded.  A worker about to record a cancellation *)
(* without an error never ran the probe.                                   *)
Running(w) ==
    \/ pc[w] \in {"run", "classify"}
    \/ pc[w] = "record" /\ ~(outcome[w] = "Cancelled" /\ err[w] = {})

lifeCycle ==
    [p \in Node |-> IF \E w \in Workers : Running(w) /\ cur[w] = p
                    THEN "running" ELSE status[p]]

Abstract == INSTANCE ProbeRun WITH state <- lifeCycle,
                                   returned <- (main = "returned")

(* The scheduler implements the promise of module ProbeRun: among other    *)
(* things no probe starts twice or after the context ended, a failure and  *)
(* the skips it causes are seen at once, and every probe gets an outcome.  *)
ImplementsProbeRun == Abstract!Spec

(* doc.go: "Returns results in canonical DAG order regardless of           *)
(* completion times": a result comes after those it depends on.            *)
ResultsInDagOrder ==
    \A i, j \in DOMAIN out : DependsOn(out[i].id, out[j].id) => j < i
-----------------------------------------------------------------------------
(* The inductive invariant behind the theorems of ProbeProofs.             *)

Finalized == {p \in Node : status[p] # "none"}

Pending(p) == status[p] = "none" /\ Ready(p)

(* remainingDeps counts the declared edges to probes that did not succeed. *)
RemainingInv ==
    \A p \in Node :
        remaining[p] = Cardinality({i \in DOMAIN plan[p] :
                                      status[plan[p][i]] # "Succeeded"})

(* What is queued, held or released is ready to run and not finalized. *)
PendingInv ==
    /\ \A i \in DOMAIN queue : Pending(queue[i])
    /\ \A w \in Workers : Holds(w) => cur[w] \in Node /\ Pending(cur[w])
    /\ \A w \in Workers : \A q \in runnable[w] : Pending(q)

(* It is in one place only. *)
DistinctInv ==
    /\ \A i, j \in DOMAIN queue : queue[i] = queue[j] => i = j
    /\ \A i \in DOMAIN queue, w \in Workers :
         /\ Holds(w) => queue[i] # cur[w]
         /\ queue[i] \notin runnable[w]
    /\ \A v, w \in Workers :
         /\ v # w /\ Holds(v) /\ Holds(w) => cur[v] # cur[w]
         /\ Holds(v) => cur[v] \notin runnable[w]
         /\ v # w => runnable[v] \cap runnable[w] = {}

(* A worker's locals are empty outside the steps that use them. *)
LocalInv ==
    \A w \in Workers :
        /\ runnable[w] # {} => pc[w] = "push"
        /\ cascade[w] # {} => pc[w] = "count"
        /\ pc[w] = "record" => outcome[w] # "none"

(* Until the first probes are enqueued nothing else has happened. *)
EnqueueInv ==
    main = "enqueue" =>
        /\ ~closed
        /\ \A p \in Node : status[p] = "none"
        /\ \A w \in Workers : pc[w] = "pop"
        /\ \A i \in DOMAIN queue : queue[i] < scan

SchedulerInv ==
    RemainingInv /\ PendingInv /\ DistinctInv /\ LocalInv /\ EnqueueInv

(* Recorded but not yet added to the counter: the probe itself and those   *)
(* it made the worker skip.                                                *)
Uncounted ==
    {p \in Node : \E w \in Workers : (Owes(w) /\ p = cur[w]) \/ p \in cascade[w]}

CountInv ==
    /\ \A w \in Workers : Owes(w) => cur[w] \in Finalized
    /\ \A w \in Workers : cascade[w] \subseteq Finalized
    /\ \A v, w \in Workers :
         /\ v # w /\ Owes(v) /\ Owes(w) => cur[v] # cur[w]
         /\ v # w => cascade[v] \cap cascade[w] = {}
         /\ Owes(v) => cur[v] \notin cascade[w]
    /\ count = Cardinality(Finalized \ Uncounted)
    /\ allDone => count = N

InductiveInv ==
    /\ SchedulerInv
    /\ RunsAfterDependencies
    /\ SkippedIffDependencyDidNotSucceed
    /\ CountInv

(* What ReadyProbeIsInOnePlace adds to DistinctInv: a probe that is ready  *)
(* is waiting somewhere, or the loop of Run has yet to come to it.         *)
PresenceInv ==
    \A p \in Node : Pending(p) =>
        \/ main = "enqueue" /\ scan <= p
        \/ \E i \in DOMAIN queue : queue[i] = p
        \/ \E w \in Workers : Holds(w) /\ cur[w] = p
        \/ \E w \in Workers : p \in runnable[w]

(* The queue is closed, and the workers are joined, after allDone only.    *)
ClosingInv == closed \/ main = "join" => allDone

(* An error is kept from Probe.Run to the record, a success has none and a *)
(* cancellation is only recorded after the context ended.                  *)
OutcomeInv ==
    \A w \in Workers :
        /\ err[w] # {} => pc[w] \in {"classify", "record"}
        /\ pc[w] = "record" /\ outcome[w] = "Succeeded" => err[w] = {}
        /\ pc[w] = "record" /\ outcome[w] = "Cancelled" => ctx # "live"

RefinementInv == PresenceInv /\ ClosingInv /\ OutcomeInv
=============================================================================
