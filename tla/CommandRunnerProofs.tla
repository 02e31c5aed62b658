------------------------- MODULE CommandRunnerProofs -------------------------
(***************************************************************************)
(* The safety properties of CommandRunner, for every capacity, every size  *)
(* and number of writes, and every order of the child, its descendants,    *)
(* the timers, the goroutines and the caller's cancellation.               *)
(***************************************************************************)
EXTENDS CommandRunner, TLAPS

-----------------------------------------------------------------------------
(* The buffer.                                                             *)

LEMMA MinMaxOfTwo ==
    ASSUME NEW a \in Nat, NEW b \in Nat
    PROVE  /\ Min({a, b}) = IF a <= b THEN a ELSE b
           /\ Max({a, b}) = IF a >= b THEN a ELSE b
BY DEF Min, Max

LEMMA NewBufferIsEmpty ==
    /\ newBoundedBuffer \in [len : Nat, cap : Nat, truncated : BOOLEAN]
    /\ newBoundedBuffer.len = 0 /\ ~newBoundedBuffer.truncated
    /\ newBoundedBuffer.cap <= Capacity
BY BufferAssumption, MinMaxOfTwo DEF newBoundedBuffer

(* Write, without minima and maxima: a buffer that dropped nothing takes n *)
(* more bytes if they fit, and is filled up otherwise.                     *)
LEMMA WriteRetains ==
    ASSUME NEW b \in [len : Nat, cap : Nat, truncated : BOOLEAN], NEW n \in Nat,
           b.len <= b.cap, b.cap <= Capacity
    PROVE  /\ Write(b, n) \in [len : Nat, cap : Nat, truncated : BOOLEAN]
           /\ Write(b, n).len <= Write(b, n).cap /\ Write(b, n).cap <= Capacity
           /\ b.truncated => Write(b, n) = b
           /\ ~b.truncated =>
                /\ Write(b, n).len = IF b.len + n <= Capacity THEN b.len + n ELSE Capacity
                /\ Write(b, n).truncated <=> b.len + n > Capacity
<1> DEFINE retained == Min({n, Capacity - b.len})
           needed == b.len + retained
           grown == Max({needed, 2 * b.cap})
<1>1. Capacity - b.len \in Nat /\ Capacity \in Nat
  BY BufferAssumption
<1>2. retained = IF n <= Capacity - b.len THEN n ELSE Capacity - b.len
  BY <1>1, MinMaxOfTwo
<1>3. /\ retained \in Nat /\ needed \in Nat /\ needed <= Capacity
      /\ needed = IF b.len + n <= Capacity THEN b.len + n ELSE Capacity
      /\ retained < n <=> b.len + n > Capacity
  BY <1>1, <1>2
<1> HIDE DEF retained, needed
<1>4. grown \in Nat /\ grown >= needed
  <2>1. PICK doubled \in Nat : doubled = 2 * b.cap
    OBVIOUS
  <2>2. grown = Max({needed, doubled})
    BY <2>1
  <2> HIDE DEF grown
  <2>3. needed \in Nat
    BY <1>3
  <2>4. Max({needed, doubled}) = IF needed >= doubled THEN needed ELSE doubled
    BY <2>3, MinMaxOfTwo
  <2>5. QED
    BY <2>2, <2>3, <2>4
<1>5. Min({Capacity, grown}) = IF Capacity <= grown THEN Capacity ELSE grown
  BY <1>1, <1>4, MinMaxOfTwo
<1>6. CASE b.truncated \/ n = 0
  BY <1>1, <1>6 DEF Write
<1>7. CASE ~(b.truncated \/ n = 0)
  <2>1. Write(b, n) = [len |-> needed,
                       cap |-> IF needed > b.cap THEN Min({Capacity, grown}) ELSE b.cap,
                       truncated |-> retained < n]
    BY <1>7 DEF Write, retained, needed
  <2>2. Min({Capacity, grown}) \in Nat /\ Min({Capacity, grown}) <= Capacity
        /\ needed <= Min({Capacity, grown})
    BY <1>1, <1>3, <1>4, <1>5
  <2> HIDE DEF grown
  <2>3. (retained < n) \in BOOLEAN
    BY <1>3
  <2>4. /\ Write(b, n) \in [len : Nat, cap : Nat, truncated : BOOLEAN]
        /\ Write(b, n).len = needed
        /\ Write(b, n).truncated <=> retained < n
        /\ Write(b, n).cap = IF needed > b.cap THEN Min({Capacity, grown}) ELSE b.cap
    <3> DEFINE c == IF needed > b.cap THEN Min({Capacity, grown}) ELSE b.cap
               t == retained < n
    <3>1. c \in Nat /\ t \in BOOLEAN /\ Write(b, n) = [len |-> needed, cap |-> c, truncated |-> t]
      BY <2>1, <2>2, <2>3
    <3>2. t = (retained < n) /\ c = IF needed > b.cap THEN Min({Capacity, grown}) ELSE b.cap
      OBVIOUS
    <3> HIDE DEF c, t
    <3>3. /\ Write(b, n) \in [len : Nat, cap : Nat, truncated : BOOLEAN]
          /\ Write(b, n).len = needed /\ Write(b, n).cap = c /\ Write(b, n).truncated = t
      BY <1>3, <3>1
    <3>4. QED
      BY <3>2, <3>3
  <2>5. QED
    BY <1>1, <1>3, <1>7, <2>2, <2>4
<1>8. QED
  BY <1>6, <1>7

LEMMA BufferStep ==
    ASSUME BufferInv, [Next]_vars
    PROVE  BufferInv'
<1>1. CASE Output
  <2>1. PICK n \in Sizes :
          /\ buffer' = Write(buffer, n)
          /\ written' = [bytes |-> written.bytes + n, writes |-> written.writes + 1]
    BY <1>1 DEF Output
  <2>2. n \in Nat
    BY BufferAssumption
  <2>3. /\ buffer' \in [len : Nat, cap : Nat, truncated : BOOLEAN]
        /\ buffer'.len <= buffer'.cap /\ buffer'.cap <= Capacity
        /\ buffer.truncated => buffer' = buffer
        /\ ~buffer.truncated =>
             /\ buffer'.len = IF buffer.len + n <= Capacity THEN buffer.len + n ELSE Capacity
             /\ buffer'.truncated <=> buffer.len + n > Capacity
    BY <2>1, <2>2, WriteRetains DEF BufferInv
  <2>4. written' \in [bytes : Nat, writes : Nat] /\ written'.bytes = written.bytes + n
    BY <2>1, <2>2 DEF BufferInv
  <2>5. CASE buffer.truncated
    BY <2>2, <2>3, <2>4, <2>5, BufferAssumption DEF BufferInv
  <2>6. CASE ~buffer.truncated
    BY <2>2, <2>3, <2>4, <2>6, BufferAssumption DEF BufferInv
  <2>7. QED
    BY <2>5, <2>6
<1>2. CASE ~Output
  <2>1. UNCHANGED <<buffer, written>>
    BY <1>2 DEF Next, Main, Refuse, Prepare, StopTimer, Classify, Unwind, JoinForwarder,
         Forwarder, ForwardCancel, ForwardStop, Timer, TimerFire, TimerFlag, TimerCancel,
         Start, StartFails, StartChild, Watch, WatchCancel, WatchExpire, Wait, Reap,
         Collect, Drained, DrainExpires, PipeEOF, World, Cancel, ChildExit, ChildForks,
         DescendantExit, Returned, vars, output
  <2>2. QED
    BY <2>1 DEF BufferInv
<1>3. QED
  BY <1>1, <1>2

-----------------------------------------------------------------------------
(* Types.                                                                  *)

(* Every step keeps the variables in their domains.                        *)
LEMMA TypeStep ==
    ASSUME TypeOK, Domains, BufferInv, [Next]_vars
    PROVE  (TypeOK /\ Domains)'
<1> USE DEF TypeOK, Domains, Results, ContextErrors, RunErrors, Dead, helpers, process, exec, output
<1>1. CASE Refuse \/ Prepare
  BY <1>1, ZenonT(60) DEF Refuse, Prepare, NoResult
<1>2. CASE StopTimer \/ Unwind \/ JoinForwarder
  BY <1>2 DEF StopTimer, Unwind, JoinForwarder
<1>3. CASE Classify
  <2>1. Outcome(runErr, ctx, timedOut) \in
          [err : RunErrors \cup ContextErrors, timedOut : BOOLEAN]
    BY DEF Outcome
  <2>2. result' \in Results /\ result'.err \in RunErrors \cup ContextErrors
    BY <1>3, <2>1 DEF Classify, BufferInv
  <2>3. QED
    BY <1>3, <2>2 DEF Classify
<1>4. CASE Forwarder
  BY <1>4 DEF Forwarder, ForwardCancel, ForwardStop
<1>5. CASE Timer
  BY <1>5 DEF Timer, TimerFire, TimerFlag, TimerCancel
<1>6. CASE Start
  BY <1>6 DEF Start, StartFails, StartChild
<1>7. CASE Watch
  BY <1>7 DEF Watch, WatchCancel, WatchExpire
<1>8. CASE Wait
  BY <1>8 DEF Wait, Reap, Collect, Drained, DrainExpires
<1>9. CASE PipeEOF \/ World
  BY <1>9 DEF PipeEOF, World, Cancel, ChildExit, ChildForks, DescendantExit,
     Output, PipeWriter
<1>10. CASE Returned \/ UNCHANGED vars
  BY <1>10 DEF Returned, vars
<1>11. QED
  BY <1>1, <1>2, <1>3, <1>4, <1>5, <1>6, <1>7, <1>8, <1>9, <1>10 DEF Next,
     Main

-----------------------------------------------------------------------------
(* The run.                                                                *)

(* What is joined stays joined: the callback only starts while armed.      *)
LEMMA HelperStep ==
    ASSUME TypeOK, RunInv, [Next]_vars
    PROVE  HelperInv'
<1> USE DEF RunInv, HelperInv, helpers, process, exec, output
<1>1. CASE Refuse \/ Prepare
  BY <1>1 DEF Refuse, Prepare, NoResult
<1>2. CASE StopTimer \/ Unwind \/ JoinForwarder
  BY <1>2 DEF StopTimer, Unwind, JoinForwarder
<1>3. CASE Classify
  BY <1>3 DEF Classify, Outcome
<1>4. CASE Forwarder
  BY <1>4 DEF Forwarder, ForwardCancel, ForwardStop
<1>5. CASE Timer
  BY <1>5 DEF Timer, TimerFire, TimerFlag, TimerCancel
<1>6. CASE Start
  BY <1>6 DEF Start, StartFails, StartChild
<1>7. CASE Watch
  BY <1>7 DEF Watch, WatchCancel, WatchExpire
<1>8. CASE Wait
  BY <1>8 DEF Wait, Reap, Collect, Drained, DrainExpires
<1>9. CASE PipeEOF \/ World
  BY <1>9 DEF PipeEOF, World, Cancel, ChildExit, ChildForks, DescendantExit,
     Output, PipeWriter
<1>10. CASE Returned \/ UNCHANGED vars
  BY <1>10 DEF Returned, vars
<1>11. QED
  BY <1>1, <1>2, <1>3, <1>4, <1>5, <1>6, <1>7, <1>8, <1>9, <1>10 DEF Next,
     Main

(* The context and the timeout, once the cause, remain it.                 *)
LEMMA CauseStep ==
    ASSUME TypeOK, RunInv, [Next]_vars
    PROVE  CauseInv'
<1> USE DEF RunInv, CauseInv, HelperInv, ContextErrors, helpers, process, exec, output, TypeOK
<1>1. CASE Refuse \/ Prepare
  BY <1>1 DEF Refuse, Prepare, NoResult
<1>2. CASE StopTimer \/ Unwind \/ JoinForwarder
  BY <1>2 DEF StopTimer, Unwind, JoinForwarder
<1>3. CASE Classify
  BY <1>3 DEF Classify, Outcome
<1>4. CASE Forwarder
  BY <1>4 DEF Forwarder, ForwardCancel, ForwardStop
<1>5. CASE Timer
  BY <1>5 DEF Timer, TimerFire, TimerFlag, TimerCancel
<1>6. CASE Start
  BY <1>6 DEF Start, StartFails, StartChild
<1>7. CASE Watch
  BY <1>7 DEF Watch, WatchCancel, WatchExpire
<1>8. CASE Wait
  BY <1>8 DEF Wait, Reap, Collect, Drained, DrainExpires
<1>9. CASE PipeEOF \/ World
  BY <1>9 DEF PipeEOF, World, Cancel, ChildExit, ChildForks, DescendantExit,
     Output, PipeWriter
<1>10. CASE Returned \/ UNCHANGED vars
  BY <1>10 DEF Returned, vars
<1>11. QED
  BY <1>1, <1>2, <1>3, <1>4, <1>5, <1>6, <1>7, <1>8, <1>9, <1>10 DEF Next,
     Main

(* A reaped child stays dead, a closed pipe closed.                        *)
LEMMA ProcessStep ==
    ASSUME TypeOK, RunInv, [Next]_vars
    PROVE  ProcessInv'
<1> USE DEF RunInv, ProcessInv, Dead, helpers, process, exec, output, TypeOK, Domains
<1>1. CASE Refuse \/ Prepare
  BY <1>1 DEF Refuse, Prepare, NoResult
<1>2. CASE StopTimer \/ Unwind \/ JoinForwarder
  BY <1>2 DEF StopTimer, Unwind, JoinForwarder
<1>3. CASE Classify
  BY <1>3 DEF Classify, Outcome
<1>4. CASE Forwarder
  BY <1>4 DEF Forwarder, ForwardCancel, ForwardStop
<1>5. CASE Timer
  BY <1>5 DEF Timer, TimerFire, TimerFlag, TimerCancel
<1>6. CASE Start
  BY <1>6 DEF Start, StartFails, StartChild
<1>7. CASE Watch
  BY <1>7 DEF Watch, WatchCancel, WatchExpire
<1>8. CASE Wait
  BY <1>8 DEF Wait, Reap, Collect, Drained, DrainExpires
<1>9. CASE PipeEOF \/ World
  BY <1>9 DEF PipeEOF, World, Cancel, ChildExit, ChildForks, DescendantExit,
     Output, PipeWriter
<1>10. CASE Returned \/ UNCHANGED vars
  BY <1>10 DEF Returned, vars
<1>11. QED
  BY <1>1, <1>2, <1>3, <1>4, <1>5, <1>6, <1>7, <1>8, <1>9, <1>10 DEF Next,
     Main

LEMMA ErrorStep ==
    ASSUME TypeOK, RunInv, [Next]_vars
    PROVE  ErrorInv'
<1> USE DEF RunInv, ErrorInv, ProcessInv, Dead, RunErrors, helpers, process, exec, output, TypeOK, Domains
<1>1. CASE Refuse \/ Prepare
  BY <1>1 DEF Refuse, Prepare, NoResult
<1>2. CASE StopTimer \/ Unwind \/ JoinForwarder
  BY <1>2 DEF StopTimer, Unwind, JoinForwarder
<1>3. CASE Classify
  BY <1>3 DEF Classify, Outcome
<1>4. CASE Forwarder
  BY <1>4 DEF Forwarder, ForwardCancel, ForwardStop
<1>5. CASE Timer
  BY <1>5 DEF Timer, TimerFire, TimerFlag, TimerCancel
<1>6. CASE Start
  BY <1>6 DEF Start, StartFails, StartChild
<1>7. CASE Watch
  BY <1>7 DEF Watch, WatchCancel, WatchExpire
<1>8. CASE Wait
  BY <1>8 DEF Wait, Reap, Collect, Drained, DrainExpires
<1>9. CASE PipeEOF \/ World
  BY <1>9 DEF PipeEOF, World, Cancel, ChildExit, ChildForks, DescendantExit,
     Output, PipeWriter
<1>10. CASE Returned \/ UNCHANGED vars
  BY <1>10 DEF Returned, vars
<1>11. QED
  BY <1>1, <1>2, <1>3, <1>4, <1>5, <1>6, <1>7, <1>8, <1>9, <1>10 DEF Next,
     Main

LEMMA ResultStep ==
    ASSUME TypeOK, RunInv, [Next]_vars
    PROVE  ResultInv'
<1> USE DEF RunInv, ResultInv, CommandCompleted, HelperInv, CauseInv, ProcessInv, ErrorInv, Dead, RunErrors, ContextErrors, Results, helpers, process, exec, output, TypeOK, Domains
<1>1. CASE Refuse \/ Prepare
  BY <1>1 DEF Refuse, Prepare, NoResult
<1>2. CASE StopTimer \/ Unwind \/ JoinForwarder
  BY <1>2 DEF StopTimer, Unwind, JoinForwarder
<1>3. CASE Classify
  BY <1>3 DEF Classify, Outcome
<1>4. CASE Forwarder
  BY <1>4 DEF Forwarder, ForwardCancel, ForwardStop
<1>5. CASE Timer
  BY <1>5 DEF Timer, TimerFire, TimerFlag, TimerCancel
<1>6. CASE Start
  BY <1>6 DEF Start, StartFails, StartChild
<1>7. CASE Watch
  BY <1>7 DEF Watch, WatchCancel, WatchExpire
<1>8. CASE Wait
  BY <1>8 DEF Wait, Reap, Collect, Drained, DrainExpires
<1>9. CASE PipeEOF \/ World
  BY <1>9 DEF PipeEOF, World, Cancel, ChildExit, ChildForks, DescendantExit,
     Output, PipeWriter
<1>10. CASE Returned \/ UNCHANGED vars
  BY <1>10 DEF Returned, vars
<1>11. QED
  BY <1>1, <1>2, <1>3, <1>4, <1>5, <1>6, <1>7, <1>8, <1>9, <1>10 DEF Next,
     Main

-----------------------------------------------------------------------------
(* The theorems.                                                           *)

LEMMA InductiveInvariant == Spec => [](TypeOK /\ BufferInv /\ RunInv)
<1>1. Init => TypeOK /\ BufferInv /\ RunInv
  <2> SUFFICES ASSUME Init PROVE TypeOK /\ BufferInv /\ RunInv
    OBVIOUS
  <2>1. BufferInv
    BY BufferAssumption, NewBufferIsEmpty DEF Init, BufferInv
  <2>2. TypeOK /\ RunInv
    BY DEF Init, NoResult, TypeOK, RunInv, Domains, Results, HelperInv, CauseInv,
           ProcessInv, ErrorInv, ResultInv, RunErrors, ContextErrors
  <2>3. QED
    BY <2>1, <2>2
<1>2. TypeOK /\ BufferInv /\ RunInv /\ [Next]_vars => (TypeOK /\ BufferInv /\ RunInv)'
  BY TypeStep, BufferStep, HelperStep, CauseStep, ProcessStep, ErrorStep, ResultStep
     DEF RunInv
<1>3. QED
  BY <1>1, <1>2, PTL DEF Spec

(* For every capacity and every sequence of writes: the buffer holds the   *)
(* longest prefix that fits and its backing array stays within the limit.  *)
THEOREM RetainsLongestPrefix == Spec => []OutputIsBounded
<1>1. TypeOK /\ BufferInv => OutputIsBounded
  BY BufferAssumption, MinMaxOfTwo DEF BufferInv, OutputIsBounded
<1>2. QED
  BY <1>1, InductiveInvariant, PTL

(* In every order of events: when run returns, the child is reaped, the    *)
(* copying goroutine and the forwarder have ended, and the timer callback  *)
(* will not write its flag any more.                                       *)
THEOREM EverythingIsJoined == Spec => []NothingLeftBehind
<1>1. TypeOK /\ RunInv => NothingLeftBehind
  BY DEF RunInv, HelperInv, ProcessInv, NothingLeftBehind, Dead
<1>2. QED
  BY <1>1, InductiveInvariant, PTL

(* In every order of events: a signalled run is reported by the cause of   *)
(* the signal, and a completed one is of a child that ended by itself and  *)
(* whose whole output was kept.                                            *)
THEOREM ResultTellsWhatHappened == Spec => []ResultIsSound
<1>1. BufferInv /\ RunInv => ResultIsSound
  <2>1. BufferInv /\ ~buffer.truncated => buffer.len = written.bytes
    BY BufferAssumption DEF BufferInv
  <2>2. RunInv => InterruptionIsAttributed
    BY DEF RunInv, ResultInv, InterruptionIsAttributed
  <2>3. BufferInv /\ RunInv => CompletedIsSound
    BY <2>1 DEF RunInv, ResultInv, CompletedIsSound
  <2>4. QED
    BY <2>2, <2>3 DEF ResultIsSound
<1>2. QED
  BY <1>1, InductiveInvariant, PTL
=============================================================================
