------------------------- MODULE ScopedReaderProofs -------------------------
(***************************************************************************)
(* Theorems about module ScopedReader, for every number of callers,        *)
(* closers and descriptors, every tree on disk and every limit.            *)
(*                                                                         *)
(* ReaderInv is inductive.  A step of a call that opens and closes nothing *)
(* (Moves) leaves everything but the call itself alone, so that such steps *)
(* are treated together; the steps on descriptors are treated one by one.  *)
(*                                                                         *)
(* On top of it ListingInv is inductive for the listings, whose limits     *)
(* count what has been met; and a call of the memory reader is one walk of *)
(* its tree, which is compared turn by turn with the kernel's.             *)
(***************************************************************************)
EXTENDS ScopedReader, Induction, FiniteSetTheorems, SequenceTheorems, WellFoundedInduction, TLAPS

-----------------------------------------------------------------------------
(* Facts about the constants and the operators.                            *)

(* A nonempty set of naturals has a least element, and Min is it.          *)
LEMMA Least ==
    ASSUME NEW S, S \subseteq Nat, S # {}
    PROVE  Min(S) \in S /\ \A n \in S : Min(S) <= n
  <1> DEFINE Less == {pair \in Nat \X Nat : pair[1] < pair[2]}
  <1>1. IsWellFoundedOn(Less, Nat)
    BY NatLessThanWellFounded, Zenon DEF OpToRel
  <1> HIDE DEF Less
  <1>2. PICK x \in S : \A y \in S : ~(<<y, x>> \in Less)
    BY <1>1, WFMin, Zenon
  <1>3. \A y \in S : x <= y
    <2> SUFFICES ASSUME NEW y \in S PROVE x <= y
      OBVIOUS
    <2>1. ~(<<y, x>> \in Less)
      BY <1>2, Zenon
    <2>2. x \in Nat /\ y \in Nat
      OBVIOUS
    <2>3. ~(y < x)
      <3>1. SUFFICES ASSUME y < x PROVE <<y, x>> \in Less
        BY <2>1
      <3>2. <<y, x>> \in Nat \X Nat /\ <<y, x>>[1] < <<y, x>>[2]
        BY <2>2, <3>1
      <3> QED BY <3>2, Zenon DEF Less
    <2> QED BY <2>2, <2>3
  <1> QED
    BY <1>3, Zenon DEF Min

(* The kernel's lowest free number is a free number.                       *)
LEMMA LowestIsFree ==
    ASSUME Free # {}
    PROVE  Min(Free) \in Fds /\ table[Min(Free)] = Unused
  <1>1. Free \subseteq Nat
    BY ReaderAssumption DEF Free, Fds
  <1>2. Min(Free) \in Free
    BY <1>1, Least
  <1> QED
    BY <1>2 DEF Free

(* The sentinel is no descriptor.                                          *)
LEMMA Sentinel == sentinelClosedRootFD # 0 /\ sentinelClosedRootFD \notin Fds /\ 0 \in Fds
  BY ReaderAssumption DEF sentinelClosedRootFD, Fds

-----------------------------------------------------------------------------
(* A step of one call that leaves the descriptors alone.                   *)

Moves(c) ==
    /\ mode = "os" /\ ~Closing /\ Quiet /\ NoDescriptors
    /\ op' \in [Callers -> CallType] /\ \A d \in Callers \ {c} : op'[d] = op[d]
    /\ op'[c].fds = op[c].fds /\ op'[c].pc # "idle"
    /\ op'[c].pc \in {"validate", "done"} => op'[c].fds = <<>>
    /\ LateCall(c)' /\ CheckedCall(c)'

(* What the invariant says of a call that runs.                            *)
LEMMA Running ==
    ASSUME ReaderInv, NEW c \in Callers, op[c].pc \notin {"idle", "done"}
    PROVE  /\ mode = "os" /\ ~Closing /\ op[c] \in CallType /\ op \in [Callers -> CallType]
           /\ FdsCall(c) /\ LateCall(c) /\ CheckedCall(c)
           /\ rootfd \in {0, sentinelClosedRootFD} /\ cancelled \in BOOLEAN
  <1>1. mode = "os"
    BY DEF ReaderInv, MemoryInv, TypeOK
  <1>2. ~Closing
    BY DEF ReaderInv, RootInv, Reading
  <1>3. op \in [Callers -> CallType] /\ op[c] \in CallType
    BY <1>1, Zenon DEF ReaderInv, TypeOK
  <1>4. FdsCall(c) /\ LateCall(c) /\ CheckedCall(c)
    BY <1>1, Zenon DEF ReaderInv, FdsInv, LateInv, CheckedInv
  <1> QED
    BY <1>1, <1>2, <1>3, <1>4, Zenon DEF ReaderInv, TypeOK

(* The fields of a call.                                                   *)
LEMMA Fields ==
    ASSUME NEW r \in CallType
    PROVE  /\ r.method \in Methods \cup {"none"} /\ r.fds \in Seq(Fds) /\ r.before \in Inodes \cup {None}
           /\ r.data \in Nat /\ r.retries \in Nat /\ r.err \in SUBSET Errors
           /\ r.returned \in SUBSET Entries /\ r.chunk \in SUBSET Entries /\ r.out \in SUBSET Entries
           /\ r.late \in BOOLEAN /\ r.seen \in SUBSET Inodes /\ r.sizes \in SUBSET [Regulars -> Nat]
           /\ r.always \in SUBSET Entries /\ r.ever \in SUBSET Entries /\ r.fd \in Fds \cup {sentinelClosedRootFD}
  BY DEF CallType

(* What a step of a call must show of it: the rest is as it was.           *)
LEMMA StepMoves ==
    ASSUME ReaderInv, NEW c \in Callers, op[c].pc \notin {"idle", "done"}, Quiet, NoDescriptors,
           NEW r \in CallType, Step(c, r), r.fds = op[c].fds,
           r.pc \notin {"idle", "validate", "done"} \/ (r.pc = "done" /\ r.fds = <<>>),
           op'[c] = r => LateCall(c)' /\ CheckedCall(c)'
    PROVE  Moves(c)
  <1>1. mode = "os" /\ ~Closing /\ op \in [Callers -> CallType]
    BY Running
  <1>2. op'[c] = r /\ op' \in [Callers -> CallType] /\ \A d \in Callers \ {c} : op'[d] = op[d]
    BY <1>1 DEF Step
  <1>3. LateCall(c)' /\ CheckedCall(c)'
    BY <1>2
  <1> QED
    BY <1>1, <1>2, <1>3, Zenon DEF Moves

(* A failure tells what it must: why a late call failed, and of a checked  *)
(* file whether its data is complete, whether it was replaced, its size.   *)
LEMMA FailureMoves ==
    ASSUME ReaderInv, NEW c \in Callers, op[c].pc \notin {"idle", "done", "close"}, Quiet, NoDescriptors,
           NEW err \in SUBSET Errors, err # {}, Fail(c, err),
           "closed" \in err => op[c].late,
           op[c].late => err = {"closed"} \/ (op[c].method = "StatFS" /\ err = {"ctx"}),
           op[c].method \in Checked =>
              /\ op[c].data > 0 => "incomplete" \in err
              /\ "changed" \in err => \E i \in op[c].seen : i # op[c].before
              /\ "limit" \notin err \/ op[c].method # "ReadFile"
    PROVE  Moves(c)
  <1> DEFINE r == [op[c] EXCEPT !.err = err, !.pc = "close"]
  <1>0. /\ mode = "os" /\ op[c] \in CallType /\ LateCall(c) /\ CheckedCall(c)
        /\ rootfd \in {0, sentinelClosedRootFD}
    BY Running
  <1>1. r \in CallType /\ Step(c, r)
    BY <1>0 DEF CallType, Fail
  <1>2. /\ r.err = err /\ r.pc = "close" /\ r.fds = op[c].fds /\ r.method = op[c].method
        /\ r.before = op[c].before /\ r.data = op[c].data /\ r.late = op[c].late
        /\ r.seen = op[c].seen /\ r.sizes = op[c].sizes
    BY <1>0 DEF CallType
  <1> HIDE DEF r
  <1>3. ASSUME op'[c] = r PROVE LateCall(c)'
    BY <1>0, <1>2, <1>3 DEF LateCall, Quiet
  <1>4. ASSUME op'[c] = r PROVE CheckedCall(c)'
    BY <1>0, <1>2, <1>4, Fields DEF CheckedCall, Quiet, NoDescriptors, disk, Present, Target
  <1> QED
    BY <1>1, <1>2, <1>3, <1>4, StepMoves

(* What only a call on an open reader gets to.                             *)
LEMMA OnOpenReader ==
    ASSUME ReaderInv, NEW c \in Callers, op[c].pc \notin {"idle", "validate", "close", "done"}
    PROVE  /\ ~op[c].late /\ rootfd = 0 /\ op[c].err = {}
           /\ mode = "os" /\ op[c] \in CallType /\ CheckedCall(c) /\ LateCall(c) /\ cancelled \in BOOLEAN
  BY Running DEF LateCall

(* A failure that comes of an open reader.                                 *)
LEMMA OpenFailureMoves ==
    ASSUME ReaderInv, NEW c \in Callers, op[c].pc \notin {"idle", "validate", "close", "done"}, Quiet, NoDescriptors,
           NEW err \in SUBSET (Errors \ {"closed"}), err # {}, Fail(c, err),
           op[c].method \in Checked =>
              /\ op[c].data > 0 => "incomplete" \in err
              /\ "changed" \in err => \E i \in op[c].seen : i # op[c].before
              /\ "limit" \notin err \/ op[c].method # "ReadFile"
    PROVE  Moves(c)
  BY OnOpenReader, FailureMoves

LEMMA ValidateMoves ==
    ASSUME ReaderInv, NEW c \in Callers, NEW valid \in BOOLEAN, Validate(c, valid)
    PROVE  Moves(c)
  <1> DEFINE err == IF op[c].method = "StatFS" /\ cancelled THEN CtxErr
                    ELSE IF rootfd = sentinelClosedRootFD THEN {"closed"}
                    ELSE IF ~valid THEN {"subpath"}
                    ELSE IF op[c].method \in Contextless THEN {} ELSE CtxErr
             r == [op[c] EXCEPT !.pc = "load"]
  <1>0. /\ op[c].pc = "validate" /\ Quiet /\ NoDescriptors
        /\ IF err = {} THEN Step(c, r) ELSE Fail(c, err)
    BY Zenon DEF Validate
  <1>1. /\ op[c] \in CallType /\ LateCall(c) /\ CheckedCall(c) /\ FdsCall(c)
        /\ rootfd \in {0, sentinelClosedRootFD} /\ cancelled \in BOOLEAN
    BY <1>0, Running
  <1>2. /\ err \in SUBSET Errors
        /\ "closed" \in err => op[c].late
        /\ op[c].late => err = {"closed"} \/ (op[c].method = "StatFS" /\ err = {"ctx"})
        /\ "changed" \notin err /\ "limit" \notin err
    <2>0. op[c].late <=> rootfd # 0
      BY <1>0, <1>1 DEF LateCall
    <2>1. CtxErr \in {{}, {"ctx"}} /\ {"closed"} \in SUBSET Errors /\ {"subpath"} \in SUBSET Errors
          /\ {"ctx"} \in SUBSET Errors
      BY DEF CtxErr, Errors
    <2>2. err \in {{}, {"ctx"}, {"closed"}, {"subpath"}}
      BY <2>1
    <2>3. ASSUME op[c].method = "StatFS" /\ cancelled PROVE err = CtxErr
      BY <2>3, Zenon
    <2>4. ASSUME ~(op[c].method = "StatFS" /\ cancelled), rootfd = sentinelClosedRootFD PROVE err = {"closed"}
      BY <2>4, Zenon
    <2>5. ASSUME ~(op[c].method = "StatFS" /\ cancelled), rootfd # sentinelClosedRootFD
          PROVE  err \in {{}, {"ctx"}, {"subpath"}}
      BY <2>1, <2>5
    <2> HIDE DEF err
    <2>6. CASE op[c].method = "StatFS" /\ cancelled
      BY <1>1, <2>1, <2>3, <2>6 DEF CtxErr
    <2>7. CASE ~(op[c].method = "StatFS" /\ cancelled) /\ rootfd = sentinelClosedRootFD
      BY <1>1, <2>0, <2>1, <2>4, <2>7, Sentinel
    <2>8. CASE ~(op[c].method = "StatFS" /\ cancelled) /\ rootfd # sentinelClosedRootFD
      BY <1>1, <2>0, <2>1, <2>5, <2>8, Sentinel
    <2> QED BY <2>6, <2>7, <2>8
  <1> HIDE DEF err
  <1>3. CASE err # {}
    <2>1. op[c].method \in Checked => op[c].data = 0
      BY <1>0, <1>1 DEF CheckedCall
    <2> QED BY <1>0, <1>2, <1>3, <2>1, FailureMoves
  <1>4. CASE err = {}
    <2>1. /\ r \in CallType /\ r.pc = "load" /\ r.fds = op[c].fds /\ r.method = op[c].method
          /\ r.before = op[c].before /\ r.data = op[c].data /\ r.late = op[c].late /\ r.err = op[c].err
          /\ r.seen = op[c].seen /\ r.sizes = op[c].sizes
          /\ DOMAIN r.fds = {} /\ Len(r.fds) = 0
      <3>1. op[c].fds = <<>>
        BY <1>0, <1>1 DEF FdsCall
      <3>2. DOMAIN op[c].fds = {} /\ Len(op[c].fds) = 0
        BY <3>1
      <3> QED BY <1>1, <3>2 DEF CallType
    <2> HIDE DEF r
    <2>2. ASSUME op'[c] = r PROVE LateCall(c)'
      BY <1>0, <1>1, <1>2, <1>4, <2>1, <2>2 DEF LateCall, Quiet
    <2>3. ASSUME op'[c] = r PROVE CheckedCall(c)'
      <3>1. op[c].err = {}
        BY <1>0, <1>1 DEF LateCall
      <3>2. op[c].method \in Checked =>
              /\ Present \subseteq op[c].seen /\ size \in op[c].sizes /\ op[c].data = 0
              /\ op[c].before # None => op[c].before \in op[c].seen \cap Regulars
              /\ op[c].method = "ReadFile" => 0 <= FileBytes
        BY <1>0, <1>1, ReaderAssumption DEF CheckedCall
      <3> QED
        BY <1>0, <2>1, <2>3, <3>1, <3>2
        DEF CheckedCall, Quiet, disk, Present
    <2> QED BY <1>0, <1>4, <2>1, <2>2, <2>3, StepMoves
  <1> QED BY <1>3, <1>4

LEMMA LoadRootMoves ==
    ASSUME ReaderInv, NEW c \in Callers, LoadRoot(c)
    PROVE  Moves(c)
  <1> DEFINE r == [op[c] EXCEPT !.pc = "openat", !.fd = rootfd]
  <1>0. /\ op[c].pc = "load" /\ Quiet /\ NoDescriptors
        /\ IF rootfd = sentinelClosedRootFD THEN Fail(c, {"closed"}) ELSE Step(c, r)
    BY Zenon DEF LoadRoot
  <1>1. /\ op[c] \in CallType /\ LateCall(c) /\ CheckedCall(c) /\ rootfd = 0 /\ Step(c, r) /\ ~op[c].late
    BY <1>0, OnOpenReader, Sentinel
  <1>2. /\ r \in CallType /\ r.pc = "openat" /\ r.fd = 0 /\ r.fds = op[c].fds /\ r.method = op[c].method
        /\ r.before = op[c].before /\ r.data = op[c].data /\ r.late = op[c].late /\ r.err = op[c].err
        /\ r.seen = op[c].seen /\ r.sizes = op[c].sizes
    BY <1>1, Sentinel DEF CallType
  <1> HIDE DEF r
  <1>3. ASSUME op'[c] = r PROVE LateCall(c)'
    BY <1>0, <1>1, <1>2, <1>3 DEF LateCall, Quiet
  <1>4. ASSUME op'[c] = r PROVE CheckedCall(c)'
    BY <1>0, <1>1, <1>2, <1>4, Fields DEF CheckedCall, Quiet, NoDescriptors, disk, Present, Target
  <1> QED BY <1>0, <1>1, <1>2, <1>3, <1>4, StepMoves

(* checkedRegular looks at a descriptor of a file the path has named.      *)
LEMMA InspectMoves ==
    ASSUME ReaderInv, NEW c \in Callers, Inspect(c)
    PROVE  Moves(c)
  <1> DEFINE changed == IF Len(op[c].fds) = 2 /\ op[c].before # Target(c) THEN {"changed"} ELSE {}
             err == IF regularMode(Target(c)) # {} THEN regularMode(Target(c))
                    ELSE IF changed # {} THEN changed
                    ELSE CtxErr
             first == [op[c] EXCEPT !.before = Target(c), !.pc = "load"]
             pc == IF op[c].method = "ReadFile" THEN "poll" ELSE "query"
             second == [op[c] EXCEPT !.pc = pc]
  <1>0. /\ op[c].pc = "inspect" /\ Quiet /\ NoDescriptors
        /\ IF err # {} THEN Fail(c, err)
           ELSE IF Len(op[c].fds) = 1 THEN Step(c, first) ELSE Step(c, second)
    BY Zenon DEF Inspect
  <1>1. /\ op[c] \in CallType /\ LateCall(c) /\ CheckedCall(c) /\ ~op[c].late /\ cancelled \in BOOLEAN
        /\ op[c].err = {} /\ op[c].fds \in Seq(Fds) /\ rootfd = 0
    BY <1>0, OnOpenReader, Fields
  <1>2. /\ op[c].method \in Checked
        /\ Len(op[c].fds) \in {1, 2} /\ (Len(op[c].fds) = 2 => op[c].before # None)
        /\ Target(c) \in op[c].seen /\ op[c].data = 0
        /\ op[c].before # None => op[c].before \in op[c].seen \cap Regulars
        /\ Present \subseteq op[c].seen /\ size \in op[c].sizes
        /\ \A i \in DOMAIN op[c].fds : table[op[c].fds[i]].to \in op[c].seen
    <2>1. Len(op[c].fds) \in {1, 2} => Len(op[c].fds) \in DOMAIN op[c].fds
      BY <1>1
    <2>2. op[c].method \in Checked
      BY <1>0, <1>1 DEF CheckedCall
    <2>3. Len(op[c].fds) \in {1, 2} /\ (Len(op[c].fds) = 2 => op[c].before # None)
      BY <1>0, <1>1, <2>2 DEF CheckedCall
    <2>4. \A i \in DOMAIN op[c].fds : table[op[c].fds[i]].to \in op[c].seen
      BY <1>0, <1>1, <2>2 DEF CheckedCall
    <2>5. Target(c) \in op[c].seen
      BY <2>1, <2>3, <2>4 DEF Target, Last
    <2> QED
      BY <1>0, <1>1, <2>2, <2>3, <2>4, <2>5 DEF CheckedCall
  <1>3. Target(c) \in Inodes /\ (regularMode(Target(c)) = {} => Target(c) \in Regulars)
    <2>1. Target(c) \in Inodes
      BY <1>1, <1>2, Fields
    <2>2. regularMode(Target(c)) = {} => KindOf[Target(c)] = "regular"
      BY DEF regularMode
    <2> QED
      BY <2>1, <2>2 DEF Regulars
  <1>4. CASE err # {}
    <2>1. err \in SUBSET (Errors \ {"closed", "limit"})
      <3>1. regularMode(Target(c)) \in {{}, {"EISDIR"}, {"type"}}
        BY DEF regularMode
      <3>2. CtxErr \in {{}, {"ctx"}}
        BY DEF CtxErr
      <3>3. changed \in {{}, {"changed"}}
        OBVIOUS
      <3>4. err \in {{}, {"EISDIR"}, {"type"}, {"ctx"}, {"changed"}}
        BY <3>1, <3>2, <3>3
      <3> HIDE DEF err
      <3> QED
        BY <3>4 DEF Errors
    <2>2. "changed" \in err => op[c].before # Target(c)
      <3>1. "changed" \notin regularMode(Target(c)) /\ "changed" \notin CtxErr
        BY DEF regularMode, CtxErr
      <3> QED BY <3>1
    <2>3. Fail(c, err)
      BY <1>0, <1>4
    <2> HIDE DEF err
    <2>4. "changed" \in err => \E i \in op[c].seen : i # op[c].before
      BY <1>2, <2>2
    <2> QED
      BY <1>0, <1>2, <1>4, <2>1, <2>3, <2>4, OpenFailureMoves
  <1>5. CASE err = {} /\ Len(op[c].fds) = 1
    <2>1. Step(c, first) /\ Target(c) \in Regulars
      BY <1>0, <1>3, <1>5
    <2>2. /\ first \in CallType /\ first.pc = "load" /\ first.fds = op[c].fds /\ first.method = op[c].method
          /\ first.before = Target(c) /\ first.data = op[c].data /\ first.late = op[c].late
          /\ first.err = op[c].err /\ first.seen = op[c].seen /\ first.sizes = op[c].sizes
      BY <1>1, <1>3 DEF CallType
    <2>3. Target(c) # None
      BY <1>3, ReaderAssumption
    <2> HIDE DEF first, err
    <2>4. ASSUME op'[c] = first PROVE LateCall(c)'
      BY <1>0, <1>1, <2>2, <2>4 DEF LateCall, Quiet
    <2>5. ASSUME op'[c] = first PROVE CheckedCall(c)'
      BY <1>0, <1>1, <1>2, <1>5, <2>1, <2>2, <2>3, <2>5
      DEF CheckedCall, Quiet, NoDescriptors, disk, Present
    <2> QED BY <1>0, <2>1, <2>2, <2>4, <2>5, StepMoves
  <1>6. CASE err = {} /\ Len(op[c].fds) # 1
    <2>1. Step(c, second) /\ Target(c) = op[c].before /\ Len(op[c].fds) = 2
      <3>1. Step(c, second) /\ Len(op[c].fds) = 2
        BY <1>0, <1>2, <1>6
      <3>2. changed = {}
        BY <1>6
      <3> QED BY <3>1, <3>2
    <2>2. /\ second \in CallType /\ second.pc = pc /\ second.fds = op[c].fds /\ second.method = op[c].method
          /\ second.before = op[c].before /\ second.data = op[c].data /\ second.late = op[c].late
          /\ second.err = op[c].err /\ second.seen = op[c].seen /\ second.sizes = op[c].sizes
      BY <1>1 DEF CallType
    <2>3. pc \in {"poll", "query"} /\ (pc = "poll" => op[c].method = "ReadFile")
      OBVIOUS
    <2>4. size \in [Regulars -> Nat] /\ op[c].before \in Regulars
      BY <1>2, <2>1 DEF ReaderInv, TypeOK
    <2> HIDE DEF second, err, pc
    <2>5. ASSUME op'[c] = second PROVE LateCall(c)'
      BY <1>0, <1>1, <2>2, <2>3, <2>5 DEF LateCall, Quiet
    <2>6. \E t \in op[c].sizes : 0 <= t[op[c].before]
      BY <1>2, <2>4
    <2>7. 0 <= FileBytes
      BY ReaderAssumption
    <2>8. ASSUME op'[c] = second PROVE Target(c)' = op[c].before
      BY <1>0, <2>1, <2>2, <2>8 DEF Target, NoDescriptors
    <2>9. ASSUME op'[c] = second PROVE CheckedCall(c)'
      BY <1>0, <1>1, <1>2, <1>6, <2>1, <2>2, <2>3, <2>6, <2>7, <2>8, <2>9
      DEF CheckedCall, Quiet, NoDescriptors, disk, Present
    <2> QED BY <1>0, <2>1, <2>2, <2>3, <2>5, <2>9, StepMoves
  <1> QED BY <1>4, <1>5, <1>6

(* What readBounded knows of the file it reads.                            *)
LEMMA ReadingFile ==
    ASSUME ReaderInv, NEW c \in Callers, op[c].pc \in {"poll", "read"}
    PROVE  /\ op[c] \in CallType /\ op[c].method = "ReadFile" /\ op[c].err = {} /\ op[c].late = FALSE
           /\ Len(op[c].fds) = 2 /\ Target(c) = op[c].before /\ op[c].before # None
           /\ op[c].before \in op[c].seen /\ op[c].before \in Regulars
           /\ Present \subseteq op[c].seen /\ size \in op[c].sizes /\ op[c].sizes \subseteq [Regulars -> Nat]
           /\ \A i \in DOMAIN op[c].fds : table[op[c].fds[i]].to \in op[c].seen
           /\ op[c].data \in Nat /\ op[c].data <= FileBytes /\ \E t \in op[c].sizes : op[c].data <= t[op[c].before]
           /\ rootfd = 0 /\ size \in [Regulars -> Nat] /\ FileBytes \in Nat /\ cancelled \in BOOLEAN
  <1>1. /\ op[c] \in CallType /\ op[c].err = {} /\ op[c].late = FALSE /\ CheckedCall(c) /\ rootfd = 0
        /\ cancelled \in BOOLEAN
    BY OnOpenReader, Fields
  <1>2. op[c].method = "ReadFile" /\ op[c].method \in Checked
    BY <1>1 DEF CheckedCall
  <1>3. size \in [Regulars -> Nat] /\ FileBytes \in Nat
    BY ReaderAssumption DEF ReaderInv, TypeOK
  <1>4. op[c].data \in Nat /\ op[c].sizes \subseteq [Regulars -> Nat]
    BY <1>1, Fields
  <1> QED
    BY <1>1, <1>2, <1>3, <1>4 DEF CheckedCall

(* How a read goes on, or ends, and what it may say.                       *)
LEMMA ReadsOn ==
    ASSUME ReaderInv, NEW c \in Callers, op[c].pc \in {"poll", "read"}, Quiet, NoDescriptors,
           NEW r \in CallType, Step(c, r),
           r.pc \in {"poll", "read", "close"}, r.method = op[c].method, r.fds = op[c].fds,
           r.before = op[c].before, r.late = op[c].late, r.seen = op[c].seen, r.sizes = op[c].sizes,
           r.data <= FileBytes, \E t \in op[c].sizes : r.data <= t[op[c].before],
           r.err # {} => r.pc = "close" /\ "closed" \notin r.err /\ "changed" \notin r.err
                         /\ "incomplete" \in r.err,
           r.err = {} /\ r.pc = "close" => \E s \in op[c].sizes : s[op[c].before] <= r.data,
           "limit" \in r.err => r.data = FileBytes /\ \E s \in op[c].sizes : s[op[c].before] > FileBytes
    PROVE  Moves(c)
  <1>1. ASSUME op'[c] = r PROVE LateCall(c)'
    BY <1>1, ReadingFile DEF LateCall, Quiet
  <1>2. ASSUME op'[c] = r PROVE Target(c)' = r.before
    BY <1>2, ReadingFile DEF Target, NoDescriptors
  <1>3. ASSUME op'[c] = r PROVE CheckedCall(c)'
    <2>1. r.data \in Nat
      BY Fields
    <2>2. "ReadFile" \in Checked
      BY DEF Checked
    <2>3. size' = size /\ Present' = Present /\ table' = table
      BY DEF Quiet, NoDescriptors, disk, Present
    <2> QED
      BY <1>2, <1>3, <2>1, <2>2, <2>3, ReadingFile DEF CheckedCall
  <1> QED
    BY <1>1, <1>3, StepMoves

LEMMA PollMoves ==
    ASSUME ReaderInv, NEW c \in Callers, Poll(c)
    PROVE  Moves(c)
  <1> DEFINE r == [op[c] EXCEPT !.pc = "read"]
  <1>0. /\ op[c].pc = "poll" /\ Quiet /\ NoDescriptors
        /\ IF cancelled THEN Fail(c, incomplete(CtxErr)) ELSE Step(c, r)
    BY Zenon DEF Poll
  <1>1. CASE cancelled
    <2>1. incomplete(CtxErr) = {"ctx", "incomplete"}
      BY <1>1 DEF incomplete, CtxErr
    <2>2. incomplete(CtxErr) \in SUBSET (Errors \ {"closed"})
      BY <2>1 DEF Errors
    <2> QED
      BY <1>0, <1>1, <2>1, <2>2, OpenFailureMoves
  <1>2. CASE ~cancelled
    <2>1. /\ r \in CallType /\ r.pc = "read" /\ r.method = op[c].method /\ r.fds = op[c].fds
          /\ r.before = op[c].before /\ r.late = op[c].late /\ r.seen = op[c].seen /\ r.sizes = op[c].sizes
          /\ r.data = op[c].data /\ r.err = {}
      <3>1. op[c] \in CallType /\ op[c].err = {}
        BY <1>0, ReadingFile
      <3> QED
        BY <3>1 DEF CallType
    <2> HIDE DEF r
    <2> QED
      BY <1>0, <1>2, <2>1, ReadingFile, ReadsOn
  <1> QED
    BY <1>0, <1>1, <1>2, ReadingFile

(* The bounds of one read.                                                 *)
LEMMA ReadBound ==
    ASSUME NEW a \in Nat, NEW b \in Nat, NEW d \in Nat, NEW left \in Nat
    PROVE  /\ Min({a, b, d, left}) \in Nat
           /\ Min({a, b, d, left}) <= d /\ Min({a, b, d, left}) <= left
  BY Least

(* A read takes no more than the file has; one byte too many is the limit. *)
LEMMA ReadMoves ==
    ASSUME ReaderInv, NEW c \in Callers, Read(c)
    PROVE  Moves(c)
  <1> DEFINE here == op[c]
             remaining == FileBytes - here.data
             left == IF size[Target(c)] > here.data THEN size[Target(c)] - here.data ELSE 0
             most == Min({Chunk, FileBytes + 1, remaining + 1, left})
             over == [here EXCEPT !.data = FileBytes, !.pc = "close",
                                  !.err = LimitError \cup incomplete(CtxErr)]
             on(n) == [here EXCEPT !.data = @ + n, !.retries = 0, !.pc = "poll"]
             again == [Retried(here) EXCEPT !.pc = "poll"]
             ended == [here EXCEPT !.err = incomplete(CtxErr), !.pc = "close"]
             interrupted == incomplete({"EINTR"} \cup CtxErr)
             broken == incomplete({"EIO"} \cup CtxErr)
  <1>0. /\ op[c].pc = "read" /\ Quiet /\ NoDescriptors
        /\ \/ \E n \in 1..most : IF n > remaining THEN Step(c, over) ELSE Step(c, on(n))
           \/ left = 0 /\ Fail(c, incomplete(CtxErr))
           \/ IF here.retries < InterruptedRetries THEN Step(c, again) ELSE Fail(c, interrupted)
           \/ Fail(c, broken)
    BY Zenon DEF Read
  <1>1. /\ here \in CallType /\ here.data \in Nat /\ here.data <= FileBytes /\ FileBytes \in Nat
        /\ Target(c) = here.before /\ here.before \in Regulars /\ size \in [Regulars -> Nat]
        /\ size \in here.sizes /\ here.err = {} /\ here.retries \in Nat /\ cancelled \in BOOLEAN
        /\ \E t \in here.sizes : here.data <= t[here.before]
    BY <1>0, ReadingFile, Fields
  <1>2. remaining \in Nat /\ size[here.before] \in Nat /\ left \in Nat
        /\ (left = 0 => size[here.before] <= here.data)
        /\ (left # 0 => here.data + left = size[here.before])
    BY <1>1
  <1>3. /\ incomplete(CtxErr) \in SUBSET Errors /\ interrupted \in SUBSET (Errors \ {"closed", "changed", "limit"})
        /\ broken \in SUBSET (Errors \ {"closed", "changed", "limit"})
        /\ "incomplete" \in interrupted /\ "incomplete" \in broken
        /\ incomplete(CtxErr) \subseteq {"ctx", "incomplete"}
        /\ incomplete(CtxErr) # {} => "incomplete" \in incomplete(CtxErr)
    BY DEF incomplete, CtxErr, Errors
  <1> HIDE DEF here, remaining, left, interrupted, broken
  <1>4. ASSUME NEW n \in 1..most PROVE n \in Nat /\ n >= 1 /\ here.data + n <= size[here.before]
    <2>1. most \in Nat /\ most <= left
      <3>1. Chunk \in Nat /\ FileBytes + 1 \in Nat /\ remaining + 1 \in Nat
        BY <1>1, <1>2, ReaderAssumption
      <3> QED
        BY <1>2, <3>1, ReadBound
    <2> HIDE DEF most
    <2> QED
      BY <1>1, <1>2, <2>1
  <1> HIDE DEF most
  <1>5. ASSUME NEW n \in 1..most, n > remaining, Step(c, over) PROVE Moves(c)
    <2>1. here.data + n > FileBytes
      BY <1>1, <1>4, <1>5 DEF remaining
    <2>2. size[here.before] > FileBytes
      BY <1>1, <1>2, <1>4, <2>1
    <2>3. LimitError \cup incomplete(CtxErr) \in SUBSET Errors
      BY <1>3 DEF LimitError, Errors
    <2>4. /\ over \in CallType /\ over.pc = "close" /\ over.method = here.method /\ over.fds = here.fds
          /\ over.before = here.before /\ over.late = here.late /\ over.seen = here.seen
          /\ over.sizes = here.sizes /\ over.data = FileBytes
          /\ over.err = LimitError \cup incomplete(CtxErr)
      BY <1>1, <2>3 DEF CallType
    <2>5. over.err # {} /\ "incomplete" \in over.err /\ "closed" \notin over.err /\ "changed" \notin over.err
      BY <1>3, <2>4 DEF LimitError
    <2>6. \E t \in here.sizes : FileBytes <= t[here.before]
      BY <1>1, <1>2, <2>2
    <2>7. \E t \in here.sizes : t[here.before] > FileBytes
      BY <1>1, <2>2
    <2> HIDE DEF over
    <2>8. over.data <= FileBytes /\ \E t \in here.sizes : over.data <= t[here.before]
      BY <1>1, <2>4, <2>6
    <2>9. ~(over.err = {} /\ over.pc = "close") /\ over.pc \in {"poll", "read", "close"}
      BY <2>4, <2>5
    <2> QED
      BY <1>0, <1>5, <2>4, <2>5, <2>7, <2>8, <2>9, ReadsOn DEF here
  <1>6. ASSUME NEW n \in 1..most, ~(n > remaining), Step(c, on(n)) PROVE Moves(c)
    <2>1. here.data + n \in Nat /\ here.data + n <= FileBytes
      BY <1>1, <1>2, <1>4, <1>6 DEF remaining
    <2>2. /\ on(n) \in CallType /\ on(n).pc = "poll" /\ on(n).method = here.method /\ on(n).fds = here.fds
          /\ on(n).before = here.before /\ on(n).late = here.late /\ on(n).seen = here.seen
          /\ on(n).sizes = here.sizes /\ on(n).data = here.data + n /\ on(n).err = {}
      BY <1>1, <2>1 DEF CallType
    <2>3. \E t \in here.sizes : here.data + n <= t[here.before]
      BY <1>1, <1>4
    <2> HIDE DEF on
    <2> QED
      BY <1>0, <1>1, <1>6, <2>1, <2>2, <2>3, ReadsOn DEF here
  <1>7. ASSUME left = 0, Fail(c, incomplete(CtxErr)) PROVE Moves(c)
    <2>1. /\ ended \in CallType /\ ended.pc = "close" /\ ended.method = here.method /\ ended.fds = here.fds
          /\ ended.before = here.before /\ ended.late = here.late /\ ended.seen = here.seen
          /\ ended.sizes = here.sizes /\ ended.data = here.data /\ ended.err = incomplete(CtxErr)
      BY <1>1, <1>3 DEF CallType
    <2>2. Step(c, ended)
      BY <1>7 DEF Fail, here
    <2>3. \E s \in here.sizes : s[here.before] <= here.data
      BY <1>1, <1>2, <1>7
    <2> HIDE DEF ended
    <2> QED
      BY <1>0, <1>1, <1>3, <2>1, <2>2, <2>3, ReadsOn, ZenonT(60) DEF here
  <1>8. ASSUME Step(c, again) PROVE Moves(c)
    <2>1. /\ again \in CallType /\ again.pc = "poll" /\ again.method = here.method /\ again.fds = here.fds
          /\ again.before = here.before /\ again.late = here.late /\ again.seen = here.seen
          /\ again.sizes = here.sizes /\ again.data = here.data /\ again.err = {}
      <3>1. here.retries + 1 \in Nat
        BY <1>1
      <3>2. Retried(here) = [here EXCEPT !.retries = here.retries + 1]
        BY DEF Retried
      <3> QED
        BY <1>1, <3>1, <3>2 DEF CallType
    <2> HIDE DEF again
    <2> QED
      BY <1>0, <1>1, <1>8, <2>1, ReadsOn DEF here
  <1>9. ASSUME NEW err \in {interrupted, broken}, Fail(c, err) PROVE Moves(c)
    BY <1>0, <1>3, <1>9, OpenFailureMoves
  <1> QED
    BY <1>0, <1>5, <1>6, <1>7, <1>8, <1>9

(* The methods that read no file.                                          *)
LEMMA OthersMove ==
    ASSUME ReaderInv, NEW c \in Callers, op[c].pc \in {"names", "lookup", "query"}, op[c].method \notin Checked,
           Quiet, NoDescriptors, NEW r \in CallType, Step(c, r), r.pc \in {"names", "lookup", "close"},
           r.method = op[c].method, r.fds = op[c].fds, r.late = op[c].late, "closed" \notin r.err,
           r.pc # "close" => r.err = {}
    PROVE  Moves(c)
  <1>1. ASSUME op'[c] = r PROVE LateCall(c)'
    BY <1>1, OnOpenReader DEF LateCall, Quiet
  <1>2. ASSUME op'[c] = r PROVE CheckedCall(c)'
    BY <1>2 DEF CheckedCall
  <1> QED
    BY <1>1, <1>2, StepMoves

LEMMA OtherFailureMoves ==
    ASSUME ReaderInv, NEW c \in Callers, op[c].pc \in {"names", "lookup", "query"}, op[c].method \notin Checked,
           Quiet, NoDescriptors, NEW err \in SUBSET (Errors \ {"closed"}), Fail(c, err)
    PROVE  Moves(c)
  <1> DEFINE r == [op[c] EXCEPT !.err = err, !.pc = "close"]
  <1>1. op[c] \in CallType
    BY OnOpenReader
  <1>2. /\ r \in CallType /\ r.pc = "close" /\ r.method = op[c].method /\ r.fds = op[c].fds
        /\ r.late = op[c].late /\ r.err = err
    BY <1>1 DEF CallType
  <1>3. Step(c, r)
    BY DEF Fail
  <1> HIDE DEF r
  <1> QED
    BY <1>2, <1>3, OthersMove

LEMMA GetdentsMoves ==
    ASSUME ReaderInv, NEW c \in Callers, Getdents(c)
    PROVE  Moves(c)
  <1> DEFINE here == op[c]
             more(names) == [here EXCEPT !.returned = @ \cup names, !.chunk = names,
                                         !.retries = 0, !.pc = "lookup"]
             interrupted == incomplete({"EINTR"} \cup CtxErr)
             broken == incomplete({"EIO"} \cup CtxErr)
  <1>0. /\ op[c].pc = "names" /\ Quiet /\ NoDescriptors
        /\ \/ Fail(c, incomplete(CtxErr)) \/ Fail(c, interrupted) \/ Fail(c, broken)
           \/ Step(c, Retried(here))
           \/ \E names \in SUBSET (children \ here.returned) : Step(c, more(names))
    BY Zenon DEF Getdents
  <1>1. /\ here \in CallType /\ here.retries \in Nat /\ here.returned \in SUBSET Entries /\ here.err = {}
        /\ CheckedCall(c) /\ children \in SUBSET Entries
    BY <1>0, OnOpenReader, Fields DEF ReaderInv, TypeOK
  <1>2. here.method \notin Checked
    BY <1>0, <1>1 DEF CheckedCall
  <1>3. /\ incomplete(CtxErr) \in SUBSET (Errors \ {"closed"}) /\ interrupted \in SUBSET (Errors \ {"closed"})
        /\ broken \in SUBSET (Errors \ {"closed"})
    BY DEF incomplete, CtxErr, Errors
  <1>4. ASSUME NEW err \in SUBSET (Errors \ {"closed"}), Fail(c, err) PROVE Moves(c)
    BY <1>0, <1>2, <1>4, OtherFailureMoves
  <1>5. ASSUME Step(c, Retried(here)) PROVE Moves(c)
    <2> DEFINE again == Retried(here)
    <2>1. /\ again \in CallType /\ again.pc = "names" /\ again.method = here.method /\ again.fds = here.fds
          /\ again.late = here.late /\ again.err = {}
      <3>1. here.retries + 1 \in Nat
        BY <1>1
      <3>2. again = [here EXCEPT !.retries = here.retries + 1]
        BY DEF Retried
      <3> HIDE DEF again
      <3> QED
        BY <1>0, <1>1, <3>1, <3>2 DEF CallType
    <2> HIDE DEF again
    <2>2. Step(c, again)
      BY <1>5 DEF again
    <2> HIDE DEF here
    <2> QED
      BY <1>0, <1>2, <2>1, <2>2, OthersMove DEF here
  <1>6. ASSUME NEW names \in SUBSET (children \ here.returned), Step(c, more(names)) PROVE Moves(c)
    <2> DEFINE found == more(names)
    <2>1. /\ found \in CallType /\ found.pc = "lookup" /\ found.method = here.method /\ found.fds = here.fds
          /\ found.late = here.late /\ found.err = {}
      <3>1. here.returned \cup names \in SUBSET Entries /\ names \in SUBSET Entries
        BY <1>1
      <3> QED
        BY <1>1, <3>1 DEF CallType
    <2>2. Step(c, found)
      BY <1>6
    <2> HIDE DEF found
    <2> QED
      BY <1>0, <1>2, <2>1, <2>2, OthersMove
  <1> QED
    BY <1>0, <1>3, <1>4, <1>5, <1>6

LEMMA LookupMoves ==
    ASSUME ReaderInv, NEW c \in Callers, NEW name \in Entries, Lookup(c, name)
    PROVE  Moves(c)
  <1> DEFINE here == op[c]
             pc == IF here.chunk = {name} THEN "names" ELSE "lookup"
             on == [here EXCEPT !.chunk = @ \ {name}, !.pc = pc]
             kept == [on EXCEPT !.out = IF name \in children THEN @ \cup {name} ELSE @]
             discarded == [here EXCEPT !.out = {}, !.err = {"lookup"} \cup CtxErr, !.pc = "close"]
  <1>0. /\ op[c].pc = "lookup" /\ Quiet /\ NoDescriptors
        /\ \/ Fail(c, incomplete(CtxErr)) \/ Fail(c, LimitError)
           \/ Step(c, on) \/ Step(c, kept) \/ Step(c, discarded)
    BY Zenon DEF Lookup
  <1>1. /\ here \in CallType /\ here.chunk \in SUBSET Entries /\ here.out \in SUBSET Entries /\ here.err = {}
        /\ CheckedCall(c)
    BY <1>0, OnOpenReader, Fields
  <1>2. here.method \notin Checked
    BY <1>0, <1>1 DEF CheckedCall
  <1>3. /\ incomplete(CtxErr) \in SUBSET (Errors \ {"closed"}) /\ LimitError \in SUBSET (Errors \ {"closed"})
        /\ {"lookup"} \cup CtxErr \in SUBSET (Errors \ {"closed"})
    BY DEF incomplete, CtxErr, LimitError, Errors
  <1>4. ASSUME NEW err \in SUBSET (Errors \ {"closed"}), Fail(c, err) PROVE Moves(c)
    BY <1>0, <1>2, <1>4, OtherFailureMoves, SMTT(30)
  <1>5. /\ on \in CallType /\ on.pc \in {"names", "lookup"} /\ on.method = here.method /\ on.fds = here.fds
        /\ on.late = here.late /\ on.err = {} /\ on.out = here.out
    BY <1>1 DEF CallType
  <1>6. /\ kept \in CallType /\ kept.pc = on.pc /\ kept.method = on.method /\ kept.fds = on.fds
        /\ kept.late = on.late /\ kept.err = on.err
    <2> DEFINE out == IF name \in children THEN on.out \cup {name} ELSE on.out
    <2> HIDE DEF on, here
    <2>1. out \in SUBSET Entries /\ kept = [on EXCEPT !.out = out]
      BY <1>1, <1>5
    <2> HIDE DEF kept, out
    <2> QED
      BY <1>5, <2>1 DEF CallType
  <1>7. /\ discarded \in CallType /\ discarded.pc = "close" /\ discarded.method = here.method
        /\ discarded.fds = here.fds /\ discarded.late = here.late /\ discarded.err = {"lookup"} \cup CtxErr
    BY <1>1, <1>3 DEF CallType
  <1> HIDE DEF on, kept, discarded
  <1>8. ASSUME Step(c, on) PROVE Moves(c)
    BY <1>0, <1>2, <1>5, <1>8, OthersMove
  <1>9. ASSUME Step(c, kept) PROVE Moves(c)
    BY <1>0, <1>2, <1>5, <1>6, <1>9, OthersMove
  <1>10. ASSUME Step(c, discarded) PROVE Moves(c)
    BY <1>0, <1>2, <1>3, <1>7, <1>10, OthersMove
  <1> QED
    BY <1>0, <1>3, <1>4, <1>8, <1>9, <1>10

(* One query, on what is no checked file or on its capabilities.           *)
LEMMA QueryMoves ==
    ASSUME ReaderInv, NEW c \in Callers, Stat(c) \/ Readlink(c) \/ Access(c) \/ StatFS(c)
    PROVE  Moves(c)
  <1>0. /\ op[c].pc = "query" /\ op[c].method \notin Checked /\ Quiet /\ NoDescriptors
        /\ \/ Step(c, Measured(c)) \/ Fail(c, {"EACCES"}) \/ Fail(c, {"EIO"}) \/ Fail(c, {"EINVAL"})
    BY Zenon DEF Stat, Readlink, Access, StatFS, Querying, Answer, Checked
  <1>1. op[c] \in CallType /\ op[c].err = {}
    BY <1>0, OnOpenReader
  <1>2. ASSUME NEW err \in {{"EACCES"}, {"EIO"}, {"EINVAL"}}, Fail(c, err) PROVE Moves(c)
    <2>1. err \in SUBSET (Errors \ {"closed"})
      BY DEF Errors
    <2> QED
      BY <1>0, <1>2, <2>1, OtherFailureMoves
  <1>3. ASSUME Step(c, Measured(c)) PROVE Moves(c)
    <2> DEFINE r == Measured(c)
    <2>1. /\ r \in CallType /\ r.pc = "close" /\ r.method = op[c].method /\ r.fds = op[c].fds
          /\ r.late = op[c].late /\ r.err = {}
      BY <1>1 DEF CallType, Measured
    <2>2. Step(c, r)
      BY <1>3
    <2> HIDE DEF r
    <2> QED
      BY <1>0, <2>1, <2>2, OthersMove
  <1> QED
    BY <1>0, <1>2, <1>3

LEMMA FileCapabilitiesMoves ==
    ASSUME ReaderInv, NEW c \in Callers, FileCapabilities(c)
    PROVE  Moves(c)
  <1> DEFINE r == [Measured(c) EXCEPT !.err = incomplete(CtxErr)]
             here == [op[c] EXCEPT !.err = CtxErr, !.pc = "close"]
             range == {"ERANGE"} \cup LimitError \cup CtxErr
             broken == {"EIO"} \cup CtxErr
  <1>0. /\ op[c].pc = "query" /\ op[c].method = "FileCapabilities" /\ Quiet /\ NoDescriptors
        /\ Step(c, r) \/ Fail(c, CtxErr) \/ Fail(c, range) \/ Fail(c, broken)
    BY Zenon DEF FileCapabilities, Querying
  <1>1. /\ op[c] \in CallType /\ op[c].err = {} /\ op[c].late = FALSE /\ CheckedCall(c) /\ rootfd = 0
        /\ op[c].before \in Inodes \cup {None}
    BY <1>0, OnOpenReader, Fields
  <1>2. /\ op[c].method \in Checked /\ op[c].data = 0 /\ op[c].before # None
        /\ Present \subseteq op[c].seen /\ size \in op[c].sizes
        /\ \A i \in DOMAIN op[c].fds : table[op[c].fds[i]].to \in op[c].seen
        /\ op[c].before \in op[c].seen \cap Regulars
    <2>1. op[c].method \in Checked
      BY <1>0 DEF Checked
    <2> QED
      BY <1>0, <1>1, <2>1 DEF CheckedCall
  <1>3. /\ CtxErr \in {{}, {"ctx"}} /\ CtxErr \in SUBSET Errors /\ incomplete(CtxErr) \in SUBSET Errors
        /\ range \in SUBSET (Errors \ {"closed", "changed"}) /\ range # {}
        /\ broken \in SUBSET (Errors \ {"closed", "changed"}) /\ broken # {}
        /\ "closed" \notin incomplete(CtxErr) /\ "changed" \notin incomplete(CtxErr)
        /\ "limit" \notin incomplete(CtxErr)
        /\ incomplete(CtxErr) # {} => "incomplete" \in incomplete(CtxErr)
    BY DEF incomplete, CtxErr, LimitError, Errors
  <1>4. ASSUME NEW q \in CallType, Step(c, q), q.pc = "close", q.method = op[c].method, q.fds = op[c].fds,
               q.late = op[c].late, q.before = op[c].before, q.seen = op[c].seen, q.sizes = op[c].sizes,
               "closed" \notin q.err, "changed" \notin q.err,
               q.data \in {0, 1}, q.data = 1 /\ q.err # {} => "incomplete" \in q.err
        PROVE  Moves(c)
    <2>1. ASSUME op'[c] = q PROVE LateCall(c)'
      BY <1>0, <1>1, <1>4, <2>1 DEF LateCall, Quiet
    <2>2. ASSUME op'[c] = q PROVE CheckedCall(c)'
      BY <1>0, <1>2, <1>4, <2>2 DEF CheckedCall, Quiet, NoDescriptors, disk, Present
    <2> QED
      BY <1>0, <1>4, <2>1, <2>2, StepMoves
  <1>5. ASSUME NEW err \in {CtxErr, range, broken}, Fail(c, err) PROVE Moves(c)
    <2> DEFINE q == [op[c] EXCEPT !.err = err, !.pc = "close"]
    <2>1. err \in SUBSET Errors /\ "closed" \notin err /\ "changed" \notin err
      BY <1>3
    <2>2. /\ q \in CallType /\ q.pc = "close" /\ q.method = op[c].method /\ q.fds = op[c].fds
          /\ q.late = op[c].late /\ q.before = op[c].before /\ q.seen = op[c].seen /\ q.sizes = op[c].sizes
          /\ q.err = err /\ q.data = 0
      BY <1>1, <1>2, <2>1 DEF CallType
    <2>3. Step(c, q)
      BY <1>5 DEF Fail
    <2> HIDE DEF q
    <2> QED
      BY <1>4, <2>1, <2>2, <2>3
  <1>6. ASSUME Step(c, r) PROVE Moves(c)
    <2>1. /\ r \in CallType /\ r.pc = "close" /\ r.method = op[c].method /\ r.fds = op[c].fds
          /\ r.late = op[c].late /\ r.before = op[c].before /\ r.seen = op[c].seen /\ r.sizes = op[c].sizes
          /\ r.err = incomplete(CtxErr) /\ r.data = 1
      BY <1>1, <1>3 DEF CallType, Measured
    <2> HIDE DEF r
    <2> QED
      BY <1>3, <1>4, <1>6, <2>1
  <1> QED
    BY <1>0, <1>5, <1>6

(* The result: a denial is an answer of the access queries only.           *)
LEMMA ReturnMoves ==
    ASSUME ReaderInv, NEW c \in Callers, Return(c)
    PROVE  Moves(c)
  <1> DEFINE denied == op[c].method \in {"ExecutableAccess", "DirectoryAccess"} /\ "EACCES" \in op[c].err
             err == IF denied THEN {} ELSE op[c].err
             r == [op[c] EXCEPT !.pc = "done", !.err = err, !.fd = NoOp.fd, !.retries = 0,
                                !.returned = {}, !.chunk = {}]
  <1>0. op[c].pc = "close" /\ op[c].fds = <<>> /\ Quiet /\ NoDescriptors /\ Step(c, r)
    BY DEF Return
  <1>1. op[c] \in CallType /\ LateCall(c) /\ CheckedCall(c)
    BY <1>0, Running
  <1>2. err \in SUBSET Errors /\ (denied => op[c].method \notin Checked /\ ~op[c].late)
    BY <1>0, <1>1, Fields DEF Checked, LateCall
  <1>3. NoOp.fd = sentinelClosedRootFD
    BY Zenon DEF NoOp
  <1>4. /\ r \in CallType /\ r.pc = "done" /\ r.method = op[c].method /\ r.fds = op[c].fds
        /\ r.late = op[c].late /\ r.before = op[c].before /\ r.seen = op[c].seen /\ r.sizes = op[c].sizes
        /\ r.err = err /\ r.data = op[c].data
    <2>1. NoOp.fd \in Fds \cup {sentinelClosedRootFD} /\ {} \in SUBSET Entries /\ 0 \in Nat
      BY <1>3
    <2>2. err \in SUBSET Errors
      BY <1>2
    <2> HIDE DEF err
    <2> QED
      BY <1>1, <2>1, <2>2 DEF CallType
  <1>5. err = op[c].err \/ (err = {} /\ op[c].method \notin Checked /\ ~op[c].late)
    BY <1>2
  <1> HIDE DEF r, err
  <1>6. ASSUME op'[c] = r PROVE LateCall(c)'
    BY <1>0, <1>1, <1>4, <1>5, <1>6 DEF LateCall
  <1>7. ASSUME op'[c] = r PROVE CheckedCall(c)'
    BY <1>0, <1>1, <1>4, <1>5, <1>7 DEF CheckedCall, NoDescriptors
  <1> QED
    BY <1>0, <1>4, <1>6, <1>7, StepMoves

-----------------------------------------------------------------------------
(* The whole invariant, over the steps of the calls.                       *)

(* A call that does not go on is as it was: its own descriptors and the    *)
(* reader's have not changed.                                              *)
LEMMA CallKept ==
    ASSUME ReaderInv, mode = "os", NEW d \in Callers, op'[d] = op[d], disk' = disk,
           rootfd' = rootfd \/ op[d].pc \in {"idle", "done"},
           \A i \in DOMAIN op[d].fds : table'[op[d].fds[i]] = table[op[d].fds[i]]
    PROVE  FdsCall(d)' /\ LateCall(d)' /\ CheckedCall(d)'
  <1>1. op[d] \in CallType /\ FdsCall(d) /\ LateCall(d) /\ CheckedCall(d) /\ op[d].fds \in Seq(Fds)
    BY Fields DEF ReaderInv, TypeOK, FdsInv, LateInv, CheckedInv
  <1>2. FdsCall(d)'
    BY <1>1 DEF FdsCall
  <1>3. LateCall(d)'
    BY <1>1 DEF LateCall
  <1>4. Len(op[d].fds) = 2 => Target(d)' = Target(d)
    <2>1. Len(op[d].fds) = 2 => Len(op[d].fds) \in DOMAIN op[d].fds
      BY <1>1
    <2> QED
      BY <2>1 DEF Target, Last
  <1>5. Present' = Present /\ size' = size
    BY DEF disk, Present
  <1>6. CheckedCall(d)'
    <2>1. CASE op[d].method \notin Checked
      BY <1>1, <2>1 DEF CheckedCall
    <2>2. CASE op[d].method \in Checked
      <3>1. \A i \in DOMAIN op[d].fds : table'[op[d].fds[i]].to \in op[d].seen
        BY <1>1, <2>2 DEF CheckedCall
      <3>2. op[d].pc \in {"poll", "read", "query"} => Len(op[d].fds) = 2 /\ Target(d)' = op[d].before
        BY <1>1, <1>4, <2>2 DEF CheckedCall
      <3> QED
        BY <1>1, <1>5, <2>2, <3>1, <3>2 DEF CheckedCall
    <2> QED
      BY <2>1, <2>2
  <1> QED
    BY <1>2, <1>3, <1>6

LEMMA MovesKeeps ==
    ASSUME ReaderInv, NEW c \in Callers, Moves(c)
    PROVE  ReaderInv'
  <1>0. /\ mode = "os" /\ ~Closing /\ op' \in [Callers -> CallType] /\ (\A d \in Callers \ {c} : op'[d] = op[d])
        /\ op'[c].fds = op[c].fds /\ LateCall(c)' /\ CheckedCall(c)'
        /\ (op'[c].pc \in {"validate", "done"} => op'[c].fds = <<>>) /\ op'[c].pc # "idle"
        /\ mode' = mode /\ calls' = calls /\ rootfd' = rootfd /\ disk' = disk /\ closer' = closer
        /\ cancelled' = cancelled /\ table' = table /\ stray' = stray
    BY Zenon DEF Moves, Quiet, NoDescriptors
  <1>1. TypeOK'
    <2>1. op' = [d \in Callers |-> op'[d]]
      BY <1>0
    <2>2. at' = at /\ size' = size /\ children' = children
      BY <1>0 DEF disk
    <2> QED
      BY <1>0, <2>1, <2>2 DEF ReaderInv, TypeOK
  <1>2. MemoryInv'
    BY <1>0 DEF MemoryInv
  <1>3. RootInv'
    <2>1. ~Closing'
      BY <1>0 DEF Closing
    <2> QED
      BY <1>0, <2>1 DEF ReaderInv, RootInv
  <1>4. \A d \in Callers \ {c} : FdsCall(d)' /\ LateCall(d)' /\ CheckedCall(d)'
    BY <1>0, CallKept
  <1>5. FdsCall(c)'
    <2>1. FdsCall(c)
      BY <1>0 DEF ReaderInv, FdsInv
    <2> QED
      BY <1>0, <2>1 DEF FdsCall
  <1>6. FdsInv'
    <2>1. \A d \in Callers : op'[d].fds = op[d].fds
      BY <1>0
    <2>2. ASSUME NEW f \in Fds, table'[f].by \in Callers PROVE f \in Range(op'[table'[f].by].fds)
      BY <1>0, <2>1, <2>2 DEF ReaderInv, FdsInv
    <2> QED
      BY <1>0, <1>4, <1>5, <2>2 DEF FdsInv
  <1>7. LateInv' /\ CheckedInv'
    BY <1>0, <1>4, Zenon DEF LateInv, CheckedInv
  <1> QED
    BY <1>1, <1>2, <1>3, <1>6, <1>7 DEF ReaderInv

(* A call begins while no Close runs, on a reader that is open or is not.  *)
LEMMA BeginKeeps ==
    ASSUME ReaderInv, NEW c \in Callers, Begin(c)
    PROVE  ReaderInv'
  <1> DEFINE late == \E k \in Closers : closer[k].pc = "done"
             begun == [NoOp EXCEPT !.pc = "validate", !.method = calls[c], !.late = late]
             r == IF calls[c] \in Recorded
                  THEN [begun EXCEPT !.seen = Present, !.sizes = {size}, !.always = children, !.ever = children]
                  ELSE begun
  <1>0. mode = "os" /\ op[c].pc = "idle" /\ c \in DOMAIN calls /\ ~Closing /\ Step(c, r) /\ Quiet /\ NoDescriptors
    BY Zenon DEF Begin
  <1>1. calls[c] \in Methods /\ Present \in SUBSET Inodes /\ {size} \in SUBSET [Regulars -> Nat]
        /\ children \in SUBSET Entries /\ op \in [Callers -> CallType] /\ FdsCall(c)
    BY <1>0 DEF ReaderInv, TypeOK, Present, FdsInv
  <1>2. late \in BOOLEAN /\ (late <=> rootfd # 0)
    BY <1>0, Sentinel DEF ReaderInv, RootInv, Closing
  <1> HIDE DEF late
  <1>3. /\ begun \in CallType /\ begun.pc = "validate" /\ begun.method = calls[c] /\ begun.late = late
        /\ begun.fds = <<>> /\ begun.err = {} /\ begun.before = None /\ begun.data = 0
    <2>1. /\ NoOp \in CallType /\ NoOp.fds = <<>> /\ NoOp.err = {} /\ NoOp.before = None /\ NoOp.data = 0
      BY DEF NoOp, CallType
    <2>2. calls[c] \in Methods \cup {"none"}
      BY <1>1
    <2> QED
      BY <1>2, <2>1, <2>2 DEF CallType
  <1>4. /\ r \in CallType /\ r.pc = "validate" /\ r.method = calls[c] /\ r.late = late
        /\ r.fds = <<>> /\ r.err = {} /\ r.before = None /\ r.data = 0
        /\ calls[c] \in Checked => r.seen = Present /\ r.sizes = {size}
    <2>1. Checked \subseteq Recorded
      BY DEF Recorded
    <2> HIDE DEF begun
    <2>2. CASE calls[c] \in Recorded
      BY <1>1, <1>3, <2>2 DEF CallType
    <2>3. CASE calls[c] \notin Recorded
      BY <1>3, <2>1, <2>3
    <2> QED
      BY <2>2, <2>3
  <1> HIDE DEF r
  <1>5. op'[c] = r /\ op' \in [Callers -> CallType] /\ \A d \in Callers \ {c} : op'[d] = op[d]
    BY <1>0, <1>1, <1>4 DEF Step
  <1>6. LateCall(c)'
    BY <1>0, <1>2, <1>4, <1>5 DEF LateCall, Quiet
  <1>7. CheckedCall(c)'
    <2>1. 0 <= FileBytes /\ DOMAIN <<>> = {}
      BY ReaderAssumption
    <2> QED
      BY <1>0, <1>4, <1>5, <2>1 DEF CheckedCall, Quiet, disk, Present
  <1>8. op[c].fds = <<>>
    BY <1>0, <1>1 DEF FdsCall
  <1>9. Moves(c)
    BY <1>0, <1>4, <1>5, <1>6, <1>7, <1>8 DEF Moves
  <1> QED
    BY <1>9, MovesKeeps

(* What a descriptor more makes of a call's list of them.                  *)
LEMMA OneMore ==
    ASSUME NEW s \in Seq(Fds), NEW fd \in Fds
    PROVE  /\ Append(s, fd) \in Seq(Fds) /\ Len(Append(s, fd)) = Len(s) + 1
           /\ DOMAIN Append(s, fd) = DOMAIN s \cup {Len(s) + 1} /\ Len(s) + 1 \notin DOMAIN s
           /\ Append(s, fd)[Len(s) + 1] = fd /\ \A i \in DOMAIN s : Append(s, fd)[i] = s[i]
  <1>1. /\ Append(s, fd) \in Seq(Fds) /\ Len(Append(s, fd)) = Len(s) + 1
        /\ \A i \in 1..Len(s) : Append(s, fd)[i] = s[i]
        /\ Append(s, fd)[Len(s) + 1] = fd
    BY AppendProperties
  <1>2. DOMAIN s = 1..Len(s) /\ Len(s) \in Nat
    OBVIOUS
  <1>3. DOMAIN Append(s, fd) = 1..(Len(s) + 1)
    BY <1>1
  <1>4. \A n \in Nat : 1..(n + 1) = (1..n) \cup {n + 1} /\ n + 1 \notin 1..n
    OBVIOUS
  <1> QED
    BY <1>1, <1>2, <1>3, <1>4

(* ... and one fewer.                                                      *)
LEMMA OneFewer ==
    ASSUME NEW s \in Seq(Fds), s # <<>>
    PROVE  /\ Front(s) \in Seq(Fds) /\ Len(Front(s)) = Len(s) - 1 /\ Len(s) \in DOMAIN s
           /\ DOMAIN Front(s) = DOMAIN s \ {Len(s)} /\ \A i \in DOMAIN Front(s) : Front(s)[i] = s[i]
  <1>1. Len(s) \in Nat /\ Len(s) >= 1 /\ DOMAIN s = 1..Len(s)
    OBVIOUS
  <1>2. Front(s) = SubSeq(s, 1, Len(s) - 1)
    BY DEF Front
  <1>3. /\ Front(s) \in Seq(Fds) /\ Len(Front(s)) = Len(s) - 1
        /\ \A i \in 1..(Len(s) - 1) : Front(s)[i] = s[i]
    BY <1>1, <1>2
  <1>4. DOMAIN Front(s) = 1..(Len(s) - 1)
    BY <1>1, <1>3
  <1>5. \A n \in Nat \ {0} : 1..(n - 1) = (1..n) \ {n} /\ n \in 1..n
    OBVIOUS
  <1> QED
    BY <1>1, <1>3, <1>4, <1>5

(* The reader's own descriptor is there while the reader is open, and no   *)
(* descriptor of a call is the reader's or free.                           *)
LEMMA OwnDescriptors ==
    ASSUME ReaderInv, mode = "os"
    PROVE  /\ op \in [Callers -> CallType] /\ stray = FALSE
           /\ \A d \in Callers : op[d].fds \in Seq(Fds) /\ FdsCall(d)
           /\ \A d \in Callers : \A i \in DOMAIN op[d].fds :
                 op[d].fds[i] \in Fds /\ table[op[d].fds[i]].by = d
                 /\ table[op[d].fds[i]] # Unused /\ table[op[d].fds[i]].by \notin {"reader", "other"}
           /\ rootfd = 0 => table[0] = [by |-> "reader", to |-> "root"]
  <1>1. op \in [Callers -> CallType] /\ \A d \in Callers : FdsCall(d)
    BY DEF ReaderInv, TypeOK, FdsInv
  <1>2. \A d \in Callers : op[d].fds \in Seq(Fds)
    BY <1>1, Fields
  <1>3. \A d \in Callers : \A i \in DOMAIN op[d].fds : op[d].fds[i] \in Fds /\ table[op[d].fds[i]].by = d
    BY <1>1, <1>2 DEF FdsCall
  <1>4. Unused.by = "nobody"
    BY DEF Unused
  <1>5. stray = FALSE /\ (rootfd = 0 => table[0] = [by |-> "reader", to |-> "root"])
    BY DEF ReaderInv, RootInv
  <1> QED
    BY <1>1, <1>2, <1>3, <1>4, <1>5, ReaderAssumption

(* openat2 uses the reader's own descriptor, and gives the call a new one. *)
LEMMA OpenAtKeeps ==
    ASSUME ReaderInv, NEW c \in Callers, OpenAt(c)
    PROVE  ReaderInv'
  <1> DEFINE fd == Min(Free)
             pc == IF op[c].method \in Checked THEN "inspect"
                   ELSE IF op[c].method = "ReadDir" THEN "names" ELSE "query"
             r == [op[c] EXCEPT !.fds = Append(@, fd), !.pc = pc]
  <1>0. /\ op[c].pc = "openat" /\ Quiet
        /\ stray' = (stray \/ table[op[c].fd] # [by |-> "reader", to |-> "root"])
    BY Zenon DEF OpenAt
  <1>1. /\ ~op[c].late /\ rootfd = 0 /\ op[c].err = {} /\ mode = "os" /\ op[c] \in CallType
        /\ CheckedCall(c) /\ LateCall(c) /\ cancelled \in BOOLEAN /\ op \in [Callers -> CallType]
        /\ stray = FALSE /\ table[0] = [by |-> "reader", to |-> "root"] /\ op[c].fds \in Seq(Fds)
    BY <1>0, OnOpenReader, OwnDescriptors
  <1>2. stray' = FALSE
    <2>1. op[c].fd = 0
      BY <1>0, <1>1 DEF LateCall
    <2> QED
      BY <1>0, <1>1, <2>1
  <1>3. CASE UNCHANGED table
    <2>1. PICK err \in {Found(c)} \cup {{e} : e \in OpenErrors} \cup {{"EMFILE"}} : err # {} /\ Fail(c, err)
      <3>1. CASE \E err \in {Found(c)} \cup {{e} : e \in OpenErrors}
                               \cup (IF Free = {} THEN {{"EMFILE"}} ELSE {}) :
                    err # {} /\ Fail(c, err)
        BY <3>1
      <3>2. CASE Free # {} /\ table' = [table EXCEPT ![fd] = [by |-> c, to |-> at]]
        <4>1. fd \in Fds /\ table[fd].by = "nobody"
          BY <3>2, LowestIsFree DEF Unused
        <4>2. DOMAIN table = Fds
          BY DEF ReaderInv, TypeOK
        <4>3. table'[fd].by = c
          BY <3>2, <4>1, <4>2
        <4> QED
          BY <1>3, <4>1, <4>3, ReaderAssumption
      <3> QED
        BY <3>1, <3>2, Zenon DEF OpenAt
    <2>2. err \in SUBSET (Errors \ {"closed", "changed", "limit", "incomplete"})
      <3>1. Found(c) \in {{}, {"ENOENT"}, {"ENOTDIR"}}
        BY DEF Found
      <3>2. CASE err \in {{}, {"ENOENT"}, {"ENOTDIR"}, {"EMFILE"}}
        BY <3>2 DEF Errors
      <3>3. CASE \E e \in OpenErrors : err = {e}
        BY <3>3, ReaderAssumption DEF Errors
      <3> QED
        BY <2>1, <3>1, <3>2, <3>3
    <2>3. NoDescriptors
      BY <1>1, <1>2, <1>3 DEF NoDescriptors
    <2>4. op[c].method \in Checked => op[c].data = 0
      BY <1>0, <1>1 DEF CheckedCall
    <2>5. Moves(c)
      BY <1>0, <2>1, <2>2, <2>3, <2>4, OpenFailureMoves
    <2> QED
      BY <2>5, MovesKeeps
  <1>4. CASE Found(c) = {} /\ Free # {} /\ table' = [table EXCEPT ![fd] = [by |-> c, to |-> at]] /\ Step(c, r)
    <2>1. fd \in Fds /\ table[fd] = Unused
      BY <1>4, LowestIsFree
    <2>2. /\ table = [f \in Fds |-> [by |-> table[f].by, to |-> table[f].to]]
          /\ \A f \in Fds : table[f].by \in Callers \cup {"nobody", "reader", "other"}
      BY DEF ReaderInv, TypeOK
    <2> HIDE DEF fd
    <2>3. /\ table'[fd] = [by |-> c, to |-> at] /\ \A f \in Fds \ {fd} : table'[f] = table[f]
          /\ DOMAIN table' = Fds
      BY <1>4, <2>1, <2>2
    <2>4. /\ r \in CallType /\ r.pc = pc /\ r.fds = Append(op[c].fds, fd) /\ r.method = op[c].method
          /\ r.before = op[c].before /\ r.data = op[c].data /\ r.late = op[c].late /\ r.err = {}
          /\ r.seen = op[c].seen /\ r.sizes = op[c].sizes
      <3>1. Append(op[c].fds, fd) \in Seq(Fds)
        BY <1>1, <2>1, OneMore
      <3> QED
        BY <1>1, <3>1, ZenonT(60) DEF CallType
    <2>5. op'[c] = r /\ op' \in [Callers -> CallType] /\ \A d \in Callers \ {c} : op'[d] = op[d]
      BY <1>1, <1>4, <2>4 DEF Step
    <2>6. /\ Len(r.fds) = Len(op[c].fds) + 1 /\ DOMAIN r.fds = DOMAIN op[c].fds \cup {Len(op[c].fds) + 1}
          /\ r.fds[Len(op[c].fds) + 1] = fd /\ (\A i \in DOMAIN op[c].fds : r.fds[i] = op[c].fds[i])
          /\ Len(op[c].fds) + 1 \notin DOMAIN op[c].fds
      BY <1>1, <2>1, <2>4, OneMore
    <2>7. pc \in {"inspect", "names", "query"} /\ (pc = "inspect" <=> op[c].method \in Checked)
      OBVIOUS
    <2> HIDE DEF r, pc
    <2>8. \A d \in Callers : \A i \in DOMAIN op[d].fds : op[d].fds[i] \in Fds \ {fd} /\ table[op[d].fds[i]].by = d
      BY <1>1, <2>1, OwnDescriptors
    <2>9. /\ mode' = mode /\ calls' = calls /\ rootfd' = rootfd /\ disk' = disk /\ closer' = closer
          /\ cancelled' = cancelled /\ at' = at /\ size' = size /\ children' = children
      BY <1>0 DEF Quiet, disk
    <2>10. \A d \in Callers \ {c} : FdsCall(d)' /\ LateCall(d)' /\ CheckedCall(d)'
      BY <1>1, <2>3, <2>5, <2>8, <2>9, CallKept
    <2>11. TypeOK'
      <3>1. op' = [d \in Callers |-> op'[d]]
        BY <2>5
      <3>2. table' = [f \in Fds |-> [by |-> table'[f].by, to |-> table'[f].to]]
        <4>1. table' = [f \in Fds |-> table'[f]]
          BY <1>4, <2>2
        <4>2. \A f \in Fds : table'[f] = [by |-> table'[f].by, to |-> table'[f].to]
          BY <2>2, <2>3
        <4> QED
          BY <4>1, <4>2
      <3>3. \A f \in Fds : table'[f].by \in Callers \cup {"nobody", "reader", "other"}
        BY <2>2, <2>3
      <3> QED
        BY <2>5, <2>9, <3>1, <3>2, <3>3 DEF ReaderInv, TypeOK
    <2>12. RootInv'
      <3>1. fd # 0 /\ table'[0] = table[0]
        BY <1>1, <2>1, <2>3, Sentinel DEF Unused
      <3>2. ~Closing'
        BY <1>0, <2>9, Running DEF Closing
      <3>3. \A f \in Fds : table'[f].by = "reader" => table[f].by = "reader"
        BY <2>3, ReaderAssumption
      <3> QED
        BY <1>2, <2>9, <3>1, <3>2, <3>3 DEF ReaderInv, RootInv
    <2>13. FdsCall(c)'
      <3>1. FdsCall(c)
        BY <1>1, OwnDescriptors
      <3>2. \A i \in DOMAIN r.fds : table'[r.fds[i]].by = c
        BY <2>3, <2>6, <2>8
      <3>3. \A i, j \in DOMAIN r.fds : r.fds[i] = r.fds[j] => i = j
        BY <2>6, <2>8, <3>1 DEF FdsCall
      <3> QED
        BY <2>4, <2>5, <2>7, <3>2, <3>3 DEF FdsCall
    <2>14. LateCall(c)'
      BY <1>0, <1>1, <2>4, <2>5, <2>7, <2>9 DEF LateCall
    <2>15. CheckedCall(c)'
      <3>1. CASE op[c].method \notin Checked
        BY <2>4, <2>5, <2>7, <3>1 DEF CheckedCall
      <3>2. CASE op[c].method \in Checked
        <4>1. /\ Present \subseteq op[c].seen /\ size \in op[c].sizes /\ op[c].data = 0
              /\ \A i \in DOMAIN op[c].fds : table[op[c].fds[i]].to \in op[c].seen
              /\ op[c].before # None => op[c].before \in op[c].seen \cap Regulars
              /\ Len(op[c].fds) <= 1 /\ (Len(op[c].fds) = 1 => op[c].before # None)
              /\ Len(op[c].fds) \in Nat /\ 0 <= FileBytes
          BY <1>0, <1>1, <3>2, ReaderAssumption DEF CheckedCall
        <4>2. at \in op[c].seen
          <5>1. at # None
            BY <1>4 DEF Found
          <5> QED
            BY <4>1, <5>1 DEF Present
        <4>3. \A i \in DOMAIN r.fds : table'[r.fds[i]].to \in op[c].seen
          BY <2>3, <2>6, <2>8, <4>1, <4>2
        <4>4. Len(r.fds) \in {1, 2} /\ (Len(r.fds) = 2 => op[c].before # None)
          <5>1. \A n \in Nat : n <= 1 => n + 1 \in {1, 2} /\ (n + 1 = 2 => n = 1)
            OBVIOUS
          <5> QED
            BY <2>6, <4>1, <5>1
        <4>5. Present' = Present
          BY <2>9 DEF Present
        <4>6. r.pc = "inspect"
          BY <2>4, <2>7, <3>2
        <4>7. r.before # None => r.before \in r.seen \cap Regulars
          BY <2>4, <4>1
        <4>8. r.data = 0 /\ r.err = {}
          BY <2>4, <4>1
        <4>9. /\ Present' \subseteq r.seen /\ size' \in r.sizes /\ 0 <= FileBytes
              /\ \A i \in DOMAIN r.fds : table'[r.fds[i]].to \in r.seen
          BY <2>4, <2>9, <4>1, <4>3, <4>5
        <4>10. Len(r.fds) = 2 => r.before # None
          BY <2>4, <4>4
        <4>11. r.method \in Checked
          BY <2>4, <3>2
        <4> QED
          BY <2>5, <4>4, <4>11, <4>6, <4>7, <4>8, <4>9, <4>10 DEF CheckedCall
      <3> QED
        BY <3>1, <3>2
    <2>16. ASSUME NEW f \in Fds, table'[f].by \in Callers PROVE f \in Range(op'[table'[f].by].fds)
      <3>1. CASE f = fd
        BY <2>3, <2>5, <2>6, <3>1 DEF Range
      <3>2. CASE f # fd
        <4>1. f \in Range(op[table[f].by].fds) /\ table'[f] = table[f]
          BY <2>3, <2>16, <3>2 DEF ReaderInv, FdsInv
        <4>2. CASE table[f].by = c
          BY <2>5, <2>6, <4>1, <4>2 DEF Range
        <4>3. CASE table[f].by # c
          BY <2>5, <2>16, <4>1, <4>3
        <4> QED
          BY <4>2, <4>3
      <3> QED
        BY <3>1, <3>2
    <2>17. MemoryInv'
      BY <1>1, <2>9 DEF MemoryInv
    <2>18. FdsInv' /\ LateInv' /\ CheckedInv'
      BY <1>1, <2>9, <2>10, <2>13, <2>14, <2>15, <2>16 DEF FdsInv, LateInv, CheckedInv
    <2> QED
      BY <2>11, <2>12, <2>17, <2>18 DEF ReaderInv
  <1> QED
    BY <1>3, <1>4, Zenon DEF OpenAt

(* A deferred close gives back a descriptor of the call's own.             *)
LEMMA CloseFdKeeps ==
    ASSUME ReaderInv, NEW c \in Callers, CloseFd(c)
    PROVE  ReaderInv'
  <1> DEFINE fd == Last(op[c].fds)
             r == [op[c] EXCEPT !.fds = Front(@)]
  <1>0. /\ op[c].pc = "close" /\ op[c].fds # <<>> /\ Quiet /\ Step(c, r)
        /\ stray' = (stray \/ table[fd].by # c) /\ table' = [table EXCEPT ![fd] = Unused]
    BY Zenon DEF CloseFd
  <1>1. /\ mode = "os" /\ op[c] \in CallType /\ ~Closing /\ CheckedCall(c) /\ LateCall(c) /\ FdsCall(c)
        /\ op \in [Callers -> CallType] /\ stray = FALSE /\ op[c].fds \in Seq(Fds)
    BY <1>0, Running, OwnDescriptors
  <1>2. /\ Front(op[c].fds) \in Seq(Fds) /\ Len(op[c].fds) \in DOMAIN op[c].fds
        /\ DOMAIN Front(op[c].fds) = DOMAIN op[c].fds \ {Len(op[c].fds)}
        /\ \A i \in DOMAIN Front(op[c].fds) : Front(op[c].fds)[i] = op[c].fds[i]
        /\ fd = op[c].fds[Len(op[c].fds)]
    BY <1>0, <1>1, OneFewer DEF Last
  <1>3. fd \in Fds /\ table[fd].by = c
    BY <1>1, <1>2, OwnDescriptors
  <1> HIDE DEF fd
  <1>4. /\ table = [f \in Fds |-> [by |-> table[f].by, to |-> table[f].to]]
        /\ \A f \in Fds : table[f].by \in Callers \cup {"nobody", "reader", "other"}
    BY DEF ReaderInv, TypeOK
  <1>5. table'[fd] = Unused /\ (\A f \in Fds \ {fd} : table'[f] = table[f]) /\ DOMAIN table' = Fds
    BY <1>0, <1>3, <1>4
  <1>6. Unused = [by |-> "nobody", to |-> None] /\ Unused.by = "nobody"
    BY DEF Unused
  <1>7. /\ r \in CallType /\ r.pc = "close" /\ r.fds = Front(op[c].fds) /\ r.method = op[c].method
        /\ r.before = op[c].before /\ r.data = op[c].data /\ r.late = op[c].late /\ r.err = op[c].err
        /\ r.seen = op[c].seen /\ r.sizes = op[c].sizes
    BY <1>0, <1>1, <1>2 DEF CallType
  <1> HIDE DEF r
  <1>8. op'[c] = r /\ op' \in [Callers -> CallType] /\ \A d \in Callers \ {c} : op'[d] = op[d]
    BY <1>0, <1>1, <1>7 DEF Step
  <1>9. /\ mode' = mode /\ calls' = calls /\ rootfd' = rootfd /\ disk' = disk /\ closer' = closer
        /\ cancelled' = cancelled /\ at' = at /\ size' = size /\ children' = children
    BY <1>0 DEF Quiet, disk
  <1>10. \A d \in Callers \ {c} : FdsCall(d)' /\ LateCall(d)' /\ CheckedCall(d)'
    <2>1. \A d \in Callers \ {c} : \A i \in DOMAIN op[d].fds : op[d].fds[i] \in Fds \ {fd}
      BY <1>1, <1>3, OwnDescriptors
    <2> QED
      BY <1>1, <1>5, <1>8, <1>9, <2>1, CallKept
  <1>11. TypeOK'
    <2>1. op' = [d \in Callers |-> op'[d]]
      BY <1>8
    <2>2. table' = [f \in Fds |-> [by |-> table'[f].by, to |-> table'[f].to]]
      <3>1. table' = [f \in Fds |-> table'[f]]
        BY <1>0, <1>4
      <3>2. \A f \in Fds : table'[f] = [by |-> table'[f].by, to |-> table'[f].to]
        BY <1>4, <1>5, <1>6
      <3> QED
        BY <3>1, <3>2
    <2>3. \A f \in Fds : table'[f].by \in Callers \cup {"nobody", "reader", "other"}
      BY <1>4, <1>5, <1>6
    <2> QED
      BY <1>8, <1>9, <2>1, <2>2, <2>3 DEF ReaderInv, TypeOK
  <1>12. RootInv'
    <2>1. table[fd].by # "reader"
      BY <1>3, ReaderAssumption
    <2>2. \A f \in Fds : table'[f].by = "reader" <=> table[f].by = "reader"
      BY <1>5, <1>6, <2>1
    <2>3. table[0].by = "reader" => table'[0] = table[0]
      BY <1>5, <2>1, Sentinel
    <2>4. rootfd = 0 => table[0].by = "reader"
      BY DEF ReaderInv, RootInv
    <2>5. stray' = FALSE /\ ~Closing' /\ 0 \in Fds
      BY <1>0, <1>1, <1>3, <1>9, Sentinel DEF Closing
    <2> QED
      BY <1>9, <2>2, <2>3, <2>4, <2>5 DEF ReaderInv, RootInv
  <1>13. FdsCall(c)'
    <2>1. \A i \in DOMAIN r.fds : r.fds[i] = op[c].fds[i] /\ i \in DOMAIN op[c].fds /\ r.fds[i] # fd
      BY <1>1, <1>2, <1>7 DEF FdsCall
    <2>2. \A i \in DOMAIN r.fds : table'[r.fds[i]].by = c
      BY <1>1, <1>5, <2>1, OwnDescriptors
    <2>3. \A i, j \in DOMAIN r.fds : r.fds[i] = r.fds[j] => i = j
      BY <1>1, <2>1 DEF FdsCall
    <2> QED
      BY <1>7, <1>8, <2>2, <2>3 DEF FdsCall
  <1>14. LateCall(c)'
    BY <1>0, <1>1, <1>7, <1>8, <1>9 DEF LateCall
  <1>15. CheckedCall(c)'
    <2>1. \A i \in DOMAIN r.fds : table'[r.fds[i]] = table[op[c].fds[i]] /\ i \in DOMAIN op[c].fds
      <3>1. \A i \in DOMAIN r.fds : r.fds[i] = op[c].fds[i] /\ i \in DOMAIN op[c].fds /\ r.fds[i] # fd
        BY <1>1, <1>2, <1>7 DEF FdsCall
      <3> QED
        BY <1>1, <1>5, <3>1, OwnDescriptors
    <2>2. Present' = Present
      BY <1>9 DEF Present
    <2>3. CASE op[c].method \notin Checked
      BY <1>7, <1>8, <2>3 DEF CheckedCall
    <2>4. CASE op[c].method \in Checked
      <3>1. \A i \in DOMAIN r.fds : table'[r.fds[i]].to \in op[c].seen
        BY <1>1, <2>1, <2>4 DEF CheckedCall
      <3> QED
        BY <1>0, <1>1, <1>7, <1>8, <1>9, <2>2, <2>4, <3>1 DEF CheckedCall
    <2> QED
      BY <2>3, <2>4
  <1>16. ASSUME NEW f \in Fds, table'[f].by \in Callers PROVE f \in Range(op'[table'[f].by].fds)
    <2>1. f # fd /\ table'[f] = table[f]
      BY <1>5, <1>6, <1>16, ReaderAssumption
    <2>2. f \in Range(op[table[f].by].fds)
      BY <1>16, <2>1 DEF ReaderInv, FdsInv
    <2>3. CASE table[f].by = c
      <3>1. PICK i \in DOMAIN op[c].fds : f = op[c].fds[i]
        BY <2>2, <2>3 DEF Range
      <3>2. i # Len(op[c].fds)
        BY <1>2, <2>1, <3>1
      <3> QED
        BY <1>2, <1>7, <1>8, <2>1, <2>3, <3>1, <3>2 DEF Range
    <2>4. CASE table[f].by # c
      BY <1>8, <1>16, <2>1, <2>2, <2>4
    <2> QED
      BY <2>3, <2>4
  <1>17. MemoryInv'
    BY <1>1, <1>9 DEF MemoryInv
  <1>18. FdsInv' /\ LateInv' /\ CheckedInv'
    BY <1>1, <1>9, <1>10, <1>13, <1>14, <1>15, <1>16 DEF FdsInv, LateInv, CheckedInv
  <1> QED
    BY <1>11, <1>12, <1>17, <1>18 DEF ReaderInv

-----------------------------------------------------------------------------
(* ... and over the other steps.                                           *)

(* The calls are as they were when no descriptor of theirs changes.        *)
LEMMA CallsKept ==
    ASSUME ReaderInv, op' = op, disk' = disk, mode' = mode,
           rootfd' = rootfd \/ ~Reading,
           \A f \in Fds : table[f].by \in Callers \/ table'[f].by \in Callers => table'[f] = table[f]
    PROVE  FdsInv' /\ LateInv' /\ CheckedInv'
  <1>1. ASSUME mode = "os", NEW d \in Callers PROVE FdsCall(d)' /\ LateCall(d)' /\ CheckedCall(d)'
    <2>1. \A i \in DOMAIN op[d].fds : table'[op[d].fds[i]] = table[op[d].fds[i]]
      BY <1>1, OwnDescriptors
    <2>2. rootfd' = rootfd \/ op[d].pc \in {"idle", "done"}
      BY DEF Reading
    <2> QED
      BY <1>1, <2>1, <2>2, CallKept
  <1>2. ASSUME NEW f \in Fds, table'[f].by \in Callers PROVE mode' = "os" /\ f \in Range(op'[table'[f].by].fds)
    BY <1>2 DEF ReaderInv, FdsInv
  <1> QED
    BY <1>1, <1>2 DEF FdsInv, LateInv, CheckedInv

(* What a changed entry makes of the table's type.                         *)
LEMMA TableKept ==
    ASSUME ReaderInv, NEW f \in Fds, NEW by \in Callers \cup {"nobody", "reader", "other"}, NEW to,
           table' = [table EXCEPT ![f] = [by |-> by, to |-> to]]
    PROVE  /\ table' = [g \in Fds |-> [by |-> table'[g].by, to |-> table'[g].to]]
           /\ \A g \in Fds : table'[g].by \in Callers \cup {"nobody", "reader", "other"}
           /\ table'[f] = [by |-> by, to |-> to] /\ \A g \in Fds \ {f} : table'[g] = table[g]
  <1>1. /\ table = [g \in Fds |-> [by |-> table[g].by, to |-> table[g].to]]
        /\ \A g \in Fds : table[g].by \in Callers \cup {"nobody", "reader", "other"}
    BY DEF ReaderInv, TypeOK
  <1>2. table'[f] = [by |-> by, to |-> to] /\ (\A g \in Fds \ {f} : table'[g] = table[g])
    BY <1>1
  <1>3. table' = [g \in Fds |-> table'[g]]
    BY <1>1
  <1>4. \A g \in Fds : table'[g] = [by |-> table'[g].by, to |-> table'[g].to]
    BY <1>1, <1>2
  <1>5. \A g \in Fds : table'[g].by \in Callers \cup {"nobody", "reader", "other"}
    BY <1>1, <1>2
  <1> QED
    BY <1>2, <1>3, <1>4, <1>5

LEMMA CloseLoadKeeps ==
    ASSUME ReaderInv, NEW k \in Closers, CloseLoad(k)
    PROVE  ReaderInv'
  <1> DEFINE next == [pc |-> IF rootfd = sentinelClosedRootFD THEN "done" ELSE "swap", old |-> rootfd]
  <1>0. /\ mode = "os" /\ closer[k].pc \in {"idle", "again"} /\ (closer[k].pc = "idle" => ~Reading)
        /\ closer' = [closer EXCEPT ![k] = next]
        /\ mode' = mode /\ calls' = calls /\ rootfd' = rootfd /\ table' = table /\ disk' = disk /\ op' = op
        /\ cancelled' = cancelled /\ stray' = stray
        /\ at' = at /\ size' = size /\ children' = children
    BY DEF CloseLoad, disk
  <1>1. ~Reading
    BY <1>0 DEF ReaderInv, RootInv, Closing
  <1>2. rootfd \in {0, sentinelClosedRootFD} /\ closer \in [Closers -> [pc : {"idle", "swap", "again", "release", "done"},
                                                                        old : {0, sentinelClosedRootFD}]]
    BY DEF ReaderInv, TypeOK
  <1>3. /\ next.old = rootfd /\ (rootfd = sentinelClosedRootFD => next.pc = "done")
        /\ (rootfd # sentinelClosedRootFD => next.pc = "swap")
        /\ next \in [pc : {"idle", "swap", "again", "release", "done"}, old : {0, sentinelClosedRootFD}]
    BY <1>2
  <1> HIDE DEF next
  <1>4. closer'[k] = next /\ \A l \in Closers \ {k} : closer'[l] = closer[l]
    BY <1>0, <1>2
  <1>5. TypeOK'
    BY <1>0, <1>2, <1>3 DEF ReaderInv, TypeOK
  <1>6. MemoryInv'
    BY <1>0 DEF MemoryInv
  <1>7. RootInv'
    <2>1. ~Reading'
      BY <1>0, <1>1 DEF Reading
    <2>2. \A l \in Closers : closer'[l].pc = "release" <=> closer[l].pc = "release"
      BY <1>0, <1>2, <1>3, <1>4
    <2>3. \A l \in Closers : closer[l].pc \in {"release", "done"} => closer'[l].pc \in {"release", "done"}
      BY <1>0, <1>2, <1>3, <1>4
    <2>4. \A l \in Closers : closer'[l].pc \in {"swap", "release"} => closer'[l].old = 0
      BY <1>0, <1>2, <1>3, <1>4 DEF ReaderInv, RootInv
    <2>5. \A l \in Closers : closer'[l].pc \in {"release", "done"} => rootfd = sentinelClosedRootFD
      BY <1>0, <1>2, <1>3, <1>4 DEF ReaderInv, RootInv
    <2> QED
      BY <1>0, <2>1, <2>2, <2>3, <2>4, <2>5 DEF ReaderInv, RootInv
  <1>8. FdsInv' /\ LateInv' /\ CheckedInv'
    BY <1>0, CallsKept
  <1> QED
    BY <1>5, <1>6, <1>7, <1>8 DEF ReaderInv

(* One Close only swaps the number out.                                    *)
LEMMA CloseSwapKeeps ==
    ASSUME ReaderInv, NEW k \in Closers, CloseSwap(k)
    PROVE  ReaderInv'
  <1> DEFINE pcs == {"idle", "swap", "again", "release", "done"}
             closed == rootfd = closer[k].old
             pc == IF closed THEN "release" ELSE "again"
  <1>0. /\ closer[k].pc = "swap"
        /\ closer' = [closer EXCEPT ![k].pc = pc]
        /\ rootfd' = IF closed THEN sentinelClosedRootFD ELSE rootfd
        /\ mode' = mode /\ calls' = calls /\ table' = table /\ disk' = disk /\ op' = op
        /\ cancelled' = cancelled /\ stray' = stray
        /\ at' = at /\ size' = size /\ children' = children
    BY DEF CloseSwap, disk
  <1>1. ~Reading /\ closer[k].old = 0 /\ mode = "os"
    BY <1>0 DEF ReaderInv, RootInv, Closing, MemoryInv, TypeOK
  <1>2. /\ rootfd \in {0, sentinelClosedRootFD}
        /\ closer \in [Closers -> [pc : pcs, old : {0, sentinelClosedRootFD}]]
    BY DEF ReaderInv, TypeOK
  <1>3. /\ closer' \in [Closers -> [pc : pcs, old : {0, sentinelClosedRootFD}]]
        /\ closer'[k].pc = pc /\ closer'[k].old = 0 /\ \A l \in Closers \ {k} : closer'[l] = closer[l]
    BY <1>0, <1>1, <1>2
  <1>4. TypeOK'
    BY <1>0, <1>2, <1>3 DEF ReaderInv, TypeOK
  <1>5. MemoryInv'
    BY <1>0, <1>1 DEF MemoryInv
  <1>6. RootInv'
    <2>1. ~Reading'
      BY <1>0, <1>1 DEF Reading
    <2>2. CASE closed
      <3>1. rootfd = 0 /\ rootfd' = sentinelClosedRootFD /\ closer'[k].pc = "release"
        BY <1>0, <1>1, <1>3, <2>2
      <3>2. \A l \in Closers : closer[l].pc \notin {"release", "done"}
        BY <3>1, Sentinel DEF ReaderInv, RootInv
      <3>3. \A l \in Closers : closer'[l].pc \in {"release", "done"} => l = k
        BY <1>3, <3>2
      <3>4. table[0].by = "reader" /\ \A f \in Fds : table[f].by = "reader" => f = 0
        BY <3>1 DEF ReaderInv, RootInv
      <3>5. \A l \in Closers : closer'[l].pc \in {"swap", "release"} => closer'[l].old = 0
        BY <1>3 DEF ReaderInv, RootInv
      <3> QED
        BY <1>0, <2>1, <3>1, <3>3, <3>4, <3>5, Sentinel DEF ReaderInv, RootInv
    <2>3. CASE ~closed
      <3>1. rootfd' = rootfd /\ rootfd = sentinelClosedRootFD /\ closer'[k].pc = "again"
        BY <1>0, <1>1, <1>2, <1>3, <2>3
      <3>2. \A l \in Closers : closer'[l].pc \in {"release", "done"} <=> closer[l].pc \in {"release", "done"}
        BY <1>0, <1>3, <3>1
      <3>3. \A l \in Closers : closer'[l].pc = "release" <=> closer[l].pc = "release"
        BY <1>0, <1>3, <3>1
      <3>4. \A l \in Closers : closer'[l].pc \in {"swap", "release"} => closer'[l].old = 0
        BY <1>3 DEF ReaderInv, RootInv
      <3> QED
        BY <1>0, <2>1, <3>1, <3>2, <3>3, <3>4 DEF ReaderInv, RootInv
    <2> QED
      BY <2>2, <2>3
  <1>7. FdsInv' /\ LateInv' /\ CheckedInv'
    BY <1>0, <1>1, CallsKept
  <1> QED
    BY <1>4, <1>5, <1>6, <1>7 DEF ReaderInv

(* ... and it releases the reader's descriptor, once.                      *)
LEMMA CloseReleaseKeeps ==
    ASSUME ReaderInv, NEW k \in Closers, CloseRelease(k)
    PROVE  ReaderInv'
  <1> DEFINE pcs == {"idle", "swap", "again", "release", "done"}
  <1>0. /\ closer[k].pc = "release"
        /\ stray' = (stray \/ table[closer[k].old].by # "reader")
        /\ table' = [table EXCEPT ![closer[k].old] = Unused]
        /\ closer' = [closer EXCEPT ![k].pc = "done"]
        /\ rootfd' = rootfd /\ mode' = mode /\ calls' = calls /\ disk' = disk /\ op' = op
        /\ cancelled' = cancelled
        /\ at' = at /\ size' = size /\ children' = children
    BY DEF CloseRelease, disk
  <1>1. /\ ~Reading /\ closer[k].old = 0 /\ mode = "os" /\ stray = FALSE /\ table[0].by = "reader"
        /\ rootfd = sentinelClosedRootFD
    BY <1>0 DEF ReaderInv, RootInv, Closing, MemoryInv, TypeOK
  <1>2. closer \in [Closers -> [pc : pcs, old : {0, sentinelClosedRootFD}]]
    BY DEF ReaderInv, TypeOK
  <1>3. /\ closer' \in [Closers -> [pc : pcs, old : {0, sentinelClosedRootFD}]]
        /\ closer'[k].pc = "done" /\ closer'[k].old = 0 /\ \A l \in Closers \ {k} : closer'[l] = closer[l]
    BY <1>0, <1>1, <1>2
  <1>4. /\ table' = [g \in Fds |-> [by |-> table'[g].by, to |-> table'[g].to]]
        /\ \A g \in Fds : table'[g].by \in Callers \cup {"nobody", "reader", "other"}
        /\ table'[0].by = "nobody" /\ \A g \in Fds \ {0} : table'[g] = table[g]
    BY <1>0, <1>1, Sentinel, TableKept DEF Unused
  <1>5. TypeOK'
    BY <1>0, <1>3, <1>4 DEF ReaderInv, TypeOK
  <1>6. MemoryInv'
    BY <1>0, <1>1 DEF MemoryInv
  <1>7. RootInv'
    <2>1. ~Reading' /\ stray' = FALSE
      BY <1>0, <1>1 DEF Reading
    <2>2. \A l \in Closers : closer[l].pc = "release" => l = k
      BY <1>0 DEF ReaderInv, RootInv
    <2>3. \A l \in Closers : closer'[l].pc # "release"
      BY <1>3, <2>2
    <2>4. \A f \in Fds : table'[f].by # "reader"
      BY <1>4 DEF ReaderInv, RootInv
    <2>5. \A l \in Closers : closer'[l].pc \in {"swap", "release"} => closer'[l].old = 0
      BY <1>3 DEF ReaderInv, RootInv
    <2>6. \A l \in Closers : closer'[l].pc \in {"release", "done"} => closer[l].pc \in {"release", "done"}
      BY <1>0, <1>3
    <2> QED
      BY <1>0, <1>1, <1>3, <2>1, <2>3, <2>4, <2>5, <2>6, Sentinel DEF RootInv
  <1>8. FdsInv' /\ LateInv' /\ CheckedInv'
    <2>1. \A f \in Fds : table[f].by \in Callers \/ table'[f].by \in Callers => table'[f] = table[f]
      BY <1>1, <1>4, ReaderAssumption
    <2> QED
      BY <1>0, <1>1, <2>1, CallsKept
  <1> QED
    BY <1>5, <1>6, <1>7, <1>8 DEF ReaderInv

LEMMA MemReadKeeps ==
    ASSUME ReaderInv, NEW parts, NEW follow \in BOOLEAN, MemRead(parts, follow)
    PROVE  ReaderInv'
  <1> DEFINE one == CHOOSE c \in Callers : TRUE
  <1>0. /\ mode = "memory" /\ mode' = mode /\ calls' = calls /\ rootfd' = rootfd /\ table' = table
        /\ at' = at /\ size' = size /\ children' = children /\ closer' = closer
        /\ cancelled' = cancelled /\ stray' = stray
    BY DEF MemRead, disk
  <1>1. \E r : op' = [op EXCEPT ![one] = r] /\ r.pc = "done"
    <2> DEFINE r == [pc |-> "done", method |-> IF follow THEN "Stat" ELSE "Readlink", parts |-> parts,
                     walk |-> IF ValidateSubpath(parts) THEN Resolve(tree, Root, parts, follow)
                              ELSE Failed(Start(parts, Root), "subpath")]
    <2>1. op' = [op EXCEPT ![one] = r]
      BY Zenon DEF MemRead, Step
    <2>2. r.pc = "done"
      BY Zenon
    <2> QED
      BY <2>1, <2>2, Zenon
  <1> HIDE DEF one
  <1>2. PICK r : op' = [op EXCEPT ![one] = r] /\ r.pc = "done"
    BY <1>1
  <1>3. op = [c \in Callers |-> op[c]]
    BY DEF ReaderInv, TypeOK
  <1>4. op' = [c \in Callers |-> op'[c]] /\ \A c \in Callers : op'[c].pc \in {"idle", "done"}
    <2>1. \A c \in Callers : op[c].pc \in {"idle", "done"}
      BY <1>0 DEF ReaderInv, MemoryInv
    <2>2. op' = [c \in Callers |-> IF c = one THEN r ELSE op[c]]
      BY <1>2, <1>3, Zenon
    <2> QED
      BY <1>2, <2>1, <2>2
  <1>5. TypeOK'
    BY <1>0, <1>4 DEF ReaderInv, TypeOK
  <1>6. MemoryInv'
    BY <1>0, <1>4 DEF ReaderInv, MemoryInv
  <1>7. RootInv'
    <2>1. ~Closing'
      BY <1>0 DEF ReaderInv, MemoryInv, Closing
    <2> QED
      BY <1>0, <2>1 DEF ReaderInv, RootInv
  <1>8. FdsInv' /\ LateInv' /\ CheckedInv'
    <2>1. \A f \in Fds : table[f].by \in {"nobody", "reader"}
      BY <1>0 DEF ReaderInv, MemoryInv
    <2>2. \A f \in Fds : table'[f].by \notin Callers
      BY <1>0, <2>1, ReaderAssumption
    <2> QED
      BY <1>0, <2>2 DEF FdsInv, LateInv, CheckedInv
  <1> QED
    BY <1>5, <1>6, <1>7, <1>8 DEF ReaderInv

(* What a change leaves of a call, which has seen one more state.          *)
LEMMA SeesMore ==
    ASSUME ReaderInv, mode = "os", NEW c \in Callers, UNCHANGED <<rootfd, table>>, op'[c] \in CallType,
           /\ op'[c].pc = op[c].pc /\ op'[c].method = op[c].method /\ op'[c].fd = op[c].fd
           /\ op'[c].fds = op[c].fds /\ op'[c].before = op[c].before /\ op'[c].data = op[c].data
           /\ op'[c].err = op[c].err /\ op'[c].late = op[c].late,
           op[c].method \in Checked =>
             /\ op[c].seen \subseteq op'[c].seen /\ op[c].sizes \subseteq op'[c].sizes
             /\ op[c].pc \notin {"idle", "done"} => Present' \subseteq op'[c].seen /\ size' \in op'[c].sizes
    PROVE  FdsCall(c)' /\ LateCall(c)' /\ CheckedCall(c)'
  <1>1. op[c] \in CallType /\ FdsCall(c) /\ LateCall(c) /\ CheckedCall(c)
    BY DEF ReaderInv, TypeOK, FdsInv, LateInv, CheckedInv
  <1>2. FdsCall(c)' /\ LateCall(c)'
    BY <1>1 DEF FdsCall, LateCall
  <1>3. Target(c)' = Target(c)
    BY DEF Target
  <1>4. CheckedCall(c)'
    <2>1. CASE op[c].method \notin Checked
      BY <1>1, <2>1 DEF CheckedCall
    <2>2. CASE op[c].method \in Checked
      <3>1. \A i \in DOMAIN op'[c].fds : table'[op'[c].fds[i]].to \in op'[c].seen
        BY <1>1, <2>2 DEF CheckedCall
      <3>2. op'[c].pc \in {"poll", "read"} => \E t \in op'[c].sizes : op'[c].data <= t[op'[c].before]
        BY <1>1, <2>2 DEF CheckedCall
      <3>3. "changed" \in op'[c].err => \E i \in op'[c].seen : i # op'[c].before
        BY <1>1, <2>2 DEF CheckedCall
      <3>4. op'[c].method = "ReadFile" =>
             /\ op'[c].data <= FileBytes
             /\ op'[c].pc \in {"close", "done"} /\ op'[c].err = {} =>
                  \E s, t \in op'[c].sizes : s[op'[c].before] <= op'[c].data /\ op'[c].data <= t[op'[c].before]
             /\ "limit" \in op'[c].err => op'[c].data = FileBytes /\ \E s \in op'[c].sizes : s[op'[c].before] > FileBytes
        BY <1>1, <2>2 DEF CheckedCall
      <3>5. op'[c].before # None => op'[c].before \in op'[c].seen \cap Regulars
        BY <1>1, <2>2 DEF CheckedCall
      <3> QED
        BY <1>1, <1>3, <2>2, <3>1, <3>2, <3>3, <3>4, <3>5 DEF CheckedCall
    <2> QED
      BY <2>1, <2>2
  <1> QED
    BY <1>2, <1>4

(* The file tree changes under the calls.                                  *)
LEMMA ChangeKeeps ==
    ASSUME ReaderInv, Change
    PROVE  ReaderInv'
  <1> DEFINE looks(c) == op[c].pc \notin {"idle", "done"} /\ op[c].method \in Recorded
             next(c) == [op[c] EXCEPT !.seen = @ \cup Present', !.sizes = @ \cup {size'},
                                      !.always = @ \cap children', !.ever = @ \cup children']
  <1>0. /\ mode = "os"
        /\ op' = [c \in Callers |-> IF ~looks(c) THEN op[c] ELSE next(c)]
        /\ mode' = mode /\ calls' = calls /\ rootfd' = rootfd /\ table' = table /\ closer' = closer
        /\ cancelled' = cancelled /\ stray' = stray
    <2>1. \A c \in Callers : ~looks(c) <=> op[c].pc \in {"idle", "done"} \/ op[c].method \notin Recorded
      OBVIOUS
    <2>2. op' = [c \in Callers |-> IF ~looks(c) THEN op[c] ELSE next(c)]
      BY <2>1 DEF Change
    <2> QED
      BY <2>2, Zenon DEF Change
  <1>1. /\ at \in Inodes \cup {None} /\ size \in [Regulars -> Nat] /\ children \in SUBSET Entries
        /\ op \in [Callers -> CallType]
    BY <1>0 DEF ReaderInv, TypeOK
  <1>2. at' \in Inodes \cup {None} /\ size' \in [Regulars -> Nat] /\ children' \in SUBSET Entries
    <2>1. \A n \in 0..(FileBytes + 1) : n \in Nat
      BY ReaderAssumption
    <2>2. \/ at' \in Replacements /\ UNCHANGED <<size, children>>
          \/ \E i \in Regulars, n \in Nat : size' = [size EXCEPT ![i] = n] /\ UNCHANGED <<at, children>>
          \/ \E n \in Entries : /\ children' = IF n \in children THEN children \ {n} ELSE children \cup {n}
                                /\ UNCHANGED <<at, size>>
      BY <2>1 DEF Change
    <2> QED
      BY <1>1, <2>2, ReaderAssumption
  <1>3. Present' \in SUBSET Inodes
    BY <1>2 DEF Present
  <1>4. ASSUME NEW c \in Callers, looks(c)
        PROVE  /\ next(c) \in CallType
               /\ next(c).pc = op[c].pc /\ next(c).method = op[c].method /\ next(c).fd = op[c].fd
               /\ next(c).fds = op[c].fds /\ next(c).before = op[c].before /\ next(c).data = op[c].data
               /\ next(c).err = op[c].err /\ next(c).late = op[c].late
               /\ next(c).seen = op[c].seen \cup Present' /\ next(c).sizes = op[c].sizes \cup {size'}
    <2>1. op[c] \in CallType
      BY <1>1
    <2>2. /\ op[c].seen \cup Present' \in SUBSET Inodes /\ op[c].sizes \cup {size'} \in SUBSET [Regulars -> Nat]
          /\ op[c].always \cap children' \in SUBSET Entries /\ op[c].ever \cup children' \in SUBSET Entries
      BY <1>2, <1>3, <2>1, Fields
    <2> QED
      BY <2>1, <2>2 DEF CallType
  <1> HIDE DEF next
  <1>5. Checked \subseteq Recorded
    BY DEF Recorded
  <1>6. \A c \in Callers : op'[c] = IF ~looks(c) THEN op[c] ELSE next(c)
    BY <1>0
  <1>7. ASSUME NEW c \in Callers
        PROVE  /\ op'[c] \in CallType
               /\ op'[c].pc = op[c].pc /\ op'[c].method = op[c].method /\ op'[c].fd = op[c].fd
               /\ op'[c].fds = op[c].fds /\ op'[c].before = op[c].before /\ op'[c].data = op[c].data
               /\ op'[c].err = op[c].err /\ op'[c].late = op[c].late
               /\ op[c].method \in Checked =>
                     /\ op[c].seen \subseteq op'[c].seen /\ op[c].sizes \subseteq op'[c].sizes
                     /\ op[c].pc \notin {"idle", "done"} => Present' \subseteq op'[c].seen /\ size' \in op'[c].sizes
    <2>1. CASE looks(c)
      BY <1>4, <1>6, <2>1
    <2>2. CASE ~looks(c)
      BY <1>1, <1>5, <1>6, <2>2
    <2> QED
      BY <2>1, <2>2
  <1>8. \A c \in Callers : FdsCall(c)' /\ LateCall(c)' /\ CheckedCall(c)'
    BY <1>0, <1>7, SeesMore
  <1>9. TypeOK'
    <2>1. op' \in [Callers -> CallType] /\ op' = [c \in Callers |-> op'[c]]
      BY <1>0, <1>7
    <2> QED
      BY <1>0, <1>2, <2>1 DEF ReaderInv, TypeOK
  <1>10. MemoryInv'
    BY <1>0 DEF MemoryInv
  <1>11. RootInv'
    <2>1. Reading' => Reading
      BY <1>7 DEF Reading
    <2>2. Closing' => Closing
      BY <1>0 DEF Closing
    <2> QED
      BY <1>0, <2>1, <2>2 DEF ReaderInv, RootInv
  <1>12. ASSUME NEW f \in Fds, table'[f].by \in Callers PROVE f \in Range(op'[table'[f].by].fds)
    BY <1>0, <1>7, <1>12 DEF ReaderInv, FdsInv
  <1>13. FdsInv' /\ LateInv' /\ CheckedInv'
    BY <1>0, <1>8, <1>12 DEF FdsInv, LateInv, CheckedInv
  <1> QED
    BY <1>9, <1>10, <1>11, <1>13 DEF ReaderInv

(* What goes on in the rest of the process does not touch the calls.       *)
LEMMA AroundKeeps ==
    ASSUME ReaderInv,
           mode' = mode, calls' = calls, rootfd' = rootfd, disk' = disk, op' = op, closer' = closer, stray' = stray,
           cancelled' \in BOOLEAN,
           \/ table' = table
           \/ /\ mode = "os"
              /\ \E f \in Fds :
                    /\ table[f].by \in {"nobody", "other"}
                    /\ \E by \in {"nobody", "other"} : \E to : table' = [table EXCEPT ![f] = [by |-> by, to |-> to]]
    PROVE  ReaderInv'
  <1>1. /\ table' = [g \in Fds |-> [by |-> table'[g].by, to |-> table'[g].to]]
        /\ \A g \in Fds : /\ table'[g].by \in Callers \cup {"nobody", "reader", "other"}
                          /\ \/ table'[g] = table[g]
                             \/ table[g].by \in {"nobody", "other"} /\ table'[g].by \in {"nobody", "other"}
    <2>1. CASE table' = table
      BY <2>1 DEF ReaderInv, TypeOK
    <2>2. ASSUME NEW f \in Fds, table[f].by \in {"nobody", "other"}, NEW by \in {"nobody", "other"}, NEW to,
                 table' = [table EXCEPT ![f] = [by |-> by, to |-> to]]
          PROVE  <1>1
      BY <2>2, TableKept
    <2> QED
      BY <2>1, <2>2
  <1>2. TypeOK'
    BY <1>1 DEF ReaderInv, TypeOK, disk
  <1>3. MemoryInv'
    <2>1. mode = "memory" => table' = table
      OBVIOUS
    <2> QED
      BY <2>1 DEF ReaderInv, MemoryInv
  <1>4. RootInv'
    <2>1. Reading' = Reading /\ Closing' = Closing
      BY DEF Reading, Closing
    <2>2. \A g \in Fds : table'[g].by = "reader" <=> table[g].by = "reader"
      BY <1>1
    <2>3. table[0].by = "reader" => table'[0] = table[0]
      BY <1>1, Sentinel
    <2>4. [by |-> "reader", to |-> "root"].by = "reader"
      OBVIOUS
    <2> QED
      BY <2>1, <2>2, <2>3, <2>4, Sentinel DEF ReaderInv, RootInv
  <1>5. FdsInv' /\ LateInv' /\ CheckedInv'
    <2>1. \A f \in Fds : table[f].by \in Callers \/ table'[f].by \in Callers => table'[f] = table[f]
      BY <1>1, ReaderAssumption
    <2> QED
      BY <2>1, CallsKept
  <1> QED
    BY <1>2, <1>3, <1>4, <1>5 DEF ReaderInv

LEMMA ForeignKeeps ==
    ASSUME ReaderInv, Cancel \/ ForeignOpen \/ ForeignClose \/ UNCHANGED vars
    PROVE  ReaderInv'
  <1>1. cancelled \in BOOLEAN
    BY DEF ReaderInv, TypeOK
  <1>2. CASE Cancel
    BY <1>2, AroundKeeps DEF Cancel
  <1>3. CASE UNCHANGED vars
    BY <1>1, <1>3, AroundKeeps DEF vars
  <1>4. CASE ForeignOpen
    <2>1. Min(Free) \in Fds /\ table[Min(Free)].by = "nobody"
      BY <1>4, LowestIsFree DEF ForeignOpen, Unused
    <2>2. table' = [table EXCEPT ![Min(Free)] = [by |-> "other", to |-> None]]
      BY <1>4 DEF ForeignOpen
    <2>3. \E f \in Fds : /\ table[f].by \in {"nobody", "other"}
                         /\ \E by \in {"nobody", "other"} : \E to : table' = [table EXCEPT ![f] = [by |-> by, to |-> to]]
      BY <2>1, <2>2
    <2> QED
      BY <1>1, <1>4, <2>3, AroundKeeps DEF ForeignOpen
  <1>5. CASE ForeignClose
    <2>1. \E f \in Fds : /\ table[f].by \in {"nobody", "other"}
                         /\ \E by \in {"nobody", "other"} : \E to : table' = [table EXCEPT ![f] = [by |-> by, to |-> to]]
      BY <1>5 DEF ForeignClose, Unused
    <2>2. mode = "os"
      BY <1>5 DEF ForeignClose, ReaderInv, TypeOK, MemoryInv
    <2> QED
      BY <1>1, <1>5, <2>1, <2>2, AroundKeeps DEF ForeignClose
  <1> QED
    BY <1>2, <1>3, <1>4, <1>5

-----------------------------------------------------------------------------
(* At first no call runs, and the reader has the one descriptor.           *)
LEMMA InitialReader == Init => ReaderInv
  <1> SUFFICES ASSUME Init PROVE ReaderInv
    OBVIOUS
  <1>1. PICK s \in Scenarios : at = s.at /\ size = s.size /\ children = s.children /\ calls = s.calls
    <2>1. Scenarios # {} => (CHOOSE s \in Scenarios : TRUE) \in Scenarios
      BY Zenon
    <2> QED
      BY <2>1, ScenariosAssumption DEF Init
  <1>2. /\ at \in Inodes \cup {None} /\ size \in [Regulars -> Nat] /\ children \in SUBSET Entries
        /\ \A c \in DOMAIN calls : c \in Callers => calls[c] \in Methods
    BY <1>1, ScenariosAssumption
  <1>3. /\ NoOp \in CallType /\ NoOp.fds = <<>> /\ NoOp.err = {} /\ NoOp.pc = "idle" /\ NoOp.method = "none"
        /\ NoOp.late = FALSE
    BY DEF NoOp, CallType
  <1>4. op = [c \in Callers |-> NoOp]
    BY DEF Init
  <1>5. /\ table = [f \in Fds |-> IF f = 0 THEN [by |-> "reader", to |-> "root"] ELSE [by |-> "nobody", to |-> None]]
        /\ rootfd = 0 /\ closer = [k \in Closers |-> [pc |-> "idle", old |-> sentinelClosedRootFD]]
        /\ mode \in {"os", "memory"} /\ cancelled = FALSE /\ stray = FALSE
    BY DEF Init, Unused
  <1> HIDE DEF NoOp
  <1>6. TypeOK
    BY <1>2, <1>3, <1>4, <1>5 DEF TypeOK
  <1>7. MemoryInv
    BY <1>3, <1>4, <1>5 DEF MemoryInv
  <1>8. RootInv
    BY <1>3, <1>4, <1>5, Sentinel DEF RootInv, Reading
  <1>9. FdsInv
    BY <1>3, <1>4, <1>5, ReaderAssumption DEF FdsInv, FdsCall
  <1>10. LateInv /\ CheckedInv
    BY <1>3, <1>4 DEF LateInv, LateCall, CheckedInv, CheckedCall, Checked
  <1> QED
    BY <1>6, <1>7, <1>8, <1>9, <1>10 DEF ReaderInv

(* The methods of one caller, step by step.                                *)
LEMMA MethodKeeps ==
    ASSUME ReaderInv, NEW c \in Callers, Method(c)
    PROVE  ReaderInv'
  <1>1. CASE Begin(c)
    BY <1>1, BeginKeeps
  <1>2. CASE OpenAt(c)
    BY <1>2, OpenAtKeeps
  <1>3. CASE CloseFd(c)
    BY <1>3, CloseFdKeeps
  <1>4. ASSUME Moves(c) PROVE ReaderInv'
    BY <1>4, MovesKeeps
  <1>5. ASSUME NEW valid \in BOOLEAN, Validate(c, valid) PROVE ReaderInv'
    BY <1>4, <1>5, ValidateMoves
  <1>6. CASE LoadRoot(c) \/ Inspect(c) \/ Poll(c) \/ Read(c)
    BY <1>4, <1>6, LoadRootMoves, InspectMoves, PollMoves, ReadMoves
  <1>7. CASE Getdents(c) \/ Return(c) \/ FileCapabilities(c)
    BY <1>4, <1>7, GetdentsMoves, ReturnMoves, FileCapabilitiesMoves
  <1>8. CASE Stat(c) \/ Readlink(c) \/ Access(c) \/ StatFS(c)
    BY <1>4, <1>8, QueryMoves
  <1>9. ASSUME NEW n \in Entries, Lookup(c, n) PROVE ReaderInv'
    BY <1>4, <1>9, LookupMoves
  <1> QED
    BY <1>1, <1>2, <1>3, <1>5, <1>6, <1>7, <1>8, <1>9 DEF Method

LEMMA NextKeeps ==
    ASSUME ReaderInv, [Next]_vars
    PROVE  ReaderInv'
  <1>1. ASSUME NEW k \in Closers, Close(k) PROVE ReaderInv'
    BY <1>1, CloseLoadKeeps, CloseSwapKeeps, CloseReleaseKeeps DEF Close
  <1> QED
    BY <1>1, MethodKeeps, MemReadKeeps, ChangeKeeps, ForeignKeeps DEF Next

(* The inductive invariant.                                                *)
THEOREM ReaderInvariant == Spec => []ReaderInv
  <1>1. ReaderInv /\ [Next]_vars => ReaderInv'
    BY NextKeeps
  <1> QED
    BY InitialReader, <1>1, PTL DEF Spec

(* However reads and Closes overlap, and whatever the rest of the process  *)
(* opens and closes, each descriptor is used and closed by its owner only, *)
(* none is leaked, and a reader once closed stays so (ScopedOSReader.Close *)
(* and readSubpath).                                                       *)
THEOREM DescriptorsHaveOneOwner == Spec => []DescriptorsAreOwned
  <1>1. ReaderInv => DescriptorsAreOwned
    <2> SUFFICES ASSUME ReaderInv PROVE DescriptorsAreOwned
      OBVIOUS
    <2>1. rootfd # sentinelClosedRootFD => table[rootfd] = [by |-> "reader", to |-> "root"]
      BY DEF ReaderInv, TypeOK, RootInv
    <2>2. ASSUME NEW f \in Fds, table[f].by = "reader"
          PROVE  f = rootfd \/ \E k \in Closers : closer[k].pc = "release" /\ closer[k].old = f
      BY <2>2 DEF ReaderInv, RootInv
    <2>3. Owned
      BY <2>1, <2>2 DEF ReaderInv, RootInv, FdsInv, Owned
    <2>4. ASSUME mode = "os", NEW c \in Callers, op[c].pc = "done"
          PROVE  /\ "closed" \in op[c].err => op[c].late
                 /\ op[c].late => "closed" \in op[c].err \/ (op[c].method = "StatFS" /\ op[c].err = {"ctx"})
      BY <2>4 DEF ReaderInv, LateInv, LateCall
    <2>5. ClosedForGood
      BY <2>4 DEF ClosedForGood, ReaderInv, RootInv
    <2> QED
      BY <2>3, <2>5 DEF DescriptorsAreOwned
  <1> QED
    BY ReaderInvariant, <1>1, PTL

(* Whatever happens to the file between the check, the open and the reads, *)
(* ReadFile and FileCapabilities tell what they read of which file         *)
(* (checkedRegular, readBounded).                                          *)
THEOREM ReadsTellWhatTheyRead == Spec => []ReadsAreFaithful
  <1>1. ReaderInv => ReadsAreFaithful
    <2> SUFFICES ASSUME ReaderInv, mode = "os", NEW c \in Callers, op[c].pc = "done", op[c].method \in Checked
                 PROVE  LET r == op[c] IN
                        /\ r.data > 0 \/ r.err = {} => r.before \in r.seen \cap Regulars
                        /\ r.data > 0 /\ r.err # {} => "incomplete" \in r.err
                        /\ "changed" \in r.err => r.seen # {r.before}
                        /\ r.method = "ReadFile" =>
                             /\ r.data <= FileBytes
                             /\ r.err = {} => \E s, t \in r.sizes : s[r.before] <= r.data /\ r.data <= t[r.before]
                             /\ "limit" \in r.err => r.data = FileBytes /\ \E s \in r.sizes : s[r.before] > FileBytes
      BY DEF ReadsAreFaithful, Done
    <2>1. CheckedCall(c)
      BY DEF ReaderInv, CheckedInv
    <2>2. "changed" \in op[c].err => op[c].seen # {op[c].before}
      BY <2>1 DEF CheckedCall
    <2> QED
      BY <2>1, <2>2 DEF CheckedCall
  <1> QED
    BY ReaderInvariant, <1>1, PTL

-----------------------------------------------------------------------------
(* What the limits of captureDirectory count.                              *)

(* The bytes of names: those of a name more come on top.                   *)
LEMMA BytesAddUp ==
    /\ Bytes({}) = 0
    /\ \A names \in SUBSET Entries : Bytes(names) \in Nat
    /\ \A names \in SUBSET Entries : \A n \in Entries \ names :
          Bytes(names \cup {n}) = NameBytes[n] + Bytes(names)
    /\ \A names \in SUBSET Entries : \A fewer \in SUBSET names : Bytes(fewer) <= Bytes(names)
  <1>1. IsFiniteSet(Entries) /\ NameBytes \in [Entries -> Nat]
    BY ReaderAssumption
  <1>2. PICK total : SumsUp(NameBytes, Entries, total)
    BY <1>1, SumExists
  <1>3. ASSUME NEW names \in SUBSET Entries
        PROVE  Bytes(names) = total[names]
    <2> DEFINE iter == CHOOSE sum : sum = [s \in SUBSET names |-> IF s = {} THEN 0
                                                 ELSE NameBytes[Chosen(s)] + sum[s \ {Chosen(s)}]]
    <2>1. Bytes(names) = iter[names]
      BY Zenon DEF Bytes, FoldSet, MapThenFoldSet, Chosen
    <2>2. \E sum : sum = [s \in SUBSET names |-> IF s = {} THEN 0
                                                 ELSE NameBytes[Chosen(s)] + sum[s \ {Chosen(s)}]]
      <3> DEFINE weight == [n \in names |-> NameBytes[n]]
      <3>1. IsFiniteSet(names) /\ weight \in [names -> Nat]
        BY <1>1, FS_Subset
      <3>2. PICK sum : SumsUp(weight, names, sum)
        BY <3>1, SumExists
      <3>3. \A s \in SUBSET names : s # {} => weight[Chosen(s)] = NameBytes[Chosen(s)]
        <4>1. \A s \in SUBSET names : s # {} => Chosen(s) \in names
          BY DEF Chosen
        <4> QED
          BY <4>1
      <3> HIDE DEF weight
      <3>4. sum = [s \in SUBSET names |-> IF s = {} THEN 0 ELSE weight[Chosen(s)] + sum[s \ {Chosen(s)}]]
        BY <3>2 DEF SumsUp, AddsUp
      <3>5. sum = [s \in SUBSET names |-> IF s = {} THEN 0 ELSE NameBytes[Chosen(s)] + sum[s \ {Chosen(s)}]]
        BY <3>3, <3>4
      <3> QED
        BY <3>5
    <2>3. iter = [s \in SUBSET names |-> IF s = {} THEN 0 ELSE NameBytes[Chosen(s)] + iter[s \ {Chosen(s)}]]
      BY <2>2
    <2> HIDE DEF iter
    <2>4. AddsUp(NameBytes, names, iter)
      BY <2>3, Zenon DEF AddsUp
    <2>5. iter[names] = total[names]
      BY <1>1, <1>2, <2>4, SumIsOne
    <2> QED
      BY <2>1, <2>5
  <1>4. ASSUME NEW names \in SUBSET Entries, NEW n \in Entries \ names
        PROVE  Bytes(names \cup {n}) = NameBytes[n] + Bytes(names)
    <2>1. names \cup {n} \in SUBSET Entries /\ n \in names \cup {n} /\ (names \cup {n}) \ {n} = names
      OBVIOUS
    <2>2. total[names \cup {n}] = NameBytes[n] + total[(names \cup {n}) \ {n}]
      BY <1>1, <1>2, <2>1, SumByOne
    <2> QED
      BY <1>3, <2>1, <2>2
  <1>5. ASSUME NEW names \in SUBSET Entries, NEW fewer \in SUBSET names
        PROVE  Bytes(fewer) <= Bytes(names)
    <2>1. total[fewer] <= total[names]
      BY <1>1, <1>2, SumGrows
    <2> QED
      BY <1>3, <2>1
  <1>6. total[{}] = 0 /\ \A names \in SUBSET Entries : total[names] \in Nat
    BY <1>1, <1>2, SumByOne DEF SumsUp
  <1> QED
    BY <1>3, <1>4, <1>5, <1>6

(* ... and so with their number.                                           *)
LEMMA NumbersAddUp ==
    /\ Cardinality({}) = 0
    /\ \A names \in SUBSET Entries : Cardinality(names) \in Nat
    /\ \A names \in SUBSET Entries : \A n \in Entries \ names :
          Cardinality(names \cup {n}) = Cardinality(names) + 1
    /\ \A names \in SUBSET Entries : \A fewer \in SUBSET names : Cardinality(fewer) <= Cardinality(names)
  BY ReaderAssumption, FS_Subset, FS_CardinalityType, FS_EmptySet, FS_AddElement

(* A directory that has one name more than the limits let through.         *)
LEMMA OverTheLimit ==
    ASSUME NEW met \in SUBSET Entries, NEW n \in Entries \ met, NEW names \in SUBSET Entries,
           met \cup {n} \subseteq names,
           Cardinality(met) = EntryLimit \/ NameBytes[n] > NameLimit - Bytes(met)
    PROVE  Cardinality(names) > EntryLimit \/ Bytes(names) > NameLimit
  <1>1. /\ Cardinality(met) \in Nat /\ Cardinality(names) \in Nat
        /\ Cardinality(met \cup {n}) = Cardinality(met) + 1 /\ Cardinality(met \cup {n}) <= Cardinality(names)
    BY NumbersAddUp
  <1>2. /\ Bytes(met) \in Nat /\ Bytes(names) \in Nat
        /\ Bytes(met \cup {n}) = NameBytes[n] + Bytes(met) /\ Bytes(met \cup {n}) <= Bytes(names)
    BY BytesAddUp
  <1>3. NameBytes[n] \in Nat /\ EntryLimit \in Nat /\ NameLimit \in Nat
    BY ReaderAssumption
  <1> QED
    BY <1>1, <1>2, <1>3

(* A directory they let one name more through of.                          *)
LEMMA WithinTheLimit ==
    ASSUME NEW met \in SUBSET Entries, NEW n \in Entries \ met,
           Cardinality(met) <= EntryLimit, Cardinality(met) # EntryLimit,
           ~(NameBytes[n] > NameLimit - Bytes(met))
    PROVE  Cardinality(met \cup {n}) <= EntryLimit /\ Bytes(met \cup {n}) <= NameLimit
  <1>1. Cardinality(met) \in Nat /\ Cardinality(met \cup {n}) = Cardinality(met) + 1
    BY NumbersAddUp
  <1>2. Bytes(met) \in Nat /\ Bytes(met \cup {n}) = NameBytes[n] + Bytes(met)
    BY BytesAddUp
  <1>3. NameBytes[n] \in Nat /\ EntryLimit \in Nat /\ NameLimit \in Nat
    BY ReaderAssumption
  <1> QED
    BY <1>1, <1>2, <1>3

-----------------------------------------------------------------------------
(* A listing, step by step.                                                *)

(* A call that does not go on is as it was, while the directory is.        *)
LEMMA ListingKept ==
    ASSUME NEW d \in Callers, ListedCall(d), op'[d] = op[d], children' = children
    PROVE  ListedCall(d)'
  BY DEF ListedCall

(* What ListedCall says of a call that has met names, or none yet.         *)
LEMMA Listing ==
    ASSUME ReaderInv, NEW c \in Callers, ListedCall(c), op[c].pc \notin {"idle", "close", "done"},
           op[c].method = "ReadDir"
    PROVE  LET met == Met(op[c])
               names == op[c].ever \ Dots
           IN  /\ mode = "os" /\ op[c] \in CallType /\ op \in [Callers -> CallType]
               /\ op[c].always \subseteq children /\ children \subseteq op[c].ever
               /\ op[c].chunk \subseteq op[c].returned /\ op[c].returned \subseteq op[c].ever
               /\ met \subseteq names /\ names \in SUBSET Entries /\ met \in SUBSET Entries
               /\ op[c].out \subseteq met /\ op[c].always \cap met \subseteq op[c].out
               /\ Cardinality(met) <= EntryLimit /\ Bytes(met) <= NameLimit
               /\ op[c].pc # "lookup" => op[c].chunk = {}
               /\ op[c].pc \notin {"names", "lookup"} => op[c].out = {} /\ op[c].returned = {}
  <1> DEFINE met == Met(op[c])
             names == op[c].ever \ Dots
  <1>1. mode = "os" /\ op[c] \in CallType /\ op \in [Callers -> CallType]
    BY Running
  <1>2. /\ op[c].ever \in SUBSET Entries /\ op[c].returned \in SUBSET Entries
        /\ op[c].pc \in {"validate", "load", "openat", "inspect", "poll", "read", "names", "lookup", "query"}
    BY <1>1 DEF CallType
  <1>3. op[c].always \subseteq children /\ children \subseteq op[c].ever
    BY DEF ListedCall
  <1>4. CASE op[c].pc \in {"names", "lookup"}
    BY <1>1, <1>2, <1>3, <1>4 DEF ListedCall, Met
  <1>5. CASE op[c].pc \in {"validate", "load", "openat"}
    <2>1. op[c].returned = {} /\ op[c].chunk = {} /\ op[c].out = {}
      BY <1>5 DEF ListedCall
    <2>2. Met(op[c]) = {}
      BY <2>1 DEF Met
    <2>3. Cardinality(Met(op[c])) <= EntryLimit /\ Bytes(Met(op[c])) <= NameLimit
      BY <2>2, NumbersAddUp, BytesAddUp, ReaderAssumption
    <2> QED
      BY <1>1, <1>2, <1>3, <1>5, <2>1, <2>2, <2>3
  <1> QED
    BY <1>2, <1>4, <1>5 DEF ListedCall

(* A listing that stops keeps what it has met and tells why: at its end,   *)
(* with an error, or at a limit the directory exceeds.                     *)
LEMMA FailureLists ==
    ASSUME ReaderInv, NEW c \in Callers, op[c].pc \notin {"idle", "done", "close"}, ListedCall(c),
           children' = children, NEW err, Fail(c, err),
           op[c].method = "ReadDir" =>
              /\ err = {} => op[c].pc = "names" /\ op[c].always \subseteq op[c].returned
              /\ err # {} => "incomplete" \in err \/ op[c].pc \in {"validate", "load", "openat"}
              /\ "limit" \in err => \/ Cardinality(op[c].ever \ Dots) > EntryLimit
                                    \/ Bytes(op[c].ever \ Dots) > NameLimit
    PROVE  ListedCall(c)'
  <1> DEFINE r == [op[c] EXCEPT !.err = err, !.pc = "close"]
  <1>0. mode = "os" /\ op[c] \in CallType /\ op \in [Callers -> CallType]
    BY Running
  <1>1. /\ r.err = err /\ r.pc = "close" /\ r.method = op[c].method /\ r.out = op[c].out
        /\ r.always = op[c].always /\ r.ever = op[c].ever
    BY <1>0 DEF CallType
  <1>2. op'[c] = r
    BY <1>0 DEF Fail, Step
  <1> HIDE DEF r
  <1>3. CASE op[c].method # "ReadDir"
    BY <1>1, <1>2, <1>3 DEF ListedCall
  <1>4. CASE op[c].method = "ReadDir"
    <2> DEFINE met == Met(op[c])
               names == op[c].ever \ Dots
    <2>1. /\ op[c].always \subseteq children /\ children \subseteq op[c].ever
          /\ met \subseteq names /\ met \in SUBSET Entries
          /\ op[c].out \subseteq met /\ op[c].always \cap met \subseteq op[c].out
          /\ Cardinality(met) <= EntryLimit /\ Bytes(met) <= NameLimit
          /\ op[c].pc # "lookup" => op[c].chunk = {}
          /\ op[c].pc \notin {"names", "lookup"} => op[c].out = {}
      BY <1>4, Listing
    <2>2. Cardinality(op[c].out) <= EntryLimit /\ Bytes(op[c].out) <= NameLimit
      <3>1. /\ Cardinality(op[c].out) \in Nat /\ Cardinality(met) \in Nat /\ Cardinality(op[c].out) <= Cardinality(met)
            /\ Bytes(op[c].out) \in Nat /\ Bytes(met) \in Nat /\ Bytes(op[c].out) <= Bytes(met)
        BY <2>1, NumbersAddUp, BytesAddUp
      <3> QED
        BY <2>1, <3>1, ReaderAssumption
    <2>3. err = {} => op[c].always \ Dots \subseteq op[c].out
      BY <1>4, <2>1 DEF Met
    <2> HIDE DEF met
    <2>4. ListingIsFaithful(r)
      BY <1>1, <1>4, <2>1, <2>2, <2>3 DEF ListingIsFaithful
    <2> QED
      BY <1>1, <1>2, <1>4, <2>1, <2>4 DEF ListedCall
  <1> QED
    BY <1>3, <1>4

(* What goes on with the same names met stays so.                          *)
LEMMA GoesOnListing ==
    ASSUME ReaderInv, NEW c \in Callers, op[c].pc \notin {"idle", "done", "close"}, ListedCall(c),
           children' = children, NEW r, Step(c, r), r.pc \in {"load", "openat", "names"},
           r.pc \in {"load", "openat"} => op[c].pc \in {"validate", "load"},
           r.pc = "names" => op[c].pc \in {"openat", "names"} /\ r.method = "ReadDir",
           r.method = op[c].method, r.returned = op[c].returned, r.chunk = op[c].chunk, r.out = op[c].out,
           r.always = op[c].always, r.ever = op[c].ever
    PROVE  ListedCall(c)'
  <1>0. op'[c] = r
    BY Running DEF Step
  <1>1. CASE r.method # "ReadDir"
    BY <1>0, <1>1 DEF ListedCall
  <1>2. CASE r.method = "ReadDir"
    <2>1. Met(r) = Met(op[c])
      BY DEF Met
    <2> QED
      BY <1>0, <1>2, <2>1, Listing DEF ListedCall
  <1> QED
    BY <1>1, <1>2

(* Up to the open nothing has been met.                                    *)
LEMMA OpeningLists ==
    ASSUME ReaderInv, NEW c \in Callers, ListedCall(c),
           Begin(c) \/ (\E valid \in BOOLEAN : Validate(c, valid)) \/ LoadRoot(c) \/ OpenAt(c)
    PROVE  ListedCall(c)'
  <1>1. CASE Begin(c)
    <2> DEFINE begun == [NoOp EXCEPT !.pc = "validate", !.method = calls[c],
                                     !.late = \E k \in Closers : closer[k].pc = "done"]
               r == IF calls[c] \in Recorded
                    THEN [begun EXCEPT !.seen = Present, !.sizes = {size}, !.always = children, !.ever = children]
                    ELSE begun
    <2>1. Step(c, r) /\ mode = "os" /\ children' = children
      BY <1>1, Zenon DEF Begin, Quiet, disk
    <2>2. /\ begun.pc = "validate" /\ begun.method = calls[c] /\ begun.returned = {} /\ begun.chunk = {}
          /\ begun.out = {} /\ begun = [begun EXCEPT !.pc = "validate"]
          /\ r.pc = "validate" /\ r.method = calls[c] /\ r.returned = {} /\ r.chunk = {} /\ r.out = {}
          /\ calls[c] \in Recorded => r.always = children /\ r.ever = children
      BY DEF NoOp
    <2> HIDE DEF r
    <2>3. op'[c] = r
      BY <2>1 DEF Step, ReaderInv, TypeOK
    <2>4. "ReadDir" \in Recorded
      BY DEF Recorded
    <2> QED
      BY <2>1, <2>2, <2>3, <2>4 DEF ListedCall
  <1>2. ASSUME NEW valid \in BOOLEAN, Validate(c, valid) PROVE ListedCall(c)'
    <2> DEFINE on == [op[c] EXCEPT !.pc = "load"]
    <2>1. /\ op[c].pc = "validate" /\ children' = children
          /\ Step(c, on) \/ \E err \in {{"closed"}, {"subpath"}, {"ctx"}} : Fail(c, err)
      BY <1>2 DEF Validate, Quiet, disk, CtxErr
    <2>2. op[c] \in CallType
      BY <2>1, Running
    <2>3. CASE Step(c, on)
      <3>1. /\ on.pc = "load" /\ on.method = op[c].method /\ on.returned = op[c].returned
            /\ on.chunk = op[c].chunk /\ on.out = op[c].out /\ on.always = op[c].always /\ on.ever = op[c].ever
        BY <2>2 DEF CallType
      <3> HIDE DEF on
      <3> QED
        BY <2>1, <2>3, <3>1, GoesOnListing
    <2>4. ASSUME NEW err \in {{"closed"}, {"subpath"}, {"ctx"}}, Fail(c, err) PROVE ListedCall(c)'
      BY <2>1, <2>4, FailureLists
    <2> QED
      BY <2>1, <2>3, <2>4
  <1>3. CASE LoadRoot(c)
    <2> DEFINE on == [op[c] EXCEPT !.pc = "openat", !.fd = rootfd]
    <2>1. op[c].pc = "load" /\ children' = children /\ (Step(c, on) \/ Fail(c, {"closed"}))
      BY <1>3 DEF LoadRoot, Quiet, disk
    <2>2. op[c] \in CallType
      BY <2>1, Running
    <2>3. CASE Step(c, on)
      <3>1. /\ on.pc = "openat" /\ on.method = op[c].method /\ on.returned = op[c].returned
            /\ on.chunk = op[c].chunk /\ on.out = op[c].out /\ on.always = op[c].always /\ on.ever = op[c].ever
        BY <2>2 DEF CallType
      <3> HIDE DEF on
      <3> QED
        BY <2>1, <2>3, <3>1, GoesOnListing
    <2>4. CASE Fail(c, {"closed"})
      BY <2>1, <2>4, FailureLists
    <2> QED
      BY <2>1, <2>3, <2>4
  <1>4. CASE OpenAt(c)
    <2> DEFINE pc == IF op[c].method \in Checked THEN "inspect"
                     ELSE IF op[c].method = "ReadDir" THEN "names" ELSE "query"
               on(fds) == [op[c] EXCEPT !.fds = fds, !.pc = pc]
    <2>1. /\ op[c].pc = "openat" /\ children' = children
          /\ \/ Step(c, [op[c] EXCEPT !.fds = Append(@, Min(Free)), !.pc = pc])
             \/ \E err \in {Found(c)} \cup {{e} : e \in OpenErrors} \cup (IF Free = {} THEN {{"EMFILE"}} ELSE {}) :
                   err # {} /\ Fail(c, err)
      BY <1>4, Zenon DEF OpenAt, Quiet, disk
    <2>2. op[c] \in CallType
      BY <2>1, Running
    <2>3. ASSUME NEW fds, Step(c, on(fds)) PROVE ListedCall(c)'
      <3> DEFINE r == on(fds)
      <3>1. /\ r.pc = pc /\ r.method = op[c].method /\ r.returned = op[c].returned
            /\ r.chunk = op[c].chunk /\ r.out = op[c].out /\ r.always = op[c].always /\ r.ever = op[c].ever
        BY <2>2 DEF CallType
      <3>2. Step(c, r)
        BY <2>3
      <3> HIDE DEF r
      <3>3. CASE op[c].method = "ReadDir"
        <4>1. r.pc = "names"
          BY <3>1, <3>3 DEF Checked
        <4> QED
          BY <2>1, <3>1, <3>2, <3>3, <4>1, GoesOnListing
      <3>4. CASE op[c].method # "ReadDir"
        <4>1. op'[c] = r /\ r.pc \in {"inspect", "query"}
          BY <2>1, <3>1, <3>2, <3>4, Running DEF Step
        <4> QED
          BY <3>1, <3>4, <4>1 DEF ListedCall
      <3> QED
        BY <3>3, <3>4
    <2>4. ASSUME NEW err, err # {}, Fail(c, err), "limit" \notin err PROVE ListedCall(c)'
      BY <2>1, <2>4, FailureLists
    <2>5. ASSUME NEW err \in {Found(c)} \cup {{e} : e \in OpenErrors} \cup (IF Free = {} THEN {{"EMFILE"}} ELSE {})
          PROVE  "limit" \notin err
      BY <2>5, ReaderAssumption DEF Found
    <2> QED
      BY <2>1, <2>3, <2>4, <2>5
  <1> QED
    BY <1>1, <1>2, <1>3, <1>4

(* The calls of the other methods do not list.                             *)
LEMMA OthersListNothing ==
    ASSUME ReaderInv, NEW c \in Callers, ListedCall(c),
           \/ Inspect(c) \/ Poll(c) \/ Read(c) \/ FileCapabilities(c)
           \/ Stat(c) \/ Readlink(c) \/ Access(c) \/ StatFS(c)
    PROVE  ListedCall(c)'
  <1>1. op[c].pc \in {"inspect", "poll", "read", "query"}
    BY DEF Inspect, Poll, Read, FileCapabilities, Stat, Readlink, Access, StatFS, Querying
  <1>2. op[c] \in CallType /\ op \in [Callers -> CallType] /\ op[c].method # "ReadDir"
    BY <1>1, Running DEF ListedCall
  <1>3. ASSUME NEW r, Step(c, r), r.method = op[c].method, r.pc \notin {"names", "lookup"}
        PROVE  ListedCall(c)'
    BY <1>2, <1>3 DEF Step, ListedCall
  <1>4. ASSUME NEW err, Fail(c, err) PROVE ListedCall(c)'
    BY <1>2, <1>3, <1>4 DEF Fail, CallType
  <1>5. CASE Inspect(c)
    BY <1>2, <1>3, <1>4, <1>5 DEF Inspect, CallType
  <1>6. CASE Poll(c)
    BY <1>2, <1>3, <1>4, <1>6 DEF Poll, CallType
  <1>7. CASE Read(c)
    <2> DEFINE full == [op[c] EXCEPT !.data = FileBytes, !.pc = "close", !.err = LimitError \cup incomplete(CtxErr)]
               more(n) == [op[c] EXCEPT !.data = @ + n, !.retries = 0, !.pc = "poll"]
               again == [Retried(op[c]) EXCEPT !.pc = "poll"]
    <2>1. \/ Step(c, full) \/ (\E n : Step(c, more(n))) \/ Step(c, again) \/ \E err : Fail(c, err)
      BY <1>7, Zenon DEF Read
    <2>2. /\ full.method = op[c].method /\ full.pc = "close" /\ again.method = op[c].method /\ again.pc = "poll"
          /\ \A n : more(n).method = op[c].method /\ more(n).pc = "poll"
      BY <1>2 DEF CallType, Retried
    <2> HIDE DEF full, more, again
    <2> QED
      BY <1>3, <1>4, <2>1, <2>2
  <1>8. CASE FileCapabilities(c)
    BY <1>2, <1>3, <1>4, <1>8 DEF FileCapabilities, Measured, CallType
  <1>9. CASE Stat(c) \/ Readlink(c) \/ Access(c) \/ StatFS(c)
    <2>1. Answer(c) \/ \E err : Fail(c, err)
      BY <1>9 DEF Stat, Readlink, Access, StatFS
    <2> QED
      BY <1>2, <1>3, <1>4, <2>1 DEF Answer, Measured, CallType
  <1> QED
    BY <1>5, <1>6, <1>7, <1>8, <1>9

(* A chunk of names more is to be looked up: what has been met is the same.*)
LEMMA GetdentsLists ==
    ASSUME ReaderInv, NEW c \in Callers, ListedCall(c), Getdents(c)
    PROVE  ListedCall(c)'
  <1> DEFINE here == op[c]
             more(names) == [here EXCEPT !.returned = @ \cup names, !.chunk = names,
                                         !.retries = 0, !.pc = "lookup"]
             interrupted == incomplete({"EINTR"} \cup CtxErr)
             broken == incomplete({"EIO"} \cup CtxErr)
  <1>0. /\ op[c].pc = "names" /\ children' = children
        /\ \/ cancelled /\ Fail(c, incomplete(CtxErr))
           \/ Fail(c, interrupted)
           \/ Fail(c, broken)
           \/ here.always \subseteq here.returned /\ Fail(c, incomplete(CtxErr))
           \/ Step(c, Retried(here))
           \/ \E names \in SUBSET (children \ here.returned) : Step(c, more(names))
    BY Zenon DEF Getdents, Quiet, disk
  <1>1. /\ here \in CallType /\ here.method = "ReadDir" /\ op \in [Callers -> CallType]
        /\ here.always \subseteq children /\ children \subseteq here.ever
        /\ here.chunk = {} /\ here.returned \subseteq here.ever
        /\ here.out \subseteq Met(here) /\ here.always \cap Met(here) \subseteq here.out
        /\ Cardinality(Met(here)) <= EntryLimit /\ Bytes(Met(here)) <= NameLimit
    <2>1. here.method = "ReadDir"
      BY <1>0 DEF ListedCall
    <2> QED
      BY <1>0, <2>1, Listing
  <1>2. /\ "limit" \notin incomplete(CtxErr) /\ "limit" \notin interrupted /\ "limit" \notin broken
        /\ "incomplete" \in interrupted /\ "incomplete" \in broken
        /\ cancelled => "incomplete" \in incomplete(CtxErr)
        /\ incomplete(CtxErr) # {} => "incomplete" \in incomplete(CtxErr)
    BY DEF incomplete, CtxErr
  <1>3. CASE Fail(c, interrupted) \/ Fail(c, broken)
    <2> HIDE DEF interrupted, broken
    <2> QED
      BY <1>0, <1>2, <1>3, FailureLists
  <1>4. CASE Fail(c, incomplete(CtxErr)) /\ (cancelled \/ here.always \subseteq here.returned)
    <2> DEFINE err == incomplete(CtxErr)
    <2>1. err = {} => here.always \subseteq here.returned
      BY <1>2, <1>4
    <2>2. Fail(c, err) /\ "limit" \notin err /\ (err # {} => "incomplete" \in err)
      BY <1>2, <1>4
    <2> HIDE DEF err
    <2> QED
      BY <1>0, <2>1, <2>2, FailureLists
  <1>5. CASE Step(c, Retried(here))
    <2> DEFINE r == Retried(here)
    <2>1. /\ r.pc = here.pc /\ r.method = here.method /\ r.returned = here.returned
          /\ r.chunk = here.chunk /\ r.out = here.out /\ r.always = here.always /\ r.ever = here.ever
      BY <1>1 DEF CallType, Retried
    <2>2. Step(c, r)
      BY <1>5
    <2> HIDE DEF r
    <2> QED
      BY <1>0, <1>1, <2>1, <2>2, GoesOnListing
  <1>6. ASSUME NEW names \in SUBSET (children \ here.returned), Step(c, more(names)) PROVE ListedCall(c)'
    <2> DEFINE r == more(names)
    <2>1. /\ r.pc = "lookup" /\ r.method = here.method /\ r.returned = here.returned \cup names
          /\ r.chunk = names /\ r.out = here.out /\ r.always = here.always /\ r.ever = here.ever
      BY <1>1 DEF CallType
    <2>2. op'[c] = r
      BY <1>1, <1>6 DEF Step
    <2> HIDE DEF r, here
    <2>3. Met(r) = Met(here)
      BY <1>1, <2>1 DEF Met
    <2> QED
      BY <1>0, <1>1, <2>1, <2>2, <2>3 DEF ListedCall
  <1> QED
    BY <1>0, <1>3, <1>4, <1>5, <1>6

(* One name more has been met, or the listing stops there.                 *)
LEMMA LookupLists ==
    ASSUME ReaderInv, NEW c \in Callers, ListedCall(c), NEW name \in Entries, Lookup(c, name)
    PROVE  ListedCall(c)'
  <1> DEFINE here == op[c]
             pc == IF here.chunk = {name} THEN "names" ELSE "lookup"
             on == [here EXCEPT !.chunk = @ \ {name}, !.pc = pc]
             kept == [on EXCEPT !.out = IF name \in children THEN @ \cup {name} ELSE @]
             discarded == [here EXCEPT !.out = {}, !.err = {"lookup"} \cup CtxErr, !.pc = "close"]
             full == \/ Cardinality(Met(here)) = EntryLimit
                     \/ NameBytes[name] > NameLimit - Bytes(Met(here))
  <1>0. /\ op[c].pc = "lookup" /\ name \in here.chunk /\ children' = children
        /\ \/ cancelled /\ Fail(c, incomplete(CtxErr))
           \/ name \in Dots /\ Step(c, on)
           \/ name \notin Dots /\ full /\ Fail(c, LimitError)
           \/ name \notin Dots /\ ~full /\ Step(c, kept)
           \/ Step(c, discarded)
    BY Zenon DEF Lookup, Quiet, disk
  <1>1. /\ here \in CallType /\ here.method = "ReadDir" /\ op \in [Callers -> CallType]
        /\ here.always \subseteq children /\ children \subseteq here.ever
        /\ here.chunk \subseteq here.returned /\ here.returned \subseteq here.ever /\ here.ever \in SUBSET Entries
        /\ here.out \subseteq Met(here) /\ here.always \cap Met(here) \subseteq here.out
        /\ Cardinality(Met(here)) <= EntryLimit /\ Bytes(Met(here)) <= NameLimit
        /\ Met(here) \in SUBSET Entries
    <2>1. here.method = "ReadDir"
      BY <1>0 DEF ListedCall
    <2> QED
      BY <1>0, <2>1, Listing, Fields
  <1>2. ASSUME Fail(c, incomplete(CtxErr)), cancelled PROVE ListedCall(c)'
    <2>1. incomplete(CtxErr) # {} /\ "incomplete" \in incomplete(CtxErr) /\ "limit" \notin incomplete(CtxErr)
      BY <1>2 DEF incomplete, CtxErr
    <2> QED
      BY <1>0, <1>2, <2>1, FailureLists
  <1>3. ASSUME name \notin Dots, full, Fail(c, LimitError) PROVE ListedCall(c)'
    <2> DEFINE names == here.ever \ Dots
    <2>1. /\ name \in Entries \ Met(here) /\ Met(here) \cup {name} \subseteq names /\ names \in SUBSET Entries
      BY <1>0, <1>1, <1>3 DEF Met
    <2>2. Cardinality(names) > EntryLimit \/ Bytes(names) > NameLimit
      BY <1>1, <1>3, <2>1, OverTheLimit
    <2>3. LimitError # {} /\ "incomplete" \in LimitError
      BY DEF LimitError
    <2> QED
      BY <1>0, <1>3, <2>2, <2>3, FailureLists
  <1>4. /\ on.pc = pc /\ on.method = here.method /\ on.returned = here.returned
        /\ on.chunk = here.chunk \ {name} /\ on.out = here.out /\ on.always = here.always /\ on.ever = here.ever
    BY <1>1 DEF CallType
  <1>5. /\ kept.pc = pc /\ kept.method = on.method /\ kept.returned = on.returned /\ kept.chunk = on.chunk
        /\ kept.always = on.always /\ kept.ever = on.ever
        /\ kept.out = IF name \in children THEN here.out \cup {name} ELSE here.out
    BY <1>1 DEF CallType
  <1> HIDE DEF on, kept
  <1>6. ASSUME NEW r, Step(c, r), r.pc = pc, r.method = here.method, r.returned = here.returned,
               r.chunk = here.chunk \ {name}, r.always = here.always, r.ever = here.ever,
               r.out \subseteq Met(r), r.always \cap Met(r) \subseteq r.out,
               Cardinality(Met(r)) <= EntryLimit, Bytes(Met(r)) <= NameLimit
        PROVE  ListedCall(c)'
    <2>1. op'[c] = r
      BY <1>1, <1>6 DEF Step
    <2>2. r.pc \in {"names", "lookup"} /\ (r.pc = "names" => r.chunk = {})
      BY <1>6
    <2> HIDE DEF here, pc
    <2> QED
      BY <1>0, <1>1, <1>6, <2>1, <2>2 DEF ListedCall
  <1>7. ASSUME name \in Dots, Step(c, on) PROVE ListedCall(c)'
    <2>1. Met(on) = Met(here)
      BY <1>4, <1>7 DEF Met
    <2> QED
      BY <1>1, <1>4, <1>6, <1>7, <2>1
  <1>8. ASSUME name \notin Dots, ~full, Step(c, kept) PROVE ListedCall(c)'
    <2>1. Met(kept) = Met(here) \cup {name} /\ name \in Entries \ Met(here)
      BY <1>0, <1>1, <1>4, <1>5, <1>8 DEF Met
    <2>2. Cardinality(Met(kept)) <= EntryLimit /\ Bytes(Met(kept)) <= NameLimit
      BY <1>1, <1>8, <2>1, WithinTheLimit
    <2>3. kept.out \subseteq Met(kept) /\ kept.always \cap Met(kept) \subseteq kept.out
      BY <1>1, <1>4, <1>5, <2>1
    <2> QED
      BY <1>4, <1>5, <1>6, <1>8, <2>2, <2>3
  <1>9. ASSUME Step(c, discarded) PROVE ListedCall(c)'
    <2>1. /\ discarded.pc = "close" /\ discarded.method = here.method /\ discarded.out = {}
          /\ discarded.err = {"lookup"} \cup CtxErr /\ discarded.always = here.always /\ discarded.ever = here.ever
      BY <1>1 DEF CallType
    <2> HIDE DEF discarded
    <2>2. op'[c] = discarded
      BY <1>1, <1>9 DEF Step
    <2>3. "limit" \notin discarded.err /\ discarded.err # {}
      BY <2>1 DEF CtxErr
    <2>4. Cardinality(discarded.out) <= EntryLimit /\ Bytes(discarded.out) <= NameLimit
      BY <2>1, NumbersAddUp, BytesAddUp, ReaderAssumption
    <2>5. ListingIsFaithful(discarded)
      BY <2>1, <2>3, <2>4 DEF ListingIsFaithful
    <2> QED
      BY <1>0, <1>1, <2>1, <2>2, <2>5 DEF ListedCall
  <1> QED
    BY <1>0, <1>2, <1>3, <1>7, <1>8, <1>9

(* What has been told is told.                                             *)
LEMMA EndingLists ==
    ASSUME ReaderInv, NEW c \in Callers, ListedCall(c), CloseFd(c) \/ Return(c)
    PROVE  ListedCall(c)'
  <1> DEFINE denied == op[c].method \in {"ExecutableAccess", "DirectoryAccess"} /\ "EACCES" \in op[c].err
             err == IF denied THEN {} ELSE op[c].err
             closed == [op[c] EXCEPT !.fds = Front(@)]
             returned == [op[c] EXCEPT !.pc = "done", !.err = err, !.fd = NoOp.fd, !.retries = 0,
                                       !.returned = {}, !.chunk = {}]
  <1>1. op[c].pc = "close" /\ children' = children /\ (Step(c, closed) \/ Step(c, returned))
    BY Zenon DEF CloseFd, Return, Quiet, disk
  <1>2. op[c] \in CallType /\ op \in [Callers -> CallType]
    BY <1>1, Running
  <1>3. ASSUME NEW r \in {closed, returned}
        PROVE  /\ r.method = op[c].method /\ r.out = op[c].out /\ r.always = op[c].always /\ r.ever = op[c].ever
               /\ r.pc \in {"close", "done"} /\ (r.method = "ReadDir" => r.err = op[c].err)
    BY <1>1, <1>2, ZenonT(60) DEF CallType
  <1>4. PICK r \in {closed, returned} : Step(c, r)
    BY <1>1
  <1> HIDE DEF closed, returned
  <1>5. op'[c] = r
    BY <1>2, <1>4 DEF Step
  <1> QED
    BY <1>1, <1>3, <1>5 DEF ListedCall, ListingIsFaithful

(* A name that comes or goes is in the record of what was there.           *)
LEMMA ChangeLists ==
    ASSUME ReaderInv, Change, NEW c \in Callers, ListedCall(c)
    PROVE  ListedCall(c)'
  <1> DEFINE looks == op[c].pc \notin {"idle", "done"} /\ op[c].method \in Recorded
             next == [op[c] EXCEPT !.seen = @ \cup Present', !.sizes = @ \cup {size'},
                                   !.always = @ \cap children', !.ever = @ \cup children']
  <1>0. /\ mode = "os" /\ children' \in SUBSET Entries
        /\ op'[c] = IF looks THEN next ELSE op[c]
    <2>1. children' = children \/ \E n \in Entries : children' = IF n \in children THEN children \ {n} ELSE children \cup {n}
      BY DEF Change
    <2>2. op'[c] = IF looks THEN next ELSE op[c]
      BY DEF Change
    <2> QED
      BY <2>1, <2>2 DEF Change, ReaderInv, TypeOK
  <1>1. op[c] \in CallType
    BY <1>0 DEF ReaderInv, TypeOK
  <1>2. /\ next.pc = op[c].pc /\ next.method = op[c].method /\ next.err = op[c].err /\ next.out = op[c].out
        /\ next.returned = op[c].returned /\ next.chunk = op[c].chunk
        /\ next.always = op[c].always \cap children' /\ next.ever = op[c].ever \cup children'
    BY <1>1 DEF CallType
  <1> HIDE DEF next
  <1>3. CASE op[c].method # "ReadDir"
    BY <1>0, <1>2, <1>3 DEF ListedCall
  <1>4. CASE op[c].method = "ReadDir" /\ op[c].pc \in {"idle", "done"}
    BY <1>0, <1>4 DEF ListedCall
  <1>5. CASE op[c].method = "ReadDir" /\ op[c].pc \notin {"idle", "done"}
    <2>1. op'[c] = next
      BY <1>0, <1>5 DEF Recorded
    <2>2. /\ next.always \subseteq children' /\ children' \subseteq next.ever
          /\ next.always \subseteq op[c].always /\ op[c].ever \subseteq next.ever
          /\ op[c].ever \in SUBSET Entries /\ next.ever \in SUBSET Entries
      BY <1>0, <1>1, <1>2, Fields
    <2>3. Met(next) = Met(op[c])
      BY <1>2 DEF Met
    <2>4. CASE op[c].pc = "close"
      <3> DEFINE before == op[c].ever \ Dots
                 after == next.ever \ Dots
      <3>1. /\ op[c].out \subseteq before
            /\ op[c].err = {} => op[c].always \ Dots \subseteq op[c].out
            /\ op[c].out # {} /\ op[c].err # {} => "incomplete" \in op[c].err
            /\ Cardinality(op[c].out) <= EntryLimit /\ Bytes(op[c].out) <= NameLimit
            /\ "limit" \in op[c].err => Cardinality(before) > EntryLimit \/ Bytes(before) > NameLimit
        BY <1>5, <2>4 DEF ListedCall, ListingIsFaithful
      <3>2. before \in SUBSET after /\ after \in SUBSET Entries
        BY <2>2
      <3>3. /\ Cardinality(before) \in Nat /\ Cardinality(after) \in Nat /\ Cardinality(before) <= Cardinality(after)
            /\ Bytes(before) \in Nat /\ Bytes(after) \in Nat /\ Bytes(before) <= Bytes(after)
        BY <3>2, NumbersAddUp, BytesAddUp
      <3>4. Cardinality(before) > EntryLimit \/ Bytes(before) > NameLimit
              => Cardinality(after) > EntryLimit \/ Bytes(after) > NameLimit
        BY <3>3, ReaderAssumption
      <3>5. ListingIsFaithful(next)
        BY <1>2, <2>2, <3>1, <3>2, <3>4 DEF ListingIsFaithful
      <3> QED
        BY <1>2, <1>5, <2>1, <2>2, <2>4, <3>5 DEF ListedCall
    <2>5. CASE op[c].pc # "close"
      BY <1>2, <1>5, <2>1, <2>2, <2>3, <2>5 DEF ListedCall
    <2> QED
      BY <2>4, <2>5
  <1> QED
    BY <1>3, <1>4, <1>5

LEMMA MethodLists ==
    ASSUME ReaderInv, mode = "os", ListingInv, NEW c \in Callers, Method(c)
    PROVE  ListingInv'
  <1>1. ListedCall(c)
    BY DEF ListingInv
  <1>2. ListedCall(c)'
    <2>1. ASSUME NEW n \in Entries, Lookup(c, n) PROVE ListedCall(c)'
      BY <1>1, <2>1, LookupLists
    <2> QED
      BY <1>1, <2>1, OpeningLists, OthersListNothing, GetdentsLists, EndingLists DEF Method
  <1>3. children' = children /\ \A d \in Callers \ {c} : op'[d] = op[d]
    <2>1. op \in [Callers -> CallType]
      BY DEF ReaderInv, TypeOK
    <2>2. ASSUME NEW r, Step(c, r) PROVE \A d \in Callers \ {c} : op'[d] = op[d]
      BY <2>1, <2>2 DEF Step
    <2>3. CASE Begin(c)
      BY <2>2, <2>3, Zenon DEF Begin, Quiet, disk
    <2>4. CASE OpenAt(c)
      <3>1. \E r : Step(c, r)
        BY <2>4, Zenon DEF OpenAt, Fail
      <3> QED
        BY <2>2, <2>4, <3>1 DEF OpenAt, Quiet, disk
    <2>5. CASE CloseFd(c)
      <3>1. \E r : Step(c, r)
        BY <2>5, Zenon DEF CloseFd
      <3> QED
        BY <2>2, <2>5, <3>1 DEF CloseFd, Quiet, disk
    <2>6. ASSUME Moves(c) PROVE <1>3
      BY <2>6 DEF Moves, Quiet, disk
    <2>7. CASE \E valid \in BOOLEAN : Validate(c, valid)
      BY <2>6, <2>7, ValidateMoves
    <2>8. CASE LoadRoot(c) \/ Inspect(c) \/ Poll(c) \/ Read(c)
      BY <2>6, <2>8, LoadRootMoves, InspectMoves, PollMoves, ReadMoves
    <2>9. CASE Getdents(c) \/ Return(c) \/ FileCapabilities(c)
      BY <2>6, <2>9, GetdentsMoves, ReturnMoves, FileCapabilitiesMoves
    <2>10. CASE Stat(c) \/ Readlink(c) \/ Access(c) \/ StatFS(c)
      BY <2>6, <2>10, QueryMoves
    <2>11. CASE \E n \in Entries : Lookup(c, n)
      BY <2>6, <2>11, LookupMoves
    <2> QED
      BY <2>3, <2>4, <2>5, <2>7, <2>8, <2>9, <2>10, <2>11 DEF Method
  <1>4. \A d \in Callers \ {c} : ListedCall(d)'
    BY <1>3, ListingKept DEF ListingInv
  <1> QED
    BY <1>2, <1>4 DEF ListingInv

(* The memory reader's calls take one step, which is none of these.        *)
LEMMA MethodIsOS ==
    ASSUME ReaderInv, NEW c \in Callers, Method(c)
    PROVE  mode = "os"
  <1>1. CASE op[c].pc \notin {"idle", "done"}
    BY <1>1, Running
  <1>2. CASE Begin(c)
    BY <1>2 DEF Begin
  <1>3. op[c].pc \notin {"idle", "done"} \/ Begin(c)
    BY Zenon DEF Method, Validate, LoadRoot, OpenAt, Inspect, Poll, Read, Getdents, CloseFd, Return,
                Stat, Readlink, Access, StatFS, FileCapabilities, Querying, Lookup
  <1> QED
    BY <1>1, <1>2, <1>3

LEMMA NextLists ==
    ASSUME ReaderInv, ListingInv, [Next]_vars
    PROVE  ListingInv'
  <1>1. ASSUME op' = op, mode' = mode, disk' = disk PROVE ListingInv'
    BY <1>1, ListingKept DEF ListingInv, disk
  <1>2. ASSUME NEW k \in Closers, Close(k) PROVE ListingInv'
    BY <1>1, <1>2 DEF Close, CloseLoad, CloseSwap, CloseRelease
  <1>3. CASE Cancel \/ ForeignOpen \/ ForeignClose \/ UNCHANGED vars
    BY <1>1, <1>3 DEF Cancel, ForeignOpen, ForeignClose, vars
  <1>4. ASSUME NEW parts \in Subpaths, NEW follow \in BOOLEAN, MemRead(parts, follow) PROVE ListingInv'
    BY <1>4, Zenon DEF MemRead, ListingInv
  <1>5. CASE Change
    <2>1. mode = "os" /\ mode' = mode
      BY <1>5 DEF Change
    <2> QED
      BY <1>5, <2>1, ChangeLists DEF ListingInv
  <1>6. ASSUME NEW c \in Callers, Method(c) PROVE ListingInv'
    <2>1. mode = "os"
      BY <1>6, MethodIsOS
    <2> QED
      BY <1>6, <2>1, MethodLists
  <1> QED
    BY <1>2, <1>3, <1>4, <1>5, <1>6 DEF Next

(* Whatever names come and go while directoryNames and captureDirectory    *)
(* run, a listing tells what it met: all that stayed unless it says it is  *)
(* not complete, nothing that never was, and within the limits.            *)
THEOREM ListingsTellWhatTheyMet == Spec => []ListingsAreFaithful
  <1>1. Init => ListingInv
    BY DEF Init, ListingInv, ListedCall, NoOp
  <1>2. ReaderInv /\ ListingInv /\ [Next]_vars => ListingInv'
    BY NextLists
  <1>3. ListingInv => ListingsAreFaithful
    BY DEF ListingInv, ListedCall, ListingsAreFaithful, Done
  <1> QED
    BY ReaderInvariant, <1>1, <1>2, <1>3, PTL DEF Spec

-----------------------------------------------------------------------------
(* Path resolution: the walk of the memory reader and that of the kernel.  *)

(* One turn of a walk, and the walk from its start.                        *)
Turn(kernel, t, follow, w) ==
    IF w.pending = <<>> \/ w.err # "none" THEN w
    ELSE IF kernel THEN KernelStep(t, Root, follow, w) ELSE WalkStep(t, Root, follow, w)

Walked(kernel, t, parts, follow, turns, walk) ==
    walk = [n \in 0..turns |-> IF n = 0 THEN Start(parts, Root) ELSE Turn(kernel, t, follow, walk[n - 1])]

Ended(t, end) == IF end.err = "none" THEN Failed(end, Missing(t, end.at)) ELSE end

(* A walk of any number of turns is one function.                          *)
LEMMA WalkExists ==
    ASSUME NEW kernel \in BOOLEAN, NEW t, NEW parts, NEW follow, NEW turns \in Nat
    PROVE  \E walk : Walked(kernel, t, parts, follow, turns, walk)
  <1> DEFINE Some(n) == \E walk : Walked(kernel, t, parts, follow, n, walk)
             some == {n \in Nat : Some(n)}
  <1>1. 0 \in some
    <2> DEFINE walk == [n \in 0..0 |-> Start(parts, Root)]
    <2>1. walk = [n \in 0..0 |-> IF n = 0 THEN Start(parts, Root) ELSE Turn(kernel, t, follow, walk[n - 1])]
      OBVIOUS
    <2> QED
      BY <2>1 DEF Walked
  <1>2. ASSUME NEW n \in Nat, n \in some PROVE n + 1 \in some
    <2>1. PICK walk : Walked(kernel, t, parts, follow, n, walk)
      BY <1>2
    <2> DEFINE longer == [m \in 0..(n + 1) |-> IF m = n + 1 THEN Turn(kernel, t, follow, walk[n]) ELSE walk[m]]
               again == [m \in 0..(n + 1) |-> IF m = 0 THEN Start(parts, Root)
                                              ELSE Turn(kernel, t, follow, longer[m - 1])]
    <2>2. \A m \in 0..n : walk[m] = IF m = 0 THEN Start(parts, Root) ELSE Turn(kernel, t, follow, walk[m - 1])
      BY <2>1 DEF Walked
    <2>3. ASSUME NEW m \in 0..(n + 1) PROVE longer[m] = again[m]
      <3>1. CASE m = n + 1
        <4>1. m # 0 /\ m - 1 = n /\ n \in 0..(n + 1) /\ n # n + 1
          BY <3>1
        <4> QED
          BY <3>1, <4>1
      <3>2. CASE m # n + 1
        <4>1. m \in 0..n /\ longer[m] = walk[m]
          BY <3>2
        <4>2. CASE m = 0
          BY <2>2, <4>1, <4>2
        <4>3. CASE m # 0
          <5>1. m - 1 \in 0..(n + 1) /\ m - 1 # n + 1
            BY <3>2, <4>3
          <5> QED
            BY <2>2, <4>1, <4>3, <5>1
        <4> QED
          BY <4>2, <4>3
      <3> QED
        BY <3>1, <3>2
    <2>4. longer = again
      <3>1. \A m \in 0..(n + 1) : longer[m] = again[m]
        BY <2>3
      <3>2. longer = [m \in 0..(n + 1) |-> longer[m]] /\ again = [m \in 0..(n + 1) |-> again[m]]
        OBVIOUS
      <3> HIDE DEF longer, again
      <3> QED
        BY <3>1, <3>2
    <2>5. Walked(kernel, t, parts, follow, n + 1, longer)
      BY <2>4, Zenon DEF Walked
    <2> QED
      BY <2>5
  <1>3. turns \in some
    <2> HIDE DEF some
    <2> QED
      BY <1>1, <1>2, NatSet
  <1> QED
    BY <1>3

LEMMA ResolveWalks ==
    ASSUME NEW t, NEW parts, NEW follow
    PROVE  /\ \E walk : Walked(FALSE, t, parts, follow, WalkSteps, walk)
                        /\ Resolve(t, Root, parts, follow) = Ended(t, walk[WalkSteps])
           /\ \E walk : Walked(TRUE, t, parts, follow, WalkSteps, walk)
                        /\ KernelResolve(t, Root, parts, follow) = Ended(t, walk[WalkSteps])
  <1>1. \E walk : Walked(FALSE, t, parts, follow, WalkSteps, walk)
                 /\ Resolve(t, Root, parts, follow) = Ended(t, walk[WalkSteps])
    <2> DEFINE next(w) == IF w.pending = <<>> \/ w.err # "none" THEN w ELSE WalkStep(t, Root, follow, w)
               walk == CHOOSE walk : walk = [n \in 0..WalkSteps |-> IF n = 0 THEN Start(parts, Root)
                                                                   ELSE next(walk[n - 1])]
    <2>1. Resolve(t, Root, parts, follow) = Ended(t, walk[WalkSteps])
      BY Zenon DEF Resolve, Walk, Ended
    <2>2. \A w : next(w) = Turn(FALSE, t, follow, w)
      BY DEF Turn
    <2> HIDE DEF next
    <2>3. PICK some : Walked(FALSE, t, parts, follow, WalkSteps, some)
      BY WalkExists, HopsAssumption
    <2>4. some = [n \in 0..WalkSteps |-> IF n = 0 THEN Start(parts, Root) ELSE next(some[n - 1])]
      BY <2>2, <2>3 DEF Walked
    <2>5. walk = [n \in 0..WalkSteps |-> IF n = 0 THEN Start(parts, Root) ELSE next(walk[n - 1])]
      BY <2>4
    <2> HIDE DEF walk
    <2>6. Walked(FALSE, t, parts, follow, WalkSteps, walk)
      BY <2>2, <2>5 DEF Walked
    <2> QED
      BY <2>1, <2>6
  <1>2. \E walk : Walked(TRUE, t, parts, follow, WalkSteps, walk)
                 /\ KernelResolve(t, Root, parts, follow) = Ended(t, walk[WalkSteps])
    <2> DEFINE next(w) == IF w.pending = <<>> \/ w.err # "none" THEN w ELSE KernelStep(t, Root, follow, w)
               walk == CHOOSE walk : walk = [n \in 0..WalkSteps |-> IF n = 0 THEN Start(parts, Root)
                                                                   ELSE next(walk[n - 1])]
    <2>1. KernelResolve(t, Root, parts, follow) = Ended(t, walk[WalkSteps])
      BY Zenon DEF KernelResolve, Walk, Ended
    <2>2. \A w : next(w) = Turn(TRUE, t, follow, w)
      BY DEF Turn
    <2> HIDE DEF next
    <2>3. PICK some : Walked(TRUE, t, parts, follow, WalkSteps, some)
      BY WalkExists, HopsAssumption
    <2>4. some = [n \in 0..WalkSteps |-> IF n = 0 THEN Start(parts, Root) ELSE next(some[n - 1])]
      BY <2>2, <2>3 DEF Walked
    <2>5. walk = [n \in 0..WalkSteps |-> IF n = 0 THEN Start(parts, Root) ELSE next(walk[n - 1])]
      BY <2>4
    <2> HIDE DEF walk
    <2>6. Walked(TRUE, t, parts, follow, WalkSteps, walk)
      BY <2>2, <2>5 DEF Walked
    <2> QED
      BY <2>1, <2>6
  <1> QED
    BY <1>1, <1>2

(* What a walk is made of, and that its links are counted.                 *)
Going(w) ==
    w = [at |-> w.at, pending |-> w.pending, hops |-> w.hops, err |-> w.err] /\ w.hops \in Nat

(* A walk that has been changed is one still.                              *)
LEMMA GoesOn ==
    ASSUME NEW w, Going(w), NEW x, NEW y, NEW z \in Nat
    PROVE  /\ Going([w EXCEPT !.pending = y]) /\ Going([w EXCEPT !.err = x])
           /\ Going([[w EXCEPT !.pending = y] EXCEPT !.at = x])
           /\ Going([w EXCEPT !.hops = z, !.pending = y])
           /\ Going([w EXCEPT !.hops = z, !.at = x, !.pending = y])
           /\ [w EXCEPT !.hops = z, !.pending = y, !.at = w.at] = [w EXCEPT !.hops = z, !.pending = y]
  <1> DEFINE a == w.at
             p == w.pending
             h == w.hops
             e == w.err
             w1 == [w EXCEPT !.pending = y]
             w2 == [w EXCEPT !.hops = z]
             w3 == [w2 EXCEPT !.pending = y]
             w4 == [w2 EXCEPT !.at = x]
             w5 == [w EXCEPT !.err = x]
  <1>1. w = [at |-> a, pending |-> p, hops |-> h, err |-> e] /\ h \in Nat
    BY DEF Going
  <1>2. \A b, q, k, f : k \in Nat => Going([at |-> b, pending |-> q, hops |-> k, err |-> f])
    BY DEF Going
  <1>3. a = w.at
    OBVIOUS
  <1> HIDE DEF a, p, h, e
  <1>4. w1 = [at |-> a, pending |-> y, hops |-> h, err |-> e]
    BY <1>1
  <1>5. w2 = [at |-> a, pending |-> p, hops |-> z, err |-> e]
    BY <1>1
  <1>6. w5 = [at |-> a, pending |-> p, hops |-> h, err |-> x]
    BY <1>1
  <1> HIDE DEF w1, w2, w5
  <1>7. w3 = [at |-> a, pending |-> y, hops |-> z, err |-> e]
    BY <1>5
  <1>8. w4 = [at |-> x, pending |-> p, hops |-> z, err |-> e]
    BY <1>5
  <1> HIDE DEF w3, w4
  <1>9. [w1 EXCEPT !.at = x] = [at |-> x, pending |-> y, hops |-> h, err |-> e]
    BY <1>4
  <1>10. [w3 EXCEPT !.at = a] = [at |-> a, pending |-> y, hops |-> z, err |-> e]
    BY <1>7
  <1>11. [w4 EXCEPT !.pending = y] = [at |-> x, pending |-> y, hops |-> z, err |-> e]
    BY <1>8
  <1>12. /\ Going(w1) /\ Going(w5) /\ Going([w1 EXCEPT !.at = x]) /\ Going(w3)
         /\ Going([w4 EXCEPT !.pending = y]) /\ [w3 EXCEPT !.at = w.at] = w3
    BY <1>1, <1>2, <1>3, <1>4, <1>6, <1>7, <1>9, <1>10, <1>11
  <1> QED
    BY <1>12, Zenon DEF w1, w2, w3, w4, w5

(* Where no target is absolute, the two walks go the same way, until that  *)
(* of the memory reader ends at the root or at its last link.              *)
LEMMA TurnsAlike ==
    ASSUME NEW t, NEW follow, NEW w, Going(w),
           \A p \in DOMAIN t : t[p].kind = "link" => ~t[p].abs
    PROVE  /\ Going(Turn(FALSE, t, follow, w))
           /\ \/ Turn(FALSE, t, follow, w) = Turn(TRUE, t, follow, w)
              \/ Turn(FALSE, t, follow, w).err \in {"escape", "ELOOP"}
  <1> DEFINE part == Head(w.pending)
             rest == Tail(w.pending)
             next == Append(w.at, part)
             node == t[next]
             on == [w EXCEPT !.pending = rest]
             stop(err) == [w EXCEPT !.err = err]
             m == Turn(FALSE, t, follow, w)
             k == Turn(TRUE, t, follow, w)
  <1>1. CASE w.pending = <<>> \/ w.err # "none"
    BY <1>1 DEF Turn
  <1>2. CASE ~(w.pending = <<>> \/ w.err # "none")
    <2>1. m = IF part \in {"", "."} THEN on
              ELSE IF part = ".." THEN
                      IF Leaves(w.at, Root) THEN stop("escape")
                      ELSE [on EXCEPT !.at = Parent(w.at)]
              ELSE IF Missing(t, next) # "none" THEN stop(Missing(t, next))
              ELSE IF node.kind = "link" /\ (follow \/ rest # <<>>) THEN Expand(w, rest, node, Root)
              ELSE IF rest # <<>> /\ node.kind # "dir" THEN stop("ENOTDIR")
              ELSE [on EXCEPT !.at = next]
      BY <1>2, Zenon DEF Turn, WalkStep, Failed
    <2>2. k = IF part \in {"", "."} THEN on
              ELSE IF part = ".." THEN [on EXCEPT !.at = IF w.at = Root THEN Root ELSE Parent(w.at)]
              ELSE IF Missing(t, next) # "none" THEN stop(Missing(t, next))
              ELSE IF node.kind = "link" /\ (follow \/ rest # <<>>) THEN
                      IF w.hops = KernelHops THEN stop("ELOOP")
                      ELSE IF node.target = <<>> THEN stop("ENOENT")
                      ELSE [w EXCEPT !.hops = @ + 1, !.pending = node.target \o rest,
                                     !.at = IF node.abs THEN Root ELSE @]
              ELSE IF rest # <<>> /\ node.kind # "dir" THEN stop("ENOTDIR")
              ELSE [on EXCEPT !.at = next]
      BY <1>2, Zenon DEF Turn, KernelStep, Failed
    <2>3. \A err : Going(stop(err)) /\ stop(err).err = err
      BY DEF Going
    <2>4. Going(on) /\ \A p : Going([on EXCEPT !.at = p])
      BY GoesOn, Zenon
    <2>5. CASE part \in {"", "."}
      <3> HIDE DEF part, on, m, k
      <3> QED
        BY <2>1, <2>2, <2>4, <2>5 DEF m, k
    <2>6. CASE part \notin {"", "."} /\ part = ".."
      <3>1. CASE Leaves(w.at, Root)
        <4> HIDE DEF part, on, stop
        <4> QED
          BY <2>1, <2>3, <2>6, <3>1
      <3>2. CASE ~Leaves(w.at, Root)
        <4>1. (IF w.at = Root THEN Root ELSE Parent(w.at)) = Parent(w.at)
          BY <3>2 DEF Leaves, Parent
        <4> HIDE DEF part, on, stop
        <4> QED
          BY <2>1, <2>2, <2>4, <2>6, <3>2, <4>1
      <3> QED
        BY <3>1, <3>2
    <2>7. CASE part \notin {"", ".", ".."} /\ Missing(t, next) # "none"
      <3> HIDE DEF part, on, stop, next
      <3> QED
        BY <2>1, <2>2, <2>3, <2>7
    <2>8. CASE /\ part \notin {"", ".", ".."} /\ Missing(t, next) = "none"
               /\ node.kind = "link" /\ (follow \/ rest # <<>>)
      <3>1. ~node.abs
        BY <2>8 DEF Missing
      <3> DEFINE joined == node.target \o rest
                 followed == [w EXCEPT !.hops = w.hops + 1, !.pending = joined]
      <3>2. m = IF w.hops + 1 > MemoryHops THEN stop("ELOOP")
                ELSE IF node.target = <<>> THEN stop("ENOENT")
                ELSE followed
        BY <2>1, <2>8, <3>1, Zenon DEF Expand, Failed
      <3>3. k = IF w.hops = KernelHops THEN stop("ELOOP")
                ELSE IF node.target = <<>> THEN stop("ENOENT")
                ELSE [w EXCEPT !.hops = w.hops + 1, !.pending = joined, !.at = w.at]
        BY <2>2, <2>8, <3>1, Zenon
      <3> HIDE DEF joined
      <3>4. followed = [w EXCEPT !.hops = w.hops + 1, !.pending = joined, !.at = w.at] /\ Going(followed)
        <4>1. w.hops + 1 \in Nat
          BY DEF Going
        <4> QED
          BY <4>1, GoesOn, Zenon
      <3> HIDE DEF followed, stop, m, k, node
      <3>5. w.hops + 1 > MemoryHops \/ w.hops # KernelHops
        BY HopsAssumption DEF Going
      <3>6. CASE w.hops + 1 > MemoryHops
        <4>1. m = stop("ELOOP")
          BY <3>2, <3>6
        <4> QED
          BY <2>3, <4>1 DEF m
      <3>7. CASE ~(w.hops + 1 > MemoryHops)
        <4>1. m = k /\ Going(m)
          BY <2>3, <3>2, <3>3, <3>4, <3>5, <3>7
        <4> QED
          BY <4>1 DEF m, k
      <3> QED
        BY <3>6, <3>7
    <2>9. CASE /\ part \notin {"", ".", ".."} /\ Missing(t, next) = "none"
               /\ ~(node.kind = "link" /\ (follow \/ rest # <<>>))
      <3>1. m = k /\ (m = stop("ENOTDIR") \/ m = [on EXCEPT !.at = next])
        <4> HIDE DEF part, on, stop, next, node, rest, m, k
        <4> QED
          BY <2>1, <2>2, <2>9
      <3> HIDE DEF on, stop
      <3> QED
        BY <2>3, <2>4, <3>1
    <2> QED
      BY <2>5, <2>6, <2>7, <2>8, <2>9
  <1> QED
    BY <1>1, <1>2

LEMMA WalksAlike ==
    ASSUME NEW t, NEW parts, NEW follow,
           \A p \in DOMAIN t : t[p].kind = "link" => ~t[p].abs
    PROVE  LET w == Resolve(t, Root, parts, follow)
               k == KernelResolve(t, Root, parts, follow)
           IN  \/ w.err \in {"escape", "ELOOP"}
               \/ w = k
  <1>1. PICK m : /\ Walked(FALSE, t, parts, follow, WalkSteps, m)
                 /\ Resolve(t, Root, parts, follow) = Ended(t, m[WalkSteps])
    BY ResolveWalks
  <1>2. PICK k : /\ Walked(TRUE, t, parts, follow, WalkSteps, k)
                 /\ KernelResolve(t, Root, parts, follow) = Ended(t, k[WalkSteps])
    BY ResolveWalks
  <1> DEFINE Alike(n) == Going(m[n]) /\ (m[n] = k[n] \/ m[n].err \in {"escape", "ELOOP"})
             alike == {n \in Nat : n \in 0..WalkSteps => Alike(n)}
  <1>3. \A n \in 0..WalkSteps :
           /\ m[n] = IF n = 0 THEN Start(parts, Root) ELSE Turn(FALSE, t, follow, m[n - 1])
           /\ k[n] = IF n = 0 THEN Start(parts, Root) ELSE Turn(TRUE, t, follow, k[n - 1])
    BY <1>1, <1>2 DEF Walked
  <1>4. 0 \in alike
    <2>1. 0 \in 0..WalkSteps
      BY HopsAssumption
    <2>2. Going(Start(parts, Root))
      BY DEF Going, Start
    <2> QED
      BY <1>3, <2>1, <2>2
  <1>5. ASSUME NEW n \in Nat, n \in alike PROVE n + 1 \in alike
    <2>1. SUFFICES ASSUME n + 1 \in 0..WalkSteps PROVE Alike(n + 1)
      OBVIOUS
    <2>2. n \in 0..WalkSteps /\ n + 1 # 0 /\ (n + 1) - 1 = n
      BY <2>1, HopsAssumption
    <2>3. m[n + 1] = Turn(FALSE, t, follow, m[n]) /\ k[n + 1] = Turn(TRUE, t, follow, k[n])
      BY <1>3, <2>1, <2>2
    <2>4. Going(m[n]) /\ (m[n] = k[n] \/ m[n].err \in {"escape", "ELOOP"})
      BY <1>5, <2>2
    <2>5. CASE m[n].err \in {"escape", "ELOOP"}
      <3>1. m[n + 1] = m[n]
        BY <2>3, <2>5 DEF Turn
      <3> QED
        BY <2>4, <2>5, <3>1
    <2>6. CASE m[n] = k[n]
      BY <2>3, <2>4, <2>6, TurnsAlike
    <2> QED
      BY <2>4, <2>5, <2>6
  <1>6. Alike(WalkSteps)
    <2>1. Nat \subseteq alike
      <3> HIDE DEF alike
      <3> QED
        BY <1>4, <1>5, NatSet
    <2>2. WalkSteps \in Nat /\ WalkSteps \in 0..WalkSteps
      BY HopsAssumption
    <2> QED
      BY <2>1, <2>2
  <1>7. m[WalkSteps].err \in {"escape", "ELOOP"} => Ended(t, m[WalkSteps]).err \in {"escape", "ELOOP"}
    BY DEF Ended
  <1> QED
    BY <1>1, <1>2, <1>6, <1>7

(* A path at or below the root.                                            *)
Inside(path) == Within(path, Root) /\ \E S : path \in Seq(S)

LEMMA RootIsInside == Inside(Root)
  <1>1. Root \in Seq(Range(Root)) /\ Len(Root) \in Nat
    BY ReaderAssumption
  <1>2. Within(Root, Root)
    BY <1>1 DEF Within, IsPrefix
  <1> QED
    BY <1>1, <1>2 DEF Inside

LEMMA BelowIsInside ==
    ASSUME NEW path, Inside(path), NEW part
    PROVE  Inside(Append(path, part))
  <1>1. PICK S : path \in Seq(S)
    BY DEF Inside
  <1> DEFINE T == S \cup {part}
             longer == Append(path, part)
  <1>2. path \in Seq(T) /\ part \in T
    BY <1>1
  <1> HIDE DEF T
  <1>3. /\ longer \in Seq(T) /\ Len(longer) = Len(path) + 1 /\ Len(path) \in Nat
        /\ \A i \in 1..Len(path) : longer[i] = path[i]
    BY <1>2
  <1>4. Len(Root) \in Nat /\ Root \in Seq(Range(Root))
    BY ReaderAssumption
  <1>5. Len(Root) <= Len(path) /\ SubSeq(Root, 1, Len(Root)) = SubSeq(path, 1, Len(Root))
    BY DEF Inside, Within, IsPrefix
  <1>6. SubSeq(path, 1, Len(Root)) = SubSeq(longer, 1, Len(Root))
    <2>1. \A i \in 1..Len(Root) : i \in 1..Len(path)
      BY <1>3, <1>4, <1>5
    <2>2. /\ SubSeq(path, 1, Len(Root)) = [i \in 1..Len(Root) |-> path[i]]
          /\ SubSeq(longer, 1, Len(Root)) = [i \in 1..Len(Root) |-> longer[i]]
      BY <1>2, <1>3, <1>4, <1>5, SubSeqProperties
    <2> HIDE DEF longer
    <2> QED
      BY <1>3, <2>1, <2>2
  <1>7. Within(longer, Root)
    BY <1>3, <1>4, <1>5, <1>6 DEF Within, IsPrefix
  <1> HIDE DEF longer
  <1>8. Inside(longer)
    BY <1>3, <1>7 DEF Inside
  <1> QED
    BY <1>8 DEF longer

LEMMA ParentIsInside ==
    ASSUME NEW path, Inside(path), Within(Parent(path), Root)
    PROVE  Inside(Parent(path))
  <1>1. PICK S : path \in Seq(S)
    BY DEF Inside
  <1>2. Parent(path) \in Seq(S)
    <2>1. CASE path = <<>>
      BY <2>1 DEF Parent
    <2>2. CASE path # <<>>
      <3>1. Len(path) \in Nat /\ Len(path) >= 1
        BY <1>1, <2>2
      <3>2. SubSeq(path, 1, Len(path) - 1) \in Seq(S)
        BY <1>1, <3>1
      <3> QED
        BY <2>2, <3>2 DEF Parent, Front
    <2> QED
      BY <2>1, <2>2
  <1> QED
    BY <1>2 DEF Inside

(* The walk of the memory reader is below its root, for as long as it goes *)
(* on: what would leave the root ends it.                                  *)
LEMMA TurnsInside ==
    ASSUME NEW t, NEW follow, NEW w, Going(w), w.err = "none" => Inside(w.at)
    PROVE  LET m == Turn(FALSE, t, follow, w)
           IN  Going(m) /\ (m.err = "none" => Inside(m.at))
  <1> DEFINE part == Head(w.pending)
             rest == Tail(w.pending)
             next == Append(w.at, part)
             node == t[next]
             on == [w EXCEPT !.pending = rest]
             stop(err) == [w EXCEPT !.err = err]
             m == Turn(FALSE, t, follow, w)
  <1>1. CASE w.pending = <<>> \/ w.err # "none"
    BY <1>1 DEF Turn
  <1>2. CASE ~(w.pending = <<>> \/ w.err # "none")
    <2>1. m = IF part \in {"", "."} THEN on
              ELSE IF part = ".." THEN
                      IF Leaves(w.at, Root) THEN stop("escape")
                      ELSE [on EXCEPT !.at = Parent(w.at)]
              ELSE IF Missing(t, next) # "none" THEN stop(Missing(t, next))
              ELSE IF node.kind = "link" /\ (follow \/ rest # <<>>) THEN Expand(w, rest, node, Root)
              ELSE IF rest # <<>> /\ node.kind # "dir" THEN stop("ENOTDIR")
              ELSE [on EXCEPT !.at = next]
      BY <1>2, Zenon DEF Turn, WalkStep, Failed
    <2>2. \A err : Going(stop(err)) /\ stop(err).err = err
      BY DEF Going
    <2>3. /\ Going(on) /\ on.at = w.at
          /\ \A p : Going([on EXCEPT !.at = p])
      <3>1. Going(on) /\ \A p : Going([on EXCEPT !.at = p])
        BY GoesOn, Zenon
      <3>2. on.at = w.at
        <4> HIDE DEF rest
        <4> QED
          BY DEF Going
      <3> QED
        BY <3>1, <3>2
    <2>4. \A p : [on EXCEPT !.at = p].at = p
      <3> HIDE DEF on
      <3> QED
        BY <2>3 DEF Going
    <2>5. Inside(w.at)
      BY <1>2
    <2>6. CASE part \in {"", "."}
      <3> HIDE DEF part, on, stop, next, node, rest
      <3> QED
        BY <2>1, <2>3, <2>5, <2>6
    <2>7. CASE part = ".."
      <3>1. CASE Leaves(w.at, Root)
        <4> HIDE DEF part, on, stop, next, node, rest
        <4> QED
          BY <2>1, <2>2, <2>7, <3>1
      <3>2. CASE ~Leaves(w.at, Root)
        <4>1. Inside(Parent(w.at))
          BY <2>5, <3>2, ParentIsInside DEF Leaves
        <4>2. m = [on EXCEPT !.at = Parent(w.at)]
          <5> HIDE DEF part, on, stop, next, node, rest, m
          <5> QED
            BY <2>1, <2>7, <3>2
        <4> HIDE DEF on
        <4> QED
          BY <2>3, <2>4, <4>1, <4>2
      <3> QED
        BY <3>1, <3>2
    <2>8. CASE m = Expand(w, rest, node, Root)
      <3> DEFINE below == SubSeq(node.target, Len(Root) + 1, Len(node.target)) \o rest
                 joined == node.target \o rest
                 abs == [w EXCEPT !.hops = w.hops + 1, !.at = Root, !.pending = below]
                 rel == [w EXCEPT !.hops = w.hops + 1, !.pending = joined]
      <3>1. (\E err \in {"ELOOP", "ENOENT", "escape"} : m = stop(err)) \/ m = abs \/ m = rel
        BY <2>8, Zenon DEF Expand, Failed
      <3>2. w.hops + 1 \in Nat
        BY DEF Going
      <3> HIDE DEF below, joined
      <3>3. Going(abs) /\ Going(rel)
        BY <3>2, GoesOn, Zenon
      <3>4. abs.at = Root /\ rel.at = w.at
        BY DEF Going
      <3> HIDE DEF abs, rel
      <3>5. CASE m = abs \/ m = rel
        BY <2>5, <3>3, <3>4, <3>5, RootIsInside
      <3>6. CASE \E err \in {"ELOOP", "ENOENT", "escape"} : m = stop(err)
        <4> HIDE DEF stop
        <4> QED
          BY <2>2, <3>6
      <3> QED
        BY <3>1, <3>5, <3>6
    <2>9. CASE m = [on EXCEPT !.at = next]
      <3>1. Inside(next)
        BY <2>5, BelowIsInside
      <3> HIDE DEF on, next
      <3> QED
        BY <2>3, <2>4, <2>9, <3>1
    <2>10. CASE \E err : err # "none" /\ m = stop(err)
      <3> HIDE DEF stop
      <3> QED
        BY <2>2, <2>10
    <2> QED
      <3> HIDE DEF part, on, stop, next, node, rest
      <3> QED
        BY <2>1, <2>6, <2>7, <2>8, <2>9, <2>10
  <1> QED
    BY <1>1, <1>2

LEMMA WalkIsInside ==
    ASSUME NEW t, NEW parts, NEW follow
    PROVE  LET w == Resolve(t, Root, parts, follow) IN w.err = "none" => Inside(w.at)
  <1>1. PICK m : /\ Walked(FALSE, t, parts, follow, WalkSteps, m)
                 /\ Resolve(t, Root, parts, follow) = Ended(t, m[WalkSteps])
    BY ResolveWalks
  <1> DEFINE Good(n) == Going(m[n]) /\ (m[n].err = "none" => Inside(m[n].at))
             good == {n \in Nat : n \in 0..WalkSteps => Good(n)}
  <1>2. \A n \in 0..WalkSteps : m[n] = IF n = 0 THEN Start(parts, Root) ELSE Turn(FALSE, t, follow, m[n - 1])
    BY <1>1 DEF Walked
  <1>3. 0 \in good
    <2>1. 0 \in 0..WalkSteps
      BY HopsAssumption
    <2>2. Going(Start(parts, Root)) /\ Start(parts, Root).at = Root
      BY DEF Going, Start
    <2> QED
      BY <1>2, <2>1, <2>2, RootIsInside
  <1>4. ASSUME NEW n \in Nat, n \in good PROVE n + 1 \in good
    <2>1. SUFFICES ASSUME n + 1 \in 0..WalkSteps PROVE Good(n + 1)
      OBVIOUS
    <2>2. n \in 0..WalkSteps /\ n + 1 # 0 /\ (n + 1) - 1 = n
      BY <2>1, HopsAssumption
    <2>3. m[n + 1] = Turn(FALSE, t, follow, m[n])
      BY <1>2, <2>1, <2>2
    <2>4. Good(n)
      BY <1>4, <2>2
    <2> QED
      BY <2>3, <2>4, TurnsInside
  <1>5. Good(WalkSteps)
    <2>1. Nat \subseteq good
      <3> HIDE DEF good
      <3> QED
        BY <1>3, <1>4, NatSet
    <2>2. WalkSteps \in Nat /\ WalkSteps \in 0..WalkSteps
      BY HopsAssumption
    <2> QED
      BY <2>1, <2>2
  <1> DEFINE end == m[WalkSteps]
  <1> HIDE DEF end
  <1>6. Going(end) /\ (end.err = "none" => Inside(end.at)) /\ Resolve(t, Root, parts, follow) = Ended(t, end)
    BY <1>1, <1>5 DEF end
  <1>7. CASE end.err # "none"
    BY <1>6, <1>7 DEF Ended
  <1>8. CASE end.err = "none"
    <2>1. Ended(t, end) = [end EXCEPT !.err = Missing(t, end.at)]
      BY <1>8 DEF Ended, Failed
    <2>2. Ended(t, end).at = end.at
      BY <1>6, <2>1 DEF Going
    <2> QED
      BY <1>6, <1>8, <2>2
  <1> QED
    BY <1>7, <1>8

(* One call of the memory reader is answered, and nothing else happens.    *)
LEMMA MemReadResolves ==
    ASSUME ReaderInv, ResolvedInv, NEW parts, NEW follow \in BOOLEAN, MemRead(parts, follow)
    PROVE  ResolvedInv'
  <1> DEFINE one == CHOOSE c \in Callers : TRUE
             r == [pc |-> "done", method |-> IF follow THEN "Stat" ELSE "Readlink", parts |-> parts,
                   walk |-> IF ValidateSubpath(parts) THEN Resolve(tree, Root, parts, follow)
                            ELSE Failed(Start(parts, Root), "subpath")]
  <1>1. op' = [op EXCEPT ![one] = r] /\ tree' = tree /\ \A d \in Callers : op[d].pc = "idle"
    BY Zenon DEF MemRead, Step
  <1>2. /\ r.parts = parts /\ (r.method = "Stat") = follow
        /\ r.walk = IF ValidateSubpath(parts) THEN Resolve(tree, Root, parts, follow)
                    ELSE Failed(Start(parts, Root), "subpath")
    OBVIOUS
  <1>3. op = [c \in Callers |-> op[c]]
    BY DEF ReaderInv, TypeOK
  <1> HIDE DEF r, one
  <1>4. ASSUME NEW c \in Callers PROVE ResolvedCall(c)'
    <2>1. op'[c] = IF c = one THEN r ELSE op[c]
      BY <1>1, <1>3
    <2>2. CASE c = one
      BY <1>1, <1>2, <2>1, <2>2 DEF ResolvedCall
    <2>3. CASE c # one
      BY <1>1, <2>1, <2>3 DEF ResolvedCall
    <2> QED
      BY <2>2, <2>3
  <1> QED
    BY <1>4 DEF ResolvedInv

LEMMA NextResolves ==
    ASSUME ReaderInv, ResolvedInv, [Next]_vars
    PROVE  ResolvedInv'
  <1>1. ASSUME op' = op, mode' = mode, tree' = tree PROVE ResolvedInv'
    BY <1>1 DEF ResolvedInv, ResolvedCall
  <1>2. ASSUME mode = "os", mode' = mode PROVE ResolvedInv'
    BY <1>2 DEF ResolvedInv
  <1>3. ASSUME NEW k \in Closers, Close(k) PROVE ResolvedInv'
    BY <1>1, <1>3 DEF Close, CloseLoad, CloseSwap, CloseRelease
  <1>4. CASE Cancel \/ ForeignOpen \/ ForeignClose \/ UNCHANGED vars
    BY <1>1, <1>4 DEF Cancel, ForeignOpen, ForeignClose, vars
  <1>5. CASE Change
    BY <1>2, <1>5 DEF Change
  <1>6. ASSUME NEW c \in Callers, Method(c) PROVE ResolvedInv'
    <2>1. mode = "os"
      BY <1>6, MethodIsOS
    <2>2. mode' = mode
      BY <1>6, Zenon DEF Method, Quiet, Begin, Validate, LoadRoot, OpenAt, Inspect, Poll, Read, Getdents, CloseFd,
                  Return, Stat, Readlink, Access, StatFS, FileCapabilities, Lookup
    <2> QED
      BY <1>2, <2>1, <2>2
  <1>7. ASSUME NEW parts \in Subpaths, NEW follow \in BOOLEAN, MemRead(parts, follow) PROVE ResolvedInv'
    BY <1>7, MemReadResolves
  <1> QED
    BY <1>3, <1>4, <1>5, <1>6, <1>7 DEF Next

(* The component walk of the memory reader (resolvePath) never leaves its  *)
(* root; over a tree without absolute targets it finds what openat2 with   *)
(* RESOLVE_IN_ROOT finds, whatever the tree, the path and the two limits   *)
(* on links, except that it reports an escape and gives up after fewer.    *)
THEOREM MemoryReaderAgrees == Spec => []MemoryAgreesWithKernel
  <1>1. Init => ResolvedInv
    BY DEF Init, ResolvedInv, ResolvedCall, NoOp
  <1>2. ReaderInv /\ ResolvedInv /\ [Next]_vars => ResolvedInv'
    BY NextResolves
  <1>3. ResolvedInv => MemoryAgreesWithKernel
    <2> SUFFICES ASSUME ResolvedInv, mode = "memory", NEW c \in Callers, op[c].pc = "done", op[c].walk.err # "subpath"
                 PROVE  LET w == op[c].walk
                            k == KernelResolve(tree, Root, op[c].parts, op[c].method = "Stat")
                        IN  /\ w.err = "none" => Within(w.at, Root)
                            /\ RelativeOnly =>
                                 \/ w.err \in {"escape", "ELOOP"}
                                 \/ w.err = k.err /\ (w.err = "none" => w.at = k.at)
      BY DEF MemoryAgreesWithKernel
    <2> DEFINE w == op[c].walk
               follow == op[c].method = "Stat"
               parts == op[c].parts
    <2>1. w = Resolve(tree, Root, parts, follow)
      <3>1. Failed(Start(parts, Root), "subpath").err = "subpath"
        BY DEF Failed, Start
      <3> QED
        BY <3>1 DEF ResolvedInv, ResolvedCall
    <2>2. w.err = "none" => Within(w.at, Root)
      BY <2>1, WalkIsInside DEF Inside
    <2>3. RelativeOnly => w.err \in {"escape", "ELOOP"} \/ w = KernelResolve(tree, Root, parts, follow)
      BY <2>1, WalksAlike DEF RelativeOnly
    <2> QED
      BY <2>2, <2>3
  <1> QED
    BY ReaderInvariant, <1>1, <1>2, <1>3, PTL DEF Spec

=============================================================================
