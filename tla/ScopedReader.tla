---------------------------- MODULE ScopedReader ----------------------------
(***************************************************************************)
(* The readers of the target's file tree (platform/scoped_reader.go with   *)
(* bounded_io.go, directory.go, access.go, directory_access.go,            *)
(* file_capabilities.go and reader.go).                                    *)
(*                                                                         *)
(* mode = "os": ScopedOSReader.  Callers run file methods and closers run  *)
(* Close on one reader, whose directory descriptor is an atomic number;    *)
(* other code of the process opens and closes descriptors of its own, so   *)
(* numbers are reused; the tree changes between any two system calls.  One *)
(* subpath is read; `at` is the inode it names.  A file is its length, a   *)
(* directory a set of names.                                               *)
(*                                                                         *)
(* mode = "memory": ScopedMemReader over one of Trees; a method resolves   *)
(* its path in one step, under the read lock.                              *)
(***************************************************************************)
EXTENDS Integers, FiniteSets, FiniteSetsExt, MemoryPath

CONSTANTS Callers, Closers,              \* goroutines
          Scenarios,                     \* what each goroutine calls, and the disk at first
          Inodes, Replacements, KindOf, None, \* KindOf: regular, directory, special, link
          MaxFd,                         \* descriptors the process may have
          FileBytes, Chunk,              \* limits.FileBytes, ioChunkBytes
          InterruptedRetries,            \* interruptedRetries
          Entries, NameBytes, EntryLimit, NameLimit,
          OpenErrors, MaxChanges,
          Trees, Root, Subpaths          \* of the memory reader

ASSUME ReaderAssumption ==
    /\ MaxFd \in Nat /\ FileBytes \in Nat /\ Chunk \in Nat
    /\ InterruptedRetries \in Nat /\ EntryLimit \in Nat /\ NameLimit \in Nat
    /\ {"nobody", "reader", "other"} \cap (Callers \cup Closers) = {}
    /\ Callers \cap Closers = {}
    /\ None \notin Inodes /\ Replacements \subseteq Inodes \cup {None}
    /\ KindOf \in [Inodes -> {"regular", "directory", "special", "link"}]
    /\ IsFiniteSet(Entries) /\ NameBytes \in [Entries -> Nat]
    /\ Root \in Seq(Range(Root))
    /\ {"closed", "ctx", "changed", "limit", "incomplete"} \cap OpenErrors = {}

VARIABLES mode, tree, calls,
          rootfd,      \* ScopedOSReader.fd
          table,       \* the process's descriptors: whose, and for what
          at, size, children,            \* what is on disk
          op,          \* one call of a file method per caller
          closer,      \* one call of Close per closer
          cancelled, changes,
          stray        \* history: a descriptor was used or closed by another than its owner

disk == <<at, size, children>>
vars == <<mode, tree, calls, rootfd, table, disk, op, closer, cancelled, changes, stray>>

(* Mutant: zero marks the closed reader, although it is a valid descriptor. *)
sentinelZero == 0

sentinelClosedRootFD == -1

Fds == 0..MaxFd
Unused == [by |-> "nobody", to |-> None]
Free == {f \in Fds : table[f] = Unused}
Dots == {"."}
Regulars == {i \in Inodes : KindOf[i] = "regular"}
Directories == {i \in Inodes : KindOf[i] = "directory"}
Present == IF at = None THEN {} ELSE {at}
Bytes(names) == FoldSet(LAMBDA n, sum : NameBytes[n] + sum, 0, names)

Checked == {"ReadFile", "FileCapabilities"}                   \* through checkedRegular
Recorded == Checked \cup {"ReadDir"}                            \* what the properties are about
Contextless == {"Stat", "Readlink"}
NeedsDirectory == {"ReadDir", "DirectoryAccess"}              \* opened with O_DIRECTORY

CtxErr == IF cancelled THEN {"ctx"} ELSE {}
incomplete(err) == IF err = {} THEN {} ELSE err \cup {"incomplete"}
LimitError == {"limit", "incomplete"}

Methods == {"ReadFile", "FileCapabilities", "ReadDir", "Stat", "Readlink",
            "ExecutableAccess", "DirectoryAccess", "StatFS"}

(* What goes on at first: what each caller calls, on which file tree.      *)
ASSUME ScenariosAssumption ==
    /\ Scenarios # {}
    /\ \A s \in Scenarios :
          /\ s.at \in Inodes \cup {None}
          /\ s.size \in [Regulars -> Nat]
          /\ s.children \in SUBSET Entries
          /\ \A c \in DOMAIN s.calls : c \in Callers => s.calls[c] \in Methods

NoOp == [pc |-> "idle", method |-> "none", fd |-> sentinelClosedRootFD, fds |-> <<>>,
         before |-> None, data |-> 0, retries |-> 0, err |-> {},
         returned |-> {}, chunk |-> {}, out |-> {},
         late |-> FALSE, seen |-> {}, sizes |-> {}, always |-> {}, ever |-> {}]

Init ==
    /\ mode \in {"os", "memory"}
    /\ tree \in IF mode = "memory" THEN Trees ELSE {CHOOSE t \in Trees : TRUE}
    /\ rootfd = 0
    /\ table = [f \in Fds |-> IF f = 0 THEN [by |-> "reader", to |-> "root"] ELSE Unused]
    /\ \E s \in IF mode = "os" THEN Scenarios ELSE {CHOOSE s \in Scenarios : TRUE} :
          at = s.at /\ size = s.size /\ children = s.children /\ calls = s.calls
    /\ op = [c \in Callers |-> NoOp]
    /\ closer = [k \in Closers |-> [pc |-> "idle", old |-> sentinelClosedRootFD]]
    /\ cancelled = FALSE /\ changes = 0 /\ stray = FALSE

---------------------------------------------------------------------------
(* A file method of the OS reader.                                         *)

Step(c, r) == op' = [op EXCEPT ![c] = r]
Fail(c, err) == Step(c, [op[c] EXCEPT !.err = err, !.pc = "close"])
Quiet == UNCHANGED <<mode, tree, calls, rootfd, disk, closer, cancelled, changes>>
NoDescriptors == UNCHANGED <<table, stray>>

Closing == \E k \in Closers : closer[k].pc \notin {"idle", "done"}
Reading == \E c \in Callers : op[c].pc \notin {"idle", "done"}

(* The callers keep the interface's contract: no method while a Close runs *)
(* and no Close while a method does.                                       *)
Begin(c) ==
    /\ mode = "os" /\ op[c].pc = "idle" /\ c \in DOMAIN calls /\ ~Closing
    /\ LET begun == [NoOp EXCEPT !.pc = "validate", !.method = calls[c],
                                 !.late = \E k \in Closers : closer[k].pc = "done"]
       IN  Step(c, IF calls[c] \in Recorded
                   THEN [begun EXCEPT !.seen = Present, !.sizes = {size}, !.always = children, !.ever = children]
                   ELSE begun)
    /\ Quiet /\ NoDescriptors

(* validateRead; the two methods without a context go on to readSubpath's  *)
(* own check, and StatFS looks at the context before it does.              *)
Validate(c, valid) ==
    /\ op[c].pc = "validate"
    /\ LET err == IF op[c].method = "StatFS" /\ cancelled THEN CtxErr
                  ELSE IF rootfd = sentinelClosedRootFD THEN {"closed"}
                  ELSE IF ~valid THEN {"subpath"}
                  ELSE IF op[c].method \in Contextless THEN {} ELSE CtxErr
       IN  IF err = {} THEN Step(c, [op[c] EXCEPT !.pc = "load"]) ELSE Fail(c, err)
    /\ Quiet /\ NoDescriptors

(* readSubpath: checkOpen and rootFD.                                      *)
LoadRoot(c) ==
    /\ op[c].pc = "load"
    /\ IF rootfd = sentinelClosedRootFD THEN Fail(c, {"closed"})
       ELSE Step(c, [op[c] EXCEPT !.pc = "openat", !.fd = rootfd])
    /\ Quiet /\ NoDescriptors

(* What openat2 finds: only Readlink does not follow a link (a link here   *)
(* has no target).                                                         *)
Found(c) ==
    IF at = None THEN {"ENOENT"}
    ELSE IF KindOf[at] = "link" /\ op[c].method # "Readlink" THEN {"ENOENT"}
    ELSE IF KindOf[at] # "directory" /\ op[c].method \in NeedsDirectory THEN {"ENOTDIR"}
    ELSE {}

(* The kernel returns the lowest free number.                              *)
OpenAt(c) ==
    /\ op[c].pc = "openat"
    /\ stray' = (stray \/ table[op[c].fd] # [by |-> "reader", to |-> "root"])
    /\ \/ /\ Found(c) = {} /\ Free # {}
          /\ LET fd == Min(Free) IN
             /\ table' = [table EXCEPT ![fd] = [by |-> c, to |-> at]]
             /\ Step(c, [op[c] EXCEPT !.fds = Append(@, fd),
                           !.pc = IF op[c].method \in Checked THEN "inspect"
                                  ELSE IF op[c].method = "ReadDir" THEN "names" ELSE "query"])
       \/ /\ \E err \in {Found(c)} \cup {{e} : e \in OpenErrors} \cup (IF Free = {} THEN {{"EMFILE"}} ELSE {}) :
                err # {} /\ Fail(c, err)
          /\ UNCHANGED table
    /\ Quiet

Target(c) == table[Last(op[c].fds)].to

(* checkedRegular, on the O_PATH descriptor and then on the data one.      *)
regularMode(i) ==
    CASE KindOf[i] = "regular" -> {} [] KindOf[i] = "directory" -> {"EISDIR"} [] OTHER -> {"type"}

(* Mutant: the data descriptor is not compared with the checked one.       *)
InspectUncompared(c) ==
    /\ op[c].pc = "inspect"
    /\ LET r == op[c]
           err == IF regularMode(Target(c)) # {} THEN regularMode(Target(c)) ELSE CtxErr
       IN  IF err # {} THEN Fail(c, err)
           ELSE IF Len(r.fds) = 1 THEN Step(c, [r EXCEPT !.before = Target(c), !.pc = "load"])
           ELSE Step(c, [r EXCEPT !.pc = IF r.method = "ReadFile" THEN "poll" ELSE "query"])
    /\ Quiet /\ NoDescriptors

Inspect(c) ==
    /\ op[c].pc = "inspect"
    /\ LET r == op[c]
           changed == IF Len(r.fds) = 2 /\ r.before # Target(c) THEN {"changed"} ELSE {}
           err == IF regularMode(Target(c)) # {} THEN regularMode(Target(c))
                  ELSE IF changed # {} THEN changed
                  ELSE CtxErr
       IN  IF err # {} THEN Fail(c, err)
           ELSE IF Len(r.fds) = 1 THEN Step(c, [r EXCEPT !.before = Target(c), !.pc = "load"])
           ELSE Step(c, [r EXCEPT !.pc = IF r.method = "ReadFile" THEN "poll" ELSE "query"])
    /\ Quiet /\ NoDescriptors

(* An interrupted call is repeated a bounded number of times in a row.     *)
(* Mutant: interrupted calls are not counted.                              *)
RetriedUncounted(r) == r

Retried(r) == [r EXCEPT !.retries = @ + 1]

(* readBounded: the context before each read ...                           *)
Poll(c) ==
    /\ op[c].pc = "poll"
    /\ IF cancelled THEN Fail(c, incomplete(CtxErr)) ELSE Step(c, [op[c] EXCEPT !.pc = "read"])
    /\ Quiet /\ NoDescriptors

(* ... and one read of at most one byte more than may be kept.             *)
Read(c) ==
    /\ op[c].pc = "read"
    /\ LET r == op[c]
           remaining == FileBytes - r.data
           left == IF size[Target(c)] > r.data THEN size[Target(c)] - r.data ELSE 0
           most == Min({Chunk, FileBytes + 1, remaining + 1, left})
       IN  \/ \E n \in 1..most :
                 IF n > remaining
                 THEN Step(c, [r EXCEPT !.data = FileBytes, !.pc = "close",
                                        !.err = LimitError \cup incomplete(CtxErr)])
                 ELSE Step(c, [r EXCEPT !.data = @ + n, !.retries = 0, !.pc = "poll"])
           \/ left = 0 /\ Fail(c, incomplete(CtxErr))
           \/ IF r.retries < InterruptedRetries
              THEN Step(c, [Retried(r) EXCEPT !.pc = "poll"])
              ELSE Fail(c, incomplete({"EINTR"} \cup CtxErr))
           \/ Fail(c, incomplete({"EIO"} \cup CtxErr))
    /\ Quiet /\ NoDescriptors

(* directoryNames: one getdents chunk.  A name that stays in the directory *)
(* is returned once; one that comes or goes may be.                        *)
Getdents(c) ==
    /\ op[c].pc = "names"
    /\ LET r == op[c] IN
       IF cancelled THEN Fail(c, incomplete(CtxErr))
       ELSE \/ \E names \in SUBSET (children \ r.returned) :
                  names # {} /\ Step(c, [r EXCEPT !.returned = @ \cup names, !.chunk = names,
                                                  !.retries = 0, !.pc = "lookup"])
            \/ r.always \subseteq r.returned /\ Fail(c, incomplete(CtxErr))
            \/ IF r.retries < InterruptedRetries
               THEN Step(c, Retried(r))
               ELSE Fail(c, incomplete({"EINTR"} \cup CtxErr))
            \/ Fail(c, incomplete({"EIO"} \cup CtxErr))
    /\ Quiet /\ NoDescriptors

(* captureDirectory: the limits count every name met, a child that has     *)
(* vanished is left out, any other failing lookup discards everything.     *)
(* Mutant: "." and ".." count against the limits.                          *)
MetWithDots(r) == r.returned \ r.chunk

Met(r) == r.returned \ (r.chunk \cup Dots)

Lookup(c, name) ==
    /\ op[c].pc = "lookup" /\ name \in op[c].chunk
    /\ LET r == op[c]
           on == [r EXCEPT !.chunk = @ \ {name}, !.pc = IF r.chunk = {name} THEN "names" ELSE "lookup"]
       IN  IF cancelled THEN Fail(c, incomplete(CtxErr))
           ELSE IF name \in Dots THEN Step(c, on)
           ELSE IF \/ Cardinality(Met(r)) = EntryLimit
                   \/ NameBytes[name] > NameLimit - Bytes(Met(r))
                THEN Fail(c, LimitError)
           ELSE \/ Step(c, [on EXCEPT !.out = IF name \in children THEN @ \cup {name} ELSE @])
                \/ Step(c, [r EXCEPT !.out = {}, !.err = {"lookup"} \cup CtxErr, !.pc = "close"])
    /\ Quiet /\ NoDescriptors

(* The methods of one query.  data = 1 is a measured value.                *)
Querying(c, methods) == op[c].pc = "query" /\ op[c].method \in methods
Measured(c) == [op[c] EXCEPT !.data = 1, !.pc = "close"]
Answer(c) == Step(c, Measured(c)) \/ Fail(c, {"EACCES"}) \/ Fail(c, {"EIO"})

Stat(c) == Querying(c, {"Stat"}) /\ Answer(c) /\ Quiet /\ NoDescriptors

(* An O_PATH descriptor of something else than a link is not asked for its target. *)
Readlink(c) ==
    /\ Querying(c, {"Readlink"})
    /\ IF KindOf[Target(c)] = "link" THEN Answer(c) ELSE Fail(c, {"EINVAL"})
    /\ Quiet /\ NoDescriptors

Access(c) ==
    /\ Querying(c, {"ExecutableAccess", "DirectoryAccess"})
    /\ Answer(c) /\ Quiet /\ NoDescriptors

StatFS(c) == Querying(c, {"StatFS"}) /\ Answer(c) /\ Quiet /\ NoDescriptors

(* readCapabilityAttribute: present, ENODATA, ERANGE or another error. *)
FileCapabilities(c) ==
    /\ Querying(c, {"FileCapabilities"})
    /\ \/ Step(c, [Measured(c) EXCEPT !.err = incomplete(CtxErr)])
       \/ Fail(c, CtxErr)
       \/ Fail(c, {"ERANGE"} \cup LimitError \cup CtxErr)
       \/ Fail(c, {"EIO"} \cup CtxErr)
    /\ Quiet /\ NoDescriptors

(* The deferred closes, innermost first; then the result.  A denial is an  *)
(* answer of the two access queries.                                       *)
CloseFd(c) ==
    /\ op[c].pc = "close" /\ op[c].fds # <<>>
    /\ LET fd == Last(op[c].fds) IN
       /\ stray' = (stray \/ table[fd].by # c)
       /\ table' = [table EXCEPT ![fd] = Unused]
       /\ Step(c, [op[c] EXCEPT !.fds = Front(@)])
    /\ Quiet

Return(c) ==
    /\ op[c].pc = "close" /\ op[c].fds = <<>>
    /\ LET r == op[c]
           denied == r.method \in {"ExecutableAccess", "DirectoryAccess"} /\ "EACCES" \in r.err
       IN  Step(c, [r EXCEPT !.pc = "done", !.err = IF denied THEN {} ELSE @,
                              !.fd = NoOp.fd, !.retries = 0, !.returned = {}, !.chunk = {}])
    /\ Quiet /\ NoDescriptors

---------------------------------------------------------------------------
(* Close: load, compare and swap, close the number that was swapped out.   *)

CloseLoad(k) ==
    /\ mode = "os" /\ k \in DOMAIN calls /\ closer[k].pc \in {"idle", "again"}
    /\ closer[k].pc = "idle" => ~Reading
    /\ closer' = [closer EXCEPT ![k] = [pc |-> IF rootfd = sentinelClosedRootFD THEN "done" ELSE "swap",
                                        old |-> rootfd]]
    /\ UNCHANGED <<mode, tree, calls, rootfd, table, disk, op, cancelled, changes, stray>>

(* Mutant: Close stores the sentinel without comparing.                    *)
CloseStore(k) ==
    /\ closer[k].pc = "swap"
    /\ rootfd' = sentinelClosedRootFD
    /\ closer' = [closer EXCEPT ![k].pc = "release"]
    /\ UNCHANGED <<mode, tree, calls, table, disk, op, cancelled, changes, stray>>

CloseSwap(k) ==
    /\ closer[k].pc = "swap"
    /\ IF rootfd = closer[k].old
       THEN rootfd' = sentinelClosedRootFD /\ closer' = [closer EXCEPT ![k].pc = "release"]
       ELSE closer' = [closer EXCEPT ![k].pc = "again"] /\ UNCHANGED rootfd
    /\ UNCHANGED <<mode, tree, calls, table, disk, op, cancelled, changes, stray>>

CloseRelease(k) ==
    /\ closer[k].pc = "release"
    /\ stray' = (stray \/ table[closer[k].old].by # "reader")
    /\ table' = [table EXCEPT ![closer[k].old] = Unused]
    /\ closer' = [closer EXCEPT ![k].pc = "done"]
    /\ UNCHANGED <<mode, tree, calls, rootfd, disk, op, cancelled, changes>>

---------------------------------------------------------------------------
(* The memory reader: validateRead, resolvePath and the answer.  Reads     *)
(* share nothing but the tree, so one is enough.                           *)
MemRead(parts, follow) ==
    /\ mode = "memory" /\ \A d \in Callers : op[d].pc = "idle"
    /\ Step(CHOOSE c \in Callers : TRUE,
            [pc |-> "done", method |-> IF follow THEN "Stat" ELSE "Readlink", parts |-> parts,
             walk |-> IF ValidateSubpath(parts) THEN Resolve(tree, Root, parts, follow)
                      ELSE Failed(Start(parts, Root), "subpath")])
    /\ UNCHANGED <<mode, tree, calls, rootfd, table, disk, closer, cancelled, changes, stray>>

---------------------------------------------------------------------------
(* What happens around the reader; a change while no method runs is        *)
(* another initial disk.                                                   *)

Change ==
    /\ Reading /\ mode = "os" /\ changes < MaxChanges
    /\ \/ at' \in Replacements \ {at} /\ UNCHANGED <<size, children>>
       \/ \E i \in Present \cap Regulars, n \in 0..(FileBytes + 1) :
             size[i] # n /\ size' = [size EXCEPT ![i] = n] /\ UNCHANGED <<at, children>>
       \/ \E n \in Entries \ Dots :
             /\ at \in Directories
             /\ children' = IF n \in children THEN children \ {n} ELSE children \cup {n}
             /\ UNCHANGED <<at, size>>
    /\ changes' = changes + 1
    /\ op' = [c \in Callers |->
                IF op[c].pc \in {"idle", "done"} \/ op[c].method \notin Recorded THEN op[c]
                ELSE [op[c] EXCEPT !.seen = @ \cup Present', !.sizes = @ \cup {size'},
                                   !.always = @ \cap children', !.ever = @ \cup children']]
    /\ UNCHANGED <<mode, tree, calls, rootfd, table, closer, cancelled, stray>>

Cancel ==
    /\ Reading /\ mode = "os" /\ ~cancelled /\ cancelled' = TRUE
    /\ UNCHANGED <<mode, tree, calls, rootfd, table, disk, op, closer, changes, stray>>

(* Other code of the process, where the scenario has it, opens a           *)
(* descriptor and closes it.                                               *)
ForeignOpen ==
    /\ mode = "os" /\ "other" \in DOMAIN calls /\ \A f \in Fds : table[f].by # "other"
    /\ Free # {} /\ table' = [table EXCEPT ![Min(Free)] = [by |-> "other", to |-> None]]
    /\ UNCHANGED <<mode, tree, calls, rootfd, disk, op, closer, cancelled, changes, stray>>

ForeignClose ==
    /\ \E f \in Fds : table[f].by = "other" /\ table' = [table EXCEPT ![f] = Unused]
    /\ UNCHANGED <<mode, tree, calls, rootfd, disk, op, closer, cancelled, changes, stray>>

Method(c) ==
    \/ Begin(c)
    \/ \E valid \in BOOLEAN : Validate(c, valid)
    \/ LoadRoot(c) \/ OpenAt(c) \/ Inspect(c) \/ Poll(c) \/ Read(c)
    \/ Getdents(c) \/ CloseFd(c) \/ Return(c)
    \/ Stat(c) \/ Readlink(c) \/ Access(c) \/ StatFS(c) \/ FileCapabilities(c)
    \/ \E n \in Entries : Lookup(c, n)

Close(k) == CloseLoad(k) \/ CloseSwap(k) \/ CloseRelease(k)

Next ==
    \/ \E c \in Callers : Method(c)
    \/ \E k \in Closers : Close(k)
    \/ \E parts \in Subpaths, follow \in BOOLEAN : MemRead(parts, follow)
    \/ Change \/ Cancel \/ ForeignOpen \/ ForeignClose

(* A goroutine that can go on does: every system call of a method returns. *)
Fairness ==
    /\ \A c \in Callers : WF_vars(Method(c) /\ op[c].pc # "idle")
    /\ \A k \in Closers : WF_vars(Close(k) /\ closer[k].pc # "idle")

Spec == Init /\ [][Next]_vars /\ Fairness

---------------------------------------------------------------------------
(* Every descriptor is used and closed by its owner only, although numbers *)
(* are reused: the reader's own until the one Close that takes it away     *)
(* releases it, a call's own until its deferred closes; none is leaked.    *)
Owned ==
    /\ ~stray
    /\ rootfd # sentinelClosedRootFD => table[rootfd] = [by |-> "reader", to |-> "root"]
    /\ \A f \in Fds :
          /\ table[f].by = "reader" =>
                f = rootfd \/ \E k \in Closers : closer[k].pc = "release" /\ closer[k].old = f
          /\ table[f].by \in Callers => f \in Range(op[table[f].by].fds)

Done(c, methods) == op[c].pc = "done" /\ op[c].method \in methods

(* A file that is replaced, grows or shrinks between the check, the open   *)
(* and the reads does not make readBounded or checkedRegular lie: data is  *)
(* that of a regular file the path named during the call, no more than the *)
(* limit; without an error it is all of it, as long as it is still; data   *)
(* with an error is marked incomplete, and the limit and the replacement   *)
(* are reported only where they happened.                                  *)
ReadsAreFaithful ==
    mode = "os" => \A c \in Callers : Done(c, Checked) =>
        LET r == op[c] IN
        /\ r.data > 0 \/ r.err = {} => r.before \in r.seen \cap Regulars
        /\ r.data > 0 /\ r.err # {} => "incomplete" \in r.err
        /\ "changed" \in r.err => r.seen # {r.before}
        /\ r.method = "ReadFile" =>
             /\ r.data <= FileBytes
             /\ r.err = {} => \E s, t \in r.sizes : s[r.before] <= r.data /\ r.data <= t[r.before]
             /\ "limit" \in r.err => r.data = FileBytes /\ \E s \in r.sizes : s[r.before] > FileBytes

(* What a ReadDir tells of the names that were there meanwhile.            *)
ListingIsFaithful(r) ==
    LET names == r.ever \ Dots
    IN  /\ r.out \subseteq names
        /\ r.err = {} => r.always \ Dots \subseteq r.out
        /\ r.out # {} /\ r.err # {} => "incomplete" \in r.err
        /\ Cardinality(r.out) <= EntryLimit /\ Bytes(r.out) <= NameLimit
        /\ "limit" \in r.err => Cardinality(names) > EntryLimit \/ Bytes(names) > NameLimit

(* A listing without an error holds every name that was there throughout   *)
(* and none that never was; one that stops early says so, a failed lookup  *)
(* leaves nothing, and captureDirectory's limits bound what is kept and    *)
(* are reported only for a directory that has more.                        *)
ListingsAreFaithful ==
    mode = "os" => \A c \in Callers : Done(c, {"ReadDir"}) => ListingIsFaithful(op[c])

(* A method called after a Close answers ErrClosed, unless it is StatFS    *)
(* with a context that has ended, and no other method does; a Close that   *)
(* has returned, the one that lost the race included, leaves the reader    *)
(* closed.                                                                 *)
ClosedForGood ==
    /\ mode = "os" => \A c \in Callers : op[c].pc = "done" =>
          /\ "closed" \in op[c].err => op[c].late
          /\ op[c].late => "closed" \in op[c].err \/ (op[c].method = "StatFS" /\ op[c].err = {"ctx"})
    /\ \A k \in Closers : closer[k].pc = "done" => rootfd = sentinelClosedRootFD

(* A reader's descriptors have one owner each, from New to the one Close   *)
(* that takes effect, however the reads and the Closes overlap.            *)
DescriptorsAreOwned == Owned /\ ClosedForGood

(* Absolute targets are where the two readers differ by design.            *)
RelativeOnly == \A p \in DOMAIN tree : tree[p].kind = "link" => ~tree[p].abs

(* The memory reader never leaves its root; where no target is absolute it *)
(* finds exactly what the kernel finds, except that it reports an escape   *)
(* where the kernel stays at the root, and gives up after fewer links.     *)
MemoryAgreesWithKernel ==
    mode = "memory" => \A c \in Callers : op[c].pc = "done" /\ op[c].walk.err # "subpath" =>
        LET w == op[c].walk
            k == KernelResolve(tree, Root, op[c].parts, op[c].method = "Stat")
        IN  /\ w.err = "none" => Within(w.at, Root)
            /\ RelativeOnly =>
                 \/ w.err \in {"escape", "ELOOP"}
                 \/ w.err = k.err /\ (w.err = "none" => w.at = k.at)

(* Every call ends: interrupted system calls, growing files and growing    *)
(* directories included, and so does a Close that races another.           *)
OperationsEnd ==
    /\ \A c \in Callers : op[c].pc # "idle" ~> op[c].pc = "done"
    /\ \A k \in Closers : closer[k].pc # "idle" ~> closer[k].pc = "done"

---------------------------------------------------------------------------
(* Why the properties hold: the inductive invariant of ScopedReaderProofs. *)

Errors == {"closed", "ctx", "subpath", "ENOENT", "ENOTDIR", "EMFILE", "EISDIR", "type", "changed",
           "incomplete", "limit", "EINTR", "EIO", "lookup", "EACCES", "EINVAL", "ERANGE"} \cup OpenErrors

CallType == [pc : {"idle", "validate", "load", "openat", "inspect", "poll", "read", "names",
                   "lookup", "query", "close", "done"},
             method : Methods \cup {"none"}, fd : Fds \cup {sentinelClosedRootFD}, fds : Seq(Fds),
             before : Inodes \cup {None}, data : Nat, retries : Nat, err : SUBSET Errors,
             returned : SUBSET Entries, chunk : SUBSET Entries, out : SUBSET Entries,
             late : BOOLEAN, seen : SUBSET Inodes, sizes : SUBSET [Regulars -> Nat],
             always : SUBSET Entries, ever : SUBSET Entries]

TypeOK ==
    /\ mode \in {"os", "memory"}
    /\ \A c \in DOMAIN calls : c \in Callers => calls[c] \in Methods
    /\ rootfd \in {0, sentinelClosedRootFD}
    /\ table = [f \in Fds |-> [by |-> table[f].by, to |-> table[f].to]]
    /\ \A f \in Fds : table[f].by \in Callers \cup {"nobody", "reader", "other"}
    /\ at \in Inodes \cup {None} /\ size \in [Regulars -> Nat] /\ children \in SUBSET Entries
    /\ op = [c \in Callers |-> op[c]] /\ (mode = "os" => op \in [Callers -> CallType])
    /\ closer \in [Closers -> [pc : {"idle", "swap", "again", "release", "done"},
                               old : {0, sentinelClosedRootFD}]]
    /\ cancelled \in BOOLEAN

(* The memory reader has no descriptors.                                   *)
MemoryInv ==
    mode = "memory" =>
        /\ \A c \in Callers : op[c].pc \in {"idle", "done"}
        /\ \A k \in Closers : closer[k].pc = "idle"
        /\ rootfd = 0 /\ \A f \in Fds : table[f].by \in {"nobody", "reader"}

(* The reader's own descriptor, the one Close that takes it away, and the  *)
(* callers' contract.                                                      *)
RootInv ==
    /\ ~stray
    /\ rootfd = 0 => table[0] = [by |-> "reader", to |-> "root"]
    /\ rootfd # 0 => \E k \in Closers : closer[k].pc \in {"release", "done"}
    /\ \A f \in Fds : table[f].by = "reader" =>
          f = 0 /\ (rootfd = 0 \/ \E k \in Closers : closer[k].pc = "release")
    /\ \A k \in Closers :
          /\ closer[k].pc \in {"swap", "release"} => closer[k].old = 0
          /\ closer[k].pc = "release" => table[0].by = "reader"
          /\ closer[k].pc \in {"release", "done"} => rootfd = sentinelClosedRootFD
    /\ \A k, l \in Closers : closer[k].pc = "release" /\ closer[l].pc = "release" => k = l
    /\ ~(Reading /\ Closing)

(* The descriptors of a call are its own, and there are no others.         *)
FdsCall(c) ==
    LET r == op[c] IN
    /\ \A i \in DOMAIN r.fds : table[r.fds[i]].by = c
    /\ \A i, j \in DOMAIN r.fds : r.fds[i] = r.fds[j] => i = j
    /\ r.pc \in {"idle", "validate", "done"} => r.fds = <<>>

FdsInv ==
    /\ mode = "os" => \A c \in Callers : FdsCall(c)
    /\ \A f \in Fds : table[f].by \in Callers =>
          mode = "os" /\ f \in Range(op[table[f].by].fds)

(* A call on a closed reader fails before it uses the number it holds.     *)
LateCall(c) ==
    LET r == op[c] IN
    /\ r.pc \notin {"idle", "done"} => (r.late <=> rootfd # 0)
    /\ r.pc = "openat" => r.fd = 0
    /\ r.late => r.pc \in {"validate", "close", "done"}
    /\ r.pc \notin {"close", "done"} => r.err = {}
    /\ "closed" \in r.err => r.late
    /\ r.late /\ r.pc \in {"close", "done"} =>
         r.err = {"closed"} \/ (r.method = "StatFS" /\ r.err = {"ctx"})

LateInv == mode = "os" => \A c \in Callers : LateCall(c)

(* What checkedRegular and readBounded know of the file they read.         *)
CheckedCall(c) ==
    LET r == op[c] IN
    /\ r.pc \in {"inspect", "poll", "read"} => r.method \in Checked
    /\ r.method \in Checked =>
        /\ r.pc \notin {"idle", "done"} => Present \subseteq r.seen /\ size \in r.sizes
        /\ r.pc \notin {"names", "lookup"}
        /\ \A i \in DOMAIN r.fds : table[r.fds[i]].to \in r.seen
        /\ r.before # None => r.before \in r.seen \cap Regulars
        /\ r.pc \in {"load", "openat"} => Len(r.fds) <= 1 /\ (Len(r.fds) = 1 => r.before # None)
        /\ r.pc = "inspect" => Len(r.fds) \in {1, 2} /\ (Len(r.fds) = 2 => r.before # None)
        /\ r.pc \in {"poll", "read", "query"} => Len(r.fds) = 2 /\ Target(c) = r.before /\ r.before # None
        /\ r.pc \in {"poll", "read"} => r.method = "ReadFile"
        /\ r.data > 0 \/ (r.pc \in {"close", "done"} /\ r.err = {}) => r.before # None
        /\ r.pc \notin {"poll", "read", "close", "done"} => r.data = 0
        /\ r.pc \in {"poll", "read"} => \E t \in r.sizes : r.data <= t[r.before]
        /\ r.data > 0 /\ r.err # {} => "incomplete" \in r.err
        /\ "changed" \in r.err => \E i \in r.seen : i # r.before
        /\ r.method = "ReadFile" =>
             /\ r.data <= FileBytes
             /\ r.pc \in {"close", "done"} /\ r.err = {} =>
                  \E s, t \in r.sizes : s[r.before] <= r.data /\ r.data <= t[r.before]
             /\ "limit" \in r.err => r.data = FileBytes /\ \E s \in r.sizes : s[r.before] > FileBytes

CheckedInv == mode = "os" => \A c \in Callers : CheckedCall(c)

(* What directoryNames and captureDirectory know of the names met so far.  *)
ListedCall(c) ==
    LET r == op[c]
    IN  /\ r.pc \in {"names", "lookup"} => r.method = "ReadDir"
        /\ r.method = "ReadDir" =>
             /\ r.pc \notin {"inspect", "poll", "read", "query"}
             /\ r.pc \notin {"idle", "done"} => r.always \subseteq children /\ children \subseteq r.ever
             /\ r.pc \in {"validate", "load", "openat"} => r.returned = {} /\ r.chunk = {} /\ r.out = {}
             /\ r.pc = "names" => r.chunk = {}
             /\ r.pc \in {"names", "lookup"} =>
                  /\ r.chunk \subseteq r.returned /\ r.returned \subseteq r.ever
                  /\ r.out \subseteq Met(r) /\ r.always \cap Met(r) \subseteq r.out
                  /\ Cardinality(Met(r)) <= EntryLimit /\ Bytes(Met(r)) <= NameLimit
             /\ r.pc \in {"close", "done"} => ListingIsFaithful(r)

ListingInv == mode = "os" => \A c \in Callers : ListedCall(c)

(* A call of the memory reader is answered by one walk of the tree.        *)
ResolvedCall(c) ==
    op[c].pc = "done" =>
        op[c].walk = IF ValidateSubpath(op[c].parts)
                     THEN Resolve(tree, Root, op[c].parts, op[c].method = "Stat")
                     ELSE Failed(Start(op[c].parts, Root), "subpath")

ResolvedInv == mode = "memory" => \A c \in Callers : ResolvedCall(c)

ReaderInv == TypeOK /\ MemoryInv /\ RootInv /\ FdsInv /\ LateInv /\ CheckedInv
=============================================================================
