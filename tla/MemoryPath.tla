----------------------------- MODULE MemoryPath -----------------------------
(***************************************************************************)
(* Path resolution below a root: the lexical check every scoped method     *)
(* makes (platform/path.go), the component walk of the in-memory reader    *)
(* (platform/memory_path.go) and, as the reference, the walk of the kernel *)
(* for openat2 with RESOLVE_IN_ROOT, which the OS reader relies on.        *)
(*                                                                         *)
(* A path is the sequence of its components; the empty component stands    *)
(* for a doubled or trailing slash.  A tree maps absolute paths to nodes   *)
(* [kind, target, abs], kind being dir, file, link or forced (an entry     *)
(* with ForcedErr).  Hops are bounded by the caller, so a walk takes a     *)
(* bounded number of steps: WalkSteps.                                     *)
(***************************************************************************)
EXTENDS Naturals, Sequences, SequencesExt

CONSTANTS WalkSteps,     \* at least the steps of the longest walk
          MemoryHops,    \* maxSymlinkDepthMemory
          KernelHops     \* the kernel's own limit

(* The memory reader gives up no later than the kernel does.               *)
ASSUME HopsAssumption ==
    /\ WalkSteps \in Nat /\ MemoryHops \in Nat /\ KernelHops \in Nat
    /\ MemoryHops <= KernelHops

(* filepath.Clean of a relative path, as far as it matters: the number of  *)
(* names left of every "..", or -1 once the path has left its start.       *)
Depth(parts) ==
    FoldLeft(LAMBDA d, part : IF d = -1 \/ part \in {"", "."} THEN d
                              ELSE IF part = ".." THEN d - 1
                              ELSE d + 1, 0, parts)

(* The subpaths every method accepts: not empty, not absolute (an empty    *)
(* first component) and never above the start.                             *)
ValidateSubpath(parts) == parts # <<>> /\ parts[1] # "" /\ Depth(parts) # -1

Parent(path) == IF path = <<>> THEN <<>> ELSE Front(path)
Within(path, root) == IsPrefix(root, path)

(* Mutant: only the top of the tree stops "..".                            *)
LeavesTree(path, root) == path = <<>>

(* Whether ".." at a path leaves the root.                                 *)
Leaves(path, root) == (path = root /\ root # <<>>) \/ ~Within(Parent(path), root)

Start(parts, root) == [at |-> root, pending |-> parts, hops |-> 0, err |-> "none"]
Failed(w, err) == [w EXCEPT !.err = err]

(* A forced error is reported wherever the entry is met.                   *)
Missing(tree, path) ==
    IF path \notin DOMAIN tree THEN "ENOENT"
    ELSE IF tree[path].kind = "forced" THEN "forced"
    ELSE "none"

(* Absolute targets are paths of the whole tree; those below the root go   *)
(* on from the root with what is left of them.                             *)
Expand(w, rest, node, root) ==
    LET hops == w.hops + 1 IN
    IF hops > MemoryHops THEN Failed(w, "ELOOP")
    ELSE IF node.target = <<>> THEN Failed(w, "ENOENT")
    ELSE IF node.abs /\ ~Within(node.target, root) THEN Failed(w, "escape")
    ELSE IF node.abs THEN [w EXCEPT !.hops = hops, !.at = root,
                          !.pending = SubSeq(node.target, Len(root) + 1, Len(node.target)) \o rest]
    ELSE [w EXCEPT !.hops = hops, !.pending = node.target \o rest]

WalkStep(tree, root, follow, w) ==
    LET part == Head(w.pending)
        rest == Tail(w.pending)
        next == Append(w.at, part)
        node == tree[next]
        on == [w EXCEPT !.pending = rest]
    IN  IF part \in {"", "."} THEN on
        ELSE IF part = ".." THEN
                IF Leaves(w.at, root)
                THEN Failed(w, "escape")
                ELSE [on EXCEPT !.at = Parent(w.at)]
        ELSE IF Missing(tree, next) # "none" THEN Failed(w, Missing(tree, next))
        ELSE IF node.kind = "link" /\ (follow \/ rest # <<>>) THEN Expand(w, rest, node, root)
        ELSE IF rest # <<>> /\ node.kind # "dir" THEN Failed(w, "ENOTDIR")
        ELSE [on EXCEPT !.at = next]

(* The kernel stays at the root where a path would leave it, and takes     *)
(* absolute targets below the root.                                        *)
KernelStep(tree, root, follow, w) ==
    LET part == Head(w.pending)
        rest == Tail(w.pending)
        next == Append(w.at, part)
        node == tree[next]
        on == [w EXCEPT !.pending = rest]
    IN  IF part \in {"", "."} THEN on
        ELSE IF part = ".." THEN [on EXCEPT !.at = IF w.at = root THEN root ELSE Parent(w.at)]
        ELSE IF Missing(tree, next) # "none" THEN Failed(w, Missing(tree, next))
        ELSE IF node.kind = "link" /\ (follow \/ rest # <<>>) THEN
                IF w.hops = KernelHops THEN Failed(w, "ELOOP")
                ELSE IF node.target = <<>> THEN Failed(w, "ENOENT")
                ELSE [w EXCEPT !.hops = @ + 1, !.pending = node.target \o rest,
                                        !.at = IF node.abs THEN root ELSE @]
        ELSE IF rest # <<>> /\ node.kind # "dir" THEN Failed(w, "ENOTDIR")
        ELSE [on EXCEPT !.at = next]

(* Where a walk ends, and its error.                                       *)
Walk(Step(_, _, _, _), tree, root, parts, follow) ==
    LET walk[n \in 0..WalkSteps] ==
            IF n = 0 THEN Start(parts, root)
            ELSE LET w == walk[n - 1] IN
                 IF w.pending = <<>> \/ w.err # "none" THEN w
                 ELSE Step(tree, root, follow, w)
        end == walk[WalkSteps]
    IN  IF end.err = "none" THEN Failed(end, Missing(tree, end.at)) ELSE end

Resolve(tree, root, parts, follow) == Walk(WalkStep, tree, root, parts, follow)
KernelResolve(tree, root, parts, follow) == Walk(KernelStep, tree, root, parts, follow)
=============================================================================
