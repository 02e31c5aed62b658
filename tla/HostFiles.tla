------------------------------ MODULE HostFiles ------------------------------
(***************************************************************************)
(* What the configuration probes see of a host: the calls of               *)
(* platform.ScopedView, each of which sees the host at one moment          *)
(* (ScopedReader says how).  A path is the sequence of its elements.       *)
(*                                                                         *)
(* A node is a configuration file [size, read, doc], a program [bits,      *)
(* exec], a directory [link, list, access, fs], a special file, or one     *)
(* that every call fails on.                                               *)
(***************************************************************************)
EXTENDS Naturals, Sequences, FiniteSets, SequencesExt, TLC

VARIABLES
    host,       \* the nodes by path
    cancelled,  \* the context has ended
    target      \* whom the configuration is for: the qualified Podman profile and the user

NodeOf(h, p) == IF p \in DOMAIN h THEN h[p] ELSE [is |-> "absent"]

StatError(h, p) ==
    LET is == NodeOf(h, p).is
    IN  CASE is = "absent" -> "ENOENT" [] is = "denied" -> "EACCES"
          [] is = "failing" -> "EIO" [] OTHER -> "ok"

ReadError(h, p) ==
    IF StatError(h, p) # "ok" THEN StatError(h, p)
    ELSE IF NodeOf(h, p).is = "file" THEN NodeOf(h, p).read ELSE "EIO"

LinkError(h, p) ==
    IF StatError(h, p) # "ok" THEN StatError(h, p)
    ELSE IF NodeOf(h, p).is = "dir" /\ NodeOf(h, p).link THEN "ok" ELSE "EINVAL"

ListError(h, p) ==
    IF StatError(h, p) # "ok" THEN StatError(h, p)
    ELSE IF NodeOf(h, p).is = "dir" THEN NodeOf(h, p).list ELSE "EIO"

(* The calls that take a context report its end before they touch a file.  *)
Ended(error) == IF cancelled THEN "ECANCELED" ELSE error

(* The names of a listing in the order in which ReadDir sorts them.        *)
Names == <<"10.conf", "20.conf", "?.conf", "README">>
ConfNames == {"10.conf", "20.conf", "?.conf"}

Entries(h, d) ==
    LET found == SelectSeq(Names, LAMBDA n : NodeOf(h, Append(d, n)).is # "absent")
    IN  [i \in DOMAIN found |-> Append(d, found[i])]

(* safeInfoPath *)
safeInfoPath(p) == "?" \notin ToSet(p) /\ Last(p) # "?.conf"

(* ExecutableAccess, DirectoryAccess and StatFS: "yes", "no" or, when they *)
(* fail, "unknown".                                                        *)
ExecutableAccess(h, p) ==
    LET node == NodeOf(h, p)
    IN  IF cancelled THEN "unknown"
        ELSE CASE node.is = "program" -> node.exec [] node.is = "file" -> "no" [] OTHER -> "unknown"

DirectoryAccess(h, p) ==
    IF cancelled \/ NodeOf(h, p).is # "dir" THEN "unknown" ELSE NodeOf(h, p).access

StatFS(h, p) ==
    IF cancelled \/ NodeOf(h, p).is # "dir" THEN "unknown" ELSE NodeOf(h, p).fs
=============================================================================
