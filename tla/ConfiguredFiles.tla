---------------------------- MODULE ConfiguredFiles ----------------------------
(***************************************************************************)
(* The files that the configuration names (src/internal/runtime/podman:    *)
(* configured_helpers.go, network_helpers.go, storage_metadata.go,         *)
(* storage_helpers.go, executables.go): the helpers Podman would start and *)
(* the directories it would store in.  Nothing is executed or written;     *)
(* what is recorded is which candidate is selected and what its metadata   *)
(* say.                                                                    *)
(***************************************************************************)
EXTENDS StorageSources

CONSTANTS MaxExecutableCandidates, MaxStoragePaths

VARIABLES
    probe,    \* the probe that runs, its calls one by one
    measured  \* the observations of the probes that ended, by role

NetworkRoles == {"netavark", "aardvark_dns", "pasta", "slirp4netns"}
EngineRoles == {"oci_runtime", "conmon"}
MountRole == "storage_mount_program"
HelperRoles == NetworkRoles \cup EngineRoles \cup {MountRole}
PathRoles == {"roots", "additional"}

NoProbe == [role |-> "none"]

Started(role, queue, complete) ==
    [role |-> role, queue |-> queue, complete |-> complete, seen |-> <<>>, found |-> <<>>,
     selected |-> <<>>]

-----------------------------------------------------------------------------
(* ConfiguredHelperProbe.paths: the configured candidates and the ones     *)
(* that a search of PATH adds; no candidate at all when Podman's built-in  *)
(* default decides.                                                        *)
Configured(texts) == [i \in DOMAIN texts |-> [path |-> texts[i], fallback |-> FALSE]]
Fallback(texts) == [i \in DOMAIN texts |-> [path |-> texts[i], fallback |-> TRUE]]
OnPath(name) == Fallback(<<<<"/", "usr", "bin", name>>, <<"/", "bin", name>>>>)

engineList(role) == IF role = "conmon" THEN "engine.conmon_path" ELSE "engine.runtimes.crun"

engineKnown(role) ==
    LET runtime == Text(engine.config, "engine.runtime")
    IN  /\ EngineUsable(engine) /\ ~engine.config.overrides
        /\ ~EnvironmentUnmodeled(engine.config.lists)
        /\ \/ role = "oci_runtime" /\ IsAbs(runtime)
           \/ /\ role = "oci_runtime" => runtime = <<"crun">>
              /\ Measured(engine.config.lists, engineList(role))

engineCandidates(role) ==
    LET runtime == Text(engine.config, "engine.runtime")
    IN  IF role = "oci_runtime" /\ IsAbs(runtime) THEN Configured(<<runtime>>) \o Fallback(<<runtime>>)
        ELSE Configured(engine.config.lists[engineList(role)].values)
             \o OnPath(IF role = "conmon" THEN "conmon" ELSE "crun")

NetworkUsable == network.selection /\ network.parse /\ network.complete

networkKnown(role) ==
    NetworkUsable /\ role \in DOMAIN network.plans /\ ~network.plans[role].inherited

(* StorageHelperProbes, for a configured mount program. *)
StorageUsable == storage.complete /\ storage.selection /\ storage.parse /\ storage.found

mountKnown ==
    LET program == storageMountProgram(storage.config)
    IN  StorageUsable /\ program # <<>> /\ safeInfoPath(program)

Known(role) ==
    CASE role \in NetworkRoles -> networkKnown(role)
      [] role \in EngineRoles -> engineKnown(role)
      [] OTHER -> mountKnown

Candidates(role) ==
    CASE role \in NetworkRoles -> Fallback(network.plans[role].values)
      [] role \in EngineRoles -> engineCandidates(role)
      [] OTHER -> Configured(<<storageMountProgram(storage.config)>>)

StartHelper(role) ==
    /\ probe = NoProbe
    /\ probe' = IF Known(role) /\ (role \in NetworkRoles => ~cancelled)
                THEN Started(role, Candidates(role), TRUE) ELSE Started(role, <<>>, FALSE)
    /\ UNCHANGED measured

-----------------------------------------------------------------------------
Running(roles) == probe.role \in roles
Calling(step) == Running(HelperRoles) /\ probe.queue # <<>> /\ (probe.found # <<>>) = (step = "access")

Seen(item, present, node) ==
    [path |-> item.path, present |-> present,
     regular |-> node.is \in {"program", "file"}, bits |-> node.is = "program" /\ node.bits,
     executable |-> IF present = "yes" THEN "no" ELSE "unknown"]

Stop == <<>>

(* The limit, the context and the name are looked at before the file is.   *)
HelperRefused ==
    /\ Calling("stat")
    /\ \/ Len(probe.seen) = MaxExecutableCandidates
       \/ cancelled
       \/ ~safeInfoPath(Head(probe.queue).path)
    /\ probe' = [probe EXCEPT !.queue = Stop, !.complete = FALSE]

(* candidate.  Configured candidates are selected for what they are, those *)
(* of a search only when they can be executed; a special file that the     *)
(* search might select leaves the selection unknown.                       *)
StatHelper ==
    LET item == Head(probe.queue)
        node == NodeOf(host, item.path)
        error == StatError(host, item.path)
        next == [probe EXCEPT !.queue = Tail(@)]
    IN  /\ Calling("stat") /\ ~cancelled
        /\ Len(probe.seen) < MaxExecutableCandidates /\ safeInfoPath(item.path)
        /\ \/ /\ error = "ENOENT"
              /\ probe' = [next EXCEPT !.seen = Append(@, Seen(item, "no", node))]
           \/ /\ error \notin {"ok", "ENOENT"}
              /\ probe' = [next EXCEPT !.seen = Append(@, Seen(item, "unknown", node)),
                                       !.complete = FALSE,
                                       !.queue = IF ~item.fallback /\ Running({"oci_runtime"})
                                                 THEN Stop ELSE @]
           \/ /\ error = "ok" /\ node.is \in {"program", "file"}
              /\ probe' = [probe EXCEPT !.found = <<Seen(item, "yes", node)>>]
           \/ /\ error = "ok" /\ node.is = "dir"
              /\ probe' = [next EXCEPT !.seen = Append(@, Seen(item, "yes", node))]
           \/ /\ error = "ok" /\ node.is = "special"
              /\ LET taken == ~item.fallback /\ Running({"conmon"})
                 IN  probe' = [next EXCEPT
                        !.seen = Append(@, Seen(item, "yes", node)),
                        !.selected = IF taken THEN item.path ELSE @,
                        !.queue = IF taken \/ item.fallback THEN Stop ELSE @,
                        !.complete = @ /\ ~item.fallback]

(* A candidate of a search taken although it cannot be executed. *)
AccessHelperAny ==
    LET item == Head(probe.queue)
        access == ExecutableAccess(host, item.path)
    IN  /\ Calling("access")
        /\ probe' = [probe EXCEPT
             !.seen = Append(@, [Head(probe.found) EXCEPT !.executable = access]),
             !.found = <<>>, !.complete = @ /\ access # "unknown",
             !.selected = item.path, !.queue = Stop]

(* executableFromInfo: the access of a regular file is a call of its own.  *)
AccessHelper ==
    LET item == Head(probe.queue)
        access == ExecutableAccess(host, item.path)
        taken == ~item.fallback \/ access = "yes"
    IN  /\ Calling("access")
        /\ probe' = [probe EXCEPT
             !.seen = Append(@, [Head(probe.found) EXCEPT !.executable = access]),
             !.found = <<>>, !.complete = @ /\ access # "unknown",
             !.selected = IF taken THEN item.path ELSE @,
             !.queue = IF taken THEN Stop ELSE Tail(@)]

(* ExecutableProbe knows one path and has selected it from the start; only *)
(* the end of the context, seen by its call, withholds it.                 *)
FinishHelper ==
    /\ Running(HelperRoles) /\ probe.queue = <<>>
    /\ measured' = (probe.role :>
                      [probe EXCEPT !.selected =
                         IF probe.seen # <<>> /\ Running({MountRole}) /\ (probe.complete \/ ~cancelled)
                         THEN probe.seen[1].path ELSE @]) @@ measured
    /\ probe' = NoProbe

-----------------------------------------------------------------------------
(* StoragePathProbe.paths *)
StoreNames(role) ==
    LET c == storage.config
        roots == SelectSeq(<<"graphroot", "runroot", "imagestore">>, LAMBDA f : Has(c.strings, f))
        stores == IF "additionalimagestores" \in DOMAIN c.lists
                  THEN c.lists["additionalimagestores"].values ELSE <<>>
    IN  IF role = "roots" THEN [i \in DOMAIN roots |-> [path |-> Text(c, roots[i]), store |-> roots[i]]]
        ELSE [i \in DOMAIN stores |-> [path |-> stores[i], store |-> "additionalimagestore"]]

StoreNamesKnown(role) ==
    /\ StorageUsable
    /\ role = "roots" => Has(storage.config.strings, "graphroot") /\ Has(storage.config.strings, "runroot")

StartStorePaths(role) ==
    LET names == StoreNames(role)
        kept == IF Len(names) > MaxStoragePaths THEN SubSeq(names, 1, MaxStoragePaths) ELSE names
    IN  /\ probe = NoProbe
        /\ probe' = IF cancelled \/ ~StoreNamesKnown(role) THEN Started(role, <<>>, FALSE)
                    ELSE Started(role, kept, kept = names)
        /\ UNCHANGED measured

Unmeasured(item) ==
    [path |-> item.path, store |-> item.store, checked |-> <<>>, present |-> "unknown",
     directory |-> "unknown", accessible |-> "unknown", readonly |-> "unknown"]

(* The end of observeStoragePath; the loop over the paths leaves when the  *)
(* context has ended.                                                      *)
Recorded(metadata, complete) ==
    [probe EXCEPT !.seen = Append(@, metadata), !.found = <<>>, !.complete = @ /\ complete,
                  !.queue = IF cancelled THEN Stop ELSE Tail(@)]

Reached == probe.found # <<>> /\ Head(probe.found).accessible = "pending"

(* One look at the path or, while there is nothing, at its parent. *)
StatStore ==
    LET item == Head(probe.queue)
        path == IF probe.found = <<>> THEN item.path ELSE Front(Head(probe.found).checked)
        metadata == [IF probe.found = <<>> THEN Unmeasured(item) ELSE Head(probe.found)
                     EXCEPT !.checked = path]
        error == Ended(StatError(host, path))
        direct == path = item.path
        node == NodeOf(host, path)
        there == IF ~direct THEN metadata
                 ELSE [metadata EXCEPT !.present = "yes",
                                       !.directory = IF node.is = "dir" THEN "yes" ELSE "no"]
    IN  /\ Running(PathRoles) /\ probe.queue # <<>> /\ ~Reached
        /\ \/ /\ ~safeInfoPath(item.path) \/ error \notin {"ok", "ENOENT"}
              /\ probe' = Recorded([metadata EXCEPT !.checked = <<>>], FALSE)
           \/ /\ safeInfoPath(item.path) /\ error = "ENOENT"
              /\ probe' = IF Len(path) = 1
                          THEN Recorded([metadata EXCEPT !.present = "no", !.checked = <<>>], FALSE)
                          ELSE [probe EXCEPT !.found = <<[metadata EXCEPT !.present = "no"]>>]
           \/ /\ safeInfoPath(item.path) /\ error = "ok" /\ node.is # "dir"
              /\ probe' = Recorded([there EXCEPT !.accessible = "no"], TRUE)
           \/ /\ safeInfoPath(item.path) /\ error = "ok" /\ node.is = "dir"
              /\ probe' = [probe EXCEPT !.found = <<[there EXCEPT !.accessible = "pending"]>>]

MeasureStore ==
    LET metadata == Head(probe.found)
        access == DirectoryAccess(host, metadata.checked)
        readonly == StatFS(host, metadata.checked)
    IN  /\ Running(PathRoles) /\ Reached
        /\ probe' = Recorded([metadata EXCEPT !.accessible = access, !.readonly = readonly],
                             access # "unknown" /\ readonly # "unknown")

FinishStorePaths ==
    /\ Running(PathRoles) /\ probe.queue = <<>>
    /\ measured' = (probe.role :> probe) @@ measured
    /\ probe' = NoProbe
=============================================================================
