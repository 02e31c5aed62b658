---------------------------- MODULE EngineSources ----------------------------
(***************************************************************************)
(* The selection and the reading of containers.conf                        *)
(* (src/internal/runtime/podman/engine.go, network_configuration.go):      *)
(* EngineProbe.Collect reads every selected file once and projects the     *)
(* engine family and the network family from the same bytes.               *)
(*                                                                         *)
(* The agenda holds the calls that are still to be made; a step makes one, *)
(* so that the host and the context may change between any two.            *)
(***************************************************************************)
EXTENDS ConfigLayers, HostFiles

CONSTANTS MaxConfigSources, MaxConfigTotalBytes

VARIABLES agenda, engine, network

qualified == target.profile # "unqualified"
legacy == target.profile = "493"

(* engineSourcePlan *)
File(p) == [do |-> "file", path |-> p]
Directory(p) == [do |-> "directory", path |-> p]

vendorConf == <<"/", "usr", "containers.conf">>
systemConf == <<"/", "etc", "containers.conf">>
rootlessConf == <<"/", "etc", "containers.rootless.conf">>
userConf == <<"/", "home", ".config", "containers.conf">>
DropIns(p) == Append(Front(p), Last(p) \o ".d")

engineSourcePlan ==
    <<File(vendorConf), File(systemConf), Directory(DropIns(systemConf))>>
    \o (IF legacy \/ target.root THEN <<>>
        ELSE <<File(rootlessConf), Directory(DropIns(rootlessConf)),
               Directory(Append(DropIns(rootlessConf), "uid"))>>)
    \o (IF legacy /\ target.root THEN <<>> ELSE <<File(userConf), Directory(DropIns(userConf))>>)

networkDefaults ==
    [strings |-> [f \in {"network.default_rootless_network_cmd"} |->
                    [value |-> IF legacy THEN <<"slirp4netns">> ELSE <<"pasta">>,
                     invalid |-> FALSE, source |-> 0]],
     lists |-> [f \in Marked \cup {"network.pasta_options"} |-> EmptyList(FALSE)],
     overrides |-> FALSE]

(* An agenda may be abandoned before its first call. *)
EngineInit ==
    /\ agenda = IF target.environment THEN engineSourcePlan ELSE <<>>
    /\ engine = [selection |-> qualified /\ target.environment, parse |-> target.environment,
                 complete |-> target.environment, applicable |-> qualified, limit |-> FALSE,
                 files |-> 0, bytes |-> 0, sources |-> <<>>, config |-> Nothing, done |-> FALSE]
    /\ network = [selection |-> qualified, parse |-> TRUE, complete |-> TRUE,
                  applicable |-> qualified, sources |-> <<>>, config |-> networkDefaults,
                  plans |-> <<>>]

-----------------------------------------------------------------------------
readFailure(e) == [e EXCEPT !.complete = FALSE, !.applicable = FALSE, !.parse = FALSE]

FailureStatus(error) ==
    CASE error = "EACCES" -> "denied" [] error \in {"unsupported", "limit"} -> error
      [] OTHER -> "incomplete"

Source(p, status) ==
    [path |-> p, status |-> status, selected |-> qualified, applied |-> FALSE, layer |-> NoLayer]

(* A source that parsed keeps its own projection, applied or not.          *)
ParsedSource(p, problem, layer, applicable) ==
    IF problem # "ok" THEN Source(p, problem)
    ELSE [Source(p, "parsed") EXCEPT !.layer = layer, !.applied = applicable]

(* networkCollector.retain of a source that has no pending projection. *)
NetworkRetain(source) ==
    LET n == [network EXCEPT !.sources = Append(@, source)]
    IN  CASE source.status \in {"listed", "absent", "symlink_skipped"} -> n
          [] source.status \in {"stat_denied", "stat_incomplete"} -> [n EXCEPT !.complete = FALSE]
          [] OTHER -> readFailure(n)

(* engineCollector.retain *)
Retain(e, source) ==
    /\ engine' = [e EXCEPT !.sources = Append(@, source)]
    /\ network' = NetworkRetain(source)

OverLimit(e, p) ==
    Retain([readFailure(e) EXCEPT !.selection = FALSE, !.limit = TRUE], Source(p, "limit"))

(* networkCollector.file and the retain that follows it. *)
NetworkFile(doc, p) ==
    LET problem == Parse(doc, NetworkFields, ~legacy)
        layer == Layer(doc, NetworkFields, ~legacy)
        n == [network EXCEPT !.sources =
                Append(@, ParsedSource(p, problem, layer, network.applicable))]
    IN  CASE problem = "ok" ->
               IF ~network.applicable THEN n
               ELSE [n EXCEPT !.config = MergeNetwork(@, layer, Len(n.sources))]
          [] problem \in {"malformed", "invalid"} -> [n EXCEPT !.parse = FALSE, !.applicable = FALSE]
          [] OTHER -> readFailure(n)

(* engineCollector.file once the bytes are there. *)
EngineFile(e, doc, p) ==
    LET problem == Parse(doc, EngineFields, TRUE)
        layer == Layer(doc, EngineFields, TRUE)
        n == [e EXCEPT !.sources = Append(@, ParsedSource(p, problem, layer, e.applicable))]
    IN  CASE problem = "ok" ->
               IF ~e.applicable THEN n
               ELSE [n EXCEPT !.config = MergeEngine(@, layer, Len(n.sources))]
          [] problem \in {"malformed", "invalid"} -> [n EXCEPT !.parse = FALSE, !.applicable = FALSE]
          [] OTHER -> readFailure(n)

-----------------------------------------------------------------------------
Pending(calls) == agenda # <<>> /\ Head(agenda).do \in calls
Planned == {"file", "directory"}

(* The head of the loop over the plan. *)
Abandon ==
    /\ Pending(Planned) /\ (cancelled \/ engine.limit)
    /\ engine' = [engine EXCEPT !.selection = FALSE, !.parse = FALSE, !.complete = FALSE]
    /\ agenda' = <<>>
    /\ UNCHANGED network

(* file: the sources are counted before they are opened; 4.9.3 looks at a  *)
(* main file first and skips it when it cannot.                            *)
BeginFile ==
    LET item == Head(agenda)
        e == [engine EXCEPT !.files = @ + 1]
    IN  /\ Pending({"file", "entry"})
        /\ item.do = "file" => ~cancelled /\ ~engine.limit
        /\ IF e.files > MaxConfigSources
           THEN OverLimit(e, item.path) /\ agenda' = Tail(agenda)
           ELSE /\ engine' = e /\ UNCHANGED network
                /\ agenda' = <<[item EXCEPT !.do = IF @ = "file" /\ legacy THEN "stat" ELSE "read"]>>
                             \o Tail(agenda)

BeginDirectory ==
    /\ Pending({"directory"}) /\ ~cancelled /\ ~engine.limit
    /\ agenda' = [agenda EXCEPT ![1].do = IF legacy THEN "readlink" ELSE "list"]
    /\ UNCHANGED <<engine, network>>

StatFile ==
    LET p == Head(agenda).path
        error == StatError(host, p)
    IN  /\ Pending({"stat"})
        /\ \/ /\ error = "ok" /\ agenda' = [agenda EXCEPT ![1].do = "read"]
              /\ UNCHANGED <<engine, network>>
           \/ /\ error # "ok" /\ agenda' = Tail(agenda)
              /\ LET status == CASE error = "ENOENT" -> "absent" [] error = "EACCES" -> "stat_denied"
                                 [] OTHER -> "stat_incomplete"
                 IN  Retain([engine EXCEPT !.complete = @ /\ error = "ENOENT"],
                            [Source(p, status) EXCEPT !.selected = FALSE])

ReadFile ==
    LET p == Head(agenda).path
        error == Ended(ReadError(host, p))
        node == NodeOf(host, p)
        e == [engine EXCEPT !.bytes = @ + node.size]
    IN  /\ Pending({"read"}) /\ agenda' = Tail(agenda)
        /\ \/ error = "ENOENT" /\ ~legacy /\ Retain(engine, Source(p, "absent"))
           \/ /\ error # "ok" /\ (error = "ENOENT" => legacy)
              /\ Retain(readFailure(engine), Source(p, FailureStatus(error)))
           \/ error = "ok" /\ e.bytes > MaxConfigTotalBytes /\ OverLimit(e, p)
           \/ /\ error = "ok" /\ e.bytes <= MaxConfigTotalBytes
              /\ engine' = EngineFile(e, node.doc, p)
              /\ network' = NetworkFile(node.doc, p)

(* 4.9.3 does not follow a drop-in directory that is a symbolic link. *)
ReadLink ==
    LET p == Head(agenda).path
        error == LinkError(host, p)
    IN  /\ Pending({"readlink"})
        /\ \/ error = "ok" /\ agenda' = Tail(agenda) /\ Retain(engine, Source(p, "symlink_skipped"))
           \/ /\ error \in {"ENOENT", "EINVAL"} /\ agenda' = [agenda EXCEPT ![1].do = "list"]
              /\ UNCHANGED <<engine, network>>
           \/ /\ error \notin {"ok", "ENOENT", "EINVAL"} /\ agenda' = Tail(agenda)
              /\ Retain([readFailure(engine) EXCEPT !.selection = FALSE],
                        Source(p, FailureStatus(error)))

(* What follows a listing: a call for each of its *.conf files and, after  *)
(* each, a look at the context.                                            *)
Selected(h, d) ==
    SelectSeq(Entries(h, d), LAMBDA p : NodeOf(h, p).is # "dir" /\ Last(p) \in ConfNames)

Calls(files) ==
    FlattenSeq([i \in DOMAIN files |->
        IF safeInfoPath(files[i])
        THEN <<[do |-> "entry", path |-> files[i]], [do |-> "more", path |-> files[i]]>>
        ELSE <<[do |-> "unsafe", path |-> files[i]]>>])

ReadDir ==
    LET p == Head(agenda).path
        error == Ended(ListError(host, p))
    IN  /\ Pending({"list"})
        /\ \/ error = "ENOENT" /\ agenda' = Tail(agenda) /\ Retain(engine, Source(p, "absent"))
           \/ /\ error \notin {"ok", "ENOENT"} /\ agenda' = Tail(agenda)
              /\ Retain([readFailure(engine) EXCEPT !.selection = FALSE],
                        Source(p, FailureStatus(error)))
           \/ /\ error = "ok" /\ agenda' = Calls(Selected(host, p)) \o Tail(agenda)
              /\ Retain(engine, Source(p, "listed"))

UnsafeName ==
    /\ Pending({"unsafe"}) /\ agenda' = Tail(agenda)
    /\ engine' = [readFailure(engine) EXCEPT !.selection = FALSE]
    /\ UNCHANGED network

(* Leaving a directory half-read clears none of the completeness flags. *)
More ==
    /\ Pending({"more"})
    /\ agenda' = IF engine.limit \/ cancelled
                 THEN SelectSeq(agenda, LAMBDA item : item.do \in Planned)
                 ELSE Tail(agenda)
    /\ UNCHANGED <<engine, network>>

-----------------------------------------------------------------------------
Has(strings, f) == f \in DOMAIN strings /\ strings[f].value # <<>>
IsInvalid(strings, f) == f \in DOMAIN strings /\ strings[f].invalid

(* The environment entries of containers.conf may change what Podman does. *)
EnvironmentUnmodeled(lists) ==
    /\ "engine.env" \in DOMAIN lists
    /\ lists["engine.env"].values # <<>> \/ lists["engine.env"].inherited

(* The engine source is what the helpers and the storage may build on. *)
EngineUsable(e) == qualified /\ e.selection /\ e.parse /\ e.complete

Measured(lists, f) == f \in DOMAIN lists /\ ~lists[f].inherited

(* networkHelperPaths *)
DirectoryPlan(dirs, role) ==
    LET upTo == SelectInSeq(dirs, LAMBDA d : "$BINDIR" \in ToSet(d))
        known == IF upTo = 0 THEN dirs ELSE SubSeq(dirs, 1, upTo - 1)
        search == IF role \in {"pasta", "slirp4netns"}
                  THEN <<<<"/", "usr", "bin", role>>, <<"/", "bin", role>>>> ELSE <<>>
    IN  [values |-> [i \in DOMAIN known |-> Append(known[i], role)] \o search,
         inherited |-> upTo # 0]

networkHelperPaths(e, strings) ==
    LET lists == e.config.lists
        direct == IF Has(strings, "engine.network_cmd_path") THEN {"slirp4netns"} ELSE {}
        searched == IF Measured(lists, "engine.helper_binaries_dir")
                    THEN {"netavark", "aardvark_dns", "pasta", "slirp4netns"} \ direct ELSE {}
    IN  IF ~EngineUsable(e) \/ IsInvalid(e.config.strings, "engine.cgroup_manager")
           \/ EnvironmentUnmodeled(lists) THEN <<>>
        ELSE [role \in direct \cup searched |->
                IF role \in direct
                THEN [values |-> <<strings["engine.network_cmd_path"].value>>, inherited |-> FALSE]
                ELSE DirectoryPlan(lists["engine.helper_binaries_dir"].values, role)]

(* The end of EngineProbe.run and networkCollector.finish. *)
FinishEngine ==
    /\ agenda = <<>> /\ ~engine.done
    /\ engine' = [engine EXCEPT !.complete = @ /\ qualified, !.done = TRUE]
    /\ LET selection == network.selection /\ engine.selection
       IN  network' = [network EXCEPT !.selection = selection,
                         !.complete = @ /\ selection,
                         !.parse = @ /\ (selection \/ network.sources # <<>>),
                         !.plans = networkHelperPaths(engine', network.config.strings)]
    /\ UNCHANGED agenda

EngineNext ==
    \/ Abandon \/ BeginFile \/ BeginDirectory \/ StatFile \/ ReadFile \/ ReadLink \/ ReadDir
    \/ UnsafeName \/ More \/ FinishEngine
=============================================================================
