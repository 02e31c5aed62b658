---------------------------- MODULE Configuration ----------------------------
(***************************************************************************)
(* The collection of the configuration (src/internal/app/configuration.go) *)
(* on a host that may change once, or whose run may be cancelled, between  *)
(* any two of its calls, and what the report then claims about the host.   *)
(***************************************************************************)
EXTENDS ConfigurationEvidence

CONSTANTS Situations  \* the hosts, the users and what may happen to them

(* What the decoder makes of a file, on the hosts and in what replaces     *)
(* their files: its verdict, and arrays and texts that are lists.          *)
ASSUME DocumentsAssumption ==
    \A s \in Situations : \A node \in Range(s.host) \cup {s.event.node} :
        node.is = "file" =>
            /\ node.doc.syntax \in {"ok", "malformed", "limit", "unsupported"}
            /\ \A f \in DOMAIN node.doc.fields :
                 LET value == node.doc.fields[f]
                 IN  /\ value.is = "list" => value.items \in Seq(ToSet(value.items))
                     /\ value.is = "text" => value.text \in Seq(ToSet(value.text))

VARIABLES
    todo,    \* the probes that are still to run
    before,  \* the host as it was at the start
    event    \* what may happen, and whether it has

vars == <<host, cancelled, target, agenda, engine, network, storage, probe, measured,
          todo, before, event>>

(* collectConfiguration and collectStorage. *)
Probes ==
    <<"netavark", "aardvark_dns", "pasta", "slirp4netns", "oci_runtime", "conmon",
      "storage", "roots", "additional", MountRole>>

Init ==
    /\ \E s \in Situations :
          /\ host = s.host /\ target = s.target
          /\ event = [is |-> s.event.is, path |-> s.event.path, node |-> s.event.node, fired |-> FALSE]
    /\ before = host /\ cancelled = FALSE
    /\ EngineInit /\ StorageInit
    /\ probe = NoProbe /\ measured = <<>> /\ todo = Probes

Happens ==
    /\ ~event.fired /\ event.is # "nothing" /\ todo # <<>>
    /\ event' = [event EXCEPT !.fired = TRUE]
    /\ cancelled' = (event.is = "cancel")
    /\ host' = IF event.is # "replace" THEN host
               ELSE [p \in DOMAIN host \cup {event.path} |->
                       IF p = event.path THEN event.node ELSE host[p]]
    /\ UNCHANGED <<target, agenda, engine, network, storage, probe, measured, todo, before>>

CollectEngine ==
    /\ EngineNext
    /\ UNCHANGED <<host, cancelled, target, storage, probe, measured, todo, before, event>>

CollectStorage ==
    /\ engine.done /\ todo # <<>> /\ Head(todo) = "storage" /\ StorageNext
    /\ todo' = IF storage'.at = "done" THEN Tail(todo) ELSE todo
    /\ UNCHANGED <<host, cancelled, target, agenda, engine, network, probe, measured, before, event>>

StartProbe ==
    /\ engine.done /\ todo # <<>>
    /\ \/ Head(todo) \in HelperRoles /\ StartHelper(Head(todo))
       \/ Head(todo) \in PathRoles /\ StartStorePaths(Head(todo))
    /\ UNCHANGED todo

FinishProbe == (FinishHelper \/ FinishStorePaths) /\ todo' = Tail(todo)

RunProbe ==
    /\ \/ StartProbe \/ FinishProbe
       \/ /\ HelperRefused \/ StatHelper \/ AccessHelper \/ StatStore \/ MeasureStore
          /\ UNCHANGED <<measured, todo>>
    /\ UNCHANGED <<host, cancelled, target, agenda, engine, network, storage, before, event>>

Next == Happens \/ CollectEngine \/ CollectStorage \/ RunProbe

Spec == Init /\ [][Next]_vars

Reported == todo = <<>>

-----------------------------------------------------------------------------
(* The meaning of a stack of layers, without a merge: what the last layer  *)
(* that sets a field says, and the elements since a list was last started  *)
(* anew.                                                                   *)
Setters(layers, family, f) == {i \in DOMAIN layers : f \in DOMAIN layers[i][family]}

EffectiveText(layers, f) == layers[Max(Setters(layers, "strings", f))].strings[f]

Appends(layers, f, i) ==
    LET said == {j \in Setters(layers, "lists", f) : j <= i /\ layers[j].lists[f].append # "unset"}
    IN  said # {} /\ layers[Max(said)].lists[f].append = "yes"

EffectiveList(layers, f) ==
    LET set == Setters(layers, "lists", f)
        anew == {i \in set : ~Appends(layers, f, i)}
        kept == {i \in set : \A j \in anew : j <= i}
        parts == [i \in DOMAIN layers |-> IF i \in kept THEN layers[i].lists[f].values ELSE <<>>]
        Offset(i) == Len(FlattenSeq(SubSeq(parts, 1, i - 1)))
        Marks(m) == UNION {{Offset(i) + j : j \in layers[i].lists[f][m]} : i \in kept}
    IN  [values |-> FlattenSeq(parts),
         origins |-> FlattenSeq([i \in DOMAIN layers |-> [j \in DOMAIN parts[i] |-> i]]),
         invalid |-> Marks("invalid"), unmodeled |-> Marks("unmodeled"), anew |-> anew # {}]

Settled == {"parsed", "listed", "absent", "symlink_skipped", "stat_denied", "stat_incomplete"}

Layered(c, defaults) ==
    LET layers == [i \in DOMAIN c.sources |->
                     IF c.sources[i].applied THEN c.sources[i].layer ELSE NoLayer]
        strings == UNION {DOMAIN layers[i].strings : i \in DOMAIN layers}
        lists == UNION {DOMAIN layers[i].lists : i \in DOMAIN layers}
    IN  /\ DOMAIN c.config.strings = strings \cup DOMAIN defaults.strings
        /\ DOMAIN c.config.lists = lists \cup DOMAIN defaults.lists
        /\ \A f \in strings :
             /\ c.config.strings[f].value = EffectiveText(layers, f).value
             /\ c.config.strings[f].invalid = EffectiveText(layers, f).invalid
             /\ c.config.strings[f].source = Max(Setters(layers, "strings", f))
        /\ \A f \in lists :
             LET list == c.config.lists[f]
                 meant == EffectiveList(layers, f)
             IN  /\ list.values = meant.values /\ list.origins = meant.origins
                 /\ list.invalid = meant.invalid /\ list.unmodeled = meant.unmodeled
                 /\ list.inherited = (~meant.anew /\ f \notin DOMAIN defaults.lists)
        /\ \A i \in DOMAIN c.sources : c.sources[i].applied =>
             \A j \in 1..i : c.sources[j].status \in Settled

(* The effective engine and network configuration is the one that the      *)
(* applied sources of the report mean when they are read as layers: no     *)
(* value, element, mark or origin is lost, kept or shifted by the merge    *)
(* (config.MergeEngine, MergeNetwork), and no source is applied past one   *)
(* that could not be.                                                      *)
LayeringIsExact ==
    Reported => Layered(engine, Nothing) /\ Layered(network, networkDefaults)

-----------------------------------------------------------------------------
(* What a host says to Podman at one moment.                               *)
DropInsOf(h, d) ==
    IF ListError(h, d) # "ok" \/ (legacy /\ LinkError(h, d) = "ok") THEN <<>> ELSE Selected(h, d)

Loaded(h) ==
    LET Of(item) == IF item.do = "directory" THEN DropInsOf(h, item.path)
                    ELSE IF StatError(h, item.path) = "ENOENT" THEN <<>> ELSE <<item.path>>
    IN  FlattenSeq([i \in DOMAIN engineSourcePlan |-> Of(engineSourcePlan[i])])

Attempts(h) ==
    LET Of(item) == IF item.do = "directory" THEN DropInsOf(h, item.path) ELSE <<item.path>>
    IN  Len(FlattenSeq([i \in DOMAIN engineSourcePlan |-> Of(engineSourcePlan[i])]))

Bytes(h) == FoldFunction(LAMBDA p, n : h[p].size + n, 0, Loaded(h))

(* Whether all of it can be read, within the limits.                       *)
Legible(h) ==
    /\ qualified /\ target.environment
    /\ \A p \in ToSet(Loaded(h)) : ReadError(h, p) = "ok" /\ safeInfoPath(p)
    /\ \A item \in ToSet(engineSourcePlan) : item.do = "directory" =>
         ListError(h, item.path) \in {"ok", "ENOENT"} \/ (legacy /\ LinkError(h, item.path) = "ok")
    /\ Attempts(h) <= MaxConfigSources /\ Bytes(h) <= MaxConfigTotalBytes

ProblemsOf(docs, fields, modern) == {Parse(doc, fields, modern) : doc \in ToSet(docs)}

Base(problems) ==
    CASE problems \cap {"unsupported", "limit"} # {} -> "unknown"
      [] problems \cap {"malformed", "invalid"} # {} -> "misconfigured"
      [] OTHER -> "supported"

Choice(text, wanted, others) ==
    CASE text.invalid -> "misconfigured" [] text.value = wanted -> "supported"
      [] OTHER -> IF text.value \in others THEN "unsupported" ELSE "unknown"

Unless(base, state) == IF base = "supported" THEN state ELSE base
UnlessUnknown(base, state) == IF base = "supported" THEN state ELSE "unknown"

EngineTruth(h, v) ==
    LET docs == [i \in DOMAIN Loaded(h) |-> h[Loaded(h)[i]].doc]
        layers == [i \in DOMAIN docs |-> Layer(docs[i], EngineFields, TRUE)]
        manager == IF Setters(layers, "strings", "engine.cgroup_manager") = {}
                   THEN [value |-> <<>>, invalid |-> FALSE]
                   ELSE EffectiveText(layers, "engine.cgroup_manager")
        parsed == Unless(Base(ProblemsOf(docs, EngineFields, TRUE)),
                         IF manager.invalid THEN "misconfigured" ELSE "supported")
    IN  IF v = "engine" THEN parsed
        ELSE UnlessUnknown(parsed, Choice(manager, <<"systemd">>, {<<"cgroupfs">>}))

NetworkTruth(h, v) ==
    LET docs == [i \in DOMAIN Loaded(h) |-> h[Loaded(h)[i]].doc]
        layers == [i \in DOMAIN docs |-> Layer(docs[i], NetworkFields, ~legacy)]
        TextOf(f, default) ==
            IF Setters(layers, "strings", f) = {} THEN [value |-> default, invalid |-> FALSE]
            ELSE EffectiveText(layers, f)
        backend == TextOf("network.network_backend", <<>>)
        said == TextOf("network.default_rootless_network_cmd",
                       IF legacy THEN <<"slirp4netns">> ELSE <<"pasta">>)
        command == IF said.value = <<>> /\ ~said.invalid THEN [said EXCEPT !.value = <<"slirp4netns">>]
                   ELSE said
        slirped == v = "network" /\ rootless /\ ~command.invalid /\ command.value = <<"slirp4netns">>
        counted == {"containers.dns_servers", "containers.dns_options"}
                   \cup (IF slirped THEN {"engine.network_cmd_options"} ELSE {})
        lists == {EffectiveList(layers, f) : f \in counted}
        base == Base(ProblemsOf(docs, NetworkFields, ~legacy))
        sound == CASE \/ v = "network" /\ backend.invalid
                      \/ v = "network" /\ rootless /\ command.invalid
                      \/ \E l \in lists : l.invalid # {} -> "misconfigured"
                   [] \E l \in lists : l.unmodeled # {} -> "unknown"
                   [] OTHER -> "supported"
    IN  CASE v \in {"network", "dns"} -> Unless(base, sound)
          [] v = "netavark" -> UnlessUnknown(base, Choice(backend, <<"netavark">>, {<<"cni">>}))
          [] OTHER -> UnlessUnknown(base, IF ~rootless THEN "unsupported"
                                          ELSE Choice(command, <<"pasta">>, {<<"slirp4netns">>}))

(* What may be said once the host or the run has changed. *)
Withheld == IF event.fired THEN {"unknown"} ELSE {}

(* The two files that storage takes its settings from.                     *)
BaselineOf(h) ==
    CASE target.xdg /\ StatError(h, userStorage) = "ok" -> userStorage
      [] StatError(h, systemStorage) = "ok" -> systemStorage
      [] OTHER -> vendorStorage

OverrideOf(h) ==
    CASE ~target.root -> userStorage
      [] StatError(h, systemStorage) = "ok" -> systemStorage
      [] OTHER -> vendorStorage

StorageOf(h, p) ==
    IF StatError(h, p) = "ENOENT" THEN Nothing
    ELSE ProjectStorage(Layer(h[p].doc, StorageFields, ~legacy), 0)

StorageLegible(h) ==
    /\ StatError(h, systemStorage) \in {"ok", "ENOENT"}
    /\ target.xdg => StatError(h, userStorage) \in {"ok", "ENOENT"}
    /\ \A p \in {BaselineOf(h), OverrideOf(h)} : ReadError(h, p) \in {"ok", "ENOENT"}

StorageTruth(h, v) ==
    LET there == {p \in {BaselineOf(h), OverrideOf(h)} : StatError(h, p) = "ok"}
        base == Base({Parse(h[p].doc, StorageFields, ~legacy) : p \in there})
        old == Baseline(StorageOf(h, BaselineOf(h)))
        chosen == IF OverrideOf(h) \notin there THEN old
                  ELSE Replacement(StorageOf(h, OverrideOf(h)), old)
        parsed == CASE base # "supported" -> base
                    [] RootsFail(chosen) -> "unknown"
                    [] Problems(ExpandRoots(chosen)) # {} -> "misconfigured"
                    [] OTHER -> "supported"
        driver == Text(chosen, "driver")
    IN  CASE v = "storage" -> parsed
          [] parsed # "supported" \/ driver = <<>> -> "unknown"
          [] OTHER -> IF driver \in Overlay THEN "supported" ELSE "unsupported"

Truth(h, v) ==
    CASE ~Legible(h) -> "unknown"
      [] v \in {"engine", "cgroup"} -> EngineTruth(h, v)
      [] v \in {"network", "dns", "netavark", "pasta"} -> NetworkTruth(h, v)
      [] ~engineBound \/ ~StorageLegible(h) -> "unknown"
      [] OTHER -> StorageTruth(h, v)

-----------------------------------------------------------------------------
(* Every drop-in file of a directory that was listed is accounted for in   *)
(* the report when the engine's evidence is complete                       *)
(* (docs/podman-engine-config.md).                                         *)
EveryListedFileIsASource ==
    Reported /\ engine.complete =>
      \A s \in ToSet(engine.sources) : s.status = "listed" =>
        \A p \in ToSet(Selected(before, s.path)) \cap ToSet(Selected(host, s.path)) :
          \E t \in ToSet(engine.sources) : t.path = p

(* The phases of the storage selection agree on which files there are.     *)
PhasesAgree ==
    \A s, t \in ToSet(storage.sources) :
      s.path = t.path => (s.status = "absent") = (t.status = "absent")

(* A definite verdict on the sources is true of the host at one moment of  *)
(* the run: Podman, reading everything at that moment, would have been     *)
(* told the same.  On a host at rest the verdict is exactly what the host  *)
(* says, unknown included.  Two things are outside: a run that was         *)
(* cancelled between two drop-ins, and storage phases whose own records    *)
(* disagree on whether a file exists.                                      *)
VerdictsAreTheHosts ==
    LET verdicts == Verdicts
    IN  Reported => \A v \in DOMAIN verdicts :
          \/ verdicts[v] \in {Truth(h, v) : h \in {before, host}} \cup Withheld
          \/ cancelled /\ ~EveryListedFileIsASource
          \/ v \in {"storage", "overlay"} /\ ~PhasesAgree

(* The storage projection is one selection: apart from its roots, every    *)
(* setting comes from a single file, the last one that was read, and says  *)
(* what that file's record does; the roots come from the two files read or *)
(* are defaults (storage.conf is replaced, never merged).                  *)
StorageIsOneSelection ==
    Reported /\ storage.found =>
      LET read == {i \in DOMAIN storage.sources : storage.sources[i].phase \in {"baseline", "override"}}
          strings == storage.config.strings
          last == Max(read)
          SourcesOf(f) == {g \in DOMAIN storage.sources[last].layer.strings :
                             g = f \/ (f = "overlay.ignore_chown_errors" /\ g = "ignore_chown_errors")}
      IN  /\ \A f \in DOMAIN strings \ Roots :
               /\ strings[f].source = last
               /\ \E g \in SourcesOf(f) :
                    LET said == storage.sources[last].layer.strings[g]
                    IN  /\ strings[f].invalid = said.invalid
                        /\ \/ strings[f].value = said.value
                           \/ f = "driver" /\ {strings[f].value, said.value} = Overlay
          /\ \A f \in DOMAIN storage.config.lists :
               storage.config.lists[f].values = storage.sources[last].layer.lists[f].values
          /\ \A f \in DOMAIN strings \cap Roots :
               /\ strings[f].source \in read \cup {0}
               /\ (storage.sources[last].phase = "override" /\ Has(storage.sources[last].layer.strings, f))
                    => strings[f].source = last
          /\ ~target.root => storage.problems \cap {"runroot", "graphroot"} = {}

(* The helper that Podman would start, were the host to stay as it is.     *)
Takes(h, role, item) ==
    LET node == NodeOf(h, item.path)
        regular == node.is \in {"program", "file"}
    IN  CASE item.fallback -> regular /\ node.is = "program" /\ node.exec = "yes"
          [] role = "conmon" -> StatError(h, item.path) = "ok" /\ node.is # "dir"
          [] role = "oci_runtime" -> regular
          [] OTHER -> TRUE

Unclear(h, item) ==
    LET node == NodeOf(h, item.path)
    IN  \/ StatError(h, item.path) \notin {"ok", "ENOENT"} \/ ~safeInfoPath(item.path)
        \/ node.is = "program" /\ node.exec = "unknown"
        \/ item.fallback /\ node.is = "special"

HelperTruth(h, role) ==
    LET queue == Candidates(role)
        first == SelectInSeq(queue, LAMBDA item : Takes(h, role, item) \/ Unclear(h, item))
        node == NodeOf(h, queue[first].path)
    IN  CASE ~SourceSupports(role) \/ ~Known(role) -> "unknown"
          [] first = 0 -> IF Len(queue) > MaxExecutableCandidates THEN "unknown" ELSE "misconfigured"
          [] first > MaxExecutableCandidates \/ Unclear(h, queue[first]) -> "unknown"
          [] OTHER -> IF node.is = "program" /\ node.bits /\ node.exec = "yes"
                      THEN "supported" ELSE "misconfigured"

StoreTruth(h, store) ==
    LET names == StoreNames(GroupOf(store))
        Of(item) == NodeOf(h, item.path)
        states == {CASE Of(item).is = "absent" ->
                          IF store = "additional" THEN "misconfigured" ELSE "unknown"
                     [] Of(item).is # "dir" \/ Of(item).access = "no" -> "misconfigured"
                     [] store # "additional" /\ Of(item).fs = "yes" -> "misconfigured"
                     [] OTHER -> "supported" : item \in ToSet(Expected(store))}
    IN  CASE ~StorageUsable \/ storageParsedState # "supported" \/ Len(names) > MaxStoragePaths -> "unknown"
          [] Expected(store) = <<>> -> "supported"
          [] "misconfigured" \in states -> "misconfigured"
          [] OTHER -> IF "unknown" \in states THEN "unknown" ELSE "supported"

(* The records of a helper contradict each other: the mode and the access  *)
(* of a file were looked at on either side of a change, or a file that is  *)
(* a candidate twice was regular at one look and not at the other.         *)
Torn(role) ==
    LET seen == ToSet(measured[role].seen)
    IN  \/ \E c \in seen : c.executable = "yes" /\ ~c.bits
        \/ \E c, d \in seen : /\ c.path = d.path /\ {c.present, d.present} = {"yes"}
                             /\ c.regular # d.regular

(* A definite verdict on a helper is about the file Podman would start, at *)
(* one moment of the run, however the candidates were looked at one after  *)
(* the other; a definite verdict on the stores is about the directories    *)
(* the configuration selects.  For helpers a host at rest gets exactly     *)
(* what it deserves.  Outside is a helper whose own records are torn.      *)
HelpersAreTheHosts ==
    Reported =>
      /\ \A role \in HelperRoles :
           \/ HelperVerdict(role) \in {HelperTruth(h, role) : h \in {before, host}} \cup Withheld
           \/ Torn(role)
      /\ \A store \in Stores :
           StoreVerdict(store) \in {StoreTruth(h, store) : h \in {before, host}} \cup {"unknown"}
=============================================================================
