------------------------- MODULE ConfigurationEvidence -------------------------
(***************************************************************************)
(* What the capability evaluators conclude from the configuration          *)
(* (src/internal/capability: engine.go, network_configuration.go,          *)
(* network_helpers.go, executable.go, storage.go, storage_paths.go).  An   *)
(* evaluator gives a state; the resolver lets only evidence of a complete  *)
(* observation decide, which Definite stands for.  The version an          *)
(* observation is bound to is the one that qualified the profile.          *)
(***************************************************************************)
EXTENDS ConfiguredFiles

Definite(complete, state) == IF complete THEN state ELSE "unknown"

(* The part that the three families share. *)
sourceState(c) ==
    IF ~c.selection \/ ~qualified THEN "unknown"
    ELSE IF \E s \in ToSet(c.sources) : s.selected /\ s.status \in {"malformed", "invalid"} THEN
           "misconfigured"
    ELSE IF c.parse THEN "supported" ELSE "unknown"

engineParsedState ==
    IF sourceState(engine) = "supported" /\ IsInvalid(engine.config.strings, "engine.cgroup_manager")
    THEN "misconfigured" ELSE sourceState(engine)

cgroupManagerState ==
    LET manager == Text(engine.config, "engine.cgroup_manager")
    IN  IF engineParsedState # "supported" THEN "unknown"
        ELSE IF manager = <<"systemd">> THEN "supported"
        ELSE IF manager = <<"cgroupfs">> THEN "unsupported"
        ELSE "unknown"

rootless == ~target.root

rootlessCommand ==
    LET command == network.config.strings["network.default_rootless_network_cmd"]
    IN  IF command.invalid THEN <<>>
        ELSE IF command.value = <<>> THEN <<"slirp4netns">> ELSE command.value

(* networkParsedState: slirp's options count only where slirp is used.     *)
ListsThatCount(dnsOnly) ==
    {f \in DOMAIN network.config.lists :
       \/ f \in {"containers.dns_servers", "containers.dns_options"}
       \/ ~dnsOnly /\ f = "engine.network_cmd_options" /\ rootless
          /\ rootlessCommand = <<"slirp4netns">>}

networkParsedState(dnsOnly) ==
    LET strings == network.config.strings
        lists == {network.config.lists[f] : f \in ListsThatCount(dnsOnly)}
    IN  IF sourceState(network) # "supported" THEN sourceState(network)
        ELSE IF \/ ~dnsOnly /\ IsInvalid(strings, "network.network_backend")
                \/ ~dnsOnly /\ rootless /\ IsInvalid(strings, "network.default_rootless_network_cmd")
                \/ \E l \in lists : l.invalid # {}
             THEN "misconfigured"
        ELSE IF \E l \in lists : l.inherited \/ l.unmodeled # {} THEN "unknown"
        ELSE "supported"

networkChoiceState(choice, wanted) ==
    IF choice = wanted THEN "supported"
    ELSE IF choice \in {<<"netavark">>, <<"cni">>, <<"pasta">>, <<"slirp4netns">>} THEN "unsupported"
    ELSE "unknown"

networkChoice(key, wanted) ==
    LET strings == network.config.strings
    IN  IF sourceState(network) # "supported" THEN "unknown"
        ELSE IF key = "network.default_rootless_network_cmd" /\ ~rootless THEN "unsupported"
        ELSE IF key \notin DOMAIN strings THEN "unknown"
        ELSE IF IsInvalid(strings, key) THEN "misconfigured"
        ELSE networkChoiceState(
                        IF key = "network.network_backend" THEN strings[key].value ELSE rootlessCommand,
                        wanted)

storageParsedState ==
    IF sourceState(storage) # "supported" THEN sourceState(storage)
    ELSE IF ~storage.found THEN "unknown"
    ELSE IF storage.problems # {} THEN "misconfigured"
    ELSE "supported"

storageOverlayState ==
    LET driver == Text(storage.config, "driver")
    IN  IF storageParsedState # "supported" \/ driver = <<>> THEN "unknown"
        ELSE IF driver \in Overlay THEN "supported"
        ELSE "unsupported"

(* The verdicts on the sources, by capability. *)
Verdicts ==
    "engine" :> Definite(engine.complete, engineParsedState)
    @@ "cgroup" :> Definite(engine.complete, cgroupManagerState)
    @@ "network" :> Definite(network.complete, networkParsedState(FALSE))
    @@ "dns" :> Definite(network.complete, networkParsedState(TRUE))
    @@ "netavark" :> Definite(network.complete, networkChoice("network.network_backend", <<"netavark">>))
    @@ "pasta" :> Definite(network.complete,
                           networkChoice("network.default_rootless_network_cmd", <<"pasta">>))
    @@ "storage" :> Definite(storage.complete, storageParsedState)
    @@ "overlay" :> Definite(storage.complete, storageOverlayState)

-----------------------------------------------------------------------------
executableState(c) ==
    IF c.present = "unknown" THEN "unknown"
    ELSE IF c.present = "no" THEN "unsupported"
    ELSE IF ~c.regular THEN "misconfigured"
    ELSE IF c.executable = "unknown" THEN "unknown"
    ELSE IF c.bits /\ c.executable = "yes" THEN "supported" ELSE "misconfigured"

(* configuredPathsMatch, networkPathsMatch: the measured candidates are a  *)
(* prefix of the ones that the configuration, derived once more, gives.    *)
PathsMatch(role) ==
    LET x == measured[role]
        paths == [i \in DOMAIN x.seen |-> x.seen[i].path]
        plan == [i \in DOMAIN Candidates(role) |-> Candidates(role)[i].path]
    IN  /\ IsPrefix(paths, plan)
        /\ IF x.selected = <<>> THEN paths = plan
           ELSE paths # <<>> /\ Last(paths) = x.selected

SourceSupports(role) ==
    CASE role \in NetworkRoles -> sourceState(network) = "supported" /\ engineParsedState = "supported"
      [] role \in EngineRoles -> engineParsedState = "supported"
      [] OTHER -> storageParsedState = "supported"

(* configuredExecutableEvidence, networkHelperState and                    *)
(* storageMountProgramEvidence: a helper that is nowhere is misconfigured. *)
helperState(role) ==
    LET x == measured[role]
    IN  IF ~SourceSupports(role) \/ ~Known(role) THEN "unknown"
        ELSE IF ~PathsMatch(role) \/ (role \in EngineRoles /\ x.seen = <<>>) THEN "unknown"
        ELSE IF x.selected # <<>> THEN
               IF executableState(Last(x.seen)) = "unsupported" THEN "misconfigured"
               ELSE executableState(Last(x.seen))
        ELSE IF \E c \in ToSet(x.seen) : c.present = "unknown" THEN "unknown"
                      ELSE "misconfigured"

HelperVerdict(role) == Definite(measured[role].complete, helperState(role))

-----------------------------------------------------------------------------
Stores == {"roots", "image_store", "additional"}

(* expectedStoragePaths: the elements of the selection that a capability   *)
(* is about.                                                               *)
About(store, item) ==
    CASE store = "roots" -> item.store \in {"graphroot", "runroot"}
      [] store = "image_store" -> item.store = "imagestore"
      [] OTHER -> TRUE

GroupOf(store) == IF store = "additional" THEN "additional" ELSE "roots"

Expected(store) == SelectSeq(StoreNames(GroupOf(store)), LAMBDA item : About(store, item))

storageDirectoryState(store, item) ==
    IF item.present = "unknown" THEN "unknown"
    ELSE IF item.present = "no" THEN IF store = "additional" THEN "misconfigured" ELSE "unknown"
    ELSE IF item.checked # item.path THEN "unknown"
    ELSE IF item.directory = "no" \/ item.accessible = "no" THEN "misconfigured"
    ELSE IF item.accessible = "unknown" THEN "unknown"
    ELSE IF store # "additional" /\ item.readonly = "unknown" THEN "unknown"
    ELSE IF store # "additional" /\ item.readonly = "yes" THEN "misconfigured"
    ELSE "supported"

(* selectedStoragePathsState *)
storePathsState(store) ==
    LET seen == SelectSeq(measured[GroupOf(store)].seen, LAMBDA item : About(store, item))
        expected == Expected(store)
        states == {storageDirectoryState(store, item) : item \in ToSet(seen)}
    IN  IF [i \in DOMAIN seen |-> seen[i].path] # [i \in DOMAIN expected |-> expected[i].path] THEN
               "unknown"
        ELSE IF "misconfigured" \in states THEN "misconfigured"
        ELSE IF "unknown" \in states THEN "unknown" ELSE "supported"

StoreVerdict(store) ==
    IF Definite(storage.complete, storageParsedState) # "supported" THEN "unknown"
    ELSE IF Len(Expected(store)) > MaxStoragePaths THEN "unknown"
    ELSE IF Expected(store) = <<>> THEN "supported"
    ELSE Definite(measured[GroupOf(store)].complete, storePathsState(store))
=============================================================================
