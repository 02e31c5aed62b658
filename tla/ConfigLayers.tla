---------------------------- MODULE ConfigLayers ----------------------------
(***************************************************************************)
(* The projections of containers.conf and storage.conf and the merge of    *)
(* their layers (src/internal/config).                                     *)
(*                                                                         *)
(* A document is what the TOML decoder makes of a file: a syntax verdict   *)
(* and typed values by field.  A text is the sequence of its path          *)
(* elements: <<"crun">> is a name, <<"/", "x">> a path; "?" stands for any *)
(* spelling no field recognizes and "~" for one that is recognized but not *)
(* interpreted.  An array element of storage.conf holds one path.  Of      *)
(* fields that are treated alike one stands for all; unknown fields, which *)
(* are only counted, are left out.                                         *)
(***************************************************************************)
EXTENDS Naturals, Sequences, FiniteSets, SequencesExt, TLC

CONSTANT MaxConfigList

IsAbs(text) == text # <<>> /\ text[1] = "/"

(* runtimeName *)
IsName(text) == Len(text) = 1 /\ text[1] \notin {"/", "?", "~", "$BINDIR", "$HOME"}

configPath(text) == IsAbs(text) /\ "?" \notin ToSet(text)

configListPath(text, field) ==
    \/ configPath(text)
    \/ field = "engine.helper_binaries_dir" /\ text # <<>> /\ text[1] = "$BINDIR"

(* The recognized fields in the order in which they are visited: sections  *)
(* as the parser names them, keys sorted.  A section that is not a table   *)
(* has the section itself for a field.                                     *)
EngineFields ==
    <<"engine", "engine.cgroup_manager", "engine.conmon_path", "engine.env",
      "engine.helper_binaries_dir", "engine.platform_to_oci_runtime", "engine.runtime",
      "engine.runtimes.crun">>

NetworkFields ==
    <<"network", "network.default_rootless_network_cmd", "network.firewall_driver",
      "network.network_backend", "network.pasta_options", "containers", "containers.dns_options",
      "containers.dns_servers", "engine", "engine.network_cmd_options", "engine.network_cmd_path">>

StorageFields ==
    <<"storage", "driver", "graphroot", "imagestore", "additionalimagestores",
      "ignore_chown_errors", "mount_program", "overlay.mount_program", "overlay.use_composefs",
      "vfs.ignore_chown_errors", "rootless_storage_path", "runroot">>

(* Fields whose value is a choice: any other text is kept as an invalid    *)
(* one, for a later source may replace it.                                 *)
ChoiceTexts ==
    [f \in {"engine.cgroup_manager"} |-> {<<"systemd">>, <<"cgroupfs">>}]
    @@ [f \in {"network.network_backend"} |-> {<<"netavark">>, <<"cni">>}]
    @@ [f \in {"network.default_rootless_network_cmd"} |-> {<<"pasta">>, <<"slirp4netns">>}]
    @@ [f \in {"ignore_chown_errors", "overlay.use_composefs", "vfs.ignore_chown_errors"} |->
          {<<"true">>, <<"false">>}]

IsText(field) ==
    field \in DOMAIN ChoiceTexts \cup
              {"engine.runtime", "network.firewall_driver", "engine.network_cmd_path", "driver",
               "graphroot", "imagestore", "mount_program", "overlay.mount_program",
               "rootless_storage_path", "runroot"}

Acceptable(field, text) ==
    \/ text = <<>> \/ field \in DOMAIN ChoiceTexts
    \/ field \in {"engine.runtime", "network.firewall_driver", "driver"} /\ IsName(text)
    \/ field \notin {"network.firewall_driver", "driver"} /\ configPath(text)
    \/ field \in {"graphroot", "runroot", "rootless_storage_path"} /\ text[1] = "$HOME"

(* Lists of which only the number of elements is kept, and lists whose     *)
(* elements are marked instead of refused.                                 *)
Redacted == {"engine.env", "network.pasta_options"}
Marked == {"containers.dns_options", "containers.dns_servers", "engine.network_cmd_options"}
Attributed == Redacted \cup Marked \cup {"engine.conmon_path", "engine.helper_binaries_dir"}

(* The first element that parseConfigList or storageList stops at. *)
ItemProblem(field, item) ==
    CASE item.is = "other" -> "invalid"
      [] item.is = "append" -> IF field \in Attributed THEN "ok" ELSE "invalid"
      [] OTHER -> IF field \in Redacted \cup Marked \/ configListPath(item.text, field)
                  THEN "ok" ELSE "unsupported"

ListProblem(field, value) ==
    LET bad == SelectSeq(value.items, LAMBDA item : ItemProblem(field, item) # "ok")
    IN  IF Len(value.items) > MaxConfigList THEN "limit"
        ELSE IF bad = <<>> THEN "ok" ELSE ItemProblem(field, Head(bad))

(* parseEngineField, parseNetworkField, parseStorageField and             *)
(* parseStorageOptions.                                                    *)
FieldProblem(field, value) ==
    IF field = "engine.platform_to_oci_runtime" THEN "ok"
    ELSE IF field \in {"engine", "network", "containers", "storage"} THEN "invalid"
    ELSE IF IsText(field)
         THEN IF value.is # "text" THEN "invalid"
              ELSE IF Acceptable(field, value.text) THEN "ok" ELSE "unsupported"
    ELSE IF value.is # "list" THEN "invalid" ELSE ListProblem(field, value)

(* What a parser sees of a document: 4.9.3 does not know two of the fields. *)
Unknown493 == {"network.firewall_driver", "overlay.use_composefs"}

Present(doc, fields, modern) ==
    {f \in ToSet(fields) : f \in DOMAIN doc.fields /\ (modern \/ f \notin Unknown493)}

(* ParseEngine, ParseNetwork, ParseStorageForFields: "ok" or the error.    *)
Parse(doc, fields, modern) ==
    LET bad == {i \in DOMAIN fields : /\ fields[i] \in Present(doc, fields, modern)
                                     /\ FieldProblem(fields[i], doc.fields[fields[i]]) # "ok"}
        first == fields[Min(bad)]
    IN  IF doc.syntax # "ok" THEN doc.syntax
        ELSE IF bad = {} THEN "ok" ELSE FieldProblem(first, doc.fields[first])

(* An element's mark: slirpOption, net.ParseIP and dnsOption.              *)
Mark(field, text) ==
    IF field \notin Marked \/ text[1] \notin {"?", "~"} THEN "ok"
    ELSE IF field = "containers.dns_options" \/ text[1] = "~" THEN "unmodeled"
    ELSE "invalid"

ListLayer(field, value) ==
    LET texts == FlattenSeq([i \in DOMAIN value.items |->
                    IF value.items[i].is = "text" THEN <<value.items[i].text>> ELSE <<>>])
        flags == SelectSeq(value.items, LAMBDA item : item.is = "append")
        Marks(m) == {i \in DOMAIN texts : Mark(field, texts[i]) = m}
    IN  [values |-> [i \in DOMAIN texts |->
                       IF field \in Redacted \/ Mark(field, texts[i]) # "ok" THEN <<>> ELSE texts[i]],
         append |-> IF flags = <<>> THEN "unset" ELSE Last(flags).flag,
         invalid |-> Marks("invalid"), unmodeled |-> Marks("unmodeled")]

NoLayer == [strings |-> <<>>, lists |-> <<>>, overrides |-> FALSE]

(* EngineLayer, NetworkLayer, StorageLayer of a document that parses. *)
Layer(doc, fields, modern) ==
    LET present == Present(doc, fields, modern) \ {"engine.platform_to_oci_runtime"}
        strings == {f \in present : IsText(f)}
        Valid(f) == Acceptable(f, doc.fields[f].text)
                    /\ (f \in DOMAIN ChoiceTexts => doc.fields[f].text \in ChoiceTexts[f] \cup {<<>>})
    IN  [strings |-> [f \in strings |-> [value |-> IF Valid(f) THEN doc.fields[f].text ELSE <<>>,
                                         invalid |-> ~Valid(f)]],
         lists |-> [f \in present \ strings |-> ListLayer(f, doc.fields[f])],
         overrides |-> "engine.platform_to_oci_runtime" \in Present(doc, fields, modern)]

-----------------------------------------------------------------------------
(* engine.go: the merge.  A configuration maps the fields that some layer  *)
(* set to their effective values.                                          *)

mergeString(previous, layer, source) ==
    [f \in DOMAIN previous \cup DOMAIN layer |->
       IF f \notin DOMAIN layer THEN previous[f]
       ELSE [value |-> layer[f].value, invalid |-> layer[f].invalid, source |-> source]]

EmptyList(inherited) ==
    [values |-> <<>>, origins |-> <<>>, invalid |-> {}, unmodeled |-> {},
     append |-> "unset", inherited |-> inherited, source |-> 0]

Unset == EmptyList(TRUE)

MergedList(kept, append, layer, source) ==
    [values |-> kept.values \o layer.values,
     origins |-> kept.origins \o [i \in DOMAIN layer.values |-> source],
     invalid |-> kept.invalid \cup {Len(kept.values) + i : i \in layer.invalid},
     unmodeled |-> kept.unmodeled \cup {Len(kept.values) + i : i \in layer.unmodeled},
     append |-> append, inherited |-> kept.inherited, source |-> source]

(* Appending only where this layer says so. *)
mergeListForgetful(previous, layer, source) ==
    MergedList(IF layer.append = "yes" THEN previous ELSE EmptyList(FALSE),
               layer.append, layer, source)

(* The append state persists until a layer resets it; the first layer of a *)
(* list appends to or replaces a built-in default nobody measured.         *)
mergeList(previous, layer, source) ==
    LET append == IF layer.append = "unset" THEN previous.append ELSE layer.append
    IN  MergedList(IF append = "yes" THEN previous ELSE EmptyList(FALSE), append, layer, source)

MergeLists(previous, layer, source) ==
    [f \in DOMAIN previous \cup DOMAIN layer |->
       IF f \notin DOMAIN layer THEN previous[f]
       ELSE mergeList(IF f \in DOMAIN previous THEN previous[f] ELSE Unset, layer[f], source)]

Nothing == NoLayer

(* The arrays of engine.runtimes carry no append flag, so that mergeList   *)
(* replaces them by name; mergeRedacted is mergeList without the values.   *)
MergeEngine(previous, layer, source) ==
    [strings |-> mergeString(previous.strings, layer.strings, source),
     lists |-> MergeLists(previous.lists, layer.lists, source),
     overrides |-> previous.overrides \/ layer.overrides]

MergeNetwork(previous, layer, source) ==
    [strings |-> mergeString(previous.strings, layer.strings, source),
     lists |-> MergeLists(previous.lists, layer.lists, source),
     overrides |-> previous.overrides]

(* ProjectStorage copies one source and merges nothing. *)
ProjectStorage(layer, source) == MergeNetwork(Nothing, layer, source)
=============================================================================
