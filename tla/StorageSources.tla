---------------------------- MODULE StorageSources ----------------------------
(***************************************************************************)
(* The selection and the reading of storage.conf                           *)
(* (src/internal/runtime/podman/storage.go, storage_helpers.go).  Nothing  *)
(* is merged: one file gives the baseline, from which a rootless user      *)
(* keeps little, and another one, when it is there, replaces it.           *)
(***************************************************************************)
EXTENDS EngineSources

VARIABLE storage

vendorStorage == <<"/", "usr", "storage.conf">>
systemStorage == <<"/", "etc", "storage.conf">>
userStorage == <<"/", "home", ".config", "storage.conf">>
dataHome == <<"/", "home", ".local">>
runtimeDir == <<"/", "run", "user">>

StorageInit ==
    storage = [at |-> "start", selection |-> qualified /\ target.environment,
               parse |-> target.environment, complete |-> target.environment,
               sources |-> <<>>, baseline |-> vendorStorage, final |-> userStorage,
               config |-> Nothing, found |-> FALSE, problems |-> {}]

-----------------------------------------------------------------------------
(* collector.exists: what its caller learns and what it leaves behind.     *)
Exists(p) == ~cancelled /\ StatError(host, p) = "ok"

AfterExists(p) ==
    LET error == Ended(StatError(host, p))
        status == CASE error = "ok" -> "available" [] error = "ENOENT" -> "absent"
                    [] OTHER -> FailureStatus(error)
        s == [storage EXCEPT !.sources = Append(@, [path |-> p, phase |-> "selection",
                status |-> status, selected |-> FALSE, applied |-> FALSE, layer |-> NoLayer])]
    IN  IF error \in {"ok", "ENOENT"} THEN s
        ELSE [s EXCEPT !.complete = FALSE, !.parse = FALSE, !.selection = @ /\ error = "ECANCELED"]

(* collector.read: the status of the file, and the storage after it.       *)
FileStatus(p) ==
    LET error == Ended(ReadError(host, p))
    IN  CASE error = "ENOENT" -> "absent"
          [] error = "ok" -> LET problem == Parse(host[p].doc, StorageFields, ~legacy)
                             IN  IF problem = "ok" THEN "parsed" ELSE problem
          [] OTHER -> FailureStatus(error)

AfterRead(p, phase) ==
    LET status == FileStatus(p)
        intact == status \in {"absent", "parsed"}
        source == [path |-> p, phase |-> phase, status |-> status, selected |-> phase # "candidate",
                   applied |-> status = "parsed" /\ phase # "candidate"
                               /\ storage.parse /\ storage.selection,
                   layer |-> IF status = "parsed" THEN Layer(host[p].doc, StorageFields, ~legacy)
                             ELSE NoLayer]
    IN  [storage EXCEPT !.sources = Append(@, source), !.parse = @ /\ intact,
                        !.complete = @ /\ (intact \/ status \in {"malformed", "invalid"})]

(* What a file that was read without a problem says; nothing when it is    *)
(* gone.                                                                   *)
Projection(p) ==
    IF FileStatus(p) = "absent" THEN Nothing
    ELSE ProjectStorage(Layer(host[p].doc, StorageFields, ~legacy), Len(storage.sources) + 1)

-----------------------------------------------------------------------------
Put(c, f, entry) ==
    [c EXCEPT !.strings = [g \in DOMAIN @ \cup {f} |-> IF g = f THEN entry ELSE @[g]]]

SetRoot(c, f, text) == Put(c, f, [value |-> text, invalid |-> FALSE, source |-> 0])

storageFallback(c, f, text) == IF Has(c.strings, f) THEN c ELSE SetRoot(c, f, text)

storageFallbackValue(c, f, from, g) ==
    IF Has(c.strings, f) \/ g \notin DOMAIN from.strings THEN c ELSE Put(c, f, from.strings[g])

Text(c, f) == IF f \in DOMAIN c.strings THEN c.strings[f].value ELSE <<>>

Overlay == {<<"overlay">>, <<"overlay2">>}

(* What rootlessStorage keeps of the system's configuration. *)
rootlessStorage(system) ==
    LET driver == IF Text(system, "driver") \in Overlay \cup {<<"vfs">>, <<"btrfs">>}
                  THEN {"driver"} ELSE {}
        Said(f) == Has(system.strings, f) \/ IsInvalid(system.strings, f)
        chown == IF Said("ignore_chown_errors") THEN "ignore_chown_errors"
                 ELSE "overlay.ignore_chown_errors"
        kept == [Nothing EXCEPT !.strings =
                   [f \in (DOMAIN system.strings \cap {"rootless_storage_path"}) \cup driver |->
                      system.strings[f]]]
        optioned == IF ~Said(chown) \/ Text(kept, "driver") \notin Overlay THEN kept
                    ELSE Put(kept, "overlay.ignore_chown_errors", system.strings[chown])
        rooted == storageFallback(
                      storageFallbackValue(optioned, "graphroot", system, "rootless_storage_path"),
                      "graphroot", Append(dataHome, "storage"))
    IN  IF target.runtime THEN SetRoot(rooted, "runroot", Append(runtimeDir, "containers")) ELSE rooted

WithDefaults(system) ==
    storageFallback(storageFallback(system, "runroot", <<"/", "run", "storage">>),
                    "graphroot", <<"/", "var", "storage">>)

Baseline(system) ==
    IF target.root THEN WithDefaults(system) ELSE rootlessStorage(WithDefaults(system))

(* A replacement that is merged into what it replaces. *)
ReplacementMerged(new, old) == [new EXCEPT !.strings = @ @@ old.strings]

(* A replacement inherits the roots it does not name, except for root on   *)
(* 4.9.3.                                                                  *)
Replacement(new, old) ==
    IF target.root /\ legacy THEN new
    ELSE LET rooted == storageFallbackValue(new, "runroot", old, "runroot")
         IN  IF Has(new.strings, "rootless_storage_path")
             THEN storageFallbackValue(rooted, "graphroot", new, "rootless_storage_path")
             ELSE storageFallbackValue(rooted, "graphroot", old, "graphroot")

(* ExpandStoragePath, which refuses what it cannot resolve by its text.    *)
Expanded(text) ==
    IF text # <<>> /\ text[1] = "$HOME" THEN <<"/", "home">> \o Tail(text) ELSE text

Expandable(text) == ".." \notin ToSet(text)

Roots == {"runroot", "graphroot", "rootless_storage_path"}

(* expandStorageRoots: root may lack one, nobody else. *)
RootsFail(c) ==
    \/ \E f \in Roots : Has(c.strings, f) /\ ~Expandable(c.strings[f].value)
    \/ ~target.root /\ \E f \in {"runroot", "graphroot"} : ~Has(c.strings, f)

ExpandRoots(c) ==
    LET old == c.strings
        expanded(f) ==
            CASE f \in Roots -> [old[f] EXCEPT !.value = Expanded(@)]
              [] f = "driver" /\ old[f].value = <<"overlay2">> -> [old[f] EXCEPT !.value = <<"overlay">>]
              [] OTHER -> old[f]
    IN  [c EXCEPT !.strings = [f \in DOMAIN old |-> expanded(f)]]

storageOptionsInvalid(c) ==
    LET bad == {f \in DOMAIN c.strings : c.strings[f].invalid}
    IN  CASE Text(c, "driver") \in Overlay -> bad \ {"vfs.ignore_chown_errors"} # {}
          [] Text(c, "driver") = <<"vfs">> ->
               bad \cap {"ignore_chown_errors", "vfs.ignore_chown_errors"} # {}
          [] OTHER -> FALSE

Problems(c) ==
    {f \in {"runroot", "graphroot"} : ~Has(c.strings, f)}
    \cup {f \in {"imagestore"} : Has(c.strings, f) /\ Text(c, f) = Text(c, "graphroot")}
    \cup {p \in {"storage_option_invalid"} : storageOptionsInvalid(c)}

(* storageMountProgram: the path of the declared program, or nothing.      *)
storageMountProgram(c) ==
    IF Text(c, "driver") \notin Overlay THEN <<>>
    ELSE IF Has(c.strings, "overlay.mount_program") THEN Text(c, "overlay.mount_program")
    ELSE Text(c, "mount_program")

-----------------------------------------------------------------------------
At(step) == storage.at = step

(* storageEngineBound; without it the files are read only to be reported.  *)
engineBound ==
    /\ EngineUsable(engine)
    /\ ~IsInvalid(engine.config.strings, "engine.cgroup_manager")
    /\ ~EnvironmentUnmodeled(engine.config.lists)

StartStorage ==
    /\ At("start")
    /\ storage' = [storage EXCEPT
         !.selection = @ /\ engineBound,
         !.at = IF ~target.environment THEN "done"
                ELSE IF qualified /\ engineBound THEN "system" ELSE "candidates"]

ReadCandidates ==
    LET paths == <<vendorStorage, systemStorage, userStorage>>
        next == Len(storage.sources) + 1
    IN  /\ At("candidates")
        /\ storage' = [AfterRead(paths[next], "candidate") EXCEPT
             !.at = IF next = Len(paths) THEN "done" ELSE @,
             !.complete = FALSE]

(* DefaultConfigFile's choice comes first and does not follow XDG.         *)
LookForSystem ==
    LET there == IF Exists(systemStorage) THEN systemStorage ELSE vendorStorage
    IN  /\ At("system")
        /\ storage' = [AfterExists(systemStorage) EXCEPT
             !.final = IF target.root THEN there ELSE userStorage,
             !.baseline = there, !.at = IF target.xdg THEN "user" ELSE "baseline"]

(* The user's file found for the baseline also taken for the override. *)
LookForUserTwice ==
    /\ At("user")
    /\ storage' = [AfterExists(userStorage) EXCEPT
         !.baseline = IF Exists(userStorage) THEN userStorage ELSE @,
         !.final = IF Exists(userStorage) THEN userStorage ELSE @, !.at = "baseline"]

LookForUser ==
    /\ At("user")
    /\ storage' = [AfterExists(userStorage) EXCEPT
         !.baseline = IF Exists(userStorage) THEN userStorage ELSE @, !.at = "baseline"]

ReadBaseline ==
    LET s == AfterRead(storage.baseline, "baseline")
    IN  /\ At("baseline")
        /\ storage' = IF s.parse /\ s.selection
                      THEN [s EXCEPT !.config = Baseline(Projection(storage.baseline)), !.at = "final"]
                      ELSE [s EXCEPT !.at = "finish"]

LookForOverride ==
    /\ At("final")
    /\ storage' = [AfterExists(storage.final) EXCEPT
         !.at = IF Exists(storage.final) THEN "override" ELSE "expand"]

ReadOverride ==
    /\ At("override")
    /\ storage' = [AfterRead(storage.final, "override") EXCEPT
         !.at = "expand",
         !.config = IF FileStatus(storage.final) \in {"absent", "parsed"}
                    THEN Replacement(Projection(storage.final), @) ELSE @]

ExpandSelected ==
    /\ At("expand")
    /\ storage' =
         IF ~storage.parse \/ ~storage.selection THEN [storage EXCEPT !.at = "finish"]
         ELSE IF RootsFail(storage.config)
         THEN [storage EXCEPT !.at = "finish", !.parse = FALSE, !.complete = FALSE]
         ELSE LET c == ExpandRoots(storage.config)
              IN  [storage EXCEPT !.at = "finish", !.config = c, !.found = TRUE,
                                  !.problems = Problems(c)]

FinishStorage ==
    /\ At("finish")
    /\ storage' = [storage EXCEPT !.at = "done", !.complete = @ /\ ~cancelled]

StorageNext ==
    \/ StartStorage \/ ReadCandidates \/ LookForSystem \/ LookForUser \/ ReadBaseline
    \/ LookForOverride \/ ReadOverride \/ ExpandSelected \/ FinishStorage
=============================================================================
