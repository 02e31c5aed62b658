--------------------------- MODULE MCConfiguration ---------------------------
(* A small instance: hosts that differ in one respect each from a plain    *)
(* one, the kinds of users, and one thing that may happen to a host.       *)
EXTENDS Configuration

Doc(fields) == [syntax |-> "ok", fields |-> fields]
Broken(syntax) == [syntax |-> syntax, fields |-> <<>>]
T(text) == [is |-> "text", text |-> text]
Items(texts) == [i \in DOMAIN texts |-> T(texts[i])]
L(texts) == [is |-> "list", items |-> Items(texts)]
A(flag, texts) == [is |-> "list", items |-> Append(Items(texts), [is |-> "append", flag |-> flag])]
Other == [is |-> "other"]

F(doc) == [is |-> "file", size |-> 1, read |-> "ok", doc |-> doc]
Program(bits, exec) == [is |-> "program", bits |-> bits, exec |-> exec]
D(list, access, fs) == [is |-> "dir", link |-> FALSE, list |-> list, access |-> access, fs |-> fs]
Dir == D("ok", "yes", "no")
Linked == [Dir EXCEPT !.link = TRUE]
Gone == [is |-> "absent"]
Denied == [is |-> "denied"]
Failing == [is |-> "failing"]
Special == [is |-> "special"]

opt == <<"/", "opt">>
lib == <<"/", "lib">>
usrBin == <<"/", "usr", "bin">>
etcD == DropIns(systemConf)
DropIn(name) == Append(etcD, name)

(* Configuration documents. *)
vendorDoc == Doc("engine.helper_binaries_dir" :> L(<<lib>>) @@ "engine.runtime" :> T(<<"crun">>)
                 @@ "engine.cgroup_manager" :> T(<<"systemd">>)
                 @@ "engine.conmon_path" :> L(<<Append(lib, "conmon")>>)
                 @@ "engine.runtimes.crun" :> L(<<Append(opt, "crun"), Append(lib, "crun")>>)
                 @@ "network.network_backend" :> T(<<"netavark">>))
appendDoc == Doc("engine.helper_binaries_dir" :> A("yes", <<opt>>)
                 @@ "containers.dns_servers" :> A("yes", <<<<"8.8.8.8">>>>))
moreDoc == Doc("engine.helper_binaries_dir" :> L(<<<<"/", "srv">>>>)
               @@ "containers.dns_servers" :> L(<<<<"?">>>>) @@ "network.firewall_driver" :> Other)
resetDoc == Doc("engine.helper_binaries_dir" :> A("no", <<opt>>)
                @@ "engine.cgroup_manager" :> T(<<"cgroupfs">>)
                @@ "network.default_rootless_network_cmd" :> T(<<>>)
                @@ "engine.network_cmd_options" :> L(<<<<"~">>>>))
oddDoc == Doc("engine.cgroup_manager" :> T(<<"?">>) @@ "network.network_backend" :> T(<<"?">>))
cniDoc == Doc("engine.cgroup_manager" :> T(<<"systemd">>) @@ "network.network_backend" :> T(<<"cni">>)
              @@ "engine.network_cmd_path" :> T(Append(opt, "slirp4netns"))
              @@ "engine.runtime" :> T(Append(opt, "crun")))
envDoc == Doc("engine.env" :> L(<<<<"X">>>>))
overrideDoc == Doc("engine.platform_to_oci_runtime" :> Other @@ "engine.helper_binaries_dir" :>
                     L(<<lib, <<"$BINDIR", "helpers">>, opt>>))
manyDoc == Doc("engine.helper_binaries_dir" :> A("yes", <<opt, usrBin>>))
unsupportedDoc == Doc("engine.runtime" :> T(<<"?">>))
invalidDoc == Doc("network.network_backend" :> Other)
longDoc == Doc("engine.conmon_path" :> L(<<opt, opt, opt, opt, opt>>))
twiceDoc == Doc("engine.runtime" :> T(<<"crun">>)
                @@ "engine.runtimes.crun" :> L(<<Append(usrBin, "crun")>>))

overlayDoc == Doc("driver" :> T(<<"overlay2">>) @@ "graphroot" :> T(<<"/", "graph">>)
                  @@ "overlay.mount_program" :> T(Append(usrBin, "fuse")))
vfsDoc == Doc("driver" :> T(<<"vfs">>) @@ "ignore_chown_errors" :> T(<<"?">>)
              @@ "rootless_storage_path" :> T(<<"$HOME", "graph">>) @@ "runroot" :> T(<<"/", "run", "storage">>))
storesDoc == Doc("driver" :> T(<<"overlay">>) @@ "imagestore" :> T(<<"/", "images">>)
                 @@ "ignore_chown_errors" :> T(<<"true">>)
                 @@ "graphroot" :> T(<<"/", "graph">>) @@ "runroot" :> T(<<"/", "run", "storage">>)
                 @@ "additionalimagestores" :> L(<<<<"/", "images">>, <<"/", "graph">>>>))
manyStoresDoc == Doc("driver" :> T(<<"overlay">>)
                     @@ "additionalimagestores" :> L(<<<<"/", "images">>, <<"/", "graph">>,
                                                      <<"/", "run">>, <<"/", "home">>>>))
sameDoc == Doc("imagestore" :> T(<<"/", "graph">>) @@ "graphroot" :> T(<<"/", "graph">>)
               @@ "runroot" :> T(<<"/", "..", "run">>))

plain ==
    vendorConf :> F(vendorDoc) @@ etcD :> Dir @@ DropIn("10.conf") :> F(appendDoc)
    @@ DropIn("20.conf") :> F(moreDoc)
    @@ Append(lib, "netavark") :> Program(TRUE, "yes") @@ Append(lib, "crun") :> Program(TRUE, "yes")
    @@ Append(usrBin, "conmon") :> Program(TRUE, "yes") @@ Append(usrBin, "pasta") :> Program(FALSE, "no")
    @@ Append(usrBin, "fuse") :> Program(TRUE, "yes")
    @@ <<"/", "bin", "pasta">> :> Program(TRUE, "yes")
    @@ vendorStorage :> F(overlayDoc)
    @@ <<"/">> :> Dir @@ <<"/", "graph">> :> Dir @@ <<"/", "images">> :> D("ok", "no", "yes")
    @@ <<"/", "run">> :> Dir @@ <<"/", "run", "storage">> :> Dir
    @@ <<"/", "home">> :> Dir @@ <<"/", "home", "graph">> :> Dir

With(changes) == changes @@ plain

LegacyRoot == [profile |-> "493", root |-> TRUE, xdg |-> FALSE, runtime |-> FALSE, environment |-> TRUE]
LegacyUser == [LegacyRoot EXCEPT !.root = FALSE, !.runtime = TRUE]
ModernRoot == [LegacyRoot EXCEPT !.profile = "584", !.xdg = TRUE]
ModernUser == [LegacyUser EXCEPT !.profile = "584", !.xdg = TRUE]
Users == {LegacyRoot, LegacyUser, ModernRoot, ModernUser}
Oddities == {[ModernUser EXCEPT !.profile = "unqualified"], [ModernUser EXCEPT !.environment = FALSE],
             [ModernUser EXCEPT !.runtime = FALSE]}

Nothing1 == [is |-> "nothing", path |-> <<>>, node |-> Gone, fired |-> FALSE]
Cancel == [Nothing1 EXCEPT !.is = "cancel"]
Replace(p, n) == [is |-> "replace", path |-> p, node |-> n, fired |-> FALSE]

(* More files than MaxConfigSources allows: one drop-in or one main file. *)
Crowded ==
    DropIns(rootlessConf) :> Dir @@ Append(DropIns(rootlessConf), "10.conf") :> F(moreDoc)
    @@ DropIns(userConf) :> Dir @@ Append(DropIns(userConf), "10.conf") :> F(moreDoc)
    @@ Append(DropIns(userConf), "20.conf") :> F(resetDoc)

(* Each of these hosts is at rest. *)
AtRest ==
    {With(changes) : changes \in
       {DropIn("?.conf") :> F(moreDoc), DropIn("README") :> F(Broken("malformed")),
        systemConf :> F(resetDoc), systemConf :> F(oddDoc), systemConf :> F(cniDoc), systemConf :> F(manyDoc),
        systemConf :> F(envDoc), systemConf :> F(overrideDoc), systemConf :> F(unsupportedDoc),
        systemConf :> F(invalidDoc), systemConf :> F(longDoc), systemConf :> F(Broken("malformed")),
        systemConf :> F(Broken("limit")), systemConf :> Denied, systemConf :> Failing,
        systemConf :> [F(resetDoc) EXCEPT !.read = "EACCES"],
        systemConf :> [F(resetDoc) EXCEPT !.size = 9],
        etcD :> Linked, etcD :> D("EACCES", "yes", "no"), etcD :> D("EIO", "yes", "no"), etcD :> Denied,
        rootlessConf :> F(cniDoc) @@ userConf :> F(resetDoc)
          @@ Append(DropIns(rootlessConf), "uid") :> Dir @@ DropIns(rootlessConf) :> Dir
          @@ Append(DropIns(rootlessConf), "10.conf") :> F(oddDoc),
        Crowded, Append(Append(DropIns(rootlessConf), "uid"), "10.conf") :> F(oddDoc)
          @@ Append(DropIns(rootlessConf), "uid") :> Dir @@ Crowded,
        userConf :> F(oddDoc) @@ DropIns(userConf) :> Dir
          @@ Append(DropIns(userConf), "10.conf") :> F(cniDoc),
        userStorage :> F(vfsDoc), systemStorage :> F(vfsDoc), systemStorage :> F(storesDoc),
        systemStorage :> F(storesDoc) @@ userStorage :> F(overlayDoc), systemStorage :> F(manyStoresDoc),
        userStorage :> F(sameDoc), systemStorage :> F(sameDoc), userStorage :> F(storesDoc),
        systemStorage :> F(Broken("malformed")) @@ userStorage :> F(vfsDoc),
        systemStorage :> Denied, userStorage :> Failing, userStorage :> F(Broken("unsupported")),
        <<"/", "graph">> :> Special, <<"/", "graph">> :> Gone,
        <<"/", "run", "storage">> :> Denied, <<"/", "run", "storage">> :> D("ok", "unknown", "no"),
        Append(lib, "netavark") :> Special, Append(lib, "netavark") :> Gone,
        Append(lib, "conmon") :> Special, Append(lib, "conmon") :> Dir,
        Append(opt, "crun") :> Program(FALSE, "no"), Append(opt, "crun") :> Special,
        Append(opt, "crun") :> Denied, Append(usrBin, "fuse") :> Gone,
        Append(lib, "pasta") :> Program(TRUE, "unknown")}}

(* What may happen to a file. *)
Happenings ==
    {Replace(p, n) : p \in {systemConf, DropIn("10.conf"), DropIn("20.conf")},
                     n \in {Gone, F(resetDoc), F(Broken("malformed")), Denied}}
    \cup {Replace(p, n) : p \in {Append(lib, "netavark"), Append(opt, "crun"), Append(usrBin, "pasta")},
                          n \in {Gone, Program(TRUE, "yes"), Program(FALSE, "no"), Special}}
    \cup {Replace(p, n) : p \in {systemStorage, userStorage, vendorStorage},
                          n \in {Gone, F(storesDoc), F(vfsDoc), F(Broken("malformed"))}}
    \cup {Replace(<<"/", "graph">>, n) : n \in {Gone, Special, D("ok", "no", "no")}}
    \cup {Replace(etcD, Linked), Cancel}

(* A runtime that is a candidate by its configuration and again by PATH,   *)
(* with another one further down PATH.                                     *)
Twice == With(systemConf :> F(twiceDoc) @@ Append(usrBin, "crun") :> Special
              @@ <<"/", "bin", "crun">> :> Program(TRUE, "yes"))
Appearing == {Replace(Append(usrBin, "crun"), n) : n \in {Gone, Program(TRUE, "yes"), Program(FALSE, "no")}}

S(hosts, targets, events) ==
    {[host |-> h, target |-> t, event |-> e] : h \in hosts, t \in targets, e \in events}

MCSituations ==
    S(AtRest, Users, {Nothing1}) \cup S({plain}, Oddities, {Nothing1, Cancel})
    \cup S({With(systemConf :> F(cniDoc) @@ systemStorage :> F(storesDoc))}, Users, Happenings)
    \cup S({Twice}, {ModernUser}, Appearing)

(* A run that is cancelled while a drop-in directory is read. *)
CancelledSituations == S({plain}, {LegacyRoot}, {Cancel})
=============================================================================
