-------------------------- MODULE TargetDelegation --------------------------
(***************************************************************************)
(* The launcher and the target worker: the choice of the measuring         *)
(* identity (app/target.go prepareLiveIdentity), the isolated process that *)
(* drops its credentials and verifies the drop (platform/target.go), the   *)
(* worker's evaluation and the launcher's acceptance of its report         *)
(* (app/target.go evaluateTarget, executeTargetWorker).                    *)
(*                                                                         *)
(* The command runner between the two is CommandRunner with worker = TRUE, *)
(* reduced to what the launcher sees of it: a caller's cancellation or the *)
(* timeout sends SIGTERM, the wait delay kills, and an interrupted run     *)
(* returns an error whatever the worker's exit status.  The kernel's       *)
(* credential calls are external.  A read, a system call or a write that   *)
(* fails for a reason outside the program is a fault, kept as history.     *)
(***************************************************************************)
EXTENDS Integers, FiniteSets, Sequences

CONSTANTS Credentials,    \* credentials the launcher may have
          Accounts,       \* accounts the local files may hold for the selector
          NamespaceKinds, \* the kinds of namespace; targetNamespaceCount of them
          Documents       \* contents of the requirement file

NoIdentity == [uid |-> -1, gid |-> -1, groups |-> {}, known |-> FALSE]
NoDocument == "no document"

(* A resolved account has its primary group in its groups, all known. *)
ASSUME DelegationAssumption ==
    /\ Credentials \subseteq [uid : Nat, euid : Nat, gid : Nat, egid : Nat,
                              groups : SUBSET Nat, known : BOOLEAN]
    /\ \A c \in Credentials : ~c.known => c.groups = {}
    /\ Accounts \subseteq [uid : Nat, gid : Nat, groups : SUBSET Nat, known : {TRUE}]
    /\ \A a \in Accounts : a.gid \in a.groups
    /\ IsFiniteSet(NamespaceKinds) /\ NamespaceKinds # {}
    /\ NoDocument \notin Documents

VARIABLES
    world,       \* fixed: creds, selector, account, active, inheritable, noFixup
    file,        \* the requirement file; the path is not given when NoDocument
    ctx,         \* the launcher's context is live
    timedOut,    \* TargetWorkerTimeout has passed
    launcher,    \* position of the launcher
    requirement, \* opts.requirementJSON, read before anything else
    identity,    \* the launcher's EvaluationContext
    request,     \* the TargetRequest on the worker's standard input
    worker,      \* position of the worker
    drop,        \* credential calls the worker has made
    proc,        \* the worker's kernel credentials and descriptor 3
    workerCtx,   \* the worker's context is live
    command,     \* a command the worker's evaluation runs, in a group of its own
    signalled,   \* the runner sent SIGTERM to the worker's group
    fallback,    \* the wait delay passed and the worker was killed
    exit,        \* the worker's exit status
    response,    \* the report on the worker's standard output
    report,      \* what the launcher's evaluation returned
    faulted      \* history: something outside the program failed

launch   == <<launcher, requirement, identity, request, report>>
process  == <<worker, drop, proc, workerCtx, command, exit, response>>
runner   == <<timedOut, signalled, fallback>>
vars     == <<world, file, ctx, launch, process, runner, faulted>>

NoProcess == [uids |-> {}, gids |-> {}, groups |-> {}, caps |-> {}, fd |-> FALSE]
NoContext == [current |-> NoIdentity, target |-> NoIdentity, execution |-> NoIdentity,
              namespaces |-> {}]
NoReport == [by |-> "nobody", context |-> NoContext, requirement |-> NoDocument]
NoRequest == [context |-> NoContext, requirement |-> NoDocument]

Alive == worker \notin {"none", "exited", "killed"}

-----------------------------------------------------------------------------
(* Identities.                                                             *)

CredentialsValid(c) == c.uid = c.euid /\ c.gid = c.egid

sameCredentials(a, b) == a = b /\ a.known

(* ObserveCurrent: the effective identity, an execution identity only when *)
(* it is known in full.                                                    *)
ObserveCurrent(c, ns) ==
    LET user == [uid |-> c.euid, gid |-> c.egid, groups |-> c.groups, known |-> c.known]
    IN  [current |-> user, target |-> user, namespaces |-> ns,
         execution |-> IF CredentialsValid(c) /\ c.known THEN user ELSE NoIdentity]

(* The launcher's own execution identity is kept for another target. *)
prepareKeepsExecution(observed, selector, selected) ==
    IF selector = "current" THEN observed ELSE [observed EXCEPT !.target = selected]

(* prepareLiveIdentity: an explicit target keeps the execution identity    *)
(* only when it is the same.                                               *)
prepareLiveIdentity(observed, selector, selected) ==
    IF selector = "current" THEN observed
    ELSE [observed EXCEPT
            !.target = selected,
            !.execution = IF sameCredentials(@, selected) THEN @ ELSE NoIdentity]

(* Only a valid root launcher that sees every namespace delegates. *)
delegates(prepared, selector, c) ==
    /\ selector # "current"
    /\ prepared.execution = NoIdentity
    /\ prepared.target # NoIdentity
    /\ CredentialsValid(c) /\ c.euid = 0 /\ c.known
    /\ prepared.namespaces = NamespaceKinds

-----------------------------------------------------------------------------
(* The kernel.                                                             *)

(* exec copies the effective IDs to the saved ones; root has its           *)
(* capabilities, and what else it inherited.                               *)
Spawned(w) ==
    [uids |-> {w.creds.euid}, gids |-> {w.creds.egid}, groups |-> w.creds.groups,
     caps |-> {"prm", "eff"} \cup IF w.inheritable THEN {"inh"} ELSE {},
     fd |-> TRUE]

Permitted(p, call, t) ==
    \/ "eff" \in p.caps
    \/ call = "setresgid" /\ t.gid \in p.gids
    \/ call = "setresuid" /\ t.uid \in p.uids

(* Leaving UID 0 clears every capability set but the inheritable one,      *)
(* unless SECBIT_NO_SETUID_FIXUP is set.                                   *)
Called(p, call, t) ==
    CASE call = "setgroups" -> [p EXCEPT !.groups = t.groups]
      [] call = "setresgid" -> [p EXCEPT !.gids = {t.gid}]
      [] call = "setresuid" ->
           [p EXCEPT !.uids = {t.uid},
                     !.caps = IF 0 \in p.uids /\ t.uid # 0 /\ ~world.noFixup
                              THEN @ \cap {"inh"} ELSE @]

-----------------------------------------------------------------------------

Init ==
    /\ world \in [creds : Credentials, selector : {"current", "explicit"},
                  account : Accounts \cup {NoIdentity}, active : BOOLEAN,
                  inheritable : BOOLEAN, noFixup : BOOLEAN]
    /\ world.selector = "current" => world.account = NoIdentity
    /\ file \in Documents \cup {NoDocument}
    /\ ctx = TRUE
    /\ timedOut = FALSE
    /\ launcher = "read"
    /\ requirement = NoDocument
    /\ identity = NoContext
    /\ request = NoRequest
    /\ worker = "none"
    /\ drop = 0
    /\ proc = NoProcess
    /\ workerCtx = TRUE
    /\ command = FALSE
    /\ signalled = FALSE
    /\ fallback = FALSE
    /\ exit = "none"
    /\ response = NoReport
    /\ report = NoReport
    /\ faulted = FALSE

(* The file is written by somebody else. *)
Rewrite ==
    /\ file # NoDocument
    /\ file' \in Documents \ {file}
    /\ UNCHANGED <<world, ctx, launch, process, runner, faulted>>

(* A signal to the launcher or, in an active run, its 40 s deadline. *)
Interrupt ==
    /\ ctx
    /\ launcher # "done"
    /\ ctx' = FALSE
    /\ UNCHANGED <<world, file, launch, process, runner, faulted>>

-----------------------------------------------------------------------------
(* The launcher.                                                           *)

(* The run ends in an error: by a fault where it could have gone on. *)
LauncherFails(fault) ==
    /\ launcher' = "done"
    /\ faulted' = (faulted \/ fault)
    /\ UNCHANGED <<world, file, ctx, requirement, identity, request, report, process, runner>>

(* readLiveRequirement: the only time the document is read. *)
ReadRequirement ==
    /\ launcher = "read"
    /\ \/ LauncherFails(TRUE)
       \/ /\ requirement' = file
          /\ launcher' = "prepare"
          /\ UNCHANGED <<world, file, ctx, identity, request, report, process, runner, faulted>>

(* The account files or a namespace link may be unreadable. *)
Prepare ==
    /\ launcher = "prepare"
    /\ \E ns \in SUBSET NamespaceKinds, selected \in {world.account, NoIdentity} :
         LET prepared == prepareLiveIdentity(ObserveCurrent(world.creds, ns),
                                             world.selector, selected)
         IN  /\ identity' = prepared
             /\ launcher' = IF delegates(prepared, world.selector, world.creds)
                            THEN "delegate" ELSE "collect"
    /\ UNCHANGED <<world, file, ctx, requirement, request, report, process, runner, faulted>>

(* Evaluate in the launcher: without an execution identity no probe runs. *)
Collect ==
    /\ launcher = "collect"
    /\ \/ LauncherFails(TRUE)
       \/ /\ report' = [by |-> IF identity.execution = NoIdentity THEN "nobody" ELSE "launcher",
                        context |-> identity, requirement |-> requirement]
          /\ launcher' = "done"
          /\ UNCHANGED <<world, file, ctx, requirement, identity, request, process, runner, faulted>>

(* RunTarget: the request is checked and written, the executable pinned,   *)
(* the worker started; a cancelled caller starts nothing.                  *)
RunTarget ==
    /\ launcher = "delegate"
    /\ \/ LauncherFails(ctx)
       \/ /\ ctx
          /\ request' = [context |-> identity, requirement |-> requirement]
          /\ proc' = Spawned(world)
          /\ worker' = "boot"
          /\ launcher' = "wait"
          /\ UNCHANGED <<world, file, ctx, requirement, identity, report, drop, workerCtx,
                         command, exit, response, runner, faulted>>

(* The runner's timer. *)
Timeout ==
    /\ launcher = "wait"
    /\ ~timedOut
    /\ timedOut' = TRUE
    /\ UNCHANGED <<world, file, ctx, launch, process, signalled, fallback, faulted>>

(* The worker's group is killed at once. *)
TerminateByKill ==
    /\ launcher = "wait"
    /\ ~ctx \/ timedOut
    /\ Alive /\ ~signalled
    /\ signalled' = TRUE
    /\ worker' = "killed"
    /\ exit' = "signal"
    /\ UNCHANGED <<world, file, ctx, launch, workerCtx, drop, proc, command, response,
                   timedOut, fallback, faulted>>

(* SIGTERM ends a worker that has not installed its handler, and cancels   *)
(* the context of one that has.                                            *)
Terminate ==
    /\ launcher = "wait"
    /\ ~ctx \/ timedOut
    /\ Alive /\ ~signalled
    /\ signalled' = TRUE
    /\ workerCtx' = FALSE
    /\ worker' = IF worker = "boot" THEN "killed" ELSE worker
    /\ exit' = IF worker = "boot" THEN "signal" ELSE exit
    /\ UNCHANGED <<world, file, ctx, launch, drop, proc, command, response, timedOut,
                   fallback, faulted>>

(* The kill is left to a worker that did not take the signal. *)
KillUncooperative ==
    /\ signalled /\ workerCtx /\ Alive
    /\ worker' = "killed"
    /\ exit' = "signal"
    /\ fallback' = TRUE
    /\ UNCHANGED <<world, file, ctx, launch, drop, proc, workerCtx, command, response,
                   timedOut, signalled, faulted>>

(* The wait delay. *)
Kill ==
    /\ signalled /\ Alive
    /\ worker' = "killed"
    /\ exit' = "signal"
    /\ fallback' = TRUE
    /\ UNCHANGED <<world, file, ctx, launch, drop, proc, workerCtx, command, response,
                   timedOut, signalled, faulted>>

-----------------------------------------------------------------------------
(* The worker.                                                             *)

WorkerAt(pc) ==
    /\ worker = pc
    /\ UNCHANGED <<world, file, ctx, launch, runner>>

(* failure(stderr, ExitExecution, ...): by a fault where the worker could  *)
(* have gone on, or because a check of its own failed.                     *)
WorkerFails(fault) ==
    /\ worker' = "exited"
    /\ exit' = "70"
    /\ faulted' = (faulted \/ fault)
    /\ UNCHANGED <<drop, proc, workerCtx, command, response>>

WorkerGoes(pc) ==
    /\ worker' = pc
    /\ UNCHANGED <<workerCtx, command, exit, response, faulted>>

InstallHandler ==
    /\ WorkerAt("boot")
    /\ WorkerGoes("close")
    /\ UNCHANGED <<drop, proc>>

(* closeTargetExecutable, then the message is read and decoded. *)
CloseExecutable ==
    /\ WorkerAt("close")
    /\ \/ WorkerFails(TRUE)
       \/ /\ proc' = [proc EXCEPT !.fd = FALSE]
          /\ WorkerGoes("receive")
          /\ UNCHANGED drop

(* TargetRequest.validate. *)
validate(r) ==
    /\ r.context.target.known
    /\ r.context.namespaces # {}

(* The request is decoded and the worker must still be root. *)
Receive ==
    /\ WorkerAt("receive")
    /\ \/ WorkerFails(validate(request) /\ proc.uids = {0})
       \/ /\ validate(request)
          /\ proc.uids = {0}
          /\ WorkerGoes("drop")
          /\ UNCHANGED <<drop, proc>>

(* The user is changed first. *)
dropOrderUserFirst == <<"setresuid", "setgroups", "setresgid">>

dropOrder == <<"setgroups", "setresgid", "setresuid">>

(* One credential call of bootstrapTarget; the kernel may refuse any. *)
DropCredentials ==
    /\ WorkerAt("drop")
    /\ LET call == dropOrder[drop + 1]
           target == request.context.target
       IN  \/ WorkerFails(Permitted(proc, call, target))
           \/ /\ Permitted(proc, call, target)
              /\ proc' = Called(proc, call, target)
              /\ drop' = drop + 1
              /\ WorkerGoes(IF drop + 1 = Len(dropOrder) THEN "verify" ELSE "drop")

(* The capability lines of the status file are not compared. *)
verifyIdsOnly(p, t) == p.uids = {t.uid} /\ p.gids = {t.gid} /\ p.groups = t.groups

(* verifyTarget: every user and group ID, the groups, and for another user *)
(* than root no capability left.                                           *)
verifyTarget(p, t) ==
    /\ p.uids = {t.uid} /\ p.gids = {t.gid} /\ p.groups = t.groups
    /\ t.uid # 0 => p.caps = {}

(* The namespace links and the status file are read under the new          *)
(* identity; the read fails once the context has ended.                    *)
Verify ==
    /\ WorkerAt("verify")
    /\ \/ WorkerFails(workerCtx /\ verifyTarget(proc, request.context.target))
       \/ /\ workerCtx
          /\ verifyTarget(proc, request.context.target)
          /\ WorkerGoes("evaluate")
          /\ UNCHANGED <<drop, proc>>

(* The worker opens the path it was given. *)
reopenRequirement == file

(* bindTargetRequirement: the document is the one in the message. *)
bindTargetRequirement == request.requirement

(* A command of an active evaluation runs in a process group of its own    *)
(* and is killed when the worker's context ends.                           *)
StartCommand ==
    /\ WorkerAt("evaluate")
    /\ world.active /\ workerCtx /\ ~command
    /\ command' = TRUE
    /\ UNCHANGED <<worker, drop, proc, workerCtx, exit, response, faulted>>

EndCommand ==
    /\ WorkerAt("evaluate")
    /\ command
    /\ command' = FALSE
    /\ UNCHANGED <<worker, drop, proc, workerCtx, exit, response, faulted>>

(* The worker's own 40 s. *)
WorkerDeadline ==
    /\ WorkerAt("evaluate")
    /\ world.active /\ workerCtx
    /\ workerCtx' = FALSE
    /\ UNCHANGED <<worker, drop, proc, command, exit, response, faulted>>

(* What the worker's second look at itself says: the group lookup or a     *)
(* namespace link may fail this time.                                      *)
Observed(known, ns) ==
    LET id(S) == CHOOSE i \in S : TRUE
        c == [uid |-> id(proc.uids), euid |-> id(proc.uids),
              gid |-> id(proc.gids), egid |-> id(proc.gids),
              groups |-> IF known THEN proc.groups ELSE {}, known |-> known]
    IN  [ObserveCurrent(c, ns) EXCEPT !.current = request.context.current,
                                      !.target = request.context.target]

(* evaluateCurrentServices in the worker: every command has joined, an     *)
(* execution identity that is not the target's is an error, and the report *)
(* is kept for the write.                                                  *)
Evaluate ==
    /\ WorkerAt("evaluate")
    /\ ~command
    /\ \/ WorkerFails(TRUE)
       \/ \E known \in BOOLEAN, ns \in SUBSET NamespaceKinds :
            LET seen == Observed(known, ns)
            IN  /\ seen.execution \in {NoIdentity, seen.target}
                /\ response' = [by |-> IF seen.execution = NoIdentity THEN "nobody"
                                       ELSE "worker",
                                context |-> seen, requirement |-> bindTargetRequirement]
                /\ faulted' = (faulted \/ ~known \/ ns # NamespaceKinds)
                /\ worker' = "write"
                /\ UNCHANGED <<drop, proc, workerCtx, command, exit>>

(* The report is too large or the write fails, or it is delivered. *)
Respond ==
    /\ WorkerAt("write")
    /\ \/ WorkerFails(TRUE)
       \/ /\ worker' = "exited"
          /\ exit' = "0"
          /\ UNCHANGED <<drop, proc, workerCtx, command, response, faulted>>

-----------------------------------------------------------------------------
(* The launcher again: the end of evaluateTarget.                          *)

(* Only the exit status of the worker is looked at. *)
completedByStatus == exit = "0"

(* The runner returned no error and the worker exited 0. *)
completed == exit = "0" /\ ctx /\ ~timedOut

(* The execution identity is not compared. *)
acceptsAnyExecution(r) ==
    /\ sameCredentials(r.context.current, identity.current)
    /\ sameCredentials(r.context.target, identity.target)
    /\ r.context.namespaces = identity.namespaces

(* The identities and the namespaces of the response are the launcher's. *)
accepts(r) ==
    /\ sameCredentials(r.context.current, identity.current)
    /\ sameCredentials(r.context.target, identity.target)
    /\ sameCredentials(r.context.execution, identity.target)
    /\ r.context.namespaces = identity.namespaces

Await ==
    /\ launcher = "wait"
    /\ worker \in {"exited", "killed"}
    /\ \/ LauncherFails(completed /\ accepts(response))
       \/ /\ completed
          /\ accepts(response)
          /\ report' = response
          /\ launcher' = "done"
          /\ UNCHANGED <<world, file, ctx, requirement, identity, request, process, runner,
                         faulted>>

Done ==
    /\ launcher = "done"
    /\ UNCHANGED vars

Launcher == ReadRequirement \/ Prepare \/ Collect \/ RunTarget \/ Await
Runner == Timeout \/ Terminate \/ Kill
Worker == \/ InstallHandler \/ CloseExecutable \/ Receive \/ DropCredentials \/ Verify
          \/ StartCommand \/ EndCommand \/ WorkerDeadline \/ Evaluate \/ Respond
World == Rewrite \/ Interrupt

Next == Launcher \/ Runner \/ Worker \/ World \/ Done

(* The launcher and the runner's timers proceed; the worker may hang at    *)
(* any point, also after it took SIGTERM.                                  *)
Spec == /\ Init /\ [][Next]_vars
        /\ WF_vars(Launcher) /\ WF_vars(Timeout) /\ WF_vars(Terminate) /\ WF_vars(Kill)

-----------------------------------------------------------------------------
(* Properties.                                                             *)

(* The IDs a context names are those of the launcher or of the account. *)
Identities == Accounts \cup {NoIdentity} \cup
    {[uid |-> c.euid, gid |-> c.egid, groups |-> c.groups, known |-> c.known] :
        c \in Credentials}

Contexts == [current : Identities, target : Identities, execution : Identities,
             namespaces : SUBSET NamespaceKinds]

TypeOK ==
    /\ launcher \in {"read", "prepare", "collect", "delegate", "wait", "done"}
    /\ requirement \in Documents \cup {NoDocument}
    /\ identity \in Contexts
    /\ request.context \in Contexts
    /\ worker \in {"none", "boot", "close", "receive", "drop", "verify", "evaluate",
                   "write", "exited", "killed"}
    /\ drop \in 0 .. Len(dropOrder)
    /\ proc.caps \subseteq {"inh", "prm", "eff"}
    /\ exit \in {"none", "0", "70", "signal"}
    /\ response.context \in Contexts
    /\ report.context \in Contexts

(* While the worker evaluates, its real, effective and saved IDs, its      *)
(* groups and (but for root) its capabilities are exactly the target's,    *)
(* and the executable's descriptor is closed: no interleaving of failing   *)
(* calls and signals lets a half-dropped worker measure, whatever          *)
(* capabilities the launcher handed down (bootstrapTarget, verifyTarget).  *)
CollectsOnlyAsTarget ==
    worker \in {"evaluate", "write"} =>
        LET target == request.context.target
        IN  /\ proc.uids = {target.uid} /\ proc.gids = {target.gid}
            /\ proc.groups = target.groups
            /\ target.uid # 0 => proc.caps = {}
            /\ ~proc.fd
            /\ target = world.account

(* A report the launcher returns was measured under the credentials of the *)
(* selected target, or by nobody: never by the launcher in place of a      *)
(* target it could not become, and never by a worker that was interrupted, *)
(* or whose second look at itself was incomplete (evaluateTarget).         *)
ReportIsTheTargets ==
    launcher = "done" /\ report # NoReport =>
        /\ report.by = "launcher" =>
             /\ CredentialsValid(world.creds) /\ world.creds.known
             /\ report.context.target = identity.current
             /\ world.selector = "explicit" => world.account = identity.current
        /\ report.by = "worker" =>
             /\ ~signalled /\ exit = "0"
             /\ report.context.execution = world.account
             /\ report.context.namespaces = NamespaceKinds
        /\ report.by = "nobody" => worker = "none" /\ report.context.execution = NoIdentity

(* The requirement that a report answers is the document the caller        *)
(* selected, as it was when the launcher read it: what is written to the   *)
(* file while the worker starts does not count (bindTargetRequirement).    *)
RequirementIsTheCallers ==
    report # NoReport => report.requirement = requirement

(* What lies outside the program, when a delegation fails.                 *)
Excused ==
    \/ faulted \/ ~ctx \/ timedOut
    \/ world.account.uid # 0 /\ (world.inheritable \/ world.noFixup)

(* A delegation fails only for a reason outside the program: a fault, an   *)
(* interruption, or capabilities that the change of user does not clear.   *)
(* In particular each credential call still has the privilege it needs.    *)
DelegationDoesNotFailByItself ==
    launcher = "done" /\ worker # "none" /\ report = NoReport => Excused

(* A command of the worker outlives the delegation only when the worker    *)
(* did not end within the wait delay: SIGTERM first gives it the time to   *)
(* cancel and join its commands (runner.go, cmd.Cancel).                   *)
CommandsAreJoined ==
    /\ TypeOK
    /\ launcher = "done" /\ command => fallback

(* The parts of the inductive invariant.  What the launcher decided holds  *)
(* as long as it is used: a kept execution identity is the target's, a     *)
(* delegated target is the account.                                        *)
IdentityInv ==
    /\ launcher = "collect" /\ identity.execution # NoIdentity =>
         /\ CredentialsValid(world.creds) /\ world.creds.known
         /\ identity.target = identity.current
         /\ world.selector = "explicit" => world.account = identity.current
    /\ launcher = "delegate" \/ worker # "none" =>
         identity.target = world.account /\ identity.namespaces = NamespaceKinds

(* The two processes are in step: the worker has what the launcher sent,   *)
(* exists only while the launcher waits, and is signalled only for a       *)
(* reason the launcher will see.                                           *)
HandshakeInv ==
    /\ launcher \in {"read", "prepare", "collect", "delegate"} => worker = "none"
    /\ launcher = "done" => ~Alive
    /\ worker # "none" => request = [context |-> identity, requirement |-> requirement]
    /\ signalled => ~ctx \/ timedOut

(* The worker's progress: calls made, descriptor closed. *)
BootstrapInv ==
    /\ worker \in {"none", "boot", "close", "receive"} => drop = 0
    /\ worker = "drop" => drop \in 0 .. 2
    /\ worker \in {"receive", "drop", "verify", "evaluate", "write"} => ~proc.fd

(* A response that is written or about to be answers the request. *)
ResponseInv ==
    /\ exit = "0" => worker = "exited"
    /\ worker = "write" \/ exit = "0" =>
         /\ response.requirement = request.requirement
         /\ response.by = IF response.context.execution = NoIdentity THEN "nobody"
                           ELSE "worker"
    /\ report # NoReport => launcher = "done"

ProcessType == [uids : SUBSET Int, gids : SUBSET Int, groups : SUBSET Int,
                caps : SUBSET {"inh", "prm", "eff"}, fd : BOOLEAN]

(* What makes the three safety properties inductive. *)
DelegationInv ==
    /\ world.account \in Accounts \cup {NoIdentity} /\ world.creds \in Credentials
    /\ world.selector \in {"current", "explicit"}
    /\ proc \in ProcessType
    /\ IdentityInv
    /\ HandshakeInv
    /\ BootstrapInv
    /\ ResponseInv
    /\ CollectsOnlyAsTarget
    /\ ReportIsTheTargets
    /\ RequirementIsTheCallers

(* A command runs in the evaluating worker, or in one that was killed.     *)
JoinInv == command /\ worker # "evaluate" => fallback

(* Only a root launcher that knows itself delegates, and to an account.    *)
DelegatorInv ==
    launcher = "delegate" \/ worker # "none" =>
        /\ world.creds.euid = 0
        /\ identity.current.known
        /\ world.account \in Accounts

(* The credentials of the worker after so many calls: the user goes last,  *)
(* and with it the privilege the other calls need.                         *)
PrivilegeInv ==
    LET target == world.account
    IN  /\ worker \in {"boot", "close", "receive", "drop"} =>
             proc.uids = {0} /\ "eff" \in proc.caps
        /\ worker \in {"boot", "close", "receive", "drop", "verify"} =>
             /\ "inh" \in proc.caps => world.inheritable
             /\ drop >= 1 => proc.groups = target.groups
             /\ drop >= 2 => proc.gids = {target.gid}
        /\ worker = "verify" =>
             /\ drop = 3
             /\ proc.uids = {target.uid}
             /\ target.uid # 0 => proc.caps = {} \/ world.inheritable \/ world.noFixup

(* Without an excuse the worker comes to the end, and is believed. *)
SuccessInv ==
    ~Excused =>
        /\ worker # "killed"
        /\ worker \in {"none", "boot", "close", "receive", "drop", "verify"} => workerCtx
        /\ worker = "exited" => exit = "0"
        /\ worker \in {"write", "exited"} => accepts(response) /\ response.by = "worker"
        /\ launcher = "done" /\ worker # "none" => report # NoReport

CompletionInv == JoinInv /\ DelegatorInv /\ PrivilegeInv /\ SuccessInv

(* The delegation ends, though the worker may hang at any point: before it *)
(* handles signals, in a credential call, or after it took SIGTERM.        *)
DelegationEnds == <>(launcher = "done")
=============================================================================
