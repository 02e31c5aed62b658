----------------------- MODULE TargetDelegationProofs -----------------------
(***************************************************************************)
(* Theorems about module TargetDelegation, for every set of launchers and  *)
(* accounts, every number of namespaces and all documents.                 *)
(***************************************************************************)
EXTENDS TargetDelegation, TLAPS

(* The identity of the selected account has integers for IDs. *)
LEMMA AccountType ==
    ASSUME world.account \in Accounts \cup {NoIdentity}
    PROVE  /\ world.account.uid \in Int
           /\ world.account.gid \in Int
           /\ world.account.groups \in SUBSET Int
<1>1. CASE world.account \in Accounts
  <2>1. world.account \in [uid : Nat, gid : Nat, groups : SUBSET Nat, known : {TRUE}]
    BY <1>1, DelegationAssumption
  <2>2. world.account.uid \in Nat /\ world.account.gid \in Nat
        /\ \A g \in world.account.groups : g \in Nat
    BY <2>1
  <2>3. QED
    BY <2>2
<1>2. CASE world.account = NoIdentity
  BY <1>2 DEF NoIdentity
<1>3. QED
  BY <1>1, <1>2

(* The kernel's view of a worker keeps its type through exec. *)
LEMMA SpawnedType ==
    ASSUME world.creds \in Credentials
    PROVE  Spawned(world) \in ProcessType
<1>1. world.creds.euid \in Int /\ world.creds.egid \in Int /\ world.creds.groups \in SUBSET Int
  BY DelegationAssumption
<1>2. QED
  BY <1>1 DEF Spawned, ProcessType

(* A credential call keeps the type and leaves the descriptor alone. *)
LEMMA CalledType ==
    ASSUME NEW p \in ProcessType, NEW t, t.uid \in Int, t.gid \in Int, t.groups \in SUBSET Int,
           NEW call \in {"setgroups", "setresgid", "setresuid"}
    PROVE  Called(p, call, t) \in ProcessType /\ Called(p, call, t).fd = p.fd
<1>1. CASE call = "setgroups"
  BY <1>1 DEF Called, ProcessType
<1>2. CASE call = "setresgid"
  BY <1>2 DEF Called, ProcessType
<1>3. CASE call = "setresuid"
  BY <1>3 DEF Called, ProcessType
<1>4. QED
  BY <1>1, <1>2, <1>3

(* Of the three credential calls the next one is always defined. *)
LEMMA DropCalls ==
    ASSUME NEW n \in 0 .. 2
    PROVE  dropOrder[n + 1] \in {"setgroups", "setresgid", "setresuid"} /\ Len(dropOrder) = 3
  BY DEF dropOrder

(* The next credential call keeps the type of the process and the          *)
(* descriptor.                                                             *)
LEMMA DropKeepsType ==
    ASSUME proc \in ProcessType, drop \in 0 .. 2,
           world.account \in Accounts \cup {NoIdentity},
           proc' = Called(proc, dropOrder[drop + 1], world.account)
    PROVE  proc' \in ProcessType /\ proc'.fd = proc.fd
<1>1. dropOrder[drop + 1] \in {"setgroups", "setresgid", "setresuid"}
  BY DropCalls
<1>2. QED
  BY <1>1, AccountType, CalledType

(* A prepared identity that keeps an execution identity is the target's    *)
(* own, and one that is delegated names the account.                       *)
LEMMA PreparedIdentity ==
    ASSUME world.selector \in {"current", "explicit"},
           NEW ns, NEW selected \in {world.account, NoIdentity},
           NEW prepared,
           prepared = prepareLiveIdentity(ObserveCurrent(world.creds, ns), world.selector, selected)
    PROVE  /\ prepared.execution # NoIdentity =>
                /\ CredentialsValid(world.creds) /\ world.creds.known
                /\ prepared.target = prepared.current
                /\ world.selector = "explicit" => world.account = prepared.current
           /\ delegates(prepared, world.selector, world.creds) =>
                prepared.target = world.account /\ prepared.namespaces = NamespaceKinds
<1> DEFINE observed == ObserveCurrent(world.creds, ns)
<1>1. /\ observed.current = observed.target /\ observed.namespaces = ns
      /\ observed.execution # NoIdentity =>
           /\ CredentialsValid(world.creds) /\ world.creds.known
           /\ observed.execution = observed.current
  BY DEF ObserveCurrent
<1>2. CASE world.selector = "current"
  BY <1>1, <1>2 DEF prepareLiveIdentity, delegates
<1>3. CASE world.selector = "explicit"
  <2>1. /\ prepared.target = selected /\ prepared.current = observed.current
        /\ prepared.execution = IF sameCredentials(observed.execution, selected)
                                THEN observed.execution ELSE NoIdentity
    BY <1>3 DEF prepareLiveIdentity, ObserveCurrent
  <2>2. QED
    BY <1>1, <1>3, <2>1 DEF delegates, sameCredentials
<1>4. QED
  BY <1>2, <1>3

(* Before the launcher starts, nothing is decided or sent. *)
LEMMA InitInv == Init => DelegationInv
<1> SUFFICES ASSUME Init PROVE DelegationInv
  OBVIOUS
<1>1. NoProcess \in ProcessType
  BY SMTT(30) DEF NoProcess, ProcessType
<1>2. QED
  BY <1>1 DEF Init, DelegationInv, IdentityInv, HandshakeInv, BootstrapInv, ResponseInv,
              CollectsOnlyAsTarget, ReportIsTheTargets, RequirementIsTheCallers, Alive
(* Every step of launcher, runner, worker and world keeps the invariant;  *)
(* most disturb one part, which is proved first.                           *)
LEMMA StepInv == DelegationInv /\ [Next]_vars => DelegationInv'
<1> SUFFICES ASSUME DelegationInv, [Next]_vars PROVE DelegationInv'
  OBVIOUS
<1> USE DEF DelegationInv, IdentityInv, HandshakeInv, BootstrapInv, ResponseInv,
            CollectsOnlyAsTarget, ReportIsTheTargets, RequirementIsTheCallers, Alive,
            vars, launch, process, runner
<1>1. CASE Rewrite
  BY <1>1 DEF Rewrite
<1>2. CASE Interrupt
  BY <1>2 DEF Interrupt
<1>3. CASE ReadRequirement
  BY <1>3 DEF ReadRequirement, LauncherFails
<1>4. CASE Prepare
  <2>1. PICK ns \in SUBSET NamespaceKinds, selected \in {world.account, NoIdentity} :
          /\ identity' = prepareLiveIdentity(ObserveCurrent(world.creds, ns),
                                             world.selector, selected)
          /\ launcher' = IF delegates(identity', world.selector, world.creds)
                         THEN "delegate" ELSE "collect"
    BY <1>4 DEF Prepare
  <2>2. IdentityInv'
    BY <1>4, <2>1, PreparedIdentity DEF Prepare, CredentialsValid
  <2>3. QED
    BY <1>4, <2>1, <2>2 DEF Prepare
<1>5. CASE Collect
  BY <1>5 DEF Collect, LauncherFails
<1>6. CASE RunTarget
  <2>1. CASE LauncherFails(ctx)
    BY <1>6, <2>1 DEF RunTarget, LauncherFails
  <2>2. CASE proc' = Spawned(world) /\ worker' = "boot" /\ ~LauncherFails(ctx)
    <3>1. proc' \in ProcessType
      BY <2>2, SpawnedType
    <3>2. QED
      BY <1>6, <2>2, <3>1 DEF RunTarget
  <2>3. QED
    BY <1>6, <2>1, <2>2 DEF RunTarget
<1>7. CASE Await
  <2>1. CASE LauncherFails(completed /\ accepts(response))
    BY <1>7, <2>1 DEF Await, LauncherFails
  <2>2. CASE completed /\ accepts(response) /\ report' = response
             /\ ~LauncherFails(completed /\ accepts(response))
    <3>1. /\ response.context.execution = world.account
          /\ response.context.execution # NoIdentity
          /\ response.context.namespaces = NamespaceKinds
          /\ response.by = "worker" /\ response.requirement = requirement
      BY <1>7, <2>2 DEF Await, completed, accepts, sameCredentials, NoIdentity
    <3>2. exit = "0" /\ ~signalled
      BY <2>2 DEF completed
    <3>3. QED
      BY <1>7, <2>2, <3>1, <3>2 DEF Await
  <2>3. QED
    BY <1>7, <2>1, <2>2 DEF Await
<1>8. CASE Timeout
  BY <1>8 DEF Timeout
<1>9. CASE Terminate
  BY <1>9 DEF Terminate
<1>10. CASE Kill
  BY <1>10 DEF Kill
<1>11. CASE InstallHandler
  BY <1>11 DEF InstallHandler, WorkerAt, WorkerFails, WorkerGoes
<1>12. CASE CloseExecutable
  <2>1. CASE WorkerFails(TRUE)
    BY <1>12, <2>1 DEF CloseExecutable, WorkerAt, WorkerFails
  <2>2. CASE proc' = [proc EXCEPT !.fd = FALSE] /\ WorkerGoes("receive") /\ UNCHANGED drop
    <3>1. proc' \in ProcessType /\ ~proc'.fd
      BY <2>2 DEF ProcessType
    <3>2. QED
      BY <1>12, <2>2, <3>1 DEF CloseExecutable, WorkerAt, WorkerGoes
  <2>3. QED
    BY <1>12, <2>1, <2>2 DEF CloseExecutable
<1>13. CASE Receive
  BY <1>13 DEF Receive, WorkerAt, WorkerFails, WorkerGoes
<1>14. CASE DropCredentials
  <2> DEFINE call == dropOrder[drop + 1]
             target == request.context.target
  <2>1. CASE WorkerFails(Permitted(proc, call, target))
    BY <1>14, <2>1 DEF DropCredentials, WorkerAt, WorkerFails
  <2>2. CASE /\ proc' = Called(proc, call, target)
             /\ drop' = drop + 1
             /\ WorkerGoes(IF drop + 1 = Len(dropOrder) THEN "verify" ELSE "drop")
    <3>1. worker = "drop" /\ drop \in 0 .. 2 /\ target = world.account
      BY <1>14 DEF DropCredentials, WorkerAt
    <3>2. proc' = Called(proc, dropOrder[drop + 1], world.account)
      BY <2>2, <3>1
    <3>3. proc \in ProcessType /\ ~proc.fd
      BY <3>1
    <3>4. world.account \in Accounts \cup {NoIdentity}
      OBVIOUS
    <3>5. proc' \in ProcessType /\ ~proc'.fd
      BY <3>1, <3>2, <3>3, <3>4, DropKeepsType
    <3>6. Len(dropOrder) = 3 /\ drop' \in 1 .. 3
      BY <2>2, <3>1, DropCalls
    <3>7. worker' \in {"verify", "drop"} /\ (worker' = "drop" => drop' \in 0 .. 2)
      BY <2>2, <3>1, <3>6 DEF WorkerGoes
    <3>8. QED
      BY <1>14, <2>2, <3>1, <3>5, <3>7 DEF DropCredentials, WorkerAt, WorkerGoes
  <2>3. QED
    BY <1>14, <2>1, <2>2 DEF DropCredentials
<1>15. CASE Verify
  <2>1. CASE WorkerFails(workerCtx /\ verifyTarget(proc, request.context.target))
    BY <1>15, <2>1 DEF Verify, WorkerAt, WorkerFails
  <2>2. CASE verifyTarget(proc, request.context.target) /\ WorkerGoes("evaluate")
             /\ UNCHANGED <<drop, proc>>
    <3>1. CollectsOnlyAsTarget'
      BY <1>15, <2>2 DEF Verify, WorkerAt, WorkerGoes, verifyTarget
    <3>2. QED
      BY <1>15, <2>2, <3>1 DEF Verify, WorkerAt, WorkerGoes
  <2>3. QED
    BY <1>15, <2>1, <2>2 DEF Verify
<1>16. CASE StartCommand
  BY <1>16 DEF StartCommand, WorkerAt, WorkerFails, WorkerGoes
<1>17. CASE EndCommand
  BY <1>17 DEF EndCommand, WorkerAt, WorkerFails, WorkerGoes
<1>18. CASE WorkerDeadline
  BY <1>18 DEF WorkerDeadline, WorkerAt, WorkerFails, WorkerGoes
<1>19. CASE Evaluate
  <2>1. CASE WorkerFails(TRUE)
    BY <1>19, <2>1 DEF Evaluate, WorkerAt, WorkerFails
  <2>2. CASE \E known \in BOOLEAN, ns \in SUBSET NamespaceKinds :
               /\ response' = [by |-> IF Observed(known, ns).execution = NoIdentity
                                      THEN "nobody" ELSE "worker",
                               context |-> Observed(known, ns),
                               requirement |-> bindTargetRequirement]
               /\ worker' = "write"
               /\ UNCHANGED <<drop, proc, workerCtx, command, exit>>
    <3>1. /\ response'.requirement = request.requirement
          /\ response'.by = IF response'.context.execution = NoIdentity THEN "nobody"
                            ELSE "worker"
      BY <2>2 DEF bindTargetRequirement
    <3>2. worker' = "write" /\ UNCHANGED <<drop, proc, exit>>
      BY <2>2
    <3>3. QED
      BY <1>19, <3>1, <3>2 DEF Evaluate, WorkerAt
  <2>3. QED
    BY <1>19, <2>1, <2>2 DEF Evaluate
<1>20. CASE Respond
  BY <1>20 DEF Respond, WorkerAt, WorkerFails, WorkerGoes
<1>21. CASE Done
  BY <1>21 DEF Done
<1>22. CASE UNCHANGED vars
  BY <1>22
<1>23. QED
  BY <1>1, <1>2, <1>3, <1>4, <1>5, <1>6, <1>7, <1>8, <1>9, <1>10, <1>11, <1>12, <1>13, <1>14, <1>15, <1>16, <1>17, <1>18, <1>19, <1>20, <1>21, <1>22 DEF Next, Launcher, Runner, Worker, World

(* DelegationInv holds throughout: the base of the theorems below. *)
THEOREM DelegationInvariant == Spec => []DelegationInv
  BY InitInv, StepInv, PTL DEF Spec

(* In every behaviour only a worker with exactly the target's credentials  *)
(* evaluates (bootstrapTarget and verifyTarget of platform/target.go).     *)
THEOREM WorkerIsTheTarget == Spec => []CollectsOnlyAsTarget
<1>1. DelegationInv => CollectsOnlyAsTarget
  BY DEF DelegationInv
<1>2. QED
  BY <1>1, DelegationInvariant, PTL

(* In every behaviour a report was measured by the selected target or by   *)
(* nobody (prepareLiveIdentity and evaluateTarget of app/target.go).       *)
THEOREM NoSubstituteReport == Spec => []ReportIsTheTargets
<1>1. DelegationInv => ReportIsTheTargets
  BY DEF DelegationInv
<1>2. QED
  BY <1>1, DelegationInvariant, PTL

(* In every behaviour a report answers the document the launcher read      *)
(* (readLiveRequirement and bindTargetRequirement).                        *)
THEOREM ReportAnswersTheCaller == Spec => []RequirementIsTheCallers
<1>1. DelegationInv => RequirementIsTheCallers
  BY DEF DelegationInv
<1>2. QED
  BY <1>1, DelegationInvariant, PTL

-----------------------------------------------------------------------------
(* The end of a delegation.                                                *)

WorldType ==
    [creds : Credentials, selector : {"current", "explicit"},
     account : Accounts \cup {NoIdentity}, active : BOOLEAN,
     inheritable : BOOLEAN, noFixup : BOOLEAN]

(* What a launcher or a worker observes of itself is an identity.          *)
LEMMA ObservedContext ==
    ASSUME world \in WorldType, NEW ns \in SUBSET NamespaceKinds,
           NEW selected \in {world.account, NoIdentity}
    PROVE  prepareLiveIdentity(ObserveCurrent(world.creds, ns), world.selector, selected)
             \in Contexts
<1> DEFINE observed == ObserveCurrent(world.creds, ns)
<1>1. world.creds \in Credentials /\ world.account \in Accounts \cup {NoIdentity}
  BY DEF WorldType
<1>2. /\ observed = [current |-> observed.current, target |-> observed.target,
                     execution |-> observed.execution, namespaces |-> observed.namespaces]
      /\ observed.current \in Identities /\ observed.target \in Identities
      /\ observed.execution \in Identities /\ observed.namespaces \in SUBSET NamespaceKinds
  BY <1>1 DEF ObserveCurrent, Identities
<1>3. observed \in Contexts
  BY <1>2 DEF Contexts
<1>4. selected \in Identities /\ NoIdentity \in Identities
  BY <1>1 DEF Identities
<1> HIDE DEF observed
<1>5. /\ [observed EXCEPT !.target = selected, !.execution = @] \in Contexts
      /\ [observed EXCEPT !.target = selected, !.execution = NoIdentity] \in Contexts
  BY <1>3, <1>4 DEF Contexts
<1>6. QED
  BY <1>3, <1>5 DEF prepareLiveIdentity, observed

(* The variables keep their types. *)
LEMMA TypeStep ==
    ASSUME TypeOK, DelegationInv, world \in WorldType,
           file \in Documents \cup {NoDocument}, [Next]_vars
    PROVE  TypeOK' /\ world' \in WorldType /\ file' \in Documents \cup {NoDocument}
<1> USE DEF vars, launch, process, runner
<1>1. CASE Launcher
  <2>1. CASE Prepare
    <3>1. identity' \in Contexts
      BY <2>1, ObservedContext DEF Prepare
    <3>2. QED
      BY <2>1, <3>1 DEF Prepare, TypeOK
  <2>2. CASE RunTarget
    <3>1. proc.caps \subseteq {"inh", "prm", "eff"} /\ proc'.caps \subseteq {"inh", "prm", "eff"}
      BY <2>2, SpawnedType DEF RunTarget, LauncherFails, TypeOK, ProcessType, DelegationInv
    <3>2. QED
      BY <2>2, <3>1 DEF RunTarget, LauncherFails, TypeOK
  <2>3. CASE ReadRequirement \/ Collect \/ Await
    BY <2>3 DEF ReadRequirement, Collect, Await, LauncherFails, TypeOK
  <2>4. QED
    BY <1>1, <2>1, <2>2, <2>3 DEF Launcher
<1>2. CASE Runner
  BY <1>2 DEF Runner, Timeout, Terminate, Kill, TypeOK
<1>3. CASE Worker
  <2>1. CASE DropCredentials
    <3>1. DelegationInv'
      BY <2>1, StepInv DEF Next, Worker
    <3>2. proc'.caps \subseteq {"inh", "prm", "eff"}
      BY <3>1 DEF DelegationInv, ProcessType
    <3>3. drop \in 0 .. 2 /\ Len(dropOrder) = 3
      BY <2>1, DropCalls DEF DropCredentials, WorkerAt, DelegationInv, BootstrapInv
    <3>4. QED
      BY <2>1, <3>2, <3>3 DEF DropCredentials, WorkerAt, WorkerFails, WorkerGoes, TypeOK
  <2>2. CASE Evaluate
    <3>1. CASE WorkerFails(TRUE)
      BY <2>2, <3>1 DEF Evaluate, WorkerAt, WorkerFails, TypeOK
    <3>2. ASSUME NEW known \in BOOLEAN, NEW ns \in SUBSET NamespaceKinds,
                 Observed(known, ns).execution \in {NoIdentity, Observed(known, ns).target}
          PROVE  Observed(known, ns) \in Contexts
      <4> DEFINE seen == Observed(known, ns)
      <4>1. /\ seen = [current |-> seen.current, target |-> seen.target,
                       execution |-> seen.execution, namespaces |-> seen.namespaces]
            /\ seen.current = request.context.current
            /\ seen.target = request.context.target
            /\ seen.namespaces = ns
        <5>1. \A c : \E user, execution :
                ObserveCurrent(c, ns) = [current |-> user, target |-> user,
                                         namespaces |-> ns, execution |-> execution]
          BY DEF ObserveCurrent
        <5>2. PICK user, execution :
                seen = [[current |-> user, target |-> user,
                         namespaces |-> ns, execution |-> execution]
                          EXCEPT !.current = request.context.current,
                                 !.target = request.context.target]
          BY <5>1 DEF Observed
        <5>3. seen = [current |-> request.context.current, target |-> request.context.target,
                      execution |-> execution, namespaces |-> ns]
          BY <5>2
        <5>4. QED
          BY <5>3
      <4>2. seen.current \in Identities /\ seen.target \in Identities
            /\ NoIdentity \in Identities
        BY <4>1 DEF TypeOK, Contexts, Identities
      <4>3. seen.execution \in Identities
        BY <3>2, <4>2
      <4> HIDE DEF seen
      <4>4. seen \in Contexts
        BY <4>1, <4>2, <4>3 DEF Contexts
      <4>5. QED
        BY <4>4 DEF seen
    <3>3. CASE ~WorkerFails(TRUE)
      <4>1. response'.context \in Contexts
        <5>1. PICK known \in BOOLEAN, ns \in SUBSET NamespaceKinds :
                /\ Observed(known, ns).execution \in {NoIdentity, Observed(known, ns).target}
                /\ response' = [by |-> IF Observed(known, ns).execution = NoIdentity
                                       THEN "nobody" ELSE "worker",
                                context |-> Observed(known, ns),
                                requirement |-> bindTargetRequirement]
          BY <2>2, <3>3, Zenon DEF Evaluate
        <5>2. QED
          BY <3>2, <5>1
      <4>2. QED
        BY <2>2, <3>3, <4>1 DEF Evaluate, WorkerAt, TypeOK
    <3>4. QED
      BY <3>1, <3>3
  <2>3. CASE InstallHandler \/ CloseExecutable \/ Receive \/ Verify
    BY <2>3 DEF InstallHandler, CloseExecutable, Receive, Verify, WorkerAt, WorkerFails,
                WorkerGoes, TypeOK, DelegationInv, ProcessType
  <2>4. CASE StartCommand \/ EndCommand \/ WorkerDeadline \/ Respond
    BY <2>4 DEF StartCommand, EndCommand, WorkerDeadline, Respond, WorkerAt, WorkerFails,
                TypeOK
  <2>5. QED
    BY <1>3, <2>1, <2>2, <2>3, <2>4 DEF Worker
<1>4. CASE World \/ Done \/ UNCHANGED vars
  BY <1>4 DEF World, Rewrite, Interrupt, Done, TypeOK
<1>5. QED
  BY <1>1, <1>2, <1>3, <1>4 DEF Next

(* A command ends before its worker goes on. *)
LEMMA JoinStep ==
    ASSUME DelegationInv, JoinInv, [Next]_vars
    PROVE  JoinInv'
<1> USE DEF JoinInv, vars, launch, process, runner
<1>1. CASE Launcher
  BY <1>1 DEF Launcher, ReadRequirement, Prepare, Collect, RunTarget, Await, LauncherFails,
              DelegationInv, HandshakeInv
<1>2. CASE Runner
  BY <1>2 DEF Runner, Timeout, Terminate, Kill
<1>3. CASE Worker
  BY <1>3 DEF Worker, InstallHandler, CloseExecutable, Receive, DropCredentials, Verify,
              StartCommand, EndCommand, WorkerDeadline, Evaluate, Respond, WorkerAt,
              WorkerFails, WorkerGoes
<1>4. CASE World \/ Done \/ UNCHANGED vars
  BY <1>4 DEF World, Rewrite, Interrupt, Done
<1>5. QED
  BY <1>1, <1>2, <1>3, <1>4 DEF Next

(* The decision to delegate, and what it rests on, are final. *)
LEMMA DelegatorStep ==
    ASSUME DelegationInv, DelegatorInv, world \in WorldType, [Next]_vars
    PROVE  DelegatorInv'
<1> USE DEF DelegatorInv, vars, launch, process, runner
<1>1. CASE Prepare
  <2>1. PICK ns \in SUBSET NamespaceKinds, selected \in {world.account, NoIdentity} :
          /\ identity' = prepareLiveIdentity(ObserveCurrent(world.creds, ns),
                                             world.selector, selected)
          /\ launcher' = IF delegates(identity', world.selector, world.creds)
                         THEN "delegate" ELSE "collect"
    BY <1>1 DEF Prepare
  <2>2. SUFFICES ASSUME delegates(identity', world.selector, world.creds)
                 PROVE  DelegatorInv'
    BY <1>1, <2>1 DEF Prepare, DelegationInv, HandshakeInv
  <2>3. world.creds.euid = 0 /\ world.creds.known /\ world.selector # "current"
    BY <2>2 DEF delegates
  <2>4. identity'.current.known
    BY <2>1, <2>3 DEF prepareLiveIdentity, ObserveCurrent
  <2>5. identity'.target = selected /\ identity'.target # NoIdentity
    BY <2>1, <2>2, <2>3 DEF prepareLiveIdentity, ObserveCurrent, delegates
  <2>6. world.account \in Accounts
    BY <2>1, <2>5 DEF WorldType
  <2>7. QED
    BY <1>1, <2>3, <2>4, <2>6 DEF Prepare
<1>2. CASE ReadRequirement \/ Collect \/ RunTarget \/ Await
  BY <1>2 DEF ReadRequirement, Collect, RunTarget, Await, LauncherFails, DelegationInv,
              HandshakeInv
<1>3. CASE Runner
  BY <1>3 DEF Runner, Timeout, Terminate, Kill, Alive
<1>4. CASE Worker
  BY <1>4 DEF Worker, InstallHandler, CloseExecutable, Receive, DropCredentials, Verify,
              StartCommand, EndCommand, WorkerDeadline, Evaluate, Respond, WorkerAt
<1>5. CASE World \/ Done \/ UNCHANGED vars
  BY <1>5 DEF World, Rewrite, Interrupt, Done
<1>6. QED
  BY <1>1, <1>2, <1>3, <1>4, <1>5 DEF Next, Launcher

(* What one call does to the credentials of the worker. *)
LEMMA CalledEffect ==
    ASSUME NEW p \in ProcessType, NEW t
    PROVE  /\ Called(p, "setgroups", t) = [p EXCEPT !.groups = t.groups]
           /\ Called(p, "setresgid", t) = [p EXCEPT !.gids = {t.gid}]
           /\ Called(p, "setresuid", t).uids = {t.uid}
           /\ Called(p, "setresuid", t).gids = p.gids
           /\ Called(p, "setresuid", t).groups = p.groups
           /\ Called(p, "setresuid", t).caps =
                IF 0 \in p.uids /\ t.uid # 0 /\ ~world.noFixup THEN p.caps \cap {"inh"}
                ELSE p.caps
  BY DEF Called, ProcessType

(* The calls take effect in their order, and none takes away what the next *)
(* one needs.                                                              *)
LEMMA PrivilegeStep ==
    ASSUME DelegationInv, DelegatorInv, PrivilegeInv, [Next]_vars
    PROVE  PrivilegeInv'
<1> USE DEF vars, launch, process, runner
<1>1. CASE RunTarget
  <2>1. CASE LauncherFails(ctx)
    BY <1>1, <2>1 DEF RunTarget, LauncherFails, PrivilegeInv, DelegationInv, HandshakeInv
  <2>2. CASE ~LauncherFails(ctx)
    <3>1. world.creds.euid = 0
      BY <1>1 DEF RunTarget, DelegatorInv
    <3>2. /\ proc' = Spawned(world) /\ worker' = "boot" /\ UNCHANGED <<world, drop>>
          /\ worker = "none"
      BY <1>1, <2>2 DEF RunTarget, DelegationInv, HandshakeInv
    <3>3. proc'.uids = {0} /\ "eff" \in proc'.caps
          /\ ("inh" \in proc'.caps => world.inheritable)
      BY <3>1, <3>2 DEF Spawned
    <3>4. drop = 0
      BY <3>2 DEF DelegationInv, BootstrapInv
    <3>5. QED
      BY <3>2, <3>3, <3>4 DEF PrivilegeInv
  <2>3. QED
    BY <2>1, <2>2
<1>2. CASE ReadRequirement \/ Prepare \/ Collect \/ Await
  BY <1>2 DEF ReadRequirement, Prepare, Collect, Await, LauncherFails, PrivilegeInv
<1>3. CASE Runner
  BY <1>3 DEF Runner, Timeout, Terminate, Kill, PrivilegeInv
<1>4. CASE CloseExecutable
  <2>1. CASE WorkerFails(TRUE)
    BY <1>4, <2>1 DEF CloseExecutable, WorkerAt, WorkerFails, PrivilegeInv
  <2>2. CASE proc' = [proc EXCEPT !.fd = FALSE] /\ WorkerGoes("receive") /\ UNCHANGED drop
    <3>1. UNCHANGED <<proc.uids, proc.caps, proc.groups, proc.gids>>
      BY <2>2 DEF DelegationInv, ProcessType
    <3>2. worker = "close" /\ worker' = "receive" /\ UNCHANGED <<world, drop>>
      BY <1>4, <2>2 DEF CloseExecutable, WorkerAt, WorkerGoes
    <3>3. QED
      BY <3>1, <3>2 DEF PrivilegeInv
  <2>3. QED
    BY <1>4, <2>1, <2>2 DEF CloseExecutable
<1>5. CASE DropCredentials
  <2> DEFINE call == dropOrder[drop + 1]
             target == request.context.target
  <2>1. CASE WorkerFails(Permitted(proc, call, target))
    BY <1>5, <2>1 DEF DropCredentials, WorkerAt, WorkerFails, PrivilegeInv
  <2>2. CASE /\ proc' = Called(proc, call, target)
             /\ drop' = drop + 1
             /\ WorkerGoes(IF drop + 1 = Len(dropOrder) THEN "verify" ELSE "drop")
    <3>1. /\ worker = "drop" /\ drop \in 0 .. 2 /\ target = world.account
          /\ proc \in ProcessType /\ UNCHANGED world
      BY <1>5 DEF DropCredentials, WorkerAt, DelegationInv, BootstrapInv, IdentityInv,
                  HandshakeInv
    <3>2. /\ proc.uids = {0} /\ "eff" \in proc.caps
          /\ "inh" \in proc.caps => world.inheritable
          /\ drop >= 1 => proc.groups = world.account.groups
          /\ drop >= 2 => proc.gids = {world.account.gid}
      BY <3>1 DEF PrivilegeInv
    <3>3. Len(dropOrder) = 3
      BY <3>1, DropCalls
    <3>4. CASE drop = 0
      <4>1. call = "setgroups" /\ worker' = "drop" /\ drop' = 1
        BY <2>2, <3>3, <3>4 DEF WorkerGoes, dropOrder
      <4> HIDE DEF call, target
      <4>2. proc' = Called(proc, "setgroups", world.account)
        BY <2>2, <3>1, <4>1
      <4>3. proc' = [proc EXCEPT !.groups = world.account.groups]
        BY <3>1, <4>2, CalledEffect, ZenonT(60)
      <4>4. QED
        BY <3>1, <3>2, <4>1, <4>3 DEF PrivilegeInv, ProcessType
    <3>5. CASE drop = 1
      <4>1. call = "setresgid" /\ worker' = "drop" /\ drop' = 2
        BY <2>2, <3>3, <3>5 DEF WorkerGoes, dropOrder
      <4> HIDE DEF call, target
      <4>2. proc' = Called(proc, "setresgid", world.account)
        BY <2>2, <3>1, <4>1
      <4>3. proc' = [proc EXCEPT !.gids = {world.account.gid}]
        BY <3>1, <4>2, CalledEffect, ZenonT(60)
      <4>4. QED
        BY <3>1, <3>2, <3>5, <4>1, <4>3 DEF PrivilegeInv, ProcessType
    <3>6. CASE drop = 2
      <4>1. call = "setresuid" /\ worker' = "verify" /\ drop' = 3
        BY <2>2, <3>3, <3>6 DEF WorkerGoes, dropOrder
      <4> HIDE DEF call, target
      <4>2. proc' = Called(proc, "setresuid", world.account)
        BY <2>2, <3>1, <4>1
      <4>3. /\ proc'.uids = {world.account.uid}
            /\ proc'.gids = proc.gids /\ proc'.groups = proc.groups
            /\ proc'.caps = IF world.account.uid # 0 /\ ~world.noFixup
                            THEN proc.caps \cap {"inh"} ELSE proc.caps
        BY <3>1, <4>2, <3>2, CalledEffect
      <4>4. QED
        BY <3>1, <3>2, <3>6, <4>1, <4>3 DEF PrivilegeInv
    <3>7. QED
      BY <3>1, <3>4, <3>5, <3>6
  <2>3. QED
    BY <1>5, <2>1, <2>2 DEF DropCredentials
<1>6. CASE InstallHandler \/ Receive \/ Verify
  BY <1>6 DEF InstallHandler, Receive, Verify, WorkerAt, WorkerFails, WorkerGoes,
              PrivilegeInv, DelegationInv, BootstrapInv
<1>7. CASE StartCommand \/ EndCommand \/ WorkerDeadline \/ Evaluate \/ Respond
  BY <1>7 DEF StartCommand, EndCommand, WorkerDeadline, Evaluate, Respond, WorkerAt,
              WorkerFails, PrivilegeInv
<1>8. CASE World \/ Done \/ UNCHANGED vars
  BY <1>8 DEF World, Rewrite, Interrupt, Done, PrivilegeInv
<1>9. QED
  BY <1>1, <1>2, <1>3, <1>4, <1>5, <1>6, <1>7, <1>8 DEF Next, Launcher, Worker

(* A worker that is the target and sees itself in full reports the target. *)
LEMMA ObservesTheTarget ==
    ASSUME world.account \in Accounts, request.context.target = world.account,
           proc.uids = {world.account.uid}, proc.gids = {world.account.gid},
           proc.groups = world.account.groups
    PROVE  LET seen == Observed(TRUE, NamespaceKinds)
           IN  /\ seen.current = request.context.current
               /\ seen.target = world.account
               /\ seen.execution = world.account
               /\ seen.namespaces = NamespaceKinds
<1> DEFINE a == world.account
           c == [uid |-> a.uid, euid |-> a.uid, gid |-> a.gid, egid |-> a.gid,
                 groups |-> a.groups, known |-> TRUE]
           seen == Observed(TRUE, NamespaceKinds)
<1>1. a = [uid |-> a.uid, gid |-> a.gid, groups |-> a.groups, known |-> TRUE]
  <2>1. a \in [uid : Nat, gid : Nat, groups : SUBSET Nat, known : {TRUE}]
    BY DelegationAssumption
  <2>2. QED
    BY <2>1
<1>2. ObserveCurrent(c, NamespaceKinds) =
        [current |-> a, target |-> a, namespaces |-> NamespaceKinds, execution |-> a]
  <2>1. CredentialsValid(c) /\ c.known
    BY DEF CredentialsValid
  <2>2. [uid |-> c.euid, gid |-> c.egid, groups |-> c.groups, known |-> c.known] = a
    BY <1>1
  <2> HIDE DEF a, c
  <2>3. QED
    BY <2>1, <2>2 DEF ObserveCurrent
<1>3. seen = [ObserveCurrent(c, NamespaceKinds) EXCEPT
                !.current = request.context.current, !.target = request.context.target]
  <2>1. (CHOOSE i \in proc.uids : TRUE) = a.uid /\ (CHOOSE i \in proc.gids : TRUE) = a.gid
    OBVIOUS
  <2>2. QED
    BY <2>1 DEF Observed
<1> HIDE DEF c, seen
<1>4. seen = [[current |-> a, target |-> a, namespaces |-> NamespaceKinds, execution |-> a]
                EXCEPT !.current = request.context.current, !.target = a]
  BY <1>2, <1>3
<1>5. /\ seen.current = request.context.current /\ seen.target = a
      /\ seen.execution = a /\ seen.namespaces = NamespaceKinds
  <2> HIDE DEF a
  <2>1. QED
    BY <1>4
<1>6. QED
  BY <1>5 DEF seen

(* The worker's steps leave the launcher, the runner and the world alone.  *)
LEMMA WorkerFrame ==
    ASSUME Worker
    PROVE  UNCHANGED <<world, file, ctx, launch, runner>> /\ Alive
  BY DEF Worker, InstallHandler, CloseExecutable, Receive, DropCredentials, Verify,
         StartCommand, EndCommand, WorkerDeadline, Evaluate, Respond, WorkerAt, Alive

(* Without an excuse no step fails, and the launcher takes the report. *)
LEMMA SuccessStep ==
    ASSUME DelegationInv, DelegatorInv, PrivilegeInv, SuccessInv, [Next]_vars
    PROVE  SuccessInv'
<1> SUFFICES ASSUME ~Excused'
             PROVE  /\ worker' # "killed"
                    /\ worker' \in {"none", "boot", "close", "receive", "drop", "verify"} =>
                         workerCtx'
                    /\ worker' = "exited" => exit' = "0"
                    /\ worker' \in {"write", "exited"} =>
                         accepts(response)' /\ response'.by = "worker"
                    /\ launcher' = "done" /\ worker' # "none" => report' # NoReport
  BY DEF SuccessInv
<1> USE DEF vars, launch, process, runner
<1>1. UNCHANGED world /\ ~Excused
  <2>1. UNCHANGED world
    BY WorkerFrame
       DEF Next, Launcher, ReadRequirement, Prepare, Collect, RunTarget, Await, LauncherFails,
           Runner, Timeout, Terminate, Kill, World, Rewrite, Interrupt, Done
  <2>2. (ctx' => ctx) /\ (timedOut => timedOut')
    <3>1. CASE Launcher
      BY <3>1 DEF Launcher, ReadRequirement, Prepare, Collect, RunTarget, Await, LauncherFails
    <3>2. CASE Worker
      BY <3>2, WorkerFrame
    <3>3. CASE Runner \/ World \/ Done \/ UNCHANGED vars
      BY <3>3 DEF Runner, Timeout, Terminate, Kill, World, Rewrite, Interrupt, Done
    <3>4. QED
      BY <3>1, <3>2, <3>3 DEF Next
  <2>3. faulted => faulted'
    BY DEF Next, Launcher, ReadRequirement, Prepare, Collect, RunTarget, Await, LauncherFails,
           Runner, Timeout, Terminate, Kill, Worker, InstallHandler, CloseExecutable, Receive,
           DropCredentials, Verify, StartCommand, EndCommand, WorkerDeadline, Evaluate,
           Respond, WorkerAt, WorkerFails, WorkerGoes, World, Rewrite, Interrupt, Done
  <2>4. QED
    BY <2>1, <2>2, <2>3 DEF Excused
<1>2. ~faulted /\ ~faulted' /\ ctx /\ ~timedOut /\ ~signalled
  BY <1>1 DEF Excused, DelegationInv, HandshakeInv
<1>3. CASE ReadRequirement \/ Prepare \/ Collect
  BY <1>1, <1>3 DEF ReadRequirement, Prepare, Collect, LauncherFails, DelegationInv,
                    HandshakeInv, SuccessInv
<1>4. CASE RunTarget
  <2>1. worker = "none"
    BY <1>4 DEF RunTarget, DelegationInv, HandshakeInv
  <2>2. QED
    BY <1>1, <1>4, <2>1 DEF RunTarget, LauncherFails, SuccessInv
<1>5. CASE Await
  <2>1. worker # "none" /\ worker # "killed" /\ worker = "exited" /\ exit = "0"
        /\ accepts(response) /\ response.by = "worker" /\ completed
    BY <1>1, <1>2, <1>5 DEF Await, SuccessInv, completed
  <2>2. ~LauncherFails(completed /\ accepts(response))
    BY <1>2, <2>1 DEF LauncherFails
  <2>3. report' # NoReport
    BY <1>5, <2>1, <2>2 DEF Await, NoReport
  <2>4. QED
    BY <1>5, <2>1, <2>2, <2>3 DEF Await, accepts
<1>6. CASE Runner
  <2>1. Timeout
    BY <1>2, <1>6 DEF Runner, Terminate, Kill
  <2>2. QED
    BY <1>1, <2>1, <1>6 DEF Timeout, Excused
<1>7. CASE Worker
  <2>1. worker # "none" /\ worker # "killed" /\ Alive /\ launcher # "done"
    BY <1>7, WorkerFrame DEF Alive, DelegationInv, HandshakeInv
  <2>2. UNCHANGED <<launcher, identity>>
    BY <1>7, WorkerFrame
  <2>3. /\ request.context = identity /\ identity.target = world.account
        /\ identity.namespaces = NamespaceKinds /\ identity.current.known
        /\ world.account \in Accounts /\ world.account.known
    <3>1. \A a \in Accounts : a.known
      BY DelegationAssumption
    <3>2. QED
      BY <2>1, <3>1 DEF DelegationInv, HandshakeInv, IdentityInv, DelegatorInv
  <2>4. CASE InstallHandler
    BY <1>1, <2>1, <2>2, <2>4 DEF InstallHandler, WorkerAt, WorkerGoes, SuccessInv
  <2>5. CASE CloseExecutable
    BY <1>1, <1>2, <2>1, <2>2, <2>5
       DEF CloseExecutable, WorkerAt, WorkerFails, WorkerGoes, SuccessInv
  <2>6. CASE Receive
    <3>1. validate(request) /\ proc.uids = {0}
      BY <2>3, <2>6, DelegationAssumption DEF Receive, WorkerAt, validate, PrivilegeInv
    <3>2. ~WorkerFails(validate(request) /\ proc.uids = {0})
      BY <1>2, <3>1 DEF WorkerFails
    <3>3. QED
      BY <1>1, <2>1, <2>2, <2>6, <3>2 DEF Receive, WorkerAt, WorkerGoes, SuccessInv
  <2>7. CASE DropCredentials
    <3>1. \A call, t : Permitted(proc, call, t)
      BY <2>7 DEF DropCredentials, WorkerAt, Permitted, PrivilegeInv
    <3>2. \A call, t : ~WorkerFails(Permitted(proc, call, t))
      BY <1>2, <3>1 DEF WorkerFails
    <3>3. WorkerGoes("verify") \/ WorkerGoes("drop")
      BY <2>7, <3>2 DEF DropCredentials
    <3>4. worker = "drop"
      BY <2>7 DEF DropCredentials, WorkerAt
    <3>5. QED
      BY <1>1, <2>1, <2>2, <3>3, <3>4 DEF WorkerGoes, SuccessInv
  <2>8. CASE Verify
    <3>1. workerCtx /\ worker = "verify"
      BY <1>1, <2>1, <2>8 DEF Verify, WorkerAt, SuccessInv
    <3>2. verifyTarget(proc, request.context.target)
      BY <1>1, <2>3, <3>1 DEF verifyTarget, PrivilegeInv, Excused
    <3>3. ~WorkerFails(workerCtx /\ verifyTarget(proc, request.context.target))
      BY <1>2, <3>1, <3>2 DEF WorkerFails
    <3>4. QED
      BY <1>1, <2>1, <2>2, <2>8, <3>3 DEF Verify, WorkerAt, WorkerGoes, SuccessInv
  <2>9. CASE StartCommand \/ EndCommand \/ WorkerDeadline
    BY <2>1, <2>2, <2>9 DEF StartCommand, EndCommand, WorkerDeadline, WorkerAt
  <2>10. CASE Evaluate
    <3>1. ~WorkerFails(TRUE)
      BY <1>2 DEF WorkerFails
    <3>2. PICK known \in BOOLEAN, ns \in SUBSET NamespaceKinds :
            /\ response' = [by |-> IF Observed(known, ns).execution = NoIdentity
                                   THEN "nobody" ELSE "worker",
                            context |-> Observed(known, ns),
                            requirement |-> bindTargetRequirement]
            /\ faulted' = (faulted \/ ~known \/ ns # NamespaceKinds)
            /\ worker' = "write"
      BY <2>10, <3>1, Zenon DEF Evaluate
    <3>3. known = TRUE /\ ns = NamespaceKinds
      BY <1>2, <3>2
    <3> DEFINE seen == Observed(TRUE, NamespaceKinds)
    <3>4. /\ seen.current = identity.current /\ seen.target = world.account
          /\ seen.execution = world.account /\ seen.namespaces = NamespaceKinds
      BY <2>3, <2>10, ObservesTheTarget
         DEF Evaluate, WorkerAt, DelegationInv, CollectsOnlyAsTarget
    <3>5. world.account # NoIdentity
      BY <2>3 DEF NoIdentity
    <3> HIDE DEF seen
    <3>6. response'.context = seen /\ response'.by = "worker"
      BY <3>2, <3>3, <3>4, <3>5 DEF seen
    <3>7. accepts(response)'
      BY <2>2, <2>3, <3>4, <3>6 DEF accepts, sameCredentials
    <3>8. QED
      BY <2>1, <2>2, <3>2, <3>6, <3>7
  <2>11. CASE Respond
    <3>1. ~WorkerFails(TRUE)
      BY <1>2 DEF WorkerFails
    <3>2. worker' = "exited" /\ exit' = "0" /\ UNCHANGED response
      BY <2>11, <3>1 DEF Respond
    <3>3. accepts(response) /\ response.by = "worker"
      BY <1>1, <2>1, <2>11 DEF Respond, WorkerAt, SuccessInv
    <3>4. QED
      BY <2>1, <2>2, <3>2, <3>3 DEF accepts
  <2>12. QED
    BY <1>7, <2>4, <2>5, <2>6, <2>7, <2>8, <2>9, <2>10, <2>11 DEF Worker
<1>8. CASE World \/ Done \/ UNCHANGED vars
  <2>1. UNCHANGED <<launch, process>>
    BY <1>8 DEF World, Rewrite, Interrupt, Done
  <2>2. QED
    BY <1>1, <2>1 DEF SuccessInv, accepts
<1>9. QED
  BY <1>3, <1>4, <1>5, <1>6, <1>7, <1>8 DEF Next, Launcher

LEMMA CompletionInvariant ==
    Spec => [](TypeOK /\ DelegationInv /\ CompletionInv)
<1> DEFINE Inv == /\ TypeOK /\ DelegationInv /\ CompletionInv
                  /\ world \in WorldType /\ file \in Documents \cup {NoDocument}
<1>1. Init => Inv
  <2> SUFFICES ASSUME Init PROVE Inv
    OBVIOUS
  <2>1. NoIdentity \in Identities /\ NoContext \in Contexts
    BY DEF Identities, NoContext, Contexts
  <2>2. TypeOK
    BY <2>1, DropCalls DEF Init, TypeOK, NoRequest, NoReport, NoProcess
  <2>3. CompletionInv
    BY DEF Init, CompletionInv, JoinInv, DelegatorInv, PrivilegeInv, SuccessInv
  <2>4. QED
    BY <2>2, <2>3, InitInv DEF Init, WorldType
<1>2. Inv /\ [Next]_vars => Inv'
  BY TypeStep, StepInv, JoinStep, DelegatorStep, PrivilegeStep, SuccessStep
     DEF CompletionInv
<1>3. QED
  BY <1>1, <1>2, PTL DEF Spec

(* In every behaviour a command of the worker is left only when the worker *)
(* was killed at the end of the wait delay (runner.go, cmd.Cancel).        *)
THEOREM CommandsEndWithTheWorker == Spec => []CommandsAreJoined
<1>1. TypeOK /\ DelegationInv /\ CompletionInv => CommandsAreJoined
  BY DEF CompletionInv, JoinInv, DelegationInv, HandshakeInv, Alive, CommandsAreJoined
<1>2. QED
  BY <1>1, CompletionInvariant, PTL

(* In every behaviour a delegation that fails has a cause outside the      *)
(* program: the credential calls are made in an order in which each still  *)
(* has the privilege it needs, and what the worker sends back is what the  *)
(* launcher accepts.                                                       *)
THEOREM FailuresHaveACause == Spec => []DelegationDoesNotFailByItself
<1>1. CompletionInv => DelegationDoesNotFailByItself
  BY DEF CompletionInv, SuccessInv, DelegationDoesNotFailByItself
<1>2. QED
  BY <1>1, CompletionInvariant, PTL
=============================================================================
