-------------------------- MODULE AssessmentProofs --------------------------
(***************************************************************************)
(* Theorems about module Assessment, for every search list, every set of   *)
(* probes and builds and any number of replacements of the executables.    *)
(*                                                                         *)
(* AssessmentInv is inductive.  Its parts are proved one after the other,  *)
(* each from the whole of it: the types, the stages of the invocation,     *)
(* the observations, the search, the preparation of commands, the          *)
(* launches, and the report.                                               *)
(***************************************************************************)
EXTENDS Assessment, FiniteSetTheorems, SequenceTheorems, TLAPS

-----------------------------------------------------------------------------
(* Facts about the constants and the operators.                            *)

(* The names of observations are distinct from the probes' but for the two *)
(* commands, and the states of a file tell a build from what is none.      *)
LEMMA Names ==
    /\ Version \in Probes /\ Info \in Probes
    /\ \A p \in Probes : p \notin {Discovery, Identity, Helper, Configuration}
    /\ Builds \subseteq FileStates
    /\ \A b \in Builds : b \notin {"absent", "denied", "irregular", "noexec", "unknown"}
  BY ProbesAssumption DEF Probes, Version, Info, Discovery, Identity, Helper, Configuration, FileStates

(* The empty string differs from every other. *)
LEMMA UnsetDiffers == Unset # "podman" /\ Unset # "cli" /\ Unset # "inspection"
  BY Zenon DEF Unset

(* The places searched are candidates, or the one path of the options.     *)
LEMMA Searches ==
    ASSUME TypeOK
    PROVE  /\ SearchList \in Seq(Paths) /\ Len(SearchList) >= 1
           /\ opts.path # Unset => \A i \in 1..Len(SearchList) : SearchList[i] = opts.path
           /\ Unset \notin Paths
  <1>1. opts.path \in Paths \cup {Unset}
    BY DEF TypeOK, Options
  <1>2. Candidates \in Seq(Paths) /\ Len(Candidates) >= 1
    <2>0. Candidates \in Seq(STRING) /\ Candidates # <<>>
      BY ProbesAssumption, Zenon
    <2>1. Candidates \in [1..Len(Candidates) -> STRING] /\ Len(Candidates) \in Nat
      BY <2>0
    <2>2. \A i \in 1..Len(Candidates) : Candidates[i] \in Paths
      BY <2>1 DEF Paths, ToSet
    <2>3. Candidates \in [1..Len(Candidates) -> Paths]
      BY <2>1, <2>2
    <2> QED BY <2>0, <2>1, <2>3
  <1>3. CASE opts.path # Unset
    <2>1. SearchList = <<opts.path>> /\ opts.path \in Paths
      BY <1>1, <1>3 DEF SearchList
    <2>2. Unset \notin Paths
      BY ProbesAssumption, Zenon
    <2>3. Len(SearchList) = 1 /\ SearchList[1] = opts.path /\ SearchList \in Seq(Paths)
      BY <2>1
    <2>4. \A i \in 1..Len(SearchList) : SearchList[i] = opts.path
      BY <2>3
    <2> QED BY <2>2, <2>3, <2>4
  <1>4. CASE opts.path = Unset
    <2>1. SearchList = Candidates
      BY <1>4 DEF SearchList
    <2>2. Unset \notin Paths
      BY ProbesAssumption, Zenon
    <2> QED BY <1>2, <1>4, <2>1, <2>2
  <1> QED BY <1>3, <1>4

(* What Retain leaves of the other observations.                           *)
LEMMA Retained ==
    ASSUME NEW id, NEW o, Retain(id, o)
    PROVE  /\ DOMAIN obs' = DOMAIN obs \cup {id}
           /\ obs'[id] = o
           /\ \A i \in DOMAIN obs : i # id => obs'[i] = obs[i]
  BY DEF Retain

(* What End makes of the statuses.                                         *)
LEMMA Ended ==
    ASSUME TypeOK, NEW p \in Probes, NEW outcome \in Final, End(p, outcome)
    PROVE  /\ status' \in [Probes -> Final \cup {"none", "running"}]
           /\ status'[p] = outcome
           /\ \A q \in Probes : q # p =>
                status'[q] = status[q]
                \/ /\ status'[q] = "Skipped" /\ status[q] = "none" /\ q \in planned
                   /\ outcome # "Succeeded" /\ p = Version /\ q = Info
  BY DEF End, TypeOK, Dependencies, Final

(* A sequence of one and one more.                                         *)
LEMMA SecondAppended ==
    ASSUME NEW S, NEW s \in Seq(S), Len(s) = 1, NEW e
    PROVE  /\ Len(Append(s, e)) = 2 /\ DOMAIN Append(s, e) = {1, 2}
           /\ Append(s, e)[1] = s[1] /\ Append(s, e)[2] = e
  <1> DEFINE T == S \cup {e}
             t == Append(s, e)
  <1>1. s \in Seq(T) /\ e \in T
    OBVIOUS
  <1> HIDE DEF T
  <1>2. /\ t \in Seq(T) /\ Len(t) = Len(s) + 1
        /\ \A i \in 1..Len(s) : t[i] = s[i]
        /\ t[Len(s) + 1] = e
    <2>1. ASSUME NEW q \in Seq(T), NEW x \in T
          PROVE  /\ Append(q, x) \in Seq(T) /\ Len(Append(q, x)) = Len(q) + 1
                 /\ \A i \in 1..Len(q) : Append(q, x)[i] = q[i]
                 /\ Append(q, x)[Len(q) + 1] = x
      OBVIOUS
    <2>2. QED
      BY <1>1, <2>1
  <1> HIDE DEF t
  <1>3. Len(t) = 2 /\ DOMAIN t = 1..2
    BY <1>2
  <1>4. t[1] = s[1] /\ t[2] = e
    BY <1>2
  <1> QED BY <1>3, <1>4 DEF t

(* The exit codes differ, and a delivered report has that of a verdict.    *)
LEMMA ExitCodes ==
    /\ ExitUsage \notin Verdicts /\ ExitExecution \notin Verdicts /\ NotExited \notin Verdicts
    /\ ExitUsage # ExitExecution /\ ExitUsage # NotExited /\ ExitExecution # NotExited
    /\ ProjectReport(Projecting).exit \in Verdicts
    /\ NoReport.exit \notin Verdicts
  <1>1. \A n : ExitCode(n) \in Verdicts /\ HostExit \in Verdicts
    BY DEF ExitCode, HostExit, Verdicts
  <1>2. ProjectReport(Projecting).exit \in Verdicts
    BY <1>1 DEF ProjectReport
  <1> QED
    BY <1>2 DEF Verdicts, ExitSatisfied, ExitUnsatisfied, ExitIndeterminate, ExitUsage, ExitExecution,
                NotExited, NoReport

(* What the end of the version command means for its observation.          *)
LEMMA VersionEnds ==
    ASSUME FinishVersion
    PROVE  \E o : \E outcome \in {"Succeeded", "Failed", "Cancelled"} :
             /\ Retain(Version, o) /\ End(Version, outcome)
             /\ o.complete \in BOOLEAN /\ o.time = Collecting /\ o.path = command
             /\ outcome = "Succeeded" => o.complete /\ o.runnable = "yes" /\ files[command] \in Builds
             /\ o.version = (IF outcome = "Succeeded" THEN files[command] ELSE "unknown")
  <1> DEFINE o(outcome) == [complete |-> outcome \in {"ok", "exitFailed", "startFailed"},
                            time |-> Collecting, path |-> command,
                            runnable |-> CASE outcome = "ok" -> "yes"
                                           [] outcome \in {"exitFailed", "startFailed"} -> "no"
                                           [] OTHER -> "unknown",
                            version |-> IF outcome = "ok" THEN files[command] ELSE "unknown"]
             status_(outcome) == IF outcome = "ok" THEN "Succeeded" ELSE Unsuccessful(outcome)
  <1>1. PICK outcome \in Outcomes : Retain(Version, o(outcome)) /\ End(Version, status_(outcome))
    BY Zenon DEF FinishVersion
  <1>2. /\ status_(outcome) \in {"Succeeded", "Failed", "Cancelled"}
        /\ status_(outcome) = "Succeeded" <=> outcome = "ok"
    BY DEF Unsuccessful
  <1>3. outcome = "ok" => files[command] \in Builds
    BY DEF Outcomes
  <1>4. o(outcome).complete = (outcome \in {"ok", "exitFailed", "startFailed"})
    BY Zenon
  <1>5. o(outcome).time = Collecting /\ o(outcome).path = command
    OBVIOUS
  <1>6. outcome = "ok" => o(outcome).runnable = "yes"
    OBVIOUS
  <1>7. o(outcome).version = (IF outcome = "ok" THEN files[command] ELSE "unknown")
    OBVIOUS
  <1> HIDE DEF o, status_
  <1>8. o(outcome).version = (IF status_(outcome) = "Succeeded" THEN files[command] ELSE "unknown")
    BY <1>2, <1>7
  <1>9. o(outcome).complete \in BOOLEAN /\ (outcome = "ok" => o(outcome).complete)
    <2>1. (outcome \in {"ok", "exitFailed", "startFailed"}) \in BOOLEAN
      OBVIOUS
    <2>2. outcome = "ok" => outcome \in {"ok", "exitFailed", "startFailed"}
      OBVIOUS
    <2> QED BY <1>4, <2>1, <2>2, Zenon
  <1> QED BY <1>1, <1>2, <1>3, <1>5, <1>6, <1>8, <1>9

(* What the end of the info command means for its observation.             *)
LEMMA InfoEnds ==
    ASSUME FinishInfo
    PROVE  \E o : \E outcome \in {"Succeeded", "Failed", "Cancelled"} :
             /\ Retain(Info, o) /\ End(Info, outcome)
             /\ o.complete \in BOOLEAN /\ o.time = Collecting /\ o.path = command
             /\ outcome = "Succeeded" => o.available = "yes" /\ o.complete /\ files[command] \in Builds
             /\ o.full => o.version # "unknown"
             /\ o.version # "unknown" => outcome = "Succeeded" /\ o.version = files[command]
  <1> DEFINE o(outcome, full, versioned, netavark) ==
                [complete |-> outcome \in {"ok", "exitFailed", "startFailed"},
                 time |-> Collecting, path |-> command,
                 available |-> CASE outcome = "ok" -> "yes"
                                 [] outcome \in {"exitFailed", "startFailed"} -> "no"
                                 [] OTHER -> "unknown",
                 full |-> full, netavark |-> netavark,
                 version |-> IF versioned THEN files[command] ELSE "unknown"]
             status_(outcome) == IF outcome = "ok" THEN "Succeeded" ELSE Unsuccessful(outcome)
  <1>1. PICK outcome \in Outcomes, full \in BOOLEAN, versioned \in BOOLEAN, netavark \in BOOLEAN :
          /\ full => versioned
          /\ outcome # "ok" => ~full /\ ~versioned /\ ~netavark
          /\ Retain(Info, o(outcome, full, versioned, netavark))
          /\ End(Info, status_(outcome))
    BY Zenon DEF FinishInfo
  <1>2. /\ status_(outcome) \in {"Succeeded", "Failed", "Cancelled"}
        /\ status_(outcome) = "Succeeded" <=> outcome = "ok"
    BY DEF Unsuccessful
  <1>3. outcome = "ok" => files[command] \in Builds /\ files[command] # "unknown"
    BY Names DEF Outcomes
  <1> DEFINE r == o(outcome, full, versioned, netavark)
  <1>4. r.complete = (outcome \in {"ok", "exitFailed", "startFailed"})
    BY Zenon
  <1>5. r.time = Collecting /\ r.path = command
    OBVIOUS
  <1>6. outcome = "ok" => r.available = "yes"
    OBVIOUS
  <1>7. r.version = (IF versioned THEN files[command] ELSE "unknown")
    OBVIOUS
  <1>8. r.full = full
    OBVIOUS
  <1> HIDE DEF o, status_
  <1>9. /\ r.full => r.version # "unknown"
        /\ r.version # "unknown" => status_(outcome) = "Succeeded" /\ r.version = files[command]
    BY <1>1, <1>2, <1>3, <1>7, <1>8
  <1>10. r.complete \in BOOLEAN /\ (outcome = "ok" => r.complete)
    <2>1. (outcome \in {"ok", "exitFailed", "startFailed"}) \in BOOLEAN
      OBVIOUS
    <2>2. outcome = "ok" => outcome \in {"ok", "exitFailed", "startFailed"}
      OBVIOUS
    <2> QED BY <1>4, <2>1, <2>2, Zenon
  <1> QED BY <1>1, <1>2, <1>3, <1>5, <1>6, <1>9, <1>10

-----------------------------------------------------------------------------
(* The types.                                                              *)

(* Every action keeps the types.                                          *)
LEMMA TypeStep ==
    ASSUME TypeOK, ObservationInv, DiscoveryInv, CommandInv, LaunchInv, ReportInv, Next
    PROVE  TypeOK'
  <1> USE DEF world, live, data, result, Failure
  <1>1. CASE CheckOptions
    BY <1>1 DEF CheckOptions, TypeOK
  <1>2. CASE ReadLiveRequirement
    BY <1>2 DEF ReadLiveRequirement, TypeOK
  <1>3. CASE OpenReader
    BY <1>3 DEF OpenReader, TypeOK
  <1>4. CASE ObserveCurrent
    <2>1. DOMAIN obs' = DOMAIN obs \cup {Identity}
      BY <1>4, Retained DEF ObserveCurrent
    <2>2. planned' \subseteq Probes
      BY <1>4 DEF ObserveCurrent, PlannedProbes, Probes
    <2>3. at' \in 0..Projecting
      BY <1>4 DEF ObserveCurrent, Bootstrap, Projecting
    <2> QED BY <1>4, <2>1, <2>2, <2>3 DEF ObserveCurrent, TypeOK
  <1>5. CASE DiscoveryCancelled
    <2>1. DOMAIN obs' = DOMAIN obs \cup {Discovery}
      BY <1>5, Retained DEF DiscoveryCancelled
    <2> QED BY <1>5, <2>1 DEF DiscoveryCancelled, TypeOK
  <1>6. CASE LookupNext
    <2>1. looked' \in Seq(FileStates)
      BY <1>6 DEF LookupNext, TypeOK, FileStates
    <2> QED BY <1>6, <2>1 DEF LookupNext, TypeOK
  <1>7. CASE LookupSelect
    <2>1. DOMAIN obs' = DOMAIN obs \cup {Discovery}
      <3>1. PICK o : Retain(Discovery, o)
        BY <1>7, Zenon DEF LookupSelect
      <3> QED BY <3>1, Retained
    <2>2. looked' \in Seq(FileStates)
      <3>1. SearchList \in Seq(Paths) /\ Len(looked) \in Nat /\ looked \in Seq(FileStates)
        BY Searches DEF TypeOK
      <3>2. SearchList[Len(looked) + 1] \in Paths
        BY <1>7, <3>1 DEF LookupSelect, DiscoveryInv, Searched
      <3> QED BY <1>7, <3>1, <3>2 DEF LookupSelect, TypeOK
    <2> QED BY <1>7, <2>1, <2>2 DEF LookupSelect, TypeOK
  <1>8. CASE LookupExhausted
    <2>1. DOMAIN obs' = DOMAIN obs \cup {Discovery}
      BY <1>8, Retained DEF LookupExhausted
    <2> QED BY <1>8, <2>1 DEF LookupExhausted, TypeOK
  <1>9. CASE Setup
    <2>1. planned' \subseteq Probes
      BY <1>9, Names DEF Setup, TypeOK
    <2>2. command' \in Paths \cup {Unset}
      BY <1>9 DEF Setup, TypeOK, DiscoveryInv, ObservationInv, Observed
    <2> QED BY <1>9, <2>1, <2>2 DEF Setup, TypeOK
  <1>10. ASSUME NEW p \in Probes, Dispatch(p) PROVE TypeOK'
    <2>1. status' \in [Probes -> Final \cup {"none", "running"}]
      BY <1>10 DEF Dispatch, TypeOK
    <2> QED BY <1>10, <2>1 DEF Dispatch, TypeOK
  <1>11. ASSUME NEW p \in Probes, CancelQueued(p) PROVE TypeOK'
    <2>1. status' \in [Probes -> Final \cup {"none", "running"}]
      <3>1. "Cancelled" \in Final
        BY DEF Final
      <3> QED BY <1>11, <3>1, Ended DEF CancelQueued
    <2> QED BY <1>11, <2>1 DEF CancelQueued, TypeOK
  <1>12. ASSUME NEW p \in Probes, FinishReading(p) PROVE TypeOK'
    <2>1. DOMAIN obs' = DOMAIN obs \cup {p}
      <3>1. PICK o : Retain(p, o)
        BY <1>12, Zenon DEF FinishReading
      <3> QED BY <3>1, Retained
    <2>2. status' \in [Probes -> Final \cup {"none", "running"}]
      <3>1. PICK outcome \in {"Succeeded", "Failed", "Cancelled"} : End(p, outcome)
        BY <1>12, Zenon DEF FinishReading
      <3>2. outcome \in Final
        BY DEF Final
      <3> QED BY <3>1, <3>2, Ended
    <2> QED BY <1>12, <2>1, <2>2 DEF FinishReading, TypeOK
  <1>13. CASE FinishVersion
    <2>1. command \in Paths
      BY <1>13 DEF FinishVersion, Running, CommandInv, TypeOK, Probes
    <2>2. DOMAIN obs' = DOMAIN obs \cup {Version}
      <3>1. PICK o : Retain(Version, o)
        BY <1>13, Zenon DEF FinishVersion
      <3> QED BY <3>1, Retained
    <2>3. status' \in [Probes -> Final \cup {"none", "running"}]
      <3>1. PICK outcome \in {"Succeeded", "Failed", "Cancelled"} : End(Version, outcome)
        BY <1>13 DEF FinishVersion, Unsuccessful
      <3>2. outcome \in Final
        BY DEF Final
      <3> QED BY <3>1, <3>2, Ended, Names
    <2>4. ran' \in Seq([probe : {Version, Info}, path : Paths, build : FileStates])
      BY <1>13, <2>1 DEF FinishVersion, Launch, TypeOK
    <2> QED BY <1>13, <2>2, <2>3, <2>4, Names DEF FinishVersion, TypeOK
  <1>14. CASE FinishInfo
    <2>1. command \in Paths
      BY <1>14 DEF FinishInfo, Running, CommandInv, TypeOK, Probes
    <2>2. DOMAIN obs' = DOMAIN obs \cup {Info}
      <3>1. PICK o : Retain(Info, o)
        BY <1>14, Zenon DEF FinishInfo
      <3> QED BY <3>1, Retained
    <2>3. status' \in [Probes -> Final \cup {"none", "running"}]
      <3>1. PICK outcome \in {"Succeeded", "Failed", "Cancelled"} : End(Info, outcome)
        BY <1>14 DEF FinishInfo, Unsuccessful
      <3>2. outcome \in Final
        BY DEF Final
      <3> QED BY <3>1, <3>2, Ended, Names
    <2>4. ran' \in Seq([probe : {Version, Info}, path : Paths, build : FileStates])
      BY <1>14, <2>1 DEF FinishInfo, Launch, TypeOK
    <2> QED BY <1>14, <2>2, <2>3, <2>4, Names DEF FinishInfo, TypeOK
  <1>15. CASE Collected
    BY <1>15 DEF Collected, TypeOK
  <1>16. CASE SelectRuntime
    BY <1>16 DEF SelectRuntime, TypeOK
  <1>17. CASE CollectHelpers
    <2>1. DOMAIN obs' \subseteq DOMAIN obs \cup {Helper}
      BY <1>17, Retained DEF CollectHelpers
    <2> QED BY <1>17, <2>1 DEF CollectHelpers, TypeOK
  <1>18. CASE CollectConfiguration
    <2>1. DOMAIN obs' \subseteq DOMAIN obs \cup {Configuration}
      BY <1>18, Retained DEF CollectConfiguration
    <2> QED BY <1>18, <2>1 DEF CollectConfiguration, TypeOK
  <1>19. CASE Project
    <2>1. at' \in 0..Projecting
      BY <1>19 DEF Project, TypeOK, EvaluationTime, Projecting
    <2> QED BY <1>19, <2>1 DEF Project, TypeOK
  <1>20. CASE CloseReader
    BY <1>20 DEF CloseReader, TypeOK
  <1>21. CASE WriteReport
    <2>1. report.exit \in Verdicts
      BY <1>21, ExitCodes DEF WriteReport, ReportInv
    <2> QED BY <1>21, <2>1 DEF WriteReport, TypeOK
  <1>22. CASE Cancel
    BY <1>22 DEF Cancel, TypeOK
  <1>23. ASSUME NEW path \in Paths, Replace(path) PROVE TypeOK'
    <2>1. changes' \in 0..MaxChanges
      <3>1. MaxChanges \in Nat /\ changes \in 0..MaxChanges
        BY ProbesAssumption DEF TypeOK
      <3> QED BY <1>23, <3>1 DEF Replace
    <2>2. files' \in [Paths -> FileStates]
      BY <1>23 DEF Replace, TypeOK
    <2> QED BY <1>23, <2>1, <2>2 DEF Replace, TypeOK
  <1> QED
    BY <1>1, <1>2, <1>3, <1>4, <1>5, <1>6, <1>7, <1>8, <1>9, <1>10, <1>11, <1>12, <1>13, <1>14,
       <1>15, <1>16, <1>17, <1>18, <1>19, <1>20, <1>21, <1>22, <1>23 DEF Next, Invocation

(* The stages are kept by every action.                                    *)
LEMMA StageStep ==
    ASSUME AssessmentInv, Next
    PROVE  StageInv'
  <1> USE DEF world, live, data, result
  <1>1. CASE CheckOptions
    BY <1>1, ExitCodes DEF CheckOptions, AssessmentInv, StageInv, Failure, Starting
  <1>2. CASE ReadLiveRequirement
    BY <1>2, ExitCodes DEF ReadLiveRequirement, AssessmentInv, StageInv, Failure, Starting
  <1>3. CASE OpenReader
    BY <1>3, ExitCodes DEF OpenReader, AssessmentInv, StageInv, Failure, Starting
  <1>4. CASE ObserveCurrent
    BY <1>4 DEF ObserveCurrent, AssessmentInv, StageInv, Failure, Starting
  <1>5. CASE DiscoveryCancelled
    BY <1>5 DEF DiscoveryCancelled, AssessmentInv, StageInv, Failure, Starting
  <1>6. CASE LookupNext
    BY <1>6 DEF LookupNext, AssessmentInv, StageInv, Failure, Starting
  <1>7. CASE LookupSelect
    BY <1>7 DEF LookupSelect, AssessmentInv, StageInv, Failure, Starting
  <1>8. CASE LookupExhausted
    BY <1>8 DEF LookupExhausted, AssessmentInv, StageInv, Failure, Starting
  <1>9. CASE Setup
    BY <1>9 DEF Setup, AssessmentInv, StageInv, Failure, Starting
  <1>10. ASSUME NEW p \in Probes, Dispatch(p) PROVE StageInv'
    BY <1>10 DEF Dispatch, AssessmentInv, StageInv, Failure, Starting
  <1>11. ASSUME NEW p \in Probes, CancelQueued(p) PROVE StageInv'
    BY <1>11 DEF CancelQueued, AssessmentInv, StageInv, Failure, Starting
  <1>12. ASSUME NEW p \in Probes, FinishReading(p) PROVE StageInv'
    <2>1. pc = "collect" /\ UNCHANGED <<pc, reader, execution, report, stdout, exit>>
      BY <1>12 DEF FinishReading, Running
    <2>2. exit \notin Verdicts /\ exit # ExitUsage
      BY <2>1, ExitCodes DEF AssessmentInv, StageInv
    <2> QED BY <2>1, <2>2 DEF AssessmentInv, StageInv, Starting
  <1>13. CASE FinishVersion
    <2>1. pc = "collect" /\ UNCHANGED <<pc, reader, execution, report, stdout, exit>>
      BY <1>13 DEF FinishVersion, Running
    <2>2. exit \notin Verdicts /\ exit # ExitUsage
      BY <2>1, ExitCodes DEF AssessmentInv, StageInv
    <2> QED BY <2>1, <2>2 DEF AssessmentInv, StageInv, Starting
  <1>14. CASE FinishInfo
    <2>1. pc = "collect" /\ UNCHANGED <<pc, reader, execution, report, stdout, exit>>
      BY <1>14 DEF FinishInfo, Running
    <2>2. exit \notin Verdicts /\ exit # ExitUsage
      BY <2>1, ExitCodes DEF AssessmentInv, StageInv
    <2> QED BY <2>1, <2>2 DEF AssessmentInv, StageInv, Starting
  <1>15. CASE Collected
    BY <1>15 DEF Collected, AssessmentInv, StageInv, Failure, Starting
  <1>16. CASE SelectRuntime
    BY <1>16 DEF SelectRuntime, AssessmentInv, StageInv, Failure, Starting
  <1>17. CASE CollectHelpers
    BY <1>17 DEF CollectHelpers, AssessmentInv, StageInv, Failure, Starting
  <1>18. CASE CollectConfiguration
    BY <1>18 DEF CollectConfiguration, AssessmentInv, StageInv, Failure, Starting
  <1>19. CASE Project
    BY <1>19 DEF Project, AssessmentInv, StageInv, Failure, Starting
  <1>20. CASE CloseReader
    BY <1>20, ExitCodes DEF CloseReader, AssessmentInv, StageInv, Failure, Starting
  <1>21. CASE WriteReport
    BY <1>21, ExitCodes DEF WriteReport, AssessmentInv, StageInv, Failure, Starting, ReportInv
  <1>22. CASE Cancel
    BY <1>22 DEF Cancel, AssessmentInv, StageInv, Failure, Starting
  <1>23. ASSUME NEW path \in Paths, Replace(path) PROVE StageInv'
    BY <1>23 DEF Replace, AssessmentInv, StageInv, Failure, Starting
  <1> QED
    BY <1>1, <1>2, <1>3, <1>4, <1>5, <1>6, <1>7, <1>8, <1>9, <1>10, <1>11, <1>12,
       <1>13, <1>14, <1>15, <1>16, <1>17, <1>18, <1>19, <1>20, <1>21, <1>22, <1>23 DEF Next, Invocation

-----------------------------------------------------------------------------
(* The observations.                                                       *)

(* An observation of a probe, of the helper or of the configuration that   *)
(* names no other executable than discovery's.                             *)
LEMMA ObservationRetained ==
    ASSUME AssessmentInv, NEW id, NEW o, Retain(id, o), id \notin {Discovery, Identity},
           o.complete \in BOOLEAN, o.time \in Bootstrap..Afterwards, o.path \in Paths \cup {Unset},
           o.path # Unset => Observed(Discovery) /\ o.path = obs[Discovery].path,
           pc \in {"collect", "helpers", "configuration"}, UNCHANGED <<execution, planned>>,
           \A p \in Probes : status'[p] = "Succeeded" => p = id \/ status[p] = "Succeeded"
    PROVE  ObservationInv'
  <1>1. /\ DOMAIN obs' = DOMAIN obs \cup {id} /\ obs'[id] = o
        /\ \A i \in DOMAIN obs : i # id => obs'[i] = obs[i]
    BY Retained
  <1>2. Observed(Identity)
    BY DEF AssessmentInv, ObservationInv, Starting
  <1>3. Observed(Discovery) => obs'[Discovery] = obs[Discovery] /\ Discovery \in DOMAIN obs'
    BY <1>1 DEF Observed
  <1>4. obs'[Identity] = obs[Identity]
    BY <1>1, <1>2 DEF Observed
  <1> QED
    BY <1>1, <1>2, <1>3, <1>4 DEF AssessmentInv, ObservationInv, Observed

(* What discovery observed, from the first moment an executable is named.  *)
LEMMA DiscoveryRetained ==
    ASSUME AssessmentInv, NEW o, Retain(Discovery, o),
           o.complete \in BOOLEAN, o.time = Discovering, o.path \in Paths \cup {Unset},
           pc = "lookup", UNCHANGED <<execution, planned, status>>
    PROVE  ObservationInv'
  <1>1. /\ DOMAIN obs' = DOMAIN obs \cup {Discovery} /\ obs'[Discovery] = o
        /\ \A i \in DOMAIN obs : i # Discovery => obs'[i] = obs[i]
    BY Retained
  <1>2. Observed(Identity) /\ ~Observed(Discovery) /\ Discovery # Identity
    BY DEF AssessmentInv, ObservationInv, DiscoveryInv, Starting, Discovery, Identity
  <1>3. o.time \in Bootstrap..Afterwards
    BY DEF Discovering, Bootstrap, Afterwards
  <1>4. obs'[Identity] = obs[Identity]
    BY <1>1, <1>2 DEF Observed
  <1> QED
    BY <1>1, <1>2, <1>3, <1>4 DEF AssessmentInv, ObservationInv, Observed

(* Every action keeps what is known of the observations.                   *)
LEMMA ObservationStep ==
    ASSUME AssessmentInv, Next
    PROVE  ObservationInv'
  <1> USE DEF world, live, data, result
  <1>1. CASE CheckOptions
    BY <1>1 DEF CheckOptions, AssessmentInv, ObservationInv, Starting, Observed, Failure
  <1>2. CASE ReadLiveRequirement
    BY <1>2 DEF ReadLiveRequirement, AssessmentInv, ObservationInv, Starting, Observed, Failure
  <1>3. CASE OpenReader
    BY <1>3 DEF OpenReader, AssessmentInv, ObservationInv, Starting, Observed, Failure
  <1>4. CASE ObserveCurrent
    <2>1. PICK known \in BOOLEAN, complete \in BOOLEAN :
            /\ complete => known
            /\ execution' = known
            /\ Retain(Identity, [complete |-> complete, time |-> Bootstrap, path |-> Unset])
            /\ planned' = IF known THEN PlannedProbes ELSE {}
      BY <1>4, Zenon DEF ObserveCurrent
    <2>2. /\ DOMAIN obs' = {Identity}
          /\ obs'[Identity] = [complete |-> complete, time |-> Bootstrap, path |-> Unset]
      <3>1. DOMAIN obs = {}
        BY <1>4 DEF ObserveCurrent, AssessmentInv, StageInv, NothingObserved
      <3> QED BY <2>1, <3>1, Retained
    <2>3. Bootstrap \in Bootstrap..Afterwards
      BY DEF Bootstrap, Afterwards
    <2>4. \A p \in Probes : status'[p] = "none"
      BY <1>4 DEF ObserveCurrent, AssessmentInv, CommandInv
    <2>5. execution' => HostProbes \cup ContextProbes \subseteq planned'
      BY <2>1 DEF PlannedProbes
    <2> QED BY <2>1, <2>2, <2>3, <2>4, <2>5 DEF ObservationInv, Observed
  <1>5. CASE DiscoveryCancelled
    <2>1. opts.path \in Paths \cup {Unset}
      BY DEF AssessmentInv, TypeOK, Options
    <2> QED BY <1>5, <2>1, DiscoveryRetained DEF DiscoveryCancelled, DiscoveryRecord
  <1>6. CASE LookupNext
    BY <1>6 DEF LookupNext, AssessmentInv, ObservationInv, Observed
  <1>7. CASE LookupSelect
    <2>1. PICK o : /\ Retain(Discovery, o) /\ o.complete \in BOOLEAN /\ o.time = Discovering
                    /\ o.path = SearchList[Len(looked) + 1]
      <3> DEFINE path == SearchList[Len(looked) + 1]
                 found == files[path]
                 record == CASE found = "irregular" -> DiscoveryRecord(path, "unknown", "irregular", FALSE)
                             [] found = "noexec" -> DiscoveryRecord(path, "yes", "noexec", ~Uncertain)
                             [] OTHER -> DiscoveryRecord(path, "yes", "exec", ~Uncertain)
      <3>1. Retain(Discovery, record)
        BY <1>7, Zenon DEF LookupSelect
      <3>2. record.complete \in BOOLEAN /\ record.time = Discovering /\ record.path = path
        BY DEF DiscoveryRecord, Uncertain
      <3> QED BY <3>1, <3>2
    <2>2. SearchList[Len(looked) + 1] \in Paths
      <3>1. SearchList \in Seq(Paths) /\ looked \in Seq(FileStates)
        BY Searches DEF AssessmentInv, TypeOK
      <3> QED BY <1>7, <3>1 DEF LookupSelect, AssessmentInv, DiscoveryInv, Searched
    <2> QED BY <1>7, <2>1, <2>2, DiscoveryRetained DEF LookupSelect
  <1>8. CASE LookupExhausted
    <2>1. opts.path \in Paths \cup {Unset}
      BY DEF AssessmentInv, TypeOK, Options
    <2> QED BY <1>8, <2>1, DiscoveryRetained DEF LookupExhausted, DiscoveryRecord, Uncertain
  <1>9. CASE Setup
    BY <1>9 DEF Setup, AssessmentInv, ObservationInv, Observed, Starting
  <1>10. ASSUME NEW p \in Probes, Dispatch(p) PROVE ObservationInv'
    BY <1>10 DEF Dispatch, AssessmentInv, ObservationInv, TypeOK, Observed
  <1>11. ASSUME NEW p \in Probes, CancelQueued(p) PROVE ObservationInv'
    <2>1. \A q \in Probes : status'[q] = "Succeeded" => status[q] = "Succeeded"
      <3>1. "Cancelled" \in Final
        BY DEF Final
      <3> QED BY <1>11, <3>1, Ended DEF CancelQueued, AssessmentInv
    <2> QED BY <1>11, <2>1 DEF CancelQueued, AssessmentInv, ObservationInv, Observed, Ready
  <1>12. ASSUME NEW p \in Probes, FinishReading(p) PROVE ObservationInv'
    <2>1. PICK complete \in BOOLEAN, outcome \in {"Succeeded", "Failed", "Cancelled"} :
            /\ Retain(p, [complete |-> complete, time |-> Collecting, path |-> Unset])
            /\ End(p, outcome)
      BY <1>12, Zenon DEF FinishReading
    <2>2. \A q \in Probes : status'[q] = "Succeeded" => q = p \/ status[q] = "Succeeded"
      BY <2>1, Ended DEF Final, AssessmentInv
    <2>3. Collecting \in Bootstrap..Afterwards
      BY DEF Collecting, Bootstrap, Afterwards
    <2>4. p \notin {Discovery, Identity} /\ pc = "collect" /\ UNCHANGED <<execution, planned>>
      BY <1>12, Names DEF FinishReading, Running
    <2> QED BY <2>1, <2>2, <2>3, <2>4, ObservationRetained
  <1>13. CASE FinishVersion
    <2>1. PICK o : \E outcome \in {"Succeeded", "Failed", "Cancelled"} :
            /\ Retain(Version, o) /\ End(Version, outcome)
            /\ o.complete \in BOOLEAN /\ o.time = Collecting /\ o.path = command
      BY <1>13, VersionEnds
    <2>2. \A q \in Probes : status'[q] = "Succeeded" => q = Version \/ status[q] = "Succeeded"
      BY <2>1, Ended, Names DEF Final, AssessmentInv
    <2>3. Collecting \in Bootstrap..Afterwards
      BY DEF Collecting, Bootstrap, Afterwards
    <2>4. Version \notin {Discovery, Identity} /\ pc = "collect" /\ UNCHANGED <<execution, planned>>
      BY <1>13, Names DEF FinishVersion, Running
    <2>5. command # Unset => Observed(Discovery) /\ command = obs[Discovery].path
      BY DEF AssessmentInv, CommandInv
    <2>6. command \in Paths \cup {Unset}
      BY DEF AssessmentInv, TypeOK
    <2> QED BY <2>1, <2>2, <2>3, <2>4, <2>5, <2>6, ObservationRetained
  <1>14. CASE FinishInfo
    <2>1. PICK o : \E outcome \in {"Succeeded", "Failed", "Cancelled"} :
            /\ Retain(Info, o) /\ End(Info, outcome)
            /\ o.complete \in BOOLEAN /\ o.time = Collecting /\ o.path = command
      BY <1>14, InfoEnds
    <2>2. \A q \in Probes : status'[q] = "Succeeded" => q = Info \/ status[q] = "Succeeded"
      BY <2>1, Ended, Names DEF Final, AssessmentInv
    <2>3. Collecting \in Bootstrap..Afterwards
      BY DEF Collecting, Bootstrap, Afterwards
    <2>4. Info \notin {Discovery, Identity} /\ pc = "collect" /\ UNCHANGED <<execution, planned>>
      BY <1>14, Names DEF FinishInfo, Running
    <2>5. command # Unset => Observed(Discovery) /\ command = obs[Discovery].path
      BY DEF AssessmentInv, CommandInv
    <2>6. command \in Paths \cup {Unset}
      BY DEF AssessmentInv, TypeOK
    <2> QED BY <2>1, <2>2, <2>3, <2>4, <2>5, <2>6, ObservationRetained
  <1>15. CASE Collected
    BY <1>15 DEF Collected, AssessmentInv, ObservationInv, Observed, Starting
  <1>16. CASE SelectRuntime
    BY <1>16 DEF SelectRuntime, AssessmentInv, ObservationInv, Observed, Starting
  <1>17. CASE CollectHelpers
    <2>0. pc = "helpers" /\ UNCHANGED <<execution, planned, status>>
      BY <1>17 DEF CollectHelpers
    <2>1. CASE obs' = obs
      BY <1>17, <2>1 DEF CollectHelpers, AssessmentInv, ObservationInv, Observed, Starting
    <2>2. CASE obs' # obs
      <3>1. PICK o : /\ Retain(Helper, o) /\ o.complete \in BOOLEAN /\ o.time = Afterwards
                     /\ o.path = obs[Info].path /\ Observed(Info)
        BY <1>17, <2>2 DEF CollectHelpers, HelperRecord
      <3>2. o.path \in Paths \cup {Unset}
            /\ (o.path # Unset => Observed(Discovery) /\ o.path = obs[Discovery].path)
        BY <3>1 DEF AssessmentInv, ObservationInv, Observed
      <3>3. Afterwards \in Bootstrap..Afterwards
        BY DEF Afterwards, Bootstrap
      <3>4. Helper \notin {Discovery, Identity}
        BY DEF Helper, Configuration, Discovery, Identity
      <3> QED BY <2>0, <3>1, <3>2, <3>3, <3>4, ObservationRetained
    <2> QED BY <2>1, <2>2
  <1>18. CASE CollectConfiguration
    <2>0. pc = "configuration" /\ UNCHANGED <<execution, planned, status>>
      BY <1>18 DEF CollectConfiguration
    <2>1. CASE obs' = obs
      BY <1>18, <2>1 DEF CollectConfiguration, AssessmentInv, ObservationInv, Observed, Starting
    <2>2. CASE obs' # obs
      <3>1. PICK o : /\ Retain(Configuration, o) /\ o.complete \in BOOLEAN /\ o.time = Afterwards
                     /\ o.path = DiscoveredPath
        <4>1. PICK complete \in BOOLEAN :
                Retain(Configuration, [complete |-> complete, time |-> Afterwards, path |-> DiscoveredPath])
          BY <1>18, <2>2, Zenon DEF CollectConfiguration
        <4> QED BY <4>1
      <3>2. o.path \in Paths \cup {Unset}
            /\ (o.path # Unset => Observed(Discovery) /\ o.path = obs[Discovery].path)
        BY <3>1 DEF DiscoveredPath, AssessmentInv, ObservationInv, Observed
      <3>3. Afterwards \in Bootstrap..Afterwards
        BY DEF Afterwards, Bootstrap
      <3>4. Configuration \notin {Discovery, Identity}
        BY DEF Helper, Configuration, Discovery, Identity
      <3> QED BY <2>0, <3>1, <3>2, <3>3, <3>4, ObservationRetained
    <2> QED BY <2>1, <2>2
  <1>19. CASE Project
    BY <1>19 DEF Project, AssessmentInv, ObservationInv, Observed, Starting
  <1>20. CASE CloseReader
    BY <1>20 DEF CloseReader, AssessmentInv, ObservationInv, Observed, Starting, Failure
  <1>21. CASE WriteReport
    BY <1>21 DEF WriteReport, AssessmentInv, ObservationInv, Observed, Failure
  <1>22. CASE Cancel
    BY <1>22 DEF Cancel, AssessmentInv, ObservationInv, Observed
  <1>23. ASSUME NEW path \in Paths, Replace(path) PROVE ObservationInv'
    BY <1>23 DEF Replace, AssessmentInv, ObservationInv, Observed
  <1> QED
    BY <1>1, <1>2, <1>3, <1>4, <1>5, <1>6, <1>7, <1>8, <1>9, <1>10, <1>11, <1>12,
       <1>13, <1>14, <1>15, <1>16, <1>17, <1>18, <1>19, <1>20, <1>21, <1>22, <1>23 DEF Next, Invocation

-----------------------------------------------------------------------------
(* The search.                                                             *)

(* A step after the search, or before it, that leaves what it found alone. *)
LEMMA SearchFrame ==
    ASSUME AssessmentInv, UNCHANGED <<opts, execution, looked>>,
           pc' \in {"lookup", "setup"} => pc' = pc,
           Observed(Discovery)' <=> Observed(Discovery),
           Observed(Discovery) => obs'[Discovery] = obs[Discovery]
    PROVE  DiscoveryInv'
  <1>1. SearchList' = SearchList
    BY DEF SearchList
  <1> QED BY <1>1 DEF AssessmentInv, DiscoveryInv

(* The same for a step that retains another observation.                   *)
LEMMA SearchRetained ==
    ASSUME AssessmentInv, UNCHANGED <<opts, execution, looked>>, pc' \notin {"lookup", "setup"},
           NEW id, NEW o, Retain(id, o), id # Discovery
    PROVE  DiscoveryInv'
  <1>1. /\ DOMAIN obs' = DOMAIN obs \cup {id}
        /\ \A i \in DOMAIN obs : i # id => obs'[i] = obs[i]
    BY Retained
  <1>2. Observed(Discovery)' <=> Observed(Discovery)
    BY <1>1 DEF Observed
  <1>3. Observed(Discovery) => obs'[Discovery] = obs[Discovery]
    BY <1>1 DEF Observed
  <1> QED BY <1>2, <1>3, SearchFrame

(* Every action keeps what is known of the search.                         *)
LEMMA DiscoveryStep ==
    ASSUME AssessmentInv, Next
    PROVE  DiscoveryInv'
  <1> USE DEF world, live, data, result
  <1>1. CASE CheckOptions
    <2>1. Observed(Discovery)' <=> Observed(Discovery)
      BY <1>1 DEF CheckOptions, Failure, Observed
    <2> QED BY <1>1, <2>1, SearchFrame DEF CheckOptions, Failure
  <1>2. CASE ReadLiveRequirement
    <2>1. Observed(Discovery)' <=> Observed(Discovery)
      BY <1>2 DEF ReadLiveRequirement, Failure, Observed
    <2> QED BY <1>2, <2>1, SearchFrame DEF ReadLiveRequirement, Failure
  <1>3. CASE OpenReader
    <2>1. Observed(Discovery)' <=> Observed(Discovery)
      BY <1>3 DEF OpenReader, Failure, Observed
    <2> QED BY <1>3, <2>1, SearchFrame DEF OpenReader, Failure
  <1>4. CASE ObserveCurrent
    <2>1. PICK known \in BOOLEAN, complete \in BOOLEAN :
            /\ execution' = known
            /\ Retain(Identity, [complete |-> complete, time |-> Bootstrap, path |-> Unset])
            /\ pc' = IF known /\ opts.runtime # Unset /\ ~ctx THEN "lookup" ELSE "collect"
      BY <1>4, Zenon DEF ObserveCurrent
    <2>2. DOMAIN obs' = {Identity} /\ looked' = <<>> /\ opts' = opts
      <3>1. DOMAIN obs = {} /\ looked = <<>>
        BY <1>4 DEF ObserveCurrent, AssessmentInv, StageInv, NothingObserved
      <3> QED BY <1>4, <2>1, <3>1, Retained DEF ObserveCurrent
    <2>3. opts.runtime \in {Unset, "podman"}
      BY ProbesAssumption DEF AssessmentInv, TypeOK, Options
    <2>4. ~Observed(Discovery)'
      BY <2>2 DEF Observed, Discovery, Identity
    <2>5. Len(looked') <= Len(SearchList')
      <3>1. SearchList' = SearchList
        BY <2>2 DEF SearchList
      <3>2. SearchList \in Seq(Paths)
        BY Searches DEF AssessmentInv
      <3> QED BY <2>2, <3>1, <3>2
    <2> QED BY <2>1, <2>2, <2>3, <2>4, <2>5 DEF DiscoveryInv
  <1>5. CASE DiscoveryCancelled
    <2>1. /\ Observed(Discovery)' /\ obs'[Discovery].path = opts.path
          /\ obs'[Discovery].file = "none" /\ obs'[Discovery].installed = "unknown"
      <3> DEFINE record == DiscoveryRecord(opts.path, "unknown", "none", FALSE)
      <3>1. Retain(Discovery, record)
        BY <1>5 DEF DiscoveryCancelled
      <3>2. Observed(Discovery)' /\ obs'[Discovery] = record
        BY <3>1, Retained DEF Observed
      <3> QED BY <3>2 DEF DiscoveryRecord
    <2> QED BY <1>5, <2>1 DEF DiscoveryCancelled, AssessmentInv, DiscoveryInv
  <1>6. CASE LookupNext
    <2>1. looked \in Seq(FileStates) /\ SearchList' = SearchList /\ SearchList \in Seq(Paths)
      BY <1>6, Searches DEF AssessmentInv, TypeOK, LookupNext, SearchList
    <2>2. PICK found \in {"absent", "denied"} : looked' = Append(looked, found)
      BY <1>6, Zenon DEF LookupNext
    <2>3. Len(looked') <= Len(SearchList) /\ \A i \in DOMAIN looked' : looked'[i] \in {"absent", "denied"}
      BY <1>6, <2>1, <2>2 DEF LookupNext, AssessmentInv, DiscoveryInv, Searched
    <2>4. ~Observed(Discovery)' /\ pc' = "lookup" /\ opts'.runtime = "podman" /\ execution'
      BY <1>6 DEF LookupNext, AssessmentInv, DiscoveryInv, Observed
    <2> QED BY <2>1, <2>3, <2>4 DEF DiscoveryInv
  <1>7. CASE LookupSelect
    <2> DEFINE path == SearchList[Len(looked) + 1]
               found == files[path]
               record == CASE found = "irregular" -> DiscoveryRecord(path, "unknown", "irregular", FALSE)
                           [] found = "noexec" -> DiscoveryRecord(path, "yes", "noexec", ~Uncertain)
                           [] OTHER -> DiscoveryRecord(path, "yes", "exec", ~Uncertain)
    <2>1. Retain(Discovery, record)
      BY <1>7, Zenon DEF LookupSelect
    <2>2. record.installed # "no" /\ record.path = path
      BY DEF DiscoveryRecord
    <2>3. path \in Paths /\ (opts.path # Unset => path = opts.path) /\ path # Unset
      <3>1. /\ SearchList \in Seq(Paths) /\ looked \in Seq(FileStates) /\ Unset \notin Paths
            /\ opts.path # Unset => \A i \in 1..Len(SearchList) : SearchList[i] = opts.path
        BY Searches DEF AssessmentInv, TypeOK
      <3>2. Len(looked) + 1 \in 1..Len(SearchList)
        BY <1>7, <3>1 DEF LookupSelect, AssessmentInv, DiscoveryInv, Searched
      <3> QED BY <3>1, <3>2
    <2>4. Observed(Discovery)' /\ obs'[Discovery] = record
      BY <2>1, Retained, ZenonT(60) DEF Observed
    <2> HIDE DEF record, path
    <2> QED BY <1>7, <2>2, <2>3, <2>4 DEF LookupSelect, AssessmentInv, DiscoveryInv
  <1>8. CASE LookupExhausted
    <2>1. /\ Observed(Discovery)' /\ obs'[Discovery].path = opts.path
          /\ obs'[Discovery].file = "none"
          /\ obs'[Discovery].installed = "no" => ~Uncertain
      <3> DEFINE record == DiscoveryRecord(opts.path, IF Uncertain THEN "unknown" ELSE "no",
                                           "none", ~Uncertain)
      <3>1. Retain(Discovery, record)
        BY <1>8 DEF LookupExhausted
      <3>2. Observed(Discovery)' /\ obs'[Discovery] = record
        BY <3>1, Retained DEF Observed
      <3> QED BY <3>2 DEF DiscoveryRecord
    <2>2. ~Uncertain => looked = [i \in DOMAIN SearchList |-> "absent"]
      <3>1. looked \in Seq(FileStates) /\ SearchList \in Seq(Paths) /\ Len(looked) = Len(SearchList)
        BY <1>8, Searches DEF AssessmentInv, TypeOK, LookupExhausted, Searched
      <3>2. \A i \in DOMAIN looked : looked[i] \in {"absent", "denied"}
        BY <1>8 DEF AssessmentInv, DiscoveryInv, LookupExhausted
      <3>3. DOMAIN looked = DOMAIN SearchList /\ looked = [i \in DOMAIN looked |-> looked[i]]
        BY <3>1
      <3> QED BY <3>2, <3>3 DEF Uncertain
    <2>3. SearchList' = SearchList
      BY <1>8 DEF LookupExhausted, SearchList
    <2> QED BY <1>8, <2>1, <2>2, <2>3 DEF LookupExhausted, AssessmentInv, DiscoveryInv
  <1>9. CASE Setup
    <2>1. Observed(Discovery)' <=> Observed(Discovery)
      BY <1>9 DEF Setup, Observed
    <2> QED BY <1>9, <2>1, SearchFrame DEF Setup
  <1>10. ASSUME NEW p \in Probes, Dispatch(p) PROVE DiscoveryInv'
    <2>1. Observed(Discovery)' <=> Observed(Discovery)
      BY <1>10 DEF Dispatch, Observed
    <2> QED BY <1>10, <2>1, SearchFrame DEF Dispatch
  <1>11. ASSUME NEW p \in Probes, CancelQueued(p) PROVE DiscoveryInv'
    <2>1. Observed(Discovery)' <=> Observed(Discovery)
      BY <1>11 DEF CancelQueued, Observed
    <2> QED BY <1>11, <2>1, SearchFrame DEF CancelQueued
  <1>12. ASSUME NEW p \in Probes, FinishReading(p) PROVE DiscoveryInv'
    <2>1. PICK complete \in BOOLEAN :
            Retain(p, [complete |-> complete, time |-> Collecting, path |-> Unset])
      BY <1>12, Zenon DEF FinishReading
    <2>2. p # Discovery /\ pc' = "collect" /\ UNCHANGED <<opts, execution, looked>>
      BY <1>12, Names DEF FinishReading, Running
    <2> QED BY <2>1, <2>2, SearchRetained
  <1>13. CASE FinishVersion
    <2>1. PICK o : \E outcome \in {"Succeeded", "Failed", "Cancelled"} : Retain(Version, o)
      BY <1>13, VersionEnds
    <2>2. Version # Discovery /\ pc' = "collect" /\ UNCHANGED <<opts, execution, looked>>
      BY <1>13 DEF FinishVersion, Running, Version, Discovery
    <2> QED BY <2>1, <2>2, SearchRetained
  <1>14. CASE FinishInfo
    <2>1. PICK o : \E outcome \in {"Succeeded", "Failed", "Cancelled"} : Retain(Info, o)
      BY <1>14, InfoEnds
    <2>2. Info # Discovery /\ pc' = "collect" /\ UNCHANGED <<opts, execution, looked>>
      BY <1>14 DEF FinishInfo, Running, Info, Discovery
    <2> QED BY <2>1, <2>2, SearchRetained
  <1>15. CASE Collected
    <2>1. Observed(Discovery)' <=> Observed(Discovery)
      BY <1>15 DEF Collected, Observed
    <2> QED BY <1>15, <2>1, SearchFrame DEF Collected
  <1>16. CASE SelectRuntime
    <2>1. Observed(Discovery)' <=> Observed(Discovery)
      BY <1>16 DEF SelectRuntime, Observed
    <2> QED BY <1>16, <2>1, SearchFrame DEF SelectRuntime
  <1>17. CASE CollectHelpers
    <2>1. CASE obs' = obs
      BY <1>17, <2>1, SearchFrame DEF CollectHelpers, Observed
    <2>2. CASE obs' # obs
      <3>1. PICK o : Retain(Helper, o)
        BY <1>17, <2>2, Zenon DEF CollectHelpers
      <3> QED BY <1>17, <3>1, SearchRetained DEF CollectHelpers, Helper, Discovery
    <2> QED BY <2>1, <2>2
  <1>18. CASE CollectConfiguration
    <2>1. CASE obs' = obs
      BY <1>18, <2>1, SearchFrame DEF CollectConfiguration, Observed
    <2>2. CASE obs' # obs
      <3>1. PICK o : Retain(Configuration, o)
        BY <1>18, <2>2, Zenon DEF CollectConfiguration
      <3> QED BY <1>18, <3>1, SearchRetained DEF CollectConfiguration, Configuration, Discovery
    <2> QED BY <2>1, <2>2
  <1>19. CASE Project
    <2>1. Observed(Discovery)' <=> Observed(Discovery)
      BY <1>19 DEF Project, Observed
    <2> QED BY <1>19, <2>1, SearchFrame DEF Project
  <1>20. CASE CloseReader
    <2>1. Observed(Discovery)' <=> Observed(Discovery)
      BY <1>20 DEF CloseReader, Failure, Observed
    <2> QED BY <1>20, <2>1, SearchFrame DEF CloseReader, Failure
  <1>21. CASE WriteReport
    <2>1. Observed(Discovery)' <=> Observed(Discovery)
      BY <1>21 DEF WriteReport, Failure, Observed
    <2> QED BY <1>21, <2>1, SearchFrame DEF WriteReport, Failure
  <1>22. CASE Cancel
    <2>1. Observed(Discovery)' <=> Observed(Discovery)
      BY <1>22 DEF Cancel, Observed
    <2> QED BY <1>22, <2>1, SearchFrame DEF Cancel
  <1>23. ASSUME NEW path \in Paths, Replace(path) PROVE DiscoveryInv'
    <2>1. Observed(Discovery)' <=> Observed(Discovery)
      BY <1>23 DEF Replace, Observed
    <2> QED BY <1>23, <2>1, SearchFrame DEF Replace
  <1> QED
    BY <1>1, <1>2, <1>3, <1>4, <1>5, <1>6, <1>7, <1>8, <1>9, <1>10, <1>11, <1>12,
       <1>13, <1>14, <1>15, <1>16, <1>17, <1>18, <1>19, <1>20, <1>21, <1>22, <1>23 DEF Next, Invocation

-----------------------------------------------------------------------------
(* The commands.                                                           *)

(* A step that neither prepares commands nor changes a status.             *)
LEMMA CommandFrame ==
    ASSUME AssessmentInv, UNCHANGED <<opts, command, planned, status>>,
           \/ pc \in Starting \cup {"identity", "lookup", "setup"}
           \/ pc' = pc
           \/ /\ pc' \notin Starting \cup {"identity", "lookup", "setup"}
              /\ \A p \in Probes : status[p] # "running",
           Observed(Discovery) => Observed(Discovery)' /\ obs'[Discovery] = obs[Discovery]
    PROVE  CommandInv'
  BY DEF AssessmentInv, CommandInv

(* A step of a probe that retains another observation than discovery's.    *)
LEMMA CommandRetained ==
    ASSUME AssessmentInv, NEW p \in Probes, NEW outcome \in Final, End(p, outcome), p \in planned,
           UNCHANGED <<opts, command, planned>>, pc' = "collect",
           obs' = obs \/ \E o : Retain(p, o)
    PROVE  CommandInv'
  <1>1. Observed(Discovery) => Observed(Discovery)' /\ obs'[Discovery] = obs[Discovery]
    BY Retained, Names DEF Observed
  <1>2. \A q \in Probes : status'[q] # "none" => q \in planned
    BY Ended DEF AssessmentInv, CommandInv
  <1> QED BY <1>1, <1>2 DEF AssessmentInv, CommandInv, Starting, Delivering

(* Every action keeps what is known of the commands.                       *)
LEMMA CommandStep ==
    ASSUME AssessmentInv, Next
    PROVE  CommandInv'
  <1> USE DEF world, live, data, result
  <1>1. CASE CheckOptions
    <2>1. Observed(Discovery) => Observed(Discovery)' /\ obs'[Discovery] = obs[Discovery]
      BY <1>1 DEF CheckOptions, Observed
    <2> QED BY <1>1, <2>1, CommandFrame DEF CheckOptions, Starting, Failure
  <1>2. CASE ReadLiveRequirement
    <2>1. Observed(Discovery) => Observed(Discovery)' /\ obs'[Discovery] = obs[Discovery]
      BY <1>2 DEF ReadLiveRequirement, Observed
    <2> QED BY <1>2, <2>1, CommandFrame DEF ReadLiveRequirement, Starting, Failure
  <1>3. CASE OpenReader
    <2>1. Observed(Discovery) => Observed(Discovery)' /\ obs'[Discovery] = obs[Discovery]
      BY <1>3 DEF OpenReader, Observed
    <2> QED BY <1>3, <2>1, CommandFrame DEF OpenReader, Starting, Failure
  <1>4. CASE ObserveCurrent
    <2>1. \A p \in Probes : status'[p] = "none"
      BY <1>4 DEF ObserveCurrent, AssessmentInv, CommandInv
    <2>2. command' = Unset /\ pc' \in {"lookup", "collect"}
      BY <1>4 DEF ObserveCurrent, AssessmentInv, CommandInv
    <2>3. Version \notin planned' /\ Info \notin planned'
      BY <1>4, ProbesAssumption DEF ObserveCurrent, PlannedProbes
    <2> QED BY <2>1, <2>2, <2>3 DEF CommandInv, Delivering
  <1>5. CASE DiscoveryCancelled
    <2>1. ~Observed(Discovery)
      BY <1>5 DEF DiscoveryCancelled, AssessmentInv, DiscoveryInv
    <2> QED BY <1>5, <2>1, CommandFrame DEF DiscoveryCancelled
  <1>6. CASE LookupNext
    <2>1. Observed(Discovery) => Observed(Discovery)' /\ obs'[Discovery] = obs[Discovery]
      BY <1>6 DEF LookupNext, Observed
    <2> QED BY <1>6, <2>1, CommandFrame DEF LookupNext, Starting
  <1>7. CASE LookupSelect
    <2>1. ~Observed(Discovery)
      BY <1>7 DEF LookupSelect, AssessmentInv, DiscoveryInv
    <2> QED BY <1>7, <2>1, CommandFrame DEF LookupSelect
  <1>8. CASE LookupExhausted
    <2>1. ~Observed(Discovery)
      BY <1>8 DEF LookupExhausted, AssessmentInv, DiscoveryInv
    <2> QED BY <1>8, <2>1, CommandFrame DEF LookupExhausted
  <1>9. CASE Setup
    <2>0. /\ \A p \in Probes : status'[p] = "none"
          /\ command = Unset /\ pc' = "collect" /\ obs' = obs /\ opts' = opts
      BY <1>9 DEF Setup, AssessmentInv, CommandInv
    <2>1. CASE UNCHANGED <<command, planned>>
      BY <2>0, <2>1 DEF AssessmentInv, CommandInv, Starting, Delivering, Observed
    <2>2. CASE MayInspect /\ PrepareInspection /\ command' = obs[Discovery].path
      <3>1. opts.active /\ obs[Discovery].file = "exec" /\ command' # Unset
        BY <2>2 DEF MayInspect, PrepareInspection
      <3>2. Observed(Discovery)'
        BY <1>9, <2>0 DEF Setup, AssessmentInv, DiscoveryInv, Observed
      <3> QED BY <2>0, <2>2, <3>1, <3>2 DEF CommandInv, Starting, Delivering
    <2> QED BY <1>9, <2>1, <2>2 DEF Setup
  <1>10. ASSUME NEW p \in Probes, Dispatch(p) PROVE CommandInv'
    <2>1. \A q \in Probes : status'[q] # "none" => q \in planned
      BY <1>10 DEF Dispatch, Ready, AssessmentInv, CommandInv, TypeOK
    <2>2. pc' = "collect" /\ UNCHANGED <<opts, command, planned, obs>>
      BY <1>10 DEF Dispatch, Ready
    <2> QED BY <2>1, <2>2 DEF AssessmentInv, CommandInv, Starting, Delivering, Observed
  <1>11. ASSUME NEW p \in Probes, CancelQueued(p) PROVE CommandInv'
    <2>1. "Cancelled" \in Final
      BY DEF Final
    <2>2. End(p, "Cancelled") /\ p \in planned /\ UNCHANGED <<opts, command, planned, obs>> /\ pc' = "collect"
      BY <1>11 DEF CancelQueued, Ready
    <2> QED BY <2>1, <2>2, CommandRetained
  <1>12. ASSUME NEW p \in Probes, FinishReading(p) PROVE CommandInv'
    <2>1. PICK complete \in BOOLEAN, outcome \in {"Succeeded", "Failed", "Cancelled"} :
            /\ Retain(p, [complete |-> complete, time |-> Collecting, path |-> Unset])
            /\ End(p, outcome)
      BY <1>12, Zenon DEF FinishReading
    <2>2. outcome \in Final
      BY DEF Final
    <2>3. p \in planned /\ UNCHANGED <<opts, command, planned>> /\ pc' = "collect"
      BY <1>12 DEF FinishReading, Running, AssessmentInv, CommandInv
    <2> QED BY <2>1, <2>2, <2>3, CommandRetained
  <1>13. CASE FinishVersion
    <2>1. PICK o : \E outcome \in {"Succeeded", "Failed", "Cancelled"} : Retain(Version, o) /\ End(Version, outcome)
      BY <1>13, VersionEnds
    <2>2. {"Succeeded", "Failed", "Cancelled"} \subseteq Final
      BY DEF Final
    <2>3. Version \in planned /\ UNCHANGED <<opts, command, planned>> /\ pc' = "collect"
      BY <1>13, Names DEF FinishVersion, Running, AssessmentInv, CommandInv
    <2> QED BY <2>1, <2>2, <2>3, CommandRetained, Names
  <1>14. CASE FinishInfo
    <2>1. PICK o : \E outcome \in {"Succeeded", "Failed", "Cancelled"} : Retain(Info, o) /\ End(Info, outcome)
      BY <1>14, InfoEnds
    <2>2. {"Succeeded", "Failed", "Cancelled"} \subseteq Final
      BY DEF Final
    <2>3. Info \in planned /\ UNCHANGED <<opts, command, planned>> /\ pc' = "collect"
      BY <1>14, Names DEF FinishInfo, Running, AssessmentInv, CommandInv
    <2> QED BY <2>1, <2>2, <2>3, CommandRetained, Names
  <1>15. CASE Collected
    <2>1. \A p \in Probes : status[p] # "running"
      BY <1>15 DEF Collected, AssessmentInv, CommandInv, Final
    <2> QED BY <1>15, <2>1, CommandFrame DEF Collected, Starting, Observed
  <1>16. CASE SelectRuntime
    <2>1. Observed(Discovery) => Observed(Discovery)' /\ obs'[Discovery] = obs[Discovery]
      BY <1>16 DEF SelectRuntime, Observed
    <2>2. \A p \in Probes : status[p] # "running"
      BY <1>16 DEF SelectRuntime, AssessmentInv, CommandInv, Delivering
    <2> QED BY <1>16, <2>1, <2>2, CommandFrame DEF SelectRuntime, Starting
  <1>17. CASE CollectHelpers
    <2>1. obs' = obs \/ \E o : Retain(Helper, o)
      BY <1>17, Zenon DEF CollectHelpers
    <2>2. Observed(Discovery) => Observed(Discovery)' /\ obs'[Discovery] = obs[Discovery]
      BY <2>1, Retained DEF Observed, Helper, Discovery
    <2>3. \A p \in Probes : status[p] # "running"
      BY <1>17 DEF CollectHelpers, AssessmentInv, CommandInv
    <2> QED BY <1>17, <2>2, <2>3, CommandFrame DEF CollectHelpers, Starting
  <1>18. CASE CollectConfiguration
    <2>1. obs' = obs \/ \E o : Retain(Configuration, o)
      BY <1>18, Zenon DEF CollectConfiguration
    <2>2. Observed(Discovery) => Observed(Discovery)' /\ obs'[Discovery] = obs[Discovery]
      BY <2>1, Retained DEF Observed, Configuration, Discovery
    <2>3. \A p \in Probes : status[p] # "running"
      BY <1>18 DEF CollectConfiguration, AssessmentInv, CommandInv
    <2> QED BY <1>18, <2>2, <2>3, CommandFrame DEF CollectConfiguration, Starting
  <1>19. CASE Project
    <2>1. Observed(Discovery) => Observed(Discovery)' /\ obs'[Discovery] = obs[Discovery]
      BY <1>19 DEF Project, Observed
    <2>2. \A p \in Probes : status[p] # "running"
      BY <1>19 DEF Project, AssessmentInv, CommandInv, Delivering
    <2> QED BY <1>19, <2>1, <2>2, CommandFrame DEF Project, Starting
  <1>20. CASE CloseReader
    <2>1. Observed(Discovery) => Observed(Discovery)' /\ obs'[Discovery] = obs[Discovery]
      BY <1>20 DEF CloseReader, Observed
    <2>2. \A p \in Probes : status[p] # "running"
      BY <1>20 DEF CloseReader, AssessmentInv, CommandInv, Delivering
    <2> QED BY <1>20, <2>1, <2>2, CommandFrame DEF CloseReader, Starting, Failure
  <1>21. CASE WriteReport
    <2>1. Observed(Discovery) => Observed(Discovery)' /\ obs'[Discovery] = obs[Discovery]
      BY <1>21 DEF WriteReport, Observed
    <2>2. \A p \in Probes : status[p] # "running"
      BY <1>21 DEF WriteReport, AssessmentInv, CommandInv, Delivering
    <2> QED BY <1>21, <2>1, <2>2, CommandFrame DEF WriteReport, Starting, Failure
  <1>22. CASE Cancel
    <2>1. Observed(Discovery) => Observed(Discovery)' /\ obs'[Discovery] = obs[Discovery]
      BY <1>22 DEF Cancel, Observed
    <2> QED BY <1>22, <2>1, CommandFrame DEF Cancel, Starting
  <1>23. ASSUME NEW path \in Paths, Replace(path) PROVE CommandInv'
    <2>1. Observed(Discovery) => Observed(Discovery)' /\ obs'[Discovery] = obs[Discovery]
      BY <1>23 DEF Replace, Observed
    <2> QED BY <1>23, <2>1, CommandFrame DEF Replace, Starting
  <1> QED
    BY <1>1, <1>2, <1>3, <1>4, <1>5, <1>6, <1>7, <1>8, <1>9, <1>10, <1>11, <1>12,
       <1>13, <1>14, <1>15, <1>16, <1>17, <1>18, <1>19, <1>20, <1>21, <1>22, <1>23 DEF Next, Invocation

-----------------------------------------------------------------------------
(* The launches.                                                           *)

(* A step that launches nothing and leaves the two commands' probes alone. *)
LEMMA LaunchFrame ==
    ASSUME AssessmentInv, UNCHANGED <<ran, command>>, planned \subseteq planned',
           status'[Version] = status[Version], status'[Info] = status[Info],
           \A i \in {Version, Info} :
             (Observed(i)' <=> Observed(i)) /\ (Observed(i) => obs'[i] = obs[i])
    PROVE  LaunchInv'
  BY Names DEF AssessmentInv, LaunchInv, ObservationInv

(* The same for a step that retains an observation of something else.      *)
LEMMA LaunchRetained ==
    ASSUME AssessmentInv, UNCHANGED <<ran, command, planned>>,
           status'[Version] = status[Version], status'[Info] = status[Info],
           NEW id, NEW o, Retain(id, o), id \notin {Version, Info}
    PROVE  LaunchInv'
  <1>1. \A i \in {Version, Info} :
          (Observed(i)' <=> Observed(i)) /\ (Observed(i) => obs'[i] = obs[i])
    BY Retained DEF Observed
  <1> QED BY <1>1, LaunchFrame

(* Every action keeps what is known of the launches.                       *)
LEMMA LaunchStep ==
    ASSUME AssessmentInv, Next
    PROVE  LaunchInv'
  <1> USE DEF world, live, data, result
  <1>1. CASE CheckOptions
    <2>1. \A i \in {Version, Info} :
            (Observed(i)' <=> Observed(i)) /\ (Observed(i) => obs'[i] = obs[i])
      BY <1>1 DEF CheckOptions, Observed
    <2> QED BY <1>1, <2>1, LaunchFrame DEF CheckOptions
  <1>2. CASE ReadLiveRequirement
    <2>1. \A i \in {Version, Info} :
            (Observed(i)' <=> Observed(i)) /\ (Observed(i) => obs'[i] = obs[i])
      BY <1>2 DEF ReadLiveRequirement, Observed
    <2> QED BY <1>2, <2>1, LaunchFrame DEF ReadLiveRequirement
  <1>3. CASE OpenReader
    <2>1. \A i \in {Version, Info} :
            (Observed(i)' <=> Observed(i)) /\ (Observed(i) => obs'[i] = obs[i])
      BY <1>3 DEF OpenReader, Observed
    <2> QED BY <1>3, <2>1, LaunchFrame DEF OpenReader
  <1>4. CASE ObserveCurrent
    <2>1. ran = <<>> /\ DOMAIN obs = {}
      BY <1>4 DEF ObserveCurrent, AssessmentInv, StageInv, LaunchInv, NothingObserved, Observed, TypeOK
    <2>2. PICK o : Retain(Identity, o)
      BY <1>4, Zenon DEF ObserveCurrent
    <2>3. ~Observed(Version)' /\ ~Observed(Info)'
      <3>1. DOMAIN obs' = {Identity}
        BY <2>1, <2>2, Retained
      <3>2. Version # Identity /\ Info # Identity
        BY DEF Version, Info, Identity
      <3> QED BY <3>1, <3>2 DEF Observed
    <2>4. status'[Version] = "none" /\ status'[Info] = "none" /\ ran' = <<>>
      BY <1>4, <2>1, Names DEF ObserveCurrent, AssessmentInv, CommandInv
    <2> QED BY <2>3, <2>4 DEF LaunchInv
  <1>5. CASE DiscoveryCancelled
    <2>1. PICK o : Retain(Discovery, o)
      BY <1>5, Zenon DEF DiscoveryCancelled
    <2>2. Discovery \notin {Version, Info}
      BY DEF Discovery, Version, Info
    <2> QED BY <1>5, <2>1, <2>2, LaunchRetained DEF DiscoveryCancelled
  <1>6. CASE LookupNext
    <2>1. \A i \in {Version, Info} :
            (Observed(i)' <=> Observed(i)) /\ (Observed(i) => obs'[i] = obs[i])
      BY <1>6 DEF LookupNext, Observed
    <2> QED BY <1>6, <2>1, LaunchFrame DEF LookupNext
  <1>7. CASE LookupSelect
    <2>1. PICK o : Retain(Discovery, o)
      BY <1>7, Zenon DEF LookupSelect
    <2>2. Discovery \notin {Version, Info}
      BY DEF Discovery, Version, Info
    <2> QED BY <1>7, <2>1, <2>2, LaunchRetained DEF LookupSelect
  <1>8. CASE LookupExhausted
    <2>1. PICK o : Retain(Discovery, o)
      BY <1>8, Zenon DEF LookupExhausted
    <2>2. Discovery \notin {Version, Info}
      BY DEF Discovery, Version, Info
    <2> QED BY <1>8, <2>1, <2>2, LaunchRetained DEF LookupExhausted
  <1>9. CASE Setup
    <2>1. ran = <<>> /\ ~Observed(Version) /\ ~Observed(Info)
      <3>1. status[Version] = "none"
        BY <1>9, Names DEF Setup, AssessmentInv, CommandInv
      <3> QED BY <3>1 DEF AssessmentInv, LaunchInv, TypeOK
    <2>2. status'[Version] = "none" /\ status'[Info] = "none" /\ ran' = <<>>
      BY <1>9, <2>1, Names DEF Setup, AssessmentInv, CommandInv
    <2> QED BY <1>9, <2>1, <2>2 DEF LaunchInv, Setup, Observed
  <1>10. ASSUME NEW p \in Probes, Dispatch(p) PROVE LaunchInv'
    <2>1. p \notin {Version, Info} => status'[Version] = status[Version] /\ status'[Info] = status[Info]
      BY <1>10 DEF Dispatch, AssessmentInv, TypeOK
    <2>2. p = Version => status[Version] = "none" /\ status'[Version] = "running" /\ status'[Info] = status[Info]
      BY <1>10, Names DEF Dispatch, Ready, AssessmentInv, TypeOK, Version, Info
    <2>3. p = Info => /\ status[Info] = "none" /\ status'[Info] = "running"
                      /\ status'[Version] = "Succeeded" /\ status[Version] = "Succeeded"
      BY <1>10, Names DEF Dispatch, Ready, Dependencies, AssessmentInv, TypeOK, Version, Info
    <2>4. UNCHANGED <<ran, command, planned, obs>>
      BY <1>10 DEF Dispatch
    <2>5. \A i \in {Version, Info} : (Observed(i)' <=> Observed(i)) /\ obs'[i] = obs[i]
      BY <2>4 DEF Observed
    <2>6. CASE p \notin {Version, Info}
      BY <2>1, <2>4, <2>5, <2>6, LaunchFrame
    <2>7. CASE p = Version
      BY <2>2, <2>4, <2>5, <2>7 DEF AssessmentInv, LaunchInv
    <2>8. CASE p = Info
      BY <2>3, <2>4, <2>5, <2>8 DEF AssessmentInv, LaunchInv
    <2> QED BY <2>6, <2>7, <2>8
  <1>11. ASSUME NEW p \in Probes, CancelQueued(p) PROVE LaunchInv'
    <2>0. "Cancelled" \in Final /\ Version # Info
      BY DEF Final, Version, Info
    <2>1. /\ p \notin {Version, Info} => status'[Version] = status[Version] /\ status'[Info] = status[Info]
          /\ status'[p] = "Cancelled" /\ status[p] = "none"
          /\ p = Info => status'[Version] = status[Version] /\ status[Version] = "Succeeded"
          /\ p = Version => status'[Info] = status[Info] \/ (status'[Info] = "Skipped" /\ status[Info] = "none")
      BY <1>11, <2>0, Ended, Names DEF CancelQueued, Ready, Dependencies, AssessmentInv
    <2>2. UNCHANGED <<ran, command, planned, obs>>
      BY <1>11 DEF CancelQueued
    <2>3. \A i \in {Version, Info} : (Observed(i)' <=> Observed(i)) /\ obs'[i] = obs[i]
      BY <2>2 DEF Observed
    <2>4. CASE p \notin {Version, Info}
      BY <2>1, <2>2, <2>3, <2>4, LaunchFrame
    <2>5. CASE p = Version
      BY <2>1, <2>2, <2>3, <2>5 DEF AssessmentInv, LaunchInv
    <2>6. CASE p = Info
      BY <2>1, <2>2, <2>3, <2>6 DEF AssessmentInv, LaunchInv
    <2> QED BY <2>4, <2>5, <2>6
  <1>12. ASSUME NEW p \in Probes, FinishReading(p) PROVE LaunchInv'
    <2>1. PICK complete \in BOOLEAN, outcome \in {"Succeeded", "Failed", "Cancelled"} :
            /\ Retain(p, [complete |-> complete, time |-> Collecting, path |-> Unset])
            /\ End(p, outcome)
      BY <1>12, Zenon DEF FinishReading
    <2>2. outcome \in Final
      BY DEF Final
    <2>3. p \notin {Version, Info} /\ UNCHANGED <<ran, command, planned>>
      BY <1>12 DEF FinishReading
    <2>4. status'[Version] = status[Version] /\ status'[Info] = status[Info]
      BY <2>1, <2>2, <2>3, Ended, Names DEF AssessmentInv
    <2> QED BY <2>1, <2>3, <2>4, LaunchRetained
  <1>13. CASE FinishVersion
    <2>1. PICK o, outcome :
            /\ outcome \in {"Succeeded", "Failed", "Cancelled"}
            /\ Retain(Version, o) /\ End(Version, outcome)
            /\ outcome = "Succeeded" => o.complete /\ o.runnable = "yes" /\ files[command] \in Builds
            /\ o.version = (IF outcome = "Succeeded" THEN files[command] ELSE "unknown")
      BY <1>13, VersionEnds
    <2>2. outcome \in Final /\ Version # Info
      BY <2>1 DEF Final, Version, Info
    <2>3. ran = <<>> /\ Version \in planned /\ UNCHANGED <<command, planned>> /\ status[Info] # "running"
      BY <1>13, Names DEF FinishVersion, Running, AssessmentInv, LaunchInv, CommandInv, TypeOK
    <2>4. ran' = <<[probe |-> Version, path |-> command, build |-> files[command]]>>
      BY <1>13, <2>3 DEF FinishVersion, Launch
    <2>5. Len(ran') = 1 /\ DOMAIN ran' = {1} /\ ran'[1].probe = Version /\ ran'[1].path = command
          /\ ran'[1].build = files[command]
      BY <2>4
    <2>6. Observed(Version)' /\ obs'[Version] = o /\ ~Observed(Info)'
      <3>1. DOMAIN obs' = DOMAIN obs \cup {Version} /\ obs'[Version] = o
        BY <2>1, Retained
      <3>2. ~Observed(Info)
        BY <2>3 DEF AssessmentInv, LaunchInv
      <3> QED BY <2>2, <3>1, <3>2 DEF Observed
    <2>7. status'[Version] = outcome /\ status'[Info] # "running"
      BY <2>1, <2>2, <2>3, Ended, Names DEF AssessmentInv
    <2> QED BY <2>1, <2>3, <2>5, <2>6, <2>7 DEF LaunchInv
  <1>14. CASE FinishInfo
    <2>1. PICK o, outcome :
            /\ outcome \in {"Succeeded", "Failed", "Cancelled"}
            /\ Retain(Info, o) /\ End(Info, outcome)
            /\ outcome = "Succeeded" => o.available = "yes" /\ o.complete /\ files[command] \in Builds
            /\ o.full => o.version # "unknown"
            /\ o.version # "unknown" => outcome = "Succeeded" /\ o.version = files[command]
      BY <1>14, InfoEnds
    <2>2. outcome \in Final /\ Version # Info
      BY <2>1 DEF Final, Version, Info
    <2>3. /\ Len(ran) = 1 /\ Version \in planned /\ UNCHANGED <<command, planned>>
          /\ status[Version] = "Succeeded" /\ Observed(Version)
          /\ ran[1].probe = Version /\ ran[1].path = command
      <3>1. status[Info] = "running" /\ UNCHANGED <<command, planned>> /\ Len(ran) \in Nat
        BY <1>14 DEF FinishInfo, Running, AssessmentInv, TypeOK
      <3>2. status[Version] = "Succeeded" /\ Len(ran) # 2
        BY <3>1 DEF AssessmentInv, LaunchInv
      <3>3. Observed(Version) /\ Version \in planned
        BY <3>2, Names DEF AssessmentInv, ObservationInv, CommandInv
      <3>4. Len(ran) = 1
        <4>1. Len(ran) <= 2 /\ Len(ran) >= 1
          BY <3>3 DEF AssessmentInv, LaunchInv
        <4>2. \A n \in Nat : n <= 2 /\ n >= 1 /\ n # 2 => n = 1
          OBVIOUS
        <4> QED BY <3>1, <3>2, <4>1, <4>2, Zenon
      <3>5. ran[1].probe = Version /\ ran[1].path = command
        BY <3>4 DEF AssessmentInv, LaunchInv, TypeOK
      <3> QED BY <3>1, <3>2, <3>3, <3>4, <3>5
    <2>4. ran' = Append(ran, [probe |-> Info, path |-> command, build |-> files[command]])
      BY <1>14 DEF FinishInfo, Launch
    <2>5. /\ Len(ran') = 2 /\ DOMAIN ran' = {1, 2} /\ ran'[1] = ran[1]
          /\ ran'[2].probe = Info /\ ran'[2].path = command /\ ran'[2].build = files[command]
      <3>1. ran \in Seq([probe : {Version, Info}, path : Paths, build : FileStates])
        BY DEF AssessmentInv, TypeOK
      <3> DEFINE launch == [probe |-> Info, path |-> command, build |-> files[command]]
      <3>2. launch.probe = Info /\ launch.path = command /\ launch.build = files[command]
        OBVIOUS
      <3>3. ran' = Append(ran, launch)
        BY <2>4
      <3> HIDE DEF launch
      <3>4. Len(ran') = 2 /\ DOMAIN ran' = {1, 2} /\ ran'[1] = ran[1] /\ ran'[2] = launch
        BY <2>3, <3>1, <3>3, SecondAppended
      <3> QED BY <3>2, <3>4
    <2>6. Observed(Info)' /\ obs'[Info] = o /\ Observed(Version)' /\ obs'[Version] = obs[Version]
      BY <2>1, <2>2, <2>3, Retained, ZenonT(60) DEF Observed
    <2>7. status'[Info] = outcome /\ status'[Version] = "Succeeded"
      BY <2>1, <2>2, <2>3, Ended, Names DEF AssessmentInv
    <2> QED BY <2>1, <2>3, <2>5, <2>6, <2>7 DEF AssessmentInv, LaunchInv
  <1>15. CASE Collected
    <2>1. \A i \in {Version, Info} :
            (Observed(i)' <=> Observed(i)) /\ (Observed(i) => obs'[i] = obs[i])
      BY <1>15 DEF Collected, Observed
    <2> QED BY <1>15, <2>1, LaunchFrame DEF Collected
  <1>16. CASE SelectRuntime
    <2>1. \A i \in {Version, Info} :
            (Observed(i)' <=> Observed(i)) /\ (Observed(i) => obs'[i] = obs[i])
      BY <1>16 DEF SelectRuntime, Observed
    <2> QED BY <1>16, <2>1, LaunchFrame DEF SelectRuntime
  <1>17. CASE CollectHelpers
    <2>1. CASE obs' = obs
      BY <1>17, <2>1, LaunchFrame DEF CollectHelpers, Observed
    <2>2. CASE \E o : Retain(Helper, o)
      <3>1. Helper \notin {Version, Info}
        BY DEF Helper, Version, Info
      <3> QED BY <1>17, <2>2, <3>1, LaunchRetained DEF CollectHelpers
    <2> QED BY <1>17, <2>1, <2>2, Zenon DEF CollectHelpers
  <1>18. CASE CollectConfiguration
    <2>1. CASE obs' = obs
      BY <1>18, <2>1, LaunchFrame DEF CollectConfiguration, Observed
    <2>2. CASE \E o : Retain(Configuration, o)
      <3>1. Configuration \notin {Version, Info}
        BY DEF Configuration, Version, Info
      <3> QED BY <1>18, <2>2, <3>1, LaunchRetained DEF CollectConfiguration
    <2> QED BY <1>18, <2>1, <2>2, Zenon DEF CollectConfiguration
  <1>19. CASE Project
    <2>1. \A i \in {Version, Info} :
            (Observed(i)' <=> Observed(i)) /\ (Observed(i) => obs'[i] = obs[i])
      BY <1>19 DEF Project, Observed
    <2> QED BY <1>19, <2>1, LaunchFrame DEF Project
  <1>20. CASE CloseReader
    <2>1. \A i \in {Version, Info} :
            (Observed(i)' <=> Observed(i)) /\ (Observed(i) => obs'[i] = obs[i])
      BY <1>20 DEF CloseReader, Observed
    <2> QED BY <1>20, <2>1, LaunchFrame DEF CloseReader
  <1>21. CASE WriteReport
    <2>1. \A i \in {Version, Info} :
            (Observed(i)' <=> Observed(i)) /\ (Observed(i) => obs'[i] = obs[i])
      BY <1>21 DEF WriteReport, Observed
    <2> QED BY <1>21, <2>1, LaunchFrame DEF WriteReport
  <1>22. CASE Cancel
    <2>1. \A i \in {Version, Info} :
            (Observed(i)' <=> Observed(i)) /\ (Observed(i) => obs'[i] = obs[i])
      BY <1>22 DEF Cancel, Observed
    <2> QED BY <1>22, <2>1, LaunchFrame DEF Cancel
  <1>23. ASSUME NEW path \in Paths, Replace(path) PROVE LaunchInv'
    <2>1. \A i \in {Version, Info} :
            (Observed(i)' <=> Observed(i)) /\ (Observed(i) => obs'[i] = obs[i])
      BY <1>23 DEF Replace, Observed
    <2> QED BY <1>23, <2>1, LaunchFrame DEF Replace
  <1> QED
    BY <1>1, <1>2, <1>3, <1>4, <1>5, <1>6, <1>7, <1>8, <1>9, <1>10, <1>11, <1>12,
       <1>13, <1>14, <1>15, <1>16, <1>17, <1>18, <1>19, <1>20, <1>21, <1>22, <1>23 DEF Next, Invocation

-----------------------------------------------------------------------------
(* The report.                                                             *)

(* A report is a function of the options, the observations and the fate of *)
(* the planned probes.                                                     *)
LEMMA ReportIsStable ==
    ASSUME UNCHANGED <<opts, obs, planned, status>>
    PROVE  ProjectReport(Projecting)' = ProjectReport(Projecting)
  BY DEF ProjectReport, HostCompleteness, ContextCompleteness, RuntimeCompleteness, HostExit,
     Completeness, Unfinished, VersionsAgree, Observed, ExitCode, Decision, Required, Predicate,
     Resolve, PodmanCLIEvidence, PodmanInfoEvidence, Evidence

(* What validateRuntimeSelection finds in a live run.                      *)
LEMMA NamesOneExecutable ==
    ASSUME AssessmentInv
    PROVE  SelectionAgrees
  <1> DEFINE named == {obs[i].path : i \in DOMAIN obs} \ {Unset}
  <1>1. \A path \in named : path = obs[Discovery].path
    BY DEF AssessmentInv, ObservationInv
  <1>2. named = {} \/ named = {obs[Discovery].path}
    BY <1>1
  <1>3. Cardinality(named) <= 1
    <2> HIDE DEF named
    <2>1. Cardinality({}) = 0 /\ Cardinality({obs[Discovery].path}) = 1
      BY FS_EmptySet, FS_Singleton
    <2> QED BY <1>2, <2>1
  <1> QED BY <1>3 DEF SelectionAgrees

(* Every action keeps what is known of the report.                         *)
LEMMA ReportStep ==
    ASSUME AssessmentInv, Next
    PROVE  ReportInv'
  <1> USE DEF world, live, data, result
  <1>1. CASE CheckOptions
    <2>1. report' = NoReport /\ pc' \notin {"close", "write"} /\ failed' = failed
      BY <1>1 DEF CheckOptions, AssessmentInv, ReportInv, Delivering, Failure
    <2> QED BY <2>1 DEF AssessmentInv, ReportInv
  <1>2. CASE ReadLiveRequirement
    <2>1. report' = NoReport /\ pc' \notin {"close", "write"} /\ failed' = failed
      BY <1>2 DEF ReadLiveRequirement, AssessmentInv, ReportInv, Delivering, Failure
    <2> QED BY <2>1 DEF AssessmentInv, ReportInv
  <1>3. CASE OpenReader
    <2>1. report' = NoReport /\ pc' \notin {"close", "write"} /\ failed' = failed
      BY <1>3 DEF OpenReader, AssessmentInv, ReportInv, Delivering, Failure
    <2> QED BY <2>1 DEF AssessmentInv, ReportInv
  <1>4. CASE ObserveCurrent
    <2>1. report' = NoReport /\ pc' \notin {"close", "write"} /\ failed' = failed
      BY <1>4 DEF ObserveCurrent, AssessmentInv, ReportInv, Delivering
    <2> QED BY <2>1 DEF AssessmentInv, ReportInv
  <1>5. CASE DiscoveryCancelled
    <2>1. report' = NoReport /\ pc' \notin {"close", "write"} /\ failed' = failed
      BY <1>5 DEF DiscoveryCancelled, AssessmentInv, ReportInv, Delivering
    <2> QED BY <2>1 DEF AssessmentInv, ReportInv
  <1>6. CASE LookupNext
    <2>1. report' = NoReport /\ pc' \notin {"close", "write"} /\ failed' = failed
      BY <1>6 DEF LookupNext, AssessmentInv, ReportInv, Delivering
    <2> QED BY <2>1 DEF AssessmentInv, ReportInv
  <1>7. CASE LookupSelect
    <2>1. report' = NoReport /\ pc' \notin {"close", "write"} /\ failed' = failed
      BY <1>7 DEF LookupSelect, AssessmentInv, ReportInv, Delivering
    <2> QED BY <2>1 DEF AssessmentInv, ReportInv
  <1>8. CASE LookupExhausted
    <2>1. report' = NoReport /\ pc' \notin {"close", "write"} /\ failed' = failed
      BY <1>8 DEF LookupExhausted, AssessmentInv, ReportInv, Delivering
    <2> QED BY <2>1 DEF AssessmentInv, ReportInv
  <1>9. CASE Setup
    <2>1. report' = NoReport /\ pc' \notin {"close", "write"} /\ failed' = failed
      BY <1>9 DEF Setup, AssessmentInv, ReportInv, Delivering
    <2> QED BY <2>1 DEF AssessmentInv, ReportInv
  <1>10. ASSUME NEW p \in Probes, Dispatch(p) PROVE ReportInv'
    <2>1. report' = NoReport /\ pc' \notin {"close", "write"} /\ failed' = failed
      BY <1>10 DEF Dispatch, AssessmentInv, ReportInv, Delivering, Ready, Running
    <2> QED BY <2>1 DEF AssessmentInv, ReportInv
  <1>11. ASSUME NEW p \in Probes, CancelQueued(p) PROVE ReportInv'
    <2>1. report' = NoReport /\ pc' \notin {"close", "write"} /\ failed' = failed
      BY <1>11 DEF CancelQueued, AssessmentInv, ReportInv, Delivering, Ready, Running
    <2> QED BY <2>1 DEF AssessmentInv, ReportInv
  <1>12. ASSUME NEW p \in Probes, FinishReading(p) PROVE ReportInv'
    <2>1. report' = NoReport /\ pc' \notin {"close", "write"} /\ failed' = failed
      BY <1>12 DEF FinishReading, AssessmentInv, ReportInv, Delivering, Ready, Running
    <2> QED BY <2>1 DEF AssessmentInv, ReportInv
  <1>13. CASE FinishVersion
    <2>1. report' = NoReport /\ pc' \notin {"close", "write"} /\ failed' = failed
      BY <1>13 DEF FinishVersion, AssessmentInv, ReportInv, Delivering, Ready, Running
    <2> QED BY <2>1 DEF AssessmentInv, ReportInv
  <1>14. CASE FinishInfo
    <2>1. report' = NoReport /\ pc' \notin {"close", "write"} /\ failed' = failed
      BY <1>14 DEF FinishInfo, AssessmentInv, ReportInv, Delivering, Ready, Running
    <2> QED BY <2>1 DEF AssessmentInv, ReportInv
  <1>15. CASE Collected
    <2>1. report' = NoReport /\ pc' \notin {"close", "write"} /\ failed' = failed
      BY <1>15 DEF Collected, AssessmentInv, ReportInv, Delivering
    <2> QED BY <2>1 DEF AssessmentInv, ReportInv
  <1>16. CASE SelectRuntime
    <2>1. SelectionAgrees
      BY NamesOneExecutable
    <2> QED BY <1>16, <2>1 DEF SelectRuntime, AssessmentInv, ReportInv, Delivering
  <1>17. CASE CollectHelpers
    <2>1. report' = NoReport /\ pc' \notin {"close", "write"} /\ failed' = failed
      BY <1>17 DEF CollectHelpers, AssessmentInv, ReportInv, Delivering
    <2> QED BY <2>1 DEF AssessmentInv, ReportInv
  <1>18. CASE CollectConfiguration
    <2>1. report' = NoReport /\ pc' \notin {"close", "write"} /\ failed' = failed
      BY <1>18 DEF CollectConfiguration, AssessmentInv, ReportInv, Delivering
    <2> QED BY <2>1 DEF AssessmentInv, ReportInv
  <1>19. CASE Project
    <2>1. SelectionAgrees
      BY NamesOneExecutable
    <2>2. ProjectReport(Projecting)' = ProjectReport(Projecting)
      BY <1>19, ReportIsStable DEF Project
    <2>3. report' = ProjectReport(Projecting) /\ pc' = "close" /\ ~failed'
      BY <1>19, <2>1 DEF Project, EvaluationTime
    <2>4. report' # NoReport
      BY <2>3, ExitCodes
    <2>5. Observed(Identity)'
      BY <1>19 DEF Project, AssessmentInv, ObservationInv, Observed, Starting
    <2> QED BY <2>2, <2>3, <2>4, <2>5 DEF ReportInv, Delivering
  <1>20. CASE CloseReader
    <2>1. ProjectReport(Projecting)' = ProjectReport(Projecting)
      BY <1>20, ReportIsStable DEF CloseReader
    <2> QED BY <1>20, <2>1 DEF CloseReader, AssessmentInv, ReportInv, Delivering, Observed, Failure
  <1>21. CASE WriteReport
    <2>1. ProjectReport(Projecting)' = ProjectReport(Projecting)
      BY <1>21, ReportIsStable DEF WriteReport
    <2> QED BY <1>21, <2>1 DEF WriteReport, AssessmentInv, ReportInv, Delivering, Observed, Failure
  <1>22. CASE Cancel
    <2>1. ProjectReport(Projecting)' = ProjectReport(Projecting)
      BY <1>22, ReportIsStable DEF Cancel
    <2> QED BY <1>22, <2>1 DEF Cancel, AssessmentInv, ReportInv, Delivering, Observed
  <1>23. ASSUME NEW path \in Paths, Replace(path) PROVE ReportInv'
    <2>1. report' = NoReport /\ pc' \notin {"close", "write"} /\ failed' = failed
      BY <1>23 DEF Replace, AssessmentInv, ReportInv, Delivering
    <2> QED BY <2>1 DEF AssessmentInv, ReportInv
  <1> QED
    BY <1>1, <1>2, <1>3, <1>4, <1>5, <1>6, <1>7, <1>8, <1>9, <1>10, <1>11, <1>12,
       <1>13, <1>14, <1>15, <1>16, <1>17, <1>18, <1>19, <1>20, <1>21, <1>22, <1>23 DEF Next, Invocation

-----------------------------------------------------------------------------
(* The whole invariant.                                                    *)

(* A step that changes nothing.                                           *)
LEMMA StutterStep ==
    ASSUME AssessmentInv, UNCHANGED vars
    PROVE  AssessmentInv'
  <1> USE DEF vars, world, live, data, result
  <1>1. TypeOK'
    BY DEF AssessmentInv, TypeOK
  <1>2. StageInv'
    BY DEF AssessmentInv, StageInv
  <1>3. ObservationInv'
    BY DEF AssessmentInv, ObservationInv, Observed
  <1>4. DiscoveryInv'
    BY SearchFrame DEF Observed
  <1>5. CommandInv'
    BY CommandFrame DEF Observed
  <1>6. LaunchInv'
    BY LaunchFrame DEF Observed
  <1>7. ReportInv'
    BY ReportIsStable DEF AssessmentInv, ReportInv, Observed
  <1> QED BY <1>1, <1>2, <1>3, <1>4, <1>5, <1>6, <1>7 DEF AssessmentInv

(* The initial states.                                                    *)
LEMMA InitialState ==
    ASSUME Init
    PROVE  AssessmentInv
  <1>1. TypeOK
    <2>1. changes \in 0..MaxChanges
      BY ProbesAssumption DEF Init
    <2>2. at \in 0..Projecting
      BY DEF Init, Projecting
    <2>3. status \in [Probes -> Final \cup {"none", "running"}] /\ DOMAIN obs = {} /\ planned = {}
      BY DEF Init
    <2>4. looked \in Seq(FileStates)
          /\ ran \in Seq([probe : {Version, Info}, path : Paths, build : FileStates])
      BY DEF Init
    <2> QED BY <2>1, <2>2, <2>3, <2>4 DEF Init, TypeOK
  <1>2. StageInv
    BY ExitCodes DEF Init, StageInv, Starting, NothingObserved
  <1>3. ObservationInv
    BY DEF Init, ObservationInv, Observed, Starting
  <1>4. DiscoveryInv
    BY DEF Init, DiscoveryInv, Observed
  <1>5. CommandInv
    BY DEF Init, CommandInv, Delivering
  <1>6. LaunchInv
    <2>1. ran = <<>> /\ Len(ran) = 0 /\ DOMAIN ran = {} /\ ~Observed(Version) /\ ~Observed(Info)
      BY DEF Init, Observed
    <2>2. status[Version] = "none" /\ status[Info] = "none"
      BY Names DEF Init
    <2> QED BY <2>1, <2>2 DEF LaunchInv
  <1>7. ReportInv
    BY DEF Init, ReportInv
  <1> QED BY <1>1, <1>2, <1>3, <1>4, <1>5, <1>6, <1>7 DEF AssessmentInv

(* The inductive invariant holds of every invocation.                      *)
THEOREM InvocationInvariant == Spec => []AssessmentInv
  <1>1. Init => AssessmentInv
    BY InitialState
  <1>2. AssessmentInv /\ [Next]_vars => AssessmentInv'
    <2>1. ASSUME AssessmentInv, Next PROVE AssessmentInv'
      <3>1. TypeOK'
        BY <2>1, TypeStep DEF AssessmentInv
      <3> QED
        BY <2>1, <3>1, StageStep, ObservationStep, DiscoveryStep, CommandStep, LaunchStep, ReportStep
           DEF AssessmentInv
    <2> QED BY <2>1, StutterStep
  <1> QED BY <1>1, <1>2, PTL DEF Spec

-----------------------------------------------------------------------------
(* Passive collection never launches Podman, and a launch is of the path   *)
(* where discovery saw an executable, asked for with --active by a process *)
(* whose identity is known; podman info follows a successful version       *)
(* command, and neither is repeated (app/live.go, activeProbes).           *)
THEOREM LaunchesAuthorized == Spec => []LaunchesAreAuthorized
  <1>1. ASSUME AssessmentInv PROVE LaunchesAreAuthorized
    <2> SUFFICES ASSUME NEW i \in DOMAIN ran
                 PROVE  /\ opts.active /\ opts.runtime = "podman" /\ execution
                        /\ obs[Discovery].file = "exec"
                        /\ ran[i].path = obs[Discovery].path
                        /\ opts.path # Unset => ran[i].path = opts.path
                        /\ ran[i].probe = Info =>
                             /\ i = 2 /\ ran[1].probe = Version /\ ran[1].build \in Builds
                             /\ status[Version] = "Succeeded"
      BY <1>1 DEF LaunchesAreAuthorized, AssessmentInv, LaunchInv
    <2>1. ran \in Seq([probe : {Version, Info}, path : Paths, build : FileStates])
      BY <1>1 DEF AssessmentInv, TypeOK
    <2>2. Len(ran) \in {1, 2} /\ i \in 1..Len(ran)
      <3>1. Len(ran) \in Nat /\ Len(ran) <= 2 /\ i \in 1..Len(ran)
        BY <1>1, <2>1 DEF AssessmentInv, LaunchInv
      <3>2. \A n \in Nat : n <= 2 /\ i \in 1..n => n \in {1, 2}
        OBVIOUS
      <3> QED BY <3>1, <3>2, Zenon
    <2>3. Version \in planned
      BY <1>1, <2>2 DEF AssessmentInv, LaunchInv
    <2>4. /\ opts.active /\ Observed(Discovery) /\ obs[Discovery].file = "exec"
          /\ command = obs[Discovery].path
      BY <1>1, <2>3 DEF AssessmentInv, CommandInv
    <2>5. opts.runtime = "podman" /\ execution /\ (opts.path # Unset => command = opts.path)
      BY <1>1, <2>4 DEF AssessmentInv, DiscoveryInv
    <2>6. ran[i].path = command
      BY <1>1 DEF AssessmentInv, LaunchInv
    <2>7. ASSUME ran[i].probe = Info
          PROVE  /\ i = 2 /\ ran[1].probe = Version /\ ran[1].build \in Builds
                 /\ status[Version] = "Succeeded"
      <3>1. Version # Info
        BY DEF Version, Info
      <3>2. ran[i].probe = IF i = 1 THEN Version ELSE Info
        BY <1>1 DEF AssessmentInv, LaunchInv
      <3>3. i = 2 /\ Len(ran) = 2 /\ 1 \in DOMAIN ran
        BY <2>1, <2>2, <2>7, <3>1, <3>2
      <3> QED BY <1>1, <3>3 DEF AssessmentInv, LaunchInv
    <2> QED BY <2>4, <2>5, <2>6, <2>7
  <1> QED BY <1>1, InvocationInvariant, PTL

(* The program's exit code and its output belong together, the reader is   *)
(* never left open, and a live run's own observations never contradict     *)
(* each other about the executable (app/app.go, writeReport and failure).  *)
THEOREM DeliveryIsExact == Spec => []ExitMatchesDelivery
  <1>1. ASSUME AssessmentInv PROVE ExitMatchesDelivery
    BY <1>1, ExitCodes DEF AssessmentInv, StageInv, ReportInv, ExitMatchesDelivery, NothingObserved, Starting
  <1> QED BY <1>1, InvocationInvariant, PTL

-----------------------------------------------------------------------------
(* The verdict.                                                            *)

(* A state other than unknown is that of complete evidence.                *)
LEMMA ResolvedFromEvidence ==
    ASSUME NEW evidence, NEW now, Resolve(evidence, now) # "unknown"
    PROVE  \E e \in evidence : e.complete /\ e.state = Resolve(evidence, now)
  <1> DEFINE usable == {e \in evidence : e.complete /\ e.time <= now}
             best == {b \in usable : \A u \in usable : b.precedence <= u.precedence}
             states == {e.state : e \in best}
  <1>1. Resolve(evidence, now) =
          IF Cardinality(states) = 1 THEN CHOOSE s \in states : TRUE ELSE "unknown"
    BY Zenon DEF Resolve
  <1>2. Cardinality(states) = 1 /\ Resolve(evidence, now) = CHOOSE s \in states : TRUE
    <2> HIDE DEF states
    <2> QED BY <1>1
  <1>3. states # {}
    <2> HIDE DEF states
    <2>1. Cardinality({}) = 0
      BY FS_EmptySet
    <2> QED BY <1>2, <2>1
  <1>4. Resolve(evidence, now) \in states
    <2> HIDE DEF states
    <2> QED BY <1>2, <1>3
  <1>5. PICK b \in best : b.state = Resolve(evidence, now)
    BY <1>4
  <1> QED BY <1>5

(* Complete evidence that stands alone is believed.                        *)
LEMMA SoleEvidenceResolves ==
    ASSUME NEW e, NEW now, e.complete, e.time <= now, e.precedence \in Int
    PROVE  Resolve({e}, now) = e.state
  <1> DEFINE usable == {u \in {e} : u.complete /\ u.time <= now}
             best == {b \in usable : \A u \in usable : b.precedence <= u.precedence}
             states == {b.state : b \in best}
  <1>1. Resolve({e}, now) =
          IF Cardinality(states) = 1 THEN CHOOSE s \in states : TRUE ELSE "unknown"
    BY Zenon DEF Resolve
  <1>2. usable = {e}
    OBVIOUS
  <1>3. best = {e}
    <2> HIDE DEF usable
    <2> QED BY <1>2
  <1>4. states = {e.state}
    <2> HIDE DEF best
    <2> QED BY <1>3
  <1> HIDE DEF states
  <1>5. Cardinality(states) = 1
    BY <1>4, FS_Singleton
  <1> QED BY <1>1, <1>4, <1>5

(* podman.cli is supported only by a version command that succeeded ...    *)
LEMMA CLISupported ==
    ASSUME NEW now, Resolve(PodmanCLIEvidence, now) = "supported"
    PROVE  Observed(Version) /\ obs[Version].version # "unknown"
  <1>1. PICK e \in PodmanCLIEvidence : e.state = "supported"
    BY ResolvedFromEvidence
  <1> QED BY <1>1 DEF PodmanCLIEvidence, Evidence

(* ... and ruled out only by a search that found nothing.                  *)
LEMMA CLIRuledOut ==
    ASSUME NEW now, Resolve(PodmanCLIEvidence, now) \in {"unsupported", "misconfigured"}
    PROVE  Observed(Discovery) /\ obs[Discovery].installed = "no"
  <1>1. PICK e \in PodmanCLIEvidence : e.state \in {"unsupported", "misconfigured"}
    BY ResolvedFromEvidence
  <1> QED BY <1>1 DEF PodmanCLIEvidence, Evidence

(* podman.info is supported only by a full document of the version that    *)
(* the version command reported, and is never ruled out.                   *)
LEMMA InfoSupported ==
    ASSUME NEW now
    PROVE  /\ Resolve(PodmanInfoEvidence, now) = "supported" =>
                Observed(Info) /\ obs[Info].full /\ VersionsAgree
           /\ Resolve(PodmanInfoEvidence, now) \notin {"unsupported", "misconfigured"}
  <1>1. ASSUME Resolve(PodmanInfoEvidence, now) # "unknown"
        PROVE  \E e \in PodmanInfoEvidence : e.state = Resolve(PodmanInfoEvidence, now)
    BY <1>1, ResolvedFromEvidence
  <1>2. \A e \in PodmanInfoEvidence :
          /\ e.state \in {"unavailable", "supported", "unknown"}
          /\ e.state = "supported" => Observed(Info) /\ obs[Info].full /\ VersionsAgree
    BY DEF PodmanInfoEvidence, Evidence
  <1> QED BY <1>1, <1>2

(* The conjunction of the required predicates.                             *)
LEMMA DecisionMeans ==
    ASSUME NEW now
    PROVE  /\ Decision(now) = "SATISFIED" => \A e \in Required : Resolve(e, now) = "supported"
           /\ Decision(now) = "UNSATISFIED" =>
                \E e \in Required : Resolve(e, now) \in {"unsupported", "misconfigured"}
           /\ (\A e \in Required : Resolve(e, now) = "supported") => Decision(now) = "SATISFIED"
  <1>1. Required # {}
    BY DEF Required
  <1>2. \A s : /\ Predicate(s) = "SATISFIED" <=> s = "supported"
               /\ Predicate(s) = "UNSATISFIED" <=> s \in {"unsupported", "misconfigured"}
    BY DEF Predicate
  <1> QED BY <1>1, <1>2 DEF Decision

(* The exit code of a delivered report, and the verdict behind it.         *)
LEMMA DeliveredExit ==
    ASSUME AssessmentInv
    PROVE  /\ exit \in Verdicts =>
                exit = IF opts.runtime = Unset THEN HostExit ELSE ExitCode(Decision(Projecting))
           /\ stdout = "report" => exit \in Verdicts
           /\ HostExit # ExitUnsatisfied
           /\ \A d : /\ ExitCode(d) = ExitSatisfied <=> d = "SATISFIED"
                     /\ ExitCode(d) = ExitUnsatisfied <=> d = "UNSATISFIED"
           /\ ExitSatisfied \in Verdicts /\ ExitUnsatisfied \in Verdicts
  <1>1. ASSUME exit \in Verdicts
        PROVE  exit = IF opts.runtime = Unset THEN HostExit ELSE ExitCode(Decision(Projecting))
    BY <1>1 DEF AssessmentInv, StageInv, ReportInv, ProjectReport
  <1>2. stdout = "report" => exit \in Verdicts
    BY DEF AssessmentInv, StageInv
  <1> QED
    BY <1>1, <1>2 DEF HostExit, ExitCode, ExitSatisfied, ExitUnsatisfied, ExitIndeterminate, Verdicts

(* UNSATISFIED: a complete search found nothing, and nothing was run       *)
(* (discovery.go, and podmanCLIEvidence's one unsupported state).          *)
THEOREM AbsenceIsExamined == Spec => []UnsatisfiedMeansAbsent
  <1>1. ASSUME AssessmentInv, exit = ExitUnsatisfied
        PROVE  looked = [i \in DOMAIN SearchList |-> "absent"] /\ ran = <<>>
    <2>1. Decision(Projecting) = "UNSATISFIED"
      BY <1>1, DeliveredExit
    <2>2. PICK e \in Required : Resolve(e, Projecting) \in {"unsupported", "misconfigured"}
      BY <2>1, DecisionMeans
    <2>3. e = PodmanCLIEvidence
      BY <2>2, InfoSupported DEF Required
    <2>4. Observed(Discovery) /\ obs[Discovery].installed = "no"
      BY <2>2, <2>3, CLIRuledOut
    <2>5. obs[Discovery].file = "none" /\ looked = [i \in DOMAIN SearchList |-> "absent"]
      BY <1>1, <2>4 DEF AssessmentInv, DiscoveryInv
    <2>6. Version \notin planned
      BY <1>1, <2>5 DEF AssessmentInv, CommandInv
    <2>7. ran = <<>>
      BY <1>1, <2>6 DEF AssessmentInv, LaunchInv, TypeOK
    <2> QED BY <2>5, <2>7
  <1>2. AssessmentInv => UnsatisfiedMeansAbsent
    BY <1>1 DEF UnsatisfiedMeansAbsent
  <1> QED BY <1>2, InvocationInvariant, PTL

(* The launches in a state of the invocation, by the probe that made them. *)
LEMMA LaunchesOf ==
    ASSUME AssessmentInv
    PROVE  /\ \A v \in Launched(Version) : Len(ran) >= 1 /\ v = ran[1]
           /\ \A i \in Launched(Info) : Len(ran) = 2 /\ i = ran[2]
           /\ Observed(Version) => ran[1] \in Launched(Version)
           /\ Observed(Info) => ran[2] \in Launched(Info)
           /\ Observed(Version) => ran[1].path = command
           /\ Observed(Info) => ran[2].path = command
  <1>1. /\ Len(ran) \in Nat /\ DOMAIN ran = 1..Len(ran) /\ Version # Info
        /\ \A i \in DOMAIN ran : ran[i].path = command /\ ran[i].probe = IF i = 1 THEN Version ELSE Info
        /\ Observed(Version) <=> Len(ran) >= 1
        /\ Observed(Info) <=> Len(ran) = 2
        /\ Len(ran) <= 2
    BY DEF AssessmentInv, TypeOK, LaunchInv, Version, Info
  <1>2. \A n \in Nat : n <= 2 => \A i \in 1..n : (i = 1 \/ (i = 2 /\ n = 2)) /\ n >= 1
    OBVIOUS
  <1>3. Observed(Version) => 1 \in DOMAIN ran
    BY <1>1
  <1>4. Observed(Info) => 2 \in DOMAIN ran
    BY <1>1
  <1>5. \A i \in DOMAIN ran : (i = 1 \/ (i = 2 /\ Len(ran) = 2)) /\ Len(ran) >= 1
    BY <1>1, <1>2, Zenon
  <1> QED BY <1>1, <1>3, <1>4, <1>5 DEF Launched

(* A verdict rests on one build inspected in this invocation, a complete   *)
(* inspection is never lost, and an upgrade between the two commands shows *)
(* in the report (capability/podman_info.go, app/runtime_report.go).       *)
THEOREM VerdictIsOfOneBuild == Spec => []InspectionIsOfOneBuild
  <1>1. ASSUME AssessmentInv, opts.runtime = "podman", exit = ExitSatisfied
        PROVE  /\ opts.active
               /\ \E v \in Launched(Version) :
                    /\ v.build \in Builds
                    /\ opts.requirement # "cli" =>
                         \E i \in Launched(Info) : i.build = v.build /\ i.path = v.path
    <2>1. \A e \in Required : Resolve(e, Projecting) = "supported"
      BY <1>1, DeliveredExit, DecisionMeans, UnsetDiffers
    <2>2. Observed(Version) /\ obs[Version].version # "unknown"
      BY <2>1, CLISupported DEF Required
    <2>3. status[Version] = "Succeeded" /\ ran[1].build \in Builds /\ obs[Version].version = ran[1].build
          /\ Version \in planned
      BY <1>1, <2>2 DEF AssessmentInv, LaunchInv
    <2>4. opts.active
      BY <1>1, <2>3 DEF AssessmentInv, CommandInv
    <2>5. ASSUME opts.requirement # "cli"
          PROVE  Observed(Info) /\ ran[2].build = ran[1].build
      <3>1. Observed(Info) /\ obs[Info].full /\ VersionsAgree
        BY <2>1, <2>4, <2>5, InfoSupported DEF Required
      <3>2. obs[Info].version # "unknown" /\ obs[Info].version = ran[2].build
        BY <1>1, <3>1 DEF AssessmentInv, LaunchInv
      <3> QED BY <2>2, <2>3, <3>1, <3>2 DEF VersionsAgree
    <2> QED BY <1>1, <2>2, <2>3, <2>4, <2>5, LaunchesOf
  <1>2. ASSUME AssessmentInv, opts.runtime = "podman", stdout = "report",
               status[Version] = "Succeeded", status[Info] = "Succeeded",
               obs[Info].full, obs[Info].version = obs[Version].version
        PROVE  exit = ExitSatisfied
    <2>1. /\ Observed(Version) /\ Observed(Info) /\ Version \in planned
          /\ obs[Version].time <= Projecting /\ obs[Info].time <= Projecting
      <3>1. Observed(Version) /\ Observed(Info) /\ Version \in planned
        BY <1>2, Names DEF AssessmentInv, ObservationInv, CommandInv
      <3>2. obs[Version].time \in Bootstrap..Afterwards /\ obs[Info].time \in Bootstrap..Afterwards
        BY <1>2, <3>1 DEF AssessmentInv, ObservationInv, Observed
      <3> QED BY <3>1, <3>2 DEF Bootstrap, Afterwards, Projecting
    <2>2. /\ obs[Version].runnable = "yes" /\ obs[Version].complete
          /\ obs[Version].version # "unknown"
      BY <1>2, Names DEF AssessmentInv, LaunchInv
    <2>3. obs[Info].version # "unknown" /\ obs[Info].available = "yes" /\ obs[Info].complete
      BY <1>2, <2>1 DEF AssessmentInv, LaunchInv
    <2>4. obs[Discovery].file = "exec" /\ obs[Discovery].installed # "no"
      BY <1>2, <2>1 DEF AssessmentInv, CommandInv, DiscoveryInv
    <2>5. Resolve(PodmanCLIEvidence, Projecting) = "supported"
      <3>1. PodmanCLIEvidence = {Evidence("supported", 2, obs[Version])}
        BY <2>1, <2>2, <2>4 DEF PodmanCLIEvidence
      <3> DEFINE e == Evidence("supported", 2, obs[Version])
      <3>2. e.complete /\ e.time <= Projecting /\ e.precedence \in Int /\ e.state = "supported"
        BY <2>1, <2>2 DEF Evidence
      <3> HIDE DEF e
      <3> QED BY <3>1, <3>2, SoleEvidenceResolves DEF e
    <2>6. Resolve(PodmanInfoEvidence, Projecting) = "supported"
      <3>1. PodmanInfoEvidence = {Evidence("supported", 2, obs[Info])}
        BY <1>2, <2>1, <2>3 DEF PodmanInfoEvidence, VersionsAgree
      <3> DEFINE e == Evidence("supported", 2, obs[Info])
      <3>2. e.complete /\ e.time <= Projecting /\ e.precedence \in Int /\ e.state = "supported"
        BY <2>1, <2>3 DEF Evidence
      <3> HIDE DEF e
      <3> QED BY <3>1, <3>2, SoleEvidenceResolves DEF e
    <2>7. Decision(Projecting) = "SATISFIED"
      BY <2>5, <2>6, DecisionMeans DEF Required
    <2> QED BY <1>2, <2>7, DeliveredExit, UnsetDiffers
  <1>3. ASSUME AssessmentInv, report.runtime = "complete",
               NEW v \in Launched(Version), NEW i \in Launched(Info), obs[Info].version # "unknown"
        PROVE  i.build = v.build
    <2>1. v = ran[1] /\ i = ran[2] /\ Len(ran) = 2 /\ Observed(Version) /\ Observed(Info)
      BY <1>3, LaunchesOf DEF AssessmentInv, LaunchInv
    <2>2. /\ obs[Version].version = ran[1].build /\ ran[1].build \in Builds
          /\ obs[Info].version = ran[2].build
      BY <1>3, <2>1 DEF AssessmentInv, LaunchInv
    <2>3. VersionsAgree
      <3>1. report = ProjectReport(Projecting)
        BY <1>3 DEF AssessmentInv, ReportInv, NoReport
      <3> QED BY <1>3, <3>1 DEF ProjectReport, RuntimeCompleteness
    <2> QED BY <1>3, <2>1, <2>2, <2>3, Names DEF VersionsAgree
  <1>4. AssessmentInv => InspectionIsOfOneBuild
    BY <1>1, <1>2, <1>3 DEF InspectionIsOfOneBuild, SatisfiedIffInspected, UpgradeIsVisible
  <1> QED BY <1>4, InvocationInvariant, PTL

(* Exit 0 of a host-only run: every host and context probe was planned,    *)
(* succeeded and left a complete observation (app/host.go, projectHost).   *)
THEOREM HostSuccessIsEarned == Spec => []HostSuccessIsComplete
  <1>1. ASSUME AssessmentInv, exit = ExitSatisfied, opts.runtime = Unset
        PROVE  /\ obs[Identity].complete
               /\ \A p \in HostProbes \cup ContextProbes :
                    p \in planned /\ status[p] = "Succeeded" /\ obs[p].complete
    <2>1. HostCompleteness = "complete" /\ ContextCompleteness = "complete"
      BY <1>1, DeliveredExit DEF HostExit, ExitSatisfied, ExitIndeterminate
    <2>2. \A ids : Completeness(ids) = "complete" => \A i \in ids : obs[i].complete
      BY DEF Completeness
    <2>3. /\ ~Unfinished(HostProbes) /\ ~Unfinished(ContextProbes)
          /\ \A i \in (HostProbes \cup ContextProbes \cup {Identity}) \cap DOMAIN obs : obs[i].complete
      BY <2>1, <2>2 DEF HostCompleteness, ContextCompleteness
    <2>4. Observed(Identity)
      BY <1>1, ExitCodes, DeliveredExit DEF AssessmentInv, StageInv, ReportInv
    <2>5. obs[Identity].complete
      BY <2>3, <2>4 DEF Observed
    <2>6. HostProbes \cup ContextProbes \subseteq planned
      BY <1>1, <2>4, <2>5 DEF AssessmentInv, ObservationInv
    <2>7. \A p \in HostProbes \cup ContextProbes : status[p] = "Succeeded"
      BY <2>3, <2>6 DEF Unfinished
    <2>8. \A p \in HostProbes \cup ContextProbes : Observed(p)
      BY <1>1, <2>7 DEF AssessmentInv, ObservationInv, Probes
    <2> QED BY <2>3, <2>5, <2>6, <2>7, <2>8 DEF Observed
  <1>2. AssessmentInv => HostSuccessIsComplete
    BY <1>1 DEF HostSuccessIsComplete
  <1> QED BY <1>2, InvocationInvariant, PTL

=============================================================================
