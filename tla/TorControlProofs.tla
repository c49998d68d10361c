-------------------------- MODULE TorControlProofs --------------------------
(***************************************************************************)
(* Proofs about an instance and its control connection, for every set of   *)
(* instances, callers, names and markers, and about the commands the pool  *)
(* fans out over these connections: what a caller of one may conclude.     *)
(***************************************************************************)
EXTENDS PoolCommands, TorProcessProofs

ControlInv == ControlTypeOK /\ ProcessInv

(* Every step of an instance is a step of its process, or leaves it alone. *)
LEMMA StepMovesProcess ==
    ASSUME NEW i \in Instance, Step(i)
    PROVE  ProcessMoves \/ UNCHANGED processVars
<1>1. CASE ProcessStep(i)
  <2>1. CASE Create({i})
    BY <2>1 DEF ProcessMoves
  <2>2. ASSUME NEW c \in Call, Exit(c, i)
        PROVE  ProcessMoves
    <3>1. exiting[c] = {} /\ ExitAll(c, {i}) /\ {i} \in SUBSET Instance
      BY <2>2 DEF Exit
    <3>. QED
      BY <3>1 DEF ProcessMoves
  <2>3. CASE Spawn(i) \/ CreateFails(i) \/ Close(i) \/ Deleted(i) \/ DeleteFails(i)
    BY <2>3 DEF ProcessMoves
  <2>. QED
    BY <1>1, <2>1, <2>2, <2>3 DEF ProcessStep
<1>2. ASSUME NEW M \in SUBSET Marker, Output(i, M)
      PROVE  ProcessMoves \/ UNCHANGED processVars
  <2>1. Ready(i) \/ UNCHANGED processVars
    BY <1>2 DEF Output
  <2>. QED
    BY <2>1 DEF ProcessMoves
<1>3. CASE ControllerReady(i) \/ Authenticated(i) \/ AuthenticationFails(i) \/ SocketLost(i)
  BY <1>3 DEF ControllerReady, Authenticated, AuthenticationFails, SocketLost
<1>. QED
  BY <1>1, <1>2, <1>3 DEF Step

(* The handlers keep the flags and the connection within what they may be. *)
LEMMA ConnectionTyped ==
    ASSUME ControlInv, NEW i \in Instance, Step(i)
    PROVE  /\ flags' \in [Instance -> SUBSET Flags]
           /\ control' \in [Instance -> ControlStates]
<1> USE DEF ControlInv, ControlTypeOK
<1>1. CASE UNCHANGED <<flags, control>>
  BY <1>1
<1>2. ASSUME NEW M \in SUBSET Marker, Output(i, M)
      PROVE  /\ flags' \in [Instance -> SUBSET Flags]
             /\ control' \in [Instance -> ControlStates]
  <2>1. M \ {"ready", "err"} \subseteq Flags
    BY ControlAssumption DEF Flags
  <2>2. flags' \in [Instance -> SUBSET Flags]
    BY <1>2, <2>1 DEF Output
  <2>3. control' \in [Instance -> ControlStates]
    BY <1>2 DEF Output, ControlStates
  <2>. QED
    BY <2>2, <2>3
<1>3. CASE ControllerReady(i) \/ AuthenticationFails(i) \/ SocketLost(i)
  BY <1>3 DEF ControllerReady, AuthenticationFails, SocketLost, ControlStates
<1>4. CASE Authenticated(i)
  BY <1>4 DEF Authenticated, ControlStates, Flags
<1>. QED
  BY <1>1, <1>2, <1>3, <1>4 DEF Step

(* Every step of the process and of its handlers keeps the invariant.      *)
LEMMA ControlInvStep ==
    ASSUME ControlInv, [Next]_controlVars
    PROVE  ControlInv' /\ ExitsTruthful
<1>1. CASE UNCHANGED controlVars
  <2>1. ProcessInv' /\ ExitsTruthful
    BY <1>1, ProcessInvStep DEF controlVars, processVars, ControlInv
  <2>. QED
    BY <1>1, <2>1 DEF controlVars, ControlInv, ControlTypeOK, ProcessInv
<1>2. ASSUME NEW i \in Instance, Step(i)
      PROVE  ControlInv' /\ ExitsTruthful
  <2>1. ProcessInv' /\ ExitsTruthful
    BY <1>2, StepMovesProcess, ProcessInvStep DEF ControlInv
  <2>2. /\ flags' \in [Instance -> SUBSET Flags]
        /\ control' \in [Instance -> ControlStates]
    BY <1>2, ConnectionTyped
  <2>. QED
    BY <2>1, <2>2 DEF ControlInv, ControlTypeOK, ProcessInv
<1>. QED
  BY <1>1, <1>2 DEF Next

(* An instance by itself implements the processes: its handlers, its flags *)
(* and its connection add no step to them.                                 *)
THEOREM ControlImplementsProcess == Spec => ProcessSpec
<1>1. Init => ProcessInit
  BY DEF Init
<1>2. [Next]_controlVars => [ProcessMoves]_processVars
  BY StepMovesProcess DEF Next, controlVars, processVars
<1>. QED
  BY <1>1, <1>2, PTL DEF Spec, ProcessSpec

(* The invariant of an instance used by itself: its stage, its directory   *)
(* and its connection agree, whoever calls exit() and however often.       *)
THEOREM ControlInvariant == Spec => []ControlInv
<1>1. Init => ControlInv
  BY ProcessInvInit DEF Init, ControlInv, ControlTypeOK, ProcessInv, ControlStates
<1>2. ControlInv /\ [Next]_controlVars => ControlInv'
  BY ControlInvStep
<1>. QED
  BY <1>1, <1>2, PTL DEF Spec

-----------------------------------------------------------------------------
(* The flags and the connection of an instance hold what they may hold.    *)
THEOREM ControlTypeCorrect == Spec => []ControlTypeOK
<1>1. ControlInv => ControlTypeOK
  BY DEF ControlInv
<1>. QED
  BY <1>1, ControlInvariant, PTL

(* No directory is deleted under a running process, a Name keeps its own,  *)
(* and an unnamed instance that has exited leaves none behind.             *)
THEOREM DirectoriesKept == Spec => []DirectoryKept
BY ControlImplementsProcess, ProcessKeepsDirectory, PTL

(* The promise of exit() resolves only after the process is dead and the   *)
(* directory of an unnamed instance is deleted.                            *)
THEOREM ExitMeansDead == Spec => ExitResolvesDead
BY ControlImplementsProcess, ProcessExitMeansDead, PTL

-----------------------------------------------------------------------------
(* Where the promise of a call stands, and what its answers have been: the *)
(* call that is pending awaits every Tor it asked, and one that resolved   *)
(* has nothing left to hear.                                               *)
CallInv ==
    \A k \in Command :
        /\ outcome[k] = "none" => done[k] = {} /\ unanswered[k] = {}
        /\ outcome[k] = "pending" =>
              /\ kind[k] # "signal"
              /\ kind[k] # "set_config" => asked[k] = targets[k]
              /\ asked[k] = unanswered[k] \union done[k]
        /\ outcome[k] = "resolved" =>
              /\ kind[k] # "set_config" => asked[k] = targets[k]
              /\ kind[k] # "signal" => done[k] = asked[k]

(* The inductive invariant; asked is typed apart, for the steps that set it. *)
CommandInv ==
    /\ ControlTypeOK
    /\ CommandTypeOK
    /\ unanswered \in [Command -> SUBSET Instance]
    /\ done \in [Command -> SUBSET Instance]
    /\ asked \in [Command -> SUBSET Instance]
    /\ CallInv

(* Before any call is made.                                                *)
LEMMA CommandInvInit ==
    ASSUME CommandInit
    PROVE  CommandInv
<1>1. ControlTypeOK
  BY ProcessInvInit DEF CommandInit, Init, ControlTypeOK, ProcessInv, ControlStates
<1>2. CommandTypeOK
  BY DEF CommandInit, CommandTypeOK, Kinds, Outcomes
<1>. QED
  BY <1>1, <1>2 DEF CommandInit, CommandInv, CallInv

(* A controller, once there, is never forgotten: no handler sets it back.  *)
LEMMA ControllerStays ==
    ASSUME ControlTypeOK, NEW i \in Instance, Step(i), NEW j \in Instance,
           control[j] # "none"
    PROVE  control'[j] # "none"
<1>1. CASE UNCHANGED control
  BY <1>1
<1>2. ASSUME NEW M \in SUBSET Marker, Output(i, M)
      PROVE  control'[j] # "none"
  BY <1>2 DEF Output, ControlTypeOK
<1>3. CASE ControllerReady(i) \/ Authenticated(i) \/ AuthenticationFails(i) \/ SocketLost(i)
  BY <1>3 DEF ControllerReady, Authenticated, AuthenticationFails, SocketLost, ControlTypeOK
<1>. QED
  BY <1>1, <1>2, <1>3 DEF Step

(* What happens to the instances meanwhile leaves the calls as they are.   *)
LEMMA InstanceKeepsCalls ==
    ASSUME CommandInv, ControlTypeOK', Next, UNCHANGED callVars
    PROVE  CommandInv'
<1> USE DEF CommandInv
<1>1. \A k \in Command : asked[k] \subseteq {i \in targets[k] : control[i] # "none"}
  BY DEF CommandTypeOK
<1>2. \A k \in Command : targets[k] \subseteq Instance
  BY DEF CommandTypeOK
<1>3. PICK i \in Instance : Step(i)
  BY DEF Next
<1>4. \A j \in Instance : control[j] # "none" => control'[j] # "none"
  BY <1>3, ControllerStays
<1>5. \A k \in Command : asked[k] \subseteq {j \in targets[k] : control'[j] # "none"}
  BY <1>1, <1>2, <1>4
<1>6. CommandTypeOK'
  BY <1>5 DEF CommandTypeOK, callVars
<1>. QED
  BY <1>6 DEF CallInv, callVars

(* A call begins: it is pending only with somebody to wait for, and        *)
(* resolves at once only when no instance refused, or none may.            *)
LEMMA FanOutKeepsInv ==
    ASSUME CommandInv, NEW k \in Command, NEW w \in Kinds, NEW S \in SUBSET Instance,
           NEW refuses \in BOOLEAN, NEW awaits \in BOOLEAN,
           w # "set_config" => refuses,
           awaits <=> w # "signal",
           FanOut(k, w, S, refuses, awaits)
    PROVE  CommandInv'
<1> USE DEF CommandInv
<1> DEFINE has == {i \in S : control[i] # "none"}
<1> DEFINE out == CASE refuses /\ has # S -> "rejected"
                    [] ~(refuses /\ has # S) /\ awaits /\ has # {} -> "pending"
                    [] OTHER -> "resolved"
<1>1. /\ outcome[k] = "none"
      /\ kind' = [kind EXCEPT ![k] = w]
      /\ targets' = [targets EXCEPT ![k] = S]
      /\ asked' = [asked EXCEPT ![k] = has]
      /\ unanswered' = [unanswered EXCEPT ![k] = has]
      /\ outcome' = [outcome EXCEPT ![k] = out]
      /\ UNCHANGED <<controlVars, done>>
  BY DEF FanOut, Controlled
<1>2. has \subseteq S /\ has \in SUBSET Instance
  OBVIOUS
<1>3. /\ out \in {"rejected", "pending", "resolved"}
      /\ out = "pending" => ~(refuses /\ has # S) /\ awaits
      /\ out = "resolved" => ~(refuses /\ has # S) /\ ~(awaits /\ has # {})
  OBVIOUS
<1>4. done[k] = {}
  BY <1>1 DEF CallInv
<1> HIDE DEF out
<1>5. ControlTypeOK'
  BY <1>1 DEF ControlTypeOK, ProcessTypeOK, controlVars
<1>6. CommandTypeOK'
  <2>1. /\ kind' \in [Command -> Kinds \union {"none"}]
        /\ targets' \in [Command -> SUBSET Instance]
        /\ outcome' \in [Command -> Outcomes]
    BY <1>1, <1>3 DEF CommandTypeOK, Outcomes
  <2>2. ASSUME NEW l \in Command
        PROVE  /\ unanswered'[l] \union done'[l] \subseteq asked'[l]
               /\ unanswered'[l] \intersect done'[l] = {}
               /\ asked'[l] \subseteq {i \in targets'[l] : control'[i] # "none"}
    <3>1. CASE l = k
      BY <1>1, <1>4, <3>1 DEF CommandTypeOK, controlVars
    <3>2. CASE l # k
      BY <1>1, <3>2 DEF CommandTypeOK, controlVars
    <3>. QED
      BY <3>1, <3>2
  <2>. QED
    BY <2>1, <2>2 DEF CommandTypeOK
<1>7. /\ unanswered' \in [Command -> SUBSET Instance]
      /\ done' \in [Command -> SUBSET Instance]
      /\ asked' \in [Command -> SUBSET Instance]
  BY <1>1, <1>2
<1>8. CallInv'
  <2>1. ASSUME NEW l \in Command, l # k
        PROVE  /\ outcome'[l] = outcome[l] /\ kind'[l] = kind[l] /\ done'[l] = done[l]
               /\ asked'[l] = asked[l] /\ targets'[l] = targets[l]
               /\ unanswered'[l] = unanswered[l]
    BY <1>1, <2>1 DEF CommandTypeOK
  <2>2. /\ outcome'[k] = out /\ kind'[k] = w /\ done'[k] = {}
        /\ asked'[k] = has /\ targets'[k] = S /\ unanswered'[k] = has
    BY <1>1, <1>4 DEF CommandTypeOK
  <2>3. /\ out = "pending" => w # "signal" /\ (w # "set_config" => has = S)
        /\ out = "resolved" => /\ w # "set_config" => has = S
                               /\ w # "signal" => has = {}
    BY <1>3
  <2>4. out # "none"
    BY <1>3
  <2> HIDE DEF has
  <2>5. ASSUME NEW l \in Command
        PROVE  /\ outcome'[l] = "none" => done'[l] = {} /\ unanswered'[l] = {}
               /\ outcome'[l] = "pending" =>
                     /\ kind'[l] # "signal"
                     /\ kind'[l] # "set_config" => asked'[l] = targets'[l]
                     /\ asked'[l] = unanswered'[l] \union done'[l]
               /\ outcome'[l] = "resolved" =>
                     /\ kind'[l] # "set_config" => asked'[l] = targets'[l]
                     /\ kind'[l] # "signal" => done'[l] = asked'[l]
    <3>1. CASE l = k
      BY <2>2, <2>3, <2>4, <3>1
    <3>2. CASE l # k
      BY <2>1, <3>2 DEF CallInv
    <3>. QED
      BY <3>1, <3>2
  <2>. QED
    BY <2>5 DEF CallInv
<1>. QED
  BY <1>5, <1>6, <1>7, <1>8

(* An answer moves one instance out of those still awaited: to those that  *)
(* have executed it, or to nowhere with an error.                          *)
LEMMA AnswerKeepsInv ==
    ASSUME CommandInv, NEW k \in Command, NEW i \in Instance,
           Executed(k, i) \/ Refused(k, i)
    PROVE  CommandInv'
<1> USE DEF CommandInv
<1>1. /\ i \in unanswered[k]
      /\ unanswered' = [unanswered EXCEPT ![k] = @ \ {i}]
      /\ UNCHANGED <<controlVars, kind, targets, asked>>
  BY DEF Executed, Refused
<1>2. /\ done'[k] \subseteq done[k] \union {i}
      /\ done' \in [Command -> SUBSET Instance]
      /\ \A l \in Command : l # k => done'[l] = done[l]
  BY DEF Executed, Refused
<1>3. /\ outcome' \in [Command -> Outcomes]
      /\ \A l \in Command : l # k => outcome'[l] = outcome[l]
  BY DEF Executed, Refused, CommandTypeOK, Outcomes
<1>4. ControlTypeOK'
  BY <1>1 DEF ControlTypeOK, ProcessTypeOK, controlVars
<1>5. i \in asked[k] /\ i \notin done[k]
  BY <1>1 DEF CommandTypeOK
<1>6. CommandTypeOK'
  <2>1. ASSUME NEW l \in Command
        PROVE  /\ unanswered'[l] \union done'[l] \subseteq asked'[l]
               /\ unanswered'[l] \intersect done'[l] = {}
               /\ asked'[l] \subseteq {j \in targets'[l] : control'[j] # "none"}
    <3>1. CASE l = k
      BY <1>1, <1>2, <1>5, <3>1 DEF CommandTypeOK, controlVars
    <3>2. CASE l # k
      BY <1>1, <1>2, <3>2 DEF CommandTypeOK, controlVars
    <3>. QED
      BY <3>1, <3>2
  <2>. QED
    BY <1>1, <1>3, <2>1 DEF CommandTypeOK
<1>7. CallInv'
  <2>1. outcome[k] # "none"
    BY <1>1 DEF CallInv
  <2>2. outcome[k] = "resolved" => kind[k] = "signal"
    BY <1>1, <1>5 DEF CallInv
  <2>3. CASE Executed(k, i)
    <3>1. /\ done'[k] = done[k] \union {i}
          /\ unanswered'[k] = unanswered[k] \ {i}
          /\ outcome'[k] = IF outcome[k] = "pending" /\ unanswered'[k] = {}
                           THEN "resolved" ELSE outcome[k]
      BY <2>3 DEF Executed, CommandTypeOK
    <3>2. ASSUME outcome[k] = "pending"
          PROVE  asked[k] = unanswered'[k] \union done'[k]
      BY <1>1, <3>1, <3>2 DEF CallInv
    <3>. QED
      BY <1>1, <1>2, <1>3, <2>1, <2>2, <3>1, <3>2 DEF CallInv
  <2>4. CASE Refused(k, i)
    <3>1. /\ done' = done
          /\ outcome'[k] = IF outcome[k] = "pending" THEN "rejected" ELSE outcome[k]
      BY <2>4 DEF Refused, CommandTypeOK
    <3>. QED
      BY <1>1, <1>3, <2>1, <2>2, <3>1 DEF CallInv
  <2>. QED
    BY <2>3, <2>4
<1>. QED
  BY <1>1, <1>2, <1>4, <1>6, <1>7

(* Every step of a call, whichever command it is for, keeps the invariant. *)
LEMMA CommandStepKeepsInv ==
    ASSUME CommandInv, NEW k \in Command, CommandStep(k)
    PROVE  CommandInv'
<1>1. ASSUME NEW S \in Scope, NewIdentities(k, S)
      PROVE  CommandInv'
  BY <1>1, FanOutKeepsInv, CommandAssumption DEF NewIdentities, Kinds
<1>2. ASSUME NEW S \in Scope, SetConfig(k, S)
      PROVE  CommandInv'
  BY <1>2, FanOutKeepsInv, CommandAssumption DEF SetConfig, Kinds
<1>3. ASSUME NEW S \in Scope, SendSignal(k, S)
      PROVE  CommandInv'
  BY <1>3, FanOutKeepsInv, CommandAssumption DEF SendSignal, Kinds
<1>4. ASSUME NEW i \in Instance, GetConfig(k, i)
      PROVE  CommandInv'
  <2>1. {i} \in SUBSET Instance
    OBVIOUS
  <2>. QED
    BY <1>4, <2>1, FanOutKeepsInv DEF GetConfig, Kinds
<1>5. ASSUME NEW i \in Instance, Executed(k, i) \/ Refused(k, i)
      PROVE  CommandInv'
  BY <1>5, AnswerKeepsInv
<1>. QED
  BY <1>1, <1>2, <1>3, <1>4, <1>5 DEF CommandStep

(* No step of a call changes an instance: only Tor is told something.      *)
LEMMA CommandStepLeavesControl ==
    ASSUME NEW k \in Command, CommandStep(k)
    PROVE  UNCHANGED controlVars
BY DEF CommandStep, NewIdentities, SetConfig, SendSignal, GetConfig, FanOut, Executed, Refused

-----------------------------------------------------------------------------
(* An instance under commands is an instance: every behaviour with         *)
(* commands is one of TorControl, so that what is proved there holds here. *)
THEOREM CommandsKeepControl == CommandSpec => Init /\ [][Next]_controlVars
<1>1. CommandInit => Init
  BY DEF CommandInit
<1>2. [CommandNext]_commandVars => [Next]_controlVars
  BY CommandStepLeavesControl DEF CommandNext, commandVars
<1>. QED
  BY <1>1, <1>2, PTL DEF CommandSpec

(* The control connection, the process and its directory agree, whatever   *)
(* commands are given.                                                     *)
THEOREM CommandsKeepControlInv == CommandSpec => []ControlInv
<1>1. Init => ControlInv
  BY ProcessInvInit DEF Init, ControlInv, ControlTypeOK, ProcessInv, ControlStates
<1>2. ControlInv /\ [Next]_controlVars => ControlInv'
  BY ControlInvStep
<1>. QED
  BY <1>1, <1>2, CommandsKeepControl, PTL

(* The invariant of the calls.                                             *)
THEOREM CommandInvariant == CommandSpec => []CommandInv
<1>1. CommandInit => CommandInv
  BY CommandInvInit
<1>2. CommandInv /\ ControlInv' /\ [CommandNext]_commandVars => CommandInv'
  <2> SUFFICES ASSUME CommandInv, ControlInv', [CommandNext]_commandVars
               PROVE  CommandInv'
    OBVIOUS
  <2>1. CASE UNCHANGED commandVars
    BY <2>1 DEF commandVars, callVars, controlVars, CommandInv, CommandTypeOK, CallInv,
                ControlTypeOK, ProcessTypeOK
  <2>2. CASE Next /\ UNCHANGED callVars
    BY <2>2, InstanceKeepsCalls DEF ControlInv
  <2>3. ASSUME NEW k \in Command, CommandStep(k)
        PROVE  CommandInv'
    BY <2>3, CommandStepKeepsInv
  <2>. QED
    BY <2>1, <2>2, <2>3 DEF CommandNext
<1>. QED
  BY <1>1, <1>2, CommandsKeepControlInv, PTL DEF CommandSpec

(* A call asks only instances of its scope that have a controller, and no  *)
(* answer is counted twice.                                                *)
THEOREM CommandTypeCorrect == CommandSpec => []CommandTypeOK
<1>1. CommandInv => CommandTypeOK
  BY DEF CommandInv
<1>. QED
  BY <1>1, CommandInvariant, PTL

(* A fan-out that resolved has reached every instance and was executed by  *)
(* each Tor, with the two exceptions of the code: set_config and signal.   *)
THEOREM FanOutTruthful == CommandSpec => []ResolvedMeansExecuted
<1>1. CommandInv => ResolvedMeansExecuted
  BY DEF CommandInv, CallInv, ResolvedMeansExecuted
<1>. QED
  BY <1>1, CommandInvariant, PTL

(* Under commands too, exit() resolves only for a process that is dead.    *)
THEOREM ExitMeansDeadUnderCommands == CommandSpec => ExitResolvesDead
<1>1. Init => ProcessInit
  BY DEF Init
<1>2. [Next]_controlVars => [ProcessMoves]_processVars
  BY StepMovesProcess DEF Next, controlVars, processVars
<1>. QED
  BY <1>1, <1>2, CommandsKeepControl, ProcessExitMeansDead, PTL DEF ProcessSpec
=============================================================================
