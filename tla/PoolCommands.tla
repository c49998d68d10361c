---------------------------- MODULE PoolCommands ----------------------------
(***************************************************************************)
(* The commands of the control port: the passthroughs of TorProcess.js to  *)
(* its controller, and the fan-outs of TorPool.js that give one command to *)
(* several instances and await all of them.  The control server and SIGHUP *)
(* call these.                                                             *)
(*                                                                         *)
(* The controller is granax, and its methods are promisified: the Async    *)
(* ones that three of the passthroughs call resolve when Tor has answered; *)
(* the fourth, signal, is called as it is and without a callback, and so   *)
(* there is nothing to await.                                              *)
(***************************************************************************)
EXTENDS TorControl

CONSTANTS
    Command,    \* the calls of fan-outs
    Scope       \* the sets of instances they are for: the pool's, a group's

ASSUME CommandAssumption == Scope \subseteq SUBSET Instance

VARIABLES
    kind,       \* the command of each call
    targets,    \* the instances it is for
    asked,      \* those that had a controller to give it to
    unanswered, \* those whose Tor has not answered yet
    done,       \* those whose Tor has executed it
    outcome     \* of the promise of each call

callVars == <<kind, targets, asked, unanswered, done, outcome>>
commandVars == <<controlVars, callVars>>

Kinds == {"new_identity", "get_config", "set_config", "signal"}
Outcomes == {"none", "pending", "resolved", "rejected"}

CommandTypeOK ==
    /\ kind \in [Command -> Kinds \union {"none"}]
    /\ targets \in [Command -> SUBSET Instance]
    /\ outcome \in [Command -> Outcomes]
    /\ \A k \in Command :
          /\ unanswered[k] \union done[k] \subseteq asked[k]
          /\ unanswered[k] \intersect done[k] = {}
          /\ asked[k] \subseteq {i \in targets[k] : control[i] # "none"}

CommandInit ==
    /\ Init
    /\ kind = [k \in Command |-> "none"]
    /\ targets = [k \in Command |-> {}]
    /\ asked = [k \in Command |-> {}]
    /\ unanswered = [k \in Command |-> {}]
    /\ done = [k \in Command |-> {}]
    /\ outcome = [k \in Command |-> "none"]

(* Mutated form: nobody asks whether there is a controller. *)
ControlledUnasked(S) == S

(* The controller is there from the first control_listen event on. *)
Controlled(S) == {i \in S : control[i] # "none"}

-----------------------------------------------------------------------------
(***************************************************************************)
(* Call k gives the command w to all of S at once.  An instance without a  *)
(* controller refuses by itself, when refuses is true, and then the whole  *)
(* call is rejected, whatever the others do.                               *)
(***************************************************************************)
FanOut(k, w, S, refuses, awaits) ==
    LET has == Controlled(S)
    IN  /\ outcome[k] = "none"
        /\ \A i \in S : Spawned(i)
        /\ kind' = [kind EXCEPT ![k] = w]
        /\ targets' = [targets EXCEPT ![k] = S]
        /\ asked' = [asked EXCEPT ![k] = has]
        /\ unanswered' = [unanswered EXCEPT ![k] = has]
        /\ outcome' = [outcome EXCEPT ![k] =
                          CASE refuses /\ has # S -> "rejected"
                            [] ~(refuses /\ has # S) /\ awaits /\ has # {} -> "pending"
                            [] OTHER -> "resolved"]
        /\ UNCHANGED <<controlVars, done>>

(* new_identites() and those by group, index and name: without a           *)
(* controller there is nothing to call a method of, a TypeError.           *)
NewIdentities(k, S) == FanOut(k, "new_identity", S, TRUE, TRUE)

(* Mutated form: an Error is returned, as by set_config(). *)
GetConfigReturning(k, i) == FanOut(k, "get_config", {i}, FALSE, TRUE)

(* get_config_at(), get_config_by_name(). *)
GetConfig(k, i) == FanOut(k, "get_config", {i}, TRUE, TRUE)

(* set_config_all() and those by group, index and name: an instance        *)
(* without a controller returns an Error, which is no rejection.           *)
SetConfig(k, S) == FanOut(k, "set_config", S, FALSE, TRUE)

(* signal_all() and those by group, index and name. *)
SendSignal(k, S) == FanOut(k, "signal", S, TRUE, FALSE)

(* Tor executes the command, and the last answer resolves the call. *)
Executed(k, i) ==
    /\ i \in unanswered[k]
    /\ stage[i] = "running"
    /\ control[i] = "authenticated"
    /\ unanswered' = [unanswered EXCEPT ![k] = @ \ {i}]
    /\ done' = [done EXCEPT ![k] = @ \union {i}]
    /\ outcome' = IF outcome[k] = "pending" /\ unanswered'[k] = {}
                  THEN [outcome EXCEPT ![k] = "resolved"] ELSE outcome
    /\ UNCHANGED <<controlVars, kind, targets, asked>>

(* Mutated form: the error is logged, and the promise left alone. *)
RefusedSilently(k, i) ==
    /\ i \in unanswered[k]
    /\ stage[i] = "running"
    /\ control[i] \in {"open", "authenticated", "refused"}
    /\ unanswered' = [unanswered EXCEPT ![k] = @ \ {i}]
    /\ UNCHANGED <<controlVars, kind, targets, asked, done, outcome>>

(* Tor answers with an error: a value it does not take, a command before   *)
(* the authentication.  The first error rejects the call.                  *)
Refused(k, i) ==
    /\ i \in unanswered[k]
    /\ stage[i] = "running"
    /\ control[i] \in {"open", "authenticated", "refused"}
    /\ unanswered' = [unanswered EXCEPT ![k] = @ \ {i}]
    /\ outcome' = IF outcome[k] = "pending"
                  THEN [outcome EXCEPT ![k] = "rejected"] ELSE outcome
    /\ UNCHANGED <<controlVars, kind, targets, asked, done>>

-----------------------------------------------------------------------------
CommandStep(k) ==
    \/ \E S \in Scope :
          NewIdentities(k, S) \/ SetConfig(k, S) \/ SendSignal(k, S)
    \/ \E i \in Instance : GetConfig(k, i) \/ Executed(k, i) \/ Refused(k, i)

CommandNext ==
    \/ Next /\ UNCHANGED callVars
    \/ \E k \in Command : CommandStep(k)

(* As in TorControl; and a Tor that is connected answers what it is asked. *)
CommandFairness ==
    /\ \A i \in Instance :
          /\ WF_commandVars(i \in killed /\ Close(i) /\ UNCHANGED <<flags, control, callVars>>)
          /\ WF_commandVars((Deleted(i) \/ DeleteFails(i)) /\ UNCHANGED <<flags, control, callVars>>)
    /\ \A k \in Command, i \in Instance :
          WF_commandVars(Executed(k, i) \/ Refused(k, i))

CommandSpec == CommandInit /\ [][CommandNext]_commandVars /\ CommandFairness

-----------------------------------------------------------------------------
(* What a caller may conclude from a fan-out that resolved: every Tor that *)
(* was asked has executed it, unless it was signal, whose answer nobody    *)
(* awaits; and all its instances were asked, unless it was set_config.     *)
(* TorProcess.js:228 says of set_config too that it "Will throw an error   *)
(* if not connected to the control protocol."; it returns the Error, and   *)
(* UnconnectedThrows, which exempts no command, is refuted for that.       *)
ResolvedMeansExecuted ==
    \A k \in Command :
        outcome[k] = "resolved" =>
            /\ kind[k] # "set_config" => asked[k] = targets[k]
            /\ kind[k] # "signal" => done[k] = asked[k]

(* What TorProcess.js:212, 228 and 246 say of the commands: each throws    *)
(* where the instance is not connected to the control protocol, so one     *)
(* that resolves was given to every instance that it was for.              *)
UnconnectedThrows ==
    \A k \in Command : outcome[k] = "resolved" => asked[k] = targets[k]

(* A call never waits in vain while the Tors that it asked stay connected: *)
(* one of them losing its control connection, or its process, is the only  *)
(* way for a fan-out to stay pending for ever.                             *)
FanOutSettles ==
    \A k \in Command :
        outcome[k] = "pending"
            ~> \/ outcome[k] # "pending"
               \/ \E i \in asked[k] : control[i] # "authenticated" \/ stage[i] # "running"
=============================================================================
