------------------------------- MODULE TorPool -------------------------------
(***************************************************************************)
(* The pool of TorPool.js: an array of instances that create_instance()    *)
(* fills, the remove*() methods and exit() empty, and next() reorders and  *)
(* takes the first of.  The calls are asynchronous and nothing serialises  *)
(* them: between two awaits of one, any other may run.                     *)
(*                                                                         *)
(* A member of the pool is known here by its identity; what TorControl     *)
(* says of its control connection reaches the pool only as error events,   *)
(* which may come whenever there is or was a process.                      *)
(***************************************************************************)
EXTENDS TorProcess, JsArray

CONSTANTS
    InstanceName,   \* the Name of each named instance
    Weighted,       \* the instances whose definition has a Weight
    Methods,        \* what load_balance_method may be set to
    NoList          \* stands for an undefined _weighted_list

ASSUME PoolAssumption ==
    /\ InstanceName \in [Named -> {InstanceName[i] : i \in Named}]
    /\ Weighted \subseteq Instance

VARIABLES
    instances,              \* _instances
    weighted_list,          \* _instances._weighted_list, as a set
    load_balance_method,
    data_directory,         \* whether the parent directory exists
    promise,                \* what create_instance() of each instance awaits
    closing                 \* the callers inside exit() of the pool

(***************************************************************************)
(* The history of two overlaps that the code does not prevent: what was    *)
(* pushed while somebody was inside exit(), and, for each instance, the    *)
(* namesakes that were being created when it was: the pool does not hold   *)
(* them yet when its Name is looked up.                                    *)
(***************************************************************************)
VARIABLES late, rivals

overlapVars == <<late, rivals>>

poolVars == <<processVars, instances, weighted_list, load_balance_method,
              data_directory, promise, closing, overlapVars>>

(***************************************************************************)
(* "mkdir" awaits the parent directory, "pending" the start of the process *)
(* and then its first ready or error event.                                *)
(***************************************************************************)
PromiseStates == {"none", "mkdir", "pending", "resolved", "rejected"}

Members == Range(instances)

PoolTypeOK ==
    /\ ProcessTypeOK
    /\ instances \in Seq(Instance)
    /\ weighted_list = NoList \/ weighted_list \subseteq Instance
    /\ load_balance_method \in Methods
    /\ data_directory \in BOOLEAN
    /\ promise \in [Instance -> PromiseStates]
    /\ closing \subseteq Call
    /\ late \subseteq Instance
    /\ rivals \in [Instance -> SUBSET Instance]

Init ==
    /\ ProcessInit
    /\ instances = <<>>
    /\ weighted_list = NoList
    /\ load_balance_method \in Methods
    /\ data_directory \in BOOLEAN
    /\ promise = [i \in Instance |-> "none"]
    /\ closing = {}
    /\ late = {}
    /\ rivals = [i \in Instance |-> {}]

SameName(i, j) == i \in Named /\ j \in Named /\ InstanceName[i] = InstanceName[j]
Idle(c) == exiting[c] = {} /\ c \notin closing

-----------------------------------------------------------------------------
(* Mutated form: the Name is not looked up in the pool. *)
BeginUnchecked(S) ==
    /\ Create(S)
    /\ promise' = [i \in Instance |-> IF i \in S THEN "pending" ELSE promise[i]]
    /\ weighted_list' = NoList
    /\ UNCHANGED <<instances, load_balance_method, closing, overlapVars>>

(***************************************************************************)
(* create_instance() for all of S in one macrotask, once the parent        *)
(* directory is there: those whose Name is in the pool are rejected, the   *)
(* others start a process and drop the weighted list.                      *)
(***************************************************************************)
Begin(S) ==
    LET taken == {i \in S : \E m \in Members : SameName(i, m)}
        fresh == S \ taken
    IN  /\ Create(fresh)
        /\ promise' = [i \in Instance |-> CASE i \in taken -> "rejected"
                                            [] i \in fresh -> "pending"
                                            [] OTHER -> promise[i]]
        /\ weighted_list' = IF fresh = {} THEN weighted_list ELSE NoList
        /\ rivals' = [i \in Instance |->
                        IF i \in fresh
                        THEN {j \in Instance \ {i} : /\ j \in fresh \/ stage[j] = "creating"
                                                     /\ SameName(i, j)}
                        ELSE rivals[i]]
        /\ UNCHANGED <<instances, load_balance_method, closing, late>>

(* add(): create_instance() is mapped over all the definitions at once. *)
Add(S) ==
    /\ \A i \in S : promise[i] = "none"
    /\ IF data_directory
       THEN Begin(S)
       ELSE /\ promise' = [i \in Instance |-> IF i \in S THEN "mkdir" ELSE promise[i]]
            /\ UNCHANGED <<processVars, instances, weighted_list, load_balance_method,
                           closing, overlapVars>>
    /\ UNCHANGED data_directory

(* mkdir of the parent is back, and the instance is created. *)
MkdirDone(i) ==
    /\ promise[i] = "mkdir"
    /\ ~data_directory
    /\ Begin({i})
    /\ data_directory' = TRUE

(* mkdir is rejected: another creation was first (EEXIST), or any error. *)
MkdirFails(i) ==
    /\ promise[i] = "mkdir"
    /\ promise' = [promise EXCEPT ![i] = "rejected"]
    /\ UNCHANGED <<processVars, instances, weighted_list, load_balance_method,
                   data_directory, closing, overlapVars>>

(* Mutated form: add() is back as soon as the process has started. *)
PushResolving(i) ==
    /\ Spawn(i)
    /\ instances' = Append(instances, i)
    /\ promise' = [promise EXCEPT ![i] = "resolved"]
    /\ UNCHANGED <<weighted_list, load_balance_method, data_directory, closing, overlapVars>>

(* instance.create() resolves: push, and listen for ready and error. *)
Push(i) ==
    /\ Spawn(i)
    /\ instances' = Append(instances, i)
    /\ late' = IF closing = {} THEN late ELSE late \union {i}
    /\ UNCHANGED <<weighted_list, load_balance_method, data_directory, promise, closing, rivals>>

(* Mutated form: the push does not depend on how create() ended. *)
CreateRejectedPushed(i) ==
    /\ CreateFails(i)
    /\ instances' = Append(instances, i)
    /\ promise' = [promise EXCEPT ![i] = "rejected"]
    /\ UNCHANGED <<weighted_list, load_balance_method, data_directory, closing, overlapVars>>

(* create() rejects: the instance is no member, and nobody asks it again. *)
CreateRejected(i) ==
    /\ CreateFails(i)
    /\ promise' = [promise EXCEPT ![i] = "rejected"]
    /\ UNCHANGED <<instances, weighted_list, load_balance_method, data_directory,
                   closing, overlapVars>>

(* The first event settles the promise.  A later error changes nothing:    *)
(* the one listener takes it, or, where that is used up, nobody does, and  *)
(* the emitter of the instances (eventemitter3) does not throw for that.   *)
Settle(i, outcome) ==
    promise' = IF promise[i] = "pending" THEN [promise EXCEPT ![i] = outcome] ELSE promise

ReadyEvent(i) ==
    /\ Ready(i)
    /\ Settle(i, "resolved")
    /\ UNCHANGED <<instances, weighted_list, load_balance_method, data_directory,
                   closing, overlapVars>>

ErrorEvent(i) ==
    /\ Spawned(i)
    /\ Settle(i, "rejected")
    /\ UNCHANGED <<processVars, instances, weighted_list, load_balance_method,
                   data_directory, closing, overlapVars>>

-----------------------------------------------------------------------------
(* next() by round_robin: rotated in place, the list stays as it is. *)
NextRoundRobin ==
    /\ load_balance_method = "round_robin"
    /\ instances' = Rotate(instances)
    /\ UNCHANGED <<processVars, weighted_list, load_balance_method, data_directory,
                   promise, closing, overlapVars>>

(***************************************************************************)
(* next() by weight: the list is built where there is none, which needs    *)
(* every Weight, and as many different entries are drawn from it as there  *)
(* are instances; peek() throws when it has fewer.  The array is replaced  *)
(* by what was drawn and takes the list along.                             *)
(***************************************************************************)
NextWeighted ==
    LET list == IF weighted_list = NoList THEN Members ELSE weighted_list
    IN  /\ load_balance_method = "weighted"
        /\ weighted_list = NoList => Members \subseteq Weighted
        /\ Len(instances) <= Cardinality(list)
        /\ instances' \in Injection(1..Len(instances), list)
        /\ weighted_list' = list
        /\ UNCHANGED <<processVars, load_balance_method, data_directory, promise, closing,
                       overlapVars>>

(* Nobody checks the method.  With one that there is none of, next() throws *)
(* and changes nothing, until another method is set.                       *)
SetLoadBalanceMethod(m) ==
    /\ load_balance_method' = m
    /\ UNCHANGED <<processVars, instances, weighted_list, data_directory, promise, closing,
                   overlapVars>>

-----------------------------------------------------------------------------
(* Mutated form: the cached list survives a removal. *)
TakeOutKeepingList(c, at, n) ==
    /\ instances' = Spliced(instances, at, n)
    /\ ExitAll(c, SplicedOut(instances, at, n))
    /\ UNCHANGED <<weighted_list, load_balance_method, data_directory, promise, closing,
                   overlapVars>>

(* The instances are out of the pool at once, and then their exits awaited. *)
TakeOut(c, at, n) ==
    /\ weighted_list' = NoList
    /\ instances' = Spliced(instances, at, n)
    /\ ExitAll(c, SplicedOut(instances, at, n))
    /\ UNCHANGED <<load_balance_method, data_directory, promise, closing, overlapVars>>

(* remove(n, at); remove_at(at) is the case n = 1, and throws past the end. *)
RemoveInstances(c, at, n) ==
    /\ Idle(c)
    /\ TakeOut(c, at, n)

(* The first instance of that name is the one removed. *)
RemoveByName(c, i) ==
    /\ Idle(c)
    /\ i \in Named
    /\ \E k \in DOMAIN instances :
          /\ SameName(instances[k], i)
          /\ \A j \in 1..(k - 1) : ~SameName(instances[j], i)
          /\ TakeOut(c, k - 1, 1)

(* exit(): the exits of all the members are awaited ... *)
ExitPool(c) ==
    /\ Idle(c)
    /\ ExitAll(c, Members)
    /\ closing' = closing \union {c}
    /\ UNCHANGED <<instances, weighted_list, load_balance_method, data_directory, promise,
                   overlapVars>>

(* ... and then the array is replaced by an empty one, which has no list. *)
ExitDone(c) ==
    /\ c \in closing
    /\ exiting[c] = {}
    /\ instances' = <<>>
    /\ weighted_list' = NoList
    /\ closing' = closing \ {c}
    /\ UNCHANGED <<processVars, load_balance_method, data_directory, promise, overlapVars>>

(* The process ends; nothing in the pool listens for that. *)
ProcessEnds(i) ==
    /\ Close(i) \/ Deleted(i) \/ DeleteFails(i)
    /\ UNCHANGED <<instances, weighted_list, load_balance_method, data_directory,
                   promise, closing, overlapVars>>

-----------------------------------------------------------------------------
(* create_instance() and what the instance says of itself. *)
Creating ==
    \/ \E S \in SUBSET Instance \ {{}} : Add(S)
    \/ \E i \in Instance : MkdirDone(i)
    \/ \E i \in Instance : MkdirFails(i)
    \/ \E i \in Instance : Push(i)
    \/ \E i \in Instance : CreateRejected(i)
    \/ \E i \in Instance : ReadyEvent(i)
    \/ \E i \in Instance : ErrorEvent(i)

Removing ==
    \/ \E c \in Call, at \in 0..Len(instances), n \in 1..Len(instances) :
            RemoveInstances(c, at, n)
    \/ \E c \in Call, i \in Named : RemoveByName(c, i)
    \/ \E c \in Call : ExitDone(c)

Other ==
    \/ \E m \in Methods : SetLoadBalanceMethod(m)
    \/ \E c \in Call : ExitPool(c)
    \/ \E i \in Instance : ProcessEnds(i)

Next ==
    \/ Creating
    \/ NextRoundRobin
    \/ NextWeighted
    \/ Removing
    \/ Other

Spec == Init /\ [][Next]_poolVars

(* A process that got SIGINT dies, and the file system answers. *)
Fairness ==
    \A i \in Instance :
        /\ WF_poolVars(i \in killed /\ stage[i] = "running" /\ ProcessEnds(i))
        /\ WF_poolVars(stage[i] = "closed" /\ ProcessEnds(i))

FairSpec == Spec /\ Fairness

-----------------------------------------------------------------------------
(* What a member of the pool is: one entry per instance, whose process was *)
(* started, so that exit() and the proxies may use it at any time.         *)
PoolSound ==
    /\ IsInjective(instances)
    /\ \A i \in Members : Spawned(i)

(* The ready event is never missed: it cannot fire before create_instance  *)
(* listens, and the promise is resolved only by it.                        *)
AddOutcome ==
    \A i \in Instance :
        /\ i \in ready => promise[i] \in {"resolved", "rejected"}
        /\ promise[i] = "resolved" => i \in ready

(* The cached list of next() never offers an instance that was removed:    *)
(* each removal, and exit(), drops the list before anything else runs.     *)
ListWithinPool == weighted_list # NoList => weighted_list \subseteq Members

(* Only the end of its own create() brings an instance in: no reordering,  *)
(* and no list that is out of date, ever brings back one that was removed. *)
OnlyCreationJoins ==
    [][\A i \in Members' \ Members : stage[i] = "creating" /\ stage'[i] = "running"]_poolVars

(* What the proxy servers rely on, whatever calls of the pool overlap: an  *)
(* instance joins the pool once, and never comes back when it was removed; *)
(* it is ready, and it dies, only after it has joined, and is not ready    *)
(* for the first time when it has died.                                    *)
View == INSTANCE PoolView WITH
            pool <- Members,
            joined <- {i \in Instance : Spawned(i)},
            down <- {i \in Instance : stage[i] \in {"closed", "exited", "stuck"}}

ServesProxies == View!Spec

(* No Tor process is lost but one way: what runs and was not told to end   *)
(* is in the pool, where exit() will find it, unless it was pushed while   *)
(* an exit() was awaited, whose end throws away the array as it is then.   *)
NoOrphan ==
    \A i \in Instance :
        stage[i] = "running" /\ i \notin killed => i \in Members \/ i \in late

(* Two members have one Name only when one was being created while the     *)
(* other's Name was looked up: no removal, failed creation or exit() in    *)
(* between makes create_instance() let in the Name of a member.            *)
UniqueNames ==
    \A i, j \in Members : SameName(i, j) => i = j \/ j \in rivals[i] \/ i \in rivals[j]

(* next() by weight can always serve the pool, as its doc says: the list   *)
(* that peek() draws from holds an entry for every instance.               *)
ListCoversPool == weighted_list # NoList => Len(instances) <= Cardinality(weighted_list)

(* The promise of remove*() and exit() resolves when the processes are     *)
(* dead.                                                                   *)
RemovalSettles == \A c \in Call : exiting[c] # {} ~> exiting[c] = {}
=============================================================================
