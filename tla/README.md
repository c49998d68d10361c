# Verification of tor-router

TLA+ specifications of [tor-router](../src/README.md), a SOCKS, HTTP and DNS
proxy in front of a pool of Tor processes, with TLC configurations that check
them on small instances and TLAPS proofs that hold for every instance. Paths of
source files below are relative to `src/src/`.

## 1. The system

The program is one Node.js process. All of it runs on one JavaScript thread:
what happens between two `await`s, or in one event handler, is not interrupted,
and everything else interleaves. That is the grain of the models: **one action
is one macrotask**.

| Component | Source | State | Operations | Talks to |
|---|---|---|---|---|
| Tor process | `TorProcess.js` | the child process, its data directory, its ports, the flags its output raises, the controller | `create`, `exit`, stdout/stderr/close handlers, control-port commands | the Tor child (signals, output, control socket), the file system |
| Pool | `TorPool.js` | `_instances`, the cached `_weighted_list`, `load_balance_method`, the parent data directory | `create_instance`, `add`, `create`, `remove*`, `exit`, `next`, fan-outs of commands | constructs Tor processes, waits for their `ready`, `error`, `process_exit`; emits `instance_created` |
| Groups | `TorPool.js` | `definition.Group` and `_index` of each instance; the groups themselves are computed on each access | `groups[g].add/remove/rotate`, `next_by_group`, `add/remove_instance_to/from_group*` | the pool's array |
| SOCKS server | `SOCKSServer.js` | per connection: inbound and outbound socket, buffer, chosen instance | authenticate, route, wait, buffer, tunnel, close | `next()`, `next_by_group()`, `instance_by_name()`, `ready`, `instance_created` |
| HTTP server | `HTTPServer.js` | the same for CONNECT; request body buffer and response for plain requests | the same | the same |
| DNS server | `DNSServer.js` | per request: the shared response | forward each question, answer | `next()`, `instance_created` |
| Control server | `ControlServer.js` | the current pool, the servers, RPC methods | RPC to pool and servers, `createTorPool`, `create*Server` | all of the above |
| Application | `launch.js` | start-up and shutdown | start, clean-up on signals and uncaught exceptions | the control server |
| Configuration | `default_*.js`, `nconf_load_env.js` | constants | none | nconf |

What makes the system hard, and what would make each part correct:

- **Tor process.** `create()` awaits ports and a file before it spawns; the
  process may die at any time; `exit()` waits for an *event*, so that it
  matters whether the event comes after the listener. Correct: `exit()`
  resolves exactly when the process is dead and what should be deleted is;
  the flags say what is the case.
- **Pool.** No call is serialised with another. `create_instance()` checks the
  name and drops the weighted list *before* it awaits, and pushes *after*;
  `exit()` awaits between looking at the members and dropping them. Correct:
  the array holds each live instance once; no process is lost; names are
  unique; `next()` is fair; a removed instance does not come back.
- **Groups.** The array of a group is thrown away after each use; only an
  `_index` per instance survives, shared by all groups. Correct: each group is
  served in turn.
- **Proxies.** A connection may come before any instance is ready, the
  instance it names may be removed while it waits, either end may close at any
  time. Correct: it is routed where its name says, it waits for nothing that
  has happened already, data arrives complete and in order, nothing crashes. A
  request's body and its end are passed on once, whenever they come; a DNS
  request is replied to although its Tor has died.
- **Commands.** A fan-out gives one command to many instances, of which some
  have no controller, some refuse, and some lose their connection. Correct: a
  promise that resolves says what was done.
- **Start and shutdown.** Creations, removals, a new pool, a second signal come
  while the clean-up awaits the pool. Correct: the program ends, every Tor it
  can find has been told to, and a clean exit leaves nothing behind.

`PROJECT.json` lists these hazards at the lines where they bite, with the
properties that cover them, and those not covered yet with the reason.

## 2. Modules

| Module | Extends / uses | Models |
|---|---|---|
| `TorProcess` | | state and actions of the child processes; no `Next` of its own |
| `TorControl` | `TorProcess` | an instance by itself: stdout markers, flags, control connection |
| `PoolCommands` | `TorControl` | commands over the control connection, to one instance or fanned out to many |
| `JsArray` | | `Array.prototype.rotate` and `splice` as operators on sequences |
| `TorPool` | `TorProcess`, `JsArray`; instance of `PoolView` | the pool, with every call it offers that changes it; refines `PoolView` |
| `FairSelection` | | **abstract**: what round robin promises, with no array at all |
| `TorPoolFair` | `TorPool`; instance of `FairSelection` | the pool in `round_robin` mode with a history variable, refining `FairSelection` |
| `PoolView` | | **abstract**: the pool as the proxy servers see it, with no array, no names and no callers |
| `InstanceGroups` | instance of `FairSelection` | groups over the saved indexes, refining `FairSelection` per group |
| `ProxyConnection` | instance of `PoolView` | admission, routing and waiting at all three proxy servers; the tunnels of SOCKS and CONNECT |
| `ProxyRequest` | `ProxyConnection` | plain HTTP requests and DNS requests, composed with the connections |
| `Application` | `TorProcess` | `launch.js` and the control server: start, generations of pools, clean-up |
| `MC*` | the module they are named for | small constants for TLC |
| `*Proofs` | the module they are named for, `TLAPS` | theorems and their proofs |

### TorProcess

`stage[i]` is the life of instance `i`: `new`, `creating` (in `create()`, before
`spawn`), `running`, `closed` (the child's `close` event came and the deletion
of the directory is awaited), `exited` (`process_exit` was emitted), `stuck`
(the deletion was refused: the close handler rejects and emits nothing), and
`failed` (`create()` rejected). `directory` is the set of data directories that
exist; `exiting[c]` the `process_exit` events that caller `c` still awaits, so
that `exit()` has resolved when it is empty. `ExitAll(c, S)` is the body of
`exit()` on all of `S`: listener and SIGINT, **without** a look at whether the
process is alive, as in the code. `TorControl` adds `Output(i, M)`, one chunk
of stdout with the markers `M`; the control connection it opens goes to
`this.control_port`, which is undefined unless the definition carried its
ports (`Ported`), because `create()` keeps the ports it asked for in locals.
`control_port_connected` is never cleared, neither when the control socket is
lost nor when the process ends; `SocketLost` and `Close` leave it as it is, and no
property relies on it.

### PoolCommands

| Code | Action |
|---|---|
| `new_identites()` and by group, index, name; SIGHUP, which does not await it | `NewIdentities(k, S)` |
| `get_config_at`, `get_config_by_name` | `GetConfig(k, i)` |
| `set_config_all` and by group, index, name | `SetConfig(k, S)` |
| `signal_all` and by group, index, name | `SendSignal(k, S)` |
| the answer of Tor to one instance | `Executed(k, i)`, `Refused(k, i)` |

All four are one operator, `FanOut`, which differs in two points that the code
differs in: whether an instance **without a controller** refuses (`set_config`
*returns* its Error, and is taken for success), and whether the answer is
**awaited** (`signal` is called without a callback and yields nothing to
await). A member of `Scope` stands for what a call names: the pool, a group, one
index. `Promise.all` rejects with the first refusal while the other answers
still come in, so that `outcome` and `unanswered` are separate. What a caller may
conclude from a call that resolved is `ResolvedMeansExecuted`, which exempts
`set_config`; that the documentation does not exempt it is `UnconnectedThrows`, which the
code violates.

### TorPool

| Code | Action |
|---|---|
| `add()`, `create(n)`: `create_instance()` on all definitions in one macrotask | `Add(S)`, and `Begin(S)` where the parent directory is there |
| `mkdirAsync` of the parent directory is back, or is rejected | `MkdirDone(i)`, `MkdirFails(i)` |
| `instance.create()` resolves, `_instances.push`, listeners | `Push(i)` |
| `instance.create()` rejects | `CreateRejected(i)` |
| `ready`, `error` of an instance | `ReadyEvent(i)`, `ErrorEvent(i)` |
| `next()` | `NextRoundRobin`, `NextWeighted` |
| assignment of `load_balance_method` | `SetLoadBalanceMethod(m)` |
| `remove(n, at)`, `remove_at(at)` | `RemoveInstances(c, at, n)` |
| `remove_by_name(name)` | `RemoveByName(c, i)` |
| `exit()` up to and after its `await` | `ExitPool(c)`, `ExitDone(c)` |
| the child's `close` handler | `ProcessEnds(i)` |

`promise[i]` is what the promise of `create_instance()` is doing. The resolution
of `create()` and the push are one action: only microtasks lie between them.
Nothing serialises the calls, and two overlaps go wrong in the code: an instance
pushed while `exit()` is awaited is dropped without a signal, and two creations of one
Name at a time both pass the check. The history variables `late` and `rivals` record
exactly these: what was pushed while a caller was inside `exit()`, and which namesakes were
being created when an instance was. `NoOrphan` and `UniqueNames` hold for all
callers and say that these are the only ways: a live process that nobody signalled is
in the pool or `late`, and two members share a Name only as `rivals`. The variables are read by no
action.

`NextWeighted` models WeightedList (an external library) by how it is used: a list
of distinct entries, from which `peek(n)` draws `n` different ones in any order
and throws when it has fewer. A `next()` that throws changes nothing
here and is no action; `load_balance_method` may be set to anything, and with a method that
does not exist every `next()` throws. What a throw does to the proxies is `NextThrows` in
`ProxyConnection`. `Rotate` is `rotate(1)`, the only use the code has for it.

### Fair selection

`FairSelection` knows members and, for each, whom it saw served since its own
turn. `Serve(m)` is allowed only if no other member has already seen `m`
served. `Leave(S)` removes members and may cost one of those who stay what it
was owed. That exception is the code's: `next()` returns the *head* of the array it has
just rotated, so the head is the member served last, and when it is removed its
successor becomes head, and is treated as served, without having been.

`RejoiningSpec` adds `JoinAhead(m)`: an arrival may cost the others a turn by giving
one of those who are there, the last served, another. The pool needs no such exception (it
appends), the groups do.

### InstanceGroups

`Position(g, i)` is the index of `i` in `groups[g]`, which the code sorts by
`_index` and then by name on each access; `SaveIndex(g, n)` is `save_index()`
after a rotation by `n`. `groups[g].add` and `remove` save the array as it was
*before* the change, which is why they are `SaveIndex(g, 0)` over the old members.
An instance keeps its `_index` when it leaves a group. So one that comes back, as in
`src/test/TorPool.js:819-841`, or moves here from another group, may sort first: with
`a`, `b`, `c` each served once and `a` removed, the next turn is `c`'s; when `a` returns with
index 0 it is the head, the turn after that is `c`'s again, and `b` waits. This is
`JoinAhead` with the last served, `c`, as the one that gets another turn; `Welcome` is what it does to
the history. The constant `Overlap` says whether an instance may be in two groups
*at once* (`MayJoin`); leaving, coming back and moving are always allowed. `passed` is a history of one group, `Watched`; the configurations make it one
of two symmetric group names.

### PoolView

The seam between the pool and its users. Instances join once, before they are
ready, may be removed at any time, several at once (`remove(n)`, `exit()`), and
become ready or die in the pool or out of it. `ProxyConnection` takes its
`Init` and these four actions from here and adds what the proxies' listeners do;
`TorPool` implements it (`ServesProxies`), with `pool` the range of its array,
`joined` the spawned and `down` those whose close event has come. So
what is shown of the proxies does not rest on a guess about the pool.

### ProxyConnection and ProxyRequest

One `state` per connection, the instance it was given (`via`), its sockets, and
for SOCKS the chunks `1, 2, ...` its client sends, which are `buffer`ed, then
`delivered`. `Identified[c]` is the set of instances that the username of `c`
names (one instance in `individual` mode, the members in `group` mode; empty for
a server without `proxy_by_name`, or an HTTP request without credentials).
`Identified` is a constant: a group that changes while a connection waits
is not modelled (the instance was chosen before, so nothing looks the group up again,
but for the second lookup of SOCKS, where leaving the pool and leaving the group come to the same).
`freed[c]` says that `onClose` has run. The two servers differ in ways that matter:
SOCKS attaches its listeners before it waits and CONNECT after; SOCKS looks
up the name a second time after authentication and CONNECT does not; CONNECT
leaves the bytes to `pipe()`. `crashed` is an uncaught exception; `Next` stops there,
because `launch.js` then only cleans up. A `next()` that throws is such an exception at all
three servers (`NextThrows`, where the constant `NextMayThrow` allows it).

`Request` are the plain HTTP and DNS requests. They arrive, are denied (also for
want of a name, `Unidentified`), wait and are given to an instance exactly as the
others, and so `ProxyConnection` has that part; the listener that finds the
instance calls `connect()` in the same macrotask, and for a request the state
`connecting` stands for that call and all that follows. `ProxyRequest` conjoins
`Next` with what `connect()` does:

| Code | Action |
|---|---|
| `connect()` of a plain request: listener exchanged, buffer written, end passed on | `HandOverBody` |
| `data`, `end` of the body | `BodyChunk(c)`, `BodyEnds(c)` |
| the client aborts, before or after `connect()`: no `end` comes, and `req` may err, which is `onError` too | `ClientAborts(c)` |
| `response` of `proxy_req`, and its end | `Responds(c)`, `ResponseEnds(c)` |
| `error` of `proxy_req`, before or after any response | `ProxyFails(c)` |
| `res.writeHead()`, which throws where a head was written before | `WriteHead(c, answer)` in the three |
| `connect()` of a DNS request: every question sent | `HandOverQuestions` |
| `message`, `timeout` of a question, then `end`: the shared response is sent | `Answered(d, q)`, `TimedOut(d, q)` |

`replies[d]` records what was in the one response each time it was sent, once per
question. `http`, the SOCKS agent and native-dns are external.

The pool appears as in `PoolView`: its members (`pool`), those that ever joined, those ready
and those dead; `next()` is any member, which `TorPoolFair` refines.

### Application

A pool is the set of its members here; `current` is the pool of the control
server, `home[i]` the pool `i` was created in, `target[c]` the pool whose
`exit()` caller `c` is inside. Who uses which pool is the point:

| Code | Pool |
|---|---|
| `createInstances`, `addInstances`, `main()`, `cleanUp` | the current one |
| `removeInstances`, `removeInstanceAt`, `removeInstanceByName`, `closeInstances` | the first, which their RPC methods were bound to |
| an instance that is being created | the one it was created in |

| Code | Action |
|---|---|
| `listenTcp()` resolves: servers told to listen, instances created | `ControlListens(S, T)` |
| a rejection up to here, or of an instance `main()` awaits | `ControlFails`, `StartFails(i)` |
| a signal or an unbindable server before the handlers are installed | `Interrupted`, `BindFails` |
| `cleanUp` as handler of a signal or of an uncaught exception, up to its `await` | `CleanUp(c, error)` |
| its rest: array emptied, `process.exit()`, and the `exit` event that calls `cleanUp` again | `CleanUpDone(c)` |
| RPC `createInstances`/`addInstances`, the remove family, `closeInstances` and its return | `CreateInstances`, `RemoveInstances`, `CloseInstances`, `InstancesClosed` |
| RPC `createTorPool`, `create*Server` | `CreateTorPool`, `CreateServer(s)` |

`CleanUpDone` need not follow the last `process_exit` at once in the model
although only microtasks lie between them in the code: the model has more
interleavings than the program, never fewer. A websocket port that cannot be
bound only logs a warning, and has no action. An instance pushed while its pool's `exit()` is
awaited is dropped without being signalled (`NoOrphan` in `TorPool` is
about that); the history `late` names those, and the shutdown properties exclude them
and no others.

## 3. Runs

| Run | Expect | What it shows |
|---|---|---|
| `control` | pass | exit() of a live process resolves, only when it is dead and its directory treated as its Name demands; a command that resolved was executed, and one to connected Tors settles |
| `set_config_unconnected` | violation | `set_config` of an unconnected instance resolves, though its doc says that it throws |
| `pool` | pass | the pool under unserialised calls and both load balance methods; the proxies may rely on `PoolView` |
| `pool_fair` | pass | round robin is fair; a process is lost, and a Name doubled, only by the two overlaps that are recorded |
| `pool_weighted` | violation | a `next()` during one creation makes later `next()`s throw |
| `pool_removal` | violation | removing an instance that died by itself never resolves |
| `groups` | pass | groups rotate and serve in turn while no instance is in two at once; only a joiner that takes the head gives the last served another turn |
| `groups_overlap` | violation | they do not when one is, even with that exception |
| `connections` | pass | data and bodies whole and in order, requests routed by name or denied, nobody misses the event it waits for, DNS requests replied to though Tor dies |
| `connections_crash` | violation | a failed connection and one more chunk crash the program |
| `connections_routing` | violation | a SOCKS connection is routed elsewhere when its instance is removed after authentication |
| `application` | pass | a program that cleans up ends, has told every Tor it could find to end, and with status 0 leaves nothing of the pool it closed |

The six violations are findings; `PROJECT.json` quotes the doc or changelog line
each of them contradicts.

**Bounds.** `control` has two instances, one named and one not, because that is
the only distinction between them, and two callers, so that two may wait for one
process; its one command goes to both instances or, for `get_config`, to one,
each with or without a controller, and a second command would only be its own bookkeeping: calls
share nothing but the connections, which they do not change. `pool` has three instances, two of one Name (any order of two
creations and one bystander), two callers and the two methods there are (with a third value
`next()` throws, which changes nothing). `pool_fair` has three
instances, two of one Name, and two callers as well: a member passed by another while a third
serves needs three, and the overlap of two calls, two callers. Larger instances are left to the
theorems. Both use symmetry over callers and over
the two namesakes, which no property tells apart, and only with invariants, box-action properties
and refinements without liveness. `pool` compares states without the two history variables, `killed` and `directory`
(`NoHistory`): no guard reads them, and no property of that run is about more than their types. `groups` has four instances and two groups, and `groups_overlap`, which
already fails with fewer, three. `connections` offers SOCKS,
CONNECT and plain requests with a username and without (the plain one without to
a server that denies it), and a DNS request of two questions, with `next()` that may throw; at most `MaxOpen = 2`
of them are made in one behaviour, which is enough because
connections never touch each other: they share the pool, and a second one
only shows that an event serves all its listeners. `MaxData = 2` and `MaxBody = 2` are one chunk
before and one after the connection is there, or two in the wrong order. The two runs beside it have
only the connection they are about, and a `next()` that does not throw, which would be a shorter way to a crash. `set_config_unconnected`
has the instances of `control`. `application` has two pools (`MaxPools`: the first, to
which RPC methods stay bound, and the one in its place), a named and an unnamed
instance, one RPC client and two clean-ups: a third would meet what the second meets. An instance is created
once (a fresh `TorProcess` has a fresh id); no counter but these is
bounded. `CHECK_DEADLOCK FALSE` everywhere: when every instance is gone and
every connection closed, the system really has nothing to do.

**Fairness** is assumed only where a liveness property needs it, in
`Fairness` of `TorControl`, `TorPool`, `PoolCommands` and `Application`: a process that was sent SIGINT eventually
closes (Tor exits on SIGINT, and Node then emits `close`), and an awaited
deletion is eventually done or refused. `PoolCommands` adds that a Tor
whose control connection is authenticated answers what it was asked (one that
has lost it is owed nothing, and `FanOutSettles` says so); `ProxyRequest` that
the timer native-dns starts with each question fires; `Application` that what
follows a resolved `await` is run. Nothing is assumed of `create()`, of
bootstrapping, of clients or of callers. `ExitSettles`, `FanOutSettles`,
`DnsReplied` and `CleanUpEnds` hold under it and `RemovalSettles` does not.
`CleanUpEnds` excludes what `RemovalSettles` is about, a member that was dead
before the clean-up, and deletions that were refused: with either the program
never ends.

## 4. Proofs

| Module | Theorems | Argument |
|---|---|---|
| `JsArrayProofs` | lemmas on push, rotate, splice and drawing: what happens to the range and to injectivity | positions of the array |
| `TorProcessProofs` | `ProcessInvariant`, `ProcessKeepsDirectory`, `ProcessExitMeansDead`, `ProcessExitWakesAll`, all of `ProcessSpec` | `ProcessInv` |
| `TorControlProofs` | an instance: `ControlImplementsProcess`, `ControlTypeCorrect`, `DirectoriesKept`, `ExitMeansDead`; under commands: `CommandsKeepControl`, `CommandTypeCorrect`, `FanOutTruthful`, `ExitMeansDeadUnderCommands` | `ControlInv`, `CommandInv`, refinement |
| `TorPoolProofs` | `TypeCorrect`, `PoolIsSound`, `ListStaysWithinPool`, `ReadyNotMissed`, `JoinsByCreation`; `OverlapInvariant`, `NoProcessLost`, `NamesAreUnique`; `PoolImplementsProcess`, and by it `PoolKeepsDirectories`, `PoolExitsTheDead`; `PoolServesProxies`; `WeightedListCovers` | `PoolInv`, `OverlapInv`, `ListExact`, refinement |
| `TorPoolFairProofs` | `PassedBehind`, `PoolServesInTurn` | `FairInv` |
| `InstanceGroupsProofs` | `GroupTypeCorrect`, `NextTurnsTheArray`; while no instance is in two groups at once, `GroupServesInTurn`, and `FirstJoinersServeStrictly` | arithmetic of saved positions, `LineInv` |
| `ProxyRequestProofs` | `ConnectionTypeCorrect`, `SocksBytesInOrder`, `RequestsRoutedAsNamed`, `SocksRoutedWhileNamed`, `WakeupsNotMissed`, `RequestTypeCorrect`, `BodiesPassedOn` | `RequestInv`, `SocksNamed` |
| `ApplicationProofs` | `AppTypeCorrect`, `EndSignalsAll`, `CleanEnd`; `ProgramImplementsProcess`, and by it `ProgramKeepsDirectories`, `ProgramExitsTheDead` | `AppInv`, refinement |

Assumptions are those on the constants, named in the modules that declare
them (`ProcessAssumption`, `ControlAssumption`, `PoolAssumption`,
`RoundRobinOnly`, `GroupAssumption`, `CommandAssumption`, `ConnectionAssumption`,
`RequestAssumption`, `ApplicationAssumption`); no bound on the number of
instances, groups, callers, connections, chunks, questions or pools. Five
theorems have a hypothesis more, four of them what separates a finding from the
rest of the behaviours; see the end of this section.

- **`ProcessInv`** adds `DeletionsUnnamed` to `DirectoryKept`: only an unnamed
  instance is ever `closed` or `stuck`. Without it a `Deleted` step of a named
  instance would break `DirectoryKept`. The box property `ExitResolvesDead`
  follows in the same case analysis. `ProcessSpec` (in `TorProcessProofs`) is
  the processes alone: it leaves open who calls `create()` and `exit()`, and on
  what, and asks only that a caller of `exit()` is back before it calls again.
  That an instance, the pool and the program implement it is proved
  step by step (`StepMovesProcess`, `PoolMovesProcess`, `AppMovesProcess`);
  what is known of a process is then known wherever it is used.
  `ProcessExitWakesAll` is the safety half of `ExitSettles`: `process_exit`
  leaves no caller of `exit()` waiting.
- **`PoolInv`** is `PoolTypeOK`, `PoolSound`, `ListWithinPool`, `AddOutcome` and
  `StagesMatch`. The last relates a process to the promise that started it; it
  is what makes an instance that is about to be pushed new to the array (it is
  `creating`, members are spawned), and a `ready` event impossible before the
  listener is there. None of the others is inductive without it.
- **`PoolServesProxies`** goes through the actions (`PoolSeenStep`): each is seen as
  at most one join, removal, `ready` or death. What shrinks, reorders or empties the
  array is a removal of some or of none (`SeenAsRemoval`), and for a reordering that rests
  on `ListWithinPool`: a list drawn from with a removed instance in it would bring that
  back. What starts a creation is not seen at all (`StartUnseen`). The run `pool` checks
  the same for both load balance methods.
- **`OverlapInv`** has beside `NoOrphan` and `UniqueNames` what makes them inductive: while a caller
  is inside `exit()`, all members are signalled or `late` (`LateOnly`), so that emptying
  the array loses only the late; and an instance in creation shares its Name with another, or with a
  member, only where one of the two has recorded the other as rival (`CreationsApart`), so
  that its push doubles no other Name. The proof of `NoOrphan` uses that what leaves the
  array by `splice` is exactly what is signalled. No caller is restricted.
- **`FairInv`** says that the history stays within the members and that whoever
  passed a member stands behind it in the line (`PassedStandBehind`), the
  line being the array after its head and then the head. From it each step of the
  pool is a `Join`, `Serve` or `Leave` of `FairSelection`, or a stutter.
- **Saved positions.** `Position` counts who stands before, in the order by
  `_index` and name; the lemmas `GroupIsFinite` to `PositionIsTaken` show that it
  numbers the members of a group from 0 without a gap. Hence what `save_index()`
  writes after a turn by `n` is again such a numbering (`SavedIndex`), and sorting by
  it gives the turned array back (`SortedAsSaved`), whether the indexes were
  shared, missing or had gaps before. That is `NextTurnsTheArray`; it needs
  only `TypeOK`.
- **`LineInv`** is `FairInv` for an array that exists only in the indexes. Whoever
  passed a member stands behind it (`PassedStandBehind`), the head standing last. A join
  (`LineJoined`) is a `Join` where the head stays, and where the joiner takes the head, the head
  before it is at the front of the line now: `JoinAhead`. The line survives the rotation of
  another group because no instance is in two at once (`OneGroup`).
  `FirstJoinersServeStrictly` closes the gap: where who joins has no saved `_index`
  (`JoinsUnindexed`), it stands behind those that have one, and whoever was served has one
  (`PassedIndexed`), so that the group implements `FairSelection` itself, without `JoinAhead`.

- **`CommandInv`** says where a promise stands: a pending call awaits exactly
  those it asked that have not executed, and was given to all its targets
  unless it is `set_config`. That a controller is never forgotten
  (`ControllerStays`) keeps the rest. Since no command touches the process,
  `CommandsKeepControl` carries `ControlInv` over instead of proving it again.
- **`RequestInv`** has three parts. `Routing` adds to `ConnectRoutedAsNamed` and
  `NoMissedWakeup` that what has a name, or should have one, never stands in the
  queue for any instance: `BecomesReady` gives all of that queue to one
  instance, and neither property survives it otherwise. `Bytes` replaces `BytesInOrder` by where
  the chunks are: in the buffer before the tunnel, written after it,
  and a count of them, `Counted(n)`, in either place. `Bodies` does the same for a
  body with `connect()` as the turning point; it needs of the other parts
  only that a request handed over stays so (`NextKeepsHandedOver`).
- **`AppInv`**: `ShutdownSignalsAll` looks at one moment, the end. What makes it hold
  is `Tracked` (a Tor that runs unsignalled is in the array of its pool, or
  `late`) and `Signalled` (of a pool inside `exit()` none is left but the late),
  the second following from the first when `exit()` is called, and the first
  from the second when the array is emptied. `Awaiting` gives `CleanEnd`: who closes
  a pool still waits for each member that is not dead.

**What delimits the findings.** Three runs show that a promise is broken; a
theorem says that it is kept everywhere else. Each hypothesis is about the
order of the callers' calls, and many behaviours satisfy it.

- `WeightedListCovers`: `next()` by weight can always serve the pool unless it is
  called while an instance is being started (`NextApart`). Then the list, where
  there is one, is that of the members, and nothing is in creation (`ListExact`):
  what starts drops the list, and the push finds none. The run
  `pool_weighted` is the other case.
- `SocksRoutedWhileNamed`: a SOCKS connection is routed as named unless it loses
  the last instance of its name between authentication and request
  (`NamesPersist`). Then the second lookup succeeds, and no named
  connection gets into the queue for any (`SocksNamed`). The run
  `connections_routing` is the other case.
- `GroupLine` and `GroupServesInTurn` take `~Overlap`: no instance is in two groups at once. The run `groups_overlap` is
  the other case. `FirstJoinersServeStrictly` takes `JoinsUnindexed` in addition.

`ListExact`, `SocksNamed` and `LineInv` were model-checked before they were
proved. No other theorem has a hypothesis on the behaviours; in particular none restricts
the callers of the pool.

**Only model-checked:** the liveness properties (`ExitSettles`, `FanOutSettles`,
`DnsReplied`, `CleanUpEnds`), which are out of the prover's reach, and the
violations. Every invariant and every action property of the passing runs is
proved.

## 5. Not modelled, and why

- Configuration files, environment variables, argument parsing, logging:
  data without decisions the properties could tell apart.
- A Tor binary that cannot be spawned: Node emits an `error` event on the child,
  which nothing handles. For the program it is one more uncaught exception, which
  `CleanUp(c, TRUE)` has at any time.
- Which ports `getPort()` returns: the operating system's choice.
- The queries of the control server, `getConfig`/`setConfig` and the saved
  configuration: they read or write one value at a time.
- Data from the destination to the client: one handler that writes, with no
  buffer, and `pipe()`.
- Changes of group membership while a connection waits, see `ProxyConnection`.
- A user with an empty name at the SOCKS server: authentication calls back twice, and what
  that does is inside the socksv5 library.

## 6. Plan

1. *(done)* `TorProcess`, `TorControl`, `TorPool`, `TorPoolFair`,
   `InstanceGroups`, `ProxyConnection`, their invariants, and the proofs for the
   process, the pool and round robin.
2. *(done)* `PoolCommands`, `ProxyRequest`, `Application`, and the proofs of their
   safety properties and of those of `ProxyConnection`.
3. *(done)* The index arithmetic of `InstanceGroups` and its refinement of
   `FairSelection`; `ProcessSpec`, and that an instance, the pool and the program
   implement it; `PoolView`, on which `ProxyConnection` is built, and that the pool
   implements it; the theorems that delimit the findings on the weighted list and
   on SOCKS routing.
4. Further proofs: that each of the pools of `Application` is one of `PoolView`;
   the safety halves of `FanOutSettles`, `DnsReplied` and `CleanUpEnds` (that what
   ends a wait leaves nobody waiting).

Runs are kept to one per question.

## 7. Running

    tlc -workers 2 -config Pool.cfg MCTorPool
    tlapm TorPoolProofs.tla

`PROJECT.json` names the module and configuration of every run, the mutant of the
code that breaks each property, and the lines of the source every definition models.
