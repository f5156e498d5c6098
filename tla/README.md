# god: a verification project

god is a distributed data store in Go: radix trees with sub trees, kept by
nodes on a ring of positions, replicated along it and reached through net/rpc
and JSON. These modules model the parts that carry its own logic, TLC checks
them on small instances, and TLAPS proves what can be proved for all.

Run them in this directory: `tlc -config X.cfg MCY` for a run of
`PROJECT.json`, `tlapm M.tla` for the proofs of a module M.

## The system

| Part | State | Operations | What makes it correct |
|---|---|---|---|
| `common.Ring` | slice of remotes (position, address), listeners | Add, Remove, SetNodes, Clean, Predecessor, Successor, Remotes, GetSlot | sorted, one remote per address, right neighbours round the end |
| `discord.Node` | position, ring, state, routeLock | Start, Join, Stop, SetPosition, Ping, Notify, GetSuccessorFor; two loops that notify the successor and ping the predecessor | own ring never empty, one entry per address, no panics, rings agree in the end |
| `common.Switchboard` | one connection per address | Call, Go, Close | a broken connection is replaced |
| `radix.Tree`, `radix.node` | Merkle radix tree with timestamps, tombstones, sub trees, mirror | Put, Del, FakeDel, Clear, Sub\*, Configure, \*Timestamp | a map of keys to values; hashes and sizes in step with it |
| `radix.Sync` | two trees and a range | Run | afterwards the destination has what is newest |
| `persistence.Logger` | files in a directory, state, snapping | Record, Dump, Stop, Clear, Play; a snapshot goroutine | a restart finds what was written |
| `timenet.Timer` | offset, dilations, latencies | ContinuousTime, ActualTime, Sample, Conform, Skew | time goes forward; adjustments count once |
| `dhash.Node` | a discord.Node, a Timer and a Tree | puts and deletes forwarded along the ring; sync, clean, migrate loops | every key on its owners, nothing lost on the way |
| `client.Conn` | a Ring | puts, gets from several nodes, Reconnect | the most recent value of the reachable nodes |

They interact like this. `dhash.Node` owns one of each: its operations change
the Tree with times from the Timer and go on to the ring's next node; its loops
run a Sync with the successors. A Tree hands every change to its Logger over an
unbuffered channel while it holds its lock. Every call between nodes goes
through the Switchboard, and a failed one makes the caller remove the callee
from its ring.

What is hard: the two loops and two handlers of every node change one ring in
several steps, and calls read it without the routeLock; nodes die, restart at
their old address, join and move meanwhile. The Logger has three goroutines,
channels, a condition variable and files that a crash can leave in any state.
The Timer has a read/write mutex, and state that is written under a read lock.
A radix tree keeps hashes, sizes, tombstones, sub trees and mirrors in step
through insertions, splits, joins and collections. A Sync reads two trees call by
call while both are written to. Writes travel along rings that are out of date.
`PROJECT.json` lists the hazards line by line, with the properties aimed at
each; those that no property reaches are in the section on what the code does.

## The modules

| Module | Models |
|---|---|
| `Remotes` | remotes, and the Ring's operations as operations on sets |
| `RingSet` | the Ring as an abstract set: the specification of `common/ring.go` |
| `Ring` | the slice code: binary searches, insertion, removal, Clean by index; implements `RingSet` |
| `Discord` | a cluster of `discord.Node`s, on rings as sets |
| `DiscordProofs`, `RingProofs`, `LogOpsProofs`, `TreeLogProofs`, `LoggerProofs`, `TimerProofs`, `ClientProofs` | the theorems about the module of that name |
| `DataInduction` | induction over the natural numbers and over sequences, for the proofs |
| `LogOps` | the logged operations, Restore and the merging of Logger.snapshot, as operators |
| `TreeLog` | which operation of a Tree logs what |
| `Logger` | the Logger's goroutines and files |
| `Timer` | the Timer, its lock, and any number of callers of ContinuousTime |
| `Trie` | `radix/node.go`, `node_iterators.go`, and Print of `radix/radix.go`: the tree of nibbles, node by node |
| `TreeOps` | the operations of `radix/tree.go` on sub trees and mirrors, on `Trie` |
| `Queries` | reads of mirrors, the slices of `dhash/api_functions.go`, the treeSkipper of `dhash/set_ops.go` |
| `KeyMap` | what a Tree promises: a map of addresses to marks |
| `Tree` | a Tree under its operations; implements `KeyMap` |
| `Sync` | `radix/sync.go`: one synchronisation, call by call, of two trees in use |
| `DHash` | the nodes of a cluster: forwarded writes; the sync, clean and migrate loops |
| `Client` | `client/client.go`: writes, reads and merged slices, on `DHash` |
| `MC*` | instances for TLC |

How they build on each other: `Tree` and `Sync` extend `TreeOps`, which extends
`Trie`; `Client` extends `DHash`, which extends `Remotes`. `DHash` does not
contain the detailed models below it but what their runs show of them: a tree is
a function from keys to marks (`KeyMap`), a Sync a walk over the keys that differ
(`Sync`), and all clocks agree (`Timer`). One thing their runs do not show is taken
as a hypothesis: that a ring becomes the real one some time after it has changed
(`Learn`). `discord_ghost` is a behaviour of `Discord` in which it does not.

**Ring.** The state is the slice. `indices` and `byteIndices` are the searches
of `Remotes` and of `indices`; sort.Search is the least index that passes. Remotes are
ordered by position and then address. Indexing that would panic in Go is an
error in TLC. The refinement mapping is the set of the slice's elements;
`Discord` uses the set's operations, which is what this refinement justifies.
Both record the call made, so that a step has to be the step of that call.

**Discord.** The call a loop has under way is kept with the caller: `notify[n]`
and `ping[n]` say how far call and handler have come. One action is one locked
operation on a ring, or one send, receive, reply or failure of a call. The Ping
handler therefore takes up to six steps, holding the routeLock of its node from
SetNodes to Clean. A crashed process loses everything and may come back as a new
node at the same address. Nothing keeps the loops of different nodes, or the two
of one node, apart. A call to a dead process fails; so may a call to a
living one, `MaxFailures` times, and a call whose connection is shut down is
sent again. Ring hashes are the rings themselves, so hashes are assumed not to
collide. A panic is a state of the node, told apart by its cause.

**LogOps and TreeLog.** A tree is reduced to byte values, sub trees and
configurations. `Written` is what gob does to an operation: slices without bytes
become nil. `Compress` is one operation of Logger.snapshot on its four maps.

**Logger.** A logfile is a sequence of operations, its size their number. The
clock that names files is a counter. A send on an unbuffered channel and its
receive are one step, and so are the writing of a snapshot (whose file nobody
reads before it is renamed) and an Encode. What Logger.latest returns is a set of
files, played in the order of their names (`Contents`). `Crash` may come between
any two steps; what has been encoded is on disk.

**Timer.** The clock ticks by `dilationFactor`, the time in which a dilation
gains or loses one unit, so that the division in `effect` is exact; `Effects` is
the loop of `effect` over the list, as a recursive function. The lock is
a `sync.RWMutex`: a waiting writer keeps new readers out. ContinuousTime takes
its steps as the code does and runs in any number of goroutines, one per RPC in
dhash. As `effect` writes the list under the read lock, two of them race: one may
store a list it has made of an older one, or read a slice whose length is written
and whose array is not (`Readable`). Sample, Conform and Skew are jobs of one
goroutine. `total` and `raced` only record history, for the properties, and so do
`latest` and `floor` of `MCTimerSteady`. What a peer answers, and whether the statistics let
a sample count, is free.

**Trie and TreeOps.** A node is a record with the fields of the Go struct; keys
are sequences of nibbles. A hash is the tuple of what is hashed: equal hashes are
equal inputs of murmur, so that what the code leaves out of a hash, or puts in
under a wrong prefix, is left out or wrong in the model too. Both are modules of
recursive operators. A locked method of Tree is one operator from a tree to a
tree; the reads are operators from a tree to a sequence.

**Tree and KeyMap.** Every method of Tree that changes it is an action of `Tree`,
those a Sync calls with their expected timestamps included. Between two of them a
tombstone's lifetime may pass, so that collection happens. `KeyMap` allows an
operation to change its own mark only; besides, it may forget tombstones, and
says which. The mapping is the set of marks in the nodes.

**Sync.** The recursion of synchronize is a stack of frames, and every call of
the HashTree interface a step. In a sub tree the calls go through the
subTreeWrapper. A call to the remote tree may fail: remote_hash_tree.go then
answers with zeros and the Sync goes on. Anyone may write to either tree between
two calls.

**DHash and Client.** An operation under way is a stack of frames too: handlers
and the forwardOperation calls that wait for them. A synchronous write waits for
the nodes behind, any other one is forwarded by a goroutine. The three loops are
steps of their own, and so are the fetching of a ring by a client and each of the
parallel reads of findRecent. `acked` records the newest write that has returned.
GetSuccessorFor is modelled for a successor that confirms its claim. A node that
crashes takes its tree with it. Times that loops sleep are left out: a loop may
begin a round at any time. `Learn` replaces a node's view of the ring by the real
ring in one step, which stands for many notifications and pings. A position is as
long as a key here, so that the zeros changePosition adds to a shorter one do not
occur.

## The runs

Passing:

| Run | Checks | Bounds |
|---|---|---|
| `ring` | `ValidRing`, `NeighboursAreRight`, `ByteIndicesAreRight`, `ImplementsRingSet`, `CleanRemovesBetween` | 3 addresses, 4 positions: every ring of 0 to 3 remotes, equal positions too, every call on it, queries before, on, between and after every remote |
| `discord_restart` | `IInv`, and its parts `TypeOK`, `OneRemotePerAddress`, `RingNeverEmpty`, `KeepsItself`, `PanicOnlyAfterJoin` | 2 nodes; a crash, a restart with a new Join, a Stop, a failing call, a SetPosition; two calls at once with one of these events until a restart, one call at a time with up to two of them (`Small`) |
| `tree_log` | `DataSurvives` | 4 operations, 2 keys, 2 sub keys, 2 values, every place for a snapshot |
| `logger` | `TypeOK`, `FilesAreSafe`, `NothingLostWithOneSnapshot`, `RecorderListens` | 4 Dumps, a swap after 2, a Stop or Clear, a crash |
| `timer` | `AdjustedOnce`, `SampleEnds` | 2 callers, 2 samples, a Conform or Skew, 2 ticks: dilations of one unit up or down begin, overlap and end, in the hands of one caller or both |
| `tree` | `SizesAreRight`, `RangesAreRight`, `IndicesAreRight`, `MirrorAgrees`, `MirrorReadsAreRight`, `PagesAreRight`, `ImplementsKeyMap` | 5 keys (the empty one, and one that two others begin with), 2 sub keys at one of them, 2 values; up to 2 first puts in any order or 3 in rising or falling order, then 2 operations after 0 or 1 puts and one after more; a lifetime may pass once; a buffer of 2 |
| `sync` | `NewestWins`, `NothingLost`, `MovesForward` | 3 keys, one of which begins another and has a sub tree with 2 sub keys; trees that differ in up to 3 of these 5 addresses (2 when destructive, limited or cleared), by an old value, a newer one or a tombstone; one write or one failing call anywhere |
| `cluster` | `Durable`, `ReadsAreFresh`, `MergesAreRight`, `LoopsMoveForward`, `Converges` | 3 nodes, 2 keys, Redundancy 2, MinOwned 1: a write, or a read, while a node crashes, joins or migrates; two asynchronous writes; one with a crash |

Every bound is a constant in the guards or a field of a scenario, but for `Small`:
`discord_restart` explores no state with more calls under way than that (a
CONSTRAINT), since the loops of two nodes with all five events at any step are
beyond TLC; the theorems of `DiscordProofs` say the same for all. The bounds are small,
but each is past the point where the case it limits has met itself: a handler
that outlives its caller while the next call arrives, a second swap after a first
snapshot, a second dilation before the first has ended, a node split and joined
again, a tree whose two sides were filled in opposite orders, a write that is
still being forwarded when its repetition begins. `MCRing` uses a VIEW that leaves
out the name of the last call, on which neither the next step nor a state
predicate depends; the step properties see it in every step. `MCTree` does the
same with `op` and `marks`, which the tree determines, and chooses its first puts
in Init to get to trees of three keys without a long behaviour.

Runs that TLC must refute, each quoting what the repository says of itself
(`findings` in `PROJECT.json`):

- `discord_ghost`: two survivors can hand each other the remote of a dead node for
  ever, each removing it in turn. The rings need not agree in the end, though every
  loop goes on: there is no passing run of `Convergence`. `TwoCalls` keeps the search
  small; what is found within it is a behaviour of `FairSpec`, in which every loop
  completes one round after the other.
- `logger_two_snapshots`: Play takes the oldest snapshot. While the clean-up of
  a new one runs there are two, and a crash then loses operations.
- `timer_back`: a second caller between the two locks of ContinuousTime, where an
  adjustment that has ended is in neither place, is told 35 after the first call
  has returned 41. No race of `effect` is needed (`SteadyTime` excepts it).
- `sync_destroy`: a destructive Sync deletes at the source what it has asked the
  destination to take, though the call has failed.

What the conditions in the passing properties stand for, all seen in the models:

- `CleanRemovesBetween` needs the successor in the ring: without it Clean keeps
  the remote before it, or removes all but one.
- `Convergence` fails for other reasons as well, with calls that never overlap: after
  a crash and a SetPosition together, since Ping puts its own remote, read before it
  called back, over the new one; and after a crash during a Join.
- `DataSurvives` is about keys with bytes: gob drops empty slices, and a value
  under the empty sub key is restored as a value of the key itself. It leaves
  configurations out: SubKill of a sub tree without values is not logged, and a
  later SubPut then restores the configuration that was killed. It leaves out
  tombstones as well: FakeDel is logged as Del, and one that came by a Sync as a
  Put, which comes back as a live value without bytes.
- `RecorderListens` stops where the recorder lets a Stop go: the wait for a
  running snapshot after that need not end, as Broadcast comes before
  `snapping = 0` and without the lock.
- `AdjustedOnce` excepts behaviours in which a call has changed the list of
  dilations while another one was in `effect`: both hold the read lock only, so that
  an ended dilation can be added to the offset twice, or one that still runs be lost.
  It does not except two calls between their locks: what each has in its hands is
  told apart and added once. `timer_back` needs a positive adjustment and two callers;
  with a single caller time can go back too: when Conform or Skew set it, or after a
  call held up between its two readings of the clock has returned a time too late for
  the negative dilation it counted.
- `SampleEnds` excepts the deadlock of timeAndLatency, which takes the read lock
  a second time while a writer may be waiting.
- `IndicesAreRight` is about trees in which no live key begins another. IndexOf
  counts the shorter key in both directions, eachBetweenIndex does not count an
  own value that it skips.
- `MirrorReadsAreRight` is about values of one length, no zero in front, and a
  maximum other than 255. A mirror key is the value and the key joined without an
  escape, so that values of several lengths collide or change order;
  incrementBytes drops leading zeros and makes 0x0100 of 0xFF. MirrorFirst and
  MirrorLast, MirrorIndex and others panic on a mirror without entries.
- `PagesAreRight` has lengths of at least one: SliceLen looks at the length after
  it has appended, and a slice of no items has one.
- `NewestWins` takes the code's notion of a Clear: a sub tree in which all is
  deleted looks like one that was cleared when its dataTimestamp was last set,
  which FakeDel does not do. A destructive Sync, and one of a sub tree, need not
  keep tombstones.
- `NothingLost` passes for writers beside any Sync and for failing calls of a Sync
  that is not destructive; `sync_destroy` is the other case.
- `NewestWins` and `NothingLost` are about keys without colliding hashes. Where a node
  is split below a shorter key, insertHelp hashes it under a wrong prefix: hashes
  depend on the order of the puts (as in `sync`, which fills its two trees in opposite
  orders), and with longer keys two trees can have the same one. 000001, then 00 and
  00 again on one side, and 00 and 0001 on the other, are such trees. A Sync takes them
  for equal and copies nothing; a destructive one would delete a sub tree for it.
  `MCSync.cfg` with `Keys <- CollidingKeys` and `Scenarios <- CollidingScenarios`
  shows `NewestWins` violated.
- `Durable` and `ReadsAreFresh` are about synchronous writes and fewer crashes
  than Redundancy. In the run a single crash comes with a formed ring; clean
  leaves one copy for a while, as it deletes with the Sync to the last owner but
  one, so that a second event in that time can lose it.
- `Settled` excepts a key at the very position of a node: clean looks for the next
  key after the position, and migrate puts nodes exactly at keys.
- A node that is stopped between choosing itself as successor and calling itself
  removes itself and panics (a state of `Discord`, reached in `discord_restart`).

### Fairness

`Discord` assumes strong fairness of each loop and of Join: the loops of node.go
run for ever with a sleep in between, and a step that waits for a routeLock finds it
free again and again. Nothing is assumed of
crashes, joins, moves or failures. `Logger` and `Timer` assume weak fairness of
each goroutine, which Go's scheduler gives; new Dumps, Stops, samples and ticks
are not forced. `Client` assumes that some goroutine with work goes on (`Work`:
operations, reads and the loops, which repeat for ever) and that a ring which is
out of date is brought up to date (`Repair`): weak fairness
of each, and nothing of writes, crashes, joins and moves. `Repair` is more than the
code gives: after a crash Discord may not repair a ring (`discord_ghost`). So
`Converges` is conditional, on rings that are repaired; `Durable`, `ReadsAreFresh`
and the others are safety properties and need no repair.

## The proofs

Every theorem holds for all values of the constants that satisfy the named
assumptions of the modules (`RemotesAssumption`, `DiscordAssumption`, ...), which
TLC evaluates in every run: any number of nodes, positions, keys, operations,
files, samples, crashes, callers. Three theorems have a hypothesis more, named below.

| Theorem | States |
|---|---|
| `DiscordProofs.TypeCorrect` | `[]TypeOK` |
| `DiscordProofs.NoDuplicateRemote` | no ring, in a node or on its way, has two remotes of one address |
| `DiscordProofs.NeverWithoutRing` | the ring of a running node is not empty |
| `DiscordProofs.StaysInItsRing` | a node that has not joined is in its own ring, except while a Ping handler is between SetNodes and Add |
| `DiscordProofs.NoPanicWithoutJoin` | only a node that has joined can be made to remove its last remote |
| `RingProofs.RingStaysValid` | the slice stays sorted, with one remote per address |
| `RingProofs.NeighboursFound`, `PositionsFound` | the binary searches of Predecessor, Successor and Remotes find the right neighbours in every such slice, round its end too |
| `RingProofs.CleanIsExact` | Clean up to a remote of the ring removes what lies between, and nothing else |
| `RingProofs.SliceImplementsSet` | `Ring` implements `RingSet`, call by call: what lets `Discord` use sets |
| `LogOpsProofs.SnapshotKeepsData` | a snapshot of any log, in any order of the maps, restores the values the log restores |
| `TreeLogProofs.LogRestoresData` | `[]DataSurvives`, given `KeysHaveBytes` |
| `LoggerProofs.LoggerTypes`, `FilesStaySafe` | `[]TypeOK`, `[]FilesAreSafe` |
| `LoggerProofs.CrashesLoseNothing` | `[]NothingLostWithOneSnapshot` |
| `TimerProofs.AdjustmentsCountOnce` | `[]AdjustedOnce`, for any number of callers |
| `ClientProofs.LoopsNeverUndo` | `LoopsMoveForward`: sync and clean never put an older mark over a newer one, nor delete one they have not offered |
| `ClientProofs.MergesAlwaysRight` | `[]MergesAreRight`, in every cluster and state |
| `ClientProofs.DurableInStableRing` | `[]Durable`, given `Stable` |
| `ClientProofs.FreshInStableRing` | `[]ReadsAreFresh`, given `Stable` |

`KeysHaveBytes` (no key or sub key is the empty one) is what the instance of the
run has as well. Without it the property is false of the code: the section on the
runs says how. `Stable` says that the behaviour has
no crash, join or move from its first state on; writes, reads and loops are not
limited.

**DiscordProofs.** Lemmas say what `RingAdd`, `RingRemove` and `RingClean` keep;
`Inductive` shows that `IInv` is inductive, and the theorems follow from it. The
five properties are not inductive by themselves. A Ping handler empties the ring
of its own remote and puts it back two steps later, so `Updating` says what the
ring holds between them; that this survives needs `Handlers`, that one handler at
most holds a routeLock and that it runs in a living process; that SetNodes does
not empty a ring needs `InFlight`, that rings on their way are not empty. The run
`discord_restart` checks `IInv` itself.

**RingProofs.** `ValidRing` is inductive. The work is in the operators: that the
search finds the first index at or after a remote, that insertion there and
removal keep the order, and that Clean, which cuts the slice at two indices, takes
exactly the remotes between its ends, whether or not they go round the end. `StepLemma` combines these into a step of `RingSet`.

**DataInduction, LogOpsProofs, TreeLogProofs.** Induction goes over sets: a set of
natural numbers that holds 0, and i + 1 with every i, holds them all, by the least
number outside it. `RunExists` turns a fold over a sequence into the sequence of
its intermediate results. A snapshot is compared with its log through
`Describes`, which says of the four maps of Logger.snapshot what the tree replayed
so far has, and which every operation keeps. `DataSurvives` then follows from
`LogInv`: what the log restores has, for every address, the bytes of the tree, as
gob leaves them.

**LoggerProofs.** `Inv` has a part for the files, for each of the three
goroutines, and for the memory. `NothingLostWithOneSnapshot` is not inductive: in
the middle of a clean-up the files Play would take say nothing of the files it
will take later. `Relevant` names those that matter, the new snapshot and the
logs after it as soon as the rename has happened; `MemoryOK` says that they and
what is on its way make up the tree. That the rename keeps this needs
`SnapperFiles`, that the unfinished file holds a snapshot of the very files it
replaces although logs have been added since, and `SnapshotKeepsData`; that
clean-up and Encode keep out of each other's way needs that the recorder's file
is the newest, which is part of `FilesAreSafe`. Without the condition on snapshots
the property is false, which `logger_two_snapshots` shows.

**TimerProofs.** The sums of `Timer` are recursive functions over lists, so that the
first part is induction: `EffectsLemma` says what the loop of `effect` returns (what
it takes and what it keeps amount to the list it read) and `HandsChange` that a step
of one call changes what all callers have in their hands by that call's part.
`SumOK` is the property without its exception. What makes it inductive is `StoreOK`,
about a call that has read the list and not yet replaced it: what it takes and what
it keeps amount to the list there is now. No runner can have added a dilation since,
which is what the read lock is for (`LocksOK`). Another caller can have shortened the
list, and then the race has happened; or this call has read a torn slice, shorter
than the list, and then two calls are about to shorten it, of which the first one to
do so races with the other. All of it is for any number of callers, and the callers'
waits for the write lock may come in any order.

**ClientProofs.** A Sync compares timestamps only. `OneMarkPerTime` says that this
is enough: in all trees, operations under way and walks, two marks of one time are
the same mark, and none is later than the clock. It rests on the model's clock, which gives every write a
time of its own. Then a put with an expected timestamp moves forward or changes
nothing, and a delete with one hits the mark that was read.

`StableInv` is about a ring that stands. `OwnersHave` says that the first owner of
a key (`First`) has every write that has returned. A write comes to it with a
later time, and a Sync moves forward; the danger is clean, which deletes.
`CleansForeign` says that a clean under way at a node has only keys whose first
owner is another node, although the keys were chosen several steps ago and the
range by circularNext and GetSuccessorFor. That a write has reached the first
owner when its call returns is `Rooted`: the stack of a synchronous call ends in
the client and a handler of the first owner, which is still to apply the write or
has done so. `ReadFresh` follows a Get: it has the answer of the first owner, or
has not asked it yet. Without `Stable` none of this holds: a view can be out of
date, two nodes can take each other for the owner and clean crosswise, and pieces
of an older write whose first owner has crashed can arrive after a newer one.

`MergesAlwaysRight` is an induction over the items of a slice within one over the
slices (`IterationExists` and `RunExists` of `DataInduction`): the result is
sorted, and has for every key that has come up the item with the newest time.
That two nodes may not offer different values of one time is `OneMarkPerTime`.

Only model-checked, and why:

- `RecorderListens`, `SampleEnds`, `Converges`: fairness is beyond the prover.
- `Trie`, `TreeOps`, `Queries`, and so all of `tree` and `sync`, with the
  implementation of `KeyMap`: a tree is a recursive structure, its operators are
  RECURSIVE, and the prover cannot reason about these.
- `Durable` and `ReadsAreFresh` while the ring changes: they hold for the scenarios
  of the run (a single crash, join or move) and not for all; so there is no
  invariant for every value of the constants.

## What the code does that a reader may not expect

Met while modelling, beside the findings and the conditions above. Each is in the
model as the code has it, unless it is said to be outside.

- Join takes over the ring of its peer, without the joining node. If the peer dies
  then, the node removes its last remote and panics (`Discord`;
  `PanicOnlyAfterJoin` says that nothing else leads there).
- Put compares `ex*byteValue` with zero where it means `&`: it takes a sub tree
  at the key for an old value, and asks the mirror to delete it.
- SubKill, SubDel and SubDelTimestamp drop the tombstone of the key itself when
  its sub tree goes. SubPutTimestamp on a missing sub tree ignores `present`.
- A collection that drops a sub tree leaves realSize and hash of the node above
  as they were; sizeBetween with use 0 and realSize disagree about sub trees.
- MirrorIndexOf reports a value that only begins another one as existing.
  MirrorReverseIndex calls Index, MirrorNext never goes on (both outside).
- tree.Put takes what arrives, older or not. The copies become even through sync,
  but a late, older write after a clean has taken the newer one away stays.
- For a node round whose range the ring begins, migrate counts up to the position
  of its successor where it means its own. circularNext does not find a tombstone
  at the key zero.
- Slices have no tombstones, so that a merged slice can show a value of one node
  that a newer tombstone of another has deleted. Merged mirror slices with equal
  values lose or repeat items (outside).
- Dump looks at the state before it sends: only the tree's lock keeps a Stop from
  coming between. A crash in the middle of Clear leaves some of the old files, and
  a record half written makes play panic at every restart (torn writes are outside).
- An adjustment of zero, read in the nanosecond of its creation, is zero divided
  by zero (`Timer` excludes it).
- Reconnect panics when the last known node is gone (outside: in the instances
  there is always one).
- Switchboard.Call repeats a call for any error but a closed connection (outside).
- trigger\*Listeners and sendChanges lose listeners that are added while they
  run, and triggerCommListeners can send on a closed channel (outside).
- The client repeats MirrorPrevIndex as MirrorNextIndex, PrevIndex as NextIndex
  and SubConfiguration as Configuration after a failure; its Next and Prev can
  pass by keys that later nodes own (outside).

## Not modelled, and the plan

Not to be modelled: the JSON servers and their clients, command lines, web pages
and templates (I/O or generated), murmur (hashes are equality), the statistics of
the Timer (floating point; their results are free choices), TimeLock (only
measures), and errors of the file system.

Not modelled yet: SetExpression and the storing of its results; the map of
connections of Switchboard; the Ring's change listeners and GetSlot; the client's
reads from one owner, Next, Prev, Dump and configurations; SubClear, Clear and
configurations in a cluster; redirected GetSuccessorFor calls; a restart of a
node from its log between two Syncs.

The project keeps to a dozen runs: a new component makes room by merging runs
that share their question, or as a scenario of an existing run.

Next, in this order:

1. Proofs: which single change of a ring keeps `Durable`; the Trie with recursive
   functions in place of recursive operators, which is what proofs about
   `SizesAreRight` would need first.
2. `Client`: reads from one owner with their redirections; Clear and SubClear in
   `DHash`.
3. `Switchboard` and Ring's change listeners.
4. SetExpression on the treeSkipper of `Queries`.
