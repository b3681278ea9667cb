# A TLA+ model of xredis-crdt

xredis-crdt is a Redis 4 server in which several *sites* accept writes of the
same data set.  Every site is a Redis master with a group id (gid), and every
site is a *CRDT slave* of every other one: it applies the stream of writes that
the other sites produce.  Conflicts are settled by vector clocks, deletes leave
tombstones, and a tombstone is collected once every site is known to have seen
the delete.  A site may also have local slaves, one of which is promoted when
the master dies.

This directory models the server, checks the models with TLC, and proves the
central safety properties of replication between sites with TLAPS.  Paths below
are relative to `src/src/` unless they say otherwise.

## 1. The system and its parts

Between sites, which is what this server adds to Redis:

| Part | Source | Modules |
|------|--------|---------|
| Vector clocks | `ctrip_vector_clock.c/.h` | `VectorClock` (operators), `VectorClockUnits` (array algorithms), `ClockRegisters` (what they promise) |
| Streams, observed clocks, full synchronisation, tombstones and their collection | `ctrip_crdt_replication.c`, `ctrip_crdt_rdb.c`, `ctrip_crdt_gc.c`, `replication.c`, `module.c` | `PeerReplication` |
| One link: handshake, CRDT.PSYNC, backlog, snapshot transfer, timeouts | `ctrip_crdt_replication.c`, `replication.c`, `rdb.c`, `networking.c` | `PeerLink`, `PeerStream` (what it promises) |
| Data of a full synchronisation, key by key | `ctrip_crdt_rdb.c` | `MergeCommands` |
| Recovery of a site: restart, backstream, clock jump, failover | `ctrip_crdt_replication.c`, `replication.c`, `ctrip.c` | `SiteRecovery` (one site in detail), `SitesRestart` (several that need each other) |
| Configuration of peers, proxies, offline gids | `ctrip_crdt_replication.c`, `ctrip.c`, `xpipe_proxy.c`, `config.c` | `PeerConfig` |
| The stream of a site to its slave | `networking.c`, `replication.c`, `ctrip_crdt_replication.c` | `SiteStream` |
| Eviction of tombstones | `evict.c` | `MCPeerReplication` (its effect on peers), `MemoryEviction` (what is dropped) |

Inside a site, the Redis server that carries it:

| Part | Source | Modules |
|------|--------|---------|
| Replication to slaves | `replication.c` | `SlaveSync` (master's side), `SlaveLink` (slave's side) |
| Persistence | `rdb.c`, `lzf_c.c`, `lzf_d.c`, `aof.c`, `bio.c` | `Rdb`, `AofPersistence` |
| Keys, expiration, WATCH | `db.c`, `expire.c`, `multi.c` | `Keyspace` |
| Data structures | `dict.c`, `rax.c`, `ziplist.c`, `quicklist.c` | `KeyTables`, `PackedLists` |
| Data types | `t_set.c`, `t_hash.c`, `t_list.c`, `intset.c`, `t_zset.c` | `DataTypes`, `SortedSet` |
| Event loop, clients, requests | `ae.c`, `networking.c`, `blocked.c`, `server.c` | `EventLoop`, `ClientLoop`, `Requests` |
| Publish and subscribe, patterns | `pubsub.c`, `notify.c`, `util.c` | `PubSub` |
| Module interface | `module.c` | `ModuleContexts`, `ModuleData` |
| Configuration file | `config.c` | `ConfigRewrite` |
| Cluster, Sentinel | `cluster.c`, `sentinel.c` | `ClusterElection`, `ClusterMembers`, `ClusterHandover`, `Sentinel` |

The parts meet as follows.  `PeerLink` shows that one link delivers the commands
of a site in order and without a gap (`PeerStream`).  `PeerReplication` takes
that for granted - a link there is an offset into an append-only stream - and
looks at what several sites do with the commands.  `VectorClockUnits` shows that
the array code computes the operators of `VectorClock`, with which
`PeerReplication` is written.  `SiteRecovery` takes one site out of the mesh and
looks at what the clock discipline of the others rests on: that a site never
gives out a clock twice, although it loses data.  `SiteStream`, `SlaveSync` and
`SlaveLink` are about the slave that would take the place of such a site.

Some handlers are compiled and modelled but cannot be called by name: the
command table (`server.c:130-345`) has the plain commands on strings, sets,
hashes, lists and sorted sets, DEL, UNLINK, EXPIRE and its relatives, PERSIST,
MOVE, SWAPDB, RANDOMKEY, TOUCH, WAIT, CLUSTER, DUMP, RESTORE, MIGRATE, ASKING,
READONLY and the scripting commands commented out.  Their code runs where others
call it: the conversion of plain data sets, modules, the loading of files,
cluster mode.  The models of these handlers (`DataTypes`, `SortedSet`, parts of
`Keyspace`, `SlaveSync`, the cluster modules) are about the code as it stands.

## 2. The modules and the code

### VectorClock, VectorClockUnits, ClockRegisters

In `VectorClock` a clock is a partial function from gids to logic clocks; an
absent unit reads as zero (`get_vcu_from_vc`) but is not the same as a unit that
is zero: `isVectorClockMonoIncr`, which compares lengths and refuses empty
clocks, tells them apart, and so do the operators.  Names are those of the C functions.

`VectorClockUnits` has the arrays: search from the left, append and sort, and
the walks over two sorted arrays.  Its two variables are two clocks on which
every function of the library is called in any order.  The width of a unit (56
bits) is not modelled; the 4 bits of a gid are, where a text is read.

### PeerReplication

| Variable | Code |
|----------|------|
| `vectorClock[n]` | `crdtServer.vectorClock` of site n |
| `ovc[n][p]` | `crdtMasters[p]->vectorClock` at n, set by CRDT.OVC and MERGE_END |
| `val[n]`, `tomb[n]` | the key in `db->dict` and in `db->deleted_keys` |
| `stream[p]`, `reploff[n][p]` | what p has fed to CRDT slaves; how much of it n has applied |
| `link[n][p]` | `repl_state` of `crdtMasters[p]` at n, refined by the next command of a snapshot |
| `snapshot[n][p]` | the snapshot on its way from p to n |

| Action | Code |
|--------|------|
| `Set`, `Del` | a client's command: own unit incremented, data changed, command fed with the clock |
| `sendObservedVectorClock` | CRDT.OVC, from `crdtReplicationCron` |
| `Gc` | `activeGcCycle` and `gcIfNeeded` with `updateGcVectorClock` |
| `ApplySet`, `ApplyDel`, `ApplyOvc` | a command of a peer's stream; `RM_MergeVectorClock`, `RM_UpdateOvc` |
| `Break` | `freeClient` / timeouts: `crdtReplicationCacheMaster`, `crdtCancelReplicationHandshake` |
| `PsyncContinue`, `PsyncFull` | the two answers to CRDT.PSYNC |
| `StartBgsave` | `crdtReplicationCron` (least filter of all waiting), `crdtRdbSaveRio` |
| `MergeStart`, `Merge`, `MergeDel`, `MergeEnd` | the commands of a snapshot |

Abstractions:

- One key.  Keys meet only in the clocks, and every command of any key moves
  the clock in the same way.
- The data type keeps the clock of the last write of every gid.  It stands for
  the types of the crdt module, whose code is not here; `merge`, `purge`, `gc`
  and the filters are marked external.
- `gcVectorClock` is not a variable: both collectors recompute it before they
  read it.  (`crdtMergeStartCommand` raises it, to no effect.)
- All peers are in `peer_set` and none is offline; `PeerConfig` has both.
- Whether the backlog still holds an offset is a free choice; `PeerLink` has the
  backlog itself.
- A broken transfer starts all over.  In the code it leaves a cached client with
  offset 0 and an uninitialised replication id.  `PeerLink` shows that this can
  repeat commands but never skips one; repeated commands are not in
  `PeerReplication`.

### PeerLink, PeerStream

Both ends of one link.  The slave's side: `crdtConnectWithMaster`, the rounds of
`crdtSyncWithMaster`, `crdtSlaveTryPartialResynchronization`,
`readQueryFromClient` and `processInputBuffer` with the two offsets, MERGE_END,
acknowledgements, caching and timeouts.  The master's side: `replconfCommand`,
`crdtPsyncCommand` with the backlog and the replication id, the fork, the child
and its end, `prepareClientToWrite`, slave timeouts, and the freeing of an idle
backlog.  Connections break at either end and the other end learns of it late,
so clients of dead connections linger at the master.  `createClient` leaves the
replication id of a client uninitialised: `FreshReplid` lets it be garbage or
any id that an earlier client held.  Commands are one byte long.  The two extra
rounds of a backstream and proxies are left out.  In an instance the writes,
faults and replication ids are bounded.

### SiteRecovery

One site: its master (`up`, `clock`, `data`, `loading`, `backstream_vc`), its
RDB file, its slave, and what each peer holds of its writes.  A write is known
by its clock and by the *life* of the site in which it was made, so that two
writes of one clock can be told apart.  `Restart` is `loadDataFromDisk` and
`peerBackStream`; `crdtMergeEndCommand` is the end of a peer's part, with the
jump and `tryCleanCrdtServerLoading`; `replicationUnsetMaster` is the promotion.
`resetVectorClock` receives its argument by value: with one unit nothing is
reset, with several they are, and both outcomes are in the model.

What is expected of the environment is a constant each: `PeersAnswer` (all peers
answer CRDT.VC), `QuietSaves` (no RDB file is saved during a backstream),
`LinkedPromotion` (only a slave whose link is up is promoted).  With all three
the properties hold, and are proved (section 5).  Without `LinkedPromotion` or
`QuietSaves` one fails (section 4); without `PeersAnswer` one fails too, because
`peerBackStream` keeps the data of the RDB file, without a jump, when no peer
*that answers* knows more.

Bytes in flight when the site dies are lost or were received before.  The
configured `local-clock` is not used, and a slave never has a backstream of its
own, so the branch of `slaveofCommand` for it is left out.

### The other modules

Their variables carry the names of the fields they stand for, with a comment
each; an action is a handler, with the name of the C function where TLA+ allows
it.  A variable marked "ghost" is history for a property and no code reads it.

- `MergeCommands`: sender and receiver databases; a value or a tombstone has a
  clock for every field and site.  The child filters by the least clock of those
  that wait (`min_vc`), splits, and gives up at a value that is too big, with the
  keys before it already sent.  The receiver merges, purges the value or drops
  the tombstone that the value has overtaken, and runs its own clients, WATCH
  included.
- `SiteStream`: own writes, transactions and the streams of peers are woven into
  one stream to the slave, with its SELECTs, its two offsets and a takeover.
- `SitesRestart`: who shuts clients out and who owes whom data; the clocks of
  `SiteRecovery` are a choice there.
- `PeerConfig`: the table of peers at a master, its slave, in the RDB file and
  in the configuration file; offline gids with the filtered copy of the clock.
- `SlaveSync`, `SlaveLink`: PSYNC with two ids over a chain of servers, the saves
  that serve slaves, and the slave's handshake, transfer and load, from CRDT and
  from plain masters.
- `Rdb`, `AofPersistence`: encodings, the file as a sequence of items, children,
  failing writes, crashes and power failures.
- `Keyspace`: a master and its slave with expire times, WATCH and EXEC.
- `KeyTables`, `PackedLists`, `DataTypes`, `SortedSet`: the algorithms on the
  structure itself, with a ghost that holds what it should contain.  In
  `PackedLists` an operation that takes a compressed node of a quicklist for a
  plain one ends the behaviour (`Corrupt`), for what it does is undefined.  In
  `SortedSet` scores may be infinite, and what ZUNIONSTORE and ZINTERSTORE should
  store is said apart from the code (`intended`), products that are not a number
  included.
- `EventLoop`, `ClientLoop`, `Requests`, `PubSub`, `MemoryEviction`,
  `ModuleContexts`, `ModuleData`, `ConfigRewrite`: the single thread and what it
  leaves for later.  The table of file events may move when it is enlarged; a
  dispatch that has taken its entry before then calls through a freed one
  (`called = "freed"`), or does not.
- `ClusterElection`, `ClusterMembers`, `ClusterHandover`, `Sentinel`: nodes with
  tables of their own and packets that are lost, late and reordered.

`PROJECT.json` maps definitions to lines.  It lists the operations, and those of
their helpers whose lines do not already lie inside the ones of an operation.

## 3. Passing runs

Components that share no state but are asked the same question are checked in
one run.  `MCStructures`, `MCReplication`, `MCRuntime`, `MCFailover` and `MCLive`
begin in an instance of one component or another (`part`); only its actions are
enabled then, and a property is a conjunction of what it says of each part.  A
component often appears twice, in instances that differ in what they bound.  The
constants of an instance stand in its `INSTANCE ... WITH`.

| Run | Module, cfg | What it is about | Properties |
|-----|-------------|------------------|------------|
| `peers_mesh` | `MCPeerReplication`, `PeersMesh` | 3 connected sites, 2 operations, 1 OVC per site, 2 breaks | `TypeOK`, `NoResurrection`, `Convergence`, `StableBeforeGc` |
| `live` | `MCLive`, `Live` | what happens when faults stop | `NoClockReuse`, `Recovered`, `CatchesUp`, `Settles`, `Serves`, `WaitersLeave`, `RecoversUnlessCircle` |
| `structures` | `MCStructures`, `Structures` | the structure holds what was put into it | `ContentHeld`, `TraversalsExact`, `CopiesSame`, `FilesLoadWhole`, `BlockedServed`, `ImplementsClocks` |
| `replication` | `MCReplication`, `Replication` | the copy holds what the original holds | `OffsetExact`, `ImplementsStream`, `SlaveExecutesAlike`, `TakeoverReady`, `ReplicaSame`, `WatchSound`, `FileHoldsData`, `SlaveCopyExact`, `OwedShutsOut`, `StampsFresh`, `MergeExact` |
| `runtime` | `MCRuntime`, `Runtime` | what was left for later is done, once and in order | `RepliesInOrder`, `RequestsExact`, `EventsServed`, `SubscribersReached`, `EvictionSound`, `ModuleEffects`, `ModuleObjects`, `FileHoldsConfig` |
| `failover` | `MCFailover`, `Failover` | all agree on who is the master, and nothing is lost when that changes | `OneWinner`, `AgreeOnceSettled`, `MembersSound`, `HandoverLosesNothing` |

What they say (each is stated in full, with the functions it is about, where it
is defined):

- `NoResurrection`: once the clock of a site says that it has seen a delete, no
  write which that delete covers is live there, also after the tombstone is gone.
- `StableBeforeGc`: a tombstone is dropped only when every site has seen all
  that it covers.
- `Convergence`: sites that have applied each other's streams hold the same value.
- `Settles`: when clients and breaks have stopped, values agree and every
  tombstone is collected.
- `OffsetExact`: on a connected link the offset of the slave and the commands on
  their way add up to the offset of the master.
- `ImplementsStream`: no command is skipped, whatever breaks.
- `CatchesUp`: when writes and faults have stopped, the slave gets everything.
- `NoClockReuse`: no two writes that are still held anywhere share a clock.
- `Recovered`: a site that serves clients holds every write of its own that a
  peer holds, save what a promotion lost, which by design is not fetched.
- `Serves`, `RecoversUnlessCircle`: a backstream ends; of several sites all serve
  again, but those that wait for each other in a circle.  Such a circle is real:
  a loading site refuses CRDT.VC and CRDT.PSYNC.
- `WaitersLeave`: a slave or peer that waits for a child is not left waiting.
- `ContentHeld`, `TraversalsExact`, `CopiesSame`, `FilesLoadWhole`,
  `BlockedServed`: hash table, radix tree, sorted set, set, hash, lists, clocks
  and files hold what was put into them, find it again in order, tell a copy the
  same, and wake who waits.  `ImplementsClocks`: the arrays compute what the
  operators say.
- `SlaveExecutesAlike`, `TakeoverReady`, `ReplicaSame`, `SlaveCopyExact`: the
  slave runs each command in the right database and transaction, could take its
  master's place towards every peer, has the same keys, and has exactly the
  writes of its master after any synchronisation.
- `WatchSound`, `FileHoldsData`, `OwedShutsOut`, `StampsFresh`, `MergeExact`:
  EXEC runs on what was watched; the append only file gives back the data; clients
  are shut out exactly while a peer owes data; no own clock is stamped twice over
  changes of offline gids and takeovers; a full synchronisation leaves the receiver
  with exactly what the sender holds of its own writes, and revives nothing.  Two
  sites that connect for the first time, with a full synchronisation each way, are
  a part of `replication` (`fresh sites`), and their `NoResurrection` and
  `Convergence` a conjunct of `MergeExact`.
- The properties of `runtime` and `failover` are what the table says of them.

Several of these hold only with an exception, which the definition names ("unless
...", "but for ..."), for example a SCAN over tables whose sizes differ by a
factor of four (`dict.c:901`), a quicklist whose end is compressed
(`quicklist.c:333`), the second handler of an event whose first one made the
table of events move (`ae.c:423`), or a module that both replies from its thread
and has a reply callback (`module.c:4314`).  The exception is what the code does;
section 4 has runs for some of those that contradict a document or a comment.

### Bounds

Two operations make a write and the delete that covers it, or two concurrent
writes; three sites let the two travel by different routes; one announcement per
site lets a tombstone be collected and three let it settle after later news.  A
break is needed for a full synchronisation in the mesh, and two for two receivers
with different clocks to share a snapshot.  `Explored` cuts `peers_mesh` where
both breaks happened and an announcement was sent too: the sharing of a snapshot
needs none, and one break with announcements is explored in full.  In `PeerLink`
a backlog of two with three writes wraps around, and one fault on top of another
meets a client of a dead connection.  In `SiteRecovery` three lives are two losses
in a row, and a jump is longer than all writes, as one million or a day of traffic
is meant to be (`JumpAssumption`).  In `MergeCommands` three operations of the
sender make a write, a full synchronisation that is filtered and a delete of what
it brought; one field of two is too big for any piece.  Symmetry is used in
`peers_mesh` only, where gids are not ordered.

The bounds of the other instances are named constants of their modules (`Max...`).
They are chosen so that each structure passes the limit where it changes form (a
table is resized up and down, a node is split and merged, an encoding is given
up, a buffer overflows into a list), and that the protocols meet crashes, losses
and late packets in the middle of what they do.

Deadlock is not checked for `MCPeerReplication` and the violation runs that say
so, where a state in which all bounds are used up and all is delivered is an end.
In the composed runs `Stopped` names the parts that may stop in that way; the
others may not.

### Fairness

All of it is in `Fair` of `MCLive`, and weak.  `CatchesUp`: the event loops, the
crons, the child and the sockets; nothing is assumed of writes, faults and the
idle timer.  `Settles`: the event loop reads what peers send, and the cron
reconnects, starts snapshots, announces and collects, per pair of sites.
`WaitersLeave`: the two crons, and children that end and are reaped.  `Serves`
and `RecoversUnlessCircle`: every peer that is up is reached again (the cron
reconnects every second) and a dead site is brought back; that is the operators'
part, and the properties say that nothing else is needed.

## 4. Runs that show a disagreement

Documents are under `src/doc/crdt/设计文档/`.

| Run | Property | What it shows |
|-----|----------|---------------|
| `site_failover` | `NoClockReuse` | `replicationUnsetMaster` jumps the clock only while the link to the master is connected.  After the master has died it normally is not: a clock of a write that a peer holds and the slave lacks is given out again.  `VectorClock/README.md:79-81` names this case as one in which a range of clocks must be skipped. |
| `site_saves` | `Recovered` | `serverCron` saves RDB files during a backstream.  MERGE_END of the first peer moves the clock past what is lost; a file saved now has that clock without the data of the other peer, and after another crash it passes for complete.  `故障恢复之数据回流.md:34` says that a master with less than its peers backstreams. |
| `eviction` | `EvictionStaysLocal` | An evicted tombstone is announced to peers, which drop theirs.  `淘汰策略设计.md:25` says slaves only; the comment at `evict.c:487` says both. |
| `site_select` | `SameDatabase` | A chunk of a peer's stream that selects another database leaves `server.slaveseldb` wrong (`networking.c:1585`): the next own write reaches the slave without the SELECT it needs.  `replication.c:212` says that a SELECT is sent if needed. |
| `merge_watch` | `WatchSeesMerges` | `mergeCrdtObjectCommand` signals the gid of the peer instead of the key (`ctrip_crdt_rdb.c:612`): a client that watches a merged key is not touched.  `db.c:360` says that every modified key is signalled. |
| `list_ends` | `EndsUncompressed` | A quicklist node that was decompressed for use keeps its `recompress` flag (`quicklist.c:246`) and is compressed when it has become the head or the tail (`quicklist.c:333`); pops and pushes take it for a plain ziplist.  `redis.conf:1059-1065` says that both ends are always uncompressed.  By default nothing is compressed, and the list commands are not in the command table. |

## 5. Proofs

Eight safety properties of the runs are proved for all values of the constants,
under the assumptions that the modules state.

| Theorems | Module | What they say |
|----------|--------|---------------|
| `TypeCorrect`, `TypeCorrectMesh` | `PeerReplicationProofs` | `TypeOK` always holds |
| `Inductive`, `InductiveMesh` | `PeerReplicationSafety` | `IndInv` always holds |
| `DeletesHold`, `DeletesHoldMesh` | `PeerReplicationSafety` | `NoResurrection` |
| `CollectedWhenSeen`, `CollectedWhenSeenMesh` | `PeerReplicationSafety` | `StableBeforeGc` |
| `SitesConverge`, `SitesConvergeMesh` | `PeerReplicationSafety` | `Convergence` |
| `Invariance` | `PeerLinkProofs` | `IndInv` of `PeerLinkInv` always holds |
| `OffsetsAddUp` | `PeerLinkProofs` | `OffsetExact` |
| `LinkImplementsStream` | `PeerLinkProofs` | `PeerLink` implements `PeerStream` |
| `ClocksNotReused` | `SiteRecoveryProofs` | `NoClockReuse`, if `PeersAnswer` and `LinkedPromotion` |
| `WritesRecovered` | `SiteRecoveryProofs` | `Recovered`, if `QuietSaves` in addition |

Each inductive invariant was model-checked before it was proved; to repeat that,
add it to the invariants of the run, or check the module that defines it.

### Sites (`PeerReplicationProofs`, `Local`, `Merge`, `Safety`)

Assumed: the set of gids is finite and not empty, the bounds are natural numbers.
The plain forms are about sites that start unconnected (`Spec`), those with
`Mesh` about sites that start connected (`SpecMesh`).  Of these TLC checks the
second with three sites (`peers_mesh`) and the first with two (`fresh sites` of
`replication`).

`NoResurrection` is not inductive: a tombstone may be gone, or a snapshot may be
on its way that still holds the deleted write.  `IndInv` adds what the protocol
maintains to exclude this:

- `ClockLead`, `StampsOrdered`, `OffsetMatchesClock`: nobody has seen more of a
  site than it has done, own units grow along a stream, and the offset of a link
  splits the stream exactly where the clock does.  So "has seen" can be read off
  the clock.
- `ObservedBehind`: announced clocks lag behind real ones.  Hence the minimum
  that the collector computes is below every site's clock (lemma `GcBound`).
- `Retained`: a delete that a site has seen is in its tombstone, or every site
  has seen it.  This is what makes it safe to drop a tombstone: no source can
  send a covered write any more without having purged it.
- `SnapshotClock`, `SnapshotValue`, `SnapshotDeletes`: a snapshot on its way is
  a state its source was in; its value brings back nothing that the receiver has
  seen deleted; and it brings every delete of its source that the receiver
  lacks, in the tombstone before MERGE_END moves the clock.

`StableBeforeGc` follows from `GcBound` and `ObservedBehind` for the step of the
collector, and from the fact that no other action empties a tombstone.

`Convergence` needs the other half: that nothing is lost and nothing is invented.
`HistoryInv` relates values to the streams of all sites.  `NothingInvented`: a
value holds writes that were fed and a tombstone covers only deleted ones, also
in a snapshot.  `WritesKept`: a write that the clock has seen is in the value, or
a later one of its site is, or some site has fed a delete that covers it.
`SnapshotWrites`: a full synchronisation brings the writes between the clock of
the receiver and that of the snapshot.  When all streams are drained, every clock
has seen every write and every delete; then a unit of a value is, by
`WritesKept` and `NoResurrection`, the last write of that site that no delete
covers, which is the same at all sites (lemmas at the end of
`PeerReplicationProofs`).

There is one lemma per action (`SetStep`, `DelStep`, ..., `MergeEndStep`) for each
invariant, and frame lemmas for what actions of a kind leave alone.  The first
part of `PeerReplicationProofs` says what each operation on clocks returns, unit
by unit.

### The link (`PeerLinkInv`, `PeerLinkSteps`, `PeerLinkProofs`)

Assumed: the backlog is not of length zero, the bounds are natural numbers.

`OffsetExact` speaks of a connected link only, and says nothing of how the slave
got there.  `IndInv` says for each state of the slave what can be in the pipe to
it, given what the master believes of it:

- `TypeInv`, `WireInv`: nothing is on its way to a closed end, only the latest
  connection has the slave's end open, and a client that has asked and has no
  answer yet is a new one.
- `MasterInv`: there is a backlog while there are slaves, it holds the last
  writes, an output buffer holds the last writes too, and a slave that waits for
  the end of a snapshot belongs to the child.
- `CacheInv` with `Behind`: what the slave may ask to continue from, under the id
  that the master has now, is no more than it has applied.  It holds for the id
  that the slave cached and also for every id that an uninitialised field may
  hold, with offset 0 (`held`).
- `PhaseInv`: in the handshake there is one question or one answer; after PSYNC
  the pipe holds a refusal, or CONTINUE and a stretch of the stream that joins
  what the slave has, or FULLRESYNC and a part of a snapshot; in a transfer a
  snapshot that ends with the offset it stands for; in the stream consecutive
  writes, which reach up to the master's last one as long as the master still has
  the client (`Abreast`).

The proof has a lemma per action, with the pipe before and after as sequences.
`LinkImplementsStream` maps the master's writes and the slave's to `PeerStream`:
a step that applies a write from the pipe applies the next one, since the pipe
holds a stretch that joins what was applied, and the end of a snapshot applies
all up to its offset.

### The site (`SiteRecoveryProofs`)

Assumed: a finite set of peers, and that a jump is longer than the writes that
can be lost (`JumpAssumption`).

- `ClockInv`: each holder of writes has a clock that is not behind them
  (`NoneAhead`); a site that serves is ahead of its peers, its RDB file and its
  slave, and one that is loading is ahead of the peers that have sent their part
  (`Ahead`); and a clock stands for one write (`OneWrite`).  A site gives out its
  clock plus one, so no write has it.  `PeersAnswer` is used where a restarted
  site compares itself with all peers, `LinkedPromotion` where the slave lacks at
  most the writes that a jump passes.
- `DataInv`: the peers and the RDB file lack no recent write that is not after
  their clock (`InOrder`), and either the site has all that can be found or one
  peer that has still to send its part has it and will send all of it
  (`Fetching`).  A file saved during a backstream would break `InOrder`.

## 6. Only model-checked

- `CatchesUp`, `Settles`, `Serves`, `WaitersLeave` and `RecoversUnlessCircle` are
  liveness properties, which the prover does not reach.
- `ImplementsClocks` and most of `structures` and `runtime` speak of recursive
  walks over arrays, lists and trees of any length; the prover has no induction
  over data, and the modules use recursive operators, which it cannot load.
- The properties of `replication` about slaves, files, peers' configuration and
  merges, and those of `failover`, are checked on the instances above; their
  inductive invariants have not been worked out.
- What is proved holds for one key, one link, and one site that recovers.  That
  these fit together (section 1) is an argument and not a theorem.

## 7. Seeded faults

Definitions with a suffix and the comment "Seeded fault" (`MergeStart_Claims`,
`CanContinue_AnyId`, ...) are the operation before which they stand with one
plausible mistake.  Each property of each passing run fails when the operation
is replaced by one of them; `PROJECT.json` lists the pairs.

## 8. What is not modelled, and why

- The crdt module with the data types themselves: not part of the repository.
- Scripting, bit operations, HyperLogLog, geo and string commands: not in the
  command table, and nothing of the replication depends on them.
- Allocator, defragmentation, lazy free, sockets and files as such, checksums and
  hashes: what callers see of them is in their modules as an outcome.
- Logs, statistics, crash reports and the command line tools.
- The bytes of the protocol and of the proxy protocol, and parsing errors outside
  of `Requests`.
- The sampling and time limits of the collection cycle: they only decide when a
  tombstone is looked at.
- Overflow of the 56-bit logic clock: a jump adds about a day of traffic, and
  2^56 leaves room for hundreds of thousands of them at a million operations per
  second.
- The collector with offline gids, and repeated commands in `PeerReplication`.

`PROJECT.json` lists the hazards of the code line by line, with the property
that covers each, or the reason why none does, and for every component what its
model leaves out.
