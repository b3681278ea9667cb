-------------------------- MODULE MCReplication --------------------------
(***************************************************************************)
(* Replication and persistence for TLC: the link between two sites, whose  *)
(* module is extended, and in behaviours of their own, told apart by part, *)
(* small instances of the components around it. What they share is the     *)
(* question: does the copy, at a peer, a slave or in a file, hold what the *)
(* original holds.                                                         *)
(***************************************************************************)
EXTENDS PeerLink

VARIABLES
    part,   \* the component of this behaviour
    r1, r2, r3, r4, r5, r6, r7, r8, r9, r10, r11, r12, r13, r14   \* its variables

Proxies ==
    LET p1 == <<<<"p1">>, 80>>
        p2 == <<"PROXYTCP", <<"//", "p2">>, 80>>
        p3 == <<"PROXYTLS", <<"//", "p2">>, 80>>
    IN {<<p1, p2>>, <<p2>>, <<p3>>}

SA == INSTANCE SiteStream WITH Peers <- {2}, Own <- 1, Databases <- {0, 1}, MaxOwn <- 2,
        MaxPeerLog <- 4, MaxTakeovers <- 1, peerlog <- r1, peersel <- r2, link <- r3,
        atmaster <- r4, own <- r5, seldb <- r6, crdtseldb <- r7, crdtoff <- r8, stream <- r9,
        slave <- r10, stale <- r11, misfiled <- r12, slip <- r13, takeovers <- r14

SC == INSTANCE SiteStream WITH Peers <- {2}, Own <- 1, Databases <- {0, 1}, MaxOwn <- 1,
        MaxPeerLog <- 5, MaxTakeovers <- 1, peerlog <- r1, peersel <- r2, link <- r3,
        atmaster <- r4, own <- r5, seldb <- r6, crdtseldb <- r7, crdtoff <- r8, stream <- r9,
        slave <- r10, stale <- r11, misfiled <- r12, slip <- r13, takeovers <- r14

SB == INSTANCE SiteStream WITH Peers <- {2, 3}, Own <- 1, Databases <- {0, 1}, MaxOwn <- 1,
        MaxPeerLog <- 2, MaxTakeovers <- 1, peerlog <- r1, peersel <- r2, link <- r3,
        atmaster <- r4, own <- r5, seldb <- r6, crdtseldb <- r7, crdtoff <- r8, stream <- r9,
        slave <- r10, stale <- r11, misfiled <- r12, slip <- r13, takeovers <- r14

KA == INSTANCE Keyspace WITH KeyNames <- {1, 2}, SlaveKey <- 9, Dbs <- {0}, KeyValues <- {1},
        WatchClients <- {1}, ExpireDelay <- 1, MaxClock <- 2, MaxStream <- 2, MaxCommands <- 2,
        keydb <- r1, slavedb <- r2, tracked <- r3, swapped <- r4, tostream <- r5, clock <- r6,
        conns <- r7, commands <- r8

KB == INSTANCE Keyspace WITH KeyNames <- {1}, SlaveKey <- 9, Dbs <- {0, 1}, KeyValues <- {1},
        WatchClients <- {1}, ExpireDelay <- 1, MaxClock <- 2, MaxStream <- 2, MaxCommands <- 2,
        keydb <- r1, slavedb <- r2, tracked <- r3, swapped <- r4, tostream <- r5, clock <- r6,
        conns <- r7, commands <- r8

A == INSTANCE AofPersistence WITH AofDbs <- {0, 1}, Policies <- {"always", "everysec"},
        Lax <- {"everysec"}, MaxAofWrites <- 2, MaxRewrites <- 1, MaxFaults <- 1, mem <- r1,
        aof <- r2, disk <- r3, rewrite <- r4, bio <- r5, rdbchild <- r6, cut <- r7, half <- r8,
        writes <- r9, rewrites <- r10, faults <- r11

PA == INSTANCE SlaveSync WITH Servers <- {1, 2, 3}, BacklogSize <- 2, MaxHistory <- 2,
        MaxSlaveofs <- 2, MaxBreaks <- 0, Replicas <- {1, 2}, EofCapable <- {1},
        PeerSlaves <- {1}, MaxStreamed <- 2, MaxSyncs <- 3, MaxSaves <- 2, MaxForkFaults <- 1,
        srv <- r1, feed <- r2, saved <- r3, ids <- r4, written <- r5, forked <- r6,
        slaveofs <- r7, breaks <- r8, repl <- r1, peer <- r2, child <- r3, crdtchild <- r4,
        aofchild <- r5, scheduled <- r6, dataset <- r7, offset <- r8, file <- r9,
        diskless <- r10, multi <- r11, syncs <- r12, saves <- r13, forkFaults <- r14

PB == INSTANCE SlaveSync WITH Servers <- {1, 2}, BacklogSize <- 2, MaxHistory <- 2,
        MaxSlaveofs <- 2, MaxBreaks <- 1, Replicas <- {1, 2}, EofCapable <- {1},
        PeerSlaves <- {1}, MaxStreamed <- 2, MaxSyncs <- 3, MaxSaves <- 2, MaxForkFaults <- 1,
        srv <- r1, feed <- r2, saved <- r3, ids <- r4, written <- r5, forked <- r6,
        slaveofs <- r7, breaks <- r8, repl <- r1, peer <- r2, child <- r3, crdtchild <- r4,
        aofchild <- r5, scheduled <- r6, dataset <- r7, offset <- r8, file <- r9,
        diskless <- r10, multi <- r11, syncs <- r12, saves <- r13, forkFaults <- r14

LA == INSTANCE SlaveLink WITH Masters <- {"crdt", "plain", "old"}, HasAuth <- FALSE,
        AnnounceIp <- FALSE, Content <- <<"m", "d">>, MaxSlaveofs <- 2, MaxBreaks <- 2,
        MaxOwnClock <- 3, sl <- r1, link <- r2, bulk <- r3, aofon <- r4, loaded <- r5,
        sent <- r6, reset <- r7, slaveofs <- r8, breaks <- r9

LB == INSTANCE SlaveLink WITH Masters <- {"locked", "lockedplain"}, HasAuth <- TRUE,
        AnnounceIp <- TRUE, Content <- <<"d", "m">>, MaxSlaveofs <- 2, MaxBreaks <- 2,
        MaxOwnClock <- 3, sl <- r1, link <- r2, bulk <- r3, aofon <- r4, loaded <- r5,
        sent <- r6, reset <- r7, slaveofs <- r8, breaks <- r9

C == INSTANCE PeerConfig WITH PeerGids <- {2}, Hosts <- {"h1"}, ProxyTexts <- Proxies,
        MaxPeerofs <- 3, MaxMishaps <- 1, MaxFeed <- 2, OwnGid <- 1, OtherGids <- {2},
        Jump <- 10, MaxVcu <- 1, MaxOgWrites <- 3, MaxOgSteps <- 4, MaxOgStream <- 2,
        site <- r1, copy <- r2, rdbPeers <- r3, toslave <- r4, linkedTo <- r5, failed <- r6,
        orphan <- r7, peerofs <- r8, mishaps <- r9, og <- r1, ogMaster <- r2, ogStream <- r3,
        ogLinked <- r4, ogDump <- r5, highest <- r6, bypassed <- r7, stamped <- r8,
        ogWrites <- r9, ogSteps <- r10

C2 == INSTANCE PeerConfig WITH PeerGids <- {2, 3}, Hosts <- {"h1"}, ProxyTexts <- {},
        MaxPeerofs <- 2, MaxMishaps <- 1, MaxFeed <- 2, OwnGid <- 1, OtherGids <- {2},
        Jump <- 10, MaxVcu <- 1, MaxOgWrites <- 3, MaxOgSteps <- 4, MaxOgStream <- 2,
        site <- r1, copy <- r2, rdbPeers <- r3, toslave <- r4, linkedTo <- r5, failed <- r6,
        orphan <- r7, peerofs <- r8, mishaps <- r9, og <- r1, ogMaster <- r2, ogStream <- r3,
        ogLinked <- r4, ogDump <- r5, highest <- r6, bypassed <- r7, stamped <- r8,
        ogWrites <- r9, ogSteps <- r10

MA == INSTANCE MergeCommands WITH MergeKeys <- {1}, MergeTypes <- {"set", "hash"},
        MergeFields <- {1, 2}, PieceSize <- 1, LargeFields <- {2}, Expires <- {5},
        MaxSenderOps <- 3, MaxReceiverOps <- 2, MaxMergeBreaks <- 1, from <- r1, to <- r2,
        merging <- r3, sync <- r4, seen <- r5, transfers <- r6, watch <- r7, moved <- r8,
        unseen <- r9, conflict <- r10, gone <- r11, ops <- r12

MB == INSTANCE MergeCommands WITH MergeKeys <- {1, 2}, MergeTypes <- {"set"},
        MergeFields <- {1, 2}, PieceSize <- 1, LargeFields <- {2}, Expires <- {},
        MaxSenderOps <- 3, MaxReceiverOps <- 1, MaxMergeBreaks <- 0, from <- r1, to <- r2,
        merging <- r3, sync <- r4, seen <- r5, transfers <- r6, watch <- r7, moved <- r8,
        unseen <- r9, conflict <- r10, gone <- r11, ops <- r12

\* Two sites that meet for the first time.
FS == INSTANCE PeerReplication WITH Gid <- {1, 2}, MaxClock <- 2, MaxOps <- 2, MaxOvc <- 1,
        MaxBreak <- 0, vectorClock <- r1, ovc <- r2, val <- r3, tomb <- r4, stream <- r5,
        link <- r6, reploff <- r7, snapshot <- r8, breaks <- r9

all == <<vars, part, r1, r2, r3, r4, r5, r6, r7, r8, r9, r10, r11, r12, r13, r14>>

-----------------------------------------------------------------------------
\* A behaviour is one of one component: the registers hold its variables and
\* those it does not need stay at 0.
Begin ==
    /\ Init
    /\ \/ /\ part = "peer link"
          /\ r1 = 0 /\ r2 = 0 /\ r3 = 0 /\ r4 = 0 /\ r5 = 0 /\ r6 = 0 /\ r7 = 0 /\ r8 = 0 /\ r9 = 0
          /\ r10 = 0 /\ r11 = 0 /\ r12 = 0 /\ r13 = 0 /\ r14 = 0
       \/ /\ part = "stream" /\ SA!Init
       \/ /\ part = "transaction" /\ SC!Init
       \/ /\ part = "two peers" /\ SB!Init
       \/ /\ part = "keyspace" /\ KA!Init
          /\ r9 = 0 /\ r10 = 0 /\ r11 = 0 /\ r12 = 0 /\ r13 = 0 /\ r14 = 0
       \/ /\ part = "databases" /\ KB!Init
          /\ r9 = 0 /\ r10 = 0 /\ r11 = 0 /\ r12 = 0 /\ r13 = 0 /\ r14 = 0
       \/ /\ part = "aof" /\ A!Init
          /\ r12 = 0 /\ r13 = 0 /\ r14 = 0
       \/ /\ part = "chain" /\ PA!PartialInit
          /\ r9 = 0 /\ r10 = 0 /\ r11 = 0 /\ r12 = 0 /\ r13 = 0 /\ r14 = 0
       \/ /\ part = "psync" /\ PB!PartialInit
          /\ r9 = 0 /\ r10 = 0 /\ r11 = 0 /\ r12 = 0 /\ r13 = 0 /\ r14 = 0
       \/ /\ part = "transfer" /\ PA!TransferInit
       \/ /\ part = "slave link" /\ LA!Init
          /\ r10 = 0 /\ r11 = 0 /\ r12 = 0 /\ r13 = 0 /\ r14 = 0
       \/ /\ part = "slave auth" /\ LB!Init
          /\ r10 = 0 /\ r11 = 0 /\ r12 = 0 /\ r13 = 0 /\ r14 = 0
       \/ /\ part = "peers" /\ C!PeerInit
          /\ r10 = 0 /\ r11 = 0 /\ r12 = 0 /\ r13 = 0 /\ r14 = 0
       \/ /\ part = "peer table" /\ C2!PeerInit
          /\ r10 = 0 /\ r11 = 0 /\ r12 = 0 /\ r13 = 0 /\ r14 = 0
       \/ /\ part = "offline" /\ C!GidsInit
          /\ r11 = 0 /\ r12 = 0 /\ r13 = 0 /\ r14 = 0
       \/ /\ part = "merge" /\ MA!Init
          /\ r13 = 0 /\ r14 = 0
       \/ /\ part = "merge keys" /\ MB!Init
          /\ r13 = 0 /\ r14 = 0
       \/ /\ part = "fresh sites" /\ FS!Init
          /\ r10 = 0 /\ r11 = 0 /\ r12 = 0 /\ r13 = 0 /\ r14 = 0

Step_PeerLink == part = "peer link" /\ Next /\ UNCHANGED <<part, r1, r2, r3, r4, r5, r6, r7, r8,
        r9, r10, r11, r12, r13, r14>>

Step_Stream == part = "stream" /\ SA!Next /\ UNCHANGED <<vars, part>>

Step_Transaction == part = "transaction" /\ SC!Next /\ UNCHANGED <<vars, part>>

Step_TwoPeers == part = "two peers" /\ SB!Next /\ UNCHANGED <<vars, part>>

Step_Keyspace == part = "keyspace" /\ KA!Next /\ UNCHANGED <<vars, part, r9, r10, r11, r12, r13,
        r14>>

Step_Databases == part = "databases" /\ KB!Next /\ UNCHANGED <<vars, part, r9, r10, r11, r12,
        r13, r14>>

Step_Aof == part = "aof" /\ A!Next /\ UNCHANGED <<vars, part, r12, r13, r14>>

Step_Chain == part = "chain" /\ PA!PartialNext /\ UNCHANGED <<vars, part, r9, r10, r11, r12,
        r13, r14>>

Step_Psync == part = "psync" /\ PB!PartialNext /\ UNCHANGED <<vars, part, r9, r10, r11, r12,
        r13, r14>>

Step_Transfer == part = "transfer" /\ PA!TransferNext /\ UNCHANGED <<vars, part>>

Step_SlaveLink == part = "slave link" /\ LA!Next /\ UNCHANGED <<vars, part, r10, r11, r12, r13,
        r14>>

Step_SlaveAuth == part = "slave auth" /\ LB!Next /\ UNCHANGED <<vars, part, r10, r11, r12, r13,
        r14>>

Step_Peers == part = "peers" /\ C!PeerNext /\ UNCHANGED <<vars, part, r10, r11, r12, r13, r14>>

Step_PeerTable == part = "peer table" /\ C2!PeerNext /\ UNCHANGED <<vars, part, r10, r11, r12,
        r13, r14>>

Step_Offline == part = "offline" /\ C!GidsNext /\ UNCHANGED <<vars, part, r11, r12, r13, r14>>

Step_Merge == part = "merge" /\ MA!Next /\ UNCHANGED <<vars, part, r13, r14>>

Step_MergeKeys == part = "merge keys" /\ MB!Next /\ UNCHANGED <<vars, part, r13, r14>>

Step_FreshSites == part = "fresh sites" /\ FS!Next /\ UNCHANGED <<vars, part, r10, r11, r12, r13,
        r14>>

\* The bounds stop these; the others never get stuck.
Stopped == part \in {"stream", "transaction", "two peers", "keyspace", "databases", "chain",
        "psync", "transfer", "slave link", "slave auth", "peers", "peer table", "offline",
        "merge", "merge keys", "fresh sites"} /\ UNCHANGED all

Steps ==
    \/ Step_PeerLink
    \/ Step_Stream
    \/ Step_Transaction
    \/ Step_TwoPeers
    \/ Step_Keyspace
    \/ Step_Databases
    \/ Step_Aof
    \/ Step_Chain
    \/ Step_Psync
    \/ Step_Transfer
    \/ Step_SlaveLink
    \/ Step_SlaveAuth
    \/ Step_Peers
    \/ Step_PeerTable
    \/ Step_Offline
    \/ Step_Merge
    \/ Step_MergeKeys
    \/ Step_FreshSites
    \/ Stopped

Runs == Begin /\ [][Steps]_all

-----------------------------------------------------------------------------
(***************************************************************************)
(* The properties. Each is about one question, asked of the components it  *)
(* concerns in the behaviours that are theirs; the modules of the          *)
(* components state in full what each conjunct says.                       *)
(***************************************************************************)

\* Whatever interleaving of own writes, transactions and the streams of peers
\* a site feeds to its slave (replicationFeedSlaves,
\* replicationFeedStreamFromMasterStream), the slave executes each command in
\* the database in which its master did, and queues into a transaction nothing
\* that was outside of it. Left out are writes sent while server.slaveseldb
\* did not tell what the slave had selected: after a chunk of a peer in which
\* that peer selected another database (networking.c:1585).
SlaveExecutesAlike ==
    /\ part = "stream" => SA!SameDatabaseUnlessStale
    /\ part = "transaction" => SC!SameDatabaseUnlessStale
    /\ part = "two peers" => SB!SameDatabaseUnlessStale
    /\ part = "stream" => SA!TransactionsWhole
    /\ part = "transaction" => SC!TransactionsWhole
    /\ part = "two peers" => SB!TransactionsWhole

\* The slave could take the place of its master: where it would go on with the
\* stream of a peer is exact (every write before that offset, none behind it,
\* and the database the peer has selected there); its backlog for peers is as
\* long as that of the master, but for commands inside a transaction that go
\* to slaves only (networking.c:1555); it knows the peers of its master, the
\* configuration files have what PEEROF acknowledged, and the proxy that INFO
\* reports is the one the link goes through (peerofCommand,
\* xpipeProxyConnect). A configuration file that could not be written breaks
\* this at either side.
TakeoverReady ==
    /\ part = "stream" => SA!TakeoverExact
    /\ part = "transaction" => SC!TakeoverExact
    /\ part = "two peers" => SB!TakeoverExact
    /\ part = "stream" => SA!BacklogAlignedButForSlip
    /\ part = "transaction" => SC!BacklogAlignedButForSlip
    /\ part = "two peers" => SB!BacklogAlignedButForSlip
    /\ part = "peers" => C!SlaveKnowsPeers
    /\ part = "peer table" => C2!SlaveKnowsPeers
    /\ part = "peers" => C!ConfigHoldsPeers
    /\ part = "peer table" => C2!ConfigHoldsPeers
    /\ part = "peers" => C!LinkThroughProxy
    /\ part = "peer table" => C2!LinkThroughProxy

\* Once it has executed all commands of the master, the slave has the same
\* keys with the same values, volatile or not alike, although it runs them
\* later and never decides by itself that a key is over (expireIfNeeded); and
\* a key that a client of the slave made volatile stays known to the cron of
\* the slave (rememberSlaveKeyWithExpire).
ReplicaSame ==
    /\ part = "keyspace" => KA!ReplicaSame
    /\ part = "databases" => KB!ReplicaSame
    /\ part = "keyspace" => KA!SlaveKeyTracked
    /\ part = "databases" => KB!SlaveKeyTracked

\* An EXEC that would run now runs on what the client has watched: a watched
\* key with another value has marked the client (touchWatchedKey), unless the
\* key has expired or was moved or swapped, which mark nobody (db.c:900,
\* db.c:979, db.c:1187).
WatchSound ==
    /\ part = "keyspace" => KA!WatchSound
    /\ part = "databases" => KB!WatchSound

\* While the append only file is on, the file and then the buffer, replayed,
\* give exactly the data set: no write is lost or done twice by a rewrite, a
\* failed write, a switch or a restart (aof.c:318, aof.c:1468); with
\* appendfsync always, what was replied to survives a power failure
\* (aof.c:416); and a server that was never stopped within a write loads no
\* half of a transaction.
FileHoldsData ==
    /\ part = "aof" => A!FileHoldsData
    /\ part = "aof" => A!AlwaysDurable
    /\ part = "aof" => A!TransactionsLoadedWhole

\* A slave that its master feeds has, with what is on the way, exactly the
\* writes of its master: after a partial resynchronisation
\* (masterTryPartialResynchronization), after a snapshot whose child others
\* had started or whose file FLUSHALL replaced (replication.c:667, 1094), and
\* in a chain. Left out is a master that started a backlog under an id it had
\* before writes it did not count (refullSyncWithSlaves, replication.c:639). A
\* slave that waits for a child waits for one that exists; what it loads is
\* the snapshot, byte for byte (readSyncBulkPayload); nothing is left open by
\* an attempt given up; and it serves none of its old history under the new
\* id.
SlaveCopyExact ==
    /\ part = "chain" => PA!FedSlaveExactUnlessForked
    /\ part = "psync" => PB!FedSlaveExactUnlessForked
    /\ part = "transfer" => PA!SnapshotExact
    /\ part = "transfer" => PA!WaitsForChild
    /\ part = "slave link" => LA!LoadedWhole
    /\ part = "slave auth" => LB!LoadedWhole
    /\ part = "slave link" => LA!LinkMatchesState
    /\ part = "slave auth" => LB!LinkMatchesState
    /\ part = "slave link" => LA!NoOldHistoryServed
    /\ part = "slave auth" => LB!NoOldHistoryServed

\* No client is served while a peer owes this site own writes, and a server
\* that shuts clients out waits for a peer that does, whatever PEEROF,
\* restarts and lost links did (tryCleanCrdtServerLoading), except for what
\* PEEROF leaves behind when it has set crdtServer.loading and then refuses or
\* keeps the connection.
OwedShutsOut ==
    /\ part = "peers" => C!OwedShutsOut
    /\ part = "peer table" => C2!OwedShutsOut
    /\ part = "peers" => C!LoadingOwed
    /\ part = "peer table" => C2!LoadingOwed

\* No write is stamped with an own clock that an earlier write of the site
\* has: over changes of the offline gids and failovers that lose writes, where
\* the copy the stamp comes from was not bypassed and then is the clock
\* without the offline gids (initVectorClockCache, incrLocalVcUnit); and for
\* the commands made from plain snapshots (data2CrdtData), except after a load
\* that failed and set the own clock back to 0 (rdb.c:1766).
StampsFresh ==
    /\ part = "offline" => C!StampsFresh
    /\ part = "offline" => C!CopyFollowsClock
    /\ part = "slave link" => LA!ClocksDistinctUnlessReset
    /\ part = "slave auth" => LB!ClocksDistinctUnlessReset

\* Once a full synchronisation has ended, what the receiver holds of the
\* sender's writes is what the sender holds: each live write is there unless
\* the receiver knows it deleted, and none is that the sender has deleted or
\* written anew, whatever was filtered by min_vc, split, broken off, given up
\* for a value that is too big and sent again, unless a key met another type
\* (crdtSendMergeRequest2, mergeCrdtObjectCommand, crdtMergeTomstoneCommand).
\* And whatever the order of merges, deletions and local writes, a write that
\* a site ever knew to be deleted is not in its value again, even when its
\* tombstone was overtaken and dropped (PURGE_TOMBSTONE). Sites that meet for
\* the first time, and so begin with a full synchronisation each way, bring no
\* deleted value back and end with the same value.
MergeExact ==
    /\ part = "merge" => MA!MergedAll /\ MA!NeverResurrected
    /\ part = "merge keys" => MB!MergedAll /\ MB!NeverResurrected
    /\ part = "fresh sites" => FS!NoResurrection /\ FS!Convergence

=============================================================================
