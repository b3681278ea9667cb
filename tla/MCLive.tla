------------------------------- MODULE MCLive -------------------------------
(***************************************************************************)
(* Liveness, for TLC: one site that restarts, whose module is extended,    *)
(* and in behaviours of their own, told apart by part, the link of two     *)
(* sites, the values of two sites, slaves that wait for a snapshot, and    *)
(* several sites that recover from each other. What they share is the      *)
(* question: when faults stop, does the system get where it should.        *)
(***************************************************************************)
EXTENDS SiteRecovery

VARIABLES
    part,   \* the component of this behaviour
    r1, r2, r3, r4, r5, r6, r7, r8, r9, r10, r11, r12, r13, r14, r15, r16, r17, r18   \* its variables

K == INSTANCE PeerLink WITH RequireAuth <- TRUE, AnnounceIp <- TRUE, BacklogSize <- 1,
        MaxWrites <- 2, MaxFaults <- 2, MaxReplid <- 2, written <- r1, replid <- r2,
        offset <- r3, backlog <- r4, client <- r5, child <- r6, ends <- r7, down <- r8,
        up <- r9, repl_state <- r10, round <- r11, conn <- r12, cached <- r13, master <- r14,
        querybuf <- r15, held <- r16, got <- r17, faults <- r18

P == INSTANCE PeerReplication WITH Gid <- {1, 2}, MaxClock <- 2, MaxOps <- 2, MaxOvc <- 3,
        MaxBreak <- 1, vectorClock <- r1, ovc <- r2, val <- r3, tomb <- r4, stream <- r5,
        link <- r6, reploff <- r7, snapshot <- r8, breaks <- r9

T == INSTANCE SlaveSync WITH Servers <- {1}, BacklogSize <- 1, MaxHistory <- 1,
        MaxSlaveofs <- 1, MaxBreaks <- 1, Replicas <- {1, 2}, EofCapable <- {1},
        PeerSlaves <- {1}, MaxStreamed <- 1, MaxSyncs <- 2, MaxSaves <- 1, MaxForkFaults <- 1,
        srv <- r1, feed <- r2, saved <- r3, ids <- r4, written <- r5, forked <- r6,
        slaveofs <- r7, breaks <- r8, repl <- r1, peer <- r2, child <- r3, crdtchild <- r4,
        aofchild <- r5, scheduled <- r6, dataset <- r7, offset <- r8, file <- r9,
        diskless <- r10, multi <- r11, syncs <- r12, saves <- r13, forkFaults <- r14

S == INSTANCE SitesRestart WITH Sites <- 1..3, PeersOf <- [s \in 1..3 |-> 1..3 \ {s}],
        MaxSiteCrashes <- 4, MaxUnpeers <- 1, sites <- r1, crashed <- r2, unpeered <- r3

all == <<vars, part, r1, r2, r3, r4, r5, r6, r7, r8, r9, r10, r11, r12, r13, r14, r15, r16, r17,
        r18>>

-----------------------------------------------------------------------------
\* A behaviour is one of one component: the registers hold its variables and
\* those it does not need stay at 0.
Begin ==
    /\ Init
    /\ \/ /\ part = "one site"
          /\ r1 = 0 /\ r2 = 0 /\ r3 = 0 /\ r4 = 0 /\ r5 = 0 /\ r6 = 0 /\ r7 = 0 /\ r8 = 0 /\ r9 = 0 /\ r10 = 0
          /\ r11 = 0 /\ r12 = 0 /\ r13 = 0 /\ r14 = 0 /\ r15 = 0 /\ r16 = 0 /\ r17 = 0 /\ r18 = 0
       \/ /\ part = "link" /\ K!Init
       \/ /\ part = "values" /\ P!InitMesh
          /\ r10 = 0 /\ r11 = 0 /\ r12 = 0 /\ r13 = 0 /\ r14 = 0 /\ r15 = 0 /\ r16 = 0 /\ r17 = 0 /\ r18 = 0
       \/ /\ part = "waiting slaves" /\ T!TransferInit
          /\ r15 = 0 /\ r16 = 0 /\ r17 = 0 /\ r18 = 0
       \/ /\ part = "several sites" /\ S!Init
          /\ r4 = 0 /\ r5 = 0 /\ r6 = 0 /\ r7 = 0 /\ r8 = 0 /\ r9 = 0 /\ r10 = 0 /\ r11 = 0 /\ r12 = 0 /\ r13 = 0
          /\ r14 = 0 /\ r15 = 0 /\ r16 = 0 /\ r17 = 0 /\ r18 = 0
    /\ part # "one site" => ~others

\* Whose behaviour it is, and what its steps leave alone.
OneSite == part = "one site" /\ UNCHANGED <<part, r1, r2, r3, r4, r5, r6, r7, r8, r9, r10, r11,
        r12, r13, r14, r15, r16, r17, r18>>

Link == part = "link" /\ UNCHANGED <<vars, part>>

Values == part = "values" /\ UNCHANGED <<vars, part, r10, r11, r12, r13, r14, r15, r16, r17, r18>>

WaitingSlaves == part = "waiting slaves" /\ UNCHANGED <<vars, part, r15, r16, r17, r18>>

SeveralSites == part = "several sites" /\ UNCHANGED <<vars, part, r4, r5, r6, r7, r8, r9, r10,
        r11, r12, r13, r14, r15, r16, r17, r18>>

\* The bounds stop these; the others never get stuck.
Stopped == part \in {"values", "waiting slaves", "several sites"} /\ UNCHANGED all

Steps ==
    \/ OneSite /\ Next
    \/ Link /\ K!Next
    \/ Values /\ P!Next
    \/ WaitingSlaves /\ T!TransferNext
    \/ SeveralSites /\ S!Next
    \/ Stopped

\* The fairness that each component states.
Fair ==
    /\ WF_all(Link /\ K!crdtConnectWithMaster)
    /\ WF_all(Link /\ K!crdtSyncWithMaster)
    /\ WF_all(Link /\ K!crdtSlaveTryPartialResynchronization)
    /\ WF_all(Link /\ \E k \in 1..5 : K!readQueryFromClient(k))
    /\ WF_all(Link /\ K!processInputBuffer)
    /\ WF_all(Link /\ K!ReadMasterEof)
    /\ WF_all(Link /\ K!crdtReplicationSendAck)
    /\ \A c \in 1..3 : /\ WF_all(Link /\ K!AnswerHandshake(c))
                        /\ WF_all(Link /\ K!crdtPsyncCommand(c))
                        /\ WF_all(Link /\ K!Acknowledge(c))
                        /\ WF_all(Link /\ K!ReadEof(c))
    /\ WF_all(Link /\ K!startCrdtBgsaveForReplication)
    /\ WF_all(Link /\ K!ChildWrites)
    /\ WF_all(Link /\ K!backgroundSaveDoneHandlerSocket)
    /\ \A n \in 1..2 : /\ WF_all(Values /\ P!sendObservedVectorClock(n))
                       /\ WF_all(Values /\ P!Gc(n))
                       /\ WF_all(Values /\ P!StartBgsave(n))
    /\ \A n, p \in 1..2 : WF_all(Values /\ P!Apply(n, p)) /\ WF_all(Values /\ P!Sync(n, p))
    /\ \A p \in Peer : WF_all(OneSite /\ crdtMergeEndCommand(p))
    /\ WF_all(OneSite /\ \E answering \in SUBSET Peer : Restart(answering))
    /\ WF_all(WaitingSlaves /\ T!replicationCron)
    /\ WF_all(WaitingSlaves /\ T!crdtReplicationCron)
    /\ WF_all(WaitingSlaves /\ T!RewriteDone)
    /\ WF_all(WaitingSlaves /\ \E ok \in BOOLEAN : T!ChildExits(ok))
    /\ WF_all(WaitingSlaves /\ T!backgroundSaveDoneHandler)
    /\ WF_all(WaitingSlaves /\ T!CrdtChildExits)
    /\ WF_all(WaitingSlaves /\ T!crdtBackgroundSaveDoneHandler)
    /\ \A s \in 1..3 : /\ WF_all(SeveralSites /\ S!Restart(s))
                       /\ \A p \in 1..3 : WF_all(SeveralSites /\ S!MergeEnds(s, p))

Runs == Begin /\ [][Steps]_all /\ Fair

-----------------------------------------------------------------------------
(***************************************************************************)
(* The properties of each component, in the behaviours that are its own.   *)
(***************************************************************************)

\* The link: once writes and faults stop, the slave gets everything (the
\* handshake, the partial or the full synchronisation and the first
\* acknowledgement, crdtReplicationSendAck, never leave it waiting for good).
CatchesUp == <>[](part = "link" => K!CaughtUp)

\* The values: when clients and breaks have stopped, all sites end up with the
\* same value and no tombstone is left anywhere (Gc, sendObservedVectorClock).
Settles == <>[](part = "values" => P!Settled)

\* One site: a backstream ends, and it serves clients again.
Serves == <>[](part = "one site" => Serving)

\* Slaves and peers do not wait for ever for a child to start or to end: when
\* no more arrive, none is left waiting (replication.c:2918).
WaitersLeave == <>[](part = "waiting slaves" => T!NobodyWaits)

\* Several sites: every site serves clients again, unless it waits, directly or
\* through others, for sites that wait for each other; no other reason keeps a
\* site loading (peerBackStream).  On the way there it serves clients only when
\* nobody owes it data, and shuts them out only while somebody does, whatever
\* peers were down when it asked (tryCleanCrdtServerLoading).
RecoversUnlessCircle ==
    /\ [](part = "several sites" => S!LoadingIffOwed)
    /\ <>[](part = "several sites" => S!RecoveredUnlessCircle)
=============================================================================
