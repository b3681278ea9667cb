-------------------------- MODULE MCFailover --------------------------
(***************************************************************************)
(* Failover for TLC: the elections and the failure detection of Redis      *)
(* Cluster, the moving of slots and the membership, and the elections and  *)
(* failovers of Sentinel, each in small instances of its own, in           *)
(* behaviours that are told apart by part. What they share is the          *)
(* question: whether all agree on who is the master, and nothing is lost   *)
(* when that changes.                                                      *)
(***************************************************************************)
EXTENDS Integers

VARIABLES
    part,   \* the component of this behaviour
    r1, r2, r3, r4, r5, r6, r7, r8, r9, r10, r11   \* its variables

\* Three masters with a slot each, two slaves of the first.
TwoSlaves == [n \in 1..5 |-> IF n < 4 THEN 0 ELSE 1]
\* Two masters, one slave, and who pings whom.
OneSlave == <<0, 0, 1>>
Pings == {<<1, 2>>, <<2, 1>>, <<3, 1>>, <<1, 3>>, <<2, 3>>, <<3, 2>>}

EA == INSTANCE ClusterElection WITH Nodes <- 1..5, Slots <- {1, 2, 3},
        Owner0 <- [s \in {1, 2, 3} |-> s], Master0 <- TwoSlaves, Links <- {}, Operators <- {},
        MaxEpoch <- 4, MaxPackets <- 2, MaxRestarts <- 1, view <- r1, conf <- r2, bus <- r3,
        wins <- r4, restarts <- r5

EB == INSTANCE ClusterElection WITH Nodes <- {1, 2, 3}, Slots <- {1, 2},
        Owner0 <- [s \in {1, 2} |-> s], Master0 <- OneSlave, Links <- Pings,
        Operators <- {1, 3}, MaxEpoch <- 4, MaxPackets <- 1, MaxRestarts <- 0, view <- r1,
        conf <- r2, bus <- r3, wins <- r4, restarts <- r5

F == INSTANCE ClusterMembers WITH Members <- {1, 2, 3, 4}, Voters <- {1, 2, 3},
        EmptyMasters <- {}, FailureSuspects <- {1}, MaxMessages <- 1, Peers <- {1, 2, 3},
        Start <- <<{}, {3}, {2}>>, Suspects <- {3}, Replicas <- {2}, MaxMeets <- 1,
        MaxForgets <- 1, MaxBus <- 1, flags <- r1, reports <- r2, pinged <- r3,
        clusterState <- r4, links <- r5, suspected <- r6, known <- r1, shaking <- r2,
        unmet <- r3, blacklist <- r4, following <- r5, reporters <- r6, wire <- r7, meets <- r8,
        forgets <- r9, banned <- r10

R == INSTANCE ClusterHandover WITH Source <- 1, Target <- 2, Other <- 3, SlotKeys <- {1, 2},
        SlotValues <- {2}, MaxMoves <- 2, MFTimeout <- 2, MaxTime <- 7, MaxOffset <- 3,
        MaxInFlight <- 2, time <- r1, mfMaster <- r2, pauseEnd <- r3, mfSlave <- r4,
        attempt <- r5, offset <- r6, written <- r7, flight <- r8, pinged <- r9, promoted <- r10,
        owner <- r1, migrating <- r2, importing <- r3, claimed <- r4, data <- r5, move <- r6,
        transfer <- r7, request <- r8, truth <- r9, copied <- r10, stale <- r11

SA == INSTANCE Sentinel WITH Sentinels <- {1, 2, 3}, DownQuorum <- 2, Eager <- {1, 2},
        Forcing <- {}, Flaky <- {}, MaxSEpoch <- 2, MaxAsked <- 1, MaxCrashes <- 0,
        Watchers <- {1, 2}, Instances <- {1, 2, 3}, Parallel <- 1, MaxFailovers <- 2, st <- r1,
        asked <- r2, elected <- r3, astray <- r4, crashes <- r5, role <- r1, up <- r2,
        sen <- r3, started <- r4, torn <- r5

SB == INSTANCE Sentinel WITH Sentinels <- {1, 2}, DownQuorum <- 2, Eager <- {1}, Forcing <- {2},
        Flaky <- {2}, MaxSEpoch <- 1, MaxAsked <- 1, MaxCrashes <- 1, Watchers <- {1, 2},
        Instances <- {1, 2, 3}, Parallel <- 1, MaxFailovers <- 2, st <- r1, asked <- r2,
        elected <- r3, astray <- r4, crashes <- r5, role <- r1, up <- r2, sen <- r3,
        started <- r4, torn <- r5

all == <<part, r1, r2, r3, r4, r5, r6, r7, r8, r9, r10, r11>>

-----------------------------------------------------------------------------
\* A behaviour is one of one component: the registers hold its variables and
\* those it does not need stay at 0.
Begin ==
    \/ /\ part = "election" /\ EA!Init
       /\ r6 = 0 /\ r7 = 0 /\ r8 = 0 /\ r9 = 0 /\ r10 = 0 /\ r11 = 0
    \/ /\ part = "epochs" /\ EB!Init
       /\ r6 = 0 /\ r7 = 0 /\ r8 = 0 /\ r9 = 0 /\ r10 = 0 /\ r11 = 0
    \/ /\ part = "failure reports" /\ F!FailureInit
       /\ r7 = 0 /\ r8 = 0 /\ r9 = 0 /\ r10 = 0 /\ r11 = 0
    \/ /\ part = "reshard" /\ R!ReshardInit
    \/ /\ part = "membership" /\ F!MemberInit
       /\ r11 = 0
    \/ /\ part = "manual failover" /\ R!ManualInit
       /\ r11 = 0
    \/ /\ part = "sentinels" /\ SA!ElectionInit
       /\ r6 = 0 /\ r7 = 0 /\ r8 = 0 /\ r9 = 0 /\ r10 = 0 /\ r11 = 0
    \/ /\ part = "two sentinels" /\ SB!ElectionInit
       /\ r6 = 0 /\ r7 = 0 /\ r8 = 0 /\ r9 = 0 /\ r10 = 0 /\ r11 = 0
    \/ /\ part = "sentinel failover" /\ SA!FailoverInit
       /\ r6 = 0 /\ r7 = 0 /\ r8 = 0 /\ r9 = 0 /\ r10 = 0 /\ r11 = 0

Step_Election == part = "election" /\ EA!Next /\ UNCHANGED <<part, r6, r7, r8, r9, r10, r11>>

Step_Epochs == part = "epochs" /\ EB!Next /\ UNCHANGED <<part, r6, r7, r8, r9, r10, r11>>

Step_FailureReports == part = "failure reports" /\ F!FailureNext /\ UNCHANGED <<part, r7, r8,
        r9, r10, r11>>

Step_Reshard == part = "reshard" /\ R!ReshardNext /\ UNCHANGED part

Step_Membership == part = "membership" /\ F!MemberNext /\ UNCHANGED <<part, r11>>

Step_ManualFailover == part = "manual failover" /\ R!ManualNext /\ UNCHANGED <<part, r11>>

Step_Sentinels == part = "sentinels" /\ SA!ElectionNext /\ UNCHANGED <<part, r6, r7, r8, r9,
        r10, r11>>

Step_TwoSentinels == part = "two sentinels" /\ SB!ElectionNext /\ UNCHANGED <<part, r6, r7, r8,
        r9, r10, r11>>

Step_SentinelFailover == part = "sentinel failover" /\ SA!FailoverNext /\ UNCHANGED <<part, r6,
        r7, r8, r9, r10, r11>>

\* The bounds stop these; the others never get stuck.
Stopped == part \in {"election", "epochs", "failure reports", "reshard", "membership",
        "manual failover", "sentinels", "two sentinels", "sentinel failover"} /\ UNCHANGED all

Steps ==
    \/ Step_Election
    \/ Step_Epochs
    \/ Step_FailureReports
    \/ Step_Reshard
    \/ Step_Membership
    \/ Step_ManualFailover
    \/ Step_Sentinels
    \/ Step_TwoSentinels
    \/ Step_SentinelFailover
    \/ Stopped

Runs == Begin /\ [][Steps]_all

-----------------------------------------------------------------------------
(***************************************************************************)
(* The properties. Each is about one question, asked of the components it  *)
(* concerns in the behaviours that are theirs; the modules of the          *)
(* components state in full what each conjunct says.                       *)
(***************************************************************************)

\* No two slaves of a cluster become master under the epoch of the same
\* election, for a slave needs a majority and a master votes once in an epoch
\* (clusterSendFailoverAuthIfNeeded), and no two Sentinels lead in the same
\* epoch (sentinelVoteLeader). Left out are masters that restart from a
\* nodes.conf that lacks their last vote, answers counted for a later
\* election, and a Sentinel that counts votes of the current epoch whatever
\* the epoch of its failover. No node knows of a configuration newer than its
\* currentEpoch, after a restart from nodes.conf too, so that an epoch taken
\* by an increment is new.
OneWinner ==
    /\ part = "election" => EA!OneWinnerUnlessForgotten
    /\ part = "epochs" => EB!OneWinnerUnlessForgotten
    /\ part = "election" => EA!EpochsBounded
    /\ part = "epochs" => EB!EpochsBounded
    /\ part = "sentinels" => SA!OneLeaderUnlessAstray
    /\ part = "two sentinels" => SB!OneLeaderUnlessAstray

\* When no more header changes a table, all nodes of a cluster have the same
\* owner for every slot, which serves it as a master, and no two masters have
\* the same epoch (clusterUpdateSlotsConfigWith,
\* clusterHandleConfigEpochCollision). Sentinels whose configurations have the
\* same version agree on the master (sentinelProcessHelloMessage), unless one
\* was told, while it reconfigured slaves, that the master it replaces is the
\* master again; and a slave is marked as being reconfigured only while there
\* is a promoted one (sentinelRefreshInstanceInfo).
AgreeOnceSettled ==
    /\ part = "election" => EA!SettledAgree
    /\ part = "epochs" => EB!SettledAgree
    /\ part = "sentinel failover" => SA!SameVersionSameMaster
    /\ part = "sentinel failover" => SA!ReconfHasPromoted

\* A node is FAIL for anyone only if a quorum of the masters that serve slots
\* have missed its PONG themselves (markNodeAsFailingIfNeeded); a node that
\* serves queries sees a majority of the owners of slots alive and none of
\* them FAIL (clusterUpdateState); a node that was forgotten stays out while
\* it is in the black list, whatever others gossip, unless a MEET or a
\* handshake under way brings it back (clusterProcessGossipSection); and no
\* table refers to a node that was removed (clusterDelNode, freeClusterNode).
MembersSound ==
    /\ part = "failure reports" => F!FailHasQuorum
    /\ part = "failure reports" => F!ServesOnlyWithMajority
    /\ part = "membership" => F!ForgottenStaysOut
    /\ part = "membership" => F!NoDanglingNode

\* While a slot moves, a command runs on what the last write left, whatever
\* redirections its client follows, and when it has moved every key is at the
\* new owner and nowhere else with its last value (getNodeByQuery,
\* migrateCommand), but for a key of which a broken MIGRATE left a second
\* copy. A slave that a manual failover promotes has every write the master
\* acknowledged, unless it was forced, and never runs past the offset it waits
\* for unless a keep-alive moved the stream on (clusterHandleManualFailover);
\* a pause of its previous attempt is excepted in both.
HandoverLosesNothing ==
    /\ part = "reshard" => R!CommandsSeeLatest
    /\ part = "reshard" => R!MovedWhole
    /\ part = "manual failover" => R!ManualLosesNothing
    /\ part = "manual failover" => R!NeverOvershoots

=============================================================================
