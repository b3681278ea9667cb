--------------------------- MODULE ClusterMembers ---------------------------
(***************************************************************************)
(* Who is a member of a cluster and who has failed (cluster.c): the        *)
(* reports that make a node FAIL, and handshakes, gossip and CLUSTER       *)
(* FORGET.                                                                 *)
(***************************************************************************)
EXTENDS Integers, FiniteSets, FiniteSetsExt

-----------------------------------------------------------------------------
(***************************************************************************)
(* Failure detection on the cluster bus (cluster.c).  A node whose PONG    *)
(* is late becomes PFAIL for the node that waits; the flags travel in the  *)
(* gossip section of PING and PONG; a master's word is a failure report;   *)
(* with reports of a majority the node is marked FAIL and everybody is     *)
(* told.  The state of the cluster, which decides whether a node serves    *)
(* queries, is kept up to date with the flags.                             *)
(*                                                                         *)
(* Time is left to the choice of actions: a PONG may always be late, a     *)
(* report or a FAIL flag may always have become old.                       *)
(***************************************************************************)

CONSTANTS
  Members,      \* the nodes of the cluster
  Voters,       \* the masters that serve slots
  EmptyMasters, \* the masters without slots; the other members are slaves
  FailureSuspects,     \* the nodes whose PONG may be late
  MaxMessages   \* bound on the packets on the bus

VARIABLES
  flags,        \* flags[i][n]: what node i thinks of node n
  reports,      \* reports[i][n]: the nodes whose report on n node i holds
  pinged,       \* pinged[i]: the nodes i waits for a PONG of
  clusterState, \* the state of the cluster at every node
  links,        \* the packets on their way
  suspected     \* the nodes that ever flagged a node on their own

failureVars == <<flags, reports, pinged, clusterState, links, suspected>>

masters == Voters \cup EmptyMasters

nodeFailed(f, n) == f[n] = "fail"
nodeTimedOut(f, n) == f[n] = "pfail"

needed_quorum == (Cardinality(Voters) \div 2) + 1

(* The state follows from the flags; a master that was in the minority may *)
(* stay in the fail state for a while longer.                              *)
NewState(f) ==
  IF \/ \E n \in Voters : nodeFailed(f, n)
     \/ Cardinality({n \in Voters : f[n] = "ok"}) < needed_quorum
  THEN "fail" ELSE "ok"

clusterUpdateState(i, f) ==
  \/ clusterState' = [clusterState EXCEPT ![i] = NewState(f)]
  \/ /\ i \in masters /\ clusterState[i] = "fail"
     /\ UNCHANGED clusterState

(***************************************************************************)
(* markNodeAsFailingIfNeeded, as a function of the flags f and reports r   *)
(* of node i.                                                              *)
(***************************************************************************)
clusterNodeFailureReportsCount(r, n) == Cardinality(r[n])

\* Seeded fault: a slave counts itself as well.
Failing_Counted(i, f, r, n) ==
  /\ nodeTimedOut(f, n)
  /\ clusterNodeFailureReportsCount(r, n)
       + 1 >= needed_quorum

Failing(i, f, r, n) ==
  /\ nodeTimedOut(f, n)
  /\ clusterNodeFailureReportsCount(r, n)
       + (IF i \in masters THEN 1 ELSE 0) >= needed_quorum

markNodeAsFailingIfNeeded(i, f, r, n) ==
  IF Failing(i, f, r, n) THEN [f EXCEPT ![n] = "fail"] ELSE f

(* The gossip g of a sender, a function from nodes to whether the sender   *)
(* has them flagged, changes the reports of node i.                        *)
clusterProcessGossipReports(i, sender, g, r) ==
  [n \in Members |->
     IF n \in DOMAIN g /\ sender \in masters /\ n # i
     THEN IF g[n] THEN r[n] \cup {sender} ELSE r[n] \ {sender}
     ELSE r[n]]

GossipMarks(i, sender, g, f, r) ==
  [n \in Members |->
     IF n \in DOMAIN g /\ sender \in masters /\ n # i /\ g[n]
     THEN markNodeAsFailingIfNeeded(i, f, r, n)[n]
     ELSE f[n]]

(* A PONG clears PFAIL; FAIL is cleared for slaves and empty masters, and  *)
(* for a master that serves slots once the flag is old.                    *)
clearNodeFailureIfNeeded(f, n, old) ==
  IF n \notin Voters \/ old THEN [f EXCEPT ![n] = "ok"] ELSE f

PongClears(f, n, old) ==
  IF nodeTimedOut(f, n) THEN [f EXCEPT ![n] = "ok"]
  ELSE IF nodeFailed(f, n) THEN clearNodeFailureIfNeeded(f, n, old)
  ELSE f

--------------------------------------------------------------------------------

FailureInit ==
  /\ flags = [i \in Members |-> [n \in Members |-> "ok"]]
  /\ reports = [i \in Members |-> [n \in Members |-> {}]]
  /\ pinged = [i \in Members |-> {}]
  /\ clusterState = [i \in Members |-> "ok"]
  /\ links = {}
  /\ suspected = [n \in Members |-> {}]

Posted(packets, gone) ==
  /\ links' = (links \ gone) \cup packets
  /\ Cardinality(links') <= MaxMessages

(* The gossip section: some of the nodes that are not PFAIL, at random,    *)
(* and PFAIL nodes as far as the last cron counted them.                   *)
Gossip(i, about) == [n \in about |-> flags[i][n] # "ok"]

clusterSendPing(i, j, type) ==
  {[type |-> type, from |-> i, to |-> j, gossip |-> Gossip(i, about)] :
     about \in SUBSET (FailureSuspects \ {i, j})}

SendPing(i, j) ==
  /\ i # j
  /\ \E p \in clusterSendPing(i, j, "PING") : Posted({p}, {})
  /\ pinged' = [pinged EXCEPT ![i] = @ \cup ({j} \cap FailureSuspects)]
  /\ UNCHANGED <<flags, reports, clusterState, suspected>>

(* Who i newly marks FAIL, and the broadcast of it by a master. *)
clusterSendFail(i, f, g) ==
  LET new == {n \in Members : g[n] = "fail" /\ f[n] # "fail"}
  IN  IF i \in masters /\ new # {}
      THEN {[type |-> "FAIL", from |-> i, to |-> j, about |-> n] :
              n \in new, j \in Members \ {i}}
      ELSE {}

(* Flags, reports and state after a PING or PONG, with gossip f -> g. *)
Digest(i, p, f) ==
  LET r == clusterProcessGossipReports(i, p.from, p.gossip, reports[i])
      g == GossipMarks(i, p.from, p.gossip, f, r)
  IN  /\ reports' = [reports EXCEPT ![i] = r]
      /\ flags' = [flags EXCEPT ![i] = g]
      /\ IF g # flags[i] THEN clusterUpdateState(i, g)
                         ELSE UNCHANGED clusterState
      /\ UNCHANGED suspected

(* Some of the packets that a broadcast queues get through. *)
PartOf(packets) == IF packets = {} THEN {{}}
                   ELSE {{p} : p \in packets} \cup {{}}

FailureProcessPing(p) ==
  LET i == p.to
      r == clusterProcessGossipReports(i, p.from, p.gossip, reports[i])
      g == GossipMarks(i, p.from, p.gossip, flags[i], r)
  IN  /\ p.type = "PING"
      /\ Digest(i, p, flags[i])
      /\ \E pong \in clusterSendPing(i, p.from, "PONG"),
            told \in PartOf(clusterSendFail(i, flags[i], g)) :
           Posted({pong} \cup told, {p})
      /\ UNCHANGED pinged

FailureProcessPong(p) ==
  LET i == p.to
      r == clusterProcessGossipReports(i, p.from, p.gossip, reports[i])
  IN  /\ p.type = "PONG"
      /\ \E old \in BOOLEAN :
           LET f == PongClears(flags[i], p.from, old)
               g == GossipMarks(i, p.from, p.gossip, f, r)
           IN  /\ Digest(i, p, f)
               /\ \E told \in PartOf(clusterSendFail(i, f, g)) :
                    Posted(told, {p})
      /\ pinged' = [pinged EXCEPT ![i] = @ \ {p.from}]

ProcessFail(p) ==
  LET i == p.to
      f == IF p.about # i THEN [flags[i] EXCEPT ![p.about] = "fail"]
                          ELSE flags[i]
  IN  /\ p.type = "FAIL"
      /\ flags' = [flags EXCEPT ![i] = f]
      /\ IF f # flags[i] THEN clusterUpdateState(i, f)
                         ELSE UNCHANGED clusterState
      /\ Posted({}, {p})
      /\ UNCHANGED <<reports, pinged, suspected>>

(* clusterCron: the PONG of n is late. *)
PongIsLate(i, n) ==
  /\ n \in pinged[i] /\ flags[i][n] = "ok"
  /\ LET f == [flags[i] EXCEPT ![n] = "pfail"]
     IN  /\ flags' = [flags EXCEPT ![i] = f]
         /\ clusterUpdateState(i, f)
  /\ suspected' = [suspected EXCEPT ![n] = @ \cup {i}]
  /\ UNCHANGED <<reports, pinged, links>>

clusterNodeCleanupFailureReports(i, n) ==
  \E sender \in reports[i][n] :
    /\ reports' = [reports EXCEPT ![i][n] = @ \ {sender}]
    /\ UNCHANGED <<flags, pinged, clusterState, links, suspected>>

(* The cron tries again to leave the fail state. *)
CronUpdatesState(i) ==
  /\ clusterState[i] = "fail"
  /\ clusterUpdateState(i, flags[i])
  /\ UNCHANGED <<flags, reports, pinged, links, suspected>>

FailureFreeLink(p) ==
  /\ links' = links \ {p}
  /\ UNCHANGED <<flags, reports, pinged, clusterState, suspected>>

FailureNext ==
  \/ \E i, j \in Members : \/ SendPing(i, j) \/ PongIsLate(i, j)
                           \/ clusterNodeCleanupFailureReports(i, j)
  \/ \E p \in links : \/ FailureProcessPing(p) \/ FailureProcessPong(p) \/ ProcessFail(p)
                      \/ FailureFreeLink(p)
  \/ \E i \in Members : CronUpdatesState(i)

FailureSpec == FailureInit /\ [][FailureNext]_failureVars

--------------------------------------------------------------------------------

(* No node is FAIL for anyone unless as many masters as the quorum of the  *)
(* masters that serve slots have missed its PONG themselves: hearsay is    *)
(* not counted twice, and reports of slaves not at all                     *)
(* (markNodeAsFailingIfNeeded).                                            *)
FailHasQuorum ==
  \A i, n \in Members :
    nodeFailed(flags[i], n) =>
      Cardinality(suspected[n] \cap masters) >= needed_quorum

(* A node that serves queries has none of the owners of slots marked FAIL  *)
(* and sees a majority of them alive: the state that is kept never lags    *)
(* behind the flags (clusterUpdateState and its callers).                  *)
ServesOnlyWithMajority ==
  \A i \in Members : clusterState[i] = "ok" => NewState(flags[i]) = "ok"

-----------------------------------------------------------------------------
(***************************************************************************)
(* Who is in the cluster (cluster.c): CLUSTER MEET and gossip start        *)
(* handshakes with an address, a PONG turns the handshake into a node with *)
(* a name, CLUSTER FORGET removes a node and keeps it out for a while,     *)
(* CLUSTER RESET forgets everybody.  A node that is removed is unlinked    *)
(* from every table that holds a pointer to it.                            *)
(*                                                                         *)
(* A node's address is its name; times are left to the choice of actions.  *)
(***************************************************************************)

CONSTANTS
  Peers,          \* the nodes, which are also their addresses
  Start,          \* Start[i]: the nodes that i knows at first
  Suspects,       \* nodes that may be reported as failing
  Replicas,       \* nodes an operator may turn into replicas
  MaxMeets,       \* bound on CLUSTER MEET
  MaxForgets,     \* bound on CLUSTER FORGET and CLUSTER RESET
  MaxBus          \* bound on the packets on the bus

VARIABLES
  known,          \* known[i]: the nodes in the table of i, with their name
  shaking,        \* shaking[i]: the addresses i has a handshake with
  unmet,          \* unmet[i]: those of them a MEET is still to be sent to
  blacklist,      \* blacklist[i]
  following,      \* following[i][n]: the master of n in the table of i
  reporters,      \* reporters[i][n]: who reported n to i
  wire,           \* the packets on their way
  meets, forgets, \* how often
  banned          \* banned[i]: forgotten by i, and no MEET since

memberVars == <<known, shaking, unmet, blacklist, following, reporters, wire,
                meets, forgets, banned>>

None == 0

MemberInit ==
  /\ known = Start
  /\ shaking = [i \in Peers |-> {}]
  /\ unmet = [i \in Peers |-> {}]
  /\ blacklist = [i \in Peers |-> {}]
  /\ following = [i \in Peers |-> [n \in Peers |-> None]]
  /\ reporters = [i \in Peers |-> [n \in Peers |-> {}]]
  /\ wire = {} /\ meets = 0 /\ forgets = 0
  /\ banned = [i \in Peers |-> {}]

Delivered(packets, gone) ==
  /\ wire' = (wire \ gone) \cup packets
  /\ Cardinality(wire') <= MaxBus

(* Handshakes that are not already in progress; addrs may hold a node that *)
(* is known, whose handshake ends when it answers.                         *)
clusterStartHandshake(i, addrs) ==
  /\ shaking' = [shaking EXCEPT ![i] = @ \cup addrs]
  /\ unmet' = [unmet EXCEPT ![i] = @ \cup (addrs \ shaking[i])]

clusterMeet(i, j) ==
  /\ meets < MaxMeets /\ meets' = meets + 1
  /\ clusterStartHandshake(i, {j})
  /\ banned' = [banned EXCEPT ![i] = @ \ {j}]
  /\ UNCHANGED <<known, blacklist, following, reporters, wire, forgets>>

Packet(i, j, type) ==
  {[type |-> type, from |-> i, to |-> j, gossip |-> g, slaveof |-> m] :
     g \in {{}, known[i] \ {j}}, m \in {following[i][i]}}

(* clusterCron: the link to every node and handshake is opened with a MEET *)
(* or a PING.                                                              *)
OpenLink(i, j) ==
  /\ j \in known[i] \cup shaking[i]
  /\ \E p \in Packet(i, j, IF j \in unmet[i] THEN "MEET" ELSE "PING") :
       Delivered({p}, {})
  /\ unmet' = [unmet EXCEPT ![i] = @ \ {j}]
  /\ UNCHANGED <<known, shaking, blacklist, following, reporters, meets,
                 forgets, banned>>

HandshakeTimeout(i, j) ==
  /\ j \in shaking[i]
  /\ shaking' = [shaking EXCEPT ![i] = @ \ {j}]
  /\ unmet' = [unmet EXCEPT ![i] = @ \ {j}]
  /\ UNCHANGED <<known, blacklist, following, reporters, wire, meets, forgets,
                 banned>>

(* The nodes of a gossip section that i does not know and has not          *)
(* forgotten lately.                                                       *)
Unknown(i, gossip) == gossip \ (known[i] \cup blacklist[i] \cup {i})

(* A sender that is known says whom it follows and, when it is a master,   *)
(* which nodes it cannot reach.                                            *)
FromKnown(i, p) ==
  /\ following' = [following EXCEPT ![i][p.from] =
       IF p.slaveof \in known[i] \cup {i, None} THEN p.slaveof ELSE @]
  /\ \E flagged \in SUBSET (p.gossip \cap known[i] \cap Suspects) :
       reporters' = [reporters EXCEPT ![i] =
         [n \in Peers |-> IF following'[i][p.from] # None THEN @[n]
                          ELSE IF n \in flagged THEN @[n] \cup {p.from}
                          ELSE IF n \in p.gossip THEN @[n] \ {p.from}
                          ELSE @[n]]]
  /\ clusterStartHandshake(i, Unknown(i, p.gossip))

ProcessMeet(p) ==
  /\ p.type = "MEET" /\ p.from # p.to
  /\ IF p.from \in known[p.to]
     THEN FromKnown(p.to, p)
     ELSE /\ shaking' = [shaking EXCEPT ![p.to] = @ \cup {p.from}]
          /\ UNCHANGED <<unmet, following, reporters>>
  /\ \E pong \in Packet(p.to, p.from, "PONG") : Delivered({pong}, {p})
  /\ banned' = [banned EXCEPT ![p.to] = @ \ {p.from}]
  /\ UNCHANGED <<known, blacklist, meets, forgets>>

ProcessPing(p) ==
  /\ p.type = "PING" /\ p.from # p.to
  /\ IF p.from \in known[p.to]
     THEN FromKnown(p.to, p)
     ELSE UNCHANGED <<shaking, unmet, following, reporters>>
  /\ \E pong \in Packet(p.to, p.from, "PONG") : Delivered({pong}, {p})
  /\ UNCHANGED <<known, blacklist, meets, forgets, banned>>

(* The answer on the link of a handshake gives the node its name, or ends  *)
(* the handshake with a node that is known already.                        *)
clusterRenameNode(i, p) ==
  /\ shaking' = [shaking EXCEPT ![i] = @ \ {p.from}]
  /\ unmet' = [unmet EXCEPT ![i] = @ \ {p.from}]
  /\ known' = [known EXCEPT ![i] = @ \cup {p.from}]
  /\ UNCHANGED <<following, reporters>>

ProcessPong(p) ==
  /\ p.type = "PONG"
  /\ IF p.from \in shaking[p.to]
     THEN clusterRenameNode(p.to, p)
     ELSE /\ IF p.from \in known[p.to]
             THEN FromKnown(p.to, p)
             ELSE UNCHANGED <<shaking, unmet, following, reporters>>
          /\ UNCHANGED known
  /\ Delivered({}, {p})
  /\ UNCHANGED <<blacklist, meets, forgets, banned>>

(* A node is removed with everything that points to it. *)
clusterDelNode(i, gone) ==
  /\ known' = [known EXCEPT ![i] = @ \ gone]
  /\ following' = [following EXCEPT ![i] =
       [n \in Peers |-> IF n \in gone \/ @[n] \in gone THEN None ELSE @[n]]]
  /\ reporters' = [reporters EXCEPT ![i] =
       [n \in Peers |-> IF n \in gone THEN {} ELSE @[n] \ gone]]

clusterForget(i, n) ==
  /\ forgets < MaxForgets /\ forgets' = forgets + 1
  /\ n \in known[i] /\ following[i][i] # n
  /\ clusterDelNode(i, {n})
  /\ blacklist' = [blacklist EXCEPT ![i] = @ \cup {n}]
  /\ banned' = [banned EXCEPT ![i] = @ \cup ({n} \ shaking[i])]
  /\ wire' = {p \in wire : ~(p.to = i /\ p.from = n /\ p.type = "PONG")}
  /\ UNCHANGED <<shaking, unmet, meets>>

clusterBlacklistCleanup(i, n) ==
  /\ n \in blacklist[i]
  /\ blacklist' = [blacklist EXCEPT ![i] = @ \ {n}]
  /\ banned' = [banned EXCEPT ![i] = @ \ {n}]
  /\ UNCHANGED <<known, shaking, unmet, following, reporters, wire, meets,
                 forgets>>

(* CLUSTER REPLICATE, and CLUSTER RESET. *)
clusterReplicate(i, n) ==
  /\ i \in Replicas
  /\ n \in known[i] /\ following[i][n] = None /\ following[i][i] # n
  /\ following' = [following EXCEPT ![i][i] = n]
  /\ UNCHANGED <<known, shaking, unmet, blacklist, reporters, wire, meets,
                 forgets, banned>>

clusterReset(i) ==
  /\ forgets < MaxForgets /\ forgets' = forgets + 1
  /\ known[i] # {}
  /\ known' = [known EXCEPT ![i] = {}]
  /\ shaking' = [shaking EXCEPT ![i] = {}]
  /\ unmet' = [unmet EXCEPT ![i] = {}]
  /\ following' = [following EXCEPT ![i] = [n \in Peers |-> None]]
  /\ reporters' = [reporters EXCEPT ![i] = [n \in Peers |-> {}]]
  /\ wire' = {p \in wire : ~(p.to = i /\ p.type = "PONG")}
  /\ UNCHANGED <<blacklist, meets, banned>>

freeClusterLink(p) ==
  /\ wire' = wire \ {p}
  /\ UNCHANGED <<known, shaking, unmet, blacklist, following, reporters, meets,
                 forgets, banned>>

MemberNext ==
  \/ \E i, j \in Peers : i # j /\ (\/ clusterMeet(i, j) \/ OpenLink(i, j)
                                   \/ HandshakeTimeout(i, j)
                                   \/ clusterForget(i, j)
                                   \/ clusterBlacklistCleanup(i, j)
                                   \/ clusterReplicate(i, j))
  \/ \E p \in wire : \/ ProcessMeet(p) \/ ProcessPing(p) \/ ProcessPong(p)
                     \/ freeClusterLink(p)
  \/ \E i \in Peers : clusterReset(i)

MemberSpec == MemberInit /\ [][MemberNext]_memberVars

--------------------------------------------------------------------------------

(* A node that CLUSTER FORGET removed stays out until its time in the      *)
(* black list is over, whatever the others gossip, unless the node that    *)
(* forgot it is told to meet it, is sent a MEET by it, or had a handshake  *)
(* with its address under way (clusterProcessGossipSection, whose test of  *)
(* the black list neither MEET nor the end of a handshake makes).          *)
ForgottenStaysOut ==
  \A i \in Peers : banned[i] \cap known[i] = {}

(* No table of a node refers to a node that it has removed                 *)
(* (clusterDelNode, freeClusterNode).                                      *)
NoDanglingNode ==
  \A i, n \in Peers :
    /\ following[i][n] \in known[i] \cup {i, None}
    /\ reporters[i][n] \subseteq known[i]
    /\ n \notin known[i] => reporters[i][n] = {}
=============================================================================
