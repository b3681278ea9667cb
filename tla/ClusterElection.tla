---------------------------- MODULE ClusterElection ----------------------------
(***************************************************************************)
(* Redis Cluster's configuration protocol (cluster.c): every node keeps    *)
(* its own table of who serves a slot, of the configEpoch of every node    *)
(* and of who replicates whom.  Headers (PING, PONG, UPDATE) spread the    *)
(* tables, slaves of a failed master run for election, masters vote, the   *)
(* winner claims the slots under the epoch of its election, and masters    *)
(* that meet with equal epochs move apart.                                 *)
(*                                                                         *)
(* Nodes are numbers, the order of their names.  The bus is a set of       *)
(* packets: a packet of node i for node j travels on the link of i or as   *)
(* an answer on the link of j, so packets may overtake one another, and    *)
(* all that a broken link carried is lost.  nodes.conf is written before   *)
(* the event loop sends what a handler queued.                             *)
(***************************************************************************)
EXTENDS Integers, FiniteSets, FiniteSetsExt

CONSTANTS
  Nodes,         \* names, as numbers
  Slots,
  Owner0,        \* the first owner of every slot
  Master0,       \* the first master of every node, 0 for a master
  Links,         \* the pairs <<i, j>> of nodes where i pings j
  Operators,     \* the nodes that an operator sends commands to
  MaxEpoch,      \* bound on currentEpoch
  MaxPackets,    \* bound on the packets on the bus
  MaxRestarts    \* bound on the restarts of nodes

VARIABLES
  view,          \* the cluster state of every node
  conf,          \* nodes.conf of every node
  bus,           \* the packets on their way
  wins,          \* the elections won so far
  restarts       \* how many restarts there were, and whether one lost a vote

electionVars == <<view, conf, bus, wins, restarts>>

None == 0

(***************************************************************************)
(* Reading one node's table v, owned by node i (myself).                   *)
(***************************************************************************)
IsMaster(v, n) == v.slaveof[n] = None

SlotsOf(v, n) == {s \in Slots : v.slots[s] = n}

(* The size of the cluster counts the masters that serve a slot. *)
Size(v) == Cardinality({n \in Nodes : IsMaster(v, n) /\ SlotsOf(v, n) # {}})

clusterGetMaxEpoch(v) ==
  Max({v.currentEpoch} \cup {v.configEpoch[n] : n \in Nodes})

(* A master announces its slots and epoch, a slave those of its master. *)
clusterBuildMessageHdr(v, i, type) ==
  LET master == IF IsMaster(v, i) THEN i ELSE v.slaveof[i]
  IN  [type |-> type, sender |-> i, currentEpoch |-> v.currentEpoch,
       configEpoch |-> v.configEpoch[master], myslots |-> SlotsOf(v, master),
       slaveof |-> v.slaveof[i], about |-> None, force |-> FALSE]

(***************************************************************************)
(* Changing it.                                                            *)
(***************************************************************************)
ClearAuth == [epoch |-> 0, count |-> 0, sent |-> FALSE, late |-> FALSE]

clusterSetMaster(v, i, n) ==
  [v EXCEPT !.slaveof[i] = n, !.manual = FALSE]

clusterUpdateSlotsConfigWith(v, i, sender, epoch, claimed) ==
  LET curmaster == IF IsMaster(v, i) THEN i ELSE v.slaveof[i]
      rebound == {s \in claimed :
                    /\ v.slots[s] # sender
                    /\ \/ v.slots[s] = None
                       \/ v.configEpoch[v.slots[s]] < epoch}
      w == [v EXCEPT !.slots =
              [s \in Slots |-> IF s \in rebound THEN sender ELSE v.slots[s]]]
  IN  IF sender = i THEN v
      ELSE IF /\ \E s \in rebound : v.slots[s] = curmaster
              /\ SlotsOf(w, curmaster) = {}
           THEN clusterSetMaster(w, i, sender)
           ELSE w

clusterBumpConfigEpochWithoutConsensus(v, i) ==
  IF v.configEpoch[i] = 0 \/ v.configEpoch[i] # clusterGetMaxEpoch(v)
  THEN [v EXCEPT !.currentEpoch = @ + 1,
                 !.configEpoch[i] = v.currentEpoch + 1]
  ELSE v

\* Seeded fault: both masters keep the epoch.
clusterHandleConfigEpochCollision_Never(v, i, sender) == v

clusterHandleConfigEpochCollision(v, i, sender) ==
  IF /\ v.configEpoch[sender] = v.configEpoch[i]
     /\ IsMaster(v, sender) /\ IsMaster(v, i)
     /\ sender > i
  THEN [v EXCEPT !.currentEpoch = @ + 1,
                 !.configEpoch[i] = v.currentEpoch + 1]
  ELSE v

(* The slave takes the slots of its master; the caller gave it an epoch. *)
clusterFailoverReplaceYourMaster(v, i) ==
  LET old == v.slaveof[i]
  IN  [v EXCEPT !.slaveof[i] = None, !.manual = FALSE,
                !.slots = [s \in Slots |->
                             IF v.slots[s] = old THEN i ELSE v.slots[s]]]

(***************************************************************************)
(* The handlers of a packet.                                               *)
(***************************************************************************)
Later(a, b) == IF a > b THEN a ELSE b

(* What every packet of a known sender does first. *)
SeenEpochs(v, p) ==
  [v EXCEPT !.currentEpoch = Later(@, p.currentEpoch),
            !.configEpoch[p.sender] = Later(@, p.configEpoch)]

RoleSwitch(v, p) ==
  LET w == IF p.slaveof # None /\ IsMaster(v, p.sender)
           THEN [v EXCEPT !.slots = [s \in Slots |->
                   IF v.slots[s] = p.sender THEN None ELSE v.slots[s]]]
           ELSE v
  IN  [w EXCEPT !.slaveof[p.sender] = p.slaveof]

SenderMaster(v, p) ==
  IF IsMaster(v, p.sender) THEN p.sender ELSE v.slaveof[p.sender]

DirtySlots(v, p) == SlotsOf(v, SenderMaster(v, p)) # p.myslots

Heartbeat(v, i, p) ==
  LET w == RoleSwitch(v, p)
      x == IF IsMaster(w, p.sender) /\ DirtySlots(w, p)
           THEN clusterUpdateSlotsConfigWith(w, i, p.sender, p.configEpoch,
                                             p.myslots)
           ELSE w
  IN  IF /\ IsMaster(x, i) /\ IsMaster(x, p.sender)
         /\ p.configEpoch = x.configEpoch[i]
      THEN clusterHandleConfigEpochCollision(x, i, p.sender)
      ELSE x

(* The first slot of the sender's claim that a newer owner serves: the     *)
(* sender is told of that owner.                                           *)
Outdated(v, i, p) ==
  LET w == RoleSwitch(v, p)
      x == IF IsMaster(w, p.sender) /\ DirtySlots(w, p)
           THEN clusterUpdateSlotsConfigWith(w, i, p.sender, p.configEpoch,
                                             p.myslots)
           ELSE w
      newer == {s \in p.myslots :
                  /\ x.slots[s] \notin {p.sender, None}
                  /\ x.configEpoch[x.slots[s]] > p.configEpoch}
  IN  IF DirtySlots(w, p) /\ newer # {}
      THEN {[type |-> "UPDATE", sender |-> i, to |-> p.sender,
             currentEpoch |-> x.currentEpoch,
             configEpoch |-> x.configEpoch[x.slots[Min(newer)]],
             myslots |-> SlotsOf(x, x.slots[Min(newer)]),
             slaveof |-> None, about |-> x.slots[Min(newer)],
             force |-> FALSE]}
      ELSE {}

ProcessUpdate(v, i, p) ==
  IF v.configEpoch[p.about] >= p.configEpoch THEN v
  ELSE LET w == [v EXCEPT !.slaveof[p.about] = None,
                          !.configEpoch[p.about] = p.configEpoch]
       IN  clusterUpdateSlotsConfigWith(w, i, p.about, p.configEpoch,
                                        p.myslots)

\* Seeded fault: a master votes any number of times in an epoch.
MayVote_Again(v, i, p) ==
  /\ IsMaster(v, i) /\ SlotsOf(v, i) # {}
  /\ p.currentEpoch >= v.currentEpoch
  /\ ~IsMaster(v, p.sender)
  /\ v.slaveof[p.sender] \in v.failed \/ p.force
  /\ \A s \in p.myslots :
       v.slots[s] # None => v.configEpoch[v.slots[s]] <= p.configEpoch

(* The conditions of a vote; not having voted about this master for a      *)
(* while is one more, and a refusal for it looks like a lost request.      *)
MayVote(v, i, p) ==
  /\ IsMaster(v, i) /\ SlotsOf(v, i) # {}
  /\ p.currentEpoch >= v.currentEpoch
  /\ v.lastVoteEpoch # v.currentEpoch
  /\ ~IsMaster(v, p.sender)
  /\ v.slaveof[p.sender] \in v.failed \/ p.force
  /\ \A s \in p.myslots :
       v.slots[s] # None => v.configEpoch[v.slots[s]] <= p.configEpoch

CountVote(v, p) ==
  IF /\ IsMaster(v, p.sender) /\ SlotsOf(v, p.sender) # {}
     /\ p.currentEpoch >= v.auth.epoch
  THEN [v EXCEPT !.auth.count = @ + 1,
                 !.auth.late = @ \/ ~v.auth.sent]
  ELSE v

--------------------------------------------------------------------------------

(***************************************************************************)
(* nodes.conf: written whenever the table changed, which is everything but *)
(* currentEpoch, lastVoteEpoch and the election of the node itself.        *)
(***************************************************************************)
Table(v) == <<v.slots, v.configEpoch, v.slaveof, v.failed>>

Saved(v) == [slots |-> v.slots, configEpoch |-> v.configEpoch,
             slaveof |-> v.slaveof, failed |-> v.failed,
             currentEpoch |-> v.currentEpoch,
             lastVoteEpoch |-> v.lastVoteEpoch]

(* A handler of node i ends with its table v; save is set when it asked    *)
(* for a write whatever changed.                                           *)
Ends(i, v, save) ==
  /\ v.currentEpoch <= MaxEpoch
  /\ view' = [view EXCEPT ![i] = v]
  /\ conf' = IF save \/ Table(v) # Table(view[i])
             THEN [conf EXCEPT ![i] = Saved(v)] ELSE conf

Sent(packets, gone) ==
  /\ bus' = (bus \ gone) \cup packets
  /\ Cardinality(bus') <= MaxPackets

To(p, j) == [type |-> p.type, sender |-> p.sender, to |-> j,
             currentEpoch |-> p.currentEpoch, configEpoch |-> p.configEpoch,
             myslots |-> p.myslots, slaveof |-> p.slaveof,
             about |-> p.about, force |-> p.force]

Nobody == [count |-> 0, forgot |-> FALSE]

Init ==
  /\ view = [i \in Nodes |->
       [currentEpoch |-> Max({n \in Nodes : Master0[n] = None}), lastVoteEpoch |-> 0,
        configEpoch |-> [n \in Nodes |->
                         IF Master0[n] = None THEN n ELSE Master0[n]],
        slots |-> Owner0, slaveof |-> Master0, failed |-> {},
        auth |-> ClearAuth, manual |-> FALSE]]
  /\ conf = [i \in Nodes |-> Saved(view[i])]
  /\ bus = {} /\ wins = {} /\ restarts = Nobody

(* clusterCron pings a node. *)
clusterSendPing(i, j) ==
  /\ <<i, j>> \in Links
  /\ Sent({To(clusterBuildMessageHdr(view[i], i, "PING"), j)}, {})
  /\ UNCHANGED <<view, conf, wins, restarts>>

(* PING and PONG; the answer is built before the slots are looked at. *)
ProcessPing(p) ==
  LET i == p.to
      v == SeenEpochs(view[i], p)
  IN  /\ p.type \in {"PING", "PONG"}
      /\ Ends(i, Heartbeat(v, i, p), FALSE)
      /\ Sent(Outdated(v, i, p) \cup
              (IF p.type = "PING"
               THEN {To(clusterBuildMessageHdr(v, i, "PONG"), p.sender)}
               ELSE {}), {p})
      /\ UNCHANGED <<wins, restarts>>

ProcessUpdatePacket(p) ==
  LET v == [view[p.to] EXCEPT !.currentEpoch = Later(@, p.currentEpoch)]
  IN  /\ p.type = "UPDATE"
      /\ Ends(p.to, ProcessUpdate(v, p.to, p), FALSE)
      /\ Sent({}, {p})
      /\ UNCHANGED <<wins, restarts>>

(* A FAIL packet about node n reaches node i, or i finds a quorum of       *)
(* reports itself (ClusterFailure).                                        *)
MarkFailed(i, n) ==
  /\ i # n /\ n \notin view[i].failed
  /\ SlotsOf(view[i], n) # {} /\ IsMaster(view[i], n)
  /\ \E s \in Nodes : view[i].slaveof[s] = n
  /\ Ends(i, [view[i] EXCEPT !.failed = @ \cup {n}], FALSE)
  /\ UNCHANGED <<bus, wins, restarts>>

clusterSendFailoverAuthIfNeeded(p) ==
  LET i == p.to
      v == SeenEpochs(view[i], p)
      voted == [v EXCEPT !.lastVoteEpoch = v.currentEpoch]
  IN  /\ p.type = "AUTH_REQUEST"
      /\ \/ /\ MayVote(v, i, p)
            /\ Ends(i, voted, FALSE)
            /\ Sent({To(clusterBuildMessageHdr(v, i, "AUTH_ACK"), p.sender)},
                    {p})
         \/ /\ ~MayVote(v, i, p)
            /\ Ends(i, v, FALSE)
            /\ Sent({}, {p})
      /\ UNCHANGED <<wins, restarts>>

ProcessAuthAck(p) ==
  LET v == SeenEpochs(view[p.to], p)
  IN  /\ p.type = "AUTH_ACK"
      /\ Ends(p.to, CountVote(v, p), FALSE)
      /\ Sent({}, {p})
      /\ UNCHANGED <<wins, restarts>>

(***************************************************************************)
(* clusterHandleSlaveFailover: a new election is scheduled once the old    *)
(* one is old enough, the votes are asked for when the delay is over, and  *)
(* the slots are claimed with a quorum.                                    *)
(***************************************************************************)
CanFailOver(i) ==
  LET v == view[i]
  IN  /\ ~IsMaster(v, i)
      /\ v.slaveof[i] \in v.failed \/ v.manual
      /\ SlotsOf(v, v.slaveof[i]) # {}

ScheduleElection(i) ==
  /\ CanFailOver(i) /\ view[i].auth.sent
  /\ Ends(i, [view[i] EXCEPT !.auth = [epoch |-> @.epoch, count |-> 0,
                                       sent |-> FALSE, late |-> FALSE]], FALSE)
  /\ UNCHANGED <<bus, wins, restarts>>

clusterRequestFailoverAuth(v, i, voters) ==
  {To([clusterBuildMessageHdr(v, i, "AUTH_REQUEST") EXCEPT !.force = v.manual],
      j) : j \in voters}

(* Slaves get the request as well and ignore it. *)
StartElection(i) ==
  LET v == [view[i] EXCEPT !.currentEpoch = @ + 1,
                           !.auth.epoch = view[i].currentEpoch + 1,
                           !.auth.sent = TRUE]
  IN  /\ CanFailOver(i) /\ ~view[i].auth.sent
      /\ Ends(i, v, TRUE)
      /\ \E voters \in SUBSET {j \in Nodes \ {i} : SlotsOf(v, j) # {}} :
           Sent(clusterRequestFailoverAuth(v, i, voters), {})
      /\ UNCHANGED <<wins, restarts>>

WinElection(i) ==
  LET v == view[i]
      w == [v EXCEPT !.configEpoch[i] = Later(@, v.auth.epoch)]
      x == clusterFailoverReplaceYourMaster(w, i)
  IN  /\ CanFailOver(i) /\ v.auth.sent
      /\ v.auth.count >= (Size(v) \div 2) + 1
      /\ Ends(i, x, TRUE)
      /\ \E js \in SUBSET (Nodes \ {i}) :
           Sent({To(clusterBuildMessageHdr(x, i, "PONG"), j) : j \in js}, {})
      /\ wins' = wins \cup {[epoch |-> v.auth.epoch, node |-> i,
                             late |-> v.auth.late]}
      /\ UNCHANGED restarts

(* CLUSTER FAILOVER FORCE and TAKEOVER, and CLUSTER BUMPEPOCH. *)
clusterFailoverForce(i) ==
  /\ ~IsMaster(view[i], i) /\ ~view[i].manual
  /\ Ends(i, [view[i] EXCEPT !.manual = TRUE], FALSE)
  /\ UNCHANGED <<bus, wins, restarts>>

clusterFailoverTakeover(i) ==
  LET x == clusterFailoverReplaceYourMaster(
             clusterBumpConfigEpochWithoutConsensus(view[i], i), i)
  IN  /\ ~IsMaster(view[i], i)
      /\ Ends(i, x, TRUE)
      /\ \E js \in SUBSET (Nodes \ {i}) :
           Sent({To(clusterBuildMessageHdr(x, i, "PONG"), j) : j \in js}, {})
      /\ UNCHANGED <<wins, restarts>>

clusterBumpEpoch(i) ==
  LET v == clusterBumpConfigEpochWithoutConsensus(view[i], i)
  IN  /\ v # view[i]
      /\ Ends(i, v, FALSE)
      /\ UNCHANGED <<bus, wins, restarts>>

(* The manual failover timed out. *)
manualFailoverCheckTimeout(i) ==
  /\ view[i].manual
  /\ Ends(i, [view[i] EXCEPT !.manual = FALSE], FALSE)
  /\ UNCHANGED <<bus, wins, restarts>>

(* A node dies and starts again from nodes.conf: the links are gone. *)
clusterLoadConfig(c) ==
  [slots |-> c.slots, configEpoch |-> c.configEpoch, slaveof |-> c.slaveof,
   failed |-> c.failed, lastVoteEpoch |-> c.lastVoteEpoch,
   currentEpoch |-> Max({c.currentEpoch} \cup
                        {c.configEpoch[n] : n \in Nodes}),
   auth |-> ClearAuth, manual |-> FALSE]

Restart(i) ==
  /\ restarts.count < MaxRestarts
  /\ view' = [view EXCEPT ![i] = clusterLoadConfig(conf[i])]
  /\ bus' = {p \in bus : p.to # i}
  /\ restarts' = [count |-> restarts.count + 1, forgot |-> \/ restarts.forgot
                              \/ conf[i].lastVoteEpoch # view[i].lastVoteEpoch]
  /\ UNCHANGED <<conf, wins>>

(* A link breaks. *)
freeClusterLink(p) ==
  /\ bus' = bus \ {p}
  /\ UNCHANGED <<view, conf, wins, restarts>>

Next ==
  \/ \E i, j \in Nodes : clusterSendPing(i, j) \/ MarkFailed(i, j)
  \/ \E p \in bus : \/ ProcessPing(p) \/ ProcessUpdatePacket(p)
                    \/ clusterSendFailoverAuthIfNeeded(p) \/ ProcessAuthAck(p)
                    \/ freeClusterLink(p)
  \/ \E i \in Nodes : \/ ScheduleElection(i) \/ StartElection(i)
                      \/ WinElection(i) \/ manualFailoverCheckTimeout(i)
                      \/ Restart(i)
  \/ \E i \in Operators : \/ clusterFailoverForce(i)
                          \/ clusterFailoverTakeover(i)
                          \/ clusterBumpEpoch(i)

Spec == Init /\ [][Next]_electionVars

--------------------------------------------------------------------------------

(* No two slaves become master under the epoch of the same election, for   *)
(* a slave needs the votes of a majority and a master votes once in an     *)
(* epoch (clusterSendFailoverAuthIfNeeded, clusterHandleSlaveFailover), as *)
(* long as no node lost a vote it had not written to nodes.conf and no     *)
(* answer to an earlier request is counted for the next election.          *)
OneWinnerUnlessForgotten ==
  \A a, b \in wins :
    \/ a.epoch = b.epoch => a.node = b.node
    \/ a.late \/ b.late
    \/ restarts.forgot

(* No node knows of a configuration newer than its currentEpoch, a restart *)
(* from nodes.conf included: an epoch taken by an increment is new.        *)
EpochsBounded ==
  \A i, n \in Nodes : view[i].configEpoch[n] <= view[i].currentEpoch

Settled ==
  /\ bus = {}
  /\ \A i, j \in Nodes :
       LET p == To(clusterBuildMessageHdr(view[i], i, "PING"), j)
           v == SeenEpochs(view[j], p)
       IN  i # j => /\ Heartbeat(v, j, p) = view[j]
                    /\ Outdated(v, j, p) = {}

(* When no more header changes a table, whatever elections, takeovers,     *)
(* lost packets and restarts there were: all nodes have the same owner for *)
(* every slot, that owner serves it as a master, and no two masters have   *)
(* the same epoch (clusterUpdateSlotsConfigWith,                           *)
(* clusterHandleConfigEpochCollision).                                     *)
SettledAgree ==
  Settled =>
    /\ \A i, j \in Nodes : view[i].slots = view[j].slots
    /\ \A i \in Nodes, s \in Slots :
         LET n == view[i].slots[s] IN n # None => IsMaster(view[n], n)
    /\ \A i, j \in Nodes :
         /\ i # j /\ IsMaster(view[i], i) /\ IsMaster(view[j], j)
         => view[i].configEpoch[i] # view[j].configEpoch[j]

================================================================================
