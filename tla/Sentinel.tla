------------------------------ MODULE Sentinel ------------------------------
(***************************************************************************)
(* Sentinel (sentinel.c): the election of the Sentinel that leads a        *)
(* failover, and the failover it carries out while the others learn of it. *)
(***************************************************************************)
EXTENDS Integers, FiniteSets

-----------------------------------------------------------------------------
(***************************************************************************)
(* The Sentinels that watch one master (sentinel.c): they agree that it is *)
(* down and elect one of them to fail it over.  Every Sentinel votes once  *)
(* per epoch and saves its vote before it answers.                         *)
(*                                                                         *)
(* Time is left to the choice of actions; a Sentinel may crash, and a      *)
(* question or an answer may be lost.                                      *)
(***************************************************************************)

CONSTANTS
  Sentinels,
  DownQuorum,     \* the quorum configured for the master
  Eager,          \* the Sentinels that may start a failover
  Forcing,        \* the Sentinels an operator may send SENTINEL FAILOVER
  Flaky,          \* the Sentinels whose links to the others come and go
  MaxSEpoch,      \* bound on epochs
  MaxAsked,       \* bound on answers on their way
  MaxCrashes      \* bound on crashes of Sentinels

VARIABLES
  st,             \* st[i]: the state of Sentinel i
  asked,          \* answers on their way
  elected,        \* elected[e]: elected with failover epoch e
  astray,         \* those of them that were elected with a later current epoch
  crashes

seVars == <<st, asked, elected, astray, crashes>>

None == 0

NoReply == [down |-> FALSE, leader |-> None, epoch |-> 0]

Fresh == [epoch |-> 0, leader |-> None, leaderEpoch |-> 0, sdown |-> FALSE,
          odown |-> FALSE, state |-> "none", failoverEpoch |-> 0,
          forced |-> FALSE, reply |-> [j \in Sentinels |-> NoReply]]

(* The master is down, and all but the flaky Sentinels have told each      *)
(* other.                                                                  *)
ElectionInit ==
  /\ st = [i \in Sentinels |-> IF i \in Flaky THEN Fresh ELSE
       [Fresh EXCEPT !.sdown = TRUE, !.odown = TRUE,
                     !.reply = [j \in Sentinels |-> [NoReply EXCEPT !.down =
                                                        j \notin Flaky \cup {i}]]]]
  /\ asked = {} /\ crashes = 0
  /\ elected = [e \in 1..MaxSEpoch |-> {}]
  /\ astray = [e \in 1..MaxSEpoch |-> {}]

Becomes(i, s) == st' = [st EXCEPT ![i] = s]

Travelling(packets) == asked' = packets /\ Cardinality(packets) <= MaxAsked

--------------------------------------------------------------------------------

(* The vote of Sentinel state s for an epoch: the first request of the     *)
(* epoch gets it, later ones are told who got it.                          *)
sentinelVoteLeader(s, reqEpoch, reqId) ==
  LET epoch == IF reqEpoch > s.epoch THEN reqEpoch ELSE s.epoch
  IN  IF s.leaderEpoch < reqEpoch /\ epoch <= reqEpoch
      THEN [s EXCEPT !.epoch = epoch, !.leader = reqId, !.leaderEpoch = epoch]
      ELSE [s EXCEPT !.epoch = epoch]

(* How many of the others reported l as the leader: of the epoch that is   *)
(* current now.                                                            *)
Votes(i, s, l) ==
  Cardinality({j \in Sentinels \ {i} : s.reply[j].leader = l
                                         /\ s.reply[j].epoch = s.epoch})

Max2(a, b) == IF a > b THEN a ELSE b

(* i's own vote, for whom most others voted or else for itself. *)
OwnVote(i, s, epoch) ==
  LET most == {l \in Sentinels : Votes(i, s, l) > 0 /\
                 \A k \in Sentinels : Votes(i, s, k) <= Votes(i, s, l)}
  IN  {sentinelVoteLeader(s, epoch, l) : l \in IF most = {} THEN {i} ELSE most}

(* The outcome of an election: v is the state after i's own vote, which    *)
(* counts when it is for this epoch.                                       *)
Count(i, s, v, epoch, l) ==
  Votes(i, s, l) + (IF v.leader = l /\ v.leaderEpoch = epoch THEN 1 ELSE 0)

sentinelGetLeaderIsMe(i, s, v, epoch) ==
  /\ Count(i, s, v, epoch, i) >= (Cardinality(Sentinels) \div 2) + 1
  /\ Count(i, s, v, epoch, i) >= DownQuorum
  /\ \A l \in Sentinels \ {i} : Count(i, s, v, epoch, l)
                                  <= Count(i, s, v, epoch, i)

--------------------------------------------------------------------------------

(* sentinelCheckSubjectivelyDown: no answer for too long, or an answer     *)
(* again.                                                                  *)
sentinelCheckSubjectivelyDown(i) ==
  /\ i \in Flaky
  /\ Becomes(i, [st[i] EXCEPT !.sdown = ~@])
  /\ UNCHANGED <<asked, elected, astray, crashes>>

Down(i, s) == {j \in Sentinels \ {i} : s.reply[j].down}

sentinelCheckObjectivelyDown(i) ==
  LET odown == st[i].sdown /\ 1 + Cardinality(Down(i, st[i])) >= DownQuorum
  IN  /\ st[i].odown # odown
      /\ Becomes(i, [st[i] EXCEPT !.odown = odown])
      /\ UNCHANGED <<asked, elected, astray, crashes>>

sentinelStartFailover(s) ==
  [s EXCEPT !.state = "wait", !.epoch = @ + 1, !.failoverEpoch = s.epoch + 1]

(* sentinelFailoverWaitStart, with i in state s: the leader goes on, the   *)
(* others stay in this state until they give up.                           *)
WaitStart(i, s) ==
  LET e == s.failoverEpoch
  IN  \E v \in OwnVote(i, s, e) :
        LET leads == sentinelGetLeaderIsMe(i, s, v, e)
        IN  /\ Becomes(i, IF leads \/ s.forced THEN [v EXCEPT !.state = "lead"]
                          ELSE v)
            /\ elected' = IF leads /\ ~s.forced
                          THEN [elected EXCEPT ![e] = @ \cup {i}] ELSE elected
            /\ astray' = IF leads /\ ~s.forced /\ s.epoch # e
                         THEN [astray EXCEPT ![e] = @ \cup {i}] ELSE astray

(* The timer starts a failover and takes its first step at once. *)
sentinelStartFailoverIfNeeded(i) ==
  /\ i \in Eager /\ st[i].odown /\ st[i].state = "none"
  /\ st[i].epoch < MaxSEpoch
  /\ WaitStart(i, sentinelStartFailover(st[i]))
  /\ UNCHANGED <<asked, crashes>>

sentinelFailoverWaitStart(i) ==
  /\ st[i].state = "wait"
  /\ WaitStart(i, st[i])
  /\ UNCHANGED <<asked, crashes>>

(* A Sentinel asks another one whether the master is down and, during a    *)
(* failover, for its vote in the current epoch; the other one answers.  A  *)
(* question that is late is one asked late.                                *)
isMasterDownByAddr(s, q) ==
  IF q.leader = None THEN s ELSE sentinelVoteLeader(s, q.epoch, q.leader)

sentinelAskMasterState(i, j) ==
  LET q == [epoch |-> st[i].epoch,
            leader |-> IF st[i].state = "none" THEN None ELSE i]
      v == isMasterDownByAddr(st[j], q)
      answer == IF q.leader = None
                THEN [st[i].reply[j] EXCEPT !.down = v.sdown]
                ELSE [down |-> v.sdown, leader |-> v.leader,
                      epoch |-> v.leaderEpoch]
  IN  /\ st[i].sdown
      /\ answer # st[i].reply[j] \/ v # st[j]
      /\ Becomes(j, v)
      /\ Travelling(asked \cup {[from |-> j, to |-> i, answer |-> answer]})
      /\ UNCHANGED <<elected, astray, crashes>>

sentinelReceiveIsMasterDownReply(q) ==
  /\ Becomes(q.to, [st[q.to] EXCEPT !.reply[q.from] = q.answer])
  /\ asked' = asked \ {q}
  /\ UNCHANGED <<elected, astray, crashes>>

LoseAnswer(q) ==
  /\ asked' = asked \ {q}
  /\ UNCHANGED <<st, elected, astray, crashes>>

(* What another Sentinel said is forgotten when it is too old. *)
ReplyIsOld(i, j) ==
  /\ i \in Flaky
  /\ st[i].reply[j] # NoReply
  /\ Becomes(i, [st[i] EXCEPT !.reply[j] = [@ EXCEPT !.down = FALSE,
                                                     !.leader = None]])
  /\ UNCHANGED <<asked, elected, astray, crashes>>

sentinelAbortFailover(i) ==
  /\ st[i].state = "wait"
  /\ Becomes(i, [st[i] EXCEPT !.state = "none", !.forced = FALSE])
  /\ UNCHANGED <<asked, elected, astray, crashes>>

(* SENTINEL FAILOVER *)
sentinelFailover(i) ==
  /\ i \in Forcing /\ st[i].state = "none" /\ st[i].epoch < MaxSEpoch
  /\ Becomes(i, [sentinelStartFailover(st[i]) EXCEPT !.forced = TRUE])
  /\ UNCHANGED <<asked, elected, astray, crashes>>

(* A hello message tells the current epoch. *)
HelloEpoch(i, j) ==
  /\ st[i].epoch > st[j].epoch
  /\ Becomes(j, [st[j] EXCEPT !.epoch = st[i].epoch])
  /\ UNCHANGED <<asked, elected, astray, crashes>>

(* A Sentinel restarts from its configuration file: the epoch and its vote *)
(* are in it.                                                              *)
Crash(i) ==
  /\ crashes < MaxCrashes /\ crashes' = crashes + 1
  /\ Becomes(i, [Fresh EXCEPT !.sdown = i \notin Flaky,
       !.epoch = IF st[i].forced THEN Max2(st[i].leaderEpoch, @) ELSE st[i].epoch,
       !.leader = st[i].leader, !.leaderEpoch = st[i].leaderEpoch])
  /\ UNCHANGED <<asked, elected, astray>>

ElectionNext ==
  \/ \E i \in Sentinels :
       \/ sentinelCheckSubjectivelyDown(i) \/ sentinelCheckObjectivelyDown(i)
       \/ sentinelStartFailoverIfNeeded(i) \/ sentinelFailoverWaitStart(i)
       \/ sentinelAbortFailover(i) \/ sentinelFailover(i) \/ Crash(i)
  \/ \E i, j \in Sentinels : i # j /\
       \/ sentinelAskMasterState(i, j) \/ HelloEpoch(i, j) \/ ReplyIsOld(i, j)
  \/ \E q \in asked : LoseAnswer(q) \/ sentinelReceiveIsMasterDownReply(q)

ElectionSpec == ElectionInit /\ [][ElectionNext]_seVars

--------------------------------------------------------------------------------

(* To be a leader for an epoch a Sentinel has the majority of the votes of *)
(* the same epoch, so that an epoch has one leader (the comment above      *)
(* sentinelGetLeader) among the Sentinels that were elected while their    *)
(* failover epoch was still the current one: sentinelGetLeader counts the  *)
(* votes of the current epoch, whatever the epoch of the failover.         *)
OneLeaderUnlessAstray ==
  \A e \in 1..MaxSEpoch : Cardinality(elected[e] \ astray[e]) <= 1

-----------------------------------------------------------------------------
(***************************************************************************)
(* The failover an elected Sentinel carries out, and how the new           *)
(* configuration reaches the other Sentinels and the instances             *)
(* (sentinel.c).  Instances are real: each follows another one or is a     *)
(* master, and does what it is told; a Sentinel learns what they do from   *)
(* INFO.  Epochs come from SentinelElection: every failover has its own.   *)
(***************************************************************************)

CONSTANTS
  Watchers,       \* the Sentinels
  Instances,      \* the instances, 1 is the master at first
  Parallel,       \* parallel-syncs
  MaxFailovers    \* bound on failovers started

VARIABLES
  role,           \* role[x]: whom instance x follows, 0: it is a master
  up,             \* up[x]
  sen,            \* sen[s]: the state of Sentinel s about the master
  started,        \* failovers started
  torn            \* Sentinels that took a newer version for the master they
                  \* are failing over and went on

sfVars == <<role, up, sen, started, torn>>

NoInstance == 0

(* The flags of the slaves of the master, and what INFO said of each. *)
Slaves(v) == Instances \ {v.addr}

FreshMaster(addr, cepoch) ==
  [addr |-> addr, cepoch |-> cepoch, state |-> "none", fepoch |-> 0,
   promoted |-> NoInstance, reconf |-> [x \in Instances |-> "no"]]

FailoverInit ==
  /\ role = [x \in Instances |-> IF x = 1 THEN NoInstance ELSE 1]
  /\ up = [x \in Instances |-> TRUE]
  /\ sen = [s \in Watchers |-> FreshMaster(1, 0)]
  /\ started = 0 /\ torn = {}

Takes(s, v) == sen' = [sen EXCEPT ![s] = v] /\ UNCHANGED torn

sentinelResetMasterAndChangeAddress(v, addr) == FreshMaster(addr, v.cepoch)

AbortedFailover(v) ==
  [v EXCEPT !.state = "none", !.promoted = NoInstance]

sentinelSendSlaveOf(x, of) == role' = [role EXCEPT ![x] = of]

--------------------------------------------------------------------------------

(* A Sentinel elected leader, or told to by SENTINEL FAILOVER. *)
Elected(s) ==
  /\ sen[s].state = "none" /\ started < MaxFailovers
  /\ started' = started + 1
  /\ Takes(s, [sen[s] EXCEPT !.state = "select", !.fepoch = started'])
  /\ UNCHANGED <<role, up>>

(* sentinelSelectSlave takes a slave that answers; which of them is best   *)
(* is not modelled.                                                        *)
sentinelFailoverSelectSlave(s) ==
  LET good == {x \in Slaves(sen[s]) : up[x]}
  IN  /\ sen[s].state = "select"
      /\ IF good = {} THEN Takes(s, AbortedFailover(sen[s]))
         ELSE \E x \in good :
                Takes(s, [sen[s] EXCEPT !.state = "noone", !.promoted = x])
      /\ UNCHANGED <<role, up, started>>

sentinelFailoverSendSlaveOfNoOne(s) ==
  /\ sen[s].state = "noone" /\ up[sen[s].promoted]
  /\ sentinelSendSlaveOf(sen[s].promoted, NoInstance)
  /\ Takes(s, [sen[s] EXCEPT !.state = "promotion"])
  /\ UNCHANGED <<up, started>>

(* The slave does not answer, or not as a master, for too long. *)
FailoverTimeout(s) ==
  /\ \/ sen[s].state = "noone" /\ ~up[sen[s].promoted]
     \/ sen[s].state = "promotion"
  /\ Takes(s, AbortedFailover(sen[s]))
  /\ UNCHANGED <<role, up, started>>

(* The acting half of sentinelRefreshInstanceInfo on INFO from x. *)
InfoPromoted(s, x) ==
  /\ up[x] /\ role[x] = NoInstance
  /\ sen[s].promoted = x /\ sen[s].state = "promotion"
  /\ Takes(s, [sen[s] EXCEPT !.cepoch = sen[s].fepoch, !.state = "reconf"])
  /\ UNCHANGED <<role, up, started>>

sentinelMasterLooksSane(v) == up[v.addr] /\ role[v.addr] = NoInstance

(* A slave that turned into a master, or follows another address.  One     *)
(* that is being promoted is left alone as a master only.                  *)
InfoMisplaced(s, x) ==
  /\ x \in Slaves(sen[s]) /\ up[x] /\ role[x] # sen[s].addr
  /\ role[x] = NoInstance => sen[s].promoted # x
  /\ sentinelMasterLooksSane(sen[s])
  /\ sentinelSendSlaveOf(x, sen[s].addr)
  /\ UNCHANGED <<up, sen, started, torn>>

InfoReconfigured(s, x) ==
  /\ up[x] /\ sen[s].reconf[x] \in {"sent", "inprog"}
  /\ role[x] # NoInstance
  /\ LET r == IF sen[s].reconf[x] = "sent" /\ role[x] = sen[s].promoted
              THEN "inprog" ELSE sen[s].reconf[x]
     IN  \E linkUp \in BOOLEAN :
           Takes(s, [sen[s] EXCEPT !.reconf[x] =
                         IF r = "inprog" /\ linkUp THEN "done" ELSE r])
  /\ UNCHANGED <<role, up, started>>

(* sentinelFailoverReconfNextSlave: some of the slaves that are still to   *)
(* be told are told, as many as parallel-syncs allows.                     *)
InProgress(v) == {x \in Slaves(v) : v.reconf[x] \in {"sent", "inprog"}}

Untold(v) == {x \in Slaves(v) \ {v.promoted} : up[x] /\ v.reconf[x] = "no"}

sentinelFailoverReconfNextSlave(s) ==
  /\ sen[s].state = "reconf"
  /\ Cardinality(InProgress(sen[s])) < Parallel
  /\ \E x \in Untold(sen[s]) :
       /\ sentinelSendSlaveOf(x, sen[s].promoted)
       /\ Takes(s, [sen[s] EXCEPT !.reconf[x] = "sent"])
  /\ UNCHANGED <<up, started>>

ReconfSentTimeout(s, x) ==
  /\ sen[s].state = "reconf" /\ sen[s].reconf[x] = "sent"
  /\ Takes(s, [sen[s] EXCEPT !.reconf[x] = "done"])
  /\ UNCHANGED <<role, up, started>>

(* The end is detected when every slave that answers is reconfigured, or   *)
(* at a timeout, when the rest are told once more; the promoted slave then *)
(* replaces the master (sentinelFailoverSwitchToPromotedSlave).            *)
sentinelFailoverDetectEnd(s) ==
  LET v == sen[s]
      left == {x \in Slaves(v) \ {v.promoted} : up[x] /\ v.reconf[x] # "done"}
  IN  /\ v.state = "reconf" /\ up[v.promoted]
      /\ \E timeout \in BOOLEAN :
           /\ timeout \/ left = {}
           /\ role' = [x \in Instances |->
                IF timeout /\ x \in Slaves(v) /\ up[x]
                   /\ v.reconf[x] \notin {"done", "sent"} /\ x # v.promoted
                THEN v.promoted ELSE role[x]]
      /\ Takes(s, sentinelResetMasterAndChangeAddress(v, v.promoted))
      /\ UNCHANGED <<up, started>>

(* What a hello message says: a Sentinel that is past the promotion        *)
(* already advertises the promoted slave.                                  *)
sentinelGetCurrentMasterAddress(v) ==
  IF v.state = "reconf" THEN v.promoted ELSE v.addr

sentinelProcessHelloMessage(s, from) ==
  LET addr == sentinelGetCurrentMasterAddress(sen[from])
      v == [sen[s] EXCEPT !.cepoch = sen[from].cepoch]
  IN  /\ sen[s].cepoch < sen[from].cepoch
      /\ sen' = [sen EXCEPT ![s] =
           IF addr # sen[s].addr
           THEN sentinelResetMasterAndChangeAddress(v, addr) ELSE v]
      /\ torn' = IF (addr = sen[s].addr /\ sen[s].state = "reconf")
                   \/ from \in torn THEN torn \cup {s} ELSE torn \ {s}
      /\ UNCHANGED <<role, up, started>>

(* An instance stops, and comes back with the role in its configuration    *)
(* file (CONFIG REWRITE follows SLAVEOF in one transaction).               *)
InstanceFails(x) ==
  /\ up[x] /\ up' = [up EXCEPT ![x] = FALSE]
  /\ UNCHANGED <<role, sen, started, torn>>

InstanceReturns(x) ==
  /\ ~up[x] /\ up' = [up EXCEPT ![x] = TRUE]
  /\ UNCHANGED <<role, sen, started, torn>>

FailoverNext ==
  \/ \E s \in Watchers :
       \/ Elected(s) \/ sentinelFailoverSelectSlave(s)
       \/ sentinelFailoverSendSlaveOfNoOne(s) \/ FailoverTimeout(s)
       \/ sentinelFailoverReconfNextSlave(s) \/ sentinelFailoverDetectEnd(s)
       \/ \E x \in Instances : \/ InfoPromoted(s, x) \/ InfoMisplaced(s, x)
                               \/ InfoReconfigured(s, x)
                               \/ ReconfSentTimeout(s, x)
       \/ \E t \in Watchers : sentinelProcessHelloMessage(s, t)
  \/ \E x \in Instances : InstanceFails(x) \/ InstanceReturns(x)

FailoverSpec == FailoverInit /\ [][FailoverNext]_sfVars

--------------------------------------------------------------------------------

(* Two Sentinels whose configurations have the same version agree on which *)
(* instance is the master, also while a failover is being carried out      *)
(* (sentinelProcessHelloMessage takes a configuration for its version      *)
(* alone), unless one of them was told, while it reconfigured the slaves,  *)
(* that the master it is replacing is the master again: it compares with   *)
(* the old address and goes on.                                            *)
SameVersionSameMaster ==
  \A s, t \in Watchers \ torn :
    sen[s].cepoch = sen[t].cepoch
      => sentinelGetCurrentMasterAddress(sen[s])
           = sentinelGetCurrentMasterAddress(sen[t])

(* A slave is marked as being reconfigured only while there is a promoted  *)
(* slave: sentinelRefreshInstanceInfo reads the address of the promoted    *)
(* slave through that mark.                                                *)
ReconfHasPromoted ==
  \A s \in Watchers : InProgress(sen[s]) # {} => sen[s].promoted # NoInstance
=============================================================================
