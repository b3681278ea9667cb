---------------------------- MODULE SiteRecovery ----------------------------
(***************************************************************************)
(* How a site comes back after it has lost data: by a restart from an RDB  *)
(* file that is behind what its peers have already received, or by the     *)
(* promotion of a slave that has not received everything.                  *)
(*                                                                         *)
(* A restarted master asks its peers how far they have followed it.  When  *)
(* it is behind, it empties its database and gets its own writes back from *)
(* them (backstream): a full synchronisation that also brings the writes   *)
(* of the asking site.  It serves no clients meanwhile.  The logic clock   *)
(* then jumps, so that no clock of a lost write is given out again.        *)
(*                                                                         *)
(* One site is modelled, its slave, and what its peers hold of its writes. *)
(* Bytes in flight when the site dies are lost, or were received before.   *)
(***************************************************************************)
EXTENDS Integers, FiniteSets, FiniteSetsExt

CONSTANTS
    Peer,             \* the gids of the peers
    Jump,             \* what jumpVectorClock adds, one million or more
    MaxWrites,        \* bound: writes of clients
    MaxLives,         \* bound: restarts and promotions
    PeersAnswer,      \* environment: every peer answers a restarted site
    QuietSaves,       \* environment: no RDB file is saved during a backstream
    LinkedPromotion   \* environment: only a slave with a live link is promoted

\* A jump is longer than the writes that can be lost.
ASSUME JumpAssumption == Jump \in Nat /\ MaxWrites \in Nat /\ Jump > MaxWrites

ASSUME BoundAssumption ==
    /\ Peer \in SUBSET Nat /\ IsFiniteSet(Peer)
    /\ MaxLives \in Nat
    /\ PeersAnswer \in BOOLEAN /\ QuietSaves \in BOOLEAN /\ LinkedPromotion \in BOOLEAN

VARIABLES
    up,             \* the master runs
    clock,          \* its own unit of crdtServer.vectorClock
    data,           \* the writes of the site that its database holds
    others,         \* its database holds keys of other sites
    loading,        \* crdtServer.loading
    backstream_vc,  \* backstream_vc[p]: the own unit of it, or NoClock
    rdb,            \* the RDB file: clock, data and others
    slave,          \* the slave: clock, data and whether its link is connected
    peer,           \* peer[p]: the unit and the writes of the site at peer p
    life,           \* restarts and promotions so far
    promoted,       \* the life that the last promotion began, or 1
    writes          \* writes of clients so far

vars == <<up, clock, data, others, loading, backstream_vc, rdb, slave, peer,
          life, promoted, writes>>

NoClock == -1

\* What a server holds of the site: the unit of its clock, and writes.  A
\* write is known by its clock, and by the life of the site that gave it out.
Nothing == [clock |-> 0, data |-> {}]

NoFile == [clock |-> 0, data |-> {}, others |-> FALSE]

Init ==
    /\ up = TRUE /\ clock = 0 /\ data = {} /\ loading = FALSE
    /\ backstream_vc = [p \in Peer |-> NoClock]
    /\ others \in BOOLEAN
    /\ rdb = NoFile
    /\ slave = [clock |-> 0, data |-> {}, linked |-> TRUE]
    /\ peer = [p \in Peer |-> Nothing]
    /\ life = 1 /\ promoted = 1 /\ writes = 0

\* The writes of a set that come after a clock, and the first of them.
After(ws, c) == {w \in ws : w.clock > c}

First(ws) == CHOOSE w \in ws : \A v \in ws : w.clock <= v.clock

-----------------------------------------------------------------------------
(***************************************************************************)
(* The running site.                                                       *)
(***************************************************************************)

\* A client writes.  Commands are refused while the site is loading.
Write ==
    /\ up /\ ~loading
    /\ writes < MaxWrites
    /\ writes' = writes + 1
    /\ clock' = clock + 1
    /\ data' = data \cup {[clock |-> clock + 1, life |-> life]}
    /\ UNCHANGED <<up, others, loading, backstream_vc, rdb, slave, peer, life, promoted>>

\* A peer receives the next write, or all it lacks in a full synchronisation,
\* whose MERGE_END also brings the clock.  crdtPsyncCommand refuses a peer that knows
\* a later clock of this site than the site itself, and everyone while loading.
PeerReceives(p) ==
    /\ up /\ ~loading
    /\ peer[p].clock <= clock
    /\ LET new == After(data, peer[p].clock)
       IN  \/ /\ new # {}
              /\ peer' = [peer EXCEPT ![p] = [clock |-> First(new).clock,
                                              data |-> @.data \cup {First(new)}]]
           \/ peer' = [peer EXCEPT ![p] = [clock |-> clock, data |-> @.data \cup new]]
    /\ UNCHANGED <<up, clock, data, others, loading, backstream_vc, rdb, slave,
                   life, promoted, writes>>

\* The slave of the site takes all of it in a full synchronisation.
SlaveSyncs ==
    /\ up /\ ~loading /\ ~slave.linked
    /\ slave' = [clock |-> clock, data |-> data, linked |-> TRUE]
    /\ UNCHANGED <<up, clock, data, others, loading, backstream_vc, rdb, peer,
                   life, promoted, writes>>

\* The slave receives the next write.
SlaveReceives ==
    /\ up /\ slave.linked
    /\ LET new == After(data, slave.clock)
       IN  /\ new # {}
           /\ slave' = [slave EXCEPT !.clock = First(new).clock,
                                     !.data = @ \cup {First(new)}]
    /\ UNCHANGED <<up, clock, data, others, loading, backstream_vc, rdb, peer,
                   life, promoted, writes>>

\* serverCron saves the database, with the vector clock in an aux field.
rdbSaveBackground ==
    /\ up
    /\ QuietSaves => ~loading
    /\ rdb' = [clock |-> clock, data |-> data, others |-> others]
    /\ UNCHANGED <<up, clock, data, others, loading, backstream_vc, slave, peer,
                   life, promoted, writes>>

\* The master dies.  Its slave notices, or has not noticed yet.
Crash ==
    /\ up
    /\ life < MaxLives
    /\ up' = FALSE
    /\ \E l \in {slave.linked, FALSE} : slave' = [slave EXCEPT !.linked = l]
    /\ UNCHANGED <<clock, data, others, loading, backstream_vc, rdb, peer,
                   life, promoted, writes>>

-----------------------------------------------------------------------------
(***************************************************************************)
(* Restart.                                                                *)
(***************************************************************************)

\* The greatest unit of this site among the peers that answer CRDT.VC, or -1.
maxVcu(answering) == Max({NoClock} \cup {peer[p].clock : p \in answering})

\* The peer of that unit with the lowest gid is asked for everything.
maxGid(answering) ==
    Min({p \in answering : peer[p].clock = maxVcu(answering)})

\* Nothing came from the RDB file, of this site or of another.
isNullDb == rdb.data = {} /\ ~rdb.others

\* Seeded fault: what the peers know is not compared with the RDB file.
keepsData_Always(answering) == ~isNullDb

\* The data of the RDB file stays when no peer that answers knows more.
keepsData(answering) == ~isNullDb /\ maxVcu(answering) <= rdb.clock

\* The backstream clocks: everything from the peer that knows most and from
\* those that did not answer, and from the others what comes after.
backstreamClocks(answering) ==
    [p \in Peer |->
        IF p \notin answering \/ p = maxGid(answering) THEN 0 ELSE maxVcu(answering)]

\* resetVectorClock is handed the clock by value: a clock of several units has
\* them set to zero, one of a single unit keeps it.
resetVectorClock(c) == {0, c}

\* loadDataFromDisk, then peerBackStream.  The connection of the slave is gone.
Restart(answering) ==
    /\ ~up
    /\ PeersAnswer => answering = Peer
    /\ up' = TRUE /\ life' = life + 1
    /\ IF keepsData(answering)
       THEN /\ clock' = rdb.clock /\ data' = rdb.data /\ others' = rdb.others
            /\ loading' = FALSE
            /\ backstream_vc' = [p \in Peer |-> NoClock]
       ELSE /\ IF isNullDb THEN clock' = rdb.clock
                                ELSE clock' \in resetVectorClock(rdb.clock)
            /\ data' = {} /\ others' = FALSE
            /\ loading' = (Peer # {})
            /\ backstream_vc' = backstreamClocks(answering)
    /\ slave' = [slave EXCEPT !.linked = FALSE]
    /\ UNCHANGED <<rdb, peer, promoted, writes>>

\* The peers that have still to send their part.
owing == {p \in Peer : backstream_vc[p] # NoClock}

\* Seeded fault: the backstream clock is not cleared.
crdtMergeEndCommand_StillOwing(p) ==
    /\ up /\ p \in owing
    /\ data' = data \cup After(peer[p].data, backstream_vc[p])
    /\ others' \in {others, TRUE}
    /\ clock' = IF clock < peer[p].clock THEN peer[p].clock + Jump ELSE clock
    /\ backstream_vc' = backstream_vc
    /\ loading' = (owing # {})
    /\ UNCHANGED <<up, rdb, slave, peer, life, promoted, writes>>

\* The full synchronisation with a peer ends: crdtMergeEndCommand.  The filter
\* of the snapshot has the own unit of this site, so that its own writes come
\* back.  The clock jumps past what the peer knew; tryCleanCrdtServerLoading
\* lets clients in when no peer owes anything.
crdtMergeEndCommand(p) ==
    /\ up /\ p \in owing
    /\ data' = data \cup After(peer[p].data, backstream_vc[p])
    /\ others' \in {others, TRUE}
    /\ clock' = IF clock < peer[p].clock THEN peer[p].clock + Jump ELSE clock
    /\ backstream_vc' = [backstream_vc EXCEPT ![p] = NoClock]
    /\ loading' = (owing # {p})
    /\ UNCHANGED <<up, rdb, slave, peer, life, promoted, writes>>

-----------------------------------------------------------------------------
(***************************************************************************)
(* Failover.                                                               *)
(***************************************************************************)

Promote(c) ==
    /\ life < MaxLives
    /\ up' = TRUE /\ life' = life + 1 /\ promoted' = life + 1
    /\ clock' = c /\ data' = slave.data
    /\ loading' = FALSE
    /\ backstream_vc' = [p \in Peer |-> NoClock]
    /\ rdb' = NoFile
    /\ slave' = [clock |-> 0, data |-> {}, linked |-> FALSE]
    /\ UNCHANGED <<others, peer, writes>>

\* Seeded fault: the clock goes on where the slave has it.
replicationUnsetMaster_NoJump ==
    /\ slave.linked \/ (~LinkedPromotion /\ ~up)
    /\ Promote(slave.clock)

\* SLAVEOF NO ONE at the slave, whose own data stays as it is.  The clock jumps
\* if the link to the master is connected.
replicationUnsetMaster ==
    /\ slave.linked \/ (~LinkedPromotion /\ ~up)
    /\ Promote(IF slave.linked THEN slave.clock + Jump ELSE slave.clock)

-----------------------------------------------------------------------------
Next ==
    \/ Write
    \/ \E p \in Peer : PeerReceives(p)
    \/ SlaveSyncs
    \/ SlaveReceives
    \/ rdbSaveBackground
    \/ Crash
    \/ \E answering \in SUBSET Peer : Restart(answering)
    \/ \E p \in Peer : crdtMergeEndCommand(p)
    \/ replicationUnsetMaster

Spec == Init /\ [][Next]_vars

\* Every peer is reached again at some time, and a dead site is brought back.
FairSpec ==
    /\ Spec
    /\ \A p \in Peer : WF_vars(crdtMergeEndCommand(p))
    /\ WF_vars(\E answering \in SUBSET Peer : Restart(answering))
-----------------------------------------------------------------------------
\* The copies of writes of this site that count: in its own database, at its
\* peers, and at a slave that follows it (any other slave starts afresh).
copies == data \cup (IF slave.linked THEN slave.data ELSE {}) \cup
          UNION {peer[p].data : p \in Peer}

\* A clock stands for one write: no write that is still held anywhere has the
\* clock of another one, although writes are lost ("我们需要跳过一段不可能重复的clock",
\* jumpVectorClock, peerBackStream).
NoClockReuse == \A v, w \in copies : v.clock = w.clock => v = w

\* A site that serves clients holds every one of its writes that a peer holds,
\* whatever it lost in restarts (peerBackStream, tryCleanCrdtServerLoading).
\* What the promotion of a slave loses is not fetched, by design.
Recovered ==
    up /\ ~loading =>
        \A p \in Peer : {w \in peer[p].data : w.life >= promoted} \subseteq data

\* What the end of every backstream leads to: the site serves clients again.
Serving == up /\ ~loading
=============================================================================
