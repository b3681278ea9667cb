--------------------------- MODULE PeerReplication ---------------------------
(***************************************************************************)
(* Multi-master replication of one key between sites, with tombstones and  *)
(* their garbage collection.                                               *)
(*                                                                         *)
(* Every site is a Redis master with a gid.  It accepts writes and deletes *)
(* of its own clients, stamps each with its vector clock and feeds it to   *)
(* its replication stream, which all other sites (its CRDT slaves) apply.  *)
(* A delete leaves a tombstone behind; a site drops its tombstone when the *)
(* observed clocks of all its peers (CRDT.OVC) have reached it.  A link    *)
(* that breaks resumes from the backlog or, when the backlog has moved on, *)
(* by a full synchronisation: a filtered snapshot sent as CRDT.MERGE_START,*)
(* CRDT.Merge, CRDT.Merge_Del and CRDT.MERGE_END commands.                 *)
(*                                                                         *)
(* "n" is always the site that acts or receives, "p" the site whose stream *)
(* it follows.  Keys do not interact except through the clocks, so one key *)
(* is modelled.  The handshake that precedes CRDT.PSYNC, the bytes of the  *)
(* backlog and the local slaves of a site are other components.            *)
(***************************************************************************)
EXTENDS VectorClock, Sequences, FiniteSetsExt

CONSTANTS
    MaxOps,     \* bound: writes and deletes accepted by all sites together
    MaxOvc,     \* bound: CRDT.OVC commands sent by one site
    MaxBreak    \* bound: number of times any link breaks

ASSUME BoundAssumption == MaxOps \in Nat /\ MaxOvc \in Nat /\ MaxBreak \in Nat

VARIABLES
    vectorClock,  \* crdtServer.vectorClock of every site
    ovc,          \* ovc[n][p]: crdtMasters[p]->vectorClock at n
    val,          \* the live value of the key: per gid, the clock of its write
    tomb,         \* the tombstone of the key in db->deleted_keys
    stream,       \* stream[p]: every command p has fed to its CRDT slaves
    link,         \* link[n][p]: repl_state of crdtMasters[p] at n
    reploff,      \* reploff[n][p]: commands of stream[p] that n has applied
    snapshot,     \* snapshot[n][p]: the full synchronisation on its way to n
    breaks        \* links broken so far

vars == <<vectorClock, ovc, val, tomb, stream, link, reploff, snapshot, breaks>>

Peers(n) == Gid \ {n}

\* CONNECT and CACHED are both REPL_STATE_CONNECT, without and with a cached
\* master that holds a replication id and an offset of the peer.
\* WAIT_BGSAVE is RECEIVE_PSYNC while the peer holds the link in
\* SLAVE_STATE_WAIT_BGSAVE_START.  REPL_STATE_TRANSFER is split by the next
\* command of the snapshot.
TransferStates == {"MERGE_START", "MERGE", "MERGE_DEL", "MERGE_END"}

LinkStates == {"CONNECT", "CACHED", "WAIT_BGSAVE", "CONNECTED"} \cup TransferStates

Commands == [op : {"set", "del", "ovc"}, vc : VectorClocks]

Snapshots == [vc : VectorClocks, val : VectorClocks, tomb : VectorClocks, off : Nat]

NoSnapshot ==
    [vc |-> NullVectorClock, val |-> NullVectorClock, tomb |-> NullVectorClock,
     off |-> 0]

-----------------------------------------------------------------------------
(***************************************************************************)
(* The data type.  Its methods live in the crdt module, outside src/; they *)
(* are those of an element type that keeps, for every gid, the clock of    *)
(* the last write of that gid.                                             *)
(***************************************************************************)
merge(a, b) == vectorClockMerge(a, b)

\* What is left of a value when a tombstone removes the writes it covers.
purge(tombstone, value) == purgeVectorClock(value, tombstone)

gc(tombstone, clock) == isVectorClockMonoIncr(tombstone, clock)

\* filterAndSplit2 of a value: the writes the receivers have not seen.
filterValue(value, min_vc) ==
    LET new == {g \in DOMAIN value \cap DOMAIN min_vc : value[g] > min_vc[g]}
    IN  [g \in new |-> value[g]]

\* filterAndSplit2 of a tombstone: all of it, or nothing.
filterTombstone(tombstone, min_vc) ==
    IF \E g \in DOMAIN min_vc : get_vcu_from_vc(tombstone, g) > min_vc[g]
    THEN tombstone
    ELSE NullVectorClock

-----------------------------------------------------------------------------
(***************************************************************************)
(* Garbage collection.                                                     *)
(***************************************************************************)

\* Seeded fault: peers are not asked.
getGcVectorClock_OwnOnly(n) == vectorClock[n]

\* The least clock that the site itself and all its peers are known to have
\* reached: mergeMinVectorClock over the own clock and the observed ones.
getGcVectorClock(n) ==
    LET clocks == {vectorClock[n]} \cup {ovc[n][p] : p \in Peers(n)}
    IN  [g \in UNION {DOMAIN vc : vc \in clocks} |->
            Min({get_vcu_from_vc(vc, g) : vc \in clocks})]

-----------------------------------------------------------------------------
Init ==
    /\ vectorClock = [n \in Gid |-> [g \in {n} |-> 0]]
    /\ ovc = [n \in Gid |-> [p \in Gid |-> NullVectorClock]]
    /\ val = [n \in Gid |-> NullVectorClock]
    /\ tomb = [n \in Gid |-> NullVectorClock]
    /\ stream = [n \in Gid |-> <<>>]
    /\ link = [n \in Gid |-> [p \in Gid |-> "CONNECT"]]
    /\ reploff = [n \in Gid |-> [p \in Gid |-> 0]]
    /\ snapshot = [n \in Gid |-> [p \in Gid |-> NoSnapshot]]
    /\ breaks = 0

\* The mesh after the first synchronisations of sites that hold nothing.
InitMesh ==
    LET zero == [g \in Gid |-> 0]
    IN  /\ vectorClock = [n \in Gid |-> zero]
        /\ ovc = [n \in Gid |-> [p \in Gid |-> IF p = n THEN NullVectorClock ELSE zero]]
        /\ val = [n \in Gid |-> NullVectorClock]
        /\ tomb = [n \in Gid |-> NullVectorClock]
        /\ stream = [n \in Gid |-> <<>>]
        /\ link = [n \in Gid |-> [p \in Gid |-> IF p = n THEN "CONNECT" ELSE "CONNECTED"]]
        /\ reploff = [n \in Gid |-> [p \in Gid |-> 0]]
        /\ snapshot = [n \in Gid |-> [p \in Gid |-> NoSnapshot]]
        /\ breaks = 0

(***************************************************************************)
(* Commands of clients and of the cron.                                    *)
(***************************************************************************)

\* A site accepts commands of clients while the bounds allow it.
Accepts(n) ==
    /\ vectorClock[n][n] < MaxClock
    /\ MapThenSumSet(LAMBDA g : vectorClock[g][g], Gid) < MaxOps

Feed(n, op, vc) == stream' = [stream EXCEPT ![n] = Append(@, [op |-> op, vc |-> vc])]

\* A client writes the key at its own site.
Set(n) ==
    LET vc == incrLogicClock(vectorClock[n], n, 1)
    IN  /\ Accepts(n)
        /\ vectorClock' = [vectorClock EXCEPT ![n] = vc]
        /\ val' = [val EXCEPT ![n] = purge(tomb[n], merge(@, getMonoVectorClock(vc, n)))]
        /\ Feed(n, "set", vc)
        /\ UNCHANGED <<ovc, tomb, link, reploff, snapshot, breaks>>

\* A client deletes the key: everything the site knows of it is covered.
Del(n) ==
    LET vc == incrLogicClock(vectorClock[n], n, 1)
    IN  /\ ~isNullVectorClock(val[n])
        /\ Accepts(n)
        /\ vectorClock' = [vectorClock EXCEPT ![n] = vc]
        /\ tomb' = [tomb EXCEPT ![n] = merge(@, vc)]
        /\ val' = [val EXCEPT ![n] = purge(tomb'[n], @)]
        /\ Feed(n, "del", vc)
        /\ UNCHANGED <<ovc, link, reploff, snapshot, breaks>>

\* crdtReplicationCron announces the clock of the site to its CRDT slaves.
\* An announcement equal to an earlier one tells them nothing and is left out.
sendObservedVectorClock(n) ==
    LET sent == {i \in 1..Len(stream[n]) : stream[n][i].op = "ovc"}
    IN  /\ \E m \in Peers(n) : link[m][n] \in TransferStates \cup {"CONNECTED"}
        /\ \A i \in sent : stream[n][i].vc # vectorClock[n]
        /\ Cardinality(sent) < MaxOvc
        /\ Feed(n, "ovc", vectorClock[n])
        /\ UNCHANGED <<vectorClock, ovc, val, tomb, link, reploff, snapshot, breaks>>

\* activeGcCycle, or gcIfNeeded on a lookup of the tombstone.
Gc(n) ==
    /\ gc(tomb[n], getGcVectorClock(n))
    /\ tomb' = [tomb EXCEPT ![n] = NullVectorClock]
    /\ UNCHANGED <<vectorClock, ovc, val, stream, link, reploff, snapshot, breaks>>

-----------------------------------------------------------------------------
(***************************************************************************)
(* The stream of a connected peer.                                         *)
(***************************************************************************)

Receives(n, p, op) ==
    /\ link[n][p] = "CONNECTED"
    /\ reploff[n][p] < Len(stream[p])
    /\ stream[p][reploff[n][p] + 1].op = op
    /\ reploff' = [reploff EXCEPT ![n][p] = @ + 1]

\* Seeded fault: any tombstone hides every write that arrives.
ApplySet_TombWins(n, p) ==
    LET vc == stream[p][reploff[n][p] + 1].vc
    IN  /\ Receives(n, p, "set")
        /\ vectorClock' = [vectorClock EXCEPT ![n] = updateProcessVectorClock(@, vc, p, n)]
        /\ val' = [val EXCEPT ![n] = IF isNullVectorClock(tomb[n])
                                     THEN merge(@, getMonoVectorClock(vc, p)) ELSE @]
        /\ UNCHANGED <<ovc, tomb, stream, link, snapshot, breaks>>

ApplySet(n, p) ==
    LET vc == stream[p][reploff[n][p] + 1].vc
    IN  /\ Receives(n, p, "set")
        /\ vectorClock' = [vectorClock EXCEPT ![n] = updateProcessVectorClock(@, vc, p, n)]
        /\ val' = [val EXCEPT ![n] = purge(tomb[n], merge(@, getMonoVectorClock(vc, p)))]
        /\ UNCHANGED <<ovc, tomb, stream, link, snapshot, breaks>>

ApplyDel(n, p) ==
    LET vc == stream[p][reploff[n][p] + 1].vc
    IN  /\ Receives(n, p, "del")
        /\ vectorClock' = [vectorClock EXCEPT ![n] = updateProcessVectorClock(@, vc, p, n)]
        /\ tomb' = [tomb EXCEPT ![n] = merge(@, vc)]
        /\ val' = [val EXCEPT ![n] = purge(tomb'[n], @)]
        /\ UNCHANGED <<ovc, stream, link, snapshot, breaks>>

\* Seeded fault: the observed clock is merged downwards.
ApplyOvc_Min(n, p) ==
    LET vc == stream[p][reploff[n][p] + 1].vc
    IN  /\ Receives(n, p, "ovc")
        /\ ovc' = [ovc EXCEPT ![n][p] = mergeMinVectorClock(@, vc)]
        /\ UNCHANGED <<vectorClock, val, tomb, stream, link, snapshot, breaks>>

ApplyOvc(n, p) ==
    LET vc == stream[p][reploff[n][p] + 1].vc
    IN  /\ Receives(n, p, "ovc")
        /\ ovc' = [ovc EXCEPT ![n][p] = vectorClockMerge(@, vc)]
        /\ UNCHANGED <<vectorClock, val, tomb, stream, link, snapshot, breaks>>

-----------------------------------------------------------------------------
(***************************************************************************)
(* Links: breaking, resuming and full synchronisation.                     *)
(***************************************************************************)

SetLink(n, p, state) == link' = [link EXCEPT ![n][p] = state]

\* The connection drops or times out.  A connected link keeps its peer as
\* cached master; one that was waiting or transferring starts all over.  (In
\* the code a wait that times out keeps an older cached master; that one can
\* only lead to PsyncFull again, since a backlog never moves back.)
Break(n, p) ==
    /\ link[n][p] \in TransferStates \cup {"WAIT_BGSAVE", "CONNECTED"}
    /\ breaks < MaxBreak
    /\ breaks' = breaks + 1
    /\ SetLink(n, p, IF link[n][p] = "CONNECTED" THEN "CACHED" ELSE "CONNECT")
    /\ snapshot' = [snapshot EXCEPT ![n][p] = NoSnapshot]
    /\ UNCHANGED <<vectorClock, ovc, val, tomb, stream, reploff>>

\* CRDT.PSYNC answered by +CONTINUE.
PsyncContinue(n, p) ==
    /\ link[n][p] = "CACHED"
    /\ SetLink(n, p, "CONNECTED")
    /\ UNCHANGED <<vectorClock, ovc, val, tomb, stream, reploff, snapshot, breaks>>

\* CRDT.PSYNC that needs a full synchronisation: n has no cached master, or
\* p's backlog no longer holds what follows n's offset (it wrapped around, or
\* it was freed after repl_backlog_time_limit and p changed its replication
\* id).  p refuses a peer that knows a later clock of p than p itself.
PsyncFull(n, p) ==
    /\ p # n
    /\ link[n][p] \in {"CONNECT", "CACHED"}
    /\ get_vcu_from_vc(vectorClock[n], p) =< get_vcu_from_vc(vectorClock[p], p)
    /\ SetLink(n, p, "WAIT_BGSAVE")
    /\ UNCHANGED <<vectorClock, ovc, val, tomb, stream, reploff, snapshot, breaks>>

\* The least clock of p among the sites that wait, the only unit of min_vc.
LeastFilter(p, waiting) ==
    [g \in {p} |-> Min({get_vcu_from_vc(vectorClock[n], p) : n \in waiting})]

\* One fork serves all peers that wait for it.  Each announced its clock
\* (min-vc) in the handshake; p's unit of it cannot have changed since,
\* because only this link advances it.
StartBgsave(p) ==
    LET waiting == {n \in Peers(p) : link[n][p] = "WAIT_BGSAVE"}
        min_vc == LeastFilter(p, waiting)
        saved == [vc |-> vectorClock[p],
                  val |-> filterValue(val[p], min_vc),
                  tomb |-> filterTombstone(tomb[p], min_vc),
                  off |-> Len(stream[p])]
    IN  /\ waiting # {}
        /\ link' = [n \in Gid |-> [link[n] EXCEPT ![p] =
                        IF n \in waiting THEN "MERGE_START" ELSE @]]
        /\ snapshot' = [n \in Gid |-> [snapshot[n] EXCEPT ![p] =
                        IF n \in waiting THEN saved ELSE @]]
        /\ UNCHANGED <<vectorClock, ovc, val, tomb, stream, reploff, breaks>>

\* Seeded fault: the clock is taken over before the data has arrived.
MergeStart_Claims(n, p) ==
    /\ link[n][p] = "MERGE_START"
    /\ SetLink(n, p, "MERGE")
    /\ vectorClock' = [vectorClock EXCEPT ![n] =
            mergeLogicClock(@, snapshot[n][p].vc, p)]
    /\ UNCHANGED <<ovc, val, tomb, stream, reploff, snapshot, breaks>>

MergeStart(n, p) ==
    /\ link[n][p] = "MERGE_START"
    /\ SetLink(n, p, "MERGE")
    /\ vectorClock' = [vectorClock EXCEPT ![n] =
            IF get_vcu_from_vc(@, p) = 0 THEN addVectorClockUnit(@, p, 0) ELSE @]
    /\ UNCHANGED <<ovc, val, tomb, stream, reploff, snapshot, breaks>>

Merge(n, p) ==
    /\ link[n][p] = "MERGE"
    /\ SetLink(n, p, "MERGE_DEL")
    /\ val' = [val EXCEPT ![n] = purge(tomb[n], merge(@, snapshot[n][p].val))]
    /\ UNCHANGED <<vectorClock, ovc, tomb, stream, reploff, snapshot, breaks>>

MergeDel(n, p) ==
    /\ link[n][p] = "MERGE_DEL"
    /\ SetLink(n, p, "MERGE_END")
    /\ tomb' = [tomb EXCEPT ![n] = merge(@, snapshot[n][p].tomb)]
    /\ val' = [val EXCEPT ![n] = purge(tomb'[n], @)]
    /\ UNCHANGED <<vectorClock, ovc, stream, reploff, snapshot, breaks>>

\* Seeded fault: the offset is that of the last command, not the one after.
MergeEnd_Before(n, p) ==
    /\ link[n][p] = "MERGE_END"
    /\ SetLink(n, p, "CONNECTED")
    /\ ovc' = [ovc EXCEPT ![n][p] = snapshot[n][p].vc]
    /\ vectorClock' = [vectorClock EXCEPT ![n] =
            mergeLogicClock(@, snapshot[n][p].vc, p)]
    /\ reploff' = [reploff EXCEPT ![n][p] = snapshot[n][p].off - 1]
    /\ snapshot' = [snapshot EXCEPT ![n][p] = NoSnapshot]
    /\ UNCHANGED <<val, tomb, stream, breaks>>

\* Only now does n claim to have seen p's stream up to the fork.
MergeEnd(n, p) ==
    /\ link[n][p] = "MERGE_END"
    /\ SetLink(n, p, "CONNECTED")
    /\ ovc' = [ovc EXCEPT ![n][p] = snapshot[n][p].vc]
    /\ vectorClock' = [vectorClock EXCEPT ![n] =
            mergeLogicClock(@, snapshot[n][p].vc, p)]
    /\ reploff' = [reploff EXCEPT ![n][p] = snapshot[n][p].off]
    /\ snapshot' = [snapshot EXCEPT ![n][p] = NoSnapshot]
    /\ UNCHANGED <<val, tomb, stream, breaks>>

-----------------------------------------------------------------------------
Sync(n, p) ==
    \/ PsyncContinue(n, p)
    \/ PsyncFull(n, p)
    \/ MergeStart(n, p)
    \/ Merge(n, p)
    \/ MergeDel(n, p)
    \/ MergeEnd(n, p)

Apply(n, p) == ApplySet(n, p) \/ ApplyDel(n, p) \/ ApplyOvc(n, p)

Next ==
    \/ \E n \in Gid : \/ Set(n)
                      \/ Del(n)
                      \/ sendObservedVectorClock(n)
                      \/ Gc(n)
                      \/ StartBgsave(n)
    \/ \E n \in Gid, p \in Gid : \/ Apply(n, p)
                                 \/ Sync(n, p)
                                 \/ Break(n, p)

Spec == Init /\ [][Next]_vars

SpecMesh == InitMesh /\ [][Next]_vars

\* The event loop keeps reading what peers send, and the cron (one second)
\* keeps reconnecting, saving, announcing and collecting.
Fairness ==
    /\ \A n \in Gid : /\ WF_vars(sendObservedVectorClock(n))
                      /\ WF_vars(Gc(n))
                      /\ WF_vars(StartBgsave(n))
    /\ \A n, p \in Gid : WF_vars(Apply(n, p)) /\ WF_vars(Sync(n, p))

-----------------------------------------------------------------------------
(***************************************************************************)
(* Properties.                                                             *)
(***************************************************************************)

TypeOK ==
    /\ vectorClock \in [Gid -> VectorClocks]
    /\ \A n \in Gid : n \in DOMAIN vectorClock[n]
    /\ ovc \in [Gid -> [Gid -> VectorClocks]]
    /\ val \in [Gid -> VectorClocks]
    /\ tomb \in [Gid -> VectorClocks]
    /\ stream \in [Gid -> Seq(Commands)]
    /\ link \in [Gid -> [Gid -> LinkStates]]
    /\ reploff \in [Gid -> [Gid -> Nat]]
    /\ snapshot \in [Gid -> [Gid -> Snapshots]]
    /\ breaks \in Nat

\* No unit of "a" is ahead of "b".
Below(a, b) == \A g \in Gid : get_vcu_from_vc(a, g) =< get_vcu_from_vc(b, g)

\* How far site n has followed site g.
Seen(n, g) == get_vcu_from_vc(vectorClock[n], g)

\* The clock with which p stamped its i-th command, and p's own unit of it.
Stamp(p, i) == stream[p][i].vc

OwnStamp(p, i) == get_vcu_from_vc(Stamp(p, i), p)

Deletes(p) == {i \in 1..Len(stream[p]) : stream[p][i].op = "del"}

Updates(p) == {i \in 1..Len(stream[p]) : stream[p][i].op # "ovc"}

\* No write that the delete covers is left in the value.
Purged(del, value) == \A g \in DOMAIN value : get_vcu_from_vc(del, g) < value[g]

\* Once the clock of a site says that it has seen a delete, no write which
\* that delete covers is live there, whatever arrives later, in whatever
\* order, and although the tombstone may be gone already (crdtMergeEndCommand,
\* gcIfNeeded).
NoResurrection ==
    \A n, p \in Gid : \A i \in Deletes(p) :
        OwnStamp(p, i) =< Seen(n, p) => Purged(Stamp(p, i), val[n])

\* A site drops its tombstone only after every other site has seen the
\* delete: "when and only when other peers already know what happend"
\* (activeGcCycleTryGc).
StableBeforeGc ==
    [][\A n \in Gid :
        ~isNullVectorClock(tomb[n]) /\ isNullVectorClock(tomb'[n]) =>
            \A m \in Gid : Below(tomb[n], vectorClock[m])]_vars

Drained ==
    \A n \in Gid : \A p \in Peers(n) :
        link[n][p] = "CONNECTED" /\ reploff[n][p] = Len(stream[p])

\* Sites that have applied each other's streams hold the same value.
Convergence == Drained => \A n, m \in Gid : val[n] = val[m]

\* When clients and breaks have stopped, all sites end up with the same value
\* and no tombstone is left anywhere.
Settled == /\ \A n, m \in Gid : val[n] = val[m]
           /\ \A n \in Gid : isNullVectorClock(tomb[n])

-----------------------------------------------------------------------------
(***************************************************************************)
(* The inductive invariant behind NoResurrection and StableBeforeGc.       *)
(***************************************************************************)

\* Nobody has seen more of a site than the site has done.
ClockLead == \A n, g \in Gid : Seen(n, g) =< Seen(g, g)

\* A site is its own source: the link to itself is never used.
NoSelfLink == \A n \in Gid : link[n][n] = "CONNECT"

\* The stamps of a stream are clocks its site has reached, and every write or
\* delete has a later own unit than all commands before it, and not zero.
StampsOrdered ==
    \A p \in Gid : \A i \in 1..Len(stream[p]) :
        /\ Below(Stamp(p, i), vectorClock[p])
        /\ i \in Updates(p) => 0 < OwnStamp(p, i)
        /\ \A j \in Updates(p) : i < j => OwnStamp(p, i) < OwnStamp(p, j)

\* The commands before an offset are those that a clock has seen.
Splits(p, off, clock) ==
    /\ off =< Len(stream[p])
    /\ \A i \in Updates(p) : i =< off <=> OwnStamp(p, i) =< clock

OffsetMatchesClock ==
    \A n, p \in Gid :
        link[n][p] \in {"CACHED", "CONNECTED"} => Splits(p, reploff[n][p], Seen(n, p))

\* Announced clocks lag behind the clock of their site.
ObservedBehind == \A n, p \in Gid : Below(ovc[n][p], vectorClock[p])

\* A delete that a site has seen is in its tombstone until all have seen it.
Retained ==
    \A n, p \in Gid : \A i \in Deletes(p) :
        OwnStamp(p, i) =< Seen(n, p) =>
            \/ Below(Stamp(p, i), tomb[n])
            \/ \A m \in Gid : Below(Stamp(p, i), vectorClock[m])

\* A snapshot on its way is a state its source was in, taken after whatever
\* the receiver has heard of that source before.
SnapshotClock ==
    \A n, p \in Gid : link[n][p] \in TransferStates =>
        LET s == snapshot[n][p]
        IN  /\ Below(s.vc, vectorClock[p])
            /\ Below(ovc[n][p], s.vc)
            /\ p \in DOMAIN s.vc
            /\ Seen(n, p) =< get_vcu_from_vc(s.vc, p)
            /\ Splits(p, s.off, get_vcu_from_vc(s.vc, p))

\* The value in a snapshot has lost what its source had seen deleted, and
\* brings nothing back at the receiver.
SnapshotValue ==
    \A n, p, q \in Gid : \A i \in Deletes(q) :
        link[n][p] \in {"MERGE_START", "MERGE"} =>
            LET s == snapshot[n][p]
            IN  /\ OwnStamp(q, i) =< get_vcu_from_vc(s.vc, q) => Purged(Stamp(q, i), s.val)
                /\ OwnStamp(q, i) =< Seen(n, q) =>
                        Below(Stamp(q, i), tomb[n]) \/ Purged(Stamp(q, i), s.val)

\* A snapshot brings every delete of its source that the receiver lacks.
SnapshotDeletes ==
    \A n, p \in Gid : \A i \in Deletes(p) :
        i =< snapshot[n][p].off /\ Seen(n, p) < OwnStamp(p, i) =>
            /\ link[n][p] \in {"MERGE_START", "MERGE", "MERGE_DEL"} =>
                    Below(Stamp(p, i), snapshot[n][p].tomb)
            /\ link[n][p] = "MERGE_END" =>
                    Below(Stamp(p, i), tomb[n]) /\ Purged(Stamp(p, i), val[n])

IndInv ==
    /\ TypeOK
    /\ ClockLead
    /\ NoSelfLink
    /\ StampsOrdered
    /\ OffsetMatchesClock
    /\ ObservedBehind
    /\ Retained
    /\ SnapshotClock
    /\ SnapshotValue
    /\ SnapshotDeletes
    /\ NoResurrection

-----------------------------------------------------------------------------
(***************************************************************************)
(* What Convergence needs besides: where a write can be, given the streams *)
(* s of all sites.  The operators take the streams as an argument, so that *)
(* they can speak of the streams after a step.                             *)
(***************************************************************************)

\* Site g fed a write with own unit w.
WriteIn(s, g, w) ==
    \E i \in 1..Len(s[g]) : s[g][i].op = "set" /\ get_vcu_from_vc(s[g][i].vc, g) = w

\* Some site fed a delete that covers the write w of g.
DeleteIn(s, g, w) ==
    \E q \in Gid : \E j \in 1..Len(s[q]) :
        s[q][j].op = "del" /\ w =< get_vcu_from_vc(s[q][j].vc, g)

\* The write w of g is in the value, or a later one of g, or it is deleted.
Kept(s, value, g, w) == (g \in DOMAIN value /\ w =< value[g]) \/ DeleteIn(s, g, w)

\* No write of g in lo+1..hi is lost from the value.
KeptBetween(s, value, g, lo, hi) ==
    \A w \in 1..MaxClock :
        WriteIn(s, g, w) /\ lo < w /\ w =< hi => Kept(s, value, g, w)

\* A value holds writes only, and a tombstone covers deleted writes only.
OnlyWrites(s, value) == \A g \in DOMAIN value : WriteIn(s, g, value[g])

OnlyDeletes(s, tombstone) ==
    \A g \in Gid : \A w \in 1..MaxClock :
        w =< get_vcu_from_vc(tombstone, g) => DeleteIn(s, g, w)

\* Nothing is in a value or a tombstone that no client asked for.
NothingInvented ==
    \A n \in Gid :
        /\ OnlyWrites(stream, val[n])
        /\ OnlyDeletes(stream, tomb[n])
        /\ \A p \in Gid : /\ OnlyWrites(stream, snapshot[n][p].val)
                          /\ OnlyDeletes(stream, snapshot[n][p].tomb)

\* A write that a site has seen is in its value until it is deleted.
WritesKept ==
    \A n, g \in Gid : KeptBetween(stream, val[n], g, 0, Seen(n, g))

\* The writes that a full synchronisation is to bring are in the snapshot,
\* and in the value of the receiver once the snapshot is merged.
BroughtWrites(n, p) ==
    LET kept(value) == KeptBetween(stream, value, p, Seen(n, p),
                                   get_vcu_from_vc(snapshot[n][p].vc, p))
    IN  /\ link[n][p] \in {"MERGE_START", "MERGE"} => kept(snapshot[n][p].val)
        /\ link[n][p] \in {"MERGE_DEL", "MERGE_END"} => kept(val[n])

SnapshotWrites == \A n, p \in Gid : BroughtWrites(n, p)

HistoryInv == NothingInvented /\ WritesKept /\ SnapshotWrites
=============================================================================
