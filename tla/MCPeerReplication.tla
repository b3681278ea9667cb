------------------------- MODULE MCPeerReplication -------------------------
(***************************************************************************)
(* PeerReplication for TLC, and with the eviction of tombstones under      *)
(* memory pressure: freeMemoryIfNeeded drops tombstones before it touches  *)
(* live keys, and tells others with CRDT.EVICTIONTOMBSTONE.                *)
(***************************************************************************)
EXTENDS PeerReplication, TLC

\* Sites are interchangeable: nothing orders the gids.
Symmetry == Permutations(Gid)

\* A second break is explored only where no observed clock was sent: the
\* snapshots that two links share (a break each) need none.
Explored ==
    breaks = 2 => \A n \in Gid : \A i \in DOMAIN stream[n] : stream[n][i].op # "ovc"

-----------------------------------------------------------------------------
\* freeMemoryIfNeeded picks the tombstone: it is announced, then dropped.
evictionTombstone(n) ==
    /\ ~isNullVectorClock(tomb[n])
    /\ Feed(n, "evict", tomb[n])
    /\ tomb' = [tomb EXCEPT ![n] = NullVectorClock]
    /\ UNCHANGED <<vectorClock, ovc, val, link, reploff, snapshot, breaks>>

\* The command arrives: a tombstone that the sender's covers is dropped.
evictionTombstoneCommand(n, p) ==
    LET vc == stream[p][reploff[n][p] + 1].vc
    IN  /\ Receives(n, p, "evict")
        /\ tomb' = [tomb EXCEPT ![n] = IF gc(@, vc) THEN NullVectorClock ELSE @]
        /\ UNCHANGED <<vectorClock, ovc, val, stream, link, snapshot, breaks>>

NextEvict ==
    \/ Next
    \/ \E n \in Gid : evictionTombstone(n)
    \/ \E n, p \in Gid : evictionTombstoneCommand(n, p)

SpecEvict == InitMesh /\ [][NextEvict]_vars

\* A site loses a tombstone to garbage collection or to its own memory
\* pressure, never to the memory pressure of a peer: an evicted tombstone is
\* told to slaves and not to peers ("剔除tombstone同步给slave  不同步给peer",
\* propagateGcTombstone).
EvictionStaysLocal ==
    [][\A n \in Gid :
        ~isNullVectorClock(tomb[n]) /\ isNullVectorClock(tomb'[n]) =>
            gc(tomb[n], getGcVectorClock(n)) \/ evictionTombstone(n)]_vars
=============================================================================
