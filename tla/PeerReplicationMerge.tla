------------------------ MODULE PeerReplicationMerge ------------------------
(***************************************************************************)
(* A full synchronisation keeps IndInv and HistoryInv of PeerReplication:  *)
(* the fork that takes the snapshot and the commands that bring it to its  *)
(* receivers.                                                              *)
(***************************************************************************)
EXTENDS PeerReplicationProofs

-----------------------------------------------------------------------------
(*****************************************************************************)
(* A full synchronisation keeps HistoryInv.                                  *)
(*****************************************************************************)

\* The fork puts into the snapshot all writes of the source that a waiting
\* site has not seen.
LEMMA FilterKeeps ==
    ASSUME NEW s, NEW v \in VectorClocks, NEW p \in Gid, NEW min_vc,
           DOMAIN min_vc = {p}, min_vc[p] \in Nat, NEW lo \in Nat, min_vc[p] =< lo, NEW hi,
           KeptBetween(s, v, p, 0, hi)
    PROVE  KeptBetween(s, filterValue(v, min_vc), p, lo, hi)
  <1> SUFFICES ASSUME NEW w \in 1..MaxClock, WriteIn(s, p, w), lo < w, w =< hi,
                      ~DeleteIn(s, p, w)
               PROVE  p \in DOMAIN filterValue(v, min_vc) /\ w =< filterValue(v, min_vc)[p]
    BY DEF KeptBetween, Kept
  <1>1. 0 < w /\ w \in Nat
    BY MaxClockAssumption
  <1>2. p \in DOMAIN v /\ w =< v[p]
    BY <1>1 DEF KeptBetween, Kept
  <1>3. v[p] \in Nat
    BY <1>2, VcElim, MaxClockAssumption
  <1>4. v[p] > min_vc[p]
    BY <1>1, <1>2, <1>3
  <1> QED
    BY <1>2, <1>4 DEF filterValue

\* The fork's tombstone covers deleted writes only.
LEMMA FilterOnly ==
    ASSUME NEW s, NEW v \in VectorClocks, NEW t \in VectorClocks, NEW min_vc,
           OnlyWrites(s, v), OnlyDeletes(s, t)
    PROVE  /\ OnlyWrites(s, filterValue(v, min_vc))
           /\ OnlyDeletes(s, filterTombstone(t, min_vc))
  <1>1. OnlyWrites(s, filterValue(v, min_vc))
    BY FilterValueUnits DEF OnlyWrites
  <1>2. filterTombstone(t, min_vc) \in {t, NullVectorClock}
    BY DEF filterTombstone
  <1> QED
    BY <1>1, <1>2, NullOnly

\* The fork for a full synchronisation.
LEMMA BgsaveHistory ==
    ASSUME IndInv, HistoryInv, NEW p \in Gid, StartBgsave(p)
    PROVE  HistoryInv'
  <1> DEFINE waiting == {n \in Peers(p) : link[n][p] = "WAIT_BGSAVE"}
             min_vc == LeastFilter(p, waiting)
             saved == [vc |-> vectorClock[p],
                       val |-> filterValue(val[p], min_vc),
                       tomb |-> filterTombstone(tomb[p], min_vc),
                       off |-> Len(stream[p])]
  <1>0. TypeOK /\ NothingInvented /\ WritesKept /\ SnapshotWrites
    BY DEF IndInv, HistoryInv
  <1>1. /\ link' = [n \in Gid |-> [link[n] EXCEPT ![p] =
                        IF n \in waiting THEN "MERGE_START" ELSE @]]
        /\ snapshot' = [n \in Gid |-> [snapshot[n] EXCEPT ![p] =
                        IF n \in waiting THEN saved ELSE @]]
        /\ UNCHANGED <<vectorClock, val, tomb, stream>>
    BY DEF StartBgsave
  <1>2. /\ saved.vc = vectorClock[p]
        /\ saved.val = filterValue(val[p], min_vc)
        /\ saved.tomb = filterTombstone(tomb[p], min_vc)
    OBVIOUS
  <1>3. waiting \in SUBSET Gid
    BY DEF Peers
  <1> HIDE DEF saved, waiting
  <1>4. /\ \A n \in waiting : link'[n][p] = "MERGE_START" /\ snapshot'[n][p] = saved
        /\ \A n, q \in Gid : q # p \/ n \notin waiting =>
                link'[n][q] = link[n][q] /\ snapshot'[n][q] = snapshot[n][q]
    BY <1>0, <1>1, <1>3 DEF TypeOK
  <1>5. \A m, g : Seen(m, g)' = Seen(m, g)
    BY <1>1 DEF Seen
  <1>6. ASSUME NEW n \in waiting
        PROVE  /\ DOMAIN min_vc = {p} /\ min_vc[p] \in Nat /\ min_vc[p] =< Seen(n, p)
    BY <1>0, <1>3, LeastFilterBound, Zenon
  <1> HIDE DEF min_vc
  <1>7. val[p] \in VectorClocks /\ tomb[p] \in VectorClocks
    BY <1>0 DEF TypeOK
  <1>8. NothingInvented'
    <2>1. OnlyWrites(stream, val[p]) /\ OnlyDeletes(stream, tomb[p])
      BY <1>0 DEF NothingInvented
    <2>2. OnlyWrites(stream', saved.val) /\ OnlyDeletes(stream', saved.tomb)
      BY <1>1, <1>2, <1>7, <2>1, FilterOnly
    <2>3. \A m, q \in Gid : \/ snapshot'[m][q] = snapshot[m][q]
                            \/ /\ OnlyWrites(stream', snapshot'[m][q].val)
                               /\ OnlyDeletes(stream', snapshot'[m][q].tomb)
      BY <1>4, <2>2
    <2> QED
      BY <1>0, <1>1, <2>3, ExtendsSame, InventedStep, Zenon
  <1>9. WritesKept'
    BY <1>0, <1>1, <1>5 DEF WritesKept
  <1>10. ASSUME NEW n \in Gid, NEW q \in Gid PROVE BroughtWrites(n, q)'
    <2>1. CASE q # p \/ n \notin waiting
      <3>1. link'[n][q] = link[n][q] /\ snapshot'[n][q] = snapshot[n][q] /\ BroughtWrites(n, q)
        BY <1>0, <1>4, <2>1 DEF SnapshotWrites
      <3> QED
        BY <1>1, <1>5, <3>1 DEF BroughtWrites
    <2>2. CASE q = p /\ n \in waiting
      <3>1. link'[n][p] = "MERGE_START" /\ snapshot'[n][p] = saved
        BY <1>4, <2>2
      <3>2. KeptBetween(stream, val[p], p, 0, Seen(p, p)) /\ Seen(n, p) \in Nat
        BY <1>0, SeenType DEF WritesKept
      <3>3. KeptBetween(stream, filterValue(val[p], min_vc), p, Seen(n, p), Seen(p, p))
        BY <1>6, <1>7, <2>2, <3>2, FilterKeeps
      <3>4. get_vcu_from_vc(saved.vc, p) = Seen(p, p)
        BY <1>2 DEF Seen
      <3>5. KeptBetween(stream', saved.val, p, Seen(n, p)', get_vcu_from_vc(saved.vc, p))
        BY <1>1, <1>2, <1>5, <3>3, <3>4
      <3> QED
        BY <2>2, <3>1, <3>5 DEF BroughtWrites
    <2> QED
      BY <2>1, <2>2
  <1>11. SnapshotWrites'
    BY <1>10 DEF SnapshotWrites
  <1> QED
    BY <1>8, <1>9, <1>11 DEF HistoryInv

\* The value of a snapshot reaches the receiver.
LEMMA MergeHistory ==
    ASSUME IndInv, HistoryInv, NEW n \in Gid, NEW p \in Gid, Merge(n, p)
    PROVE  HistoryInv'
  <1> DEFINE s == snapshot[n][p]
             hi == get_vcu_from_vc(s.vc, p)
  <1>0. /\ TypeOK /\ NothingInvented /\ WritesKept /\ SnapshotWrites
        /\ link[n][p] = "MERGE" /\ SetLink(n, p, "MERGE_DEL")
        /\ val' = [val EXCEPT ![n] = purge(tomb[n], merge(val[n], s.val))]
        /\ UNCHANGED <<vectorClock, tomb, stream, snapshot>>
    BY DEF IndInv, HistoryInv, Merge
  <1>1. /\ link'[n][p] = "MERGE_DEL"
        /\ \A m, q \in Gid : <<m, q>> # <<n, p>> => link'[m][q] = link[m][q]
    BY <1>0, SetLinkFacts DEF LinkStates, TransferStates
  <1>2. \A m, q : Seen(m, q)' = Seen(m, q)
    BY <1>0 DEF Seen
  <1>3. s.val \in VectorClocks /\ val[n] \in VectorClocks /\ tomb[n] \in VectorClocks
    BY <1>0, SnapshotType DEF TypeOK
  <1>4. /\ val'[n] = purge(tomb[n], merge(val[n], s.val))
        /\ \A m \in Gid : m # n => val'[m] = val[m]
    BY <1>0 DEF TypeOK
  <1>5. /\ OnlyWrites(stream', val[n]) /\ OnlyDeletes(stream', tomb[n])
        /\ OnlyWrites(stream', s.val)
    BY <1>0 DEF NothingInvented
  <1>6. BroughtWrites(n, p)
    BY <1>0 DEF SnapshotWrites
  <1>7. KeptBetween(stream, s.val, p, Seen(n, p), hi)
    BY <1>0, <1>6 DEF BroughtWrites
  <1> HIDE DEF s, hi
  <1>8. /\ Retains(stream', val[n], val'[n])
        /\ Retains(stream', s.val, val'[n])
        /\ OnlyWrites(stream', val'[n])
    BY <1>3, <1>4, <1>5, MergePurge
  <1>9. \A m \in Gid : Retains(stream', val[m], val'[m])
    BY <1>4, <1>8, RetainsSame
  <1>10. Extends(stream, stream')
    BY <1>0, ExtendsSame
  <1>11. NothingInvented'
    BY <1>0, <1>4, <1>8, <1>10, InventedStep
  <1>12. KeptBetween(stream', val'[n], p, 0, Seen(n, p)')
    BY <1>0, <1>2, <1>8, <1>10, KeptStep
  <1>13. KeptBetween(stream', val'[n], p, Seen(n, p)', hi)
    BY <1>0, <1>2, <1>7, <1>8, <1>10, CarryKept
  <1>14. BroughtWrites(n, p)'
    BY <1>0, <1>1, <1>13 DEF BroughtWrites, s, hi
  <1>15. \A m, q \in Gid : <<m, q>> # <<n, p>> => /\ link'[m][q] = link[m][q]
                                                  /\ snapshot'[m][q] = snapshot[m][q]
                                                  /\ Seen(m, q)' = Seen(m, q)
    BY <1>0, <1>1, <1>2
  <1>16. \A g \in Gid : \A w \in 1..MaxClock : WriteIn(stream', g, w) => WriteIn(stream, g, w)
    BY <1>0
  <1> QED
    BY <1>9, <1>10, <1>11, <1>12, <1>14, <1>15, <1>16, HistoryStep, Zenon

\* The tombstone of a snapshot reaches the receiver.
LEMMA MergeDelHistory ==
    ASSUME IndInv, HistoryInv, NEW n \in Gid, NEW p \in Gid, MergeDel(n, p)
    PROVE  HistoryInv'
  <1> DEFINE s == snapshot[n][p]
             hi == get_vcu_from_vc(s.vc, p)
  <1>0. /\ TypeOK /\ NothingInvented /\ WritesKept /\ SnapshotWrites
        /\ link[n][p] = "MERGE_DEL" /\ SetLink(n, p, "MERGE_END")
        /\ tomb' = [tomb EXCEPT ![n] = merge(tomb[n], s.tomb)]
        /\ val' = [val EXCEPT ![n] = purge(tomb'[n], val[n])]
        /\ UNCHANGED <<vectorClock, stream, snapshot>>
    BY DEF IndInv, HistoryInv, MergeDel
  <1>1. /\ link'[n][p] = "MERGE_END"
        /\ \A m, q \in Gid : <<m, q>> # <<n, p>> => link'[m][q] = link[m][q]
    BY <1>0, SetLinkFacts DEF LinkStates, TransferStates
  <1>2. \A m, q : Seen(m, q)' = Seen(m, q)
    BY <1>0 DEF Seen
  <1>3. s.tomb \in VectorClocks /\ val[n] \in VectorClocks /\ tomb[n] \in VectorClocks
    BY <1>0, SnapshotType DEF TypeOK
  <1>4. /\ tomb'[n] = merge(tomb[n], s.tomb)
        /\ val'[n] = purge(tomb'[n], val[n])
        /\ \A m \in Gid : m # n => val'[m] = val[m] /\ tomb'[m] = tomb[m]
    BY <1>0 DEF TypeOK
  <1>5. /\ OnlyWrites(stream', val[n]) /\ OnlyDeletes(stream', tomb[n])
        /\ OnlyDeletes(stream', s.tomb)
    BY <1>0 DEF NothingInvented
  <1>6. BroughtWrites(n, p)
    BY <1>0 DEF SnapshotWrites
  <1>7. KeptBetween(stream, val[n], p, Seen(n, p), hi)
    BY <1>0, <1>6 DEF BroughtWrites
  <1> HIDE DEF s, hi
  <1>8. tomb'[n] \in VectorClocks /\ OnlyDeletes(stream', tomb'[n])
    BY <1>3, <1>4, <1>5, MergeOnly
  <1>9. Retains(stream', val[n], val'[n]) /\ OnlyWrites(stream', val'[n])
    BY <1>3, <1>4, <1>5, <1>8, PurgeRetains, PurgeOnly
  <1>10. \A m \in Gid : Retains(stream', val[m], val'[m])
    BY <1>4, <1>9, RetainsSame
  <1>11. Extends(stream, stream')
    BY <1>0, ExtendsSame
  <1>12. NothingInvented'
    BY <1>0, <1>4, <1>8, <1>9, <1>11, InventedStep
  <1>13. KeptBetween(stream', val'[n], p, 0, Seen(n, p)')
    BY <1>0, <1>2, <1>9, <1>11, KeptStep, Zenon
  <1>14. KeptBetween(stream', val'[n], p, Seen(n, p)', hi)
    BY <1>0, <1>2, <1>7, <1>9, <1>11, CarryKept, Zenon
  <1>15. BroughtWrites(n, p)'
    BY <1>0, <1>1, <1>14 DEF BroughtWrites, s, hi
  <1>16. \A m, q \in Gid : <<m, q>> # <<n, p>> => /\ link'[m][q] = link[m][q]
                                                  /\ snapshot'[m][q] = snapshot[m][q]
                                                  /\ Seen(m, q)' = Seen(m, q)
    BY <1>0, <1>1, <1>2
  <1>17. \A g \in Gid : \A w \in 1..MaxClock : WriteIn(stream', g, w) => WriteIn(stream, g, w)
    BY <1>0
  <1> QED
    BY <1>10, <1>11, <1>12, <1>13, <1>15, <1>16, <1>17, HistoryStep

\* CRDT.MERGE_END advances the clock of the site to the clock of the snapshot,
\* in the unit of the peer only, and the offset with it.
LEMMA MergeEndFrame ==
    ASSUME IndInv, NEW n \in Gid, NEW p \in Gid, MergeEnd(n, p)
    PROVE  /\ n # p
           /\ Splits(p, snapshot[n][p].off, get_vcu_from_vc(snapshot[n][p].vc, p))
           /\ Below(snapshot[n][p].vc, vectorClock[p])
           /\ snapshot[n][p].vc \in VectorClocks
           /\ Seen(n, p)' = get_vcu_from_vc(snapshot[n][p].vc, p)
           /\ Seen(n, p) =< Seen(n, p)'
           /\ Seen(n, p)' =< Seen(p, p)
           /\ Seen(n, p)' \in Nat
           /\ \A m, g \in Gid : <<m, g>> # <<n, p>> => Seen(m, g)' = Seen(m, g)
           /\ \A a \in VectorClocks : \A m \in Gid :
                Below(a, vectorClock[m]) => Below(a, vectorClock'[m])
  <1> DEFINE s == snapshot[n][p]
             advanced == mergeLogicClock(vectorClock[n], s.vc, p)
  <1>0. /\ TypeOK /\ SnapshotClock /\ NoSelfLink
        /\ link[n][p] = "MERGE_END"
        /\ vectorClock' = [vectorClock EXCEPT ![n] = advanced]
    BY DEF IndInv, MergeEnd
  <1>1. n # p
    BY <1>0 DEF NoSelfLink
  <1>2. /\ Below(s.vc, vectorClock[p])
        /\ Seen(n, p) =< get_vcu_from_vc(s.vc, p)
        /\ Splits(p, s.off, get_vcu_from_vc(s.vc, p))
    BY <1>0 DEF SnapshotClock, TransferStates
  <1>3. s.vc \in VectorClocks /\ vectorClock[n] \in VectorClocks
    BY <1>0, SnapshotType DEF TypeOK
  <1>4. /\ get_vcu_from_vc(advanced, p)
                = max(get_vcu_from_vc(s.vc, p), get_vcu_from_vc(vectorClock[n], p))
        /\ \A g : g # p => get_vcu_from_vc(advanced, g) = get_vcu_from_vc(vectorClock[n], g)
    BY <1>3, MergeOneUnit, Zenon
  <1>5. /\ get_vcu_from_vc(s.vc, p) \in Nat
        /\ \A m, g \in Gid : Seen(m, g) \in Nat
    BY <1>0, <1>3, UnitType, SeenType, MaxClockAssumption
  <1>6. get_vcu_from_vc(s.vc, p) =< Seen(p, p)
    BY <1>2 DEF Below, Seen
  <1> HIDE DEF s, advanced
  <1>7. /\ vectorClock'[n] = advanced
        /\ \A m \in Gid : m # n => vectorClock'[m] = vectorClock[m]
    BY <1>0 DEF TypeOK
  <1>8. Seen(n, p)' = get_vcu_from_vc(s.vc, p)
    BY <1>2, <1>4, <1>5, <1>7 DEF Seen, max
  <1>9. \A m, g \in Gid : <<m, g>> # <<n, p>> => Seen(m, g)' = Seen(m, g)
    BY <1>4, <1>7 DEF Seen
  <1>10. \A m, g \in Gid : Seen(m, g) =< Seen(m, g)' /\ Seen(m, g)' \in Nat
    BY <1>2, <1>5, <1>8, <1>9
  <1>11. ASSUME NEW a \in VectorClocks, NEW m \in Gid, Below(a, vectorClock[m])
         PROVE  Below(a, vectorClock'[m])
    <2> SUFFICES ASSUME NEW g \in Gid PROVE get_vcu_from_vc(a, g) =< Seen(m, g)'
      BY DEF Below, Seen
    <2>1. get_vcu_from_vc(a, g) =< Seen(m, g) /\ get_vcu_from_vc(a, g) \in Nat
      BY <1>11, UnitType, MaxClockAssumption DEF Below, Seen
    <2> QED
      BY <1>5, <1>10, <2>1
  <1> QED
    BY <1>1, <1>2, <1>3, <1>6, <1>8, <1>9, <1>10, <1>11, Zenon DEF s

\* The receiver claims the clock of the snapshot.
LEMMA MergeEndHistory ==
    ASSUME IndInv, HistoryInv, NEW n \in Gid, NEW p \in Gid, MergeEnd(n, p)
    PROVE  HistoryInv'
  <1> DEFINE hi == get_vcu_from_vc(snapshot[n][p].vc, p)
  <1>0. /\ TypeOK /\ NothingInvented /\ WritesKept /\ SnapshotWrites
        /\ link[n][p] = "MERGE_END" /\ SetLink(n, p, "CONNECTED")
        /\ snapshot' = [snapshot EXCEPT ![n][p] = NoSnapshot]
        /\ UNCHANGED <<val, tomb, stream>>
    BY DEF IndInv, HistoryInv, MergeEnd
  <1>1. /\ link'[n][p] = "CONNECTED"
        /\ \A m, q \in Gid : <<m, q>> # <<n, p>> => link'[m][q] = link[m][q]
    BY <1>0, SetLinkFacts DEF LinkStates
  <1>2. /\ Seen(n, p)' = hi /\ hi \in Nat
        /\ \A m, q \in Gid : <<m, q>> # <<n, p>> => Seen(m, q)' = Seen(m, q)
    BY MergeEndFrame
  <1>3. /\ snapshot'[n][p] = NoSnapshot
        /\ \A m, q \in Gid : <<m, q>> # <<n, p>> => snapshot'[m][q] = snapshot[m][q]
    BY <1>0 DEF TypeOK
  <1>4. BroughtWrites(n, p) /\ KeptBetween(stream, val[n], p, 0, Seen(n, p))
    BY <1>0 DEF SnapshotWrites, WritesKept
  <1>5. KeptBetween(stream, val[n], p, Seen(n, p), hi)
    BY <1>0, <1>4 DEF BroughtWrites
  <1> HIDE DEF hi
  <1>6. Seen(n, p) \in Nat
    BY <1>0, SeenType
  <1>7. KeptBetween(stream', val'[n], p, 0, Seen(n, p)')
    <2>1. \A w \in 1..MaxClock : 0 < w /\ (w =< Seen(n, p) \/ Seen(n, p) < w)
      BY <1>6, MaxClockAssumption
    <2>2. KeptBetween(stream, val[n], p, 0, hi)
      BY <1>4, <1>5, <2>1 DEF KeptBetween
    <2> QED
      BY <1>0, <1>2, <2>2
  <1>8. BroughtWrites(n, p)'
    BY <1>1 DEF BroughtWrites
  <1>9. Extends(stream, stream')
    BY <1>0, ExtendsSame, SMTT(20)
  <1>10. NothingInvented'
    <2>1. OnlyWrites(stream', NoSnapshot.val) /\ OnlyDeletes(stream', NoSnapshot.tomb)
      BY NullOnly DEF NoSnapshot
    <2> QED
      BY <1>0, <1>3, <1>9, <2>1, InventedStep
  <1>11. \A m \in Gid : Retains(stream', val[m], val'[m])
    BY <1>0, RetainsSame
  <1>12. \A g \in Gid : \A w \in 1..MaxClock : WriteIn(stream', g, w) => WriteIn(stream, g, w)
    BY <1>0
  <1> QED
    BY <1>1, <1>2, <1>3, <1>7, <1>8, <1>9, <1>10, <1>11, <1>12, HistoryStep, Zenon

-----------------------------------------------------------------------------
(*****************************************************************************)
(* A full synchronisation keeps IndInv.                                      *)
(*****************************************************************************)

\* A fork takes a state in which its source keeps every delete that some site
\* lacks, and in which nothing that it has seen deleted is live.
LEMMA BgsaveStep ==
    ASSUME IndInv, TypeOK', NEW p \in Gid, StartBgsave(p)
    PROVE  IndInv'
  <1> DEFINE waiting == {n \in Peers(p) : link[n][p] = "WAIT_BGSAVE"}
             min_vc == LeastFilter(p, waiting)
             saved == [vc |-> vectorClock[p],
                       val |-> filterValue(val[p], min_vc),
                       tomb |-> filterTombstone(tomb[p], min_vc),
                       off |-> Len(stream[p])]
  <1>0. /\ TypeOK /\ ClockLead /\ StampsOrdered /\ Retained /\ SnapshotClock /\ SnapshotValue
        /\ SnapshotDeletes /\ NoResurrection /\ NoSelfLink /\ ObservedBehind
        /\ OffsetMatchesClock
    BY DEF IndInv
  <1>1. /\ link' = [n \in Gid |-> [link[n] EXCEPT ![p] =
                        IF n \in waiting THEN "MERGE_START" ELSE @]]
        /\ snapshot' = [n \in Gid |-> [snapshot[n] EXCEPT ![p] =
                        IF n \in waiting THEN saved ELSE @]]
        /\ UNCHANGED <<vectorClock, ovc, val, tomb, stream, reploff, breaks>>
    BY DEF StartBgsave
  <1>2. /\ saved.vc = vectorClock[p]
        /\ saved.val = filterValue(val[p], min_vc)
        /\ saved.tomb = filterTombstone(tomb[p], min_vc)
        /\ saved.off = Len(stream[p])
    BY Zenon
  <1>3. waiting \in SUBSET Gid /\ p \notin waiting
    BY DEF Peers
  <1> HIDE DEF saved, min_vc, waiting
  <1>4. /\ \A n \in waiting : link'[n][p] = "MERGE_START" /\ snapshot'[n][p] = saved
        /\ \A n, q \in Gid : q # p \/ n \notin waiting =>
                link'[n][q] = link[n][q] /\ snapshot'[n][q] = snapshot[n][q]
    BY <1>0, <1>1, <1>3 DEF TypeOK
  <1>5. \A q : /\ Deletes(q)' = Deletes(q)
               /\ Updates(q)' = Updates(q)
               /\ \A i : Stamp(q, i)' = Stamp(q, i) /\ OwnStamp(q, i)' = OwnStamp(q, i)
    BY <1>1, SameStream, Zenon
  <1>6. \A m, g : Seen(m, g)' = Seen(m, g)
    BY <1>1 DEF Seen
  <1>7. ClockLead' /\ StampsOrdered' /\ ObservedBehind' /\ Retained' /\ NoResurrection'
    BY <1>0, <1>1, <1>5, <1>6, Zenon DEF ClockLead, StampsOrdered, ObservedBehind, Retained,
                                  NoResurrection
  <1>8. NoSelfLink'
    BY <1>0, <1>3, <1>4 DEF NoSelfLink
  <1>9. OffsetMatchesClock'
    BY <1>0, <1>1, <1>4, <1>5, <1>6 DEF OffsetMatchesClock, Splits
  <1>10. SnapshotClock'
    <2>1. vectorClock[p] \in VectorClocks /\ p \in DOMAIN vectorClock[p]
      BY <1>0 DEF TypeOK
    <2>2. Below(vectorClock[p], vectorClock[p])
      BY <2>1, BelowRefl
    <2>3. \A n \in Gid : Below(ovc[n][p], vectorClock[p]) /\ Seen(n, p) =< Seen(p, p)
      BY <1>0 DEF ObservedBehind, ClockLead
    <2>4. Len(stream[p]) \in Nat /\ Updates(p) \subseteq 1..Len(stream[p])
      BY <1>0, StampType
    <2>5. \A i \in Updates(p) : i =< Len(stream[p]) /\ OwnStamp(p, i) =< Seen(p, p)
      BY <1>0, <2>4 DEF StampsOrdered, OwnStamp, Below, Seen
    <2>6. Splits(p, saved.off, get_vcu_from_vc(saved.vc, p))
      BY <1>2, <2>4, <2>5 DEF Splits, Seen
    <2>7. \A n \in waiting : /\ Below(saved.vc, vectorClock[p])
                             /\ Below(ovc[n][p], saved.vc)
                             /\ p \in DOMAIN saved.vc
                             /\ Seen(n, p) =< get_vcu_from_vc(saved.vc, p)
      BY <1>2, <1>3, <2>1, <2>2, <2>3 DEF Seen
    <2> SUFFICES ASSUME NEW n \in Gid, NEW q \in Gid, link'[n][q] \in TransferStates
                 PROVE  LET s == snapshot'[n][q]
                        IN  /\ Below(s.vc, vectorClock[q])
                            /\ Below(ovc[n][q], s.vc)
                            /\ q \in DOMAIN s.vc
                            /\ Seen(n, q) =< get_vcu_from_vc(s.vc, q)
                            /\ Splits(q, s.off, get_vcu_from_vc(s.vc, q))
      BY <1>1, <1>5, <1>6, Zenon DEF SnapshotClock, Splits
    <2>8. CASE q = p /\ n \in waiting
      BY <1>4, <2>6, <2>7, <2>8
    <2>9. CASE ~(q = p /\ n \in waiting)
      <3>1. link[n][q] \in TransferStates /\ snapshot'[n][q] = snapshot[n][q]
        BY <1>4, <2>9
      <3> QED
        BY <1>0, <3>1 DEF SnapshotClock
    <2> QED
      BY <2>8, <2>9
  <1>11. SnapshotValue'
    <2> SUFFICES ASSUME NEW n \in waiting, NEW q \in Gid, NEW i \in Deletes(q)
                 PROVE  /\ OwnStamp(q, i) =< get_vcu_from_vc(saved.vc, q) =>
                                Purged(Stamp(q, i), saved.val)
                        /\ OwnStamp(q, i) =< Seen(n, q) =>
                                Below(Stamp(q, i), tomb[n]) \/ Purged(Stamp(q, i), saved.val)
      <3> SUFFICES ASSUME NEW n \in Gid, NEW k \in Gid, NEW q \in Gid, NEW i \in Deletes(q),
                          link'[n][k] \in {"MERGE_START", "MERGE"}
                   PROVE  LET s == snapshot'[n][k]
                          IN  /\ OwnStamp(q, i) =< get_vcu_from_vc(s.vc, q) =>
                                      Purged(Stamp(q, i), s.val)
                              /\ OwnStamp(q, i) =< Seen(n, q) =>
                                      Below(Stamp(q, i), tomb[n]) \/ Purged(Stamp(q, i), s.val)
        BY <1>1, <1>5, <1>6, ZenonT(30) DEF SnapshotValue
      <3>1. CASE k = p /\ n \in waiting
        BY <1>4, <3>1
      <3>2. CASE ~(k = p /\ n \in waiting)
        <4>1. link[n][k] \in {"MERGE_START", "MERGE"} /\ snapshot'[n][k] = snapshot[n][k]
          BY <1>4, <3>2
        <4> QED
          BY <1>0, <4>1 DEF SnapshotValue
      <3> QED
        BY <3>1, <3>2, Zenon
    <2>1. OwnStamp(q, i) =< Seen(p, q) => Purged(Stamp(q, i), saved.val)
      <3>1. OwnStamp(q, i) =< Seen(p, q) => Purged(Stamp(q, i), val[p])
        BY <1>0 DEF NoResurrection
      <3>2. val[p] \in VectorClocks
        BY <1>0 DEF TypeOK
      <3> QED
        BY <1>2, <3>1, <3>2, FilterValueUnits DEF Purged
    <2>2. Below(Stamp(q, i), vectorClock[p]) => OwnStamp(q, i) =< Seen(p, q)
      BY DEF Below, OwnStamp, Seen
    <2>3. OwnStamp(q, i) =< Seen(n, q) =>
            Below(Stamp(q, i), tomb[n]) \/ Below(Stamp(q, i), vectorClock[p])
      BY <1>0, <1>3 DEF Retained
    <2> QED
      BY <1>2, <2>1, <2>2, <2>3 DEF Seen
  <1>12. SnapshotDeletes'
    <2> SUFFICES ASSUME NEW n \in waiting, NEW i \in Deletes(p), Seen(n, p) < OwnStamp(p, i)
                 PROVE  Below(Stamp(p, i), saved.tomb)
      <3> SUFFICES ASSUME NEW n \in Gid, NEW q \in Gid, NEW i \in Deletes(q),
                          i =< snapshot'[n][q].off, Seen(n, q) < OwnStamp(q, i)
                   PROVE  /\ link'[n][q] \in {"MERGE_START", "MERGE", "MERGE_DEL"} =>
                                  Below(Stamp(q, i), snapshot'[n][q].tomb)
                          /\ link'[n][q] = "MERGE_END" =>
                                  Below(Stamp(q, i), tomb[n]) /\ Purged(Stamp(q, i), val[n])
        BY <1>1, <1>5, <1>6, Zenon DEF SnapshotDeletes
      <3>1. CASE q = p /\ n \in waiting
        BY <1>4, <3>1, Zenon
      <3>2. CASE ~(q = p /\ n \in waiting)
        <4>1. link'[n][q] = link[n][q] /\ snapshot'[n][q] = snapshot[n][q]
          BY <1>4, <3>2
        <4> QED
          BY <1>0, <4>1, Zenon DEF SnapshotDeletes
      <3> QED
        BY <3>1, <3>2, Zenon
    <2>0. /\ OwnStamp(p, i) \in Nat /\ OwnStamp(p, i) =< Seen(p, p)
          /\ Seen(n, p) \in Nat
      BY <1>0, <1>3, DeleteFacts, SeenType
    <2>1. ~Below(Stamp(p, i), vectorClock[n])
      BY <2>0 DEF Below, OwnStamp, Seen
    <2>2. Below(Stamp(p, i), tomb[p])
      BY <1>0, <1>3, <2>0, <2>1 DEF Retained
    <2>3. OwnStamp(p, i) =< get_vcu_from_vc(tomb[p], p)
      BY <2>2 DEF Below, OwnStamp
    <2>4. DOMAIN min_vc = {p} /\ min_vc[p] \in Nat /\ min_vc[p] =< Seen(n, p)
      BY <1>0, <1>3, LeastFilterBound, Zenon DEF min_vc
    <2>5. get_vcu_from_vc(tomb[p], p) \in Nat
      BY <1>0, UnitType DEF TypeOK
    <2>6. get_vcu_from_vc(tomb[p], p) > min_vc[p]
      BY <2>0, <2>3, <2>4, <2>5
    <2>7. saved.tomb = tomb[p]
      BY <1>2, <2>4, <2>6 DEF filterTombstone
    <2> QED
      BY <2>2, <2>7
  <1> QED
    BY <1>7, <1>8, <1>9, <1>10, <1>11, <1>12 DEF IndInv

\* crdtMergeStartCommand adds a unit at most, and that one is zero.
LEMMA MergeStartSeen ==
    ASSUME TypeOK, NEW n \in Gid, NEW p \in Gid, MergeStart(n, p), NEW m \in Gid, NEW g \in Gid
    PROVE  Seen(m, g)' = Seen(m, g)
  <1>1. vectorClock[n] \in VectorClocks /\ 0 \in 0..MaxClock
    BY MaxClockAssumption DEF TypeOK
  <1> DEFINE added == addVectorClockUnit(vectorClock[n], p, 0)
  <1>2. /\ get_vcu_from_vc(added, p) = 0
        /\ \A h : h # p => get_vcu_from_vc(added, h) = get_vcu_from_vc(vectorClock[n], h)
    BY <1>1, AddUnit, Zenon
  <1>3. /\ vectorClock'[n] = IF get_vcu_from_vc(vectorClock[n], p) = 0
                             THEN added ELSE vectorClock[n]
        /\ \A k \in Gid : k # n => vectorClock'[k] = vectorClock[k]
    BY DEF TypeOK, MergeStart
  <1> HIDE DEF added
  <1>4. \A h : get_vcu_from_vc(vectorClock'[n], h) = get_vcu_from_vc(vectorClock[n], h)
    BY <1>2, <1>3
  <1> QED
    BY <1>3, <1>4 DEF Seen

\* CRDT.MERGE_START gives the site a unit for the peer, with clock zero.
LEMMA MergeStartStep ==
    ASSUME IndInv, TypeOK', NEW n \in Gid, NEW p \in Gid, MergeStart(n, p)
    PROVE  IndInv'
  <1>0. /\ TypeOK /\ SnapshotClock /\ SnapshotValue /\ SnapshotDeletes /\ NoSelfLink
        /\ StampsOrdered /\ ObservedBehind /\ Retained
    BY DEF IndInv
  <1>1. /\ link[n][p] = "MERGE_START"
        /\ SetLink(n, p, "MERGE")
        /\ vectorClock' = [vectorClock EXCEPT ![n] =
                IF get_vcu_from_vc(@, p) = 0 THEN addVectorClockUnit(@, p, 0) ELSE @]
        /\ UNCHANGED <<ovc, val, tomb, stream, reploff, snapshot, breaks>>
    BY DEF MergeStart
  <1>2. /\ link'[n][p] = "MERGE"
        /\ \A m, q \in Gid : <<m, q>> # <<n, p>> => link'[m][q] = link[m][q]
    BY <1>0, <1>1, SetLinkFacts DEF LinkStates, TransferStates
  <1>3. \A q : /\ Deletes(q)' = Deletes(q)
               /\ Updates(q)' = Updates(q)
               /\ \A i : Stamp(q, i)' = Stamp(q, i) /\ OwnStamp(q, i)' = OwnStamp(q, i)
    BY <1>1, SameStream
  <1>4. \A m, g \in Gid : Seen(m, g)' = Seen(m, g)
    BY <1>0, MergeStartSeen
  <1>5. \A a : \A m \in Gid : Below(a, vectorClock'[m]) <=> Below(a, vectorClock[m])
    BY <1>4 DEF Below, Seen
  <1>6. ClockLead' /\ StampsOrdered' /\ ObservedBehind' /\ Retained' /\ NoResurrection'
    BY <1>1, <1>3, <1>4, <1>5, Zenon DEF IndInv, ClockLead, StampsOrdered, ObservedBehind, Retained,
                                  NoResurrection
  <1>7. NoSelfLink'
    BY <1>0, <1>1, <1>2, Zenon DEF NoSelfLink
  <1>8. OffsetMatchesClock'
    BY <1>1, <1>2, <1>3, <1>4 DEF IndInv, OffsetMatchesClock, Splits
  <1>9. SnapshotClock'
    <2> SUFFICES ASSUME NEW m \in Gid, NEW q \in Gid, link'[m][q] \in TransferStates
                 PROVE  LET s == snapshot[m][q]
                        IN  /\ Below(s.vc, vectorClock[q])
                            /\ Below(ovc[m][q], s.vc)
                            /\ q \in DOMAIN s.vc
                            /\ Seen(m, q) =< get_vcu_from_vc(s.vc, q)
                            /\ Splits(q, s.off, get_vcu_from_vc(s.vc, q))
      BY <1>1, <1>3, <1>4, <1>5, Zenon DEF SnapshotClock, Splits
    <2>1. link[m][q] \in TransferStates
      BY <1>1, <1>2, Zenon DEF TransferStates
    <2> QED
      BY <1>0, <2>1, Zenon DEF SnapshotClock
  <1>10. SnapshotValue'
    <2>1. \A m, q \in Gid : link'[m][q] \in {"MERGE_START", "MERGE"} =>
                            link[m][q] \in {"MERGE_START", "MERGE"}
      BY <1>1, <1>2, Zenon
    <2> QED
      BY <1>0, <1>1, <1>3, <1>4, <2>1, ZenonT(30) DEF SnapshotValue
  <1>11. SnapshotDeletes'
    <2>1. \A m, q \in Gid : /\ link'[m][q] \in {"MERGE_START", "MERGE", "MERGE_DEL"} =>
                               link[m][q] \in {"MERGE_START", "MERGE", "MERGE_DEL"}
                            /\ link'[m][q] = "MERGE_END" => link[m][q] = "MERGE_END"
      BY <1>1, <1>2, Zenon
    <2> QED
      BY <1>0, <1>1, <1>3, <1>4, <2>1, ZenonT(30) DEF SnapshotDeletes
  <1> QED
    BY <1>6, <1>7, <1>8, <1>9, <1>10, <1>11 DEF IndInv

\* The clocks, stamps and offsets do not change when a snapshot moves on.
LEMMA TransferFrame ==
    ASSUME IndInv, NEW n \in Gid, NEW p \in Gid, link[n][p] \in TransferStates,
           NEW state \in TransferStates, SetLink(n, p, state),
           UNCHANGED <<vectorClock, ovc, stream, reploff, snapshot>>
    PROVE  /\ ClockLead' /\ NoSelfLink' /\ StampsOrdered'
           /\ OffsetMatchesClock' /\ ObservedBehind' /\ SnapshotClock'
           /\ link'[n][p] = state
           /\ \A m, q \in Gid : <<m, q>> # <<n, p>> => link'[m][q] = link[m][q]
           /\ \A q : /\ Deletes(q)' = Deletes(q)
                     /\ \A i : Stamp(q, i)' = Stamp(q, i) /\ OwnStamp(q, i)' = OwnStamp(q, i)
           /\ \A m, g : Seen(m, g)' = Seen(m, g)
  <1>1. /\ link'[n][p] = state
        /\ \A m, q \in Gid : <<m, q>> # <<n, p>> => link'[m][q] = link[m][q]
    BY SetLinkFacts, Zenon DEF IndInv, LinkStates
  <1>2. \A q : /\ Deletes(q)' = Deletes(q)
               /\ Updates(q)' = Updates(q)
               /\ \A i : Stamp(q, i)' = Stamp(q, i) /\ OwnStamp(q, i)' = OwnStamp(q, i)
    BY SameStream
  <1>3. \A m, g : Seen(m, g)' = Seen(m, g)
    BY DEF Seen
  <1>4. ClockLead' /\ StampsOrdered' /\ ObservedBehind'
    BY <1>2, <1>3, Zenon DEF IndInv, ClockLead, StampsOrdered, ObservedBehind
  <1>5. NoSelfLink'
    BY <1>1 DEF IndInv, NoSelfLink, TransferStates
  <1>6. OffsetMatchesClock'
    BY <1>1, <1>2, <1>3 DEF IndInv, OffsetMatchesClock, Splits, TransferStates
  <1>7. SnapshotClock'
    BY <1>1, <1>2, <1>3, Zenon DEF IndInv, SnapshotClock, Splits
  <1> QED
    BY <1>1, <1>2, <1>3, <1>4, <1>5, <1>6, <1>7, Zenon

\* CRDT.Merge brings a value that has lost what the site has seen deleted, or
\* that the tombstone of the site covers.
LEMMA MergeStep ==
    ASSUME IndInv, TypeOK', NEW n \in Gid, NEW p \in Gid, Merge(n, p)
    PROVE  IndInv'
  <1> DEFINE s == snapshot[n][p]
  <1>0. /\ TypeOK /\ StampsOrdered /\ Retained /\ SnapshotValue
        /\ SnapshotDeletes /\ NoResurrection
    BY DEF IndInv
  <1>1. /\ link[n][p] = "MERGE"
        /\ SetLink(n, p, "MERGE_DEL")
        /\ val' = [val EXCEPT ![n] = purge(tomb[n], merge(@, s.val))]
        /\ UNCHANGED <<vectorClock, ovc, tomb, stream, reploff, snapshot, breaks>>
    BY Zenon DEF Merge
  <1>2. /\ ClockLead' /\ NoSelfLink' /\ StampsOrdered'
        /\ OffsetMatchesClock' /\ ObservedBehind' /\ SnapshotClock'
        /\ link'[n][p] = "MERGE_DEL"
        /\ \A m, q \in Gid : <<m, q>> # <<n, p>> => link'[m][q] = link[m][q]
        /\ \A q : /\ Deletes(q)' = Deletes(q)
                  /\ \A i : Stamp(q, i)' = Stamp(q, i) /\ OwnStamp(q, i)' = OwnStamp(q, i)
        /\ \A m, g : Seen(m, g)' = Seen(m, g)
    BY <1>1, TransferFrame, Zenon DEF TransferStates
  <1>3. val[n] \in VectorClocks /\ tomb[n] \in VectorClocks /\ s.val \in VectorClocks
    BY <1>0, SnapshotType, Zenon DEF TypeOK
  <1>4. merge(val[n], s.val) \in VectorClocks
    BY <1>3, MergeUnits, Zenon DEF merge
  <1>5. /\ val'[n] = purge(tomb[n], merge(val[n], s.val))
        /\ \A m \in Gid : m # n => val'[m] = val[m]
    BY <1>0, <1>1 DEF TypeOK
  <1> HIDE DEF s
  <1>6. Retained'
    BY <1>0, <1>1, <1>2, Zenon DEF Retained
  <1>7. SnapshotValue'
    BY <1>0, <1>1, <1>2, ZenonT(30) DEF SnapshotValue
  <1>8. SnapshotDeletes'
    <2> SUFFICES ASSUME NEW m \in Gid, NEW q \in Gid, NEW i \in Deletes(q),
                        i =< snapshot[m][q].off, Seen(m, q) < OwnStamp(q, i)
                 PROVE  /\ link'[m][q] \in {"MERGE_START", "MERGE", "MERGE_DEL"} =>
                                Below(Stamp(q, i), snapshot[m][q].tomb)
                        /\ link'[m][q] = "MERGE_END" =>
                                Below(Stamp(q, i), tomb[m]) /\ Purged(Stamp(q, i), val'[m])
      BY <1>1, <1>2, Zenon DEF SnapshotDeletes
    <2>1. link'[m][q] \in {"MERGE_START", "MERGE", "MERGE_DEL"} =>
                link[m][q] \in {"MERGE_START", "MERGE", "MERGE_DEL"}
      BY <1>1, <1>2, Zenon
    <2>2. ASSUME link'[m][q] = "MERGE_END"
          PROVE  Below(Stamp(q, i), tomb[m]) /\ Purged(Stamp(q, i), val'[m])
      <3>1. link[m][q] = "MERGE_END"
        BY <1>1, <1>2, <2>2, Zenon
      <3>2. Below(Stamp(q, i), tomb[m]) /\ Purged(Stamp(q, i), val[m])
        BY <1>0, <3>1, Zenon DEF SnapshotDeletes
      <3>3. CASE m = n
        BY <1>0, <1>3, <1>4, <1>5, <3>2, <3>3, DeleteCovered, Zenon
      <3>4. CASE m # n
        BY <1>5, <3>2, <3>4, Zenon
      <3> QED
        BY <3>2, <3>3, <3>4, Zenon
    <2> QED
      BY <1>0, <2>1, <2>2, Zenon DEF SnapshotDeletes
  <1>9. NoResurrection'
    <2> SUFFICES ASSUME NEW m \in Gid, NEW q \in Gid, NEW i \in Deletes(q),
                        OwnStamp(q, i) =< Seen(m, q)
                 PROVE  Purged(Stamp(q, i), val'[m])
      BY <1>2 DEF NoResurrection
    <2>0. Stamp(q, i) \in VectorClocks
      BY <1>0, DeleteFacts
    <2>1. Purged(Stamp(q, i), val[m])
      BY <1>0 DEF NoResurrection
    <2>2. CASE m = n /\ Below(Stamp(q, i), tomb[n])
      BY <1>0, <1>3, <1>4, <1>5, <2>2, DeleteCovered
    <2>3. CASE m = n /\ Purged(Stamp(q, i), s.val)
      <3>1. Purged(Stamp(q, i), merge(val[n], s.val))
        BY <1>3, <2>0, <2>1, <2>3, PurgedMerge
      <3> QED
        BY <1>3, <1>4, <1>5, <2>0, <2>3, <3>1, PurgedPurge, Zenon
    <2>4. CASE m # n
      BY <1>5, <2>1, <2>4
    <2>5. m = n => Below(Stamp(q, i), tomb[n]) \/ Purged(Stamp(q, i), s.val)
      BY <1>0, <1>1, Zenon DEF SnapshotValue, s
    <2> QED
      BY <2>2, <2>3, <2>4, <2>5, Zenon
  <1> QED
    BY <1>2, <1>6, <1>7, <1>8, <1>9, Zenon DEF IndInv

\* CRDT.Merge_Del brings every delete of the peer that the site lacks.
LEMMA MergeDelStep ==
    ASSUME IndInv, TypeOK', NEW n \in Gid, NEW p \in Gid, MergeDel(n, p)
    PROVE  IndInv'
  <1> DEFINE s == snapshot[n][p]
             t == merge(tomb[n], s.tomb)
  <1>0. /\ TypeOK /\ StampsOrdered /\ Retained /\ SnapshotValue
        /\ SnapshotDeletes /\ NoResurrection
    BY DEF IndInv
  <1>1. /\ link[n][p] = "MERGE_DEL"
        /\ SetLink(n, p, "MERGE_END")
        /\ tomb' = [tomb EXCEPT ![n] = t]
        /\ val' = [val EXCEPT ![n] = purge(tomb'[n], @)]
        /\ UNCHANGED <<vectorClock, ovc, stream, reploff, snapshot, breaks>>
    BY Zenon DEF MergeDel
  <1>2. /\ ClockLead' /\ NoSelfLink' /\ StampsOrdered'
        /\ OffsetMatchesClock' /\ ObservedBehind' /\ SnapshotClock'
        /\ link'[n][p] = "MERGE_END"
        /\ \A m, q \in Gid : <<m, q>> # <<n, p>> => link'[m][q] = link[m][q]
        /\ \A q : /\ Deletes(q)' = Deletes(q)
                  /\ \A i : Stamp(q, i)' = Stamp(q, i) /\ OwnStamp(q, i)' = OwnStamp(q, i)
        /\ \A m, g : Seen(m, g)' = Seen(m, g)
    BY <1>1, TransferFrame, Zenon DEF TransferStates
  <1>3. val[n] \in VectorClocks /\ tomb[n] \in VectorClocks /\ s.tomb \in VectorClocks
    BY <1>0, SnapshotType, Zenon DEF TypeOK
  <1>4. t \in VectorClocks
    BY <1>3, MergeUnits, Zenon DEF merge
  <1>5. \A a \in VectorClocks : Below(a, tomb[n]) \/ Below(a, s.tomb) => Below(a, t)
    BY <1>3, BelowMerge
  <1> HIDE DEF t
  <1>6. /\ tomb'[n] = t /\ val'[n] = purge(t, val[n])
        /\ \A m \in Gid : m # n => tomb'[m] = tomb[m] /\ val'[m] = val[m]
    BY <1>0, <1>1 DEF TypeOK
  <1>7. \A a \in VectorClocks : \A m \in Gid : Below(a, tomb[m]) => Below(a, tomb'[m])
    BY <1>5, <1>6
  <1>8. \A a \in VectorClocks : \A m \in Gid : Purged(a, val[m]) => Purged(a, val'[m])
    BY <1>3, <1>4, <1>6, PurgedPurge
  <1>9. \A q \in Gid : \A i \in Deletes(q) : Stamp(q, i) \in VectorClocks
    BY <1>0, DeleteFacts
  <1>10. Retained'
    <2> SUFFICES ASSUME NEW m \in Gid, NEW q \in Gid, NEW i \in Deletes(q),
                        OwnStamp(q, i) =< Seen(m, q)
                 PROVE  \/ Below(Stamp(q, i), tomb'[m])
                        \/ \A k \in Gid : Below(Stamp(q, i), vectorClock[k])
      <3>1. vectorClock' = vectorClock
        BY <1>1
      <3> QED
        BY <1>2, <3>1 DEF Retained
    <2>1. \/ Below(Stamp(q, i), tomb[m])
          \/ \A k \in Gid : Below(Stamp(q, i), vectorClock[k])
      BY <1>0 DEF Retained
    <2> QED
      BY <1>7, <1>9, <2>1
  <1>11. SnapshotValue'
    <2> SUFFICES ASSUME NEW m \in Gid, NEW g \in Gid, NEW q \in Gid, NEW i \in Deletes(q),
                        link'[m][g] \in {"MERGE_START", "MERGE"}
                 PROVE  LET r == snapshot[m][g]
                        IN  /\ OwnStamp(q, i) =< get_vcu_from_vc(r.vc, q) =>
                                    Purged(Stamp(q, i), r.val)
                            /\ OwnStamp(q, i) =< Seen(m, q) =>
                                    Below(Stamp(q, i), tomb'[m]) \/ Purged(Stamp(q, i), r.val)
      <3>1. snapshot' = snapshot
        BY <1>1, Zenon
      <3> QED
        BY <1>2, <3>1, ZenonT(30) DEF SnapshotValue
    <2>1. link[m][g] \in {"MERGE_START", "MERGE"}
      BY <1>2, Zenon
    <2>2. Below(Stamp(q, i), tomb[m]) => Below(Stamp(q, i), tomb'[m])
      BY <1>7, <1>9, Zenon
    <2> QED
      BY <1>0, <2>1, <2>2, Zenon DEF SnapshotValue
  <1>12. SnapshotDeletes'
    <2> SUFFICES ASSUME NEW m \in Gid, NEW q \in Gid, NEW i \in Deletes(q),
                        i =< snapshot[m][q].off, Seen(m, q) < OwnStamp(q, i)
                 PROVE  /\ link'[m][q] \in {"MERGE_START", "MERGE", "MERGE_DEL"} =>
                                Below(Stamp(q, i), snapshot[m][q].tomb)
                        /\ link'[m][q] = "MERGE_END" =>
                                Below(Stamp(q, i), tomb'[m]) /\ Purged(Stamp(q, i), val'[m])
      BY <1>1, <1>2, ZenonT(30) DEF SnapshotDeletes
    <2>1. CASE <<m, q>> = <<n, p>>
      <3>1. Below(Stamp(p, i), s.tomb)
        BY <1>0, <1>1, <2>1, Zenon DEF SnapshotDeletes
      <3>2. Below(Stamp(p, i), t)
        BY <1>5, <1>9, <2>1, <3>1
      <3>3. Purged(Stamp(p, i), purge(t, val[n]))
        BY <1>0, <1>3, <1>4, <2>1, <3>2, DeleteCovered
      <3> QED
        BY <1>2, <1>6, <2>1, <3>2, <3>3, ZenonT(30)
    <2>2. CASE <<m, q>> # <<n, p>>
      BY <1>0, <1>2, <1>7, <1>8, <1>9, <2>2, Zenon DEF SnapshotDeletes
    <2> QED
      BY <2>1, <2>2, Zenon
  <1>13. NoResurrection'
    BY <1>0, <1>2, <1>8, <1>9, Zenon DEF NoResurrection
  <1> QED
    BY <1>2, <1>10, <1>11, <1>12, <1>13, Zenon DEF IndInv

\* CRDT.MERGE_END: what the site now claims to have seen, its tombstone and
\* its value already hold.
LEMMA MergeEndStep ==
    ASSUME IndInv, TypeOK', NEW n \in Gid, NEW p \in Gid, MergeEnd(n, p)
    PROVE  IndInv'
  <1> DEFINE s == snapshot[n][p]
  <1>0. /\ TypeOK /\ ClockLead /\ NoSelfLink /\ StampsOrdered
        /\ OffsetMatchesClock /\ ObservedBehind /\ Retained
        /\ SnapshotClock /\ SnapshotValue /\ SnapshotDeletes /\ NoResurrection
    BY DEF IndInv
  <1>1. /\ link[n][p] = "MERGE_END"
        /\ SetLink(n, p, "CONNECTED")
        /\ ovc' = [ovc EXCEPT ![n][p] = s.vc]
        /\ reploff' = [reploff EXCEPT ![n][p] = s.off]
        /\ snapshot' = [snapshot EXCEPT ![n][p] = NoSnapshot]
        /\ UNCHANGED <<val, tomb, stream, breaks>>
    BY DEF MergeEnd
  <1>2. /\ n # p
        /\ Splits(p, s.off, get_vcu_from_vc(s.vc, p))
        /\ Below(s.vc, vectorClock[p])
        /\ s.vc \in VectorClocks
        /\ Seen(n, p)' = get_vcu_from_vc(s.vc, p)
        /\ Seen(n, p) =< Seen(n, p)'
        /\ Seen(n, p)' =< Seen(p, p)
        /\ Seen(n, p)' \in Nat
        /\ \A m, g \in Gid : <<m, g>> # <<n, p>> => Seen(m, g)' = Seen(m, g)
        /\ \A a \in VectorClocks : \A m \in Gid :
                Below(a, vectorClock[m]) => Below(a, vectorClock'[m])
    BY MergeEndFrame, Zenon
  <1>3. /\ link'[n][p] = "CONNECTED"
        /\ \A m, q \in Gid : <<m, q>> # <<n, p>> => link'[m][q] = link[m][q]
    BY <1>0, <1>1, SetLinkFacts DEF LinkStates
  <1>4. /\ ovc'[n][p] = s.vc /\ reploff'[n][p] = s.off
        /\ \A m, q \in Gid : <<m, q>> # <<n, p>> =>
              /\ ovc'[m][q] = ovc[m][q]
              /\ reploff'[m][q] = reploff[m][q]
              /\ snapshot'[m][q] = snapshot[m][q]
    <2>1. /\ ovc \in [Gid -> [Gid -> VectorClocks]]
          /\ reploff \in [Gid -> [Gid -> Nat]]
          /\ snapshot \in [Gid -> [Gid -> Snapshots]]
      BY <1>0 DEF TypeOK
    <2> HIDE DEF s
    <2>2. /\ ovc'[n][p] = s.vc
          /\ \A m, q \in Gid : <<m, q>> # <<n, p>> => ovc'[m][q] = ovc[m][q]
      BY <1>1, <2>1
    <2>3. /\ reploff'[n][p] = s.off
          /\ \A m, q \in Gid : <<m, q>> # <<n, p>> => reploff'[m][q] = reploff[m][q]
      BY <1>1, <2>1, Zenon
    <2>4. \A m, q \in Gid : <<m, q>> # <<n, p>> => snapshot'[m][q] = snapshot[m][q]
      BY <1>1, <2>1
    <2> QED
      BY <2>2, <2>3, <2>4
  <1>5. \A q : /\ Deletes(q)' = Deletes(q)
               /\ Updates(q)' = Updates(q)
               /\ \A i : Stamp(q, i)' = Stamp(q, i) /\ OwnStamp(q, i)' = OwnStamp(q, i)
    BY <1>1, SameStream
  <1>6. /\ \A q \in Gid : \A i \in 1..Len(stream[q]) : Stamp(q, i) \in VectorClocks
        /\ \A m, q \in Gid : ovc[m][q] \in VectorClocks
        /\ \A m, q \in Gid : snapshot[m][q].vc \in VectorClocks
    <2>1. ovc \in [Gid -> [Gid -> VectorClocks]]
      BY <1>0 DEF TypeOK
    <2>2. \A q \in Gid : \A i \in 1..Len(stream[q]) : Stamp(q, i) \in VectorClocks
      BY <1>0, StampType
    <2>3. \A m, q \in Gid : snapshot[m][q].vc \in VectorClocks
      BY <1>0, SnapshotType
    <2> QED
      BY <2>1, <2>2, <2>3
  <1>7. \A m, g \in Gid : Seen(m, g) \in Nat
    BY <1>0, SeenType
  <1>8. \A i \in Deletes(p) : OwnStamp(p, i) =< Seen(n, p)' =>
            \/ OwnStamp(p, i) =< Seen(n, p)
            \/ Below(Stamp(p, i), tomb[n]) /\ Purged(Stamp(p, i), val[n])
    <2> SUFFICES ASSUME NEW i \in Deletes(p), OwnStamp(p, i) =< Seen(n, p)',
                        ~ (OwnStamp(p, i) =< Seen(n, p))
                 PROVE  Below(Stamp(p, i), tomb[n]) /\ Purged(Stamp(p, i), val[n])
      OBVIOUS
    <2>1. i \in Updates(p) /\ OwnStamp(p, i) \in Nat
      BY <1>0, DeleteFacts
    <2>2. i =< s.off /\ Seen(n, p) < OwnStamp(p, i)
      BY <1>2, <1>7, <2>1 DEF Splits
    <2> QED
      BY <1>0, <1>1, <2>2 DEF SnapshotDeletes
  <1> HIDE DEF s
  <1>9. ClockLead'
    <2> SUFFICES ASSUME NEW m \in Gid, NEW g \in Gid PROVE Seen(m, g)' =< Seen(g, g)'
      BY DEF ClockLead
    <2>1. Seen(m, g) =< Seen(g, g) /\ Seen(g, g)' = Seen(g, g)
      BY <1>0, <1>2, Zenon DEF ClockLead
    <2> QED
      BY <1>2, <2>1, Zenon
  <1>10. NoSelfLink'
    BY <1>0, <1>2, <1>3 DEF NoSelfLink
  <1>11. StampsOrdered'
    BY <1>0, <1>1, <1>2, <1>5, <1>6 DEF StampsOrdered
  <1>12. OffsetMatchesClock'
    <2> SUFFICES ASSUME NEW m \in Gid, NEW q \in Gid, link'[m][q] \in {"CACHED", "CONNECTED"}
                 PROVE  Splits(q, reploff'[m][q], Seen(m, q)')
      BY <1>1, <1>5 DEF OffsetMatchesClock, Splits
    <2>1. CASE <<m, q>> = <<n, p>>
      BY <1>2, <1>4, <2>1
    <2>2. CASE <<m, q>> # <<n, p>>
      BY <1>0, <1>2, <1>3, <1>4, <2>2, Zenon DEF OffsetMatchesClock
    <2> QED
      BY <2>1, <2>2
  <1>13. ObservedBehind'
    <2> SUFFICES ASSUME NEW m \in Gid, NEW q \in Gid PROVE Below(ovc'[m][q], vectorClock'[q])
      BY DEF ObservedBehind
    <2>1. CASE <<m, q>> = <<n, p>>
      BY <1>2, <1>4, <2>1, Zenon
    <2>2. CASE <<m, q>> # <<n, p>>
      BY <1>0, <1>2, <1>4, <1>6, <2>2, Zenon DEF ObservedBehind
    <2> QED
      BY <2>1, <2>2
  <1>14. Retained'
    <2> SUFFICES ASSUME NEW m \in Gid, NEW q \in Gid, NEW i \in Deletes(q),
                        OwnStamp(q, i) =< Seen(m, q)'
                 PROVE  \/ Below(Stamp(q, i), tomb[m])
                        \/ \A k \in Gid : Below(Stamp(q, i), vectorClock'[k])
      BY <1>1, <1>5 DEF Retained
    <2>1. Stamp(q, i) \in VectorClocks
      BY <1>0, DeleteFacts
    <2>2. CASE OwnStamp(q, i) =< Seen(m, q)
      BY <1>0, <1>2, <2>1, <2>2, Zenon DEF Retained
    <2>3. CASE ~ (OwnStamp(q, i) =< Seen(m, q))
      BY <1>2, <1>8, <2>3, Zenon
    <2> QED
      BY <2>2, <2>3
  <1>15. SnapshotClock'
    <2> SUFFICES ASSUME NEW m \in Gid, NEW q \in Gid, link'[m][q] \in TransferStates
                 PROVE  LET u == snapshot'[m][q]
                        IN  /\ Below(u.vc, vectorClock'[q])
                            /\ Below(ovc'[m][q], u.vc)
                            /\ q \in DOMAIN u.vc
                            /\ Seen(m, q)' =< get_vcu_from_vc(u.vc, q)
                            /\ Splits(q, u.off, get_vcu_from_vc(u.vc, q))
      BY <1>1, <1>5, Zenon DEF SnapshotClock, Splits
    <2>1. <<m, q>> # <<n, p>>
      BY <1>3 DEF TransferStates
    <2> QED
      BY <1>0, <1>2, <1>3, <1>4, <1>6, <2>1, ZenonT(30) DEF SnapshotClock
  <1>16. SnapshotValue'
    <2> SUFFICES ASSUME NEW m \in Gid, NEW r \in Gid, NEW q \in Gid, NEW i \in Deletes(q),
                        link'[m][r] \in {"MERGE_START", "MERGE"}
                 PROVE  LET u == snapshot'[m][r]
                        IN  /\ OwnStamp(q, i) =< get_vcu_from_vc(u.vc, q) =>
                                    Purged(Stamp(q, i), u.val)
                            /\ OwnStamp(q, i) =< Seen(m, q)' =>
                                    Below(Stamp(q, i), tomb[m]) \/ Purged(Stamp(q, i), u.val)
      BY <1>1, <1>5, ZenonT(30) DEF SnapshotValue
    <2>1. <<m, r>> # <<n, p>>
      BY <1>3
    <2>2. snapshot'[m][r] = snapshot[m][r] /\ link'[m][r] = link[m][r]
      BY <1>3, <1>4, <2>1
    <2>3. OwnStamp(q, i) =< Seen(m, q)' => OwnStamp(q, i) =< Seen(m, q) \/ Below(Stamp(q, i), tomb[m])
      BY <1>2, <1>8, Zenon
    <2> QED
      BY <1>0, <2>2, <2>3, Zenon DEF SnapshotValue
  <1>17. SnapshotDeletes'
    <2> SUFFICES ASSUME NEW m \in Gid, NEW q \in Gid, NEW i \in Deletes(q),
                        i =< snapshot'[m][q].off, Seen(m, q)' < OwnStamp(q, i)
                 PROVE  /\ link'[m][q] \in {"MERGE_START", "MERGE", "MERGE_DEL"} =>
                                Below(Stamp(q, i), snapshot'[m][q].tomb)
                        /\ link'[m][q] = "MERGE_END" =>
                                Below(Stamp(q, i), tomb[m]) /\ Purged(Stamp(q, i), val[m])
      BY <1>1, <1>5 DEF SnapshotDeletes
    <2>1. CASE <<m, q>> = <<n, p>>
      BY <1>3, <2>1, Zenon
    <2>2. CASE <<m, q>> # <<n, p>>
      BY <1>0, <1>2, <1>3, <1>4, <2>2, ZenonT(30) DEF SnapshotDeletes
    <2> QED
      BY <2>1, <2>2, Zenon
  <1>18. NoResurrection'
    <2> SUFFICES ASSUME NEW m \in Gid, NEW q \in Gid, NEW i \in Deletes(q),
                        OwnStamp(q, i) =< Seen(m, q)'
                 PROVE  Purged(Stamp(q, i), val[m])
      BY <1>1, <1>5 DEF NoResurrection
    <2>1. CASE OwnStamp(q, i) =< Seen(m, q)
      BY <1>0, <2>1 DEF NoResurrection
    <2>2. CASE ~ (OwnStamp(q, i) =< Seen(m, q))
      BY <1>2, <1>8, <2>2, Zenon
    <2> QED
      BY <2>1, <2>2
  <1> QED
    BY <1>0, <1>9, <1>10, <1>11, <1>12, <1>13, <1>14, <1>15, <1>16, <1>17, <1>18 DEF IndInv

\* The steps of links that move no data, and the collection of tombstones.
LEMMA IdleHistory ==
    ASSUME IndInv, HistoryInv, NEW n \in Gid, NEW p \in Gid,
           \/ Gc(n) \/ ApplyOvc(n, p) \/ Break(n, p)
           \/ PsyncContinue(n, p) \/ PsyncFull(n, p) \/ MergeStart(n, p)
    PROVE  HistoryInv'
  <1>0. TypeOK
    BY DEF IndInv
  <1>1. CASE Gc(n) \/ ApplyOvc(n, p)
    <2>1. /\ UNCHANGED <<vectorClock, val, stream, link, snapshot>>
          /\ tomb' = [tomb EXCEPT ![n] = NullVectorClock] \/ tomb' = tomb
      BY <1>1, Zenon DEF Gc, ApplyOvc
    <2>2. \A m \in Gid : tomb'[m] \in {tomb[m], NullVectorClock}
      BY <1>0, <2>1 DEF TypeOK
    <2>3. \A m, q \in Gid : Seen(m, q)' = Seen(m, q)
      BY <2>1 DEF Seen
    <2> QED
      BY <2>1, <2>2, <2>3, StillHistory, Zenon
  <1>2. CASE Break(n, p) \/ PsyncContinue(n, p) \/ PsyncFull(n, p)
    <2>1. PICK state \in {"CONNECT", "CACHED", "WAIT_BGSAVE", "CONNECTED"} : SetLink(n, p, state)
      BY <1>2 DEF Break, PsyncContinue, PsyncFull
    <2>2. /\ UNCHANGED <<vectorClock, val, stream, tomb>>
          /\ snapshot' = [snapshot EXCEPT ![n][p] = NoSnapshot] \/ snapshot' = snapshot
      BY <1>2, Zenon DEF Break, PsyncContinue, PsyncFull
    <2>3. /\ link'[n][p] \notin TransferStates
          /\ \A m, q \in Gid : <<m, q>> # <<n, p>> => link'[m][q] = link[m][q]
      BY <1>0, <2>1, SetLinkFacts, Zenon DEF LinkStates, TransferStates
    <2>4. \A m, q \in Gid : snapshot'[m][q] # snapshot[m][q] =>
                <<m, q>> = <<n, p>> /\ snapshot'[m][q] = NoSnapshot
      BY <1>0, <2>2, SMTT(20) DEF TypeOK
    <2>5. \A m, q \in Gid : Seen(m, q)' = Seen(m, q)
      BY <2>2 DEF Seen
    <2> QED
      BY <2>2, <2>3, <2>4, <2>5, StillHistory
  <1>3. CASE MergeStart(n, p)
    <2>1. /\ link[n][p] = "MERGE_START" /\ SetLink(n, p, "MERGE")
          /\ UNCHANGED <<val, tomb, stream, snapshot>>
      BY <1>3, Zenon DEF MergeStart
    <2>2. /\ link'[n][p] = "MERGE"
          /\ \A m, q \in Gid : <<m, q>> # <<n, p>> => link'[m][q] = link[m][q]
      BY <1>0, <2>1, SetLinkFacts, Zenon DEF LinkStates, TransferStates
    <2>3. \A m, q \in Gid : Seen(m, q)' = Seen(m, q)
      BY <1>0, <1>3, MergeStartSeen
    <2> QED
      BY <2>1, <2>2, <2>3, StillHistory, Zenon
  <1> QED
    BY <1>1, <1>2, <1>3
=============================================================================
