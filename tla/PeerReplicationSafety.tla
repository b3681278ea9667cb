----------------------- MODULE PeerReplicationSafety ------------------------
(***************************************************************************)
(* IndInv of PeerReplication is inductive, and so is HistoryInv with it.   *)
(* From them follow NoResurrection, StableBeforeGc and Convergence, for    *)
(* any finite set of sites and any bounds.                                 *)
(***************************************************************************)
EXTENDS PeerReplicationLocal, PeerReplicationMerge

-----------------------------------------------------------------------------
(***************************************************************************)
(* Steps of a link that move no data keep IndInv.                          *)
(***************************************************************************)

\* A link that breaks, or resumes, or waits for a snapshot, moves no data.
LEMMA LinkStep ==
    ASSUME IndInv, TypeOK', NEW n \in Gid, NEW p \in Gid, n # p,
           NEW state \in {"CONNECT", "CACHED", "WAIT_BGSAVE", "CONNECTED"},
           state \in {"CACHED", "CONNECTED"} => link[n][p] \in {"CACHED", "CONNECTED"},
           SetLink(n, p, state),
           \A m, q \in Gid : <<m, q>> # <<n, p>> => snapshot'[m][q] = snapshot[m][q],
           UNCHANGED <<vectorClock, ovc, val, tomb, stream, reploff>>
    PROVE  IndInv'
  <1>1. /\ link'[n][p] = state
        /\ \A m, q \in Gid : <<m, q>> # <<n, p>> => link'[m][q] = link[m][q]
    BY SetLinkFacts DEF IndInv, LinkStates
  <1>2. \A q : /\ Deletes(q)' = Deletes(q)
               /\ Updates(q)' = Updates(q)
               /\ \A i : Stamp(q, i)' = Stamp(q, i) /\ OwnStamp(q, i)' = OwnStamp(q, i)
    BY SameStream
  <1>3. \A m, g : Seen(m, g)' = Seen(m, g)
    BY DEF Seen
  <1>4. ClockLead' /\ StampsOrdered' /\ ObservedBehind' /\ Retained' /\ NoResurrection'
    BY <1>2, <1>3 DEF IndInv, ClockLead, StampsOrdered, ObservedBehind, Retained,
                      NoResurrection
  <1>5. NoSelfLink'
    <2>1. ASSUME NEW m \in Gid PROVE link'[m][m] = link[m][m]
      <3>1. <<m, m>> # <<n, p>>
        OBVIOUS
      <3> QED BY <1>1, <3>1
    <2>2. NoSelfLink
      BY DEF IndInv
    <2> QED BY <2>1, <2>2 DEF NoSelfLink
  <1>6. OffsetMatchesClock'
    BY <1>1, <1>2, <1>3 DEF IndInv, OffsetMatchesClock, Splits
  <1>10. ASSUME NEW m \in Gid, NEW q \in Gid, link'[m][q] \in TransferStates
         PROVE  /\ <<m, q>> # <<n, p>>
                /\ link'[m][q] = link[m][q] /\ snapshot'[m][q] = snapshot[m][q]
    BY <1>1, <1>10 DEF TransferStates
  <1>11. {"MERGE_START", "MERGE"} \subseteq TransferStates
         /\ {"MERGE_START", "MERGE", "MERGE_DEL"} \subseteq TransferStates
    BY DEF TransferStates
  <1>7. SnapshotClock'
    <2> SUFFICES ASSUME NEW m \in Gid, NEW q \in Gid, link'[m][q] \in TransferStates
                 PROVE  SnapshotClock!(m, q)!2'
      BY DEF SnapshotClock
    <2> QED BY <1>2, <1>3, <1>10 DEF IndInv, SnapshotClock, Splits
  <1>8. SnapshotValue'
    <2> SUFFICES ASSUME NEW m \in Gid, NEW q \in Gid, NEW r \in Gid, NEW i \in Deletes(r)',
                        link'[m][q] \in {"MERGE_START", "MERGE"}
                 PROVE  /\ OwnStamp(r, i)' =< get_vcu_from_vc(snapshot'[m][q].vc, r) =>
                               Purged(Stamp(r, i)', snapshot'[m][q].val)
                        /\ OwnStamp(r, i)' =< Seen(m, r)' =>
                               \/ Below(Stamp(r, i)', tomb'[m])
                               \/ Purged(Stamp(r, i)', snapshot'[m][q].val)
      BY Zenon DEF SnapshotValue
    <2>1. link[m][q] \in {"MERGE_START", "MERGE"} /\ snapshot'[m][q] = snapshot[m][q]
      BY <1>10, <1>11
    <2>2. i \in Deletes(r) /\ SnapshotValue /\ tomb' = tomb
      BY <1>2, Zenon DEF IndInv
    <2> QED BY <1>2, <1>3, <2>1, <2>2, Zenon DEF SnapshotValue
  <1>9. SnapshotDeletes'
    <2> SUFFICES ASSUME NEW m \in Gid, NEW q \in Gid, NEW i \in Deletes(q)',
                        i =< snapshot'[m][q].off, Seen(m, q)' < OwnStamp(q, i)'
                 PROVE  /\ link'[m][q] \in {"MERGE_START", "MERGE", "MERGE_DEL"} =>
                               Below(Stamp(q, i)', snapshot'[m][q].tomb)
                        /\ link'[m][q] = "MERGE_END" =>
                               Below(Stamp(q, i)', tomb'[m]) /\ Purged(Stamp(q, i)', val'[m])
      BY DEF SnapshotDeletes
    <2>1. i \in Deletes(q) /\ SnapshotDeletes /\ tomb' = tomb /\ val' = val
      BY <1>2 DEF IndInv
    <2>2. CASE link'[m][q] \in TransferStates
      BY <1>2, <1>3, <1>10, <2>1, <2>2, Zenon DEF SnapshotDeletes
    <2>3. CASE link'[m][q] \notin TransferStates
      BY <2>3 DEF TransferStates
    <2> QED BY <2>2, <2>3
  <1> QED
    BY <1>4, <1>5, <1>6, <1>7, <1>8, <1>9 DEF IndInv

-----------------------------------------------------------------------------
(***************************************************************************)
(* Commands of a peer's stream keep IndInv and HistoryInv.                 *)
(***************************************************************************)

\* What a write or delete of a peer does to the clocks: its own unit is the
\* next one of that peer, and it is the only one that the site now sees more of.
LEMMA ApplyFrame ==
    ASSUME IndInv, NEW n \in Gid, NEW p \in Gid, NEW op \in {"set", "del"},
           Receives(n, p, op), stream' = stream,
           vectorClock' = [vectorClock EXCEPT ![n] =
                updateProcessVectorClock(vectorClock[n], stream[p][reploff[n][p] + 1].vc, p, n)]
    PROVE  LET k == reploff[n][p] + 1
           IN  /\ n # p
               /\ k \in Updates(p)
               /\ Stamp(p, k) \in VectorClocks
               /\ OwnStamp(p, k) \in Nat
               /\ Seen(n, p) < OwnStamp(p, k)
               /\ OwnStamp(p, k) =< Seen(p, p)
               /\ Seen(n, p)' = OwnStamp(p, k)
               /\ \A m, g \in Gid : <<m, g>> # <<n, p>> => Seen(m, g)' = Seen(m, g)
               /\ \A m, g \in Gid : Seen(m, g) \in Nat
               /\ \A a \in VectorClocks : \A m \in Gid :
                    Below(a, vectorClock[m]) => Below(a, vectorClock'[m])
               /\ \A i \in Updates(p) : i =< k <=> OwnStamp(p, i) =< OwnStamp(p, k)
               /\ \A i \in Updates(p) : i # k /\ OwnStamp(p, i) =< OwnStamp(p, k)
                                        => OwnStamp(p, i) =< Seen(n, p)
  <1> DEFINE k == reploff[n][p] + 1
             clock == updateProcessVectorClock(vectorClock[n], stream[p][k].vc, p, n)
  <1>0. TypeOK /\ NoSelfLink /\ StampsOrdered /\ OffsetMatchesClock /\ ClockLead
    BY DEF IndInv
  <1>1. link[n][p] = "CONNECTED" /\ n # p
    BY <1>0 DEF Receives, NoSelfLink
  <1>2. /\ stream[p][k].vc \in VectorClocks
        /\ stream[p][k].op = op
        /\ reploff[n][p] \in Nat
        /\ k \in 1..Len(stream[p])
    BY <1>0, NextCommand, Zenon
  <1>3. k \in Updates(p)
    BY <1>2, Zenon DEF Updates
  <1>4. Stamp(p, k) = stream[p][k].vc
    BY DEF Stamp
  <1>5. vectorClock[n] \in VectorClocks
    BY <1>0 DEF TypeOK
  <1>6. vectorClock' = [vectorClock EXCEPT ![n] = clock]
    OBVIOUS
  <1>7. clock = mergeLogicClock(vectorClock[n], Stamp(p, k), p)
    BY <1>1, <1>4, Zenon DEF updateProcessVectorClock
  <1>8. /\ OwnStamp(p, k) \in Nat
        /\ Stamp(p, k) \in VectorClocks
        /\ Updates(p) \subseteq 1..Len(stream[p])
        /\ \A i \in Updates(p) : OwnStamp(p, i) \in Nat
    BY <1>0, <1>2, StampType
  <1> HIDE DEF clock, k
  <1>9. /\ get_vcu_from_vc(clock, p) = max(OwnStamp(p, k), Seen(n, p))
        /\ \A g : g # p => get_vcu_from_vc(clock, g) = Seen(n, g)
    <2> DEFINE src == Stamp(p, k)
    <2>1. src \in VectorClocks
      BY <1>8
    <2> HIDE DEF src
    <2>2. /\ get_vcu_from_vc(mergeLogicClock(vectorClock[n], src, p), p)
                = max(get_vcu_from_vc(src, p), get_vcu_from_vc(vectorClock[n], p))
          /\ \A g : g # p => get_vcu_from_vc(mergeLogicClock(vectorClock[n], src, p), g)
                             = get_vcu_from_vc(vectorClock[n], g)
      BY <1>5, <2>1, MergeOneUnit, Zenon
    <2> QED
      BY <1>7, <2>2 DEF OwnStamp, Seen, src
  <1>10. Splits(p, reploff[n][p], Seen(n, p))
    BY <1>0, <1>1 DEF OffsetMatchesClock
  <1>11. \A m, g \in Gid : Seen(m, g) \in Nat
    BY <1>0, SeenType
  <1>12. Seen(n, p) < OwnStamp(p, k)
    <2>1. ~(k =< reploff[n][p])
      BY <1>2 DEF k
    <2> QED
      BY <1>3, <1>8, <1>10, <1>11, <2>1 DEF Splits
  <1>13. vectorClock'[n] = clock /\ \A m \in Gid : m # n => vectorClock'[m] = vectorClock[m]
    BY <1>0, <1>6 DEF TypeOK
  <1>14. /\ Seen(n, p)' = OwnStamp(p, k)
         /\ \A m, g \in Gid : <<m, g>> # <<n, p>> => Seen(m, g)' = Seen(m, g)
    <2>1. max(OwnStamp(p, k), Seen(n, p)) = OwnStamp(p, k)
      BY <1>8, <1>11, <1>12 DEF max
    <2> QED
      BY <1>9, <1>13, <2>1 DEF Seen
  <1>15. \A m, g \in Gid : Seen(m, g) =< Seen(m, g)' /\ Seen(m, g)' \in Nat
    BY <1>8, <1>11, <1>12, <1>14, SMTT(20)
  <1>16. ASSUME NEW a \in VectorClocks, NEW m \in Gid, Below(a, vectorClock[m])
         PROVE  Below(a, vectorClock'[m])
    <2> SUFFICES ASSUME NEW g \in Gid PROVE get_vcu_from_vc(a, g) =< Seen(m, g)'
      BY DEF Below, Seen
    <2>1. get_vcu_from_vc(a, g) =< Seen(m, g) /\ get_vcu_from_vc(a, g) \in Nat
      BY <1>16, UnitType DEF Below, Seen
    <2> QED
      BY <1>11, <1>15, <2>1
  <1>17. ASSUME NEW i \in Updates(p) PROVE i =< k <=> OwnStamp(p, i) =< OwnStamp(p, k)
    <2>1. i \in Nat /\ k \in Nat /\ i \in 1..Len(stream[p])
      BY <1>2, <1>8
    <2>2. i < k => OwnStamp(p, i) < OwnStamp(p, k)
      BY <1>0, <1>3, <2>1 DEF StampsOrdered
    <2>3. k < i => OwnStamp(p, k) < OwnStamp(p, i)
      BY <1>0, <1>2, <2>1 DEF StampsOrdered
    <2> QED
      BY <1>8, <2>1, <2>2, <2>3
  <1>18. ASSUME NEW i \in Updates(p), i # k, OwnStamp(p, i) =< OwnStamp(p, k)
         PROVE  OwnStamp(p, i) =< Seen(n, p)
    <2>1. i =< k /\ i \in Nat
      BY <1>8, <1>17, <1>18
    <2>2. i =< reploff[n][p]
      BY <1>2, <1>18, <2>1 DEF k
    <2> QED
      BY <1>10, <2>2 DEF Splits
  <1>19. OwnStamp(p, k) =< Seen(p, p)
    BY <1>0, <1>2 DEF StampsOrdered, OwnStamp, Below, Seen
  <1> QED
    BY <1>1, <1>3, <1>8, <1>11, <1>12, <1>14, <1>16, <1>17, <1>18, <1>19, Zenon DEF k

\* A write or delete of a peer keeps the clocks, stamps and offsets in step.
LEMMA ApplyClocks ==
    ASSUME IndInv, TypeOK', NEW n \in Gid, NEW p \in Gid, NEW op \in {"set", "del"},
           Receives(n, p, op),
           vectorClock' = [vectorClock EXCEPT ![n] =
                updateProcessVectorClock(vectorClock[n], stream[p][reploff[n][p] + 1].vc, p, n)],
           UNCHANGED <<ovc, stream, link, snapshot>>
    PROVE  /\ ClockLead' /\ NoSelfLink' /\ StampsOrdered'
           /\ OffsetMatchesClock' /\ ObservedBehind' /\ SnapshotClock'
  <1> DEFINE k == reploff[n][p] + 1
  <1>0. /\ TypeOK /\ ClockLead /\ NoSelfLink /\ StampsOrdered
        /\ OffsetMatchesClock /\ ObservedBehind /\ SnapshotClock
    BY DEF IndInv
  <1>1. /\ n # p
        /\ k \in Updates(p)
        /\ OwnStamp(p, k) \in Nat
        /\ OwnStamp(p, k) =< Seen(p, p)
        /\ Seen(n, p)' = OwnStamp(p, k)
        /\ \A m, g \in Gid : <<m, g>> # <<n, p>> => Seen(m, g)' = Seen(m, g)
        /\ \A a \in VectorClocks : \A m \in Gid :
             Below(a, vectorClock[m]) => Below(a, vectorClock'[m])
        /\ \A i \in Updates(p) : i =< k <=> OwnStamp(p, i) =< OwnStamp(p, k)
    BY ApplyFrame, Zenon
  <1>2. \A q : /\ Updates(q)' = Updates(q)
               /\ \A i : Stamp(q, i)' = Stamp(q, i) /\ OwnStamp(q, i)' = OwnStamp(q, i)
    BY SameStream
  <1>3. \A q \in Gid : \A i \in 1..Len(stream[q]) : Stamp(q, i) \in VectorClocks
    BY <1>0, StampType
  <1>4. /\ k \in 1..Len(stream[p])
        /\ link[n][p] = "CONNECTED"
        /\ reploff'[n][p] = k
        /\ \A m, q \in Gid : <<m, q>> # <<n, p>> => reploff'[m][q] = reploff[m][q]
    BY <1>0, NextCommand, Zenon DEF Receives
  <1> HIDE DEF k
  <1>5. ClockLead'
    <2> SUFFICES ASSUME NEW m \in Gid, NEW g \in Gid PROVE Seen(m, g)' =< Seen(g, g)'
      BY DEF ClockLead
    <2>1. Seen(m, g) =< Seen(g, g)
      BY <1>0 DEF ClockLead
    <2>2. Seen(g, g)' = Seen(g, g)
      BY <1>1
    <2> QED
      BY <1>1, <2>1, <2>2
  <1>6. NoSelfLink'
    BY <1>0 DEF NoSelfLink
  <1>7. StampsOrdered'
    BY <1>0, <1>1, <1>2, <1>3, Zenon DEF StampsOrdered
  <1>8. OffsetMatchesClock'
    <2> SUFFICES ASSUME NEW m \in Gid, NEW q \in Gid, link[m][q] \in {"CACHED", "CONNECTED"}
                 PROVE  Splits(q, reploff'[m][q], Seen(m, q)')
      BY <1>2 DEF OffsetMatchesClock, Splits
    <2>1. CASE <<m, q>> = <<n, p>>
      <3>1. k =< Len(stream[p])
        BY <1>4
      <3>2. Splits(p, k, OwnStamp(p, k))
        BY <1>1, <3>1 DEF Splits
      <3> QED
        BY <1>1, <1>4, <2>1, <3>2, Zenon
    <2>2. CASE <<m, q>> # <<n, p>>
      BY <1>0, <1>1, <1>4, <2>2, Zenon DEF OffsetMatchesClock
    <2> QED
      BY <2>1, <2>2
  <1>9. ObservedBehind'
    <2>1. \A m, q \in Gid : ovc[m][q] \in VectorClocks
      BY <1>0 DEF TypeOK
    <2> QED
      BY <1>0, <1>1, <2>1 DEF ObservedBehind
  <1>10. SnapshotClock'
    <2> SUFFICES ASSUME NEW m \in Gid, NEW q \in Gid, link[m][q] \in TransferStates
                 PROVE  LET s == snapshot[m][q]
                        IN  /\ Below(s.vc, vectorClock'[q])
                            /\ Below(ovc[m][q], s.vc)
                            /\ q \in DOMAIN s.vc
                            /\ Seen(m, q)' =< get_vcu_from_vc(s.vc, q)
                            /\ Splits(q, s.off, get_vcu_from_vc(s.vc, q))
      BY <1>2, Zenon DEF SnapshotClock, Splits
    <2>1. <<m, q>> # <<n, p>>
      BY <1>4 DEF TransferStates
    <2>2. snapshot[m][q].vc \in VectorClocks
      BY <1>0, SnapshotType
    <2> QED
      BY <1>0, <1>1, <2>1, <2>2, Zenon DEF SnapshotClock
  <1> QED
    BY <1>5, <1>6, <1>7, <1>8, <1>9, <1>10, Zenon

\* A write of a peer does not revive what a delete covers: either the tombstone
\* is still there, or all have seen the delete and the write came after it.
LEMMA ApplySetStep ==
    ASSUME IndInv, TypeOK', NEW n \in Gid, NEW p \in Gid, ApplySet(n, p)
    PROVE  IndInv'
  <1> DEFINE k == reploff[n][p] + 1
             mono == getMonoVectorClock(Stamp(p, k), p)
  <1>0. /\ TypeOK /\ StampsOrdered /\ Retained /\ SnapshotValue
        /\ SnapshotDeletes /\ NoResurrection
    BY DEF IndInv
  <1>1. /\ Receives(n, p, "set")
        /\ vectorClock' = [vectorClock EXCEPT ![n] =
                updateProcessVectorClock(vectorClock[n], stream[p][reploff[n][p] + 1].vc, p, n)]
        /\ val' = [val EXCEPT ![n] = purge(tomb[n], merge(@, mono))]
        /\ UNCHANGED <<ovc, tomb, stream, link, snapshot, breaks>>
    BY DEF ApplySet, Stamp
  <1>2. /\ ClockLead' /\ NoSelfLink' /\ StampsOrdered'
        /\ OffsetMatchesClock' /\ ObservedBehind' /\ SnapshotClock'
    BY <1>1, ApplyClocks, Zenon
  <1>3. /\ n # p
        /\ k \in Updates(p)
        /\ Stamp(p, k) \in VectorClocks
        /\ OwnStamp(p, k) \in Nat
        /\ Seen(n, p) < OwnStamp(p, k)
        /\ Seen(n, p)' = OwnStamp(p, k)
        /\ \A m, g \in Gid : <<m, g>> # <<n, p>> => Seen(m, g)' = Seen(m, g)
        /\ \A m, g \in Gid : Seen(m, g) \in Nat
        /\ \A a \in VectorClocks : \A m \in Gid :
             Below(a, vectorClock[m]) => Below(a, vectorClock'[m])
        /\ \A i \in Updates(p) : i # k /\ OwnStamp(p, i) =< OwnStamp(p, k)
                                 => OwnStamp(p, i) =< Seen(n, p)
    BY <1>1, ApplyFrame, Zenon
  <1>4. k \notin Deletes(p)
    BY <1>1 DEF Receives, Deletes
  <1>5. \A q : /\ Deletes(q)' = Deletes(q)
               /\ \A i : Stamp(q, i)' = Stamp(q, i) /\ OwnStamp(q, i)' = OwnStamp(q, i)
    BY <1>1, SameStream
  <1>6. val[n] \in VectorClocks /\ tomb[n] \in VectorClocks
    BY <1>0 DEF TypeOK
  <1>7. mono \in VectorClocks
    BY <1>3, MonoUnit
  <1>8. /\ val'[n] = purge(tomb[n], merge(val[n], mono))
        /\ \A m \in Gid : m # n => val'[m] = val[m]
    BY <1>0, <1>1 DEF TypeOK
  <1> HIDE DEF k, mono
  <1>9. merge(val[n], mono) \in VectorClocks
    BY <1>6, <1>7, MergeUnits, Zenon DEF merge
  <1>10. ASSUME NEW q \in Gid, NEW i \in Deletes(q)
         PROVE  /\ Stamp(q, i) \in VectorClocks
                /\ OwnStamp(q, i) \in Nat
                /\ \A m \in Gid : OwnStamp(q, i) =< Seen(m, q)' <=> OwnStamp(q, i) =< Seen(m, q)
    <2>1. Stamp(q, i) \in VectorClocks /\ OwnStamp(q, i) \in Nat /\ i \in Updates(q)
      BY <1>0, DeleteFacts
    <2> QED
      BY <1>3, <1>4, <2>1
  <1>11. Retained'
    BY <1>0, <1>1, <1>3, <1>5, <1>10, Zenon DEF Retained
  <1>12. SnapshotValue'
    BY <1>0, <1>1, <1>5, <1>10, ZenonT(30) DEF SnapshotValue
  <1>13. SnapshotDeletes'
    <2> SUFFICES ASSUME NEW m \in Gid, NEW q \in Gid, NEW i \in Deletes(q),
                        i =< snapshot[m][q].off, Seen(m, q)' < OwnStamp(q, i)
                 PROVE  /\ link[m][q] \in {"MERGE_START", "MERGE", "MERGE_DEL"} =>
                                Below(Stamp(q, i), snapshot[m][q].tomb)
                        /\ link[m][q] = "MERGE_END" =>
                                Below(Stamp(q, i), tomb[m]) /\ Purged(Stamp(q, i), val'[m])
      BY <1>1, <1>5, Zenon DEF SnapshotDeletes
    <2>1. Seen(m, q) < OwnStamp(q, i)
      <3>1. /\ OwnStamp(q, i) \in Nat
            /\ OwnStamp(q, i) =< Seen(m, q)' <=> OwnStamp(q, i) =< Seen(m, q)
        BY <1>10
      <3>2. Seen(m, q) \in Nat /\ Seen(m, q)' \in Nat
        BY <1>3
      <3> QED
        BY <3>1, <3>2
    <2>2. ASSUME link[m][q] = "MERGE_END" PROVE Purged(Stamp(q, i), val'[m])
      <3>1. Below(Stamp(q, i), tomb[m]) /\ Purged(Stamp(q, i), val[m])
        BY <1>0, <2>1, <2>2 DEF SnapshotDeletes
      <3>2. CASE m = n
        BY <1>0, <1>6, <1>8, <1>9, <3>1, <3>2, DeleteCovered
      <3>3. CASE m # n
        BY <1>8, <3>1, <3>3
      <3> QED
        BY <3>2, <3>3
    <2> QED
      BY <1>0, <2>1, <2>2, Zenon DEF SnapshotDeletes
  <1>14. NoResurrection'
    <2> SUFFICES ASSUME NEW m \in Gid, NEW q \in Gid, NEW i \in Deletes(q),
                        OwnStamp(q, i) =< Seen(m, q)
                 PROVE  Purged(Stamp(q, i), val'[m])
      BY <1>5, <1>10 DEF NoResurrection
    <2>1. Purged(Stamp(q, i), val[m])
      BY <1>0 DEF NoResurrection
    <2>2. CASE m = n /\ Below(Stamp(q, i), tomb[n])
      BY <1>0, <1>6, <1>8, <1>9, <2>2, DeleteCovered
    <2>3. CASE m = n /\ Below(Stamp(q, i), vectorClock[n])
      <3>1. get_vcu_from_vc(Stamp(q, i), p) =< Seen(n, p)
        BY <2>3 DEF Below, Seen
      <3>2. get_vcu_from_vc(Stamp(q, i), p) \in Nat
        BY <1>10, UnitType
      <3>3. get_vcu_from_vc(Stamp(q, i), p) < get_vcu_from_vc(Stamp(p, k), p)
        <4>1. /\ Seen(n, p) \in Nat /\ OwnStamp(p, k) \in Nat
              /\ Seen(n, p) < OwnStamp(p, k)
          BY <1>3
        <4> QED
          BY <3>1, <3>2, <4>1 DEF OwnStamp
      <3>4. Purged(Stamp(q, i), mono)
        BY <1>3, <1>10, <3>3, PurgedMono DEF mono
      <3>5. Purged(Stamp(q, i), merge(val[n], mono))
        BY <1>6, <1>7, <1>10, <2>1, <2>3, <3>4, PurgedMerge
      <3> QED
        BY <1>6, <1>8, <1>9, <1>10, <2>3, <3>5, PurgedPurge
    <2>4. CASE m # n
      BY <1>8, <2>1, <2>4
    <2> QED
      BY <1>0, <2>2, <2>3, <2>4 DEF Retained
  <1> QED
    BY <1>2, <1>11, <1>12, <1>13, <1>14 DEF IndInv

\* A delete of a peer enters the tombstone and removes what it covers.
LEMMA ApplyDelStep ==
    ASSUME IndInv, TypeOK', NEW n \in Gid, NEW p \in Gid, ApplyDel(n, p)
    PROVE  IndInv'
  <1> DEFINE k == reploff[n][p] + 1
             t == merge(tomb[n], Stamp(p, k))
  <1>0. /\ TypeOK /\ StampsOrdered /\ Retained /\ SnapshotValue
        /\ SnapshotDeletes /\ NoResurrection
    BY DEF IndInv
  <1>1. /\ Receives(n, p, "del")
        /\ vectorClock' = [vectorClock EXCEPT ![n] =
                updateProcessVectorClock(vectorClock[n], stream[p][reploff[n][p] + 1].vc, p, n)]
        /\ tomb' = [tomb EXCEPT ![n] = t]
        /\ val' = [val EXCEPT ![n] = purge(tomb'[n], @)]
        /\ UNCHANGED <<ovc, stream, link, snapshot, breaks>>
    BY DEF ApplyDel, Stamp
  <1>2. /\ ClockLead' /\ NoSelfLink' /\ StampsOrdered'
        /\ OffsetMatchesClock' /\ ObservedBehind' /\ SnapshotClock'
    BY <1>1, ApplyClocks, Zenon
  <1>3. /\ n # p
        /\ Stamp(p, k) \in VectorClocks
        /\ OwnStamp(p, k) \in Nat
        /\ Seen(n, p) < OwnStamp(p, k)
        /\ Seen(n, p)' = OwnStamp(p, k)
        /\ \A m, g \in Gid : <<m, g>> # <<n, p>> => Seen(m, g)' = Seen(m, g)
        /\ \A m, g \in Gid : Seen(m, g) \in Nat
        /\ \A a \in VectorClocks : \A m \in Gid :
             Below(a, vectorClock[m]) => Below(a, vectorClock'[m])
        /\ \A i \in Updates(p) : i # k /\ OwnStamp(p, i) =< OwnStamp(p, k)
                                 => OwnStamp(p, i) =< Seen(n, p)
    BY <1>1, ApplyFrame, Zenon
  <1>4. \A q : /\ Deletes(q)' = Deletes(q)
               /\ \A i : Stamp(q, i)' = Stamp(q, i) /\ OwnStamp(q, i)' = OwnStamp(q, i)
    BY <1>1, SameStream
  <1>5. val[n] \in VectorClocks /\ tomb[n] \in VectorClocks
    BY <1>0, Zenon DEF TypeOK
  <1>6. t \in VectorClocks /\ Below(Stamp(p, k), t)
    BY <1>3, <1>5, BelowRefl, BelowMerge
  <1>7. \A a \in VectorClocks : Below(a, tomb[n]) => Below(a, t)
    BY <1>3, <1>5, BelowMerge
  <1> HIDE DEF k, t
  <1>8. /\ tomb'[n] = t /\ val'[n] = purge(t, val[n])
        /\ \A m \in Gid : m # n => tomb'[m] = tomb[m] /\ val'[m] = val[m]
    BY <1>0, <1>1, ZenonT(30) DEF TypeOK
  <1>9. \A a \in VectorClocks : \A m \in Gid : Below(a, tomb[m]) => Below(a, tomb'[m])
    BY <1>7, <1>8
  <1>10. \A a \in VectorClocks : \A m \in Gid : Purged(a, val[m]) => Purged(a, val'[m])
    BY <1>5, <1>6, <1>8, PurgedPurge
  <1>11. ASSUME NEW q \in Gid, NEW i \in Deletes(q)
         PROVE  /\ Stamp(q, i) \in VectorClocks
                /\ OwnStamp(q, i) \in Nat
                /\ \A m \in Gid : OwnStamp(q, i) =< Seen(m, q) => OwnStamp(q, i) =< Seen(m, q)'
                /\ \A m \in Gid : OwnStamp(q, i) =< Seen(m, q)' =>
                        \/ OwnStamp(q, i) =< Seen(m, q)
                        \/ m = n /\ q = p /\ i = k
    <2>1. Stamp(q, i) \in VectorClocks /\ OwnStamp(q, i) \in Nat /\ i \in Updates(q)
      BY <1>0, DeleteFacts
    <2> QED
      BY <1>3, <2>1
  <1>12. Retained'
    <2> SUFFICES ASSUME NEW m \in Gid, NEW q \in Gid, NEW i \in Deletes(q),
                        OwnStamp(q, i) =< Seen(m, q)'
                 PROVE  \/ Below(Stamp(q, i), tomb'[m])
                        \/ \A j \in Gid : Below(Stamp(q, i), vectorClock'[j])
      BY <1>4 DEF Retained
    <2>1. CASE OwnStamp(q, i) =< Seen(m, q)
      BY <1>0, <1>3, <1>9, <1>11, <2>1 DEF Retained
    <2>2. CASE m = n /\ q = p /\ i = k
      BY <1>6, <1>8, <2>2
    <2> QED
      BY <1>11, <2>1, <2>2
  <1>13. SnapshotValue'
    <2> SUFFICES ASSUME NEW m \in Gid, NEW r \in Gid, NEW q \in Gid, NEW i \in Deletes(q),
                        link[m][r] \in {"MERGE_START", "MERGE"}, OwnStamp(q, i) =< Seen(m, q)'
                 PROVE  Below(Stamp(q, i), tomb'[m]) \/ Purged(Stamp(q, i), snapshot[m][r].val)
      BY <1>0, <1>1, <1>4, ZenonT(30) DEF SnapshotValue
    <2>1. CASE OwnStamp(q, i) =< Seen(m, q)
      BY <1>0, <1>9, <1>11, <2>1, Zenon DEF SnapshotValue
    <2>2. CASE m = n /\ q = p /\ i = k
      BY <1>6, <1>8, <2>2, Zenon
    <2> QED
      BY <1>11, <2>1, <2>2, Zenon
  <1>14. SnapshotDeletes'
    <2> SUFFICES ASSUME NEW m \in Gid, NEW q \in Gid, NEW i \in Deletes(q),
                        i =< snapshot[m][q].off, Seen(m, q)' < OwnStamp(q, i)
                 PROVE  /\ link[m][q] \in {"MERGE_START", "MERGE", "MERGE_DEL"} =>
                                Below(Stamp(q, i), snapshot[m][q].tomb)
                        /\ link[m][q] = "MERGE_END" =>
                                Below(Stamp(q, i), tomb'[m]) /\ Purged(Stamp(q, i), val'[m])
      BY <1>1, <1>4, Zenon DEF SnapshotDeletes
    <2>1. Seen(m, q) < OwnStamp(q, i)
      BY <1>3, <1>11
    <2> QED
      BY <1>0, <1>9, <1>10, <1>11, <2>1, Zenon DEF SnapshotDeletes
  <1>15. NoResurrection'
    <2> SUFFICES ASSUME NEW m \in Gid, NEW q \in Gid, NEW i \in Deletes(q),
                        OwnStamp(q, i) =< Seen(m, q)'
                 PROVE  Purged(Stamp(q, i), val'[m])
      BY <1>4 DEF NoResurrection
    <2>1. CASE OwnStamp(q, i) =< Seen(m, q)
      BY <1>0, <1>10, <1>11, <2>1 DEF NoResurrection
    <2>2. CASE m = n /\ q = p /\ i = k
      BY <1>0, <1>5, <1>6, <1>8, <2>2, DeleteCovered
    <2> QED
      BY <1>11, <2>1, <2>2
  <1> QED
    BY <1>2, <1>12, <1>13, <1>14, <1>15 DEF IndInv

\* An announced clock is one that its site has reached.
LEMMA ApplyOvcStep ==
    ASSUME IndInv, TypeOK', NEW n \in Gid, NEW p \in Gid, ApplyOvc(n, p)
    PROVE  IndInv'
  <1> DEFINE k == reploff[n][p] + 1
             o == merge(ovc[n][p], Stamp(p, k))
  <1>0. TypeOK /\ StampsOrdered /\ ObservedBehind /\ OffsetMatchesClock /\ SnapshotClock
    BY DEF IndInv
  <1>1. /\ Receives(n, p, "ovc")
        /\ link[n][p] = "CONNECTED"
        /\ ovc' = [ovc EXCEPT ![n][p] = o]
        /\ UNCHANGED <<vectorClock, val, tomb, stream, link, snapshot, breaks>>
    BY DEF ApplyOvc, Stamp, merge, Receives
  <1>2. /\ stream[p][k].op = "ovc"
        /\ reploff[n][p] \in Nat
        /\ k \in 1..Len(stream[p])
        /\ reploff'[n][p] = k
        /\ \A m, q \in Gid : <<m, q>> # <<n, p>> => reploff'[m][q] = reploff[m][q]
    BY <1>0, <1>1, NextCommand, ZenonT(30)
  <1>3. \A q : /\ Deletes(q)' = Deletes(q)
               /\ Updates(q)' = Updates(q)
               /\ \A i : Stamp(q, i)' = Stamp(q, i) /\ OwnStamp(q, i)' = OwnStamp(q, i)
    BY <1>1, SameStream
  <1>4. \A m, g : Seen(m, g)' = Seen(m, g)
    BY <1>1 DEF Seen
  <1>5. Stamp(p, k) \in VectorClocks /\ ovc[n][p] \in VectorClocks
    BY <1>0, <1>2, StampType, ZenonT(30) DEF TypeOK
  <1>6. /\ ovc'[n][p] = o
        /\ \A m, q \in Gid : <<m, q>> # <<n, p>> => ovc'[m][q] = ovc[m][q]
    <2>1. ovc \in [Gid -> [Gid -> VectorClocks]]
      BY <1>0 DEF TypeOK
    <2>2. ovc' = [ovc EXCEPT ![n][p] = o]
      BY <1>1
    <2> HIDE DEF o
    <2> QED
      BY <2>1, <2>2
  <1>7. Below(o, vectorClock[p])
    <2>1. Below(Stamp(p, k), vectorClock[p]) /\ Below(ovc[n][p], vectorClock[p])
      BY <1>0, <1>2 DEF StampsOrdered, ObservedBehind
    <2>2. \A g : get_vcu_from_vc(o, g)
                   = max(get_vcu_from_vc(ovc[n][p], g), get_vcu_from_vc(Stamp(p, k), g))
      BY <1>5, MergeUnits, Zenon DEF merge
    <2> QED
      BY <2>1, <2>2 DEF Below, max
  <1> HIDE DEF o
  <1>8. ClockLead' /\ NoSelfLink' /\ StampsOrdered' /\ Retained' /\ NoResurrection'
    BY <1>1, <1>3, <1>4 DEF IndInv, ClockLead, NoSelfLink, StampsOrdered, Retained,
                            NoResurrection
  <1>9. SnapshotValue' /\ SnapshotDeletes'
    BY <1>1, <1>3, <1>4, ZenonT(30) DEF IndInv, SnapshotValue, SnapshotDeletes
  <1>10. ObservedBehind'
    BY <1>0, <1>1, <1>6, <1>7 DEF ObservedBehind
  <1>11. OffsetMatchesClock'
    <2> SUFFICES ASSUME NEW m \in Gid, NEW q \in Gid, link[m][q] \in {"CACHED", "CONNECTED"}
                 PROVE  Splits(q, reploff'[m][q], Seen(m, q))
      BY <1>1, <1>3, <1>4 DEF OffsetMatchesClock, Splits
    <2>1. CASE <<m, q>> = <<n, p>>
      <3>1. Splits(p, reploff[n][p], Seen(n, p))
        BY <1>0, <1>1 DEF OffsetMatchesClock
      <3>2. k \notin Updates(p) /\ Updates(p) \subseteq 1..Len(stream[p])
        BY <1>2, Zenon DEF Updates
      <3>3. \A i \in Updates(p) : i =< k <=> i =< reploff[n][p]
        BY <1>2, <3>2
      <3> QED
        BY <1>2, <2>1, <3>1, <3>3 DEF Splits
    <2>2. CASE <<m, q>> # <<n, p>>
      BY <1>0, <1>2, <2>2 DEF OffsetMatchesClock
    <2> QED
      BY <2>1, <2>2
  <1>12. SnapshotClock'
    <2> SUFFICES ASSUME NEW m \in Gid, NEW q \in Gid, link[m][q] \in TransferStates
                 PROVE  Below(ovc'[m][q], snapshot[m][q].vc)
      BY <1>0, <1>1, <1>3, <1>4 DEF SnapshotClock, Splits
    <2>1. <<m, q>> # <<n, p>>
      BY <1>1 DEF TransferStates
    <2> QED
      BY <1>0, <1>6, <2>1 DEF SnapshotClock
  <1> QED
    BY <1>8, <1>9, <1>10, <1>11, <1>12 DEF IndInv

\* A peer's write.
LEMMA ApplySetHistory ==
    ASSUME IndInv, HistoryInv, NEW n \in Gid, NEW p \in Gid, ApplySet(n, p)
    PROVE  HistoryInv'
  <1> DEFINE k == reploff[n][p] + 1
             vc == stream[p][k].vc
             one == getMonoVectorClock(vc, p)
             w0 == get_vcu_from_vc(vc, p)
  <1>0. /\ TypeOK /\ StampsOrdered /\ NothingInvented /\ WritesKept
        /\ Receives(n, p, "set")
        /\ vectorClock' = [vectorClock EXCEPT ![n] =
                updateProcessVectorClock(vectorClock[n], vc, p, n)]
        /\ val' = [val EXCEPT ![n] = purge(tomb[n], merge(val[n], one))]
        /\ UNCHANGED <<tomb, stream, link, snapshot>>
    BY Zenon DEF IndInv, HistoryInv, ApplySet
  <1> HIDE DEF one, w0
  <1>1. /\ k \in Updates(p)
        /\ vc \in VectorClocks
        /\ w0 = OwnStamp(p, k) /\ w0 \in Nat
        /\ Seen(n, p)' = w0
        /\ \A m, q \in Gid : <<m, q>> # <<n, p>> => Seen(m, q)' = Seen(m, q)
        /\ \A i \in Updates(p) : i # k /\ OwnStamp(p, i) =< w0 => OwnStamp(p, i) =< Seen(n, p)
    <2>1. vc = Stamp(p, k) /\ w0 = OwnStamp(p, k)
      BY DEF Stamp, OwnStamp, w0
    <2> QED
      BY <1>0, <2>1, ApplyFrame, Zenon
  <1>2. k \in 1..Len(stream[p]) /\ stream[p][k].op = "set" /\ link[n][p] = "CONNECTED"
    BY <1>0, NextCommand, ZenonT(30) DEF Receives
  <1>3. WriteIn(stream', p, w0)
    BY <1>0, <1>2, Zenon DEF WriteIn, w0
  <1>4. w0 \in 1..MaxClock
    BY <1>0, <1>3, WriteSeen, Zenon
  <1> HIDE DEF vc
  <1>5. one \in VectorClocks /\ DOMAIN one = {p} /\ one[p] = w0
    <2>1. p \in DOMAIN vc /\ vc[p] = w0
      BY <1>4, MaxClockAssumption DEF get_vcu_from_vc, w0
    <2>2. one = [g \in {p} |-> vc[p]]
      BY <2>1 DEF getMonoVectorClock, one
    <2>3. one \in VectorClocks
      BY <1>1, MonoUnit DEF one
    <2> QED
      BY <2>1, <2>2, <2>3
  <1>6. \A w : WriteIn(stream, p, w) /\ w # w0 /\ w =< w0 => w =< Seen(n, p)
    BY <1>1, Zenon DEF WriteIn, Updates, OwnStamp, Stamp
  <1> HIDE DEF k
  <1>7. /\ val[n] \in VectorClocks /\ tomb[n] \in VectorClocks
        /\ val'[n] = purge(tomb[n], merge(val[n], one))
        /\ \A m \in Gid : m # n => val'[m] = val[m]
    BY <1>0 DEF TypeOK
  <1>8. OnlyWrites(stream', val[n]) /\ OnlyDeletes(stream', tomb[n])
    BY <1>0 DEF NothingInvented
  <1>9. OnlyWrites(stream', one)
    BY <1>3, <1>5 DEF OnlyWrites
  <1>10. /\ Retains(stream', val[n], val'[n])
         /\ Retains(stream', one, val'[n])
         /\ OnlyWrites(stream', val'[n])
    BY <1>5, <1>7, <1>8, <1>9, MergePurge
  <1>11. \A m \in Gid : Retains(stream', val[m], val'[m])
    BY <1>7, <1>10, RetainsSame
  <1>12. Extends(stream, stream')
    BY <1>0, ExtendsSame
  <1>13. NothingInvented'
    BY <1>0, <1>7, <1>10, <1>12, InventedStep, Zenon
  <1>14. Kept(stream', one, p, w0)
    BY <1>1, <1>5 DEF Kept
  <1>15. Kept(stream', val'[n], p, w0)
    BY <1>4, <1>10, <1>14 DEF Retains
  <1>16. \A w \in 1..MaxClock : WriteIn(stream', p, w) /\ w =< Seen(n, p)' =>
                \/ Kept(stream', val'[n], p, w)
                \/ WriteIn(stream, p, w) /\ w =< Seen(n, p)
    BY <1>0, <1>1, <1>6, <1>15
  <1>17. KeptBetween(stream', val'[n], p, 0, Seen(n, p)')
    BY <1>0, <1>10, <1>12, <1>16, KeptStep
  <1>18. BroughtWrites(n, p)'
    BY <1>0, <1>2, Zenon DEF BroughtWrites
  <1>19. \A m, q \in Gid : <<m, q>> # <<n, p>> => /\ link'[m][q] = link[m][q]
                                                  /\ snapshot'[m][q] = snapshot[m][q]
                                                  /\ Seen(m, q)' = Seen(m, q)
    BY <1>0, <1>1
  <1>20. \A g \in Gid : \A w \in 1..MaxClock : WriteIn(stream', g, w) => WriteIn(stream, g, w)
    BY <1>0
  <1> QED
    BY <1>11, <1>12, <1>13, <1>17, <1>18, <1>19, <1>20, HistoryStep

\* A peer's delete.
LEMMA ApplyDelHistory ==
    ASSUME IndInv, HistoryInv, NEW n \in Gid, NEW p \in Gid, ApplyDel(n, p)
    PROVE  HistoryInv'
  <1> DEFINE k == reploff[n][p] + 1
             vc == stream[p][k].vc
  <1>0. /\ TypeOK /\ NothingInvented /\ WritesKept
        /\ Receives(n, p, "del")
        /\ vectorClock' = [vectorClock EXCEPT ![n] =
                updateProcessVectorClock(vectorClock[n], vc, p, n)]
        /\ tomb' = [tomb EXCEPT ![n] = merge(tomb[n], vc)]
        /\ val' = [val EXCEPT ![n] = purge(tomb'[n], val[n])]
        /\ UNCHANGED <<stream, link, snapshot>>
    BY Zenon DEF IndInv, HistoryInv, ApplyDel
  <1>1. /\ vc \in VectorClocks
        /\ Seen(n, p)' = OwnStamp(p, k)
        /\ \A m, q \in Gid : <<m, q>> # <<n, p>> => Seen(m, q)' = Seen(m, q)
        /\ \A i \in Updates(p) : i # k /\ OwnStamp(p, i) =< OwnStamp(p, k) =>
                OwnStamp(p, i) =< Seen(n, p)
    BY <1>0, ApplyFrame, Zenon DEF Stamp
  <1>2. k \in 1..Len(stream[p]) /\ stream[p][k].op = "del" /\ link[n][p] = "CONNECTED"
    BY <1>0, NextCommand, Zenon DEF Receives
  <1>3. \A w : WriteIn(stream, p, w) /\ w =< Seen(n, p)' => w =< Seen(n, p)
    <2> SUFFICES ASSUME NEW w, WriteIn(stream, p, w), w =< Seen(n, p)' PROVE w =< Seen(n, p)
      OBVIOUS
    <2>1. PICK i \in 1..Len(stream[p]) :
              stream[p][i].op = "set" /\ get_vcu_from_vc(stream[p][i].vc, p) = w
      BY DEF WriteIn
    <2>2. i \in Updates(p) /\ w = OwnStamp(p, i) /\ i # k
      BY <1>2, <2>1 DEF Updates, OwnStamp, Stamp
    <2> QED
      BY <1>1, <2>2
  <1>4. OnlyDeletes(stream', vc)
    BY <1>0, <1>2, Zenon DEF OnlyDeletes, DeleteIn
  <1> HIDE DEF k, vc
  <1>5. /\ val[n] \in VectorClocks /\ tomb[n] \in VectorClocks
        /\ tomb'[n] = merge(tomb[n], vc)
        /\ val'[n] = purge(tomb'[n], val[n])
        /\ \A m \in Gid : m # n => val'[m] = val[m] /\ tomb'[m] = tomb[m]
    BY <1>0 DEF TypeOK
  <1>6. OnlyWrites(stream', val[n]) /\ OnlyDeletes(stream', tomb[n])
    BY <1>0, Zenon DEF NothingInvented
  <1>7. tomb'[n] \in VectorClocks /\ OnlyDeletes(stream', tomb'[n])
    BY <1>1, <1>4, <1>5, <1>6, MergeOnly
  <1>8. Retains(stream', val[n], val'[n]) /\ OnlyWrites(stream', val'[n])
    BY <1>5, <1>6, <1>7, PurgeRetains, PurgeOnly
  <1>9. \A m \in Gid : Retains(stream', val[m], val'[m])
    BY <1>5, <1>8, RetainsSame
  <1>10. Extends(stream, stream')
    BY <1>0, ExtendsSame
  <1>11. NothingInvented'
    BY <1>0, <1>5, <1>7, <1>8, <1>10, InventedStep, Zenon
  <1>12. \A w \in 1..MaxClock : WriteIn(stream', p, w) /\ w =< Seen(n, p)' =>
                WriteIn(stream, p, w) /\ w =< Seen(n, p)
    BY <1>0, <1>3
  <1>13. KeptBetween(stream', val'[n], p, 0, Seen(n, p)')
    BY <1>0, <1>8, <1>10, <1>12, KeptStep
  <1>14. BroughtWrites(n, p)'
    BY <1>0, <1>2, Zenon DEF BroughtWrites
  <1>15. \A m, q \in Gid : <<m, q>> # <<n, p>> => /\ link'[m][q] = link[m][q]
                                                  /\ snapshot'[m][q] = snapshot[m][q]
                                                  /\ Seen(m, q)' = Seen(m, q)
    BY <1>0, <1>1
  <1>16. \A g \in Gid : \A w \in 1..MaxClock : WriteIn(stream', g, w) => WriteIn(stream, g, w)
    BY <1>0
  <1> QED
    BY <1>9, <1>10, <1>11, <1>13, <1>14, <1>15, <1>16, HistoryStep

-----------------------------------------------------------------------------
(***************************************************************************)
(* The theorems.                                                           *)
(***************************************************************************)

\* A site that starts has an empty stream and has seen nothing.
LEMMA InitInv == Init => IndInv
  <1> SUFFICES ASSUME Init PROVE IndInv
    OBVIOUS
  <1>1. TypeOK
    BY InitType
  <1>2. \A n, g \in Gid : Seen(n, g) = 0 /\ get_vcu_from_vc(ovc[n][g], g) = 0
    BY DEF Init, Seen, get_vcu_from_vc, NullVectorClock
  <1>3. \A p \in Gid : Len(stream[p]) = 0 /\ 1..Len(stream[p]) = {}
    BY DEF Init
  <1>4. \A p \in Gid : Deletes(p) = {} /\ Updates(p) = {}
    BY <1>3 DEF Deletes, Updates
  <1>5. \A n, p \in Gid : link[n][p] = "CONNECT"
    BY DEF Init
  <1>6. ObservedBehind
    BY <1>2 DEF Init, ObservedBehind, Below, Seen, get_vcu_from_vc, NullVectorClock
  <1>7. ClockLead /\ NoSelfLink /\ StampsOrdered
    BY <1>2, <1>3, <1>5 DEF ClockLead, NoSelfLink, StampsOrdered
  <1>8. OffsetMatchesClock /\ SnapshotClock
    BY <1>5 DEF OffsetMatchesClock, SnapshotClock, TransferStates
  <1>9. Retained /\ SnapshotValue /\ SnapshotDeletes /\ NoResurrection
    BY <1>4, Zenon DEF Retained, SnapshotValue, SnapshotDeletes, NoResurrection
  <1> QED
    BY <1>1, <1>6, <1>7, <1>8, <1>9 DEF IndInv

\* So have the sites of a mesh that has only just synchronised.
LEMMA InitMeshInv == InitMesh => IndInv
  <1> SUFFICES ASSUME InitMesh PROVE IndInv
    OBVIOUS
  <1>1. TypeOK
    BY InitMeshType
  <1>2. \A n, g \in Gid : Seen(n, g) = 0
    BY DEF InitMesh, Seen, get_vcu_from_vc
  <1>3. \A p \in Gid : Len(stream[p]) = 0 /\ 1..Len(stream[p]) = {}
    BY DEF InitMesh
  <1>4. \A p \in Gid : Deletes(p) = {} /\ Updates(p) = {}
    BY <1>3 DEF Deletes, Updates
  <1>5. \A n, p \in Gid : /\ link[n][p] = IF p = n THEN "CONNECT" ELSE "CONNECTED"
                          /\ reploff[n][p] = 0
    BY DEF InitMesh
  <1>6. ObservedBehind
    <2> SUFFICES ASSUME NEW n \in Gid, NEW p \in Gid, NEW g \in Gid
                 PROVE  get_vcu_from_vc(ovc[n][p], g) =< Seen(p, g)
      BY DEF ObservedBehind, Below, Seen
    <2>1. get_vcu_from_vc(ovc[n][p], g) = 0
      BY DEF InitMesh, get_vcu_from_vc, NullVectorClock
    <2> QED
      BY <1>2, <2>1
  <1>7. ClockLead /\ NoSelfLink /\ StampsOrdered
    BY <1>2, <1>3, <1>5, SMTT(20) DEF ClockLead, NoSelfLink, StampsOrdered
  <1>8. OffsetMatchesClock
    BY <1>3, <1>4, <1>5 DEF OffsetMatchesClock, Splits
  <1>9. SnapshotClock
    BY <1>5 DEF SnapshotClock, TransferStates
  <1>10. Retained /\ SnapshotValue /\ SnapshotDeletes /\ NoResurrection
    BY <1>4 DEF Retained, SnapshotValue, SnapshotDeletes, NoResurrection
  <1> QED
    BY <1>1, <1>6, <1>7, <1>8, <1>9, <1>10 DEF IndInv

\* Every step keeps the inductive invariant.
LEMMA NextInv == IndInv /\ [Next]_vars => IndInv'
  <1> SUFFICES ASSUME IndInv, [Next]_vars PROVE IndInv'
    OBVIOUS
  <1>0. TypeOK'
    BY NextType DEF IndInv
  <1>1. CASE UNCHANGED vars
    <2>1. UNCHANGED <<vectorClock, ovc, val, tomb, stream, link, reploff, snapshot, breaks>>
      BY <1>1 DEF vars
    <2>2. \A q : /\ Deletes(q)' = Deletes(q)
                 /\ Updates(q)' = Updates(q)
                 /\ \A i : Stamp(q, i)' = Stamp(q, i) /\ OwnStamp(q, i)' = OwnStamp(q, i)
      BY <2>1, SameStream
    <2>3. \A m, g : Seen(m, g)' = Seen(m, g)
      BY <2>1 DEF Seen
    <2>4. ClockLead' /\ NoSelfLink' /\ StampsOrdered' /\ OffsetMatchesClock'
      BY <2>1, <2>2, <2>3, Zenon
         DEF IndInv, ClockLead, NoSelfLink, StampsOrdered, OffsetMatchesClock, Splits
    <2>5. ObservedBehind' /\ Retained' /\ NoResurrection'
      BY <2>1, <2>2, <2>3, Zenon DEF IndInv, ObservedBehind, Retained, NoResurrection
    <2>6. SnapshotClock'
      BY <2>1, <2>2, <2>3, Zenon DEF IndInv, SnapshotClock, Splits
    <2>7. SnapshotValue'
      BY <2>1, <2>2, <2>3, Zenon DEF IndInv, SnapshotValue
    <2>8. SnapshotDeletes'
      BY <2>1, <2>2, <2>3, Zenon DEF IndInv, SnapshotDeletes
    <2> QED
      BY <1>0, <2>4, <2>5, <2>6, <2>7, <2>8 DEF IndInv
  <1>2. ASSUME NEW n \in Gid, Set(n) PROVE IndInv'
    BY <1>0, <1>2, SetStep
  <1>3. ASSUME NEW n \in Gid, Del(n) PROVE IndInv'
    BY <1>0, <1>3, DelStep
  <1>4. ASSUME NEW n \in Gid, sendObservedVectorClock(n) PROVE IndInv'
    BY <1>0, <1>4, OvcStep
  <1>5. ASSUME NEW n \in Gid, Gc(n) PROVE IndInv'
    BY <1>0, <1>5, GcStep
  <1>6. ASSUME NEW n \in Gid, StartBgsave(n) PROVE IndInv'
    BY <1>0, <1>6, BgsaveStep
  <1>7. ASSUME NEW n \in Gid, NEW p \in Gid, Apply(n, p) PROVE IndInv'
    BY <1>0, <1>7, ApplySetStep, ApplyDelStep, ApplyOvcStep DEF Apply
  <1>8. ASSUME NEW n \in Gid, NEW p \in Gid, Sync(n, p) PROVE IndInv'
    <2>1. CASE PsyncContinue(n, p)
      <3>1. n # p
        BY <2>1 DEF PsyncContinue, IndInv, NoSelfLink
      <3> QED
        BY <1>0, <2>1, <3>1, LinkStep DEF PsyncContinue
    <2>6. CASE PsyncFull(n, p)
      BY <1>0, <2>6, LinkStep DEF PsyncFull
    <2>2. CASE MergeStart(n, p)
      BY <1>0, <2>2, MergeStartStep
    <2>3. CASE Merge(n, p)
      BY <1>0, <2>3, MergeStep
    <2>4. CASE MergeDel(n, p)
      BY <1>0, <2>4, MergeDelStep
    <2>5. CASE MergeEnd(n, p)
      BY <1>0, <2>5, MergeEndStep
    <2> QED
      BY <1>8, <2>1, <2>2, <2>3, <2>4, <2>5, <2>6 DEF Sync
  <1>9. ASSUME NEW n \in Gid, NEW p \in Gid, Break(n, p) PROVE IndInv'
    <2> DEFINE state == IF link[n][p] = "CONNECTED" THEN "CACHED" ELSE "CONNECT"
    <2>1. /\ link[n][p] # "CONNECT"
          /\ SetLink(n, p, state)
          /\ snapshot' = [snapshot EXCEPT ![n][p] = NoSnapshot]
          /\ UNCHANGED <<vectorClock, ovc, val, tomb, stream, reploff>>
      BY <1>9 DEF Break, TransferStates
    <2>2. n # p
      BY <2>1 DEF IndInv, NoSelfLink
    <2>3. \A m, q \in Gid : <<m, q>> # <<n, p>> => snapshot'[m][q] = snapshot[m][q]
      BY <2>1 DEF IndInv, TypeOK
    <2>4. /\ state \in {"CONNECT", "CACHED", "WAIT_BGSAVE", "CONNECTED"}
          /\ state \in {"CACHED", "CONNECTED"} => link[n][p] \in {"CACHED", "CONNECTED"}
      OBVIOUS
    <2> HIDE DEF state
    <2> QED
      BY <1>0, <2>1, <2>2, <2>3, <2>4, LinkStep
  <1> QED
    BY <1>1, <1>2, <1>3, <1>4, <1>5, <1>6, <1>7, <1>8, <1>9 DEF Next

\* The inductive invariant holds from sites that have never met on ...
THEOREM Inductive == Spec => []IndInv
  BY InitInv, NextInv, PTL DEF Spec

\* ... and from a mesh that has synchronised.
THEOREM InductiveMesh == SpecMesh => []IndInv
  BY InitMeshInv, NextInv, PTL DEF SpecMesh

\* A delete that a site has seen stays in force at that site, in a system of
\* any number of sites, with any clocks and any number of broken links.
THEOREM DeletesHold == Spec => []NoResurrection
  <1>1. IndInv => NoResurrection
    BY DEF IndInv
  <1> QED
    BY <1>1, Inductive, PTL

\* The same from a mesh that has synchronised.
THEOREM DeletesHoldMesh == SpecMesh => []NoResurrection
  <1>1. IndInv => NoResurrection
    BY DEF IndInv
  <1> QED
    BY <1>1, InductiveMesh, PTL

\* What StableBeforeGc asks of one step.
LEMMA StableStep ==
    ASSUME IndInv, [Next]_vars, NEW n \in Gid,
           ~isNullVectorClock(tomb[n]), isNullVectorClock(tomb'[n]), NEW m \in Gid
    PROVE  Below(tomb[n], vectorClock[m])
  <1>0. TypeOK /\ tomb \in [Gid -> VectorClocks]
    BY DEF IndInv, TypeOK
  <1>1. tomb'[n] # tomb[n]
    OBVIOUS
  <1>2. \A b \in VectorClocks : ~isNullVectorClock(merge(tomb[n], b))
    <2> SUFFICES ASSUME NEW b \in VectorClocks PROVE ~isNullVectorClock(merge(tomb[n], b))
      OBVIOUS
    <2>1. tomb[n] \in VectorClocks
      BY <1>0
    <2>2. DOMAIN merge(tomb[n], b) = DOMAIN tomb[n] \cup DOMAIN b
      BY <2>1, MergeUnits, Zenon DEF merge
    <2>3. PICK g : g \in DOMAIN tomb[n]
      BY DEF isNullVectorClock
    <2>4. g \in DOMAIN merge(tomb[n], b)
      BY <2>2, <2>3
    <2> QED
      BY <2>4 DEF isNullVectorClock
  <1>3. ASSUME NEW k \in Gid, Del(k) PROVE FALSE
    <2> DEFINE vc == incrLogicClock(vectorClock[k], k, 1)
    <2>1. Accepts(k) /\ tomb' = [tomb EXCEPT ![k] = merge(tomb[k], vc)]
      BY <1>3 DEF Del
    <2>2. vc \in VectorClocks
      BY <1>0, <2>1, LocalClock
    <2> HIDE DEF vc
    <2> QED
      BY <1>0, <1>1, <1>2, <2>1, <2>2
  <1>4. ASSUME NEW k \in Gid, NEW p \in Gid, ApplyDel(k, p) PROVE FALSE
    <2> DEFINE vc == stream[p][reploff[k][p] + 1].vc
    <2>1. Receives(k, p, "del") /\ tomb' = [tomb EXCEPT ![k] = merge(tomb[k], vc)]
      BY <1>4, Zenon DEF ApplyDel
    <2>2. vc \in VectorClocks
      BY <1>0, <2>1, NextCommand, Zenon
    <2> HIDE DEF vc
    <2> QED
      BY <1>0, <1>1, <1>2, <2>1, <2>2
  <1>5. ASSUME NEW k \in Gid, NEW p \in Gid, MergeDel(k, p) PROVE FALSE
    <2> DEFINE t == snapshot[k][p].tomb
    <2>1. tomb' = [tomb EXCEPT ![k] = merge(tomb[k], t)]
      BY <1>5, Zenon DEF MergeDel
    <2>2. t \in VectorClocks
      BY <1>0, SnapshotType
    <2> HIDE DEF t
    <2> QED
      BY <1>0, <1>1, <1>2, <2>1, <2>2
  <1>6. ASSUME NEW k \in Gid, Gc(k) PROVE Below(tomb[n], vectorClock[m])
    <2>1. gc(tomb[k], getGcVectorClock(k)) /\ tomb' = [tomb EXCEPT ![k] = NullVectorClock]
      BY <1>6 DEF Gc
    <2>2. k = n
      BY <1>0, <1>1, <2>1
    <2> QED
      BY <2>1, <2>2, GcStable
  <1>7. CASE UNCHANGED tomb
    BY <1>1, <1>7
  <1>8. \/ UNCHANGED tomb
        \/ \E k \in Gid : Del(k) \/ Gc(k)
        \/ \E k, p \in Gid : ApplyDel(k, p) \/ MergeDel(k, p)
    <2>1. CASE Next
      <3>1. ASSUME NEW k \in Gid, Set(k) \/ sendObservedVectorClock(k) \/ StartBgsave(k)
            PROVE  UNCHANGED tomb
        BY <3>1, Zenon DEF Set, sendObservedVectorClock, StartBgsave
      <3>2. ASSUME NEW k \in Gid, NEW p \in Gid,
                   ApplySet(k, p) \/ ApplyOvc(k, p) \/ Break(k, p)
            PROVE  UNCHANGED tomb
        BY <3>2, Zenon DEF ApplySet, ApplyOvc, Break
      <3>3. ASSUME NEW k \in Gid, NEW p \in Gid,
                   \/ PsyncContinue(k, p) \/ PsyncFull(k, p)
                   \/ MergeStart(k, p) \/ Merge(k, p) \/ MergeEnd(k, p)
            PROVE  UNCHANGED tomb
        BY <3>3, Zenon DEF PsyncContinue, PsyncFull, MergeStart, Merge, MergeEnd
      <3> QED
        BY <2>1, <3>1, <3>2, <3>3 DEF Next, Apply, Sync
    <2>2. CASE UNCHANGED vars
      BY <2>2 DEF vars
    <2> QED
      BY <2>1, <2>2
  <1> QED
    BY <1>3, <1>4, <1>5, <1>6, <1>7, <1>8

\* No site ever collects a tombstone that another site still needs.
THEOREM CollectedWhenSeen == Spec => StableBeforeGc
  <1>1. IndInv /\ [Next]_vars =>
            [\A n \in Gid : ~isNullVectorClock(tomb[n]) /\ isNullVectorClock(tomb'[n]) =>
                \A m \in Gid : Below(tomb[n], vectorClock[m])]_vars
    BY StableStep
  <1> QED
    BY <1>1, Inductive, PTL DEF Spec, StableBeforeGc

\* The same from a mesh that has synchronised.
THEOREM CollectedWhenSeenMesh == SpecMesh => StableBeforeGc
  <1>1. IndInv /\ [Next]_vars =>
            [\A n \in Gid : ~isNullVectorClock(tomb[n]) /\ isNullVectorClock(tomb'[n]) =>
                \A m \in Gid : Below(tomb[n], vectorClock[m])]_vars
    BY StableStep
  <1> QED
    BY <1>1, InductiveMesh, PTL DEF SpecMesh, StableBeforeGc

\* Every step keeps HistoryInv.
LEMMA NextHistory == IndInv /\ HistoryInv /\ [Next]_vars => HistoryInv'
  <1> SUFFICES ASSUME IndInv, HistoryInv, [Next]_vars PROVE HistoryInv'
    OBVIOUS
  <1>1. ASSUME NEW n \in Gid,
               Set(n) \/ Del(n) \/ sendObservedVectorClock(n) \/ Gc(n) \/ StartBgsave(n)
        PROVE  HistoryInv'
    BY <1>1, SetHistory, DelHistory, OvcHistory, IdleHistory, BgsaveHistory
  <1>2. ASSUME NEW n \in Gid, NEW p \in Gid, Apply(n, p) PROVE HistoryInv'
    BY <1>2, ApplySetHistory, ApplyDelHistory, IdleHistory DEF Apply
  <1>3. ASSUME NEW n \in Gid, NEW p \in Gid, Sync(n, p) \/ Break(n, p) PROVE HistoryInv'
    BY <1>3, IdleHistory, MergeHistory, MergeDelHistory, MergeEndHistory DEF Sync
  <1>4. CASE UNCHANGED vars
    <2>1. UNCHANGED <<vectorClock, val, tomb, stream, link, snapshot>>
      BY <1>4 DEF vars
    <2>2. \A m, q : Seen(m, q)' = Seen(m, q)
      BY <2>1 DEF Seen
    <2>3. NothingInvented' /\ WritesKept' /\ SnapshotWrites'
      BY <2>1, <2>2, Zenon DEF HistoryInv, NothingInvented, WritesKept, SnapshotWrites, BroughtWrites
    <2> QED
      BY <2>3 DEF HistoryInv
  <1> QED
    BY <1>1, <1>2, <1>3, <1>4 DEF Next

\* Sites that have applied each other's streams hold the same value: no write
\* is lost and no delete undone by links that break and synchronise again.
THEOREM SitesConverge == Spec => []Convergence
  <1>1. Init => HistoryInv
    BY InitHistory
  <1>2. Spec => []HistoryInv
    BY <1>1, Inductive, NextHistory, PTL DEF Spec
  <1> QED
    BY <1>2, Inductive, DrainedAgree, PTL

\* The same from a mesh that has synchronised.
THEOREM SitesConvergeMesh == SpecMesh => []Convergence
  <1>1. InitMesh => HistoryInv
    BY InitHistory
  <1>2. SpecMesh => []HistoryInv
    BY <1>1, InductiveMesh, NextHistory, PTL DEF SpecMesh
  <1> QED
    BY <1>2, InductiveMesh, DrainedAgree, PTL
=============================================================================
