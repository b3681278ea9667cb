------------------------ MODULE PeerReplicationLocal ------------------------
(***************************************************************************)
(* What a site does on its own keeps IndInv and HistoryInv of              *)
(* PeerReplication: the writes and deletes of clients, the announcement of *)
(* its clock, and the collection of tombstones.                            *)
(***************************************************************************)
EXTENDS PeerReplicationProofs

\* What a command of a client does to the clocks of the sites and to the
\* stream of its own site.
LEMMA LocalFrame ==
    ASSUME IndInv, NEW n \in Gid, NEW op \in {"set", "del"}, Accepts(n),
           vectorClock' = [vectorClock EXCEPT ![n] = incrLogicClock(vectorClock[n], n, 1)],
           Feed(n, op, incrLogicClock(vectorClock[n], n, 1))
    PROVE  /\ Seen(n, n)' = Seen(n, n) + 1
           /\ \A m, g \in Gid : <<m, g>> # <<n, n>> => Seen(m, g)' = Seen(m, g)
           /\ \A m, g \in Gid : Seen(m, g) \in Nat /\ Seen(m, g)' \in Nat
           /\ \A m, g \in Gid : Seen(m, g) =< Seen(m, g)'
           /\ \A a : \A m \in Gid : Below(a, vectorClock[m]) /\ a \in VectorClocks
                                    => Below(a, vectorClock'[m])
           /\ \A i : i = Len(stream[n]) + 1 =>
                /\ Stamp(n, i)' = incrLogicClock(vectorClock[n], n, 1)
                /\ Stamp(n, i)' = vectorClock'[n]
                /\ OwnStamp(n, i)' = Seen(n, n) + 1
           /\ \A p \in Gid : \A i \in 1..Len(stream[p]) :
                /\ Stamp(p, i)' = Stamp(p, i)
                /\ OwnStamp(p, i)' = OwnStamp(p, i)
                /\ i \in Updates(p)' <=> i \in Updates(p)
                /\ i \in Deletes(p)' <=> i \in Deletes(p)
           /\ \A p \in Gid : \A i \in 1..Len(stream'[p]) :
                i \notin 1..Len(stream[p]) => p = n /\ i = Len(stream[n]) + 1
           /\ \A p \in Gid : /\ Len(stream[p]) =< Len(stream'[p])
                             /\ Deletes(p)' \subseteq Updates(p)'
                             /\ Updates(p)' \subseteq 1..Len(stream'[p])
                             /\ op # "del" => Deletes(p)' = Deletes(p)
           /\ Len(stream'[n]) = Len(stream[n]) + 1
  <1> DEFINE vc == incrLogicClock(vectorClock[n], n, 1)
  <1>0. TypeOK
    BY DEF IndInv
  <1>1. /\ vc \in VectorClocks
        /\ get_vcu_from_vc(vc, n) = Seen(n, n) + 1
        /\ \A g : g # n => get_vcu_from_vc(vc, g) = Seen(n, g)
    BY <1>0, LocalClock
  <1>2. vectorClock' = [vectorClock EXCEPT ![n] = vc] /\ Feed(n, op, vc)
    OBVIOUS
  <1> HIDE DEF vc
  <1>3. vectorClock'[n] = vc /\ \A m \in Gid : m # n => vectorClock'[m] = vectorClock[m]
    BY <1>0, <1>2 DEF TypeOK
  <1>4. /\ Seen(n, n)' = Seen(n, n) + 1
        /\ \A m, g \in Gid : <<m, g>> # <<n, n>> => Seen(m, g)' = Seen(m, g)
    BY <1>1, <1>3 DEF Seen
  <1>5. \A m, g \in Gid : Seen(m, g) \in Nat
    BY <1>0, SeenType
  <1>6. \A m, g \in Gid : Seen(m, g)' \in Nat /\ Seen(m, g) =< Seen(m, g)'
    BY <1>4, <1>5
  <1>7. ASSUME NEW a, NEW m \in Gid, Below(a, vectorClock[m]), a \in VectorClocks
        PROVE  Below(a, vectorClock'[m])
    <2> SUFFICES ASSUME NEW g \in Gid
                 PROVE  get_vcu_from_vc(a, g) =< Seen(m, g)'
      BY DEF Below, Seen
    <2>1. get_vcu_from_vc(a, g) \in Nat
      BY <1>7, UnitType
    <2>2. get_vcu_from_vc(a, g) =< Seen(m, g)
      BY <1>7 DEF Below, Seen
    <2> QED
      BY <1>5, <1>6, <2>1, <2>2
  <1>8. Len(stream'[n]) = Len(stream[n]) + 1
    BY <1>0, <1>1, <1>2, FeedFacts, Zenon
  <1>9. ASSUME NEW p \in Gid
        PROVE  /\ Len(stream[p]) =< Len(stream'[p])
               /\ \A i \in 1..Len(stream[p]) :
                    Stamp(p, i)' = Stamp(p, i) /\ OwnStamp(p, i)' = OwnStamp(p, i)
               /\ \A i \in 1..Len(stream'[p]) :
                    i \notin 1..Len(stream[p]) => p = n /\ i = Len(stream[n]) + 1
               /\ \A i : i = Len(stream[n]) + 1 =>
                    Stamp(n, i)' = vc /\ OwnStamp(n, i)' = get_vcu_from_vc(vc, n)
               /\ \A i \in 1..Len(stream[p]) : i \in Deletes(p)' <=> i \in Deletes(p)
               /\ \A i \in 1..Len(stream[p]) : i \in Updates(p)' <=> i \in Updates(p)
               /\ Deletes(p)' \subseteq Updates(p)'
               /\ Updates(p)' \subseteq 1..Len(stream'[p])
               /\ op # "del" => Deletes(p)' = Deletes(p)
    BY <1>0, <1>1, <1>2, FedStream
  <1>10. \A i : i = Len(stream[n]) + 1 =>
            Stamp(n, i)' = vc /\ Stamp(n, i)' = vectorClock'[n] /\ OwnStamp(n, i)' = Seen(n, n) + 1
    BY <1>1, <1>3, <1>9
  <1> QED
    BY <1>4, <1>5, <1>6, <1>7, <1>8, <1>9, <1>10 DEF vc

\* A command of a client keeps the clocks, stamps and offsets in step.
LEMMA LocalStep ==
    ASSUME IndInv, TypeOK', NEW n \in Gid, NEW op \in {"set", "del"}, Accepts(n),
           vectorClock' = [vectorClock EXCEPT ![n] = incrLogicClock(vectorClock[n], n, 1)],
           Feed(n, op, incrLogicClock(vectorClock[n], n, 1)),
           UNCHANGED <<ovc, link, reploff, snapshot>>
    PROVE  /\ ClockLead' /\ NoSelfLink' /\ StampsOrdered'
           /\ OffsetMatchesClock' /\ ObservedBehind' /\ SnapshotClock'
  <1> DEFINE last == Len(stream[n]) + 1
  <1>0. /\ TypeOK /\ ClockLead /\ NoSelfLink /\ StampsOrdered
        /\ OffsetMatchesClock /\ ObservedBehind /\ SnapshotClock
    BY DEF IndInv
  <1>1. /\ Seen(n, n)' = Seen(n, n) + 1
        /\ \A m, g \in Gid : <<m, g>> # <<n, n>> => Seen(m, g)' = Seen(m, g)
        /\ \A m, g \in Gid : Seen(m, g) \in Nat /\ Seen(m, g)' \in Nat
        /\ \A m, g \in Gid : Seen(m, g) =< Seen(m, g)'
        /\ \A a : \A m \in Gid : Below(a, vectorClock[m]) /\ a \in VectorClocks
                                 => Below(a, vectorClock'[m])
    BY LocalFrame, Zenon
  <1>2. /\ \A i : i = last => Stamp(n, i)' = vectorClock'[n] /\ OwnStamp(n, i)' = Seen(n, n) + 1
        /\ \A p \in Gid : \A i \in 1..Len(stream[p]) :
             /\ Stamp(p, i)' = Stamp(p, i)
             /\ OwnStamp(p, i)' = OwnStamp(p, i)
             /\ i \in Updates(p)' <=> i \in Updates(p)
        /\ \A p \in Gid : \A i \in 1..Len(stream'[p]) :
             i \notin 1..Len(stream[p]) => p = n /\ i = last
        /\ \A p \in Gid : /\ Len(stream[p]) =< Len(stream'[p])
                          /\ Updates(p)' \subseteq 1..Len(stream'[p])
        /\ Len(stream'[n]) = Len(stream[n]) + 1
    BY LocalFrame, Zenon
  <1>3. \A p \in Gid : /\ Len(stream[p]) \in Nat
                       /\ Updates(p) \subseteq 1..Len(stream[p])
                       /\ \A i \in 1..Len(stream[p]) :
                            Stamp(p, i) \in VectorClocks /\ OwnStamp(p, i) \in Nat
    BY <1>0, StampType
  <1>4. \A p \in Gid : \A i \in 1..Len(stream[p]) : OwnStamp(p, i) =< Seen(p, p)
    BY <1>0 DEF StampsOrdered, OwnStamp, Below, Seen
  <1>5. ClockLead'
    <2> SUFFICES ASSUME NEW m \in Gid, NEW g \in Gid PROVE Seen(m, g)' =< Seen(g, g)'
      BY DEF ClockLead
    <2>1. Seen(m, g) =< Seen(g, g)
      BY <1>0 DEF ClockLead
    <2>2. CASE <<m, g>> = <<n, n>>
      BY <1>1, <2>2
    <2>3. CASE <<m, g>> # <<n, n>>
      BY <1>1, <2>1, <2>3
    <2> QED
      BY <2>2, <2>3
  <1>6. NoSelfLink'
    BY <1>0 DEF NoSelfLink
  <1>7. StampsOrdered'
    <2> SUFFICES ASSUME NEW p \in Gid, NEW i \in 1..Len(stream'[p])
                 PROVE  /\ Below(Stamp(p, i)', vectorClock'[p])
                        /\ i \in Updates(p)' => 0 < OwnStamp(p, i)'
                        /\ \A j \in Updates(p)' : i < j => OwnStamp(p, i)' < OwnStamp(p, j)'
      BY DEF StampsOrdered
    <2>1. CASE i \in 1..Len(stream[p])
      <3>1. Below(Stamp(p, i)', vectorClock'[p])
        BY <1>0, <1>1, <1>2, <1>3, <2>1 DEF StampsOrdered
      <3>2. i \in Updates(p)' => 0 < OwnStamp(p, i)'
        BY <1>0, <1>2, <2>1 DEF StampsOrdered
      <3>3. ASSUME NEW j \in Updates(p)', i < j PROVE OwnStamp(p, i)' < OwnStamp(p, j)'
        <4>1. CASE j \in 1..Len(stream[p])
          BY <1>0, <1>2, <2>1, <3>3, <4>1 DEF StampsOrdered
        <4>2. CASE j \notin 1..Len(stream[p])
          <5>1. p = n /\ j = last
            BY <1>2, <4>2
          <5>2. OwnStamp(p, j)' = Seen(n, n) + 1
            BY <1>2, <5>1
          <5> QED
            BY <1>1, <1>2, <1>3, <1>4, <2>1, <5>1, <5>2
        <4> QED
          BY <4>1, <4>2
      <3> QED
        BY <3>1, <3>2, <3>3
    <2>2. CASE i \notin 1..Len(stream[p])
      <3>1. p = n /\ i = last
        BY <1>2, <2>2
      <3>2. Stamp(p, i)' = vectorClock'[p] /\ OwnStamp(p, i)' = Seen(n, n) + 1
        BY <1>2, <3>1
      <3>3. Below(Stamp(p, i)', vectorClock'[p])
        <4>1. vectorClock'[p] \in VectorClocks
          BY DEF TypeOK
        <4> QED
          BY <3>2, <4>1, BelowRefl
      <3>4. 0 < OwnStamp(p, i)'
        BY <1>1, <3>2
      <3>5. \A j \in Updates(p)' : ~(i < j)
        BY <1>2, <1>3, <3>1
      <3> QED
        BY <3>3, <3>4, <3>5
    <2> QED
      BY <2>1, <2>2
  <1>8. ASSUME NEW p \in Gid, NEW off \in Nat, NEW clock \in Nat,
               clock =< Seen(p, p), Splits(p, off, clock)
        PROVE  Splits(p, off, clock)'
    <2>1. off =< Len(stream[p])
      BY <1>8 DEF Splits
    <2>2. off =< Len(stream'[p])
      <3>1. Len(stream[p]) =< Len(stream'[p]) /\ Len(stream[p]) \in Nat
        BY <1>2, <1>3
      <3>2. Len(stream'[p]) \in Nat
        BY DEF TypeOK
      <3> QED
        BY <2>1, <3>1, <3>2
    <2>3. ASSUME NEW i \in Updates(p)' PROVE i =< off <=> OwnStamp(p, i)' =< clock
      <3>1. CASE i \in 1..Len(stream[p])
        BY <1>2, <1>8, <3>1 DEF Splits
      <3>2. CASE i \notin 1..Len(stream[p])
        <4>1. p = n /\ i = last
          BY <1>2, <3>2
        <4>2. OwnStamp(p, i)' = Seen(n, n) + 1
          BY <1>2, <4>1
        <4> QED
          BY <1>1, <1>3, <1>8, <2>1, <4>1, <4>2
      <3> QED
        BY <3>1, <3>2
    <2> QED
      BY <2>2, <2>3 DEF Splits
  <1>9. OffsetMatchesClock'
    <2> SUFFICES ASSUME NEW m \in Gid, NEW p \in Gid, link[m][p] \in {"CACHED", "CONNECTED"}
                 PROVE  /\ reploff[m][p] =< Len(stream'[p])
                        /\ \A i \in Updates(p)' : i =< reploff[m][p]
                                <=> OwnStamp(p, i)' =< Seen(m, p)'
      BY DEF OffsetMatchesClock, Splits
    <2>1. m # p
      BY <1>0 DEF NoSelfLink
    <2>2. Seen(m, p)' = Seen(m, p) /\ reploff'[m][p] = reploff[m][p]
      BY <1>1, <2>1
    <2>3. Splits(p, reploff[m][p], Seen(m, p)) /\ reploff[m][p] \in Nat /\ Seen(m, p) =< Seen(p, p)
      BY <1>0 DEF OffsetMatchesClock, TypeOK, ClockLead
    <2>4. \A off \in Nat, clock \in Nat : clock =< Seen(p, p) /\ Splits(p, off, clock) =>
            /\ off =< Len(stream'[p])
            /\ \A i \in Updates(p)' : i =< off <=> OwnStamp(p, i)' =< clock
      BY <1>8 DEF Splits
    <2> QED
      BY <1>1, <2>2, <2>3, <2>4, Zenon
  <1>10. ObservedBehind'
    <2>1. \A m, p \in Gid : ovc[m][p] \in VectorClocks
      BY <1>0 DEF TypeOK
    <2> QED
      BY <1>0, <1>1, <2>1 DEF ObservedBehind
  <1>11. SnapshotClock'
    <2> SUFFICES ASSUME NEW m \in Gid, NEW p \in Gid, link[m][p] \in TransferStates
                 PROVE  LET s == snapshot[m][p]
                        IN  /\ Below(s.vc, vectorClock'[p])
                            /\ Below(ovc[m][p], s.vc)
                            /\ p \in DOMAIN s.vc
                            /\ Seen(m, p)' =< get_vcu_from_vc(s.vc, p)
                            /\ s.off =< Len(stream'[p])
                            /\ \A i \in Updates(p)' :
                                 i =< s.off <=> OwnStamp(p, i)' =< get_vcu_from_vc(s.vc, p)
      BY DEF SnapshotClock, Splits
    <2> DEFINE s == snapshot[m][p]
    <2>1. /\ Below(s.vc, vectorClock[p])
          /\ Below(ovc[m][p], s.vc)
          /\ p \in DOMAIN s.vc
          /\ Seen(m, p) =< get_vcu_from_vc(s.vc, p)
          /\ Splits(p, s.off, get_vcu_from_vc(s.vc, p))
      BY <1>0 DEF SnapshotClock
    <2>2. s.vc \in VectorClocks /\ s.off \in Nat
      BY <1>0, SnapshotType
    <2>3. get_vcu_from_vc(s.vc, p) \in Nat
      BY <2>2, UnitType
    <2>4. get_vcu_from_vc(s.vc, p) =< Seen(p, p)
      BY <2>1 DEF Below, Seen
    <2>5. m # p
      BY <1>0 DEF NoSelfLink, TransferStates
    <2>6. Seen(m, p)' = Seen(m, p)
      BY <1>1, <2>5
    <2>7. Below(s.vc, vectorClock'[p])
      BY <1>1, <2>1, <2>2
    <2>8. /\ s.off =< Len(stream'[p])
          /\ \A i \in Updates(p)' :
               i =< s.off <=> OwnStamp(p, i)' =< get_vcu_from_vc(s.vc, p)
      <3>1. \A off \in Nat, clock \in Nat : clock =< Seen(p, p) /\ Splits(p, off, clock) =>
              /\ off =< Len(stream'[p])
              /\ \A i \in Updates(p)' : i =< off <=> OwnStamp(p, i)' =< clock
        BY <1>8 DEF Splits
      <3> QED
        BY <2>1, <2>2, <2>3, <2>4, <3>1, Zenon
    <2> QED
      BY <2>1, <2>6, <2>7, <2>8, Zenon
  <1> QED
    BY <1>5, <1>6, <1>7, <1>9, <1>10, <1>11

\* A client's write does not revive what a delete covers, because its own unit
\* is later than anything a delete can have seen.
LEMMA SetStep ==
    ASSUME IndInv, TypeOK', NEW n \in Gid, Set(n)
    PROVE  IndInv'
  <1> DEFINE vc == incrLogicClock(vectorClock[n], n, 1)
             mono == getMonoVectorClock(vc, n)
  <1>0. /\ TypeOK /\ ClockLead /\ StampsOrdered /\ Retained /\ SnapshotValue
        /\ SnapshotDeletes /\ NoResurrection /\ NoSelfLink
    BY DEF IndInv
  <1>1. /\ Accepts(n)
        /\ vectorClock' = [vectorClock EXCEPT ![n] = vc]
        /\ Feed(n, "set", vc)
        /\ val' = [val EXCEPT ![n] = purge(tomb[n], merge(@, mono))]
        /\ UNCHANGED <<ovc, tomb, link, reploff, snapshot, breaks>>
    BY DEF Set
  <1>2. /\ ClockLead' /\ NoSelfLink' /\ StampsOrdered'
        /\ OffsetMatchesClock' /\ ObservedBehind' /\ SnapshotClock'
    BY <1>1, LocalStep, Zenon
  <1>3. /\ Seen(n, n)' = Seen(n, n) + 1
        /\ \A m, g \in Gid : <<m, g>> # <<n, n>> => Seen(m, g)' = Seen(m, g)
        /\ \A m, g \in Gid : Seen(m, g) \in Nat
        /\ \A a : \A m \in Gid : Below(a, vectorClock[m]) /\ a \in VectorClocks
                                 => Below(a, vectorClock'[m])
        /\ \A p \in Gid : \A i \in 1..Len(stream[p]) :
             Stamp(p, i)' = Stamp(p, i) /\ OwnStamp(p, i)' = OwnStamp(p, i)
        /\ \A p \in Gid : Deletes(p)' = Deletes(p)
    BY <1>1, LocalFrame, Zenon
  <1>4. /\ vc \in VectorClocks
        /\ get_vcu_from_vc(vc, n) = Seen(n, n) + 1
        /\ val[n] \in VectorClocks /\ tomb[n] \in VectorClocks
    BY <1>0, <1>1, LocalClock DEF TypeOK
  <1> HIDE DEF vc
  <1>5. mono \in VectorClocks /\ merge(val[n], mono) \in VectorClocks
    BY <1>4, MonoUnit, MergeUnits, Zenon DEF merge
  <1>6. /\ val'[n] = purge(tomb[n], merge(val[n], mono))
        /\ \A m \in Gid : m # n => val'[m] = val[m]
    BY <1>0, <1>1 DEF TypeOK
  <1> HIDE DEF mono
  <1>7. ASSUME NEW p \in Gid, NEW i \in Deletes(p)
        PROVE  /\ Stamp(p, i)' = Stamp(p, i)
               /\ OwnStamp(p, i)' = OwnStamp(p, i)
               /\ Stamp(p, i) \in VectorClocks
               /\ \A m \in Gid : OwnStamp(p, i) =< Seen(m, p)' => OwnStamp(p, i) =< Seen(m, p)
    BY <1>0, <1>3, DeleteFacts
  <1>8. Retained'
    BY <1>0, <1>1, <1>3, <1>7, SMTT(20) DEF Retained
  <1>9. SnapshotValue'
    <2> SUFFICES ASSUME NEW m \in Gid, NEW p \in Gid, NEW q \in Gid, NEW i \in Deletes(q),
                        link[m][p] \in {"MERGE_START", "MERGE"}
                 PROVE  LET s == snapshot[m][p]
                        IN  /\ OwnStamp(q, i)' =< get_vcu_from_vc(s.vc, q) =>
                                    Purged(Stamp(q, i)', s.val)
                            /\ OwnStamp(q, i)' =< Seen(m, q)' =>
                                    Below(Stamp(q, i)', tomb[m]) \/ Purged(Stamp(q, i)', s.val)
      <3>1. link' = link /\ snapshot' = snapshot /\ tomb' = tomb
        BY <1>1
      <3>2. \A q \in Gid : Deletes(q)' = Deletes(q)
        BY <1>3
      <3> QED
        BY <3>1, <3>2 DEF SnapshotValue
    <2>1. LET s == snapshot[m][p]
          IN  /\ OwnStamp(q, i) =< get_vcu_from_vc(s.vc, q) => Purged(Stamp(q, i), s.val)
              /\ OwnStamp(q, i) =< Seen(m, q) =>
                      Below(Stamp(q, i), tomb[m]) \/ Purged(Stamp(q, i), s.val)
      BY <1>0 DEF SnapshotValue
    <2>2. /\ Stamp(q, i)' = Stamp(q, i) /\ OwnStamp(q, i)' = OwnStamp(q, i)
          /\ OwnStamp(q, i) =< Seen(m, q)' => OwnStamp(q, i) =< Seen(m, q)
      BY <1>7
    <2> QED
      BY <2>1, <2>2
  <1>10. SnapshotDeletes'
    <2> SUFFICES ASSUME NEW m \in Gid, NEW p \in Gid, NEW i \in Deletes(p),
                        i =< snapshot[m][p].off, Seen(m, p)' < OwnStamp(p, i)
                 PROVE  /\ link[m][p] \in {"MERGE_START", "MERGE", "MERGE_DEL"} =>
                                Below(Stamp(p, i), snapshot[m][p].tomb)
                        /\ link[m][p] = "MERGE_END" =>
                                Below(Stamp(p, i), tomb[m]) /\ Purged(Stamp(p, i), val'[m])
      <3>1. link' = link /\ snapshot' = snapshot /\ tomb' = tomb
        BY <1>1
      <3>2. \A p \in Gid : Deletes(p)' = Deletes(p)
        BY <1>3
      <3>3. \A p \in Gid : \A i \in Deletes(p) :
              Stamp(p, i)' = Stamp(p, i) /\ OwnStamp(p, i)' = OwnStamp(p, i)
        BY <1>7
      <3> QED
        BY <3>1, <3>2, <3>3 DEF SnapshotDeletes
    <2>1. Seen(m, p) < OwnStamp(p, i)
      BY <1>3, <1>0, <1>7, DeleteFacts
    <2>2. ASSUME link[m][p] = "MERGE_END" PROVE Purged(Stamp(p, i), val'[m])
      <3>1. Below(Stamp(p, i), tomb[m]) /\ Purged(Stamp(p, i), val[m])
        BY <1>0, <2>1, <2>2 DEF SnapshotDeletes
      <3>2. CASE m = n
        BY <1>0, <1>4, <1>5, <1>6, <3>1, <3>2, DeleteCovered
      <3>3. CASE m # n
        BY <1>6, <3>1, <3>3
      <3> QED
        BY <3>2, <3>3
    <2> QED
      BY <1>0, <2>1, <2>2 DEF SnapshotDeletes
  <1>11. NoResurrection'
    <2> SUFFICES ASSUME NEW m \in Gid, NEW p \in Gid, NEW i \in Deletes(p),
                        OwnStamp(p, i) =< Seen(m, p)
                 PROVE  Purged(Stamp(p, i), val'[m])
      BY <1>3, <1>7 DEF NoResurrection
    <2>1. Purged(Stamp(p, i), val[m])
      BY <1>0 DEF NoResurrection
    <2>2. CASE m = n
      <3>1. get_vcu_from_vc(Stamp(p, i), n) =< Seen(p, n)
        BY <1>0, DeleteFacts DEF Below, Seen
      <3>2. Seen(p, n) =< Seen(n, n)
        BY <1>0 DEF ClockLead
      <3>3. get_vcu_from_vc(Stamp(p, i), n) \in Nat
        BY <1>7, UnitType
      <3>4. get_vcu_from_vc(Stamp(p, i), n) < get_vcu_from_vc(vc, n)
        BY <1>3, <1>4, <3>1, <3>2, <3>3
      <3>5. Purged(Stamp(p, i), mono)
        BY <1>4, <1>7, <3>4, PurgedMono DEF mono
      <3>6. Purged(Stamp(p, i), merge(val[n], mono))
        BY <1>4, <1>5, <1>7, <2>1, <2>2, <3>5, PurgedMerge
      <3> QED
        BY <1>4, <1>5, <1>6, <1>7, <2>2, <3>6, PurgedPurge
    <2>3. CASE m # n
      BY <1>6, <2>1, <2>3
    <2> QED
      BY <2>2, <2>3
  <1> QED
    BY <1>2, <1>8, <1>9, <1>10, <1>11 DEF IndInv

\* A client's delete covers what its site knows; nobody else has seen it yet.
LEMMA DelStep ==
    ASSUME IndInv, TypeOK', NEW n \in Gid, Del(n)
    PROVE  IndInv'
  <1> DEFINE vc == incrLogicClock(vectorClock[n], n, 1)
             t == merge(tomb[n], vc)
             last == Len(stream[n]) + 1
  <1>0. /\ TypeOK /\ ClockLead /\ StampsOrdered /\ Retained /\ SnapshotClock
        /\ SnapshotValue /\ SnapshotDeletes /\ NoResurrection /\ NoSelfLink
    BY DEF IndInv
  <1>1. /\ Accepts(n)
        /\ vectorClock' = [vectorClock EXCEPT ![n] = vc]
        /\ Feed(n, "del", vc)
        /\ tomb' = [tomb EXCEPT ![n] = t]
        /\ val' = [val EXCEPT ![n] = purge(tomb'[n], @)]
        /\ UNCHANGED <<ovc, link, reploff, snapshot, breaks>>
    BY DEF Del
  <1>2. /\ ClockLead' /\ NoSelfLink' /\ StampsOrdered'
        /\ OffsetMatchesClock' /\ ObservedBehind' /\ SnapshotClock'
    BY <1>1, LocalStep, Zenon
  <1>3. /\ Seen(n, n)' = Seen(n, n) + 1
        /\ \A m, g \in Gid : <<m, g>> # <<n, n>> => Seen(m, g)' = Seen(m, g)
        /\ \A m, g \in Gid : Seen(m, g) \in Nat
        /\ \A a : \A m \in Gid : Below(a, vectorClock[m]) /\ a \in VectorClocks
                                 => Below(a, vectorClock'[m])
        /\ \A i : i = last => Stamp(n, i)' = vc /\ OwnStamp(n, i)' = Seen(n, n) + 1
        /\ \A p \in Gid : \A i \in 1..Len(stream[p]) :
             /\ Stamp(p, i)' = Stamp(p, i)
             /\ OwnStamp(p, i)' = OwnStamp(p, i)
             /\ i \in Deletes(p)' <=> i \in Deletes(p)
        /\ \A p \in Gid : \A i \in 1..Len(stream'[p]) :
             i \notin 1..Len(stream[p]) => p = n /\ i = last
        /\ \A p \in Gid : /\ Deletes(p)' \subseteq Updates(p)'
                          /\ Updates(p)' \subseteq 1..Len(stream'[p])
    BY <1>1, LocalFrame, Zenon
  <1>4. /\ vc \in VectorClocks
        /\ get_vcu_from_vc(vc, n) = Seen(n, n) + 1
        /\ val[n] \in VectorClocks /\ tomb[n] \in VectorClocks
    BY <1>0, <1>1, LocalClock DEF TypeOK
  <1> HIDE DEF vc
  <1>5. t \in VectorClocks /\ Below(vc, t)
    BY <1>4, BelowRefl, BelowMerge
  <1>6. \A a \in VectorClocks : Below(a, tomb[n]) => Below(a, t)
    BY <1>4, BelowMerge
  <1> HIDE DEF t
  <1>7. /\ tomb'[n] = t /\ val'[n] = purge(t, val[n])
        /\ \A m \in Gid : m # n => tomb'[m] = tomb[m] /\ val'[m] = val[m]
    BY <1>0, <1>1 DEF TypeOK
  <1>8. \A a \in VectorClocks : \A m \in Gid : Below(a, tomb[m]) => Below(a, tomb'[m])
    BY <1>6, <1>7
  <1>9. \A m \in Gid : \A a \in VectorClocks : Purged(a, val[m]) => Purged(a, val'[m])
    BY <1>4, <1>5, <1>7, PurgedPurge
  <1>10. ASSUME NEW p \in Gid, NEW i \in Deletes(p)
         PROVE  /\ Stamp(p, i)' = Stamp(p, i)
                /\ OwnStamp(p, i)' = OwnStamp(p, i)
                /\ Stamp(p, i) \in VectorClocks
                /\ \A m \in Gid : OwnStamp(p, i) =< Seen(m, p)' <=> OwnStamp(p, i) =< Seen(m, p)
    BY <1>0, <1>3, DeleteFacts, SMTT(20)
  <1>11. ASSUME NEW p \in Gid, NEW i \in Deletes(p)', i \notin Deletes(p)
         PROVE  /\ p = n /\ i = last
                /\ Stamp(p, i)' = vc
                /\ OwnStamp(p, i)' = Seen(n, n) + 1
                /\ \A m \in Gid : OwnStamp(p, i)' =< Seen(m, p)' => m = n
    <2>1. p = n /\ i = last
      BY <1>3, <1>11
    <2>2. Stamp(p, i)' = vc /\ OwnStamp(p, i)' = Seen(n, n) + 1
      BY <1>3, <2>1
    <2>3. \A m \in Gid : Seen(m, n) =< Seen(n, n)
      BY <1>0 DEF ClockLead
    <2> QED
      BY <1>3, <2>1, <2>2, <2>3
  <1>12. Purged(vc, purge(t, val[n]))
    <2>1. 0 < get_vcu_from_vc(vc, n)
      BY <1>3, <1>4
    <2> QED
      BY <1>4, <1>5, <2>1, PurgedCovered
  <1>13. Retained'
    <2> SUFFICES ASSUME NEW m \in Gid, NEW p \in Gid, NEW i \in Deletes(p)',
                        OwnStamp(p, i)' =< Seen(m, p)'
                 PROVE  \/ Below(Stamp(p, i)', tomb'[m])
                        \/ \A k \in Gid : Below(Stamp(p, i)', vectorClock'[k])
      BY DEF Retained
    <2>1. CASE i \in Deletes(p)
      BY <1>0, <1>3, <1>8, <1>10, <2>1, SMTT(20) DEF Retained
    <2>2. CASE i \notin Deletes(p)
      BY <1>5, <1>7, <1>11, <2>2
    <2> QED
      BY <2>1, <2>2
  <1>14. SnapshotValue'
    <2> SUFFICES ASSUME NEW m \in Gid, NEW p \in Gid, NEW q \in Gid, NEW i \in Deletes(q)',
                        link[m][p] \in {"MERGE_START", "MERGE"}
                 PROVE  LET s == snapshot[m][p]
                        IN  /\ OwnStamp(q, i)' =< get_vcu_from_vc(s.vc, q) =>
                                    Purged(Stamp(q, i)', s.val)
                            /\ OwnStamp(q, i)' =< Seen(m, q)' =>
                                    Below(Stamp(q, i)', tomb'[m]) \/ Purged(Stamp(q, i)', s.val)
      BY <1>1, ZenonT(30) DEF SnapshotValue
    <2>1. CASE i \in Deletes(q)
      <3>1. LET s == snapshot[m][p]
            IN  /\ OwnStamp(q, i) =< get_vcu_from_vc(s.vc, q) => Purged(Stamp(q, i), s.val)
                /\ OwnStamp(q, i) =< Seen(m, q) =>
                        Below(Stamp(q, i), tomb[m]) \/ Purged(Stamp(q, i), s.val)
        BY <1>0, <2>1 DEF SnapshotValue
      <3>2. /\ Stamp(q, i)' = Stamp(q, i) /\ OwnStamp(q, i)' = OwnStamp(q, i)
            /\ Stamp(q, i) \in VectorClocks
            /\ OwnStamp(q, i) =< Seen(m, q)' => OwnStamp(q, i) =< Seen(m, q)
        BY <1>10, <2>1
      <3>3. Below(Stamp(q, i), tomb[m]) => Below(Stamp(q, i), tomb'[m])
        BY <1>8, <3>2
      <3> QED
        BY <3>1, <3>2, <3>3
    <2>2. CASE i \notin Deletes(q)
      <3> DEFINE s == snapshot[m][p]
      <3>1. get_vcu_from_vc(s.vc, n) =< Seen(p, n)
        BY <1>0 DEF SnapshotClock, TransferStates, Below, Seen
      <3>2. Seen(p, n) =< Seen(n, n)
        BY <1>0 DEF ClockLead
      <3>3. get_vcu_from_vc(s.vc, n) \in Nat
        BY <1>0, SnapshotType, UnitType
      <3>4. q = n /\ ~(OwnStamp(q, i)' =< get_vcu_from_vc(s.vc, q))
        BY <1>3, <1>11, <2>2, <3>1, <3>2, <3>3
      <3>5. OwnStamp(q, i)' =< Seen(m, q)' => Below(Stamp(q, i)', tomb'[m])
        BY <1>5, <1>7, <1>11, <2>2
      <3> QED
        BY <3>4, <3>5
    <2> QED
      BY <2>1, <2>2, Zenon
  <1>15. SnapshotDeletes'
    <2> SUFFICES ASSUME NEW m \in Gid, NEW p \in Gid, NEW i \in Deletes(p)',
                        i =< snapshot[m][p].off, Seen(m, p)' < OwnStamp(p, i)'
                 PROVE  /\ link[m][p] \in {"MERGE_START", "MERGE", "MERGE_DEL"} =>
                                Below(Stamp(p, i)', snapshot[m][p].tomb)
                        /\ link[m][p] = "MERGE_END" =>
                                Below(Stamp(p, i)', tomb'[m]) /\ Purged(Stamp(p, i)', val'[m])
      BY <1>1, Zenon DEF SnapshotDeletes
    <2>1. CASE i \in Deletes(p)
      <3>1. Seen(m, p) < OwnStamp(p, i)
        <4>1. /\ OwnStamp(p, i)' = OwnStamp(p, i)
              /\ OwnStamp(p, i) =< Seen(m, p)' <=> OwnStamp(p, i) =< Seen(m, p)
          BY <1>10, <2>1
        <4>2. OwnStamp(p, i) \in Nat
          BY <1>0, <2>1, DeleteFacts
        <4>3. Seen(m, p) \in Nat /\ Seen(m, p)' \in Nat
          BY <1>3
        <4> QED
          BY <4>1, <4>2, <4>3
      <3> QED
        BY <1>0, <1>8, <1>9, <1>10, <2>1, <3>1, Zenon DEF SnapshotDeletes
    <2>2. CASE i \notin Deletes(p)
      <3>1. p = n /\ i = last
        BY <1>11, <2>2
      <3>2. link[m][p] \in TransferStates => snapshot[m][p].off =< Len(stream[n])
        BY <1>0, <3>1 DEF SnapshotClock, Splits
      <3>3. Len(stream[n]) \in Nat /\ snapshot[m][p].off \in Nat
        BY <1>0, StampType, SnapshotType
      <3> QED
        BY <3>1, <3>2, <3>3 DEF TransferStates
    <2> QED
      BY <2>1, <2>2
  <1>16. NoResurrection'
    <2> SUFFICES ASSUME NEW m \in Gid, NEW p \in Gid, NEW i \in Deletes(p)',
                        OwnStamp(p, i)' =< Seen(m, p)'
                 PROVE  Purged(Stamp(p, i)', val'[m])
      BY DEF NoResurrection
    <2>1. CASE i \in Deletes(p)
      BY <1>0, <1>9, <1>10, <2>1 DEF NoResurrection
    <2>2. CASE i \notin Deletes(p)
      BY <1>7, <1>11, <1>12, <2>2
    <2> QED
      BY <2>1, <2>2
  <1> QED
    BY <1>2, <1>13, <1>14, <1>15, <1>16 DEF IndInv

\* An announcement of a clock is neither a write nor a delete.
LEMMA OvcStep ==
    ASSUME IndInv, TypeOK', NEW n \in Gid, sendObservedVectorClock(n)
    PROVE  IndInv'
  <1>0. TypeOK /\ StampsOrdered /\ vectorClock[n] \in VectorClocks
    BY DEF IndInv, TypeOK
  <1>1. /\ Feed(n, "ovc", vectorClock[n])
        /\ UNCHANGED <<vectorClock, ovc, val, tomb, link, reploff, snapshot, breaks>>
    BY DEF sendObservedVectorClock
  <1>2. ASSUME NEW p \in Gid
        PROVE  /\ Len(stream[p]) =< Len(stream'[p])
               /\ \A i \in 1..Len(stream[p]) :
                    Stamp(p, i)' = Stamp(p, i) /\ OwnStamp(p, i)' = OwnStamp(p, i)
               /\ \A i \in 1..Len(stream'[p]) :
                    i \notin 1..Len(stream[p]) => p = n /\ i = Len(stream[n]) + 1
               /\ \A i : i = Len(stream[n]) + 1 => Stamp(n, i)' = vectorClock[n]
               /\ Updates(p)' = Updates(p)
               /\ Deletes(p)' = Deletes(p)
    BY <1>0, <1>1, FedStream
  <1>3. \A p \in Gid : /\ Len(stream[p]) \in Nat
                       /\ Len(stream'[p]) \in Nat
                       /\ Deletes(p) \subseteq 1..Len(stream[p])
                       /\ Updates(p) \subseteq 1..Len(stream[p])
    <2>1. \A p \in Gid : Len(stream'[p]) \in Nat
      BY DEF TypeOK
    <2> QED
      BY <1>0, <2>1, StampType
  <1>4. \A m, g : Seen(m, g)' = Seen(m, g)
    BY <1>1 DEF Seen
  <1>5. ClockLead' /\ NoSelfLink' /\ ObservedBehind'
    BY <1>1, <1>4 DEF IndInv, ClockLead, NoSelfLink, ObservedBehind
  <1>6. StampsOrdered'
    <2> SUFFICES ASSUME NEW p \in Gid, NEW i \in 1..Len(stream'[p])
                 PROVE  /\ Below(Stamp(p, i)', vectorClock[p])
                        /\ i \in Updates(p) => 0 < OwnStamp(p, i)'
                        /\ \A j \in Updates(p) : i < j => OwnStamp(p, i)' < OwnStamp(p, j)'
      BY <1>1, <1>2 DEF StampsOrdered
    <2>1. CASE i \in 1..Len(stream[p])
      BY <1>0, <1>2, <1>3, <2>1 DEF StampsOrdered
    <2>2. CASE i \notin 1..Len(stream[p])
      <3>1. p = n /\ i = Len(stream[n]) + 1
        BY <1>2, <2>2
      <3>2. Below(Stamp(p, i)', vectorClock[p])
        BY <1>0, <1>2, <3>1, BelowRefl
      <3>3. \A j \in Updates(p) : ~(i < j)
        BY <1>3, <3>1
      <3> QED
        BY <1>3, <2>2, <3>2, <3>3
    <2> QED
      BY <2>1, <2>2
  <1>7. ASSUME NEW p \in Gid, NEW off \in Nat, NEW clock, Splits(p, off, clock)
        PROVE  /\ off =< Len(stream'[p])
               /\ \A i \in Updates(p)' : i =< off <=> OwnStamp(p, i)' =< clock
    BY <1>2, <1>3, <1>7 DEF Splits
  <1>8. OffsetMatchesClock'
    <2> SUFFICES ASSUME NEW m \in Gid, NEW p \in Gid, link[m][p] \in {"CACHED", "CONNECTED"}
                 PROVE  /\ reploff[m][p] =< Len(stream'[p])
                        /\ \A i \in Updates(p)' : i =< reploff[m][p]
                                <=> OwnStamp(p, i)' =< Seen(m, p)
      BY <1>1, <1>4 DEF OffsetMatchesClock, Splits
    <2>1. reploff[m][p] \in Nat /\ Splits(p, reploff[m][p], Seen(m, p))
      BY DEF IndInv, TypeOK, OffsetMatchesClock
    <2> QED
      BY <1>7, <2>1
  <1>9. SnapshotClock'
    <2> SUFFICES ASSUME NEW m \in Gid, NEW p \in Gid, link[m][p] \in TransferStates
                 PROVE  LET s == snapshot[m][p]
                        IN  /\ Below(s.vc, vectorClock[p])
                            /\ Below(ovc[m][p], s.vc)
                            /\ p \in DOMAIN s.vc
                            /\ Seen(m, p) =< get_vcu_from_vc(s.vc, p)
                            /\ s.off =< Len(stream'[p])
                            /\ \A i \in Updates(p)' :
                                 i =< s.off <=> OwnStamp(p, i)' =< get_vcu_from_vc(s.vc, p)
      BY <1>1, <1>4, Zenon DEF SnapshotClock, Splits
    <2> DEFINE s == snapshot[m][p]
    <2>1. /\ Below(s.vc, vectorClock[p])
          /\ Below(ovc[m][p], s.vc)
          /\ p \in DOMAIN s.vc
          /\ Seen(m, p) =< get_vcu_from_vc(s.vc, p)
          /\ Splits(p, s.off, get_vcu_from_vc(s.vc, p))
      BY Zenon DEF IndInv, SnapshotClock
    <2>2. s.off \in Nat
      BY <1>0, SnapshotType
    <2> QED
      BY <1>7, <2>1, <2>2
  <1>10. \A p \in Gid : \A i \in Deletes(p) :
            Stamp(p, i)' = Stamp(p, i) /\ OwnStamp(p, i)' = OwnStamp(p, i)
    BY <1>2, <1>3
  <1>11. Retained' /\ SnapshotValue' /\ SnapshotDeletes' /\ NoResurrection'
    <2>1. /\ vectorClock' = vectorClock /\ val' = val /\ tomb' = tomb
          /\ link' = link /\ snapshot' = snapshot
      BY <1>1
    <2>2. \A p \in Gid : Deletes(p)' = Deletes(p)
      BY <1>2
    <2>3. Retained /\ SnapshotValue /\ SnapshotDeletes /\ NoResurrection
      BY DEF IndInv
    <2>4. Retained'
      BY <1>4, <1>10, <2>1, <2>2, <2>3 DEF Retained
    <2>5. SnapshotValue'
      <3> SUFFICES ASSUME NEW m \in Gid, NEW p \in Gid, NEW q \in Gid, NEW i \in Deletes(q),
                          link[m][p] \in {"MERGE_START", "MERGE"}
                   PROVE  LET s == snapshot[m][p]
                          IN  /\ OwnStamp(q, i)' =< get_vcu_from_vc(s.vc, q) =>
                                      Purged(Stamp(q, i)', s.val)
                              /\ OwnStamp(q, i)' =< Seen(m, q)' =>
                                      \/ Below(Stamp(q, i)', tomb[m])
                                      \/ Purged(Stamp(q, i)', s.val)
        BY <2>1, <2>2, ZenonT(30) DEF SnapshotValue
      <3>1. /\ Stamp(q, i)' = Stamp(q, i) /\ OwnStamp(q, i)' = OwnStamp(q, i)
            /\ Seen(m, q)' = Seen(m, q)
        BY <1>4, <1>10
      <3> QED
        BY <2>3, <3>1, Zenon DEF SnapshotValue
    <2>6. SnapshotDeletes'
      <3> SUFFICES ASSUME NEW m \in Gid, NEW p \in Gid, NEW i \in Deletes(p),
                          i =< snapshot[m][p].off, Seen(m, p)' < OwnStamp(p, i)'
                   PROVE  /\ link[m][p] \in {"MERGE_START", "MERGE", "MERGE_DEL"} =>
                                  Below(Stamp(p, i)', snapshot[m][p].tomb)
                          /\ link[m][p] = "MERGE_END" =>
                                  Below(Stamp(p, i)', tomb[m]) /\ Purged(Stamp(p, i)', val[m])
        BY <2>1, <2>2 DEF SnapshotDeletes
      <3>1. /\ Stamp(p, i)' = Stamp(p, i) /\ OwnStamp(p, i)' = OwnStamp(p, i)
            /\ Seen(m, p)' = Seen(m, p)
        BY <1>4, <1>10
      <3> QED
        BY <2>3, <3>1 DEF SnapshotDeletes
    <2>7. NoResurrection'
      BY <1>4, <1>10, <2>1, <2>2, <2>3 DEF NoResurrection
    <2> QED
      BY <2>4, <2>5, <2>6, <2>7
  <1> QED
    BY <1>5, <1>6, <1>8, <1>9, <1>11 DEF IndInv

\* A tombstone that may be collected has been seen by every site.
LEMMA GcStable ==
    ASSUME IndInv, NEW n \in Gid, gc(tomb[n], getGcVectorClock(n)), NEW m \in Gid
    PROVE  Below(tomb[n], vectorClock[m])
  <1> SUFFICES ASSUME NEW g \in Gid PROVE get_vcu_from_vc(tomb[n], g) =< Seen(m, g)
    BY DEF Below, Seen
  <1>0. TypeOK
    BY DEF IndInv
  <1>1. CASE m = n
    BY <1>0, <1>1, GcBound
  <1>2. CASE m # n
    <2>1. get_vcu_from_vc(tomb[n], g) =< get_vcu_from_vc(ovc[n][m], g)
      BY <1>0, <1>2, GcBound DEF Peers
    <2>2. get_vcu_from_vc(ovc[n][m], g) =< Seen(m, g)
      BY Zenon DEF IndInv, ObservedBehind, Below, Seen
    <2>3. tomb[n] \in VectorClocks /\ ovc[n][m] \in VectorClocks
      BY <1>0 DEF TypeOK
    <2>4. get_vcu_from_vc(tomb[n], g) \in Nat /\ get_vcu_from_vc(ovc[n][m], g) \in Nat
      BY <2>3, UnitType
    <2>5. Seen(m, g) \in Nat
      BY <1>0, SeenType
    <2> QED
      BY <2>1, <2>2, <2>4, <2>5
  <1> QED
    BY <1>1, <1>2

\* Collecting a tombstone loses no delete that is still needed: all sites have
\* seen it, and so had the source of every snapshot that is on its way.
LEMMA GcStep ==
    ASSUME IndInv, TypeOK', NEW n \in Gid, Gc(n)
    PROVE  IndInv'
  <1>0. /\ TypeOK /\ StampsOrdered /\ Retained /\ SnapshotClock /\ SnapshotValue
        /\ SnapshotDeletes /\ NoResurrection /\ NoSelfLink
    BY DEF IndInv
  <1>1. /\ gc(tomb[n], getGcVectorClock(n))
        /\ UNCHANGED <<vectorClock, ovc, val, stream, link, reploff, snapshot, breaks>>
        /\ \A m \in Gid : m # n => tomb'[m] = tomb[m]
    BY <1>0 DEF Gc, TypeOK
  <1>2. \A p : /\ Deletes(p)' = Deletes(p)
               /\ Updates(p)' = Updates(p)
               /\ \A i : Stamp(p, i)' = Stamp(p, i) /\ OwnStamp(p, i)' = OwnStamp(p, i)
    BY <1>1, SameStream
  <1>3. \A m, g : Seen(m, g)' = Seen(m, g)
    BY <1>1 DEF Seen
  <1>4. tomb[n] \in VectorClocks /\ \A m \in Gid : vectorClock[m] \in VectorClocks
    BY <1>0 DEF TypeOK
  <1>5. ClockLead' /\ NoSelfLink' /\ StampsOrdered' /\ ObservedBehind' /\ NoResurrection'
    BY <1>1, <1>2, <1>3, Zenon DEF IndInv, ClockLead, NoSelfLink, StampsOrdered, ObservedBehind,
                            NoResurrection
  <1>6. OffsetMatchesClock' /\ SnapshotClock'
    BY <1>1, <1>2, <1>3, Zenon DEF IndInv, OffsetMatchesClock, SnapshotClock, Splits
  <1>7. Retained'
    <2> SUFFICES ASSUME NEW m \in Gid, NEW p \in Gid, NEW i \in Deletes(p),
                        OwnStamp(p, i) =< Seen(m, p)
                 PROVE  \/ Below(Stamp(p, i), tomb'[m])
                        \/ \A k \in Gid : Below(Stamp(p, i), vectorClock[k])
      BY <1>1, <1>2, <1>3, Zenon DEF Retained
    <2>1. \/ Below(Stamp(p, i), tomb[m])
          \/ \A k \in Gid : Below(Stamp(p, i), vectorClock[k])
      BY <1>0 DEF Retained
    <2>2. CASE m = n /\ Below(Stamp(p, i), tomb[n])
      <3>1. Stamp(p, i) \in VectorClocks
        BY <1>0, DeleteFacts
      <3>2. \A k \in Gid : Below(tomb[n], vectorClock[k])
        BY <1>1, GcStable
      <3> QED
        BY <1>4, <2>2, <3>1, <3>2, BelowTrans
    <2> QED
      BY <1>1, <2>1, <2>2, Zenon
  <1>8. SnapshotValue'
    <2> SUFFICES ASSUME NEW m \in Gid, NEW p \in Gid, NEW q \in Gid, NEW i \in Deletes(q),
                        link[m][p] \in {"MERGE_START", "MERGE"},
                        OwnStamp(q, i) =< Seen(m, q), Below(Stamp(q, i), tomb[m])
                 PROVE  Below(Stamp(q, i), tomb'[m]) \/ Purged(Stamp(q, i), snapshot[m][p].val)
      BY <1>0, <1>1, <1>2, <1>3, Zenon DEF SnapshotValue
    <2> DEFINE s == snapshot[m][p]
    <2>1. CASE m # n
      BY <1>1, <2>1, Zenon
    <2>2. CASE m = n
      <3>1. p \in Peers(n)
        BY <1>0, <2>2 DEF NoSelfLink, Peers
      <3>2. OwnStamp(q, i) =< get_vcu_from_vc(tomb[n], q)
        BY <2>2 DEF Below, OwnStamp
      <3>3. get_vcu_from_vc(tomb[n], q) =< get_vcu_from_vc(ovc[n][p], q)
        BY <1>0, <1>1, <3>1, GcBound
      <3>4. get_vcu_from_vc(ovc[n][p], q) =< get_vcu_from_vc(s.vc, q)
        BY <1>0, <2>2, Zenon DEF SnapshotClock, TransferStates, Below
      <3>5. ovc[n][p] \in VectorClocks /\ s.vc \in VectorClocks
        <4>1. ovc[n][p] \in VectorClocks
          BY <1>0 DEF TypeOK
        <4> QED
          BY <1>0, <4>1, SnapshotType, Zenon
      <3>6. /\ OwnStamp(q, i) \in Nat
            /\ get_vcu_from_vc(tomb[n], q) \in Nat
            /\ get_vcu_from_vc(ovc[n][p], q) \in Nat
            /\ get_vcu_from_vc(s.vc, q) \in Nat
        BY <1>0, <1>4, <3>5, UnitType, DeleteFacts, Zenon
      <3>7. OwnStamp(q, i) =< get_vcu_from_vc(s.vc, q)
        BY <3>2, <3>3, <3>4, <3>6
      <3> QED
        BY <1>0, <3>7, Zenon DEF SnapshotValue
    <2> QED
      BY <2>1, <2>2
  <1>9. SnapshotDeletes'
    <2> SUFFICES ASSUME NEW m \in Gid, NEW p \in Gid, NEW i \in Deletes(p),
                        i =< snapshot[m][p].off, Seen(m, p) < OwnStamp(p, i),
                        link[m][p] = "MERGE_END"
                 PROVE  Below(Stamp(p, i), tomb'[m])
      BY <1>0, <1>1, <1>2, <1>3, Zenon DEF SnapshotDeletes
    <2>1. Below(Stamp(p, i), tomb[m])
      BY <1>0 DEF SnapshotDeletes
    <2>2. CASE m = n
      <3>1. OwnStamp(p, i) =< get_vcu_from_vc(tomb[n], p)
        BY <2>1, <2>2 DEF Below, OwnStamp
      <3>2. get_vcu_from_vc(tomb[n], p) =< Seen(n, p)
        BY <1>0, <1>1, GcBound, Zenon
      <3>3. OwnStamp(p, i) \in Nat /\ Seen(n, p) \in Nat /\ get_vcu_from_vc(tomb[n], p) \in Nat
        BY <1>0, <1>4, UnitType, DeleteFacts, SeenType, Zenon
      <3> QED
        BY <2>2, <3>1, <3>2, <3>3
    <2> QED
      BY <1>1, <2>1, <2>2
  <1> QED
    BY <1>5, <1>6, <1>7, <1>8, <1>9 DEF IndInv

-----------------------------------------------------------------------------
(*****************************************************************************)
(* The writes, deletes and announcements of a site keep HistoryInv.          *)
(*****************************************************************************)

\* A site's own write.
LEMMA SetHistory ==
    ASSUME IndInv, HistoryInv, NEW n \in Gid, Set(n)
    PROVE  HistoryInv'
  <1> DEFINE vc == incrLogicClock(vectorClock[n], n, 1)
             one == getMonoVectorClock(vc, n)
             w0 == get_vcu_from_vc(vc, n)
  <1>0. /\ TypeOK /\ NothingInvented /\ WritesKept /\ NoSelfLink
        /\ Accepts(n) /\ Feed(n, "set", vc)
        /\ vectorClock' = [vectorClock EXCEPT ![n] = vc]
        /\ val' = [val EXCEPT ![n] = purge(tomb[n], merge(val[n], one))]
        /\ UNCHANGED <<ovc, tomb, link, reploff, snapshot, breaks>>
    BY DEF IndInv, HistoryInv, Set
  <1>1. vc \in VectorClocks /\ n \in DOMAIN vc /\ w0 = Seen(n, n) + 1 /\ w0 \in 0..MaxClock
    BY <1>0, LocalClock, UnitType, Zenon
  <1>2. /\ Seen(n, n)' = Seen(n, n) + 1
        /\ Seen(n, n) \in Nat
        /\ \A m, q \in Gid : <<m, q>> # <<n, n>> => Seen(m, q)' = Seen(m, q)
    BY <1>0, LocalFrame, Zenon
  <1>3. /\ one \in VectorClocks
        /\ DOMAIN one = {n}
        /\ one[n] = w0
    BY <1>1, MonoUnit DEF getMonoVectorClock, get_vcu_from_vc
  <1> HIDE DEF vc, one, w0
  <1>4. /\ Extends(stream, stream')
        /\ \A g \in Gid : \A w : WriteIn(stream', g, w) =>
                WriteIn(stream, g, w) \/ (g = n /\ w = w0)
        /\ WriteIn(stream', n, w0)
    BY <1>0, <1>1, FedWrites, Zenon DEF w0
  <1>5. /\ val[n] \in VectorClocks /\ tomb[n] \in VectorClocks
        /\ val'[n] = purge(tomb[n], merge(val[n], one))
        /\ \A m \in Gid : m # n => val'[m] = val[m]
    BY <1>0 DEF TypeOK
  <1>6. OnlyWrites(stream', val[n]) /\ OnlyDeletes(stream', tomb[n])
    BY <1>0, <1>4, <1>5, ExtendsOnly, Zenon DEF NothingInvented
  <1>7. OnlyWrites(stream', one)
    BY <1>3, <1>4 DEF OnlyWrites
  <1>8. /\ Retains(stream', val[n], val'[n])
        /\ Retains(stream', one, val'[n])
        /\ OnlyWrites(stream', val'[n])
    BY <1>3, <1>5, <1>6, <1>7, MergePurge
  <1>9. \A m \in Gid : Retains(stream', val[m], val'[m])
    BY <1>5, <1>8, RetainsSame
  <1>10. NothingInvented'
    BY <1>0, <1>4, <1>5, <1>8, InventedStep, Zenon
  <1>11. Kept(stream', one, n, w0)
    BY <1>1, <1>3 DEF Kept
  <1>12. w0 \in 1..MaxClock
    BY <1>1, <1>2
  <1>13. Kept(stream', val'[n], n, w0)
    BY <1>8, <1>11, <1>12 DEF Retains
  <1>14. \A w \in 1..MaxClock : WriteIn(stream', n, w) /\ w =< Seen(n, n)' =>
                \/ Kept(stream', val'[n], n, w)
                \/ WriteIn(stream, n, w) /\ w =< Seen(n, n)
    BY <1>0, <1>1, <1>2, <1>4, <1>13, WriteSeen, Zenon DEF IndInv
  <1>15. KeptBetween(stream', val'[n], n, 0, Seen(n, n)')
    BY <1>0, <1>4, <1>8, <1>14, KeptStep
  <1>16. BroughtWrites(n, n)'
    BY <1>0, Zenon DEF BroughtWrites, NoSelfLink
  <1>17. \A g \in Gid : \A w \in 1..MaxClock :
                WriteIn(stream', g, w) => WriteIn(stream, g, w) \/ Seen(g, g) < w
    BY <1>1, <1>2, <1>4
  <1>18. \A m, q \in Gid : <<m, q>> # <<n, n>> => /\ link'[m][q] = link[m][q]
                                                  /\ snapshot'[m][q] = snapshot[m][q]
                                                  /\ Seen(m, q)' = Seen(m, q)
    BY <1>0, <1>2, Zenon
  <1> QED
    BY <1>4, <1>9, <1>10, <1>15, <1>16, <1>17, <1>18, HistoryStep, Zenon

\* A site's own delete.
LEMMA DelHistory ==
    ASSUME IndInv, HistoryInv, NEW n \in Gid, Del(n)
    PROVE  HistoryInv'
  <1> DEFINE vc == incrLogicClock(vectorClock[n], n, 1)
  <1>0. /\ TypeOK /\ NothingInvented /\ WritesKept /\ NoSelfLink
        /\ Accepts(n) /\ Feed(n, "del", vc)
        /\ vectorClock' = [vectorClock EXCEPT ![n] = vc]
        /\ tomb' = [tomb EXCEPT ![n] = merge(tomb[n], vc)]
        /\ val' = [val EXCEPT ![n] = purge(tomb'[n], val[n])]
        /\ UNCHANGED <<ovc, link, reploff, snapshot, breaks>>
    BY DEF IndInv, HistoryInv, Del
  <1>1. vc \in VectorClocks
    BY <1>0, LocalClock
  <1>2. /\ Seen(n, n)' = Seen(n, n) + 1
        /\ Seen(n, n) \in Nat
        /\ \A m, q \in Gid : <<m, q>> # <<n, n>> => Seen(m, q)' = Seen(m, q)
    BY <1>0, LocalFrame, Zenon
  <1> HIDE DEF vc
  <1>4. /\ Extends(stream, stream')
        /\ \A g \in Gid : \A w : WriteIn(stream', g, w) => WriteIn(stream, g, w)
        /\ OnlyDeletes(stream', vc)
    BY <1>0, <1>1, FedWrites
  <1>5. /\ val[n] \in VectorClocks /\ tomb[n] \in VectorClocks
        /\ tomb'[n] = merge(tomb[n], vc)
        /\ val'[n] = purge(tomb'[n], val[n])
        /\ \A m \in Gid : m # n => val'[m] = val[m] /\ tomb'[m] = tomb[m]
    BY <1>0 DEF TypeOK
  <1>6. OnlyWrites(stream', val[n]) /\ OnlyDeletes(stream', tomb[n])
    BY <1>0, <1>4, <1>5, ExtendsOnly, Zenon DEF NothingInvented
  <1>7. tomb'[n] \in VectorClocks /\ OnlyDeletes(stream', tomb'[n])
    <2>1. /\ merge(tomb[n], vc) \in VectorClocks
          /\ OnlyDeletes(stream', tomb[n]) /\ OnlyDeletes(stream', vc)
                => OnlyDeletes(stream', merge(tomb[n], vc))
      BY <1>1, <1>5, MergeOnly, Zenon
    <2> QED
      BY <1>4, <1>5, <1>6, <2>1, Zenon
  <1>8. Retains(stream', val[n], val'[n]) /\ OnlyWrites(stream', val'[n])
    BY <1>5, <1>6, <1>7, PurgeRetains, PurgeOnly, Zenon
  <1>9. \A m \in Gid : Retains(stream', val[m], val'[m])
    BY <1>5, <1>8, RetainsSame
  <1>10. NothingInvented'
    BY <1>0, <1>4, <1>5, <1>7, <1>8, InventedStep, Zenon
  <1>14. \A w \in 1..MaxClock : WriteIn(stream', n, w) /\ w =< Seen(n, n)' =>
                WriteIn(stream, n, w) /\ w =< Seen(n, n)
    BY <1>0, <1>4, WriteSeen DEF IndInv
  <1>15. KeptBetween(stream', val'[n], n, 0, Seen(n, n)')
    BY <1>0, <1>4, <1>8, <1>14, KeptStep
  <1>16. BroughtWrites(n, n)'
    BY <1>0, Zenon DEF BroughtWrites, NoSelfLink
  <1>18. \A m, q \in Gid : <<m, q>> # <<n, n>> => /\ link'[m][q] = link[m][q]
                                                  /\ snapshot'[m][q] = snapshot[m][q]
                                                  /\ Seen(m, q)' = Seen(m, q)
    BY <1>0, <1>2, Zenon
  <1> QED
    BY <1>4, <1>9, <1>10, <1>15, <1>16, <1>18, HistoryStep, Zenon

\* An announcement, which only makes a stream longer.
LEMMA OvcHistory ==
    ASSUME IndInv, HistoryInv, NEW n \in Gid, sendObservedVectorClock(n)
    PROVE  HistoryInv'
  <1>0. /\ TypeOK /\ NothingInvented /\ WritesKept /\ NoSelfLink
        /\ Feed(n, "ovc", vectorClock[n])
        /\ UNCHANGED <<vectorClock, val, tomb, link, snapshot>>
    BY Zenon DEF IndInv, HistoryInv, sendObservedVectorClock
  <1>1. vectorClock[n] \in VectorClocks
    BY <1>0 DEF TypeOK
  <1>2. /\ Extends(stream, stream')
        /\ \A g \in Gid : \A w : WriteIn(stream', g, w) => WriteIn(stream, g, w)
    BY <1>0, <1>1, FedWrites
  <1>3. \A m, q : Seen(m, q)' = Seen(m, q)
    BY <1>0 DEF Seen
  <1>4. NothingInvented'
    BY <1>0, <1>2, InventedStep
  <1>5. \A m \in Gid : Retains(stream', val[m], val'[m])
    BY <1>0, RetainsSame
  <1>6. KeptBetween(stream', val'[n], n, 0, Seen(n, n)')
    BY <1>0, <1>2, <1>3, <1>5, KeptStep, Zenon
  <1>7. BroughtWrites(n, n)'
    BY <1>0, Zenon DEF BroughtWrites, NoSelfLink
  <1> QED
    BY <1>0, <1>2, <1>3, <1>4, <1>5, <1>6, <1>7, HistoryStep, Zenon
=============================================================================
