----------------------- MODULE PeerReplicationProofs -----------------------
(***************************************************************************)
(* Proofs about PeerReplication, for any finite set of sites and any       *)
(* bounds: what the operators on clocks return, the types, that the        *)
(* operations on values and tombstones respect writes and deletes, and     *)
(* that sites whose streams are drained agree.                             *)
(***************************************************************************)
EXTENDS PeerReplication, WellFoundedInduction, TLAPS

-----------------------------------------------------------------------------
(*****************************************************************************)
(* What the operators of VectorClock return, unit by unit.  The proofs       *)
(* about replication cite these lemmas and never look into the clocks.       *)
(*****************************************************************************)

\* A vector clock is a function on some of the gids.
LEMMA VcElim ==
    ASSUME NEW vc \in VectorClocks
    PROVE  /\ DOMAIN vc \subseteq Gid
           /\ vc \in [DOMAIN vc -> 0..MaxClock]
           /\ \A g \in DOMAIN vc : vc[g] \in 0..MaxClock
  BY DEF VectorClocks

\* Conversely, every such function is a vector clock.
LEMMA VcIntro ==
    ASSUME NEW D \in SUBSET Gid, NEW vc \in [D -> 0..MaxClock]
    PROVE  vc \in VectorClocks
  BY DEF VectorClocks

\* newVectorClock(0) is a vector clock, and a null one.
LEMMA NullType == NullVectorClock \in VectorClocks /\ isNullVectorClock(NullVectorClock)
  <1>1. NullVectorClock \in [{} -> 0..MaxClock]
    BY DEF NullVectorClock
  <1> QED
    BY <1>1, VcIntro, Zenon DEF NullVectorClock, isNullVectorClock

\* The unit of any gid is a logic clock.
LEMMA UnitType ==
    ASSUME NEW vc \in VectorClocks, NEW g
    PROVE  /\ get_vcu_from_vc(vc, g) \in 0..MaxClock
           /\ get_vcu_from_vc(vc, g) \in Nat
  BY VcElim, MaxClockAssumption DEF get_vcu_from_vc

\* get_vcu_from_vc finds clock zero for every gid of a null clock.
LEMMA UnitNull ==
    ASSUME NEW g
    PROVE  get_vcu_from_vc(NullVectorClock, g) = 0
  BY DEF get_vcu_from_vc, NullVectorClock

\* addVectorClockUnit sets one unit and keeps the others.
LEMMA AddUnit ==
    ASSUME NEW vc \in VectorClocks, NEW gid \in Gid, NEW t \in 0..MaxClock
    PROVE  /\ addVectorClockUnit(vc, gid, t) \in VectorClocks
           /\ DOMAIN addVectorClockUnit(vc, gid, t) = DOMAIN vc \cup {gid}
           /\ get_vcu_from_vc(addVectorClockUnit(vc, gid, t), gid) = t
           /\ \A g : g # gid => get_vcu_from_vc(addVectorClockUnit(vc, gid, t), g)
                                = get_vcu_from_vc(vc, g)
  <1> DEFINE D == DOMAIN vc \cup {gid}
             res == addVectorClockUnit(vc, gid, t)
  <1>1. D \in SUBSET Gid
    BY VcElim
  <1>2. res \in [D -> 0..MaxClock]
    BY VcElim DEF addVectorClockUnit
  <1>3. res \in VectorClocks
    BY <1>1, <1>2, VcIntro
  <1> QED
    BY <1>2, <1>3 DEF addVectorClockUnit, get_vcu_from_vc

\* incrLogicClock advances the unit of a gid that the clock holds.
LEMMA IncrUnit ==
    ASSUME NEW vc \in VectorClocks, NEW gid \in DOMAIN vc, vc[gid] < MaxClock
    PROVE  /\ incrLogicClock(vc, gid, 1) \in VectorClocks
           /\ DOMAIN incrLogicClock(vc, gid, 1) = DOMAIN vc
           /\ get_vcu_from_vc(incrLogicClock(vc, gid, 1), gid)
                = get_vcu_from_vc(vc, gid) + 1
           /\ \A g : g # gid => get_vcu_from_vc(incrLogicClock(vc, gid, 1), g)
                                = get_vcu_from_vc(vc, g)
  <1> DEFINE res == incrLogicClock(vc, gid, 1)
  <1>1. vc \in [DOMAIN vc -> 0..MaxClock] /\ vc[gid] \in 0..MaxClock /\ DOMAIN vc \in SUBSET Gid
    BY VcElim
  <1>2. res \in [DOMAIN vc -> 0..MaxClock]
    BY <1>1, MaxClockAssumption DEF incrLogicClock
  <1>3. res \in VectorClocks
    BY <1>1, <1>2, VcIntro
  <1> QED
    BY <1>1, <1>2, <1>3 DEF incrLogicClock, get_vcu_from_vc

\* mergeLogicClock raises one unit to that of the source.
LEMMA MergeOneUnit ==
    ASSUME NEW dst \in VectorClocks, NEW src \in VectorClocks, NEW gid \in Gid
    PROVE  /\ mergeLogicClock(dst, src, gid) \in VectorClocks
           /\ DOMAIN dst \subseteq DOMAIN mergeLogicClock(dst, src, gid)
           /\ get_vcu_from_vc(mergeLogicClock(dst, src, gid), gid)
                = max(get_vcu_from_vc(src, gid), get_vcu_from_vc(dst, gid))
           /\ \A g : g # gid => get_vcu_from_vc(mergeLogicClock(dst, src, gid), g)
                                = get_vcu_from_vc(dst, g)
  <1> DEFINE t == max(src[gid], get_vcu_from_vc(dst, gid))
  <1>0. get_vcu_from_vc(dst, gid) \in 0..MaxClock
    BY UnitType
  <1>1. CASE gid \in DOMAIN src
    <2>1. src[gid] \in 0..MaxClock /\ t \in 0..MaxClock
      BY <1>0, <1>1, VcElim DEF max
    <2>2. mergeLogicClock(dst, src, gid) = addVectorClockUnit(dst, gid, t)
      BY <1>1 DEF mergeLogicClock
    <2>3. get_vcu_from_vc(src, gid) = src[gid]
      BY <1>1 DEF get_vcu_from_vc
    <2> HIDE DEF t
    <2>4. max(get_vcu_from_vc(src, gid), get_vcu_from_vc(dst, gid)) = t
      BY <2>3 DEF t
    <2> DEFINE res == addVectorClockUnit(dst, gid, t)
    <2>5. /\ res \in VectorClocks
          /\ DOMAIN res = DOMAIN dst \cup {gid}
          /\ get_vcu_from_vc(res, gid) = t
          /\ \A g : g # gid => get_vcu_from_vc(res, g) = get_vcu_from_vc(dst, g)
      BY <2>1, AddUnit, Zenon
    <2> QED
      BY <2>2, <2>4, <2>5
  <1>2. CASE gid \notin DOMAIN src
    BY <1>0, <1>2 DEF mergeLogicClock, get_vcu_from_vc, max
  <1> QED
    BY <1>1, <1>2

\* updateProcessVectorClock of another site's command is mergeLogicClock; of
\* the own one it replaces the unit.  Either way it only touches that unit.
LEMMA UpdateProcessUnit ==
    ASSUME NEW dst \in VectorClocks, NEW src \in VectorClocks,
           NEW gid \in Gid, NEW currentGid \in Gid
    PROVE  /\ updateProcessVectorClock(dst, src, gid, currentGid) \in VectorClocks
           /\ DOMAIN dst \subseteq DOMAIN updateProcessVectorClock(dst, src, gid, currentGid)
           /\ gid # currentGid =>
                updateProcessVectorClock(dst, src, gid, currentGid)
                    = mergeLogicClock(dst, src, gid)
  <1>1. CASE gid = currentGid
    <2>1. CASE gid \in DOMAIN src
      <3>1. src[gid] \in 0..MaxClock
        BY <2>1, VcElim
      <3> DEFINE res == addVectorClockUnit(dst, gid, src[gid])
      <3>2. res \in VectorClocks /\ DOMAIN res = DOMAIN dst \cup {gid}
        BY <3>1, AddUnit, Zenon
      <3>3. updateProcessVectorClock(dst, src, gid, currentGid) = res
        BY <1>1, <2>1 DEF updateProcessVectorClock, alignLogicClock
      <3> QED
        BY <1>1, <3>2, <3>3
    <2> QED
      BY <1>1, <2>1 DEF updateProcessVectorClock, alignLogicClock
  <1>2. CASE gid # currentGid
    BY <1>2, MergeOneUnit DEF updateProcessVectorClock
  <1> QED
    BY <1>1, <1>2

\* vectorClockMerge is the unit-wise maximum.
LEMMA MergeUnits ==
    ASSUME NEW a \in VectorClocks, NEW b \in VectorClocks
    PROVE  /\ vectorClockMerge(a, b) \in VectorClocks
           /\ DOMAIN vectorClockMerge(a, b) = DOMAIN a \cup DOMAIN b
           /\ \A g : get_vcu_from_vc(vectorClockMerge(a, b), g)
                     = max(get_vcu_from_vc(a, g), get_vcu_from_vc(b, g))
  <1> DEFINE D == DOMAIN a \cup DOMAIN b
             res == vectorClockMerge(a, b)
  <1>1. D \in SUBSET Gid
    BY VcElim
  <1>2. \A g : max(get_vcu_from_vc(a, g), get_vcu_from_vc(b, g)) \in 0..MaxClock
    BY UnitType DEF max
  <1>3. res \in [D -> 0..MaxClock] /\ DOMAIN res = D
    BY <1>2 DEF vectorClockMerge
  <1>4. res \in VectorClocks
    BY <1>1, <1>3, VcIntro
  <1>5. ASSUME NEW g
        PROVE  get_vcu_from_vc(res, g) = max(get_vcu_from_vc(a, g), get_vcu_from_vc(b, g))
    <2>1. CASE g \in D
      BY <2>1, <1>3 DEF get_vcu_from_vc, vectorClockMerge
    <2>2. CASE g \notin D
      BY <2>2, <1>3 DEF get_vcu_from_vc, max
    <2> QED
      BY <2>1, <2>2
  <1> QED
    BY <1>3, <1>4, <1>5

\* getMonoVectorClock keeps one unit.
LEMMA MonoUnit ==
    ASSUME NEW vc \in VectorClocks, NEW gid \in Gid
    PROVE  /\ getMonoVectorClock(vc, gid) \in VectorClocks
           /\ \A g \in DOMAIN getMonoVectorClock(vc, gid) :
                /\ g = gid
                /\ getMonoVectorClock(vc, gid)[g] = get_vcu_from_vc(vc, gid)
  <1> DEFINE res == getMonoVectorClock(vc, gid)
  <1>1. CASE gid \in DOMAIN vc
    <2>1. vc[gid] \in 0..MaxClock
      BY <1>1, VcElim
    <2>2. res \in [{gid} -> 0..MaxClock]
      BY <1>1, <2>1 DEF getMonoVectorClock
    <2>3. res \in VectorClocks
      BY <2>2, VcIntro
    <2> QED
      BY <1>1, <2>2, <2>3 DEF getMonoVectorClock, get_vcu_from_vc
  <1>2. CASE gid \notin DOMAIN vc
    BY <1>2, NullType DEF getMonoVectorClock, isNullVectorClock
  <1> QED
    BY <1>1, <1>2

\* purgeVectorClock only drops units, and what it keeps is not covered.
LEMMA PurgeUnits ==
    ASSUME NEW target \in VectorClocks, NEW src \in VectorClocks
    PROVE  /\ purgeVectorClock(target, src) \in VectorClocks
           /\ DOMAIN purgeVectorClock(target, src) \subseteq DOMAIN target
           /\ \A g \in DOMAIN purgeVectorClock(target, src) :
                /\ purgeVectorClock(target, src)[g] = target[g]
                /\ ~isNullVectorClock(src) =>
                        get_vcu_from_vc(src, g) < purgeVectorClock(target, src)[g]
  <1> DEFINE D == {h \in DOMAIN target : get_vcu_from_vc(src, h) < target[h]}
             res == purgeVectorClock(target, src)
  <1>1. CASE isNullVectorClock(src)
    BY <1>1 DEF purgeVectorClock
  <1>2. CASE ~isNullVectorClock(src)
    <2>1. D \in SUBSET Gid
      BY VcElim
    <2>2. res \in [D -> 0..MaxClock] /\ DOMAIN res = D /\ \A g \in D : res[g] = target[g]
      BY <1>2, VcElim DEF purgeVectorClock
    <2>3. res \in VectorClocks
      BY <2>1, <2>2, VcIntro
    <2> QED
      BY <2>2, <2>3
  <1> QED
    BY <1>1, <1>2

\* isVectorClockMonoIncr never holds for a clock with a unit ahead.
LEMMA MonoIncrUnits ==
    ASSUME NEW a \in VectorClocks, NEW b, isVectorClockMonoIncr(a, b),
           NEW g, get_vcu_from_vc(b, g) \in Nat
    PROVE  get_vcu_from_vc(a, g) =< get_vcu_from_vc(b, g)
  BY DEF isVectorClockMonoIncr, get_vcu_from_vc

-----------------------------------------------------------------------------
(*****************************************************************************)
(* Operators of PeerReplication.                                             *)
(*****************************************************************************)

\* A site that accepts a command can still advance its clock.
LEMMA AcceptsRoom ==
    ASSUME NEW n \in Gid, Accepts(n)
    PROVE  vectorClock[n][n] < MaxClock
  BY Zenon DEF Accepts

\* filterAndSplit2 of a value keeps some of its writes.
LEMMA FilterValueUnits ==
    ASSUME NEW value \in VectorClocks, NEW min_vc
    PROVE  /\ filterValue(value, min_vc) \in VectorClocks
           /\ \A g \in DOMAIN filterValue(value, min_vc) :
                g \in DOMAIN value /\ filterValue(value, min_vc)[g] = value[g]
  <1> DEFINE D == {g \in DOMAIN value \cap DOMAIN min_vc : value[g] > min_vc[g]}
             res == filterValue(value, min_vc)
  <1>1. D \in SUBSET Gid /\ res \in [D -> 0..MaxClock]
    BY VcElim DEF filterValue
  <1> QED
    BY <1>1, VcIntro DEF filterValue

\* The clock after a command of a client is a clock that still has the own unit.
LEMMA LocalClock ==
    ASSUME TypeOK, NEW n \in Gid, Accepts(n)
    PROVE  LET vc == incrLogicClock(vectorClock[n], n, 1)
           IN  /\ vc \in VectorClocks
               /\ n \in DOMAIN vc
               /\ get_vcu_from_vc(vc, n) = Seen(n, n) + 1
               /\ \A g : g # n => get_vcu_from_vc(vc, g) = Seen(n, g)
  <1>1. vectorClock[n] \in VectorClocks /\ n \in DOMAIN vectorClock[n]
    BY DEF TypeOK
  <1>2. vectorClock[n][n] < MaxClock
    BY AcceptsRoom
  <1> QED
    BY <1>1, <1>2, IncrUnit DEF Seen

\* Feeding a command appends it to the stream of its site.
LEMMA FeedFacts ==
    ASSUME TypeOK, NEW n \in Gid, NEW op \in {"set", "del", "ovc"},
           NEW vc \in VectorClocks, Feed(n, op, vc)
    PROVE  /\ stream' \in [Gid -> Seq(Commands)]
           /\ \A p \in Gid : p # n => stream'[p] = stream[p]
           /\ Len(stream[n]) \in Nat
           /\ Len(stream'[n]) = Len(stream[n]) + 1
           /\ \A i \in 1..Len(stream[n]) : stream'[n][i] = stream[n][i]
           /\ stream'[n][Len(stream[n]) + 1] = [op |-> op, vc |-> vc]
  <1>1. [op |-> op, vc |-> vc] \in Commands
    BY DEF Commands
  <1>2. stream[n] \in Seq(Commands) /\ stream \in [Gid -> Seq(Commands)]
    BY DEF TypeOK
  <1>3. Append(stream[n], [op |-> op, vc |-> vc]) \in Seq(Commands)
    BY <1>1, <1>2
  <1>4. /\ stream'[n] = Append(stream[n], [op |-> op, vc |-> vc])
        /\ stream' \in [Gid -> Seq(Commands)]
        /\ \A p \in Gid : p # n => stream'[p] = stream[p]
    BY <1>2, <1>3 DEF Feed
  <1> QED
    BY <1>1, <1>2, <1>4

\* The command at an offset is a command.
LEMMA NextCommand ==
    ASSUME TypeOK, NEW n \in Gid, NEW p \in Gid, NEW op, Receives(n, p, op)
    PROVE  /\ stream[p][reploff[n][p] + 1] \in Commands
           /\ stream[p][reploff[n][p] + 1].vc \in VectorClocks
           /\ stream[p][reploff[n][p] + 1].op = op
           /\ reploff[n][p] \in Nat
           /\ reploff[n][p] + 1 \in 1..Len(stream[p])
           /\ reploff' \in [Gid -> [Gid -> Nat]]
           /\ reploff'[n][p] = reploff[n][p] + 1
           /\ \A m, q \in Gid : <<m, q>> # <<n, p>> => reploff'[m][q] = reploff[m][q]
  <1>1. reploff \in [Gid -> [Gid -> Nat]] /\ stream[p] \in Seq(Commands)
    BY DEF TypeOK
  <1>2. reploff[n][p] \in Nat /\ reploff[n][p] < Len(stream[p])
    BY <1>1 DEF Receives
  <1>3. reploff[n][p] + 1 \in 1..Len(stream[p])
    BY <1>1, <1>2
  <1>4. stream[p][reploff[n][p] + 1] \in Commands
    BY <1>1, <1>3
  <1> QED
    BY <1>1, <1>2, <1>3, <1>4 DEF Receives, Commands

-----------------------------------------------------------------------------
(***************************************************************************)
(* Types.                                                                  *)
(***************************************************************************)

\* A link changes its state alone.
LEMMA SetLinkFacts ==
    ASSUME TypeOK, NEW n \in Gid, NEW p \in Gid, NEW state \in LinkStates,
           SetLink(n, p, state)
    PROVE  /\ link' \in [Gid -> [Gid -> LinkStates]]
           /\ link'[n][p] = state
           /\ \A m, q \in Gid : <<m, q>> # <<n, p>> => link'[m][q] = link[m][q]
  BY DEF TypeOK, SetLink

\* A site starts with its own unit at zero and no peer connected.
LEMMA InitType == Init => TypeOK
  <1> SUFFICES ASSUME Init PROVE TypeOK
    OBVIOUS
  <1>1. ASSUME NEW n \in Gid
        PROVE  [g \in {n} |-> 0] \in VectorClocks
    <2>1. [g \in {n} |-> 0] \in [{n} -> 0..MaxClock]
      BY MaxClockAssumption
    <2> QED
      BY <2>1, VcIntro
  <1>2. NoSnapshot \in Snapshots
    BY NullType DEF NoSnapshot, Snapshots
  <1>3. \A n \in Gid : vectorClock[n] = [g \in {n} |-> 0]
    BY DEF Init
  <1>4. vectorClock \in [Gid -> VectorClocks] /\ \A n \in Gid : n \in DOMAIN vectorClock[n]
    BY <1>1, <1>3, Zenon DEF Init
  <1>5. /\ ovc \in [Gid -> [Gid -> VectorClocks]]
        /\ val \in [Gid -> VectorClocks]
        /\ tomb \in [Gid -> VectorClocks]
    BY NullType DEF Init
  <1>6. /\ stream \in [Gid -> Seq(Commands)]
        /\ link \in [Gid -> [Gid -> LinkStates]]
        /\ reploff \in [Gid -> [Gid -> Nat]]
        /\ snapshot \in [Gid -> [Gid -> Snapshots]]
        /\ breaks \in Nat
    BY <1>2 DEF Init, LinkStates
  <1> QED
    BY <1>4, <1>5, <1>6 DEF TypeOK

\* The synchronised mesh is a state of the right type.
LEMMA InitMeshType == InitMesh => TypeOK
  <1> SUFFICES ASSUME InitMesh PROVE TypeOK
    OBVIOUS
  <1> DEFINE zero == [g \in Gid |-> 0]
  <1>1. zero \in VectorClocks
    <2>1. zero \in [Gid -> 0..MaxClock]
      BY MaxClockAssumption
    <2> QED
      BY <2>1, VcIntro
  <1>2. NoSnapshot \in Snapshots
    BY NullType DEF NoSnapshot, Snapshots
  <1>3. DOMAIN zero = Gid
    OBVIOUS
  <1>4. vectorClock = [n \in Gid |-> zero]
    BY DEF InitMesh
  <1>5. ovc = [n \in Gid |-> [p \in Gid |-> IF p = n THEN NullVectorClock ELSE zero]]
    BY DEF InitMesh
  <1> HIDE DEF zero
  <1>6. /\ vectorClock \in [Gid -> VectorClocks]
        /\ \A n \in Gid : n \in DOMAIN vectorClock[n]
        /\ ovc \in [Gid -> [Gid -> VectorClocks]]
    BY <1>1, <1>3, <1>4, <1>5, NullType
  <1>7. /\ val \in [Gid -> VectorClocks]
        /\ tomb \in [Gid -> VectorClocks]
        /\ stream \in [Gid -> Seq(Commands)]
        /\ reploff \in [Gid -> [Gid -> Nat]]
        /\ snapshot \in [Gid -> [Gid -> Snapshots]]
        /\ breaks \in Nat
    BY <1>2, NullType DEF InitMesh
  <1>8. link \in [Gid -> [Gid -> LinkStates]]
    BY DEF InitMesh, LinkStates
  <1> QED
    BY <1>6, <1>7, <1>8 DEF TypeOK
\* The types of every action.
LEMMA NextType == TypeOK /\ [Next]_vars => TypeOK'
  <1> SUFFICES ASSUME TypeOK, [Next]_vars PROVE TypeOK'
    OBVIOUS
  <1>0. /\ vectorClock \in [Gid -> VectorClocks]
        /\ \A m \in Gid : m \in DOMAIN vectorClock[m]
        /\ ovc \in [Gid -> [Gid -> VectorClocks]]
        /\ val \in [Gid -> VectorClocks]
        /\ tomb \in [Gid -> VectorClocks]
        /\ snapshot \in [Gid -> [Gid -> Snapshots]]
    BY DEF TypeOK
  <1>1. ASSUME NEW n \in Gid, Set(n) PROVE TypeOK'
    <2> DEFINE vc == incrLogicClock(vectorClock[n], n, 1)
               v == purge(tomb[n], merge(val[n], getMonoVectorClock(vc, n)))
    <2>1. vc \in VectorClocks /\ n \in DOMAIN vc
      BY <1>1, LocalClock DEF Set
    <2> HIDE DEF vc
    <2>2. v \in VectorClocks
      BY <1>0, <2>1, MonoUnit, MergeUnits, PurgeUnits, Zenon DEF merge, purge
    <2> HIDE DEF v
    <2>3. vectorClock' = [vectorClock EXCEPT ![n] = vc] /\ val' = [val EXCEPT ![n] = v]
      BY <1>1 DEF Set, vc, v
    <2>4. stream' \in [Gid -> Seq(Commands)]
      BY <1>1, <2>1, FeedFacts, Zenon DEF Set, vc
    <2>5. UNCHANGED <<ovc, tomb, link, reploff, snapshot, breaks>>
      BY <1>1 DEF Set
    <2> QED
      BY <1>0, <2>1, <2>2, <2>3, <2>4, <2>5, Zenon DEF TypeOK
  <1>2. ASSUME NEW n \in Gid, Del(n) PROVE TypeOK'
    <2> DEFINE vc == incrLogicClock(vectorClock[n], n, 1)
               t == merge(tomb[n], vc)
               v == purge(t, val[n])
    <2>1. vc \in VectorClocks /\ n \in DOMAIN vc
      BY <1>2, LocalClock DEF Del
    <2> HIDE DEF vc
    <2>2. t \in VectorClocks
      BY <1>0, <2>1, MergeUnits, Zenon DEF merge
    <2>3. tomb' = [tomb EXCEPT ![n] = t] /\ tomb'[n] = t
      BY <1>0, <1>2 DEF Del, vc, t
    <2> HIDE DEF t
    <2>4. v \in VectorClocks
      BY <1>0, <2>2, PurgeUnits DEF purge
    <2> HIDE DEF v
    <2>5. vectorClock' = [vectorClock EXCEPT ![n] = vc] /\ val' = [val EXCEPT ![n] = v]
      BY <1>2, <2>3, Zenon DEF Del, vc, v
    <2>6. stream' \in [Gid -> Seq(Commands)]
      BY <1>2, <2>1, FeedFacts, Zenon DEF Del, vc
    <2>7. UNCHANGED <<ovc, link, reploff, snapshot, breaks>>
      BY <1>2 DEF Del
    <2> QED
      BY <1>0, <2>1, <2>2, <2>3, <2>4, <2>5, <2>6, <2>7, Zenon DEF TypeOK
  <1>3. ASSUME NEW n \in Gid, sendObservedVectorClock(n) PROVE TypeOK'
    <2>1. stream' \in [Gid -> Seq(Commands)]
      BY <1>0, <1>3, FeedFacts, Zenon DEF sendObservedVectorClock
    <2> QED
      BY <1>3, <2>1 DEF sendObservedVectorClock, TypeOK
  <1>4. ASSUME NEW n \in Gid, Gc(n) PROVE TypeOK'
    BY <1>4, NullType DEF Gc, TypeOK
  <1>5. ASSUME NEW p \in Gid, StartBgsave(p) PROVE TypeOK'
    <2> DEFINE waiting == {n \in Peers(p) : link[n][p] = "WAIT_BGSAVE"}
               min_vc == LeastFilter(p, waiting)
               saved == [vc |-> vectorClock[p],
                         val |-> filterValue(val[p], min_vc),
                         tomb |-> filterTombstone(tomb[p], min_vc),
                         off |-> Len(stream[p])]
    <2>1. filterValue(val[p], min_vc) \in VectorClocks
      BY <1>0, FilterValueUnits
    <2>2. filterTombstone(tomb[p], min_vc) \in VectorClocks
      BY <1>0, NullType DEF filterTombstone
    <2>3. Len(stream[p]) \in Nat
      BY DEF TypeOK
    <2> HIDE DEF min_vc, waiting
    <2>4. saved \in Snapshots
      BY <1>0, <2>1, <2>2, <2>3 DEF Snapshots
    <2>5. snapshot' = [n \in Gid |-> [snapshot[n] EXCEPT ![p] =
                            IF n \in waiting THEN saved ELSE @]]
      BY <1>5 DEF StartBgsave, waiting, min_vc
    <2> HIDE DEF saved
    <2>6. snapshot' \in [Gid -> [Gid -> Snapshots]]
      BY <1>0, <2>4, <2>5
    <2>7. link' \in [Gid -> [Gid -> LinkStates]]
      BY <1>5 DEF StartBgsave, TypeOK, LinkStates, TransferStates
    <2> QED
      BY <1>5, <2>6, <2>7 DEF StartBgsave, TypeOK
  <1>6. ASSUME NEW n \in Gid, NEW p \in Gid, Apply(n, p) PROVE TypeOK'
    <2> DEFINE vc == stream[p][reploff[n][p] + 1].vc
               clock == updateProcessVectorClock(vectorClock[n], vc, p, n)
    <2>1. vc \in VectorClocks /\ reploff' \in [Gid -> [Gid -> Nat]]
      BY <1>6, NextCommand DEF Apply, ApplySet, ApplyDel, ApplyOvc
    <2> HIDE DEF vc
    <2>2. clock \in VectorClocks /\ n \in DOMAIN clock
      BY <1>0, <2>1, UpdateProcessUnit
    <2> HIDE DEF clock
    <2>3. CASE ApplySet(n, p)
      <3> DEFINE v == purge(tomb[n], merge(val[n], getMonoVectorClock(vc, p)))
      <3>1. v \in VectorClocks
        BY <1>0, <2>1, MonoUnit, MergeUnits, PurgeUnits, Zenon DEF merge, purge
      <3> HIDE DEF v
      <3>2. vectorClock' = [vectorClock EXCEPT ![n] = clock] /\ val' = [val EXCEPT ![n] = v]
        BY <2>3 DEF ApplySet, clock, vc, v
      <3> QED
        BY <1>0, <2>1, <2>2, <2>3, <3>1, <3>2 DEF ApplySet, TypeOK
    <2>4. CASE ApplyDel(n, p)
      <3> DEFINE t == merge(tomb[n], vc)
                 v == purge(t, val[n])
      <3>1. t \in VectorClocks
        BY <1>0, <2>1, MergeUnits, Zenon DEF merge
      <3>2. tomb' = [tomb EXCEPT ![n] = t] /\ tomb'[n] = t
        BY <1>0, <2>4 DEF ApplyDel, vc, t
      <3> HIDE DEF t
      <3>3. v \in VectorClocks
        BY <1>0, <3>1, PurgeUnits DEF purge
      <3> HIDE DEF v
      <3>4. vectorClock' = [vectorClock EXCEPT ![n] = clock] /\ val' = [val EXCEPT ![n] = v]
        BY <2>4, <3>2, Zenon DEF ApplyDel, clock, vc, v
      <3> QED
        BY <1>0, <2>1, <2>2, <2>4, <3>1, <3>2, <3>3, <3>4 DEF ApplyDel, TypeOK
    <2>5. CASE ApplyOvc(n, p)
      <3> DEFINE o == vectorClockMerge(ovc[n][p], vc)
      <3>1. o \in VectorClocks
        <4>1. ovc[n][p] \in VectorClocks
          BY <1>0
        <4> QED
          BY <2>1, <4>1, MergeUnits, Zenon
      <3> HIDE DEF o
      <3>2. ovc' = [ovc EXCEPT ![n][p] = o]
        BY <2>5 DEF ApplyOvc, vc, o
      <3> QED
        BY <1>0, <2>1, <2>5, <3>1, <3>2 DEF ApplyOvc, TypeOK
    <2> QED
      BY <1>6, <2>3, <2>4, <2>5 DEF Apply
  <1>7. ASSUME NEW n \in Gid, NEW p \in Gid, Sync(n, p) PROVE TypeOK'
    <2> DEFINE s == snapshot[n][p]
    <2>0. /\ s.vc \in VectorClocks /\ s.val \in VectorClocks
          /\ s.tomb \in VectorClocks /\ s.off \in Nat
      BY <1>0 DEF Snapshots
    <2>1. link' \in [Gid -> [Gid -> LinkStates]]
      BY <1>7, SetLinkFacts DEF Sync, PsyncContinue, PsyncFull, MergeStart, Merge, MergeDel,
                 MergeEnd, LinkStates, TransferStates
    <2>2. CASE PsyncContinue(n, p)
      BY <2>1, <2>2 DEF PsyncContinue, TypeOK
    <2>3. CASE PsyncFull(n, p)
      BY <2>1, <2>3 DEF PsyncFull, TypeOK
    <2>4. CASE MergeStart(n, p)
      <3> DEFINE clock == IF get_vcu_from_vc(vectorClock[n], p) = 0
                          THEN addVectorClockUnit(vectorClock[n], p, 0) ELSE vectorClock[n]
      <3>1. 0 \in 0..MaxClock
        BY MaxClockAssumption
      <3>2. clock \in VectorClocks /\ n \in DOMAIN clock
        <4> DEFINE added == addVectorClockUnit(vectorClock[n], p, 0)
        <4>1. vectorClock[n] \in VectorClocks /\ n \in DOMAIN vectorClock[n]
          BY <1>0
        <4>2. added \in VectorClocks /\ DOMAIN added = DOMAIN vectorClock[n] \cup {p}
          BY <3>1, <4>1, AddUnit
        <4> QED
          BY <4>1, <4>2
      <3>3. vectorClock' = [vectorClock EXCEPT ![n] = clock]
        BY <2>4 DEF MergeStart
      <3> HIDE DEF clock
      <3> QED
        BY <1>0, <2>1, <2>4, <3>2, <3>3 DEF MergeStart, TypeOK
    <2>5. CASE Merge(n, p)
      <3> DEFINE v == purge(tomb[n], merge(val[n], s.val))
      <3>1. v \in VectorClocks
        BY <1>0, <2>0, MergeUnits, PurgeUnits, Zenon DEF merge, purge
      <3>2. val' = [val EXCEPT ![n] = v]
        BY <2>5 DEF Merge
      <3> HIDE DEF v
      <3> QED
        BY <1>0, <2>1, <2>5, <3>1, <3>2 DEF Merge, TypeOK
    <2>6. CASE MergeDel(n, p)
      <3> DEFINE t == merge(tomb[n], s.tomb)
                 v == purge(t, val[n])
      <3>1. t \in VectorClocks
        BY <1>0, <2>0, MergeUnits, Zenon DEF merge
      <3>2. tomb' = [tomb EXCEPT ![n] = t] /\ tomb'[n] = t
        BY <1>0, <2>6 DEF MergeDel, t
      <3> HIDE DEF t
      <3>3. v \in VectorClocks
        BY <1>0, <3>1, PurgeUnits DEF purge
      <3> HIDE DEF v
      <3>4. val' = [val EXCEPT ![n] = v]
        BY <2>6, <3>2, Zenon DEF MergeDel, v
      <3> QED
        BY <1>0, <2>1, <2>6, <3>1, <3>2, <3>3, <3>4 DEF MergeDel, TypeOK
    <2>7. CASE MergeEnd(n, p)
      <3> DEFINE clock == mergeLogicClock(vectorClock[n], s.vc, p)
      <3>1. clock \in VectorClocks /\ n \in DOMAIN clock
        BY <1>0, <2>0, MergeOneUnit, Zenon
      <3>2. /\ vectorClock' = [vectorClock EXCEPT ![n] = clock]
            /\ ovc' = [ovc EXCEPT ![n][p] = s.vc]
            /\ reploff' = [reploff EXCEPT ![n][p] = s.off]
            /\ snapshot' = [snapshot EXCEPT ![n][p] = NoSnapshot]
        BY <2>7 DEF MergeEnd
      <3>3. NoSnapshot \in Snapshots
        BY NullType DEF NoSnapshot, Snapshots
      <3> HIDE DEF clock
      <3> QED
        BY <1>0, <2>0, <2>1, <2>7, <3>1, <3>2, <3>3 DEF MergeEnd, TypeOK
    <2> QED
      BY <1>7, <2>2, <2>3, <2>4, <2>5, <2>6, <2>7 DEF Sync
  <1>8. ASSUME NEW n \in Gid, NEW p \in Gid, Break(n, p) PROVE TypeOK'
    <2>1. link' \in [Gid -> [Gid -> LinkStates]]
      BY <1>8, SetLinkFacts DEF Break, LinkStates
    <2>2. NoSnapshot \in Snapshots
      BY NullType DEF NoSnapshot, Snapshots
    <2>3. snapshot' \in [Gid -> [Gid -> Snapshots]] /\ breaks' \in Nat
      BY <1>0, <1>8, <2>2 DEF Break, TypeOK
    <2> QED
      BY <1>8, <2>1, <2>3 DEF Break, TypeOK
  <1>9. CASE UNCHANGED vars
    BY <1>9 DEF vars, TypeOK
  <1> QED
    BY <1>1, <1>2, <1>3, <1>4, <1>5, <1>6, <1>7, <1>8, <1>9 DEF Next

\* Type correctness of a set of sites that connect for the first time: every
\* clock stays within its width and every site keeps the unit of its own gid.
THEOREM TypeCorrect == Spec => []TypeOK
  BY InitType, NextType, PTL DEF Spec

\* The same for a mesh that is connected already.
THEOREM TypeCorrectMesh == SpecMesh => []TypeOK
  BY InitMeshType, NextType, PTL DEF SpecMesh

-----------------------------------------------------------------------------
(***************************************************************************)
(* What the proofs about PeerReplication rest on: types of stamps and      *)
(* snapshots, the order of clocks, deletes and the values they purge, and  *)
(* the bounds of the two minima that the code computes.                    *)
(***************************************************************************)

\* A set of naturals has a least element, and Min chooses it.
LEMMA LeastNatural ==
    ASSUME NEW S \in SUBSET Nat, S # {}
    PROVE  Min(S) \in S /\ \A x \in S : Min(S) =< x
  <1> DEFINE R == {ss \in Nat \X Nat : ss[1] < ss[2]}
  <1>1. IsWellFoundedOn(R, Nat)
    BY NatLessThanWellFounded DEF OpToRel
  <1>0. \A y, z \in Nat : y < z => <<y, z>> \in R
    OBVIOUS
  <1> HIDE DEF R
  <1>2. PICK m \in S : \A y \in S : ~(<<y, m>> \in R)
    BY <1>1, WFMin, Zenon
  <1>3. ASSUME NEW y \in S PROVE m =< y
    <2>1. m \in Nat /\ y \in Nat
      OBVIOUS
    <2>2. ~(y < m)
      BY <1>0, <1>2, <2>1, Zenon
    <2> QED
      BY <2>1, <2>2
  <1> QED
    BY <1>3, Zenon DEF Min

\* The clock of a site has a natural number for every gid.
LEMMA SeenType ==
    ASSUME TypeOK, NEW n \in Gid, NEW g
    PROVE  Seen(n, g) \in Nat
  <1>1. vectorClock[n] \in VectorClocks
    BY DEF TypeOK
  <1> QED
    BY <1>1, UnitType DEF Seen

\* The stamps of a stream are vector clocks.
LEMMA StampType ==
    ASSUME TypeOK, NEW p \in Gid
    PROVE  /\ Len(stream[p]) \in Nat
           /\ Deletes(p) \subseteq Updates(p)
           /\ Updates(p) \subseteq 1..Len(stream[p])
           /\ \A i \in 1..Len(stream[p]) :
                /\ Stamp(p, i) \in VectorClocks
                /\ OwnStamp(p, i) \in Nat
                /\ i \in Nat
  <1>1. stream[p] \in Seq(Commands)
    BY DEF TypeOK
  <1>2. \A i \in 1..Len(stream[p]) : Stamp(p, i) \in VectorClocks
    <2>1. \A i \in 1..Len(stream[p]) : stream[p][i] \in Commands
      BY <1>1
    <2>2. \A cmd \in Commands : cmd.vc \in VectorClocks
      BY DEF Commands
    <2> QED
      BY <2>1, <2>2 DEF Stamp
  <1>3. \A i \in 1..Len(stream[p]) : OwnStamp(p, i) \in Nat
    BY <1>2, UnitType DEF OwnStamp
  <1> QED
    BY <1>1, <1>2, <1>3 DEF Deletes, Updates

\* The parts of a snapshot are vector clocks and an offset.
LEMMA SnapshotType ==
    ASSUME TypeOK, NEW n \in Gid, NEW p \in Gid
    PROVE  /\ snapshot[n][p].vc \in VectorClocks
           /\ snapshot[n][p].val \in VectorClocks
           /\ snapshot[n][p].tomb \in VectorClocks
           /\ snapshot[n][p].off \in Nat
  <1>1. snapshot[n][p] \in Snapshots
    BY DEF TypeOK
  <1> QED
    BY <1>1 DEF Snapshots

\* An action that feeds nothing leaves the stamps alone.
LEMMA SameStream ==
    ASSUME stream' = stream, NEW p
    PROVE  /\ Deletes(p)' = Deletes(p)
           /\ Updates(p)' = Updates(p)
           /\ \A i : Stamp(p, i)' = Stamp(p, i) /\ OwnStamp(p, i)' = OwnStamp(p, i)
  BY DEF Deletes, Updates, Stamp, OwnStamp

\* A command that is fed adds one stamp.
LEMMA FedStream ==
    ASSUME TypeOK, NEW n \in Gid, NEW op \in {"set", "del", "ovc"},
           NEW vc \in VectorClocks, Feed(n, op, vc), NEW p \in Gid
    PROVE  /\ Len(stream[p]) =< Len(stream'[p])
           /\ \A i \in 1..Len(stream[p]) :
                Stamp(p, i)' = Stamp(p, i) /\ OwnStamp(p, i)' = OwnStamp(p, i)
           /\ \A i \in 1..Len(stream'[p]) :
                i \notin 1..Len(stream[p]) => p = n /\ i = Len(stream[n]) + 1
           /\ \A i : i = Len(stream[n]) + 1 =>
                Stamp(n, i)' = vc /\ OwnStamp(n, i)' = get_vcu_from_vc(vc, n)
           /\ \A i \in 1..Len(stream[p]) : i \in Deletes(p)' <=> i \in Deletes(p)
           /\ \A i \in 1..Len(stream[p]) : i \in Updates(p)' <=> i \in Updates(p)
           /\ Deletes(p)' \subseteq Updates(p)'
           /\ Updates(p)' \subseteq 1..Len(stream'[p])
           /\ op # "del" => Deletes(p)' = Deletes(p)
           /\ op = "ovc" => Updates(p)' = Updates(p)
  <1>1. stream[p] \in Seq(Commands) /\ Len(stream[p]) \in Nat
    BY DEF TypeOK
  <1> DEFINE last == Len(stream[n]) + 1
  <1>2. /\ \A q \in Gid : q # n => stream'[q] = stream[q]
        /\ Len(stream[n]) \in Nat
        /\ Len(stream'[n]) = Len(stream[n]) + 1
        /\ \A i \in 1..Len(stream[n]) : stream'[n][i] = stream[n][i]
        /\ stream'[n][last] = [op |-> op, vc |-> vc]
    BY FeedFacts
  <1>3. stream'[n][last].op = op /\ stream'[n][last].vc = vc
    BY <1>2
  <1> HIDE DEF last
  <1>4. /\ Len(stream[p]) =< Len(stream'[p])
        /\ \A i \in 1..Len(stream[p]) : i \in 1..Len(stream'[p])
        /\ \A i \in 1..Len(stream[p]) : stream'[p][i] = stream[p][i]
        /\ \A i \in 1..Len(stream'[p]) :
             i \notin 1..Len(stream[p]) => p = n /\ i = last
    BY <1>1, <1>2 DEF last
  <1>5. /\ \A i \in 1..Len(stream[p]) : Stamp(p, i)' = Stamp(p, i)
        /\ \A i \in 1..Len(stream[p]) : OwnStamp(p, i)' = OwnStamp(p, i)
        /\ \A i : i = last => Stamp(n, i)' = vc /\ OwnStamp(n, i)' = get_vcu_from_vc(vc, n)
    BY <1>3, <1>4 DEF Stamp, OwnStamp
  <1>6. /\ Deletes(p)' = {i \in 1..Len(stream'[p]) : stream'[p][i].op = "del"}
        /\ Updates(p)' = {i \in 1..Len(stream'[p]) : stream'[p][i].op # "ovc"}
        /\ Deletes(p) = {i \in 1..Len(stream[p]) : stream[p][i].op = "del"}
        /\ Updates(p) = {i \in 1..Len(stream[p]) : stream[p][i].op # "ovc"}
    BY DEF Deletes, Updates
  <1>7. /\ \A i \in 1..Len(stream[p]) : i \in Deletes(p)' <=> i \in Deletes(p)
        /\ \A i \in 1..Len(stream[p]) : i \in Updates(p)' <=> i \in Updates(p)
        /\ Deletes(p)' \subseteq Updates(p)'
        /\ Updates(p)' \subseteq 1..Len(stream'[p])
    BY <1>4, <1>6
  <1>8. op # "del" => Deletes(p)' = Deletes(p)
    BY <1>3, <1>4, <1>6
  <1>9. op = "ovc" => Updates(p)' = Updates(p)
    BY <1>3, <1>4, <1>6
  <1> QED
    BY <1>4, <1>5, <1>7, <1>8, <1>9 DEF last
-----------------------------------------------------------------------------
(***************************************************************************)
(* Deletes against values and tombstones.                                  *)
(***************************************************************************)

\* merge keeps a delete's writes out of a value if both parts are without.
LEMMA PurgedMerge ==
    ASSUME NEW del \in VectorClocks, NEW a \in VectorClocks, NEW b \in VectorClocks,
           Purged(del, a), Purged(del, b)
    PROVE  merge(a, b) \in VectorClocks /\ Purged(del, merge(a, b))
  <1> DEFINE m == vectorClockMerge(a, b)
  <1>1. /\ m \in VectorClocks
        /\ DOMAIN m = DOMAIN a \cup DOMAIN b
        /\ \A g : get_vcu_from_vc(m, g) = max(get_vcu_from_vc(a, g), get_vcu_from_vc(b, g))
    BY MergeUnits, Zenon
  <1> HIDE DEF m
  <1>2. ASSUME NEW g \in DOMAIN m PROVE get_vcu_from_vc(del, g) < m[g]
    <2>1. /\ get_vcu_from_vc(del, g) \in Nat
          /\ get_vcu_from_vc(a, g) \in Nat
          /\ get_vcu_from_vc(b, g) \in Nat
      BY UnitType
    <2>2. m[g] = max(get_vcu_from_vc(a, g), get_vcu_from_vc(b, g))
      BY <1>1 DEF get_vcu_from_vc
    <2>3. \/ get_vcu_from_vc(del, g) < get_vcu_from_vc(a, g)
          \/ get_vcu_from_vc(del, g) < get_vcu_from_vc(b, g)
      BY <1>1 DEF Purged, get_vcu_from_vc
    <2> QED
      BY <2>1, <2>2, <2>3 DEF max
  <1> QED
    BY <1>1, <1>2 DEF Purged, merge, m

\* purge brings nothing back.
LEMMA PurgedPurge ==
    ASSUME NEW del \in VectorClocks, NEW tombstone \in VectorClocks,
           NEW value \in VectorClocks, Purged(del, value)
    PROVE  Purged(del, purge(tombstone, value))
  BY PurgeUnits DEF Purged, purge

\* A tombstone that covers a delete removes all writes of the delete.
LEMMA PurgedCovered ==
    ASSUME NEW del \in VectorClocks, NEW tombstone \in VectorClocks,
           NEW value \in VectorClocks, NEW h \in Gid,
           0 < get_vcu_from_vc(del, h), Below(del, tombstone)
    PROVE  Purged(del, purge(tombstone, value))
  <1>1. get_vcu_from_vc(del, h) \in Nat /\ get_vcu_from_vc(tombstone, h) \in Nat
    BY UnitType
  <1>2. 0 < get_vcu_from_vc(tombstone, h)
    BY <1>1 DEF Below
  <1>3. ~isNullVectorClock(tombstone)
    BY <1>2 DEF isNullVectorClock, get_vcu_from_vc
  <1> DEFINE v == purgeVectorClock(value, tombstone)
  <1>4. /\ v \in VectorClocks
        /\ \A g \in DOMAIN v : get_vcu_from_vc(tombstone, g) < v[g]
    BY <1>3, PurgeUnits
  <1> HIDE DEF v
  <1>5. ASSUME NEW g \in DOMAIN v PROVE get_vcu_from_vc(del, g) < v[g]
    <2>1. g \in Gid /\ v[g] \in Nat
      BY <1>4, VcElim, MaxClockAssumption
    <2>2. get_vcu_from_vc(del, g) \in Nat /\ get_vcu_from_vc(tombstone, g) \in Nat
      BY UnitType
    <2>3. get_vcu_from_vc(del, g) =< get_vcu_from_vc(tombstone, g)
      BY <2>1 DEF Below
    <2> QED
      BY <1>4, <2>1, <2>2, <2>3
  <1> QED
    BY <1>5 DEF Purged, purge, v

\* A single write escapes a delete that has not seen it.
LEMMA PurgedMono ==
    ASSUME NEW del \in VectorClocks, NEW vc \in VectorClocks, NEW gid \in Gid,
           get_vcu_from_vc(del, gid) < get_vcu_from_vc(vc, gid)
    PROVE  Purged(del, getMonoVectorClock(vc, gid))
  BY MonoUnit DEF Purged

\* A tombstone that is merged with another covers what either covers.
LEMMA BelowMerge ==
    ASSUME NEW del \in VectorClocks, NEW a \in VectorClocks, NEW b \in VectorClocks,
           Below(del, a) \/ Below(del, b)
    PROVE  merge(a, b) \in VectorClocks /\ Below(del, merge(a, b))
  <1>1. /\ vectorClockMerge(a, b) \in VectorClocks
        /\ \A g : get_vcu_from_vc(vectorClockMerge(a, b), g)
                    = max(get_vcu_from_vc(a, g), get_vcu_from_vc(b, g))
    BY MergeUnits, Zenon
  <1>2. ASSUME NEW g \in Gid
        PROVE  get_vcu_from_vc(del, g) =< max(get_vcu_from_vc(a, g), get_vcu_from_vc(b, g))
    <2>1. /\ get_vcu_from_vc(del, g) \in Nat
          /\ get_vcu_from_vc(a, g) \in Nat
          /\ get_vcu_from_vc(b, g) \in Nat
      BY UnitType
    <2> QED
      BY <2>1 DEF Below, max
  <1> QED
    BY <1>1, <1>2 DEF Below, merge

\* Clocks are ordered reflexively and transitively.
LEMMA BelowRefl ==
    ASSUME NEW a \in VectorClocks
    PROVE  Below(a, a)
  BY UnitType DEF Below

\* Below is transitive.
LEMMA BelowTrans ==
    ASSUME NEW a \in VectorClocks, NEW b \in VectorClocks, NEW c \in VectorClocks,
           Below(a, b), Below(b, c)
    PROVE  Below(a, c)
  <1> SUFFICES ASSUME NEW g \in Gid
               PROVE  get_vcu_from_vc(a, g) =< get_vcu_from_vc(c, g)
    BY DEF Below
  <1>1. /\ get_vcu_from_vc(a, g) \in Nat
        /\ get_vcu_from_vc(b, g) \in Nat
        /\ get_vcu_from_vc(c, g) \in Nat
    BY UnitType
  <1> QED
    BY <1>1 DEF Below

\* getGcVectorClock is below the clock of the site and below every clock that
\* it has observed, so a tombstone that gc drops has been seen by all.
LEMMA GcBound ==
    ASSUME TypeOK, NEW n \in Gid, gc(tomb[n], getGcVectorClock(n)), NEW g \in Gid
    PROVE  /\ get_vcu_from_vc(tomb[n], g) =< Seen(n, g)
           /\ \A p \in Peers(n) : get_vcu_from_vc(tomb[n], g) =< get_vcu_from_vc(ovc[n][p], g)
  <1> DEFINE clocks == {vectorClock[n]} \cup {ovc[n][p] : p \in Peers(n)}
             D == UNION {DOMAIN vc : vc \in clocks}
             units(h) == {get_vcu_from_vc(vc, h) : vc \in clocks}
             f == [h \in D |-> Min(units(h))]
  <1>1. \A vc \in clocks : vc \in VectorClocks
    BY DEF TypeOK, Peers
  <1>2. \A h : units(h) \in SUBSET Nat /\ units(h) # {}
    BY <1>1, UnitType
  <1>3. Min(units(g)) \in units(g) /\ \A x \in units(g) : Min(units(g)) =< x
    BY <1>2, LeastNatural, Zenon
  <1>4. getGcVectorClock(n) = f
    BY DEF getGcVectorClock
  <1>5. \A vc \in clocks : get_vcu_from_vc(f, g) =< get_vcu_from_vc(vc, g)
    <2>1. CASE g \in D
      <3>1. get_vcu_from_vc(f, g) = Min(units(g))
        BY <2>1 DEF get_vcu_from_vc
      <3> QED
        BY <1>3, <3>1
    <2>2. CASE g \notin D
      <3>1. get_vcu_from_vc(f, g) = 0
        BY <2>2 DEF get_vcu_from_vc
      <3>2. \A vc \in clocks : get_vcu_from_vc(vc, g) \in Nat
        BY <1>1, UnitType
      <3> QED
        BY <3>1, <3>2
    <2> QED
      BY <2>1, <2>2, Zenon
  <1>6. get_vcu_from_vc(f, g) \in Nat
    <2>1. CASE g \in D
      BY <1>2, <1>3, <2>1, Zenon DEF get_vcu_from_vc
    <2>2. CASE g \notin D
      BY <2>2 DEF get_vcu_from_vc
    <2> QED
      BY <2>1, <2>2
  <1>7. tomb[n] \in VectorClocks
    BY DEF TypeOK
  <1> HIDE DEF f
  <1>8. get_vcu_from_vc(tomb[n], g) =< get_vcu_from_vc(f, g)
    BY <1>4, <1>6, <1>7, MonoIncrUnits DEF gc
  <1>9. get_vcu_from_vc(tomb[n], g) \in Nat
    BY <1>7, UnitType
  <1>10. \A vc \in clocks : get_vcu_from_vc(tomb[n], g) =< get_vcu_from_vc(vc, g)
    <2> SUFFICES ASSUME NEW vc \in clocks
                 PROVE  get_vcu_from_vc(tomb[n], g) =< get_vcu_from_vc(vc, g)
      OBVIOUS
    <2>1. get_vcu_from_vc(vc, g) \in Nat
      BY <1>1, UnitType
    <2> QED
      BY <1>5, <1>6, <1>8, <1>9, <2>1
  <1> QED
    BY <1>10 DEF Seen

\* LeastFilter is not ahead of any site that waits.
LEMMA LeastFilterBound ==
    ASSUME TypeOK, NEW p \in Gid, NEW waiting \in SUBSET Gid, NEW n \in waiting
    PROVE  /\ DOMAIN LeastFilter(p, waiting) = {p}
           /\ LeastFilter(p, waiting)[p] \in Nat
           /\ LeastFilter(p, waiting)[p] =< Seen(n, p)
  <1> DEFINE units == {get_vcu_from_vc(vectorClock[m], p) : m \in waiting}
  <1>1. \A m \in waiting : get_vcu_from_vc(vectorClock[m], p) \in Nat
    BY SeenType DEF Seen
  <1>2. units \in SUBSET Nat /\ units # {}
    BY <1>1
  <1>3. Min(units) \in units /\ \A x \in units : Min(units) =< x
    BY <1>2, LeastNatural, Zenon
  <1>4. DOMAIN LeastFilter(p, waiting) = {p} /\ LeastFilter(p, waiting)[p] = Min(units)
    BY DEF LeastFilter
  <1> QED
    BY <1>2, <1>3, <1>4 DEF Seen

\* A tombstone that covers a delete of a stream keeps its writes out of any
\* value it is applied to: own units of deletes are never zero.
LEMMA DeleteCovered ==
    ASSUME TypeOK, StampsOrdered, NEW p \in Gid, NEW i \in Deletes(p),
           NEW tombstone \in VectorClocks, NEW value \in VectorClocks,
           Below(Stamp(p, i), tombstone)
    PROVE  Purged(Stamp(p, i), purge(tombstone, value))
  <1>1. i \in Updates(p) /\ i \in 1..Len(stream[p]) /\ Stamp(p, i) \in VectorClocks
    BY StampType
  <1>2. 0 < get_vcu_from_vc(Stamp(p, i), p)
    BY <1>1 DEF StampsOrdered, OwnStamp
  <1> QED
    BY <1>1, <1>2, PurgedCovered

\* Deletes and their stamps: types, and the clock of their site bounds them.
LEMMA DeleteFacts ==
    ASSUME TypeOK, StampsOrdered, NEW p \in Gid, NEW i \in Deletes(p)
    PROVE  /\ i \in 1..Len(stream[p])
           /\ i \in Updates(p)
           /\ Stamp(p, i) \in VectorClocks
           /\ OwnStamp(p, i) \in Nat
           /\ OwnStamp(p, i) =< Seen(p, p)
           /\ Below(Stamp(p, i), vectorClock[p])
  <1>1. i \in Updates(p) /\ i \in 1..Len(stream[p])
    BY StampType
  <1>2. Stamp(p, i) \in VectorClocks /\ OwnStamp(p, i) \in Nat
    BY <1>1, StampType
  <1>3. Below(Stamp(p, i), vectorClock[p])
    BY <1>1 DEF StampsOrdered
  <1> QED
    BY <1>1, <1>2, <1>3 DEF Below, OwnStamp, Seen

-----------------------------------------------------------------------------
(*****************************************************************************)
(* Values, tombstones and the writes that clients asked for.                 *)
(*****************************************************************************)

\* The streams t hold all commands of the streams s, in their places.
Extends(s, t) ==
    \A g \in Gid : /\ Len(s[g]) \in Nat
                   /\ Len(t[g]) \in Nat
                   /\ Len(s[g]) =< Len(t[g])
                   /\ \A i \in 1..Len(s[g]) : t[g][i] = s[g][i]

\* The value u lacks no write of the value v that is not deleted.
Retains(s, v, u) ==
    \A g \in Gid : \A w \in 1..MaxClock : Kept(s, v, g, w) => Kept(s, u, g, w)

\* Writes and deletes stay in a stream.
LEMMA ExtendsKeeps ==
    ASSUME NEW s, NEW t, Extends(s, t), NEW g \in Gid, NEW w
    PROVE  /\ WriteIn(s, g, w) => WriteIn(t, g, w)
           /\ DeleteIn(s, g, w) => DeleteIn(t, g, w)
  <1>1. ASSUME WriteIn(s, g, w) PROVE WriteIn(t, g, w)
    <2>1. PICK i \in 1..Len(s[g]) : s[g][i].op = "set" /\ get_vcu_from_vc(s[g][i].vc, g) = w
      BY <1>1 DEF WriteIn
    <2>2. i \in 1..Len(t[g]) /\ t[g][i] = s[g][i]
      BY <2>1 DEF Extends
    <2> QED
      BY <2>1, <2>2 DEF WriteIn
  <1>2. ASSUME DeleteIn(s, g, w) PROVE DeleteIn(t, g, w)
    <2>1. PICK q \in Gid : \E j \in 1..Len(s[q]) :
                s[q][j].op = "del" /\ w =< get_vcu_from_vc(s[q][j].vc, g)
      BY <1>2 DEF DeleteIn
    <2>2. PICK j \in 1..Len(s[q]) : s[q][j].op = "del" /\ w =< get_vcu_from_vc(s[q][j].vc, g)
      BY <2>1
    <2>3. j \in 1..Len(t[q]) /\ t[q][j] = s[q][j]
      BY <2>2 DEF Extends
    <2> QED
      BY <2>2, <2>3 DEF DeleteIn
  <1> QED
    BY <1>1, <1>2

\* What is said of a value or a tombstone stays true while streams grow.
LEMMA ExtendsOnly ==
    ASSUME NEW s, NEW t, Extends(s, t), NEW v \in VectorClocks
    PROVE  /\ OnlyWrites(s, v) => OnlyWrites(t, v)
           /\ OnlyDeletes(s, v) => OnlyDeletes(t, v)
  <1>1. \A g \in DOMAIN v : g \in Gid
    BY VcElim
  <1>2. \A g \in Gid : \A w : /\ WriteIn(s, g, w) => WriteIn(t, g, w)
                              /\ DeleteIn(s, g, w) => DeleteIn(t, g, w)
    BY ExtendsKeeps
  <1> QED
    BY <1>1, <1>2 DEF OnlyWrites, OnlyDeletes

\* The null clock as a value and as a tombstone.
LEMMA NullOnly ==
    ASSUME NEW s
    PROVE  OnlyWrites(s, NullVectorClock) /\ OnlyDeletes(s, NullVectorClock)
  <1>1. OnlyWrites(s, NullVectorClock)
    BY DEF OnlyWrites, NullVectorClock
  <1>2. OnlyDeletes(s, NullVectorClock)
    BY UnitNull, MaxClockAssumption DEF OnlyDeletes
  <1> QED
    BY <1>1, <1>2

\* merge keeps the writes of both values ...
LEMMA MergeRetains ==
    ASSUME NEW s, NEW a \in VectorClocks, NEW b \in VectorClocks
    PROVE  Retains(s, a, merge(a, b)) /\ Retains(s, b, merge(a, b))
  <1> DEFINE m == merge(a, b)
  <1>1. /\ DOMAIN m = DOMAIN a \cup DOMAIN b
        /\ \A g : get_vcu_from_vc(m, g) = max(get_vcu_from_vc(a, g), get_vcu_from_vc(b, g))
    BY MergeUnits, Zenon DEF merge
  <1> HIDE DEF m
  <1>2. \A g : get_vcu_from_vc(a, g) \in Nat /\ get_vcu_from_vc(b, g) \in Nat
    BY UnitType
  <1>3. \A g : /\ get_vcu_from_vc(a, g) =< get_vcu_from_vc(m, g)
               /\ get_vcu_from_vc(b, g) =< get_vcu_from_vc(m, g)
               /\ get_vcu_from_vc(m, g) \in Nat
    BY <1>1, <1>2 DEF max
  <1>4. /\ \A g \in DOMAIN a : g \in DOMAIN m /\ a[g] \in Nat /\ a[g] =< m[g]
        /\ \A g \in DOMAIN b : g \in DOMAIN m /\ b[g] \in Nat /\ b[g] =< m[g]
        /\ \A g \in DOMAIN m : m[g] \in Nat
    BY <1>1, <1>2, <1>3 DEF get_vcu_from_vc
  <1> QED
    BY <1>4 DEF Retains, Kept, m

\* ... and brings no others.
LEMMA MergeOnly ==
    ASSUME NEW s, NEW a \in VectorClocks, NEW b \in VectorClocks
    PROVE  /\ merge(a, b) \in VectorClocks
           /\ OnlyWrites(s, a) /\ OnlyWrites(s, b) => OnlyWrites(s, merge(a, b))
           /\ OnlyDeletes(s, a) /\ OnlyDeletes(s, b) => OnlyDeletes(s, merge(a, b))
  <1> DEFINE m == merge(a, b)
  <1>1. /\ m \in VectorClocks
        /\ DOMAIN m = DOMAIN a \cup DOMAIN b
        /\ \A g : get_vcu_from_vc(m, g) = max(get_vcu_from_vc(a, g), get_vcu_from_vc(b, g))
    BY MergeUnits, Zenon DEF merge
  <1> HIDE DEF m
  <1>2. \A g : get_vcu_from_vc(a, g) \in Nat /\ get_vcu_from_vc(b, g) \in Nat
    BY UnitType
  <1>3. \A g \in DOMAIN m : (g \in DOMAIN a /\ m[g] = a[g]) \/ (g \in DOMAIN b /\ m[g] = b[g])
    BY <1>1, <1>2 DEF get_vcu_from_vc, max
  <1>4. OnlyWrites(s, a) /\ OnlyWrites(s, b) => OnlyWrites(s, m)
    BY <1>3 DEF OnlyWrites
  <1>5. \A g : \/ get_vcu_from_vc(m, g) = get_vcu_from_vc(a, g)
               \/ get_vcu_from_vc(m, g) = get_vcu_from_vc(b, g)
    BY <1>1 DEF max
  <1>6. OnlyDeletes(s, a) /\ OnlyDeletes(s, b) => OnlyDeletes(s, m)
    BY <1>5 DEF OnlyDeletes
  <1> QED
    BY <1>1, <1>4, <1>6 DEF m

\* A tombstone removes deleted writes only.
LEMMA PurgeRetains ==
    ASSUME NEW s, NEW v \in VectorClocks, NEW tombstone \in VectorClocks,
           OnlyDeletes(s, tombstone)
    PROVE  Retains(s, v, purge(tombstone, v))
  <1> DEFINE u == purge(tombstone, v)
  <1>1. CASE isNullVectorClock(tombstone)
    BY <1>1 DEF purge, purgeVectorClock, Retains
  <1>2. CASE ~isNullVectorClock(tombstone)
    <2>1. u = [g \in {h \in DOMAIN v : get_vcu_from_vc(tombstone, h) < v[h]} |-> v[g]]
      BY <1>2 DEF purge, purgeVectorClock
    <2>2. \A g \in DOMAIN v : get_vcu_from_vc(tombstone, g) < v[g] => g \in DOMAIN u /\ u[g] = v[g]
      BY <2>1
    <2> HIDE DEF u
    <2> SUFFICES ASSUME NEW g \in Gid, NEW w \in 1..MaxClock, Kept(s, v, g, w),
                        ~DeleteIn(s, g, w)
                 PROVE  g \in DOMAIN u /\ w =< u[g]
      BY DEF Retains, Kept, u
    <2>3. g \in DOMAIN v /\ w =< v[g]
      BY DEF Kept
    <2>4. ~(w =< get_vcu_from_vc(tombstone, g))
      BY DEF OnlyDeletes
    <2>5. v[g] \in Nat /\ get_vcu_from_vc(tombstone, g) \in Nat /\ w \in Nat
      BY <2>3, VcElim, UnitType, MaxClockAssumption
    <2> QED
      BY <2>2, <2>3, <2>4, <2>5
  <1> QED
    BY <1>1, <1>2

\* It leaves a value of writes.
LEMMA PurgeOnly ==
    ASSUME NEW s, NEW v \in VectorClocks, NEW tombstone \in VectorClocks, OnlyWrites(s, v)
    PROVE  OnlyWrites(s, purge(tombstone, v))
  BY PurgeUnits DEF OnlyWrites, purge

\* Retaining is transitive.
LEMMA RetainsTrans ==
    ASSUME NEW s, NEW a, NEW b, NEW c, Retains(s, a, b), Retains(s, b, c)
    PROVE  Retains(s, a, c)
  BY DEF Retains

\* How merging a value and purging the result changes what is kept.
LEMMA MergePurge ==
    ASSUME NEW s, NEW v \in VectorClocks, NEW b \in VectorClocks,
           NEW tombstone \in VectorClocks, OnlyDeletes(s, tombstone)
    PROVE  /\ Retains(s, v, purge(tombstone, merge(v, b)))
           /\ Retains(s, b, purge(tombstone, merge(v, b)))
           /\ OnlyWrites(s, v) /\ OnlyWrites(s, b) =>
                OnlyWrites(s, purge(tombstone, merge(v, b)))
  <1>1. merge(v, b) \in VectorClocks
    BY MergeOnly
  <1>2. Retains(s, v, merge(v, b)) /\ Retains(s, b, merge(v, b))
    BY MergeRetains
  <1>3. Retains(s, merge(v, b), purge(tombstone, merge(v, b)))
    BY <1>1, PurgeRetains
  <1>4. Retains(s, v, purge(tombstone, merge(v, b))) /\ Retains(s, b, purge(tombstone, merge(v, b)))
    BY <1>2, <1>3, RetainsTrans
  <1>5. OnlyWrites(s, v) /\ OnlyWrites(s, b) => OnlyWrites(s, purge(tombstone, merge(v, b)))
    BY <1>1, MergeOnly, PurgeOnly
  <1> QED
    BY <1>4, <1>5

\* A value that does not change retains what it has.
LEMMA RetainsSame ==
    ASSUME NEW s, NEW v
    PROVE  Retains(s, v, v)
  BY DEF Retains

\* What is kept stays kept while streams grow and values retain.
LEMMA CarryKept ==
    ASSUME NEW s, NEW t, NEW v, NEW u, NEW g \in Gid, NEW lo, NEW hi, NEW lo2, NEW hi2,
           Extends(s, t), KeptBetween(s, v, g, lo, hi), Retains(t, v, u),
           \A w \in 1..MaxClock : WriteIn(t, g, w) /\ lo2 < w /\ w =< hi2 =>
                \/ Kept(t, u, g, w)
                \/ WriteIn(s, g, w) /\ lo < w /\ w =< hi
    PROVE  KeptBetween(t, u, g, lo2, hi2)
  <1> SUFFICES ASSUME NEW w \in 1..MaxClock, WriteIn(t, g, w), lo2 < w, w =< hi2,
                      ~Kept(t, u, g, w)
               PROVE  FALSE
    BY DEF KeptBetween
  <1>1. Kept(s, v, g, w)
    BY DEF KeptBetween
  <1>2. DeleteIn(s, g, w) => DeleteIn(t, g, w)
    BY ExtendsKeeps
  <1>3. Kept(t, v, g, w)
    BY <1>1, <1>2 DEF Kept
  <1> QED
    BY <1>3 DEF Retains

-----------------------------------------------------------------------------
(*****************************************************************************)
(* What a step has to do with a write.                                       *)
(*****************************************************************************)

\* A site has seen its own writes, and they have a clock.
LEMMA WriteSeen ==
    ASSUME TypeOK, StampsOrdered, NEW g \in Gid, NEW w, WriteIn(stream, g, w)
    PROVE  w \in 1..MaxClock /\ w =< Seen(g, g)
  <1>1. PICK i \in 1..Len(stream[g]) :
            stream[g][i].op = "set" /\ get_vcu_from_vc(stream[g][i].vc, g) = w
    BY DEF WriteIn
  <1>2. i \in Updates(g) /\ w = OwnStamp(g, i) /\ Stamp(g, i) \in VectorClocks
    BY <1>1, StampType DEF Updates, OwnStamp, Stamp
  <1>3. 0 < OwnStamp(g, i) /\ Below(Stamp(g, i), vectorClock[g])
    BY <1>1, <1>2 DEF StampsOrdered
  <1>4. OwnStamp(g, i) \in 0..MaxClock
    BY <1>2, UnitType DEF OwnStamp
  <1>5. OwnStamp(g, i) =< Seen(g, g)
    BY <1>3 DEF Below, OwnStamp, Seen
  <1> QED
    BY <1>2, <1>3, <1>4, <1>5, MaxClockAssumption

\* Streams that do not change.
LEMMA ExtendsSame ==
    ASSUME TypeOK, stream' = stream
    PROVE  Extends(stream, stream')
  <1>1. \A g \in Gid : Len(stream[g]) \in Nat
    BY StampType
  <1> QED
    BY <1>1 DEF Extends

\* A command that is fed: no new write unless it is one, and a new delete
\* when it is one.
LEMMA FedWrites ==
    ASSUME TypeOK, NEW n \in Gid, NEW op \in {"set", "del", "ovc"},
           NEW vc \in VectorClocks, Feed(n, op, vc)
    PROVE  /\ Extends(stream, stream')
           /\ \A g \in Gid : \A w : WriteIn(stream', g, w) =>
                \/ WriteIn(stream, g, w)
                \/ op = "set" /\ g = n /\ w = get_vcu_from_vc(vc, n)
           /\ op = "set" => WriteIn(stream', n, get_vcu_from_vc(vc, n))
           /\ op = "del" => OnlyDeletes(stream', vc)
  <1> DEFINE last == Len(stream[n]) + 1
  <1>1. /\ \A q \in Gid : q # n => stream'[q] = stream[q]
        /\ Len(stream[n]) \in Nat
        /\ Len(stream'[n]) = last
        /\ \A i \in 1..Len(stream[n]) : stream'[n][i] = stream[n][i]
        /\ stream'[n][last] = [op |-> op, vc |-> vc]
    BY FeedFacts
  <1>2. stream'[n][last].op = op /\ stream'[n][last].vc = vc
    BY <1>1
  <1>3. \A q \in Gid : Len(stream[q]) \in Nat
    BY StampType
  <1>4. Extends(stream, stream')
    BY <1>1, <1>3 DEF Extends
  <1>5. last \in 1..Len(stream'[n]) /\ last \in Nat
    BY <1>1
  <1>6. \A q \in Gid : \A i \in 1..Len(stream'[q]) :
            \/ i \in 1..Len(stream[q]) /\ stream'[q][i] = stream[q][i]
            \/ q = n /\ i = last
    BY <1>1, <1>3
  <1> HIDE DEF last
  <1>7. ASSUME NEW g \in Gid, NEW w, WriteIn(stream', g, w), ~WriteIn(stream, g, w)
        PROVE  op = "set" /\ g = n /\ w = get_vcu_from_vc(vc, n)
    <2>1. PICK i \in 1..Len(stream'[g]) :
              stream'[g][i].op = "set" /\ get_vcu_from_vc(stream'[g][i].vc, g) = w
      BY <1>7 DEF WriteIn
    <2>2. ~(i \in 1..Len(stream[g]) /\ stream'[g][i] = stream[g][i])
      BY <1>7, <2>1 DEF WriteIn
    <2> QED
      BY <1>2, <1>6, <2>1, <2>2
  <1>8. op = "set" => WriteIn(stream', n, get_vcu_from_vc(vc, n))
    BY <1>2, <1>5 DEF WriteIn
  <1>9. op = "del" => OnlyDeletes(stream', vc)
    BY <1>2, <1>5 DEF OnlyDeletes, DeleteIn
  <1> QED
    BY <1>4, <1>7, <1>8, <1>9

\* NothingInvented after a step, from what the step changes.
LEMMA InventedStep ==
    ASSUME TypeOK, NothingInvented, Extends(stream, stream'),
           \A m \in Gid : val'[m] = val[m] \/ OnlyWrites(stream', val'[m]),
           \A m \in Gid : tomb'[m] = tomb[m] \/ OnlyDeletes(stream', tomb'[m]),
           \A m, q \in Gid : \/ snapshot'[m][q] = snapshot[m][q]
                             \/ /\ OnlyWrites(stream', snapshot'[m][q].val)
                                /\ OnlyDeletes(stream', snapshot'[m][q].tomb)
    PROVE  NothingInvented'
  <1> SUFFICES ASSUME NEW m \in Gid
               PROVE  /\ OnlyWrites(stream', val'[m])
                      /\ OnlyDeletes(stream', tomb'[m])
                      /\ \A q \in Gid : /\ OnlyWrites(stream', snapshot'[m][q].val)
                                        /\ OnlyDeletes(stream', snapshot'[m][q].tomb)
    BY DEF NothingInvented
  <1>1. /\ OnlyWrites(stream, val[m])
        /\ OnlyDeletes(stream, tomb[m])
        /\ \A q \in Gid : /\ OnlyWrites(stream, snapshot[m][q].val)
                          /\ OnlyDeletes(stream, snapshot[m][q].tomb)
    BY DEF NothingInvented
  <1>2. val[m] \in VectorClocks /\ tomb[m] \in VectorClocks
    BY DEF TypeOK
  <1>3. OnlyWrites(stream', val[m]) /\ OnlyDeletes(stream', tomb[m])
    BY <1>1, <1>2, ExtendsOnly
  <1>4. ASSUME NEW q \in Gid
        PROVE  OnlyWrites(stream', snapshot[m][q].val) /\ OnlyDeletes(stream', snapshot[m][q].tomb)
    <2>1. snapshot[m][q].val \in VectorClocks /\ snapshot[m][q].tomb \in VectorClocks
      BY SnapshotType
    <2> QED
      BY <1>1, <2>1, ExtendsOnly
  <1> QED
    BY <1>3, <1>4

\* The writes a full synchronisation is to bring, when the step is not one of
\* that synchronisation.
LEMMA BroughtStep ==
    ASSUME TypeOK, SnapshotWrites, NEW m \in Gid, NEW q \in Gid,
           Extends(stream, stream'), Retains(stream', val[m], val'[m]),
           link'[m][q] = link[m][q], snapshot'[m][q] = snapshot[m][q],
           Seen(m, q)' \in Nat, Seen(m, q) =< Seen(m, q)',
           \A w \in 1..MaxClock :
                WriteIn(stream', q, w) /\ link[m][q] \in TransferStates
                    /\ w =< get_vcu_from_vc(snapshot[m][q].vc, q) => WriteIn(stream, q, w)
    PROVE  BroughtWrites(m, q)'
  <1> DEFINE s == snapshot[m][q]
             hi == get_vcu_from_vc(s.vc, q)
  <1>1. Seen(m, q) \in Nat
    BY SeenType
  <1>2. BroughtWrites(m, q)
    BY DEF SnapshotWrites
  <1>3. /\ link[m][q] \in {"MERGE_START", "MERGE"} =>
                KeptBetween(stream, s.val, q, Seen(m, q), hi)
        /\ link[m][q] \in {"MERGE_DEL", "MERGE_END"} =>
                KeptBetween(stream, val[m], q, Seen(m, q), hi)
    BY <1>2 DEF BroughtWrites
  <1>4. link[m][q] \in TransferStates =>
            \A w \in 1..MaxClock : WriteIn(stream', q, w) /\ Seen(m, q)' < w /\ w =< hi =>
                WriteIn(stream, q, w) /\ Seen(m, q) < w /\ w =< hi
    BY <1>1, MaxClockAssumption
  <1> HIDE DEF hi
  <1>5. ASSUME link[m][q] \in {"MERGE_START", "MERGE"}
        PROVE  KeptBetween(stream', s.val, q, Seen(m, q)', hi)
    <2>1. link[m][q] \in TransferStates
      BY <1>5 DEF TransferStates
    <2> HIDE DEF s
    <2>2. Retains(stream', s.val, s.val)
      BY RetainsSame
    <2> QED
      BY <1>3, <1>4, <1>5, <2>1, <2>2, CarryKept
  <1>6. ASSUME link[m][q] \in {"MERGE_DEL", "MERGE_END"}
        PROVE  KeptBetween(stream', val'[m], q, Seen(m, q)', hi)
    <2>1. link[m][q] \in TransferStates
      BY <1>6 DEF TransferStates
    <2> HIDE DEF s
    <2> QED
      BY <1>3, <1>4, <1>6, <2>1, CarryKept
  <1> QED
    BY <1>5, <1>6 DEF BroughtWrites, hi

\* The writes a site has seen, when it sees no new one or has just put it in
\* its value.
LEMMA KeptStep ==
    ASSUME TypeOK, WritesKept, NEW m \in Gid, NEW q \in Gid,
           Extends(stream, stream'), Retains(stream', val[m], val'[m]),
           \A w \in 1..MaxClock : WriteIn(stream', q, w) /\ w =< Seen(m, q)' =>
                \/ Kept(stream', val'[m], q, w)
                \/ WriteIn(stream, q, w) /\ w =< Seen(m, q)
    PROVE  KeptBetween(stream', val'[m], q, 0, Seen(m, q)')
  <1>1. KeptBetween(stream, val[m], q, 0, Seen(m, q))
    BY DEF WritesKept
  <1> QED
    BY <1>1, CarryKept

\* A step that touches one site's view of one peer.
LEMMA HistoryStep ==
    ASSUME IndInv, HistoryInv, NEW n \in Gid, NEW p \in Gid,
           Extends(stream, stream'), NothingInvented',
           \A m \in Gid : Retains(stream', val[m], val'[m]),
           \A m, q \in Gid : <<m, q>> # <<n, p>> => /\ link'[m][q] = link[m][q]
                                                    /\ snapshot'[m][q] = snapshot[m][q]
                                                    /\ Seen(m, q)' = Seen(m, q),
           \A g \in Gid : \A w \in 1..MaxClock :
                WriteIn(stream', g, w) => WriteIn(stream, g, w) \/ Seen(g, g) < w,
           KeptBetween(stream', val'[n], p, 0, Seen(n, p)'),
           BroughtWrites(n, p)'
    PROVE  HistoryInv'
  <1>0. TypeOK /\ ClockLead /\ SnapshotClock /\ WritesKept /\ SnapshotWrites
    BY DEF IndInv, HistoryInv
  <1>1. \A m, g \in Gid : Seen(m, g) \in Nat
    BY <1>0, SeenType
  <1>2. ASSUME NEW m \in Gid, NEW q \in Gid, <<m, q>> # <<n, p>>
        PROVE  KeptBetween(stream', val'[m], q, 0, Seen(m, q)') /\ BroughtWrites(m, q)'
    <2>1. /\ link'[m][q] = link[m][q]
          /\ snapshot'[m][q] = snapshot[m][q]
          /\ Seen(m, q)' = Seen(m, q)
          /\ Retains(stream', val[m], val'[m])
      BY <1>2
    <2>2. Seen(m, q) =< Seen(q, q)
      BY <1>0 DEF ClockLead
    <2>3. \A w \in 1..MaxClock : WriteIn(stream', q, w) /\ w =< Seen(m, q)' =>
                WriteIn(stream, q, w) /\ w =< Seen(m, q)
      BY <1>1, <2>1, <2>2, MaxClockAssumption
    <2>4. ASSUME link[m][q] \in TransferStates
          PROVE  /\ get_vcu_from_vc(snapshot[m][q].vc, q) \in Nat
                 /\ get_vcu_from_vc(snapshot[m][q].vc, q) =< Seen(q, q)
      <3>1. snapshot[m][q].vc \in VectorClocks /\ Below(snapshot[m][q].vc, vectorClock[q])
        BY <1>0, <2>4, SnapshotType DEF SnapshotClock
      <3> QED
        BY <3>1, UnitType DEF Below, Seen
    <2>5. \A w \in 1..MaxClock :
                WriteIn(stream', q, w) /\ link[m][q] \in TransferStates
                    /\ w =< get_vcu_from_vc(snapshot[m][q].vc, q) => WriteIn(stream, q, w)
      BY <1>1, <2>4, MaxClockAssumption
    <2>6. KeptBetween(stream', val'[m], q, 0, Seen(m, q)')
      BY <1>0, <2>1, <2>3, KeptStep
    <2>7. Seen(m, q)' \in Nat /\ Seen(m, q) =< Seen(m, q)'
      BY <1>1, <2>1
    <2>8. BroughtWrites(m, q)'
      BY <1>0, <2>1, <2>5, <2>7, BroughtStep
    <2> QED
      BY <2>6, <2>8
  <1>3. \A m, q \in Gid :
            KeptBetween(stream', val'[m], q, 0, Seen(m, q)') /\ BroughtWrites(m, q)'
    BY <1>2
  <1>4. WritesKept'
    BY <1>3 DEF WritesKept
  <1>5. SnapshotWrites'
    BY <1>3 DEF SnapshotWrites
  <1> QED
    BY <1>4, <1>5 DEF HistoryInv

\* A step that leaves streams, values, clocks and all snapshots in transit
\* alone.
LEMMA StillHistory ==
    ASSUME IndInv, HistoryInv, NEW n \in Gid, NEW p \in Gid,
           UNCHANGED <<stream, val>>,
           \A m \in Gid : tomb'[m] \in {tomb[m], NullVectorClock},
           \A m, q \in Gid : Seen(m, q)' = Seen(m, q),
           \A m, q \in Gid : <<m, q>> # <<n, p>> => link'[m][q] = link[m][q],
           \A m, q \in Gid : snapshot'[m][q] # snapshot[m][q] =>
                <<m, q>> = <<n, p>> /\ snapshot'[m][q] = NoSnapshot,
           \/ link'[n][p] \notin TransferStates
           \/ snapshot'[n][p] = snapshot[n][p] /\ link'[n][p] = link[n][p]
           \/ /\ snapshot'[n][p] = snapshot[n][p]
              /\ link[n][p] = "MERGE_START" /\ link'[n][p] = "MERGE"
    PROVE  HistoryInv'
  <1>0. TypeOK /\ NothingInvented /\ WritesKept /\ BroughtWrites(n, p)
    BY DEF IndInv, HistoryInv, SnapshotWrites
  <1>1. Extends(stream, stream')
    BY <1>0, ExtendsSame
  <1>2. NothingInvented'
    <2>1. /\ OnlyWrites(stream', NullVectorClock) /\ OnlyDeletes(stream', NullVectorClock)
          /\ NoSnapshot.val = NullVectorClock /\ NoSnapshot.tomb = NullVectorClock
      BY NullOnly DEF NoSnapshot
    <2>2. \A m \in Gid : val'[m] = val[m] /\ (tomb'[m] = tomb[m] \/ OnlyDeletes(stream', tomb'[m]))
      BY <2>1
    <2>3. \A m, q \in Gid : \/ snapshot'[m][q] = snapshot[m][q]
                            \/ /\ OnlyWrites(stream', snapshot'[m][q].val)
                               /\ OnlyDeletes(stream', snapshot'[m][q].tomb)
      BY <2>1
    <2> QED
      BY <1>0, <1>1, <2>2, <2>3, InventedStep
  <1>3. \A m \in Gid : Retains(stream', val[m], val'[m])
    BY RetainsSame
  <1>4. KeptBetween(stream', val'[n], p, 0, Seen(n, p)')
    BY <1>0 DEF WritesKept
  <1>5. BroughtWrites(n, p)'
    <2>1. CASE link'[n][p] \notin TransferStates
      BY <2>1 DEF BroughtWrites, TransferStates
    <2>2. CASE /\ snapshot'[n][p] = snapshot[n][p]
               /\ link'[n][p] = link[n][p] \/ (link[n][p] = "MERGE_START" /\ link'[n][p] = "MERGE")
      <3>1. Seen(n, p)' = Seen(n, p) /\ stream' = stream /\ val' = val
        OBVIOUS
      <3> QED
        BY <1>0, <2>2, <3>1 DEF BroughtWrites
    <2> QED
      BY <2>1, <2>2
  <1>6. \A m, q \in Gid : <<m, q>> # <<n, p>> => /\ link'[m][q] = link[m][q]
                                                 /\ snapshot'[m][q] = snapshot[m][q]
                                                 /\ Seen(m, q)' = Seen(m, q)
    OBVIOUS
  <1>7. \A g \in Gid : \A w \in 1..MaxClock : WriteIn(stream', g, w) => WriteIn(stream, g, w)
    OBVIOUS
  <1> QED
    BY <1>1, <1>2, <1>3, <1>4, <1>5, <1>6, <1>7, HistoryStep

\* Nothing is written yet.
LEMMA InitHistory == Init \/ InitMesh => HistoryInv
  <1> SUFFICES ASSUME Init \/ InitMesh PROVE HistoryInv
    OBVIOUS
  <1>1. \A n \in Gid : val[n] = NullVectorClock /\ tomb[n] = NullVectorClock /\ stream[n] = <<>>
    BY DEF Init, InitMesh
  <1>2. \A n, p \in Gid : snapshot[n][p] = NoSnapshot
    BY DEF Init, InitMesh
  <1>3. NoSnapshot.val = NullVectorClock /\ NoSnapshot.tomb = NullVectorClock
    BY DEF NoSnapshot
  <1>4. NothingInvented
    BY <1>1, <1>2, <1>3, NullOnly DEF NothingInvented
  <1>5. \A g \in Gid : \A w : ~WriteIn(stream, g, w)
    BY <1>1 DEF WriteIn
  <1>6. WritesKept /\ SnapshotWrites
    BY <1>5 DEF WritesKept, SnapshotWrites, BroughtWrites, KeptBetween
  <1> QED
    BY <1>4, <1>6 DEF HistoryInv

-----------------------------------------------------------------------------
(*****************************************************************************)
(* Drained sites.                                                            *)
(*****************************************************************************)

\* In a drained system every site has seen every write and every delete.
LEMMA DrainedSeen ==
    ASSUME IndInv, Drained, NEW n \in Gid, NEW g \in Gid, NEW i \in Updates(g)
    PROVE  OwnStamp(g, i) =< Seen(n, g)
  <1>0. TypeOK /\ StampsOrdered /\ OffsetMatchesClock
    BY DEF IndInv
  <1>1. i \in 1..Len(stream[g]) /\ Len(stream[g]) \in Nat
    BY <1>0, StampType
  <1>2. CASE n = g
    BY <1>0, <1>1, <1>2 DEF StampsOrdered, Below, OwnStamp, Seen
  <1>3. CASE n # g
    <2>1. link[n][g] = "CONNECTED" /\ reploff[n][g] = Len(stream[g])
      BY <1>3 DEF Drained, Peers
    <2>2. Splits(g, Len(stream[g]), Seen(n, g))
      BY <1>0, <2>1 DEF OffsetMatchesClock
    <2> QED
      BY <1>1, <2>2 DEF Splits
  <1> QED
    BY <1>2, <1>3

\* A write that one site of a drained system holds, every site holds.
LEMMA DrainedHolds ==
    ASSUME IndInv, HistoryInv, Drained, NEW n \in Gid, NEW m \in Gid, NEW g \in DOMAIN val[n]
    PROVE  g \in Gid /\ g \in DOMAIN val[m] /\ val[n][g] =< val[m][g]
  <1>0. /\ TypeOK /\ StampsOrdered /\ NoResurrection
        /\ NothingInvented /\ WritesKept
    BY DEF IndInv, HistoryInv
  <1>1. val[n] \in VectorClocks /\ g \in Gid
    BY <1>0, VcElim DEF TypeOK
  <1> DEFINE w == val[n][g]
  <1>2. WriteIn(stream, g, w)
    BY <1>0 DEF NothingInvented, OnlyWrites
  <1>3. w \in 1..MaxClock
    BY <1>0, <1>1, <1>2, WriteSeen
  <1>4. ~DeleteIn(stream, g, w)
    <2> SUFFICES ASSUME NEW q \in Gid, NEW j \in 1..Len(stream[q]), stream[q][j].op = "del",
                        w =< get_vcu_from_vc(stream[q][j].vc, g)
                 PROVE  FALSE
      BY DEF DeleteIn
    <2>1. j \in Deletes(q) /\ j \in Updates(q)
      BY DEF Deletes, Updates
    <2>2. OwnStamp(q, j) =< Seen(n, q)
      BY <2>1, DrainedSeen
    <2>3. Purged(Stamp(q, j), val[n])
      BY <1>0, <2>1, <2>2 DEF NoResurrection
    <2>4. get_vcu_from_vc(Stamp(q, j), g) < w
      BY <2>3 DEF Purged
    <2>5. Stamp(q, j) \in VectorClocks
      BY <1>0, StampType
    <2>6. get_vcu_from_vc(Stamp(q, j), g) \in Nat
      BY <2>5, UnitType
    <2> QED
      BY <1>3, <2>4, <2>6, MaxClockAssumption DEF Stamp
  <1>5. w =< Seen(m, g)
    <2>1. PICK i \in 1..Len(stream[g]) :
              stream[g][i].op = "set" /\ get_vcu_from_vc(stream[g][i].vc, g) = w
      BY <1>2 DEF WriteIn
    <2>2. i \in Updates(g) /\ w = OwnStamp(g, i)
      BY <2>1 DEF Updates, OwnStamp, Stamp
    <2> QED
      BY <1>1, <2>2, DrainedSeen
  <1>6. KeptBetween(stream, val[m], g, 0, Seen(m, g))
    BY <1>0, <1>1 DEF WritesKept
  <1> HIDE DEF w
  <1>7. Kept(stream, val[m], g, w)
    BY <1>2, <1>3, <1>5, <1>6, MaxClockAssumption DEF KeptBetween
  <1> QED
    BY <1>1, <1>4, <1>7 DEF Kept, w

\* So drained sites agree.
LEMMA DrainedAgree == IndInv /\ HistoryInv => Convergence
  <1> SUFFICES ASSUME IndInv, HistoryInv, Drained, NEW n \in Gid, NEW m \in Gid
               PROVE  val[n] = val[m]
    BY DEF Convergence
  <1>1. val[n] \in VectorClocks /\ val[m] \in VectorClocks
    BY DEF IndInv, TypeOK
  <1>2. /\ \A g \in DOMAIN val[n] : g \in DOMAIN val[m] /\ val[n][g] =< val[m][g]
        /\ \A g \in DOMAIN val[m] : g \in DOMAIN val[n] /\ val[m][g] =< val[n][g]
    BY DrainedHolds
  <1>3. /\ \A g \in DOMAIN val[n] : val[n][g] \in Nat
        /\ \A g \in DOMAIN val[m] : val[m][g] \in Nat
    BY <1>1, VcElim, MaxClockAssumption
  <1>4. DOMAIN val[n] = DOMAIN val[m] /\ \A g \in DOMAIN val[n] : val[n][g] = val[m][g]
    BY <1>2, <1>3
  <1>5. val[n] \in [DOMAIN val[n] -> 0..MaxClock] /\ val[m] \in [DOMAIN val[m] -> 0..MaxClock]
    BY <1>1, VcElim
  <1> QED
    BY <1>4, <1>5
=============================================================================
