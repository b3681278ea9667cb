------------------------- MODULE SiteRecoveryProofs -------------------------
(***************************************************************************)
(* Proofs about SiteRecovery, for any peers and any bounds: no clock is    *)
(* given out twice when every peer answers a restarted site and only a     *)
(* linked slave is promoted, and the site recovers its writes when, in     *)
(* addition, no RDB file is saved during a backstream.                     *)
(***************************************************************************)
EXTENDS SiteRecovery, FiniteSetTheorems, WellFoundedInduction, TLAPS

Writes == [clock : Nat \ {0}, life : Nat]

StateType ==
    /\ up \in BOOLEAN /\ loading \in BOOLEAN /\ others \in BOOLEAN
    /\ clock \in Nat /\ life \in Nat /\ promoted \in Nat
    /\ writes \in Nat /\ writes =< MaxWrites
    /\ data \in SUBSET Writes
    /\ backstream_vc \in [Peer -> Int]
    /\ rdb \in [clock : Nat, data : SUBSET Writes, others : BOOLEAN]
    /\ slave \in [clock : Nat, data : SUBSET Writes, linked : BOOLEAN]
    /\ peer \in [Peer -> [clock : Nat, data : SUBSET Writes]]

\* The writes of the site that can still count: those of its database, its
\* RDB file, its peers, and a slave that follows it.
Held ==
    data \cup rdb.data \cup (IF slave.linked THEN slave.data ELSE {})
         \cup UNION {peer[p].data : p \in Peer}

\* Every holder of writes has a clock that is not behind them.
NoneAhead ==
    /\ \A w \in data : w.clock =< clock
    /\ \A w \in rdb.data : w.clock =< rdb.clock
    /\ \A w \in slave.data : w.clock =< slave.clock
    /\ \A p \in Peer : \A w \in peer[p].data : w.clock =< peer[p].clock

\* A site that is not loading is ahead of its peers, of its RDB file and of
\* its slave, which lacks no more than the writes of clients.  A site that is
\* loading is ahead of the peers that have sent their part, and will be ahead
\* of its RDB file.
Ahead ==
    /\ loading <=> owing # {}
    /\ slave.linked => /\ ~loading
                       /\ slave.clock =< clock
                       /\ clock =< slave.clock + writes
    /\ \A p \in Peer : p \notin owing => peer[p].clock =< clock
    /\ rdb.clock =< clock \/ \E p \in owing : rdb.clock < peer[p].clock

\* A clock stands for one write.
OneWrite == \A v, w \in Held : v.clock = w.clock => v = w

ClockInv == StateType /\ NoneAhead /\ Ahead /\ OneWrite

\* The writes since the last promotion that a restart may find again.
Findable == {w \in rdb.data \cup UNION {peer[p].data : p \in Peer} : w.life >= promoted}

Recent == {w \in data : w.life >= promoted} \cup Findable

\* A peer and the RDB file lack no recent write that is not after their clock.
InOrder ==
    /\ \A w \in Held : w.life =< life
    /\ \A p \in Peer : \A w \in Recent : w.clock =< peer[p].clock => w \in peer[p].data
    /\ \A w \in Recent : w.clock =< rdb.clock => w \in rdb.data

\* The site holds what can be found, or one peer that has still to send its
\* part holds it and will send all of it.
Fetching ==
    \/ Findable \subseteq data
    \/ \E g \in owing : backstream_vc[g] = 0 /\ Findable \subseteq peer[g].data

DataInv == InOrder /\ Fetching

-----------------------------------------------------------------------------
(***************************************************************************)
(* Least and greatest elements.                                            *)
(***************************************************************************)

\* A set of naturals has a least element.
LEMMA LeastExists ==
    ASSUME NEW S \in SUBSET Nat, S # {}
    PROVE  \E x \in S : \A y \in S : x =< y
  <1> DEFINE R == {ss \in Nat \X Nat : ss[1] < ss[2]}
  <1>1. IsWellFoundedOn(R, Nat)
    BY NatLessThanWellFounded DEF OpToRel
  <1>2. \A y, z \in Nat : y < z => <<y, z>> \in R
    OBVIOUS
  <1> HIDE DEF R
  <1>3. PICK x \in S : \A y \in S : ~(<<y, x>> \in R)
    BY <1>1, WFMin, Zenon
  <1>4. \A y \in S : y \in Nat /\ x \in Nat /\ ~(y < x)
    BY <1>2, <1>3, Zenon
  <1>5. \A y \in S : x =< y
    BY <1>4
  <1> QED
    BY <1>5

\* A finite set of integers has a greatest element.
LEMMA GreatestExists ==
    ASSUME NEW S \in SUBSET Int, IsFiniteSet(S), S # {}
    PROVE  \E x \in S : \A y \in S : y =< x
  <1> DEFINE HasGreatest(T) == \E x \in T : \A y \in T : y =< x
             Bad == {T \in SUBSET S : T # {} /\ ~HasGreatest(T)}
             Sizes == {Cardinality(T) : T \in Bad}
  <1> SUFFICES ASSUME ~HasGreatest(S) PROVE FALSE
    OBVIOUS
  <1>1. \A T \in SUBSET S : IsFiniteSet(T) /\ Cardinality(T) \in Nat
    BY FS_Subset, FS_CardinalityType, Zenon
  <1>2. S \in Bad
    OBVIOUS
  <1>3. Sizes \in SUBSET Nat /\ Sizes # {}
    BY <1>1, <1>2
  <1>4. PICK k \in Sizes : \A j \in Sizes : k =< j
    BY <1>3, LeastExists, Zenon
  <1>5. PICK T \in Bad : Cardinality(T) = k
    BY <1>4
  <1>6. PICK x : x \in T
    BY <1>5
  <1> DEFINE U == T \ {x}
  <1>7. U \in SUBSET S /\ T = U \cup {x} /\ x \in Int /\ U \subseteq Int
    BY <1>5, <1>6
  <1>8. Cardinality(U) = k - 1 /\ k \in Nat
    BY <1>1, <1>3, <1>5, <1>6, FS_RemoveElement, Zenon
  <1>9. U \notin Bad
    <2>1. U \in Bad => Cardinality(U) \in Sizes
      BY Zenon
    <2> HIDE DEF U, Sizes
    <2> QED
      BY <1>4, <1>8, <2>1
  <1>10. CASE U = {}
    <2>1. T = {x}
      BY <1>7, <1>10
    <2>2. HasGreatest(T)
      BY <1>7, <2>1
    <2> QED
      BY <1>5, <2>2
  <1>11. CASE U # {}
    <2>1. HasGreatest(U)
      BY <1>7, <1>9, <1>11
    <2>2. PICK u \in U : \A y \in U : y =< u
      BY <2>1
    <2> HIDE DEF U
    <2>3. HasGreatest(T)
      BY <1>7, <2>2
    <2> QED
      BY <1>5, <2>3
  <1> QED
    BY <1>10, <1>11

\* The first of some writes.
LEMMA FirstWrite ==
    ASSUME NEW ws \in SUBSET Writes, ws # {}
    PROVE  First(ws) \in ws /\ \A v \in ws : First(ws).clock =< v.clock
  <1> DEFINE S == {w.clock : w \in ws}
  <1>1. S \in SUBSET Nat /\ S # {}
    BY DEF Writes
  <1>2. PICK x \in S : \A y \in S : x =< y
    BY <1>1, LeastExists, Zenon
  <1>3. PICK w \in ws : w.clock = x
    BY <1>2
  <1>4. \A v \in ws : w.clock =< v.clock
    BY <1>2, <1>3
  <1> QED
    BY <1>4 DEF First

\* What peerBackStream finds out when all peers answer.
LEMMA MaxVcu ==
    ASSUME StateType
    PROVE  /\ maxVcu(Peer) \in Int
           /\ NoClock =< maxVcu(Peer)
           /\ \A p \in Peer : peer[p].clock =< maxVcu(Peer)
           /\ Peer # {} => /\ maxGid(Peer) \in Peer
                           /\ peer[maxGid(Peer)].clock = maxVcu(Peer)
  <1> DEFINE f == [p \in Peer |-> peer[p].clock]
             T == {peer[p].clock : p \in Peer}
             S == {NoClock} \cup T
             m == maxVcu(Peer)
  <1>0. \A p \in Peer : peer[p].clock \in Nat
    BY DEF StateType
  <1>1. f \in Surjection(Peer, T)
    BY DEF Surjection
  <1>2. IsFiniteSet(T)
    BY <1>1, FS_Surjection, BoundAssumption
  <1>3. IsFiniteSet(S)
    BY <1>2, FS_AddElement
  <1>4. S \in SUBSET Int /\ S # {}
    BY <1>0 DEF NoClock
  <1>5. \E x \in S : \A y \in S : y =< x
    BY <1>3, <1>4, GreatestExists
  <1>6. \E x \in S : \A y \in S : x >= y
    BY <1>4, <1>5
  <1>7. m = Max(S)
    BY DEF maxVcu
  <1> HIDE DEF m, S
  <1>8. m \in S /\ \A y \in S : m >= y
    BY <1>6, <1>7 DEF Max
  <1>9. m \in Int /\ NoClock =< m /\ \A p \in Peer : peer[p].clock =< m
    BY <1>0, <1>4, <1>8 DEF S, NoClock
  <1>10. ASSUME Peer # {}
         PROVE  maxGid(Peer) \in Peer /\ peer[maxGid(Peer)].clock = m
    <2> DEFINE G == {p \in Peer : peer[p].clock = m}
    <2>1. m # NoClock
      BY <1>0, <1>9, <1>10 DEF NoClock
    <2>2. PICK q \in Peer : peer[q].clock = m
      BY <1>8, <2>1 DEF S
    <2>3. G \in SUBSET Nat /\ G # {}
      BY <2>2, BoundAssumption, Zenon
    <2>4. \E x \in G : \A y \in G : x =< y
      BY <2>3, LeastExists, Zenon
    <2>5. maxGid(Peer) = Min(G)
      BY DEF maxGid, m
    <2> HIDE DEF G
    <2>6. maxGid(Peer) \in G
      BY <2>4, <2>5 DEF Min
    <2> QED
      BY <2>6 DEF G
  <1> QED
    BY <1>9, <1>10 DEF m

\* Without peers the greatest unit is NoClock.
LEMMA EmptyMaxVcu == Peer = {} => maxVcu(Peer) = NoClock
  <1> SUFFICES ASSUME Peer = {} PROVE maxVcu(Peer) = NoClock
    OBVIOUS
  <1>1. maxVcu(Peer) = Max({NoClock})
    BY DEF maxVcu
  <1>2. NoClock \in Int /\ NoClock >= NoClock
    BY DEF NoClock
  <1> QED
    BY <1>1, <1>2 DEF Max

-----------------------------------------------------------------------------
(***************************************************************************)
(* Every step keeps ClockInv.                                              *)
(***************************************************************************)

\* The types of what the servers hold.
LEMMA HolderTypes ==
    ASSUME StateType
    PROVE  /\ rdb.clock \in Nat /\ rdb.data \in SUBSET Writes /\ rdb.others \in BOOLEAN
           /\ slave.clock \in Nat /\ slave.data \in SUBSET Writes /\ slave.linked \in BOOLEAN
           /\ \A p \in Peer : peer[p].clock \in Nat /\ peer[p].data \in SUBSET Writes
           /\ \A w \in Writes : w.clock \in Nat /\ 0 < w.clock /\ w.life \in Nat
  BY DEF StateType, Writes

\* A write is held by the database, the RDB file, the slave or a peer.
LEMMA HeldBy ==
    ASSUME NEW w
    PROVE  w \in Held <=> \/ w \in data
                          \/ w \in rdb.data
                          \/ slave.linked /\ w \in slave.data
                          \/ \E p \in Peer : w \in peer[p].data
  BY DEF Held

\* A step that gives out no clock.
LEMMA NoNewWrite ==
    ASSUME OneWrite,
           \A w : w \in data' => w \in Held,
           \A w : w \in rdb'.data => w \in Held,
           \A w : slave'.linked /\ w \in slave'.data => w \in Held,
           \A p \in Peer : \A w : w \in peer'[p].data => w \in Held
    PROVE  OneWrite' /\ Held' \subseteq Held
  <1>1. \A w : w \in Held' => w \in Held
    BY DEF Held
  <1> QED
    BY <1>1 DEF OneWrite

\* A client's write: its clock is after that of every write held.
LEMMA WriteClocks ==
    ASSUME ClockInv, Write
    PROVE  ClockInv'
  <1> DEFINE new == [clock |-> clock + 1, life |-> life]
  <1>0. StateType /\ NoneAhead /\ Ahead /\ OneWrite
    BY DEF ClockInv
  <1>1. /\ ~loading /\ writes < MaxWrites
        /\ writes' = writes + 1 /\ clock' = clock + 1
        /\ data' = data \cup {new}
        /\ UNCHANGED <<up, others, loading, backstream_vc, rdb, slave, peer, life, promoted>>
    BY DEF Write
  <1>2. clock \in Nat /\ writes \in Nat /\ MaxWrites \in Nat /\ life \in Nat
    BY <1>0, JumpAssumption DEF StateType
  <1>3. new \in Writes /\ new.clock = clock + 1
    BY <1>2 DEF Writes
  <1> HIDE DEF new
  <1>4. StateType'
    BY <1>0, <1>1, <1>2, <1>3 DEF StateType
  <1>5. \A w \in Held : w.clock \in Nat /\ w.clock =< clock
    <2>1. /\ \A p \in Peer : peer[p].clock =< clock
          /\ slave.linked => slave.clock =< clock
          /\ rdb.clock =< clock
      BY <1>0, <1>1 DEF Ahead
    <2>2. \A w \in Held : w \in Writes
      BY <1>0, HeldBy, HolderTypes DEF StateType
    <2> SUFFICES ASSUME NEW w \in Held PROVE w.clock \in Nat /\ w.clock =< clock
      OBVIOUS
    <2>3. w.clock \in Nat
      BY <1>0, <2>2, HolderTypes
    <2>4. CASE w \in data
      BY <1>0, <2>3, <2>4 DEF NoneAhead
    <2>5. CASE w \in rdb.data
      BY <1>0, <1>2, <2>1, <2>3, <2>5, HolderTypes DEF NoneAhead
    <2>6. CASE slave.linked /\ w \in slave.data
      BY <1>0, <1>2, <2>1, <2>3, <2>6, HolderTypes DEF NoneAhead
    <2>7. ASSUME NEW p \in Peer, w \in peer[p].data PROVE w.clock =< clock
      BY <1>0, <1>2, <2>1, <2>3, <2>7, HolderTypes DEF NoneAhead
    <2> QED
      BY <2>3, <2>4, <2>5, <2>6, <2>7, HeldBy
  <1>6. NoneAhead'
    <2>1. \A w \in data : w.clock =< clock' /\ w.clock \in Nat
      BY <1>1, <1>2, <1>5, HeldBy
    <2>2. \A w \in data' : w.clock =< clock'
      BY <1>1, <1>2, <1>3, <2>1
    <2> QED
      BY <1>0, <1>1, <2>2 DEF NoneAhead
  <1>7. Ahead'
    <2>1. slave.clock \in Nat /\ rdb.clock \in Nat /\ \A p \in Peer : peer[p].clock \in Nat
      BY <1>0, HolderTypes
    <2>2. owing' = owing
      BY <1>1 DEF owing
    <2> QED
      BY <1>0, <1>1, <1>2, <2>1, <2>2 DEF Ahead
  <1>8. OneWrite'
    <2>1. \A w : w \in Held' => w \in Held \/ w = new
      BY <1>1 DEF Held
    <2>2. \A w \in Held : w.clock # new.clock
      BY <1>2, <1>3, <1>5
    <2> QED
      BY <1>0, <2>1, <2>2 DEF OneWrite
  <1> QED
    BY <1>4, <1>6, <1>7, <1>8 DEF ClockInv

\* The next write that a follower with an earlier clock receives.
LEMMA NextWrite ==
    ASSUME StateType, NoneAhead, NEW c \in Nat, After(data, c) # {}
    PROVE  LET f == First(After(data, c))
           IN  /\ f \in data /\ f \in Writes /\ f.clock \in Nat
               /\ c < f.clock /\ f.clock =< clock
               /\ \A w \in data : c < w.clock => f.clock =< w.clock
  <1> DEFINE f == First(After(data, c))
  <1>1. After(data, c) \in SUBSET Writes
    BY DEF After, StateType
  <1>2. f \in After(data, c) /\ \A v \in After(data, c) : f.clock =< v.clock
    BY <1>1, FirstWrite
  <1> HIDE DEF f
  <1>3. f \in data /\ f.clock > c /\ f \in Writes /\ f.clock \in Nat
    BY <1>1, <1>2, HolderTypes DEF After
  <1>4. f.clock =< clock
    BY <1>3 DEF NoneAhead
  <1>5. ASSUME NEW w \in data, c < w.clock PROVE f.clock =< w.clock
    <2>1. w.clock \in Nat
      BY HolderTypes DEF StateType
    <2> QED
      BY <1>2, <1>5, <2>1 DEF After
  <1> QED
    BY <1>3, <1>4, <1>5 DEF f

\* What a peer has after it received.
LEMMA PeerHolds ==
    ASSUME ClockInv, NEW p \in Peer, PeerReceives(p)
    PROVE  \E c \in Nat : \E ws \in SUBSET data :
                /\ peer' = [peer EXCEPT ![p] = [clock |-> c, data |-> peer[p].data \cup ws]]
                /\ peer[p].clock =< c /\ c =< clock
                /\ \A w \in ws : w.clock =< c
                /\ \A w \in data : peer[p].clock < w.clock /\ w.clock =< c => w \in ws
  <1>0. StateType /\ NoneAhead /\ OneWrite
    BY DEF ClockInv
  <1>1. peer[p].clock \in Nat /\ clock \in Nat /\ peer[p].clock =< clock
    BY <1>0, HolderTypes DEF PeerReceives, StateType
  <1> DEFINE new == After(data, peer[p].clock)
  <1>2. \A w \in data : w.clock \in Nat /\ w.clock =< clock
    BY <1>0, HolderTypes DEF NoneAhead, StateType
  <1>3. CASE new # {} /\ peer' = [peer EXCEPT ![p] =
                [clock |-> First(new).clock, data |-> peer[p].data \cup {First(new)}]]
    <2> DEFINE f == First(new)
    <2>1. /\ f \in data /\ f.clock \in Nat
          /\ peer[p].clock < f.clock /\ f.clock =< clock
          /\ \A w \in data : peer[p].clock < w.clock => f.clock =< w.clock
      BY <1>0, <1>1, <1>3, NextWrite
    <2>2. peer' = [peer EXCEPT ![p] = [clock |-> f.clock, data |-> peer[p].data \cup {f}]]
      BY <1>3
    <2> HIDE DEF f, new
    <2>3. \A w \in data : peer[p].clock < w.clock /\ w.clock =< f.clock => w \in {f}
      <3> SUFFICES ASSUME NEW w \in data, peer[p].clock < w.clock, w.clock =< f.clock
                   PROVE  w = f
        OBVIOUS
      <3>1. w.clock = f.clock
        BY <1>2, <2>1
      <3> QED
        BY <1>0, <2>1, <3>1, HeldBy DEF OneWrite
    <2>4. \A w \in {f} : w.clock =< f.clock
      BY <2>1
    <2>5. peer[p].clock =< f.clock /\ {f} \in SUBSET data
      BY <1>1, <2>1
    <2> QED
      BY <2>1, <2>2, <2>3, <2>4, <2>5, Zenon
  <1>4. CASE peer' = [peer EXCEPT ![p] = [clock |-> clock, data |-> peer[p].data \cup new]]
    <2>1. new \in SUBSET data /\ \A w \in new : w.clock =< clock
      BY <1>2 DEF After
    <2>2. \A w \in data : peer[p].clock < w.clock => w \in new
      BY <1>1, <1>2 DEF After
    <2>3. peer[p].clock =< clock /\ clock =< clock /\ clock \in Nat
      BY <1>1
    <2> HIDE DEF new
    <2> QED
      BY <1>4, <2>1, <2>2, <2>3, Zenon
  <1> QED
    BY <1>3, <1>4 DEF PeerReceives

\* A peer receives.
LEMMA PeerReceivesClocks ==
    ASSUME ClockInv, NEW p \in Peer, PeerReceives(p)
    PROVE  ClockInv' /\ Held' \subseteq Held
  <1>0. StateType /\ NoneAhead /\ Ahead /\ OneWrite
    BY DEF ClockInv
  <1>1. /\ ~loading
        /\ UNCHANGED <<up, clock, data, others, loading, backstream_vc, rdb, slave,
                       life, promoted, writes>>
    BY DEF PeerReceives
  <1>2. PICK c \in Nat, ws \in SUBSET data :
            /\ peer' = [peer EXCEPT ![p] = [clock |-> c, data |-> peer[p].data \cup ws]]
            /\ peer[p].clock =< c /\ c =< clock
            /\ \A w \in ws : w.clock =< c
    BY PeerHolds
  <1>3. /\ peer'[p].clock = c /\ peer'[p].data = peer[p].data \cup ws
        /\ \A q \in Peer : q # p => peer'[q] = peer[q]
    BY <1>0, <1>2 DEF StateType
  <1>4. StateType'
    <2>1. ws \in SUBSET Writes /\ peer[p].data \in SUBSET Writes
      BY <1>0, HolderTypes DEF StateType
    <2>2. peer' \in [Peer -> [clock : Nat, data : SUBSET Writes]]
      BY <1>0, <1>2, <2>1 DEF StateType
    <2> QED
      BY <1>0, <1>1, <2>2 DEF StateType
  <1>5. NoneAhead'
    <2>1. \A w \in peer[p].data : w.clock =< c
      <3>1. \A w \in peer[p].data : w.clock \in Nat /\ w.clock =< peer[p].clock
        BY <1>0, HolderTypes DEF NoneAhead
      <3> QED
        BY <1>0, <1>2, <3>1, HolderTypes
    <2>2. \A q \in Peer : \A w \in peer'[q].data : w.clock =< peer'[q].clock
      BY <1>0, <1>2, <1>3, <2>1 DEF NoneAhead
    <2> QED
      BY <1>0, <1>1, <2>2 DEF NoneAhead
  <1>6. Ahead'
    <2>1. owing' = owing /\ owing = {}
      BY <1>0, <1>1 DEF owing, Ahead
    <2> QED
      BY <1>0, <1>1, <1>2, <1>3, <2>1 DEF Ahead
  <1>7. OneWrite' /\ Held' \subseteq Held
    <2>1. \A q \in Peer : \A w : w \in peer'[q].data => w \in Held
      BY <1>2, <1>3, HeldBy
    <2>2. /\ \A w : w \in data' => w \in Held
          /\ \A w : w \in rdb'.data => w \in Held
          /\ \A w : slave'.linked /\ w \in slave'.data => w \in Held
      BY <1>1, HeldBy
    <2> QED
      BY <1>0, <2>1, <2>2, NoNewWrite
  <1> QED
    BY <1>4, <1>5, <1>6, <1>7 DEF ClockInv

\* The slave takes all of it.
LEMMA SlaveSyncsClocks ==
    ASSUME ClockInv, SlaveSyncs
    PROVE  ClockInv' /\ Held' \subseteq Held
  <1>0. StateType /\ NoneAhead /\ Ahead /\ OneWrite
    BY DEF ClockInv
  <1>1. /\ ~loading
        /\ slave' = [clock |-> clock, data |-> data, linked |-> TRUE]
        /\ UNCHANGED <<up, clock, data, others, loading, backstream_vc, rdb, peer,
                       life, promoted, writes>>
    BY DEF SlaveSyncs
  <1>2. slave'.clock = clock /\ slave'.data = data /\ slave'.linked
    BY <1>1
  <1>3. StateType'
    BY <1>0, <1>1 DEF StateType
  <1>4. NoneAhead'
    BY <1>0, <1>1, <1>2 DEF NoneAhead
  <1>5. Ahead'
    <2>1. clock \in Nat /\ writes \in Nat /\ owing' = owing
      BY <1>0, <1>1 DEF StateType, owing
    <2> QED
      BY <1>0, <1>1, <1>2, <2>1 DEF Ahead
  <1>6. OneWrite' /\ Held' \subseteq Held
    <2>1. /\ \A w : w \in data' => w \in Held
          /\ \A w : w \in rdb'.data => w \in Held
          /\ \A w : slave'.linked /\ w \in slave'.data => w \in Held
          /\ \A p \in Peer : \A w : w \in peer'[p].data => w \in Held
      BY <1>1, <1>2, HeldBy
    <2> QED
      BY <1>0, <2>1, NoNewWrite
  <1> QED
    BY <1>3, <1>4, <1>5, <1>6 DEF ClockInv

\* The slave receives the next write.
LEMMA SlaveReceivesClocks ==
    ASSUME ClockInv, SlaveReceives
    PROVE  ClockInv' /\ Held' \subseteq Held
  <1> DEFINE f == First(After(data, slave.clock))
  <1>0. StateType /\ NoneAhead /\ Ahead /\ OneWrite
    BY DEF ClockInv
  <1>1. /\ slave.linked /\ After(data, slave.clock) # {}
        /\ slave' = [slave EXCEPT !.clock = f.clock, !.data = slave.data \cup {f}]
        /\ UNCHANGED <<up, clock, data, others, loading, backstream_vc, rdb, peer,
                       life, promoted, writes>>
    BY DEF SlaveReceives
  <1>2. slave.clock \in Nat /\ clock \in Nat /\ writes \in Nat /\ slave.data \in SUBSET Writes
    BY <1>0, HolderTypes DEF StateType
  <1>3. f \in data /\ f \in Writes /\ f.clock \in Nat /\ slave.clock < f.clock /\ f.clock =< clock
    BY <1>0, <1>1, <1>2, NextWrite
  <1> HIDE DEF f
  <1>4. slave'.clock = f.clock /\ slave'.data = slave.data \cup {f} /\ slave'.linked
    BY <1>0, <1>1 DEF StateType
  <1>5. StateType'
    <2>1. slave' \in [clock : Nat, data : SUBSET Writes, linked : BOOLEAN]
      BY <1>0, <1>1, <1>2, <1>3, Zenon DEF StateType
    <2> QED
      BY <1>0, <1>1, <2>1 DEF StateType
  <1>6. NoneAhead'
    <2>1. \A w \in slave.data : w.clock \in Nat /\ w.clock =< slave.clock
      BY <1>0, <1>2, HolderTypes DEF NoneAhead
    <2>2. \A w \in slave'.data : w.clock =< slave'.clock
      BY <1>2, <1>3, <1>4, <2>1
    <2> QED
      BY <1>0, <1>1, <2>2 DEF NoneAhead
  <1>7. Ahead'
    <2>1. owing' = owing
      BY <1>1 DEF owing
    <2> QED
      BY <1>0, <1>1, <1>2, <1>3, <1>4, <2>1 DEF Ahead
  <1>8. OneWrite' /\ Held' \subseteq Held
    <2>1. /\ \A w : w \in data' => w \in Held
          /\ \A w : w \in rdb'.data => w \in Held
          /\ \A w : slave'.linked /\ w \in slave'.data => w \in Held
          /\ \A p \in Peer : \A w : w \in peer'[p].data => w \in Held
      BY <1>1, <1>3, <1>4, HeldBy
    <2> QED
      BY <1>0, <2>1, NoNewWrite
  <1> QED
    BY <1>5, <1>6, <1>7, <1>8 DEF ClockInv

\* The database is saved.
LEMMA SaveClocks ==
    ASSUME ClockInv, rdbSaveBackground
    PROVE  ClockInv' /\ Held' \subseteq Held
  <1>0. StateType /\ NoneAhead /\ Ahead /\ OneWrite
    BY DEF ClockInv
  <1>1. /\ rdb' = [clock |-> clock, data |-> data, others |-> others]
        /\ UNCHANGED <<up, clock, data, others, loading, backstream_vc, slave, peer,
                       life, promoted, writes>>
    BY DEF rdbSaveBackground
  <1>2. rdb'.clock = clock /\ rdb'.data = data
    BY <1>1
  <1>3. StateType'
    BY <1>0, <1>1 DEF StateType
  <1>4. NoneAhead'
    BY <1>0, <1>1, <1>2 DEF NoneAhead
  <1>5. Ahead'
    <2>1. clock \in Nat /\ owing' = owing
      BY <1>0, <1>1 DEF StateType, owing
    <2> QED
      BY <1>0, <1>1, <1>2, <2>1 DEF Ahead
  <1>6. OneWrite' /\ Held' \subseteq Held
    <2>1. /\ \A w : w \in data' => w \in Held
          /\ \A w : w \in rdb'.data => w \in Held
          /\ \A w : slave'.linked /\ w \in slave'.data => w \in Held
          /\ \A p \in Peer : \A w : w \in peer'[p].data => w \in Held
      BY <1>1, <1>2, HeldBy
    <2> QED
      BY <1>0, <2>1, NoNewWrite
  <1> QED
    BY <1>3, <1>4, <1>5, <1>6 DEF ClockInv

\* The master dies.
LEMMA CrashClocks ==
    ASSUME ClockInv, Crash
    PROVE  ClockInv' /\ Held' \subseteq Held
  <1>0. StateType /\ NoneAhead /\ Ahead /\ OneWrite
    BY DEF ClockInv
  <1>1. /\ up' = FALSE
        /\ UNCHANGED <<clock, data, others, loading, backstream_vc, rdb, peer,
                       life, promoted, writes>>
    BY DEF Crash
  <1>2. PICK l \in {slave.linked, FALSE} : slave' = [slave EXCEPT !.linked = l]
    BY Zenon DEF Crash
  <1>3. /\ slave'.clock = slave.clock /\ slave'.data = slave.data
        /\ slave'.linked => slave.linked
        /\ slave' \in [clock : Nat, data : SUBSET Writes, linked : BOOLEAN]
    BY <1>0, <1>2, Zenon DEF StateType
  <1>4. StateType'
    BY <1>0, <1>1, <1>3, Zenon DEF StateType
  <1>5. NoneAhead'
    BY <1>0, <1>1, <1>3 DEF NoneAhead
  <1>6. Ahead'
    <2>1. owing' = owing
      BY <1>1 DEF owing
    <2> QED
      BY <1>0, <1>1, <1>3, <2>1 DEF Ahead
  <1>7. OneWrite' /\ Held' \subseteq Held
    <2>1. /\ \A w : w \in data' => w \in Held
          /\ \A w : w \in rdb'.data => w \in Held
          /\ \A w : slave'.linked /\ w \in slave'.data => w \in Held
          /\ \A p \in Peer : \A w : w \in peer'[p].data => w \in Held
      BY <1>1, <1>3, HeldBy
    <2> QED
      BY <1>0, <2>1, NoNewWrite
  <1> QED
    BY <1>4, <1>5, <1>6, <1>7 DEF ClockInv

\* What a restart does when every peer answers: the site is ahead of every
\* peer and keeps its data, or every peer owes it its part, the one with the
\* greatest clock all of it.
LEMMA RestartCases ==
    ASSUME ClockInv, PeersAnswer, NEW answering \in SUBSET Peer, Restart(answering)
    PROVE  /\ clock' \in Nat /\ slave' = [slave EXCEPT !.linked = FALSE]
           /\ up' /\ life' = life + 1 /\ UNCHANGED <<rdb, peer, promoted, writes>>
           /\ \/ /\ clock' = rdb.clock /\ data' = rdb.data /\ others' = rdb.others
                 /\ loading' = FALSE /\ owing' = {} /\ backstream_vc' = [p \in Peer |-> NoClock]
                 /\ \A p \in Peer : peer[p].clock =< rdb.clock
              \/ /\ data' = {} /\ others' = FALSE
                 /\ loading' = (Peer # {}) /\ owing' = Peer /\ backstream_vc' \in [Peer -> Int]
                 /\ rdb.clock =< clock' \/ \E p \in Peer : rdb.clock < peer[p].clock
                 /\ Peer # {} => \E g \in Peer : /\ backstream_vc'[g] = 0
                                                 /\ \A p \in Peer : peer[p].clock =< peer[g].clock
                 /\ rdb.data # {} =>
                        \E g \in Peer : /\ backstream_vc'[g] = 0 /\ rdb.clock < peer[g].clock
                                        /\ \A p \in Peer : peer[p].clock =< peer[g].clock
  <1> DEFINE m == maxVcu(Peer)
             g == maxGid(Peer)
  <1>0. StateType
    BY DEF ClockInv
  <1>1. answering = Peer
    BY DEF Restart
  <1>2. /\ m \in Int /\ NoClock =< m
        /\ \A p \in Peer : peer[p].clock =< m
        /\ Peer # {} => g \in Peer /\ peer[g].clock = m
    BY <1>0, MaxVcu
  <1>3. rdb.clock \in Nat /\ \A p \in Peer : peer[p].clock \in Nat
    BY <1>0, HolderTypes
  <1>4. /\ slave' = [slave EXCEPT !.linked = FALSE]
        /\ up' /\ life' = life + 1 /\ UNCHANGED <<rdb, peer, promoted, writes>>
    BY DEF Restart
  <1>5. CASE keepsData(Peer)
    <2>1. /\ clock' = rdb.clock /\ data' = rdb.data /\ others' = rdb.others
          /\ loading' = FALSE /\ backstream_vc' = [p \in Peer |-> NoClock]
      BY <1>1, <1>5 DEF Restart
    <2>2. owing' = {}
      BY <2>1 DEF owing
    <2>3. m =< rdb.clock
      BY <1>5 DEF keepsData
    <2> HIDE DEF m, g
    <2>4. \A p \in Peer : peer[p].clock =< rdb.clock
      BY <1>2, <1>3, <2>3
    <2> QED
      BY <1>3, <1>4, <2>1, <2>2, <2>4
  <1>6. CASE ~keepsData(Peer)
    <2>1. /\ IF isNullDb THEN clock' = rdb.clock ELSE clock' \in {0, rdb.clock}
          /\ data' = {} /\ others' = FALSE /\ loading' = (Peer # {})
          /\ backstream_vc' = [p \in Peer |-> IF p \notin Peer \/ p = g THEN 0 ELSE m]
      BY <1>1, <1>6 DEF Restart, resetVectorClock, backstreamClocks
    <2>2. clock' \in Nat
      BY <1>3, <2>1
    <2>3. isNullDb \/ (~isNullDb /\ ~(m =< rdb.clock))
      BY <1>6 DEF keepsData
    <2>4. isNullDb => rdb.data = {}
      BY DEF isNullDb
    <2> HIDE DEF m, g
    <2>5. backstream_vc' \in [Peer -> Int]
      BY <1>2, <2>1
    <2>6. \A p \in Peer : backstream_vc'[p] = 0 \/ (backstream_vc'[p] = m /\ peer[p].clock =< m)
      BY <1>2, <2>1
    <2>7. owing' = Peer
      BY <1>2, <1>3, <2>6 DEF owing, NoClock
    <2>8. Peer # {} => /\ g \in Peer /\ backstream_vc'[g] = 0
                       /\ \A p \in Peer : peer[p].clock =< peer[g].clock
      BY <1>2, <2>1
    <2>9. CASE isNullDb
      BY <1>3, <1>4, <2>1, <2>2, <2>4, <2>5, <2>7, <2>8, <2>9
    <2>10. CASE ~isNullDb
      <3>1. rdb.clock < m
        BY <1>2, <1>3, <2>3, <2>10
      <3>2. Peer # {}
        BY <1>2, <1>3, <3>1, EmptyMaxVcu DEF m, NoClock
      <3>3. g \in Peer /\ rdb.clock < peer[g].clock
        BY <1>2, <3>1, <3>2
      <3> QED
        BY <1>4, <2>1, <2>2, <2>5, <2>7, <2>8, <3>3
    <2> QED
      BY <2>9, <2>10, Zenon
  <1> QED
    BY <1>5, <1>6, Zenon

\* The site starts again.
LEMMA RestartClocks ==
    ASSUME ClockInv, PeersAnswer, NEW answering \in SUBSET Peer, Restart(answering)
    PROVE  ClockInv' /\ Held' \subseteq Held
  <1>0. StateType /\ NoneAhead /\ Ahead /\ OneWrite
    BY DEF ClockInv
  <1>1. /\ clock' \in Nat /\ slave' = [slave EXCEPT !.linked = FALSE]
        /\ up' /\ life' = life + 1 /\ UNCHANGED <<rdb, peer, promoted, writes>>
    BY RestartCases, Zenon
  <1>2. \/ /\ clock' = rdb.clock /\ data' = rdb.data /\ others' = rdb.others
           /\ loading' = FALSE /\ owing' = {} /\ backstream_vc' = [p \in Peer |-> NoClock]
           /\ \A p \in Peer : peer[p].clock =< rdb.clock
        \/ /\ data' = {} /\ others' = FALSE
           /\ loading' = (Peer # {}) /\ owing' = Peer /\ backstream_vc' \in [Peer -> Int]
           /\ rdb.clock =< clock' \/ \E p \in Peer : rdb.clock < peer[p].clock
    BY RestartCases, Zenon
  <1>3. /\ slave'.clock = slave.clock /\ slave'.data = slave.data /\ ~slave'.linked
        /\ slave' \in [clock : Nat, data : SUBSET Writes, linked : BOOLEAN]
    BY <1>0, <1>1, Zenon DEF StateType
  <1>4. rdb.clock \in Nat /\ rdb.data \in SUBSET Writes /\ rdb.others \in BOOLEAN /\ life' \in Nat
    BY <1>0, <1>1, HolderTypes DEF StateType
  <1>5. /\ data' \in SUBSET Writes /\ others' \in BOOLEAN /\ loading' \in BOOLEAN
        /\ backstream_vc' \in [Peer -> Int]
    <2>1. [p \in Peer |-> NoClock] \in [Peer -> Int]
      BY DEF NoClock
    <2> QED
      BY <1>2, <1>4, <2>1, Zenon
  <1>6. StateType'
    BY <1>0, <1>1, <1>3, <1>4, <1>5 DEF StateType
  <1>7. data' = {} \/ (data' = rdb.data /\ clock' = rdb.clock)
    BY <1>2
  <1>8. NoneAhead'
    BY <1>0, <1>1, <1>3, <1>7 DEF NoneAhead
  <1>9. Ahead'
    <2>1. loading' <=> owing' # {}
      BY <1>2, Zenon
    <2>2. \A p \in Peer : p \notin owing' => peer'[p].clock =< clock'
      BY <1>1, <1>2
    <2>3. rdb'.clock =< clock' \/ \E p \in owing' : rdb'.clock < peer'[p].clock
      BY <1>1, <1>2, <1>4
    <2> QED
      BY <1>3, <2>1, <2>2, <2>3 DEF Ahead
  <1>10. OneWrite' /\ Held' \subseteq Held
    <2>1. /\ \A w : w \in data' => w \in Held
          /\ \A w : w \in rdb'.data => w \in Held
          /\ \A w : slave'.linked /\ w \in slave'.data => w \in Held
          /\ \A p \in Peer : \A w : w \in peer'[p].data => w \in Held
      BY <1>1, <1>3, <1>7, HeldBy
    <2> QED
      BY <1>0, <2>1, NoNewWrite
  <1> QED
    BY <1>6, <1>8, <1>9, <1>10 DEF ClockInv

\* A peer has sent its part.
LEMMA MergeEndClocks ==
    ASSUME ClockInv, NEW p \in Peer, crdtMergeEndCommand(p)
    PROVE  ClockInv' /\ Held' \subseteq Held
  <1> DEFINE more == After(peer[p].data, backstream_vc[p])
  <1>0. StateType /\ NoneAhead /\ Ahead /\ OneWrite
    BY DEF ClockInv
  <1>1. /\ p \in owing
        /\ data' = data \cup more
        /\ others' \in {others, TRUE}
        /\ clock' = IF clock < peer[p].clock THEN peer[p].clock + Jump ELSE clock
        /\ backstream_vc' = [backstream_vc EXCEPT ![p] = NoClock]
        /\ loading' = (owing # {p})
        /\ UNCHANGED <<up, rdb, slave, peer, life, promoted, writes>>
    BY Zenon DEF crdtMergeEndCommand
  <1>2. /\ clock \in Nat /\ Jump \in Nat /\ rdb.clock \in Nat
        /\ \A q \in Peer : peer[q].clock \in Nat /\ peer[q].data \in SUBSET Writes
    BY <1>0, HolderTypes, JumpAssumption DEF StateType
  <1>3. clock' \in Nat /\ clock =< clock' /\ peer[p].clock =< clock'
    BY <1>1, <1>2
  <1>4. more \subseteq peer[p].data
    BY DEF After
  <1> HIDE DEF more
  <1>5. owing' = owing \ {p}
    BY <1>0, <1>1 DEF StateType, owing, NoClock
  <1>6. ~slave.linked
    BY <1>0, <1>1 DEF Ahead
  <1>7. StateType'
    <2>1. data' \in SUBSET Writes /\ others' \in BOOLEAN /\ loading' \in BOOLEAN
      BY <1>0, <1>1, <1>2, <1>4, Zenon DEF StateType
    <2>2. backstream_vc' \in [Peer -> Int]
      BY <1>0, <1>1 DEF StateType, NoClock
    <2> QED
      BY <1>0, <1>1, <1>3, <2>1, <2>2 DEF StateType
  <1>8. NoneAhead'
    <2>1. \A w \in data : w.clock \in Nat /\ w.clock =< clock
      BY <1>0, HolderTypes DEF StateType, NoneAhead
    <2>2. \A w \in more : w.clock \in Nat /\ w.clock =< peer[p].clock
      BY <1>0, <1>2, <1>4, HolderTypes DEF NoneAhead
    <2>3. \A w \in data' : w.clock =< clock'
      BY <1>1, <1>2, <1>3, <2>1, <2>2
    <2> QED
      BY <1>0, <1>1, <2>3 DEF NoneAhead
  <1>9. Ahead'
    <2>1. loading' <=> owing' # {}
      BY <1>1, <1>5, Zenon
    <2>2. \A q \in Peer : q \notin owing' => peer'[q].clock =< clock'
      BY <1>0, <1>1, <1>2, <1>3, <1>5 DEF Ahead
    <2>3. rdb'.clock =< clock' \/ \E q \in owing' : rdb'.clock < peer'[q].clock
      <3>1. CASE rdb.clock =< clock
        BY <1>1, <1>2, <1>3, <3>1
      <3>2. ASSUME NEW q \in owing, rdb.clock < peer[q].clock
            PROVE  rdb'.clock =< clock' \/ \E r \in owing' : rdb'.clock < peer'[r].clock
        <4>1. CASE q = p
          BY <1>1, <1>2, <1>3, <3>2, <4>1
        <4>2. CASE q # p
          BY <1>1, <1>5, <3>2, <4>2
        <4> QED
          BY <4>1, <4>2
      <3> QED
        BY <1>0, <3>1, <3>2 DEF Ahead
    <2> QED
      BY <1>1, <1>6, <2>1, <2>2, <2>3 DEF Ahead
  <1>10. OneWrite' /\ Held' \subseteq Held
    <2>1. /\ \A w : w \in data' => w \in Held
          /\ \A w : w \in rdb'.data => w \in Held
          /\ \A w : slave'.linked /\ w \in slave'.data => w \in Held
          /\ \A q \in Peer : \A w : w \in peer'[q].data => w \in Held
      BY <1>1, <1>4, HeldBy
    <2> QED
      BY <1>0, <2>1, NoNewWrite
  <1> QED
    BY <1>7, <1>8, <1>9, <1>10 DEF ClockInv

\* The linked slave is promoted: the jump takes its clock past every write.
LEMMA PromoteClocks ==
    ASSUME ClockInv, LinkedPromotion, replicationUnsetMaster
    PROVE  ClockInv' /\ Held' \subseteq Held
  <1>0. StateType /\ NoneAhead /\ Ahead /\ OneWrite
    BY DEF ClockInv
  <1>1. /\ slave.linked
        /\ up' = TRUE /\ life' = life + 1 /\ promoted' = life + 1
        /\ clock' = slave.clock + Jump /\ data' = slave.data
        /\ loading' = FALSE
        /\ backstream_vc' = [p \in Peer |-> NoClock]
        /\ rdb' = [clock |-> 0, data |-> {}, others |-> FALSE]
        /\ slave' = [clock |-> 0, data |-> {}, linked |-> FALSE]
        /\ UNCHANGED <<others, peer, writes>>
    BY DEF replicationUnsetMaster, Promote, NoFile
  <1>2. /\ clock \in Nat /\ slave.clock \in Nat /\ slave.data \in SUBSET Writes
        /\ writes \in Nat /\ writes =< MaxWrites
        /\ Jump \in Nat /\ MaxWrites \in Nat /\ Jump > MaxWrites
        /\ \A p \in Peer : peer[p].clock \in Nat
    BY <1>0, HolderTypes, JumpAssumption DEF StateType
  <1>3. owing' = {}
    BY <1>1 DEF owing
  <1>4. StateType'
    <2>1. backstream_vc' \in [Peer -> Int] /\ life' \in Nat /\ clock' \in Nat
      BY <1>0, <1>1, <1>2 DEF StateType, NoClock
    <2>2. /\ rdb' \in [clock : Nat, data : SUBSET Writes, others : BOOLEAN]
          /\ slave' \in [clock : Nat, data : SUBSET Writes, linked : BOOLEAN]
      BY <1>1
    <2> QED
      BY <1>0, <1>1, <1>2, <2>1, <2>2, Zenon DEF StateType
  <1>5. NoneAhead'
    <2>1. \A w \in slave.data : w.clock \in Nat /\ w.clock =< slave.clock
      BY <1>0, <1>2, HolderTypes DEF NoneAhead
    <2>2. \A w \in data' : w.clock =< clock'
      BY <1>1, <1>2, <2>1
    <2>3. rdb'.data = {} /\ slave'.data = {}
      BY <1>1
    <2> QED
      BY <1>0, <1>1, <2>2, <2>3 DEF NoneAhead
  <1>6. Ahead'
    <2>1. /\ clock =< slave.clock + writes
          /\ \A p \in Peer : peer[p].clock =< clock
      BY <1>0, <1>1 DEF Ahead
    <2>2. \A p \in Peer : peer'[p].clock =< clock'
      BY <1>1, <1>2, <2>1
    <2>3. rdb'.clock = 0 /\ ~slave'.linked /\ rdb'.clock =< clock'
      BY <1>1, <1>2
    <2> QED
      BY <1>1, <1>3, <2>2, <2>3 DEF Ahead
  <1>7. OneWrite' /\ Held' \subseteq Held
    <2>1. /\ \A w : w \in data' => w \in Held
          /\ \A w : w \in rdb'.data => w \in Held
          /\ \A w : slave'.linked /\ w \in slave'.data => w \in Held
          /\ \A p \in Peer : \A w : w \in peer'[p].data => w \in Held
      BY <1>1, HeldBy
    <2> QED
      BY <1>0, <2>1, NoNewWrite
  <1> QED
    BY <1>4, <1>5, <1>6, <1>7 DEF ClockInv

\* The initial states.
LEMMA InitClocks == Init => ClockInv
  <1> SUFFICES ASSUME Init PROVE ClockInv
    OBVIOUS
  <1>1. /\ clock = 0 /\ data = {} /\ loading = FALSE /\ life = 1 /\ promoted = 1 /\ writes = 0
        /\ backstream_vc = [p \in Peer |-> NoClock] /\ up = TRUE /\ others \in BOOLEAN
        /\ rdb = [clock |-> 0, data |-> {}, others |-> FALSE]
        /\ slave = [clock |-> 0, data |-> {}, linked |-> TRUE]
        /\ peer = [p \in Peer |-> [clock |-> 0, data |-> {}]]
    BY DEF Init, NoFile, Nothing
  <1>2. owing = {}
    BY <1>1 DEF owing
  <1>3. StateType
    <2>1. /\ backstream_vc \in [Peer -> Int]
          /\ peer \in [Peer -> [clock : Nat, data : SUBSET Writes]]
      BY <1>1 DEF NoClock
    <2>2. /\ rdb \in [clock : Nat, data : SUBSET Writes, others : BOOLEAN]
          /\ slave \in [clock : Nat, data : SUBSET Writes, linked : BOOLEAN]
      BY <1>1
    <2>3. writes \in Nat /\ writes =< MaxWrites
      BY <1>1, JumpAssumption
    <2> QED
      BY <1>1, <2>1, <2>2, <2>3, Zenon DEF StateType
  <1>4. NoneAhead
    BY <1>1 DEF NoneAhead
  <1>5. Ahead
    BY <1>1, <1>2 DEF Ahead
  <1>6. OneWrite
    BY <1>1, HeldBy DEF OneWrite
  <1> QED
    BY <1>3, <1>4, <1>5, <1>6 DEF ClockInv

\* Every step keeps the invariant of the clocks.
LEMMA NextClocks ==
    ASSUME PeersAnswer, LinkedPromotion, ClockInv, [Next]_vars
    PROVE  ClockInv'
  <1>1. CASE UNCHANGED vars
    BY <1>1 DEF ClockInv, StateType, NoneAhead, Ahead, OneWrite, Held, owing, vars
  <1> QED
    BY <1>1, WriteClocks, PeerReceivesClocks, SlaveSyncsClocks, SlaveReceivesClocks,
       SaveClocks, CrashClocks, RestartClocks, MergeEndClocks, PromoteClocks DEF Next

\* No clock is given out twice (jumpVectorClock, peerBackStream), whatever the
\* restarts and promotions, when every peer answers a restarted site and only
\* a linked slave is promoted.
THEOREM ClocksNotReused ==
    PeersAnswer /\ LinkedPromotion => (Spec => []NoClockReuse)
  <1> SUFFICES ASSUME PeersAnswer, LinkedPromotion
               PROVE  Spec => []NoClockReuse
    OBVIOUS
  <1>1. Init => ClockInv
    BY InitClocks
  <1>2. ClockInv /\ [Next]_vars => ClockInv'
    BY NextClocks
  <1>3. ClockInv => NoClockReuse
    <2> SUFFICES ASSUME OneWrite PROVE NoClockReuse
      BY DEF ClockInv
    <2>1. copies \subseteq Held
      BY DEF copies, Held
    <2> QED
      BY <2>1 DEF OneWrite, NoClockReuse
  <1> QED
    BY <1>1, <1>2, <1>3, PTL DEF Spec

-----------------------------------------------------------------------------
(***************************************************************************)
(* Every step keeps DataInv.                                               *)
(***************************************************************************)

\* The recent writes that can be found, and those that are held.
LEMMA FindableBy ==
    ASSUME NEW w
    PROVE  /\ w \in Findable <=> /\ w \in rdb.data \/ \E p \in Peer : w \in peer[p].data
                                 /\ w.life >= promoted
           /\ w \in Recent <=> \/ w \in data /\ w.life >= promoted
                               \/ w \in Findable
  BY DEF Findable, Recent

\* A site that is not loading holds the recent writes.
LEMMA ServingHolds ==
    ASSUME ClockInv, DataInv, ~loading
    PROVE  owing = {} /\ Findable \subseteq data /\ Recent \subseteq data
  <1>1. owing = {}
    BY DEF ClockInv, Ahead
  <1>2. Findable \subseteq data
    BY <1>1 DEF DataInv, Fetching
  <1> QED
    BY <1>1, <1>2 DEF Recent

\* No write is from a life to come.
LEMMA LivesKept ==
    ASSUME ClockInv, DataInv, ClockInv', Held' \subseteq Held, life' \in {life, life + 1}
    PROVE  \A w \in Held' : w.life =< life'
  <1>1. \A w \in Held : w.life =< life /\ w.life \in Nat
    BY HeldBy, HolderTypes DEF DataInv, InOrder, ClockInv, StateType
  <1>2. life \in Nat
    BY DEF ClockInv, StateType
  <1> QED
    BY <1>1, <1>2

\* A step that changes neither the peers nor the RDB file, and adds to the
\* database only what can be found.
LEMMA HoldersSame ==
    ASSUME ClockInv, DataInv, ClockInv', Held' \subseteq Held, life' \in {life, life + 1},
           UNCHANGED <<rdb, peer, promoted>>,
           \A w \in data' : w \in data \/ w \in rdb.data \/ \E p \in Peer : w \in peer[p].data
    PROVE  InOrder' /\ Findable' = Findable
  <1>1. Findable' = Findable
    BY DEF Findable
  <1>2. Recent' \subseteq Recent
    <2> SUFFICES ASSUME NEW w, w \in Recent' PROVE w \in Recent
      OBVIOUS
    <2>1. w \in Findable \/ (w \in data' /\ w.life >= promoted)
      BY <1>1 DEF Recent
    <2> QED
      BY <2>1, FindableBy
  <1>3. \A w \in Held' : w.life =< life'
    BY LivesKept
  <1> QED
    BY <1>1, <1>2, <1>3 DEF InOrder, DataInv

\* A client's write is after every clock of the peers and of the RDB file.
LEMMA WriteData ==
    ASSUME ClockInv, DataInv, Write, ClockInv'
    PROVE  DataInv'
  <1> DEFINE new == [clock |-> clock + 1, life |-> life]
  <1>1. /\ ~loading /\ data' = data \cup {new}
        /\ UNCHANGED <<up, loading, backstream_vc, rdb, slave, peer, life, promoted>>
    BY DEF Write
  <1>2. clock \in Nat /\ life \in Nat /\ new.clock = clock + 1 /\ new.life = life
    BY DEF ClockInv, StateType
  <1> HIDE DEF new
  <1>3. /\ rdb.clock =< clock /\ \A p \in Peer : peer[p].clock =< clock
        /\ rdb.clock \in Nat /\ \A p \in Peer : peer[p].clock \in Nat
    BY <1>1, HolderTypes DEF ClockInv, Ahead
  <1>4. Findable' = Findable
    BY <1>1 DEF Findable
  <1>5. \A w \in Recent' : w \in Recent \/ w = new
    BY <1>1, <1>4 DEF Recent
  <1>6. InOrder'
    <2>1. \A w \in Held' : w.life =< life'
      <3>1. \A w : w \in Held' => w \in Held \/ w = new
        BY <1>1 DEF Held
      <3> QED
        BY <1>1, <1>2, <3>1 DEF DataInv, InOrder
    <2>2. ASSUME NEW p \in Peer, NEW w \in Recent', w.clock =< peer'[p].clock
          PROVE  w \in peer'[p].data
      <3>1. w # new
        BY <1>1, <1>2, <1>3, <2>2
      <3> QED
        BY <1>1, <1>5, <2>2, <3>1 DEF DataInv, InOrder
    <2>3. ASSUME NEW w \in Recent', w.clock =< rdb'.clock
          PROVE  w \in rdb'.data
      <3>1. w # new
        BY <1>1, <1>2, <1>3, <2>3
      <3> QED
        BY <1>1, <1>5, <2>3, <3>1 DEF DataInv, InOrder
    <2> QED
      BY <2>1, <2>2, <2>3 DEF InOrder
  <1>7. Findable' \subseteq data'
    BY <1>1, <1>4, ServingHolds
  <1> QED
    BY <1>6, <1>7 DEF DataInv, Fetching

\* A peer receives in the order of the clocks.
LEMMA PeerReceivesData ==
    ASSUME ClockInv, DataInv, NEW p \in Peer, PeerReceives(p), ClockInv', Held' \subseteq Held
    PROVE  DataInv'
  <1>1. /\ ~loading
        /\ UNCHANGED <<up, clock, data, others, loading, backstream_vc, rdb, slave,
                       life, promoted, writes>>
    BY DEF PeerReceives
  <1>2. PICK c \in Nat, ws \in SUBSET data :
            /\ peer' = [peer EXCEPT ![p] = [clock |-> c, data |-> peer[p].data \cup ws]]
            /\ \A w \in data : peer[p].clock < w.clock /\ w.clock =< c => w \in ws
    BY PeerHolds
  <1>3. /\ peer'[p].clock = c /\ peer'[p].data = peer[p].data \cup ws
        /\ \A q \in Peer : q # p => peer'[q] = peer[q]
    BY <1>2 DEF ClockInv, StateType
  <1>4. Findable \subseteq data /\ Recent \subseteq data
    BY <1>1, ServingHolds
  <1>5. Recent' \subseteq Recent
    <2> SUFFICES ASSUME NEW w, w \in Recent' PROVE w \in Recent
      OBVIOUS
    <2>1. /\ w.life >= promoted
          /\ w \in data \/ w \in rdb.data \/ \E q \in Peer : w \in peer'[q].data
      BY <1>1 DEF Recent, Findable
    <2>2. w \in data \/ w \in rdb.data \/ \E q \in Peer : w \in peer[q].data
      BY <1>2, <1>3, <2>1
    <2> QED
      BY <2>1, <2>2, FindableBy
  <1>6. InOrder'
    <2>1. \A w \in Held' : w.life =< life'
      BY <1>1, LivesKept
    <2>2. ASSUME NEW q \in Peer, NEW w \in Recent', w.clock =< peer'[q].clock
          PROVE  w \in peer'[q].data
      <3>1. CASE q # p
        BY <1>3, <1>5, <2>2, <3>1 DEF DataInv, InOrder
      <3>2. CASE q = p
        <4>1. w \in data /\ w.clock \in Nat /\ peer[p].clock \in Nat
          BY <1>4, <1>5, HolderTypes DEF ClockInv, StateType
        <4>2. CASE w.clock =< peer[p].clock
          BY <1>3, <1>5, <3>2, <4>2 DEF DataInv, InOrder
        <4>3. CASE peer[p].clock < w.clock
          BY <1>2, <1>3, <2>2, <3>2, <4>1, <4>3
        <4> QED
          BY <4>1, <4>2, <4>3
      <3> QED
        BY <3>1, <3>2
    <2>3. \A w \in Recent' : w.clock =< rdb'.clock => w \in rdb'.data
      BY <1>1, <1>5 DEF DataInv, InOrder
    <2> QED
      BY <2>1, <2>2, <2>3 DEF InOrder
  <1>7. Findable' \subseteq data'
    BY <1>1, <1>4, <1>5 DEF Recent
  <1> QED
    BY <1>6, <1>7 DEF DataInv, Fetching

\* A step of the slave, or the end of the master.
LEMMA SlaveData ==
    ASSUME ClockInv, DataInv, ClockInv', Held' \subseteq Held,
           UNCHANGED <<data, backstream_vc, rdb, peer, life, promoted>>
    PROVE  DataInv'
  <1>1. InOrder' /\ Findable' = Findable
    BY HoldersSame
  <1>2. owing' = owing
    BY DEF owing
  <1> QED
    BY <1>1, <1>2 DEF DataInv, Fetching

\* A save of a database that holds all that can be found.
LEMMA SaveData ==
    ASSUME ClockInv, DataInv, QuietSaves, rdbSaveBackground, ClockInv', Held' \subseteq Held
    PROVE  DataInv'
  <1>1. /\ ~loading
        /\ rdb' = [clock |-> clock, data |-> data, others |-> others]
        /\ UNCHANGED <<up, clock, data, others, loading, backstream_vc, slave, peer,
                       life, promoted, writes>>
    BY DEF rdbSaveBackground
  <1>2. rdb'.data = data
    BY <1>1
  <1>3. Findable \subseteq data /\ Recent \subseteq data
    BY <1>1, ServingHolds
  <1>4. Recent' \subseteq Recent
    <2> SUFFICES ASSUME NEW w, w \in Recent' PROVE w \in Recent
      OBVIOUS
    <2>1. /\ w.life >= promoted
          /\ w \in data \/ \E q \in Peer : w \in peer[q].data
      BY <1>1, <1>2 DEF Recent, Findable
    <2> QED
      BY <2>1, FindableBy
  <1>5. \A w \in Held' : w.life =< life'
    BY <1>1, LivesKept
  <1>6. InOrder'
    BY <1>1, <1>2, <1>3, <1>4, <1>5 DEF DataInv, InOrder
  <1>7. Findable' \subseteq data'
    BY <1>1, <1>3, <1>4 DEF Recent
  <1> QED
    BY <1>6, <1>7 DEF DataInv, Fetching

\* After a restart the site has all that can be found, or the peer with the
\* greatest clock has and will send it.
LEMMA RestartData ==
    ASSUME ClockInv, DataInv, PeersAnswer, NEW answering \in SUBSET Peer, Restart(answering),
           ClockInv', Held' \subseteq Held
    PROVE  DataInv'
  <1>1. life' = life + 1 /\ UNCHANGED <<rdb, peer, promoted, writes>>
    BY RestartCases, Zenon
  <1>2. \/ /\ data' = rdb.data
           /\ \A p \in Peer : peer[p].clock =< rdb.clock
        \/ /\ data' = {} /\ owing' = Peer
           /\ Peer # {} => \E g \in Peer : /\ backstream_vc'[g] = 0
                                           /\ \A p \in Peer : peer[p].clock =< peer[g].clock
           /\ rdb.data # {} =>
                  \E g \in Peer : /\ backstream_vc'[g] = 0 /\ rdb.clock < peer[g].clock
                                  /\ \A p \in Peer : peer[p].clock =< peer[g].clock
    BY RestartCases, Zenon
  <1>3. InOrder' /\ Findable' = Findable
    <2>1. \A w \in data' : w \in rdb.data
      BY <1>2
    <2> QED
      BY <1>1, <2>1, HoldersSame
  <1>4. /\ rdb.clock \in Nat
        /\ \A w \in rdb.data : w.clock \in Nat /\ w.clock =< rdb.clock
        /\ \A p \in Peer : /\ peer[p].clock \in Nat
                           /\ \A w \in peer[p].data : w.clock \in Nat /\ w.clock =< peer[p].clock
    BY HolderTypes DEF ClockInv, NoneAhead
  <1>5. /\ \A p \in Peer : \A w \in Findable : w.clock =< peer[p].clock => w \in peer[p].data
        /\ \A w \in Findable : w.clock =< rdb.clock => w \in rdb.data
    BY DEF DataInv, InOrder, Recent
  <1>6. Fetching'
    <2>1. ASSUME data' = rdb.data, \A p \in Peer : peer[p].clock =< rdb.clock
          PROVE  Findable \subseteq data'
      <3> SUFFICES ASSUME NEW w \in Findable PROVE w \in rdb.data
        BY <2>1
      <3>1. CASE w \in rdb.data
        BY <3>1
      <3>2. ASSUME NEW p \in Peer, w \in peer[p].data PROVE w \in rdb.data
        <4>1. w.clock =< rdb.clock
          BY <1>4, <2>1, <3>2
        <4> QED
          BY <1>5, <4>1
      <3> QED
        BY <3>1, <3>2, FindableBy
    <2>2. ASSUME NEW g \in Peer, \A p \in Peer : peer[p].clock =< peer[g].clock,
                 rdb.data = {} \/ rdb.clock < peer[g].clock
          PROVE  Findable \subseteq peer[g].data
      <3> SUFFICES ASSUME NEW w \in Findable PROVE w \in peer[g].data
        OBVIOUS
      <3>1. w \in rdb.data \/ \E p \in Peer : w \in peer[p].data
        BY FindableBy
      <3>2. w.clock =< peer[g].clock
        BY <1>4, <2>2, <3>1
      <3> QED
        BY <1>5, <3>2
    <2>3. CASE Peer = {} /\ data' = {} /\ rdb.data = {}
      <3>1. Findable = {}
        BY <2>3 DEF Findable
      <3> QED
        BY <1>3, <3>1 DEF Fetching
    <2>4. ASSUME NEW g \in Peer, owing' = Peer, backstream_vc'[g] = 0,
                 Findable \subseteq peer[g].data
          PROVE  Fetching'
      BY <1>1, <1>3, <2>4 DEF Fetching
    <2>5. CASE data' = rdb.data /\ \A p \in Peer : peer[p].clock =< rdb.clock
      BY <1>3, <2>1, <2>5 DEF Fetching
    <2>6. CASE rdb.data # {} /\ ~(data' = rdb.data /\ \A p \in Peer : peer[p].clock =< rdb.clock)
      <3>1. PICK g \in Peer : /\ backstream_vc'[g] = 0 /\ rdb.clock < peer[g].clock
                              /\ \A p \in Peer : peer[p].clock =< peer[g].clock
        BY <1>2, <2>6, Zenon
      <3>2. owing' = Peer
        BY <1>2, <2>6, Zenon
      <3> QED
        BY <2>2, <2>4, <3>1, <3>2
    <2>7. CASE Peer # {} /\ rdb.data = {}
                 /\ ~(data' = rdb.data /\ \A p \in Peer : peer[p].clock =< rdb.clock)
      <3>1. PICK g \in Peer : /\ backstream_vc'[g] = 0
                              /\ \A p \in Peer : peer[p].clock =< peer[g].clock
        BY <1>2, <2>7, Zenon
      <3>2. owing' = Peer
        BY <1>2, <2>7, Zenon
      <3> QED
        BY <2>2, <2>4, <2>7, <3>1, <3>2
    <2> QED
      BY <1>2, <2>3, <2>5, <2>6, <2>7, Zenon
  <1> QED
    BY <1>3, <1>6 DEF DataInv

\* The part of a peer adds to the database; that of the peer with everything
\* is all that can be found.
LEMMA MergeEndData ==
    ASSUME ClockInv, DataInv, NEW p \in Peer, crdtMergeEndCommand(p), ClockInv',
           Held' \subseteq Held
    PROVE  DataInv'
  <1> DEFINE more == After(peer[p].data, backstream_vc[p])
  <1>1. /\ p \in owing /\ data' = data \cup more
        /\ backstream_vc' = [backstream_vc EXCEPT ![p] = NoClock]
        /\ UNCHANGED <<up, rdb, slave, peer, life, promoted, writes>>
    BY DEF crdtMergeEndCommand
  <1>2. more \subseteq peer[p].data
    BY DEF After
  <1>3. backstream_vc[p] = 0 => more = peer[p].data
    <2>1. \A w \in peer[p].data : w.clock \in Nat /\ 0 < w.clock
      BY HolderTypes DEF ClockInv
    <2> QED
      BY <2>1 DEF After
  <1> HIDE DEF more
  <1>4. InOrder' /\ Findable' = Findable
    BY <1>1, <1>2, HoldersSame
  <1>5. CASE Findable \subseteq data
    BY <1>1, <1>4, <1>5 DEF Fetching, DataInv
  <1>6. ASSUME NEW g \in owing, backstream_vc[g] = 0, Findable \subseteq peer[g].data
        PROVE  Fetching'
    <2>1. CASE g = p
      BY <1>1, <1>3, <1>4, <1>6, <2>1 DEF Fetching
    <2>2. CASE g # p
      <3>1. g \in Peer /\ backstream_vc'[g] = 0
        BY <1>1, <1>6, <2>2 DEF owing, ClockInv, StateType
      <3>2. g \in owing'
        BY <3>1 DEF owing, NoClock
      <3> QED
        BY <1>1, <1>4, <1>6, <3>1, <3>2 DEF Fetching
    <2> QED
      BY <2>1, <2>2
  <1> QED
    BY <1>4, <1>5, <1>6 DEF DataInv, Fetching

\* No write is recent after a promotion.
LEMMA PromoteData ==
    ASSUME ClockInv, DataInv, LinkedPromotion, replicationUnsetMaster, ClockInv',
           Held' \subseteq Held
    PROVE  DataInv'
  <1>1. life' = life + 1 /\ promoted' = life + 1
    BY DEF replicationUnsetMaster, Promote
  <1>2. life \in Nat /\ \A w \in Held : w.life \in Nat /\ w.life =< life
    BY HeldBy, HolderTypes DEF ClockInv, StateType, DataInv, InOrder
  <1>3. \A w \in Recent' : w \in Held' /\ w.life >= promoted'
    BY DEF Recent, Findable, Held
  <1>4. Recent' = {}
    BY <1>1, <1>2, <1>3
  <1>5. \A w \in Held' : w.life =< life'
    BY <1>1, LivesKept
  <1>6. Findable' = {}
    BY <1>4 DEF Recent
  <1> QED
    BY <1>4, <1>5, <1>6 DEF DataInv, InOrder, Fetching

\* The initial states hold no write.
LEMMA InitData == Init => DataInv
  <1> SUFFICES ASSUME Init PROVE DataInv
    OBVIOUS
  <1>1. /\ data = {} /\ rdb.data = {} /\ slave.data = {} /\ \A p \in Peer : peer[p].data = {}
    BY DEF Init, NoFile, Nothing
  <1>2. Held = {} /\ Findable = {} /\ Recent = {}
    BY <1>1 DEF Held, Findable, Recent
  <1> QED
    BY <1>2 DEF DataInv, InOrder, Fetching

\* Every step keeps both invariants.
LEMMA NextData ==
    ASSUME PeersAnswer, LinkedPromotion, QuietSaves, ClockInv, DataInv, [Next]_vars
    PROVE  ClockInv' /\ DataInv'
  <1>1. ClockInv'
    BY NextClocks
  <1>2. CASE UNCHANGED vars
    BY <1>1, <1>2 DEF DataInv, InOrder, Fetching, Recent, Findable, Held, owing, vars
  <1>3. CASE SlaveSyncs
    BY <1>1, <1>3, SlaveSyncsClocks, SlaveData DEF SlaveSyncs
  <1>4. CASE SlaveReceives
    BY <1>1, <1>4, SlaveReceivesClocks, SlaveData DEF SlaveReceives
  <1>5. CASE Crash
    BY <1>1, <1>5, CrashClocks, SlaveData, Zenon DEF Crash
  <1>6. CASE Write
    BY <1>1, <1>6, WriteData
  <1>7. CASE rdbSaveBackground
    BY <1>1, <1>7, SaveClocks, SaveData
  <1>8. CASE replicationUnsetMaster
    BY <1>1, <1>8, PromoteClocks, PromoteData
  <1>9. ASSUME NEW p \in Peer, PeerReceives(p) PROVE DataInv'
    BY <1>1, <1>9, PeerReceivesClocks, PeerReceivesData
  <1>10. ASSUME NEW p \in Peer, crdtMergeEndCommand(p) PROVE DataInv'
    BY <1>1, <1>10, MergeEndClocks, MergeEndData
  <1>11. ASSUME NEW answering \in SUBSET Peer, Restart(answering) PROVE DataInv'
    BY <1>1, <1>11, RestartClocks, RestartData
  <1> QED
    BY <1>1, <1>2, <1>3, <1>4, <1>5, <1>6, <1>7, <1>8, <1>9, <1>10, <1>11 DEF Next

\* A site that serves clients holds every write of its own, since the last
\* promotion, that a peer holds (peerBackStream, tryCleanCrdtServerLoading),
\* when every peer answers a restarted site, only a linked slave is promoted
\* and no RDB file is saved during a backstream.
THEOREM WritesRecovered ==
    PeersAnswer /\ LinkedPromotion /\ QuietSaves => (Spec => []Recovered)
  <1> SUFFICES ASSUME PeersAnswer, LinkedPromotion, QuietSaves
               PROVE  Spec => []Recovered
    OBVIOUS
  <1>1. Init => ClockInv /\ DataInv
    BY InitClocks, InitData
  <1>2. ClockInv /\ DataInv /\ [Next]_vars => (ClockInv /\ DataInv)'
    BY NextData
  <1>3. ClockInv /\ DataInv => Recovered
    <2> SUFFICES ASSUME ClockInv, DataInv, ~loading, NEW p \in Peer,
                        NEW w \in peer[p].data, w.life >= promoted
                 PROVE  w \in data
      BY DEF Recovered
    <2> QED
      BY ServingHolds, FindableBy
  <1> QED
    BY <1>1, <1>2, <1>3, PTL DEF Spec
=============================================================================
