--------------------------- MODULE PeerLinkSteps ----------------------------
(***************************************************************************)
(* The steps of the slave, and the one in which the master takes a PSYNC,  *)
(* preserve the invariant of PeerLinkInv.                                  *)
(***************************************************************************)
EXTENDS PeerLinkInv

-----------------------------------------------------------------------------
(***************************************************************************)
(* What the slave takes from the pipe.                                     *)
(***************************************************************************)

\* The slave executes the first command (processInputBuffer): it is the next
\* one, or one that it has executed before.
LEMMA StreamPop ==
    ASSUME NEW id \in Int, NEW off \in Int, NEW p \in Seq(DownMsg), NEW g \in Nat,
           NEW r \in Nat, NEW w \in Nat, NEW o \in Nat, NEW b, NEW st, NEW n \in Nat,
           StreamAt(id, off, p, g, r, w, o, b, st, n), p # <<>>, p[1] # Eof
    PROVE  \E x \in 1..w : /\ p[1] = Command(x) /\ x <= g + 1
                           /\ \A h \in Nat : h >= g /\ h >= x =>
                                 StreamAt(id, off + 1, Tail(p), h, r, w, o, b, st, n)
<1>1. PICK a \in 0..g : StreamAt(id, off, p, g, r, w, o, b, st, n)!(a)
    BY DEF StreamAt
<1>2. /\ Len(p) \in Nat /\ Len(p) >= 1
      /\ Len(Tail(p)) = Len(p) - 1
      /\ \A i \in 1..(Len(p) - 1) : Tail(p)[i] = p[i + 1]
    BY LenProperties, EmptySeq, HeadTailProperties
<1>3. p[1] = Command(a + 1) /\ a + 1 <= w /\ a + 1 \in 1..w /\ a + 1 <= g + 1
    BY <1>1, <1>2 DEF Stretch
<1>4. ASSUME NEW h \in Nat, h >= g, h >= a + 1
      PROVE  StreamAt(id, off + 1, Tail(p), h, r, w, o, b, st, n)
    <2>1. a + 1 \in 0..h
        BY <1>4
    <2>2. Stretch(Tail(p), a + 1, w)
        <3> SUFFICES ASSUME NEW i \in 1..(Len(p) - 1)
                     PROVE  \/ Tail(p)[i] = Eof
                            \/ Tail(p)[i] = Command(a + 1 + i) /\ a + 1 + i <= w
            BY <1>2 DEF Stretch
        <3>1. i + 1 \in 1..Len(p) /\ a + 1 + i = a + (i + 1)
            BY <1>2
        <3> QED BY <1>1, <1>2, <3>1 DEF Stretch
    <2>3. Behind(id, off + 1, a + 1, r, w, o, b)
        BY <1>1 DEF Behind
    <2>4. NoEof(p) => NoEof(Tail(p))
        BY <1>2 DEF NoEof
    <2>5. st # "NONE" => Abreast(id, off + 1, Tail(p), a + 1, r, w, o, n)
        BY <1>1, <1>2, <2>4 DEF Abreast
    <2> QED BY <2>1, <2>2, <2>3, <2>5 DEF StreamAt
<1> QED BY <1>3, <1>4

\* The slave reads on: what is behind the first message.
LEMMA SnapshotTail ==
    ASSUME NEW p \in Seq(DownMsg), p # <<>>, NEW u \in Nat, NEW id \in Nat, NEW f \in Nat,
           NEW g \in Nat, NEW h \in Nat, h >= g,
           SnapshotPart(p, u, id, f, g),
           p[1] = Merge(u) => u <= h
    PROVE  SnapshotPart(Tail(p), u, id, f, h) /\ (NoEof(p) => NoEof(Tail(p)))
<1>1. /\ Len(p) \in Nat /\ Len(p) >= 1
      /\ Len(Tail(p)) = Len(p) - 1
      /\ \A i \in 1..(Len(p) - 1) : Tail(p)[i] = p[i + 1]
    BY LenProperties, EmptySeq, HeadTailProperties
<1>2. ASSUME NEW i \in 1..(Len(p) - 1)
      PROVE  SnapshotPart(Tail(p), u, id, f, h)!(i)
    <2>1. SnapshotPart(p, u, id, f, g)!(i + 1) /\ Tail(p)[i] = p[i + 1]
        BY <1>1 DEF SnapshotPart
    <2>2. ASSUME p[i + 1] = MergeEnd(id, f),
                 u <= g \/ \E j \in 1..i : p[j] = Merge(u)
          PROVE  u <= h \/ \E j \in 1..(i - 1) : Tail(p)[j] = Merge(u)
        <3>1. CASE u <= g
            BY <3>1
        <3>2. CASE \E j \in 1..i : p[j] = Merge(u)
            <4>1. PICK j \in 1..i : p[j] = Merge(u)
                BY <3>2
            <4>2. CASE j = 1
                BY <4>1, <4>2
            <4>3. CASE j # 1
                <5>1. j - 1 \in 1..(i - 1) /\ j - 1 \in 1..(Len(p) - 1)
                    BY <1>1, <4>3
                <5>2. Tail(p)[j - 1] = p[j]
                    BY <1>1, <5>1
                <5> QED BY <4>1, <5>1, <5>2
            <4> QED BY <4>2, <4>3
        <3> QED BY <2>2, <3>1, <3>2
    <2>3. ASSUME \A j \in (i + 2)..Len(p) : p[j] = Eof
          PROVE  \A j \in (i + 1)..(Len(p) - 1) : Tail(p)[j] = Eof
        <3> SUFFICES ASSUME NEW j \in (i + 1)..(Len(p) - 1)
                     PROVE  Tail(p)[j] = Eof
            OBVIOUS
        <3>1. j \in 1..(Len(p) - 1) /\ j + 1 \in (i + 2)..Len(p)
            BY <1>1
        <3> QED BY <1>1, <2>3, <3>1
    <2>4. (i + 1) - 1 = i /\ (i + 1) + 1 = i + 2
        OBVIOUS
    <2> QED BY <1>1, <2>1, <2>2, <2>3, <2>4
<1>3. SnapshotPart(Tail(p), u, id, f, h)
    BY <1>1, <1>2 DEF SnapshotPart
<1>4. NoEof(p) => NoEof(Tail(p))
    BY <1>1 DEF NoEof
<1> QED BY <1>3, <1>4

\* The slave executes the first part of a snapshot (crdtMergeCommand): the
\* writes it stands for, or nothing.  After the end the stream goes on.
LEMMA SnapshotPop ==
    ASSUME NEW p \in Seq(DownMsg), NEW g \in Nat, NEW r \in Nat, NEW w \in Nat, NEW o \in Nat,
           NEW b, NEW st, NEW n \in Nat, NEW ch,
           SnapshotAt(p, g, r, w, o, b, st, n, ch), p # <<>>, p[1] # Eof
    PROVE  \/ /\ p[1] = [type |-> "MERGE_START"]
              /\ SnapshotAt(Tail(p), g, r, w, o, b, st, n, ch)
           \/ \E u \in 0..w :
                 /\ p[1] = Merge(u)
                 /\ \A h \in Nat : h >= g /\ h >= u =>
                       SnapshotAt(Tail(p), h, r, w, o, b, st, n, ch)
           \/ \E id \in 0..r, f \in 0..o :
                 /\ p[1] = MergeEnd(id, f)
                 /\ \A i \in 2..Len(p) : p[i] = Eof
                 /\ Behind(id, 0, g, r, w, o, b)
                 /\ ~(st = "WAIT_BGSAVE_END" /\ ch.running)
                 /\ StreamAt(id, f, Tail(p), g, r, w, o, b, st, n)
<1>1. PICK u \in 0..w, id \in 0..r, f \in 0..o : SnapshotAt(p, g, r, w, o, b, st, n, ch)!(u, id, f)
    BY DEF SnapshotAt
<1>2. /\ Len(p) \in Nat /\ Len(p) >= 1 /\ 1 \in 1..Len(p)
      /\ Len(Tail(p)) = Len(p) - 1
      /\ \A i \in 1..(Len(p) - 1) : Tail(p)[i] = p[i + 1]
    BY LenProperties, EmptySeq, HeadTailProperties
<1>3. ~(st = "WAIT_BGSAVE_END" /\ ch.running)
    BY <1>1 DEF Unwritten
<1>4. ASSUME NEW h \in Nat, h >= g, p[1] = Merge(u) => u <= h
      PROVE  SnapshotAt(Tail(p), h, r, w, o, b, st, n, ch)
    <2>1. SnapshotPart(Tail(p), u, id, f, h) /\ (NoEof(p) => NoEof(Tail(p)))
        BY <1>1, <1>4, SnapshotTail
    <2>2. st # "NONE" => Recent(Tail(p), u, id, f, r, w, o, n)
        BY <1>1, <2>1 DEF Recent
    <2> QED BY <1>1, <1>3, <2>1, <2>2 DEF SnapshotAt
<1>5. CASE p[1] = [type |-> "MERGE_START"]
    <2>1. p[1] # Merge(u)
        BY <1>5 DEF Merge
    <2> QED BY <1>4, <1>5, <2>1
<1>6. CASE p[1] = Merge(u)
    BY <1>4, <1>6
<1>7. CASE p[1] = MergeEnd(id, f)
    <2>1. /\ u <= g \/ \E j \in 1..(1 - 1) : p[j] = Merge(u)
          /\ \A j \in (1 + 1)..Len(p) : p[j] = Eof
        <3>1. p[1] # [type |-> "MERGE_START"] /\ p[1] # Merge(u)
            BY <1>7 DEF Merge, MergeEnd
        <3> QED BY <1>1, <1>2, <3>1 DEF SnapshotPart
    <2>2. u <= g /\ \A i \in 2..Len(p) : p[i] = Eof
        BY <2>1
    <2>3. Behind(id, 0, g, r, w, o, b)
        BY <1>1, <2>2 DEF Behind
    <2>4. Stretch(Tail(p), u, w)
        BY <1>2, <2>2 DEF Stretch
    <2>5. NoEof(p) => Len(p) = 1
        BY <1>2, <2>2 DEF NoEof
    <2>6. st # "NONE" => Abreast(id, f, Tail(p), u, r, w, o, n)
        BY <1>1, <1>2, <2>5 DEF Recent, Abreast, NoEof
    <2>7. StreamAt(id, f, Tail(p), g, r, w, o, b, st, n)
        BY <1>1, <2>2, <2>4, <2>6 DEF StreamAt
    <2> QED BY <1>3, <1>7, <2>2, <2>3, <2>7
<1> QED BY <1>1, <1>2, <1>5, <1>6, <1>7 DEF SnapshotPart

-----------------------------------------------------------------------------
(***************************************************************************)
(* The steps of the slave.                                                 *)
(***************************************************************************)

\* The slave dials: a fresh connection with empty channels.
LEMMA ConnectStep == IndInv /\ crdtConnectWithMaster => IndInv'
<1> SUFFICES ASSUME IndInv, crdtConnectWithMaster PROVE IndInv'
    OBVIOUS
<1> USE DEF IndInv
<1>1. /\ conn \in Nat /\ conn + 1 \in Conns /\ conn' = conn + 1 /\ Conns \subseteq Nat
      /\ conn' \in 0..(MaxFaults + 1)
    BY ConstantsAssumption DEF crdtConnectWithMaster, TypeInv, Conns
<1>2. /\ repl_state = "CONNECT" /\ repl_state' = "HANDSHAKE" /\ round' = 1
      /\ ends' = [ends EXCEPT ![conn + 1] = {"slave", "master"}]
      /\ up' = [up EXCEPT ![conn + 1] = <<[type |-> "PING"]>>]
      /\ UNCHANGED <<masterVars, down, cached, master, querybuf, held, got, faults>>
    BY DEF crdtConnectWithMaster
<1>3. lastGot' = lastGot /\ UNCHANGED <<written, replid, offset, backlog, client, child>>
    BY <1>2 DEF lastGot, masterVars
<1>4. <<[type |-> "PING"]>> \in Seq(UpMsg)
    BY DEF UpMsg, Requests
<1>5. TypeInv'
    BY <1>1, <1>2, <1>3, <1>4, HandshakeFacts, SMTT(20) DEF TypeInv
<1>6. WireInv'
    <2>1. /\ up'[conn + 1] = <<[type |-> "PING"]>>
          /\ \A c \in Conns : c # conn + 1 => up'[c] = up[c]
        BY <1>1, <1>2 DEF TypeInv
    <2>2. \A i \in 1..Len(up'[conn + 1]) : up'[conn + 1][i].type # "PSYNC"
        BY <2>1
    <2>3. \A c \in Conns : \A i \in 1..Len(up'[c]) :
             up'[c][i].type = "PSYNC" => Len(up'[c]) = 1 /\ client[c] = NewClient
        BY <2>1, <2>2 DEF WireInv
    <2>4. /\ ends'[conn + 1] = {"slave", "master"}
          /\ \A c \in Conns : c # conn + 1 => ends'[c] = ends[c]
        BY <1>1, <1>2 DEF TypeInv
    <2> QED BY <1>1, <1>2, <1>3, <2>1, <2>3, <2>4 DEF WireInv
<1>7. MasterInv'
    BY <1>1, <1>2, MasterFrame, SMTT(20) DEF TypeInv
<1>8. CacheInv'
    BY <1>2, <1>3, CacheFrame
<1>9. PhaseInv'
    <2>1. down[conn + 1] = <<>> /\ client[conn + 1] = NewClient
        BY <1>1 DEF WireInv
    <2>2. querybuf = <<>>
        BY <1>2 DEF PhaseInv
    <2>3. up'[conn + 1] = <<[type |-> "PING"]>> /\ ends'[conn + 1] = {"slave", "master"}
        BY <1>1, <1>2 DEF TypeInv
    <2>4. /\ Len(up'[conn']) = 1 /\ up'[conn'][1].type = "PING" /\ "PING" \in Requests
          /\ down'[conn'] = <<>> /\ client'[conn'] = NewClient /\ "master" \in ends'[conn']
        BY <1>1, <1>2, <1>3, <2>1, <2>3 DEF Requests
    <2>5. \A i \in 1..Len(up'[conn']) : up'[conn'][i].type \in Requests
        BY <2>4
    <2>6. InHandshake'
        BY <1>2, <2>2, <2>4, <2>5, HandshakeFacts DEF InHandshake
    <2> QED BY <1>2, <2>2, <2>6 DEF PhaseInv
<1> QED BY <1>5, <1>6, <1>7, <1>8, <1>9

\* The slave closes its end.
LEMMA CloseStep ==
    ASSUME TypeInv, WireInv, MasterInv, repl_state # "CONNECT", CloseSlaveEnd,
           UNCHANGED <<masterVars, conn>>, repl_state' = "CONNECT", querybuf' = <<>>
    PROVE  /\ WireInv' /\ MasterInv' /\ PhaseInv'
           /\ ends' \in [Conns -> SUBSET {"slave", "master"}]
           /\ down' \in [Conns -> Seq(DownMsg)] /\ up' \in [Conns -> Seq(UpMsg)]
<1>1. /\ conn \in Conns /\ UNCHANGED up
      /\ ends' = [ends EXCEPT ![conn] = ends[conn] \ {"slave"}]
      /\ down' = [down EXCEPT ![conn] = <<>>]
    BY DEF WireInv, CloseSlaveEnd
<1>2. UNCHANGED <<written, replid, offset, backlog, client, child>>
    BY DEF masterVars
<1>3. ends' \in [Conns -> SUBSET {"slave", "master"}] /\ down' \in [Conns -> Seq(DownMsg)]
    BY <1>1 DEF TypeInv
<1>4. WireInv'
    BY <1>1, <1>2, <1>3 DEF WireInv, TypeInv
<1>5. MasterInv'
    BY <1>1, <1>3, MasterFrame DEF TypeInv
<1>6. PhaseInv'
    BY DEF PhaseInv
<1> QED BY <1>1, <1>3, <1>4, <1>5, <1>6 DEF TypeInv

\* Dropping a connected link caches the offset that the slave has reached.
LEMMA CacheMasterStep ==
    ASSUME IndInv, crdtReplicationCacheMaster, repl_state \in {"TRANSFER", "CONNECTED"},
           querybuf = <<>>, UNCHANGED <<masterVars, conn, querybuf, got>>, faults' \in Nat
    PROVE  IndInv'
<1> USE DEF IndInv
<1>1. /\ CloseSlaveEnd
      /\ cached' = [replid |-> master.replid, reploff |-> master.reploff]
      /\ master' = NoMaster /\ repl_state' = "CONNECT" /\ UNCHANGED <<round, held>>
    BY DEF crdtReplicationCacheMaster
<1>2. lastGot' = lastGot /\ UNCHANGED <<written, replid, offset, backlog, client, child>>
    BY DEF lastGot, masterVars
<1>3. /\ WireInv' /\ MasterInv' /\ PhaseInv'
      /\ ends' \in [Conns -> SUBSET {"slave", "master"}]
      /\ down' \in [Conns -> Seq(DownMsg)] /\ up' \in [Conns -> Seq(UpMsg)]
    BY <1>1, CloseStep
<1>4. TypeInv'
    BY <1>1, <1>2, <1>3 DEF TypeInv, NoMaster, NoId
<1>5. CacheInv'
    <2>1. /\ master.replid \in Int /\ master.reploff \in Int /\ replid \in Nat
          /\ lastGot \in Nat /\ held \subseteq 0..replid
        BY DEF TypeInv
    <2>2. /\ master.reploff >= 0 /\ master.replid <= replid
          /\ Behind(master.replid, master.reploff, lastGot, replid, written, offset, backlog)
        <3>1. CASE repl_state = "TRANSFER"
            BY <2>1, <3>1 DEF PhaseInv, InTransfer, CacheInv, Behind, Garbage
        <3>2. CASE repl_state = "CONNECTED"
            <4>1. PICK a \in 0..lastGot :
                     Behind(master.replid, master.reploff, a, replid, written, offset, backlog)
                BY <3>2 DEF PhaseInv, InStream, StreamOk, StreamAt
            <4> QED BY <2>1, <3>2, <4>1 DEF PhaseInv, InStream, Behind, TypeInv
        <3> QED BY <3>1, <3>2
    <2> QED BY <1>1, <1>2, <2>2 DEF CacheInv
<1> QED BY <1>3, <1>4, <1>5

\* The connection breaks, whatever the slave was doing.
LEMMA BreakStep == IndInv /\ (ReadMasterEof \/ LoseConnection) => IndInv'
<1>1. ASSUME IndInv, ReadMasterEof PROVE IndInv'
    <2>1. faults' \in Nat
        BY <1>1 DEF ReadMasterEof, IndInv, TypeInv
    <2> QED BY <1>1, <2>1, CacheMasterStep DEF ReadMasterEof
<1>2. ASSUME IndInv, LoseConnection PROVE IndInv'
    <2>1. faults' \in Nat
        BY <1>2 DEF LoseConnection, Fault, IndInv, TypeInv
    <2> QED BY <1>2, <2>1, CacheMasterStep DEF LoseConnection
<1> QED BY <1>1, <1>2

\* An attempt is given up.
LEMMA ErrorStep ==
    ASSUME IndInv, HandshakeError, repl_state # "CONNECT", querybuf = <<>>,
           cached' \in {cached, NoCache}, master' \in {master, NoMaster}, faults' \in Nat,
           UNCHANGED <<masterVars, conn, querybuf, held, got>>
    PROVE  IndInv'
<1> USE DEF IndInv
<1>1. CloseSlaveEnd /\ repl_state' = "CONNECT" /\ round' = 0
    BY DEF HandshakeError
<1>2. lastGot' = lastGot /\ UNCHANGED <<written, replid, offset, backlog, client, child>>
    BY DEF lastGot, masterVars
<1>3. /\ WireInv' /\ MasterInv' /\ PhaseInv'
      /\ ends' \in [Conns -> SUBSET {"slave", "master"}]
      /\ down' \in [Conns -> Seq(DownMsg)] /\ up' \in [Conns -> Seq(UpMsg)]
    BY <1>1, CloseStep
<1>4. TypeInv'
    BY <1>1, <1>2, <1>3, HandshakeFacts, SMTT(20) DEF TypeInv, NoMaster, NoId, NoCache
<1>5. CacheInv'
    BY <1>2 DEF CacheInv, NoCache, NoId, Behind, TypeInv
<1> QED BY <1>3, <1>4, <1>5

\* The slave gives up a handshake or a transfer on a timeout.
LEMMA CancelStep == IndInv /\ crdtCancelReplicationHandshake => IndInv'
<1> SUFFICES ASSUME IndInv, crdtCancelReplicationHandshake PROVE IndInv'
    OBVIOUS
<1>1. faults' \in Nat
    BY DEF IndInv, TypeInv, crdtCancelReplicationHandshake, Fault
<1> QED BY <1>1, ErrorStep DEF crdtCancelReplicationHandshake

\* What SendUp does.
LEMMA SendUpFacts ==
    ASSUME TypeInv, WireInv, conn \in Conns, NEW m \in UpMsg, SendUp(conn, m)
    PROVE  /\ up' \in [Conns -> Seq(UpMsg)]
           /\ \A c \in Conns : c # conn => up'[c] = up[c]
           /\ "master" \in ends[conn] => up'[conn] = Append(up[conn], m)
           /\ "master" \notin ends[conn] => up'[conn] = <<>>
<1>1. up \in [Conns -> Seq(UpMsg)] /\ Append(up[conn], m) \in Seq(UpMsg)
    BY AppendProperties DEF TypeInv
<1> QED BY <1>1 DEF SendUp, WireInv

\* A request of the slave leaves the wires in order.
LEMMA RequestWires ==
    ASSUME TypeInv, WireInv, repl_state # "CONNECT", repl_state' # "CONNECT", conn \in Conns,
           NEW m \in UpMsg, SendUp(conn, m), UNCHANGED <<masterVars, ends, conn>>,
           \A c \in Conns : c # conn => down'[c] = down[c],
           up[conn] = <<>>, m.type = "PSYNC" => client[conn] = NewClient
    PROVE  WireInv'
<1>1. client' = client
    BY DEF masterVars
<1>2. up'[conn] = <<m>> \/ up'[conn] = <<>>
    BY SendUpFacts
<1>3. \A i \in 1..Len(up'[conn]) : up'[conn][i] = m /\ Len(up'[conn]) = 1
    <2>1. CASE up'[conn] = <<m>>
        <3>1. Len(up'[conn]) = 1 /\ up'[conn][1] = m
            BY <2>1
        <3> QED BY <3>1
    <2>2. CASE up'[conn] = <<>>
        BY <2>2
    <2> QED BY <1>2, <2>1, <2>2
<1>5. \A i \in 1..Len(up'[conn]) :
          up'[conn][i].type = "PSYNC" => Len(up'[conn]) = 1 /\ client[conn] = NewClient
    BY <1>3
<1>4. \A c \in Conns : \A i \in 1..Len(up'[c]) :
          up'[c][i].type = "PSYNC" => Len(up'[c]) = 1 /\ client[c] = NewClient
    <2>1. \A c \in Conns : c # conn => up'[c] = up[c]
        BY SendUpFacts
    <2> QED BY <1>5, <2>1 DEF WireInv
<1> QED BY <1>1, <1>4, SendUpFacts, Zenon DEF WireInv

\* The slave takes what has arrived: d is left.
LEMMA TakeDown ==
    ASSUME TypeInv, conn \in Conns, NEW d \in Seq(DownMsg), down' = [down EXCEPT ![conn] = d]
    PROVE  /\ down' \in [Conns -> Seq(DownMsg)] /\ down'[conn] = d
           /\ \A c \in Conns : c # conn => down'[c] = down[c]
<1>1. down \in [Conns -> Seq(DownMsg)]
    BY DEF TypeInv
<1> QED BY <1>1

\* The slave sends its PSYNC request after the handshake.
LEMMA SyncStep == IndInv /\ crdtSyncWithMaster => IndInv'
<1> SUFFICES ASSUME IndInv, crdtSyncWithMaster PROVE IndInv'
    OBVIOUS
<1> USE DEF IndInv
<1> DEFINE D == down[conn]
<1>1. /\ repl_state = "HANDSHAKE" /\ D # <<>>
      /\ UNCHANGED <<masterVars, conn, cached, master, querybuf, held, got, faults>>
    BY DEF crdtSyncWithMaster
<1>2. lastGot' = lastGot /\ UNCHANGED <<written, replid, offset, backlog, client, child>>
    BY <1>1 DEF lastGot, masterVars
<1>3. conn \in Conns /\ D \in Seq(DownMsg) /\ InHandshake
    BY <1>1 DEF WireInv, PhaseInv, TypeInv
<1>4. /\ Len(D) = 1 /\ up[conn] = <<>> /\ Tail(D) = <<>>
      /\ Head(D) = D[1] /\ D[1].type \in {"OK", "ERR"}
    <2>1. Len(D) \in Nat /\ Len(D) # 0
        BY <1>1, <1>3, EmptySeq
    <2>0. up[conn] = <<>> /\ Len(D) <= 1
        BY <1>1, <1>3 DEF InHandshake
    <2>5. \A n \in Nat : n # 0 /\ n <= 1 => n = 1
        OBVIOUS
    <2>2. Len(D) = 1 /\ up[conn] = <<>>
        BY <2>0, <2>1, <2>5, Zenon
    <2>3. Tail(D) \in Seq(DownMsg) /\ Len(Tail(D)) = 0
        BY <1>1, <1>3, <2>2, HeadTailProperties
    <2>4. Tail(D) = <<>>
        BY <2>3, EmptySeq, Zenon
    <2> QED BY <1>3, <2>2, <2>4 DEF InHandshake
<1>5. CASE HandshakeError
    BY <1>1, <1>3, <1>5, ErrorStep, Zenon DEF InHandshake, TypeInv
<1>6. ASSUME ~HandshakeError PROVE IndInv'
    <2>0. Head(down[conn]).type # "EOF"
        BY <1>4
    <2>1. /\ down' = [down EXCEPT ![conn] = Tail(D)] /\ UNCHANGED ends
          /\ \/ /\ round < Len(Handshake) /\ SendUp(conn, [type |-> Handshake[round + 1]])
                /\ round' = round + 1 /\ UNCHANGED repl_state
             \/ /\ SendUp(conn, PsyncRequest) /\ repl_state' = "RECEIVE_PSYNC" /\ round' = 0
        <3>1. /\ down' = [down EXCEPT ![conn] =
                            IF Head(down[conn]).type = "EOF" THEN @ ELSE Tail(@)]
              /\ IF round < Len(Handshake)
                 THEN /\ SendUp(conn, [type |-> Handshake[round + 1]])
                      /\ round' = round + 1 /\ UNCHANGED repl_state
                 ELSE /\ SendUp(conn, PsyncRequest)
                      /\ repl_state' = "RECEIVE_PSYNC" /\ round' = 0
              /\ UNCHANGED ends
            BY <1>6, Zenon DEF crdtSyncWithMaster
        <3>2. down' = [down EXCEPT ![conn] = Tail(D)]
            BY <2>0, <3>1
        <3> QED BY <3>1, <3>2, Zenon
    <2>2. /\ down' \in [Conns -> Seq(DownMsg)] /\ down'[conn] = <<>>
          /\ \A c \in Conns : c # conn => down'[c] = down[c]
        <3>1. Tail(D) \in Seq(DownMsg) /\ Tail(D) = <<>>
            BY <1>4, EmptySeq, Zenon
        <3> QED BY <1>3, <2>1, <3>1, TakeDown, Zenon
    <2>3. MasterInv' /\ CacheInv'
        BY <1>1, <1>2, <2>1, MasterFrame, CacheFrame, ConstantsAssumption DEF TypeInv
    <2>4. CASE round < Len(Handshake) /\ SendUp(conn, [type |-> Handshake[round + 1]])
               /\ round' = round + 1 /\ UNCHANGED repl_state
        <3> DEFINE m == [type |-> Handshake[round + 1]]
        <3>1. round' \in 1..Len(Handshake) /\ m \in UpMsg /\ m.type \in Requests
            BY <1>3, <2>4, HandshakeFacts DEF InHandshake, UpMsg
        <3>2. up' \in [Conns -> Seq(UpMsg)] /\ up'[conn] = <<m>>
            BY <1>3, <1>4, <2>4, <3>1, SendUpFacts DEF InHandshake
        <3>3. WireInv'
            <4>1. m.type # "PSYNC"
                BY <3>1 DEF Requests
            <4> QED BY <1>1, <1>3, <1>4, <2>1, <2>2, <2>4, <3>1, <4>1, RequestWires
        <3>4. TypeInv'
            BY <1>1, <1>2, <2>1, <2>2, <2>4, <3>1, <3>2, HandshakeFacts, SMTT(20) DEF TypeInv
        <3>5. \A i \in 1..Len(up'[conn]) : up'[conn][i].type \in Requests
            BY <3>1, <3>2
        <3>6. Len(up'[conn]) <= 1
            BY <3>2
        <3>7. InHandshake'
            <4>1. conn' = conn /\ querybuf' = <<>> /\ client'[conn] = NewClient
                  /\ "master" \in ends'[conn]
                BY <1>1, <1>2, <1>3, <2>1, Zenon DEF InHandshake
            <4>2. Len(down'[conn]) = 0 /\ Len(down'[conn]) <= 1
                BY <2>2, EmptySeq
            <4>3. \A i \in 1..Len(down'[conn]) : down'[conn][i].type \in {"OK", "ERR"}
                BY <4>2
            <4> QED BY <2>2, <3>1, <3>5, <3>6, <4>1, <4>2, <4>3, Zenon DEF InHandshake
        <3> QED BY <1>1, <1>3, <2>3, <2>4, <3>3, <3>4, <3>7, Zenon DEF PhaseInv, InHandshake
    <2>5. CASE SendUp(conn, PsyncRequest) /\ repl_state' = "RECEIVE_PSYNC" /\ round' = 0
        <3>1. PsyncRequest \in UpMsg
            BY DEF PsyncRequest, UpMsg, TypeInv
        <3>2. up' \in [Conns -> Seq(UpMsg)] /\ up'[conn] = <<PsyncRequest>>
            BY <1>3, <1>4, <2>5, <3>1, SendUpFacts DEF InHandshake
        <3>3. WireInv'
            <4>1. client[conn] = NewClient
                BY <1>3 DEF InHandshake
            <4> QED BY <1>1, <1>3, <1>4, <2>1, <2>2, <2>5, <3>1, <4>1, RequestWires, Zenon
        <3>4. TypeInv'
            BY <1>1, <1>2, <2>1, <2>2, <2>5, <3>2, HandshakeFacts DEF TypeInv
        <3>5. Asked'
            BY <1>1, <1>2, <1>3, <2>2, <3>2, Zenon DEF Asked, InHandshake, PsyncRequest
        <3> QED BY <1>1, <1>3, <2>3, <2>5, <3>3, <3>4, <3>5, Zenon DEF PhaseInv, InHandshake, InPsync
    <2> QED BY <2>1, <2>4, <2>5
<1> QED BY <1>5, <1>6

\* The slave acknowledges its offset.
LEMMA AckStep == IndInv /\ crdtReplicationSendAck => IndInv'
<1> SUFFICES ASSUME IndInv, crdtReplicationSendAck PROVE IndInv'
    OBVIOUS
<1> USE DEF IndInv
<1>1. /\ repl_state = "CONNECTED" /\ up[conn] = <<>> /\ SendUp(conn, [type |-> "ACK"])
      /\ UNCHANGED <<masterVars, ends, down, slaveVars, faults>>
    BY DEF crdtReplicationSendAck
<1>2. /\ lastGot' = lastGot /\ UNCHANGED <<written, replid, offset, backlog, client, child>>
      /\ UNCHANGED <<repl_state, round, conn, cached, master, querybuf, held, got>>
    BY <1>1, Zenon DEF lastGot, masterVars, slaveVars
<1>3. conn \in Conns /\ [type |-> "ACK"] \in UpMsg
    BY <1>1 DEF WireInv, UpMsg
<1>4. /\ up' \in [Conns -> Seq(UpMsg)]
      /\ up'[conn] = <<[type |-> "ACK"]>> \/ up'[conn] = <<>>
    BY <1>1, <1>3, SendUpFacts
<1>5. TypeInv'
    BY <1>1, <1>2, <1>4 DEF TypeInv
<1>6. WireInv'
    BY <1>1, <1>2, <1>3, RequestWires
<1>7. MasterInv' /\ CacheInv'
    BY <1>1, <1>2, MasterFrame, CacheFrame, ConstantsAssumption DEF TypeInv
<1>8. \A i \in 1..Len(up'[conn]) : up'[conn][i].type = "ACK"
    BY <1>4
<1>9. PhaseInv'
    BY <1>1, <1>2, <1>8, Zenon DEF PhaseInv, InStream, StreamOk, pipe
<1> QED BY <1>5, <1>6, <1>7, <1>9

\* A message less, or d left of them, and nothing else for the wires.
LEMMA TakeWires ==
    ASSUME TypeInv, WireInv, repl_state # "CONNECT", repl_state' # "CONNECT",
           NEW d \in Seq(DownMsg), down' = [down EXCEPT ![conn] = d],
           UNCHANGED <<masterVars, ends, up, conn>>
    PROVE  WireInv' /\ down' \in [Conns -> Seq(DownMsg)] /\ down'[conn] = d /\ conn \in Conns
<1>1. conn \in Conns
    BY DEF WireInv
<1>2. /\ down' \in [Conns -> Seq(DownMsg)] /\ down'[conn] = d
      /\ \A c \in Conns : c # conn => down'[c] = down[c]
    BY <1>1, TakeDown, Zenon
<1>3. client' = client
    BY DEF masterVars
<1> QED BY <1>1, <1>2, <1>3 DEF WireInv

\* With an empty query buffer the pipe is the channel.
LEMMA PipeEmpty ==
    ASSUME querybuf = <<>>, NEW d \in Seq(DownMsg), down[conn] = d
    PROVE  pipe = d
<1>1. <<>> \o d = d
    BY ConcatEmptySeq
<1> QED BY <1>1 DEF pipe

\* The absent cached master has the type of a cached master.
LEMMA NoCacheType == NoCache \in [replid : Int, reploff : Int]
<1>1. -2 \in Int /\ -1 \in Int
    OBVIOUS
<1> QED BY <1>1 DEF NoCache, NoId

\* The slave reads the answer to PSYNC: full resynchronisation, continuation
\* or refusal.
LEMMA PsyncAnswerStep == IndInv /\ crdtSlaveTryPartialResynchronization => IndInv'
<1> SUFFICES ASSUME IndInv, crdtSlaveTryPartialResynchronization PROVE IndInv'
    OBVIOUS
<1> USE DEF IndInv
<1> DEFINE D == down[conn]
<1>1. /\ repl_state = "RECEIVE_PSYNC" /\ D # <<>> /\ faults' \in Nat
      /\ UNCHANGED <<masterVars, conn, querybuf, got, faults>>
    BY Zenon DEF crdtSlaveTryPartialResynchronization, TypeInv
<1>2. lastGot' = lastGot /\ UNCHANGED <<written, replid, offset, backlog, client, child>>
    BY <1>1, Zenon DEF lastGot, masterVars
<1>3. conn \in Conns /\ D \in Seq(DownMsg) /\ InPsync /\ querybuf = <<>>
    BY <1>1 DEF WireInv, PhaseInv, TypeInv, InPsync
<1>4. /\ Len(D) \in Nat \ {0} /\ Head(D) = D[1]
      /\ Tail(D) \in Seq(DownMsg) /\ Head(D) \in DownMsg
    BY <1>1, <1>3, EmptySeq, HeadTailProperties
<1>5. CASE HandshakeError /\ UNCHANGED <<master, held>> /\ cached' \in {cached, NoCache}
    BY <1>1, <1>3, <1>5, ErrorStep
<1>6. CASE Refused
    <2>1. Head(D).type \in {"LOADING", "ERR", "EOF"}
        BY <1>4, <1>6 DEF Refused
    <2>2. HandshakeError /\ UNCHANGED <<master, held>> /\ cached' \in {cached, NoCache}
        BY <2>1 DEF crdtSlaveTryPartialResynchronization
    <2> QED BY <1>5, <2>2
<1>7. CASE Continues
    <2>1. /\ Head(D) = [type |-> "CONTINUE", replid |-> cached.replid]
          /\ up[conn] = <<>> /\ (client[conn].replstate = "NONE" \/ Writable(conn))
          /\ StreamOk(cached.replid, cached.reploff, Tail(D))
        BY <1>7 DEF Continues
    <2>2. Head(D).type = "CONTINUE" /\ Head(D).replid = cached.replid
        BY <2>1
    <2>3. /\ master' = [replid |-> cached.replid, reploff |-> cached.reploff,
                        read_reploff |-> cached.reploff]
          /\ held' = held \cup {cached.replid} /\ cached' = NoCache
          /\ repl_state' = "CONNECTED" /\ down' = [down EXCEPT ![conn] = Tail(D)]
          /\ UNCHANGED <<ends, up, round>>
        BY <2>2 DEF crdtSlaveTryPartialResynchronization
    <2>4. cached.replid \in Nat /\ cached.reploff \in Int /\ cached.replid <= replid
        BY <1>4, <2>1, SMTT(20) DEF DownMsg, TypeInv, CacheInv
    <2>5. cached.reploff >= 0
        BY <2>4 DEF CacheInv, NoId
    <2>6. WireInv' /\ down' \in [Conns -> Seq(DownMsg)] /\ down'[conn] = Tail(D)
        BY <1>1, <1>4, <2>3, TakeWires, Zenon
    <2>7. master' \in [replid : Int, reploff : Int, read_reploff : Int]
        BY <2>3, <2>4
    <2>8. held' \subseteq 0..replid /\ cached' \in [replid : Int, reploff : Int]
        <3>1. held \subseteq 0..replid /\ replid \in Nat
            BY DEF TypeInv
        <3>2. cached.replid \in 0..replid
            BY <2>4, <3>1
        <3> QED BY <2>3, <3>1, <3>2, NoCacheType, Zenon
    <2>9. TypeInv'
        BY <1>1, <1>2, <2>3, <2>6, <2>7, <2>8, SMTT(20) DEF TypeInv
    <2>10. MasterInv'
        BY <1>1, <2>3, MasterFrame, ConstantsAssumption DEF TypeInv
    <2>11. CacheInv'
        <3>1. replid \in Nat /\ written \in Nat /\ offset \in Nat /\ lastGot \in Nat
            BY DEF TypeInv
        <3>2. Behind(cached.replid, 0, lastGot, replid, written, offset, backlog)
            BY <2>4, <2>5, <3>1 DEF CacheInv, Behind
        <3>3. cached'.replid = NoId /\ NoId # replid /\ NoId <= replid
            BY <2>3, <3>1 DEF NoCache, NoId
        <3>4. Behind(cached'.replid, cached'.reploff, lastGot, replid, written, offset, backlog)
            BY <3>3 DEF Behind
        <3> QED BY <1>2, <2>3, <3>2, <3>3, <3>4 DEF CacheInv
    <2>12. pipe' = Tail(D)
        <3>1. <<>> \o Tail(D) = Tail(D)
            BY <1>4, ConcatEmptySeq
        <3> QED BY <1>1, <1>3, <2>6, <3>1 DEF pipe
    <2>13. InStream'
        <3>1. /\ master'.replid = cached.replid /\ master'.reploff = cached.reploff
              /\ master'.read_reploff = cached.reploff
            BY <2>3
        <3>2. StreamOk(master.replid, master.reploff, pipe)'
            BY <1>1, <1>2, <2>1, <2>12, <3>1, Zenon DEF StreamOk
        <3>3. Len(up'[conn']) = 0 /\ Len(querybuf') = 0
            BY <1>1, <1>3, <2>1, <2>3, EmptySeq, Zenon
        <3>4. \A i \in 1..Len(up'[conn']) : up'[conn'][i].type = "ACK"
            BY <3>3
        <3>5. client'[conn'].replstate \in {"NONE", "ONLINE"}
            BY <1>1, <1>2, <2>1, Zenon DEF Writable
        <3> QED BY <1>2, <2>4, <2>5, <3>1, <3>2, <3>3, <3>4, <3>5 DEF InStream
    <2>14. PhaseInv'
        BY <1>1, <1>3, <2>3, <2>13, EmptySeq DEF PhaseInv
    <2> QED BY <2>6, <2>9, <2>10, <2>11, <2>14
<1>8. CASE Resyncs
    <2>1. Head(D).type = "FULLRESYNC" /\ up[conn] = <<>> /\ SnapshotOk(Tail(D))
        BY <1>8 DEF Resyncs
    <2>2. PICK i \in FreshReplid : master' = [replid |-> i, reploff |-> 0, read_reploff |-> 0]
        BY <2>1, Zenon DEF crdtSlaveTryPartialResynchronization
    <2>3. /\ cached' = NoCache /\ repl_state' = "TRANSFER"
          /\ down' = [down EXCEPT ![conn] = Tail(D)] /\ UNCHANGED <<ends, up, round, held>>
        BY <2>1, Zenon DEF crdtSlaveTryPartialResynchronization
    <2>4. i \in Int /\ held \subseteq 0..replid
        BY <2>2 DEF FreshReplid, Garbage, TypeInv
    <2>5. WireInv' /\ down' \in [Conns -> Seq(DownMsg)] /\ down'[conn] = Tail(D)
        BY <1>1, <1>4, <2>3, TakeWires, Zenon
    <2>6. master' \in [replid : Int, reploff : Int, read_reploff : Int]
        BY <2>2, <2>4
    <2>7. TypeInv'
        BY <1>1, <1>2, <2>3, <2>4, <2>5, <2>6, NoCacheType, Zenon DEF TypeInv
    <2>8. MasterInv'
        BY <1>1, <2>3, MasterFrame, ConstantsAssumption DEF TypeInv
    <2>9. CacheInv'
        <3>1. cached'.replid = NoId /\ NoId # replid /\ NoId <= replid
            BY <2>3 DEF NoCache, NoId, TypeInv
        <3>2. Behind(cached'.replid, cached'.reploff, lastGot, replid, written, offset, backlog)
            BY <3>1 DEF Behind
        <3> QED BY <1>2, <2>3, <3>1, <3>2 DEF CacheInv
    <2>10. pipe' = Tail(D)
        <3>1. <<>> \o Tail(D) = Tail(D)
            BY <1>4, ConcatEmptySeq
        <3> QED BY <1>1, <1>3, <2>5, <3>1 DEF pipe
    <2>11. SnapshotOk(pipe)'
        BY <1>1, <1>2, <2>1, <2>10, Zenon DEF SnapshotOk
    <2>12. InTransfer'
        BY <1>1, <2>1, <2>2, <2>3, <2>11 DEF InTransfer, FreshReplid
    <2>13. PhaseInv'
        BY <1>1, <1>3, <2>3, <2>12, EmptySeq DEF PhaseInv
    <2> QED BY <2>5, <2>7, <2>8, <2>9, <2>13
<1> QED BY <1>1, <1>3, <1>6, <1>7, <1>8 DEF InPsync, Asked, Waits

\* The slave moves bytes of the channel to its query buffer: the pipe, which
\* is both, does not change.
LEMMA ReadStep == \A k \in Nat : IndInv /\ readQueryFromClient(k) => IndInv'
<1> SUFFICES ASSUME NEW k \in Nat, IndInv, readQueryFromClient(k) PROVE IndInv'
    OBVIOUS
<1> USE DEF IndInv
<1> DEFINE D == down[conn]
           taken == SubSeq(D, 1, k)
           left == SubSeq(D, k + 1, Len(D))
<1>1. /\ repl_state \in {"TRANSFER", "CONNECTED"} /\ querybuf = <<>> /\ k \in 1..Len(D)
      /\ \A i \in 1..k : D[i].type # "EOF"
      /\ querybuf' = taken /\ down' = [down EXCEPT ![conn] = left]
      /\ master' = IF repl_state = "CONNECTED"
                   THEN [master EXCEPT !.read_reploff = @ + k] ELSE master
      /\ UNCHANGED <<masterVars, ends, up, repl_state, round, conn, cached, held, got, faults>>
    BY DEF readQueryFromClient
<1>2. lastGot' = lastGot /\ UNCHANGED <<written, replid, offset, backlog, client, child>>
    BY <1>1 DEF lastGot, masterVars
<1>3. D \in Seq(DownMsg) /\ Len(D) \in Nat /\ \A i \in 1..Len(D) : D[i] \in DownMsg
    <2>1. D \in Seq(DownMsg)
        BY <1>1 DEF WireInv, TypeInv
    <2> QED BY <2>1, LenProperties, ElementOfSeq
<1>4. /\ taken \in Seq(DownMsg) /\ Len(taken) = k
      /\ \A i \in 1..k : taken[i] = D[i]
      /\ left \in Seq(DownMsg)
    <2>1. \A i \in 1..k : D[i] \in DownMsg
        BY <1>1, <1>3
    <2>2. \A i \in (k + 1)..Len(D) : D[i] \in DownMsg
        BY <1>3
    <2>3. /\ taken \in Seq(DownMsg)
          /\ Len(taken) = IF 1 <= k THEN k - 1 + 1 ELSE 0
          /\ \A i \in 1..(k - 1 + 1) : taken[i] = D[1 + i - 1]
        BY <2>1, SubSeqProperties
    <2>4. left \in Seq(DownMsg)
        BY <1>3, <2>2, SubSeqProperties
    <2> QED BY <1>1, <2>3, <2>4
<1>5. taken \o left = D
    <2>1. 1 \in 1..(Len(D) + 1) /\ k \in (1 - 1)..Len(D) /\ Len(D) \in k..Len(D)
        BY <1>1, <1>3
    <2>2. taken \o left = SubSeq(D, 1, Len(D))
        BY <1>3, <2>1, ConcatAdjacentSubSeq, Zenon
    <2> QED BY <1>3, <2>2, SubSeqFull, Zenon
<1>6. WireInv' /\ down' \in [Conns -> Seq(DownMsg)] /\ down'[conn] = left
    BY <1>1, <1>4, TakeWires, Zenon
<1>7. pipe' = pipe
    <2>1. <<>> \o D = D
        BY <1>3, ConcatEmptySeq
    <2> QED BY <1>1, <1>5, <1>6, <2>1, Zenon DEF pipe
<1>8. /\ master' \in [replid : Int, reploff : Int, read_reploff : Int]
      /\ master'.replid = master.replid /\ master'.reploff = master.reploff
      /\ repl_state = "CONNECTED" => master'.read_reploff = master.read_reploff + k
    <2>1. /\ master \in [replid : Int, reploff : Int, read_reploff : Int]
          /\ master' = IF repl_state = "CONNECTED"
                       THEN [master EXCEPT !.read_reploff = master.read_reploff + k] ELSE master
        BY <1>1 DEF TypeInv
    <2> QED BY <2>1
<1>9. TypeInv'
    BY <1>1, <1>2, <1>4, <1>6, <1>8, Zenon DEF TypeInv
<1>10. MasterInv' /\ CacheInv'
    <2>1. conn' = conn /\ conn \in Nat /\ UNCHANGED <<masterVars, ends, cached, held, got>>
        BY <1>1, ConstantsAssumption DEF TypeInv
    <2>2. MasterInv'
        BY <2>1, MasterFrame
    <2> QED BY <1>2, <2>1, <2>2, CacheFrame
<1>11. \A i \in 1..Len(querybuf') : querybuf'[i] # Eof
    BY <1>1, <1>4 DEF Eof
<1>12. CASE repl_state = "TRANSFER"
    <2>1. InTransfer
        BY <1>12 DEF PhaseInv
    <2>2. conn' = conn /\ up' = up /\ held' = held /\ repl_state' = repl_state
        BY <1>1
    <2>3. SnapshotOk(pipe)'
        BY <1>2, <1>7, <2>1, <2>2, Zenon DEF InTransfer, SnapshotOk
    <2>4. InTransfer'
        BY <1>8, <2>1, <2>2, <2>3 DEF InTransfer
    <2> QED BY <1>6, <1>9, <1>10, <1>11, <1>12, <2>2, <2>4 DEF PhaseInv
<1>13. CASE repl_state = "CONNECTED"
    <2>1. Len(querybuf') = k /\ Len(querybuf) = 0
        BY <1>1, <1>4, EmptySeq
    <2>2. master'.read_reploff = master'.reploff + Len(querybuf')
        BY <1>8, <1>13, <2>1 DEF PhaseInv, InStream, TypeInv
    <2>3. StreamOk(master.replid, master.reploff, pipe)'
        BY <1>1, <1>2, <1>7, <1>8, <1>13 DEF PhaseInv, InStream, StreamOk
    <2>4. InStream'
        BY <1>1, <1>2, <1>8, <1>13, <2>2, <2>3 DEF PhaseInv, InStream
    <2> QED BY <1>1, <1>6, <1>9, <1>10, <1>11, <1>13, <2>4 DEF PhaseInv
<1> QED BY <1>1, <1>6, <1>9, <1>10, <1>12, <1>13

\* The slave has applied the writes up to h.
LEMMA GotStep ==
    ASSUME TypeInv, WireInv, MasterInv, CacheInv, NEW h \in Nat, h >= lastGot, h <= written,
           got' = 1..h, querybuf' \in Seq(DownMsg),
           master' \in [replid : Int, reploff : Int, read_reploff : Int],
           UNCHANGED <<masterVars, ends, down, up, repl_state, round, conn, cached, held, faults>>
    PROVE  lastGot' = h /\ TypeInv' /\ WireInv' /\ MasterInv' /\ CacheInv'
<1>1. lastGot' = h
    BY LastOfInterval DEF lastGot
<1>2. UNCHANGED <<written, replid, offset, backlog, client, child>>
    BY DEF masterVars
<1>3. TypeInv'
    BY <1>1, <1>2, SMTT(20) DEF TypeInv
<1>4. WireInv'
    BY <1>2, Zenon DEF WireInv
<1>5. conn \in Nat /\ lastGot \in Nat /\ written \in Nat /\ offset \in Nat /\ replid \in Nat
      /\ cached.reploff \in Int
    BY ConstantsAssumption DEF TypeInv
<1>6. MasterInv'
    BY <1>5, MasterFrame
<1>7. \A id, off \in Int : Behind(id, off, lastGot, replid, written, offset, backlog)
                              => Behind(id, off, h, replid, written, offset, backlog)
    BY <1>5 DEF Behind
<1>8. held \subseteq Int /\ cached.replid \in Int
    BY DEF TypeInv
<1>9. CacheInv'
    BY <1>1, <1>2, <1>5, <1>7, <1>8 DEF CacheInv
<1> QED BY <1>1, <1>3, <1>4, <1>6, <1>9

\* How the slave gets ahead: one write at a time while it is connected.
Advances ==
    /\ lastGot' \in lastGot..written
    /\ repl_state = "CONNECTED" => lastGot' <= lastGot + 1
    /\ lastGot' # lastGot => repl_state' = repl_state

\* The slave executes the first message of its query buffer.
LEMMA ProcessStep == IndInv /\ processInputBuffer => IndInv' /\ Advances
<1> SUFFICES ASSUME IndInv, processInputBuffer PROVE IndInv' /\ Advances
    OBVIOUS
<1> USE DEF IndInv
<1> DEFINE m == Head(querybuf)
<1>1. /\ querybuf # <<>> /\ querybuf' = Tail(querybuf)
      /\ UNCHANGED <<masterVars, ends, down, round, conn, cached, faults>>
    BY DEF processInputBuffer
<1>2. UNCHANGED <<written, replid, offset, backlog, client, child>>
    BY <1>1 DEF masterVars
<1>3. repl_state \in {"TRANSFER", "CONNECTED"} /\ conn \in Conns
    BY <1>1, Zenon DEF TypeInv, PhaseInv, InHandshake, InPsync, WireInv
<1>4. querybuf \in Seq(DownMsg) /\ down[conn] \in Seq(DownMsg) /\ conn' = conn
    BY <1>1, <1>3 DEF TypeInv
<1>5. /\ pipe \in Seq(DownMsg) /\ pipe # <<>> /\ pipe[1] = m /\ m = querybuf[1]
      /\ pipe' = Tail(pipe) /\ querybuf' \in Seq(DownMsg) /\ Len(querybuf) \in Nat \ {0}
      /\ Len(Tail(querybuf)) = Len(querybuf) - 1
      /\ Len(pipe) = Len(querybuf) + Len(down[conn]) /\ Len(down[conn]) \in Nat
      /\ \A i \in 1..Len(querybuf) : pipe[i] = querybuf[i]
      /\ \A i \in 1..(Len(querybuf) - 1) : querybuf'[i] = querybuf[i + 1]
    BY <1>1, <1>4, PipeHead, LenProperties, SMTT(20) DEF pipe
<1>6. pipe[1] # Eof /\ \A i \in 1..Len(querybuf') : querybuf'[i] # Eof
    <2>1. \A i \in 1..Len(querybuf) : querybuf[i] # Eof
        BY DEF PhaseInv
    <2>2. 1 \in 1..Len(querybuf)
        BY <1>5
    <2>3. \A i \in 1..(Len(querybuf) - 1) : i + 1 \in 1..Len(querybuf)
        BY <1>5
    <2> QED BY <1>1, <1>5, <2>1, <2>2, <2>3
<1>7. /\ lastGot \in Nat /\ written \in Nat /\ replid \in Nat /\ offset \in Nat /\ lastGot <= written
      /\ got = 1..lastGot /\ Len(client[conn].reply) \in Nat
      /\ master \in [replid : Int, reploff : Int, read_reploff : Int] /\ held \subseteq 0..replid
    <2>1. client[conn].reply \in Seq(Nat)
        BY <1>3 DEF TypeInv, Client
    <2> QED BY <2>1, LenProperties DEF TypeInv
<1>8. CASE repl_state = "CONNECTED"
    <2>1. InStream
        BY <1>8 DEF PhaseInv
    <2>2. PICK x \in 1..written :
             /\ pipe[1] = Command(x) /\ x <= lastGot + 1
             /\ \A h \in Nat : h >= lastGot /\ h >= x =>
                   StreamAt(master.replid, master.reploff + 1, Tail(pipe), h, replid, written,
                            offset, backlog, client[conn].replstate, Len(client[conn].reply))
        BY <1>5, <1>6, <1>7, <2>1, StreamPop, Zenon DEF InStream, StreamOk
    <2>3. m.type = "command" /\ m.write = x
        BY <1>5, <2>2 DEF Command
    <2>4. got' = got \cup {x} /\ master' = Processed(master) /\ UNCHANGED <<held, repl_state, up>>
        BY <1>8, <2>3 DEF processInputBuffer
    <2>5. PICK h \in Nat : h >= lastGot /\ h >= x /\ h <= written /\ h <= lastGot + 1 /\ got' = 1..h
        <3>1. CASE x <= lastGot
            BY <1>7, <2>4, <3>1
        <3>2. CASE x = lastGot + 1
            <4>1. 1..lastGot \cup {x} = 1..x
                BY <1>7, <3>2
            <4> QED BY <1>7, <2>4, <3>2, <4>1
        <3> QED BY <1>7, <2>2, <3>1, <3>2
    <2>6. master.read_reploff = master.reploff + Len(querybuf)
        BY <2>1 DEF InStream
    <2>7. /\ master' \in [replid : Int, reploff : Int, read_reploff : Int]
          /\ master'.replid = master.replid /\ master'.reploff = master.reploff + 1
          /\ master'.read_reploff = master.read_reploff
        <3>1. master.read_reploff - Len(Tail(querybuf)) = master.reploff + 1
            BY <1>5, <1>7, <2>6
        <3>2. master' = [master EXCEPT !.reploff = master.reploff + 1]
            BY <2>4, <3>1 DEF Processed
        <3> QED BY <1>7, <3>2
    <2>8. lastGot' = h /\ TypeInv' /\ WireInv' /\ MasterInv' /\ CacheInv'
        BY <1>1, <1>5, <1>7, <2>4, <2>5, <2>7, GotStep, SMTT(20)
    <2>9. StreamOk(master.replid, master.reploff, pipe)'
        BY <1>2, <1>4, <1>5, <2>2, <2>5, <2>7, <2>8, Zenon DEF StreamOk
    <2>10. master'.read_reploff = master'.reploff + Len(querybuf')
        BY <1>1, <1>5, <1>7, <2>6, <2>7
    <2>11. master'.replid <= replid' /\ master'.reploff >= 0
        BY <1>2, <1>7, <2>1, <2>7 DEF InStream
    <2>12. InStream'
        BY <1>2, <1>4, <2>1, <2>4, <2>9, <2>10, <2>11, Zenon DEF InStream
    <2>13. Advances
        BY <1>7, <1>8, <2>4, <2>5, <2>8 DEF Advances
    <2> QED BY <1>6, <1>8, <2>4, <2>8, <2>12, <2>13 DEF PhaseInv
<1>9. CASE repl_state = "TRANSFER"
    <2>1. InTransfer
        BY <1>9 DEF PhaseInv
    <2> DEFINE st == client[conn].replstate
               n == Len(client[conn].reply)
    <2>2. /\ st \in {"NONE", "WAIT_BGSAVE_END", "ONLINE"}
          /\ st = "ONLINE" => client[conn].put_online_on_ack
          /\ SnapshotAt(pipe, lastGot, replid, written, offset, backlog, st, n, child)
        BY <2>1, Zenon DEF InTransfer, SnapshotOk
    <2>3. ASSUME NEW h \in Nat, h >= lastGot, h <= written, got' = 1..h, m.type # "MERGE_END",
                 SnapshotAt(Tail(pipe), h, replid, written, offset, backlog, st, n, child)
          PROVE  IndInv' /\ Advances
        <3>1. master' = master /\ UNCHANGED <<held, repl_state, up>>
            BY <1>9, <2>3 DEF processInputBuffer
        <3>2. lastGot' = h /\ TypeInv' /\ WireInv' /\ MasterInv' /\ CacheInv'
            BY <1>1, <1>5, <1>7, <2>3, <3>1, GotStep
        <3>3. SnapshotOk(pipe)'
            BY <1>2, <1>4, <1>5, <2>2, <2>3, <3>2, Zenon DEF SnapshotOk
        <3>4. InTransfer'
            BY <1>4, <2>1, <3>1, <3>3 DEF InTransfer
        <3>5. Advances
            BY <1>7, <1>9, <2>3, <3>1, <3>2 DEF Advances
        <3> QED BY <1>6, <1>9, <3>1, <3>2, <3>4, <3>5 DEF PhaseInv
    <2>4. CASE /\ pipe[1] = [type |-> "MERGE_START"]
               /\ SnapshotAt(Tail(pipe), lastGot, replid, written, offset, backlog, st, n, child)
        <3>1. m.type = "MERGE_START"
            BY <1>5, <2>4
        <3>2. got' = got
            BY <3>1, Zenon DEF processInputBuffer
        <3> QED BY <1>7, <2>3, <2>4, <3>1, <3>2
    <2>5. ASSUME NEW u \in 0..written, pipe[1] = Merge(u),
                 \A h \in Nat : h >= lastGot /\ h >= u =>
                    SnapshotAt(Tail(pipe), h, replid, written, offset, backlog, st, n, child)
          PROVE  IndInv' /\ Advances
        <3>1. m.type = "MERGE" /\ m.upto = u
            BY <1>5, <2>5 DEF Merge
        <3>2. got' = got \cup 1..u
            BY <3>1 DEF processInputBuffer
        <3>3. PICK h \in Nat : h >= lastGot /\ h >= u /\ h <= written /\ got' = 1..h
            <4>1. CASE u <= lastGot
                BY <1>7, <3>2, <4>1
            <4>2. CASE u > lastGot
                BY <1>7, <3>2, <4>2
            <4> QED BY <1>7, <4>1, <4>2
        <3> QED BY <2>3, <2>5, <3>1, <3>3
    <2>6. ASSUME NEW id \in 0..replid, NEW f \in 0..offset, pipe[1] = MergeEnd(id, f),
                 \A i \in 2..Len(pipe) : pipe[i] = Eof,
                 Behind(id, 0, lastGot, replid, written, offset, backlog),
                 ~(st = "WAIT_BGSAVE_END" /\ child.running),
                 StreamAt(id, f, Tail(pipe), lastGot, replid, written, offset, backlog, st, n)
          PROVE  IndInv' /\ Advances
        <3>1. m.type = "MERGE_END" /\ m.replid = id /\ m.offset = f
            <4>1. m = MergeEnd(id, f)
                BY <1>5, <2>6, Zenon
            <4> QED BY <4>1, MergeEndFields
        <3>2. /\ master' = Processed([replid |-> id, reploff |-> f, read_reploff |-> f])
              /\ held' = held \cup {id} /\ repl_state' = "CONNECTED"
              /\ SendUp(conn, [type |-> "ACK"]) /\ got' = got
            BY <3>1 DEF processInputBuffer, crdtMergeEndCommand
        <3>3. Len(querybuf) = 1
            <4>1. \A i \in 1..Len(querybuf) : querybuf[i] # Eof
                BY DEF PhaseInv
            <4>2. ASSUME Len(querybuf) >= 2 PROVE FALSE
                <5>1. 2 \in 1..Len(querybuf) /\ 2 \in 2..Len(pipe)
                    BY <1>5, <4>2
                <5>2. pipe[2] = Eof
                    BY <2>6, <5>1, Zenon
                <5>3. pipe[2] = querybuf[2] /\ querybuf[2] # Eof
                    BY <1>5, <4>1, <5>1, Zenon
                <5> QED BY <5>2, <5>3
            <4> QED BY <1>5, <4>2
        <3>4. Len(querybuf') = 0 /\ Len(Tail(querybuf)) = 0
            BY <1>1, <1>5, <3>3
        <3>5. master' = [replid |-> id, reploff |-> f, read_reploff |-> f]
            <4>1. f - Len(Tail(querybuf)) = f
                <5>1. f \in Int
                    BY <1>7
                <5>2. \A l : l = 0 => f - l = f
                    BY <5>1
                <5> QED BY <3>4, <5>2, Zenon
            <4>2. master' = [[replid |-> id, reploff |-> f, read_reploff |-> f]
                                EXCEPT !.reploff = f]
                BY <3>2, <4>1 DEF Processed
            <4> QED BY <4>2
        <3>6. [type |-> "ACK"] \in UpMsg /\ up[conn] = <<>>
            BY <2>1 DEF UpMsg, InTransfer
        <3>7. /\ up' \in [Conns -> Seq(UpMsg)]
              /\ up'[conn] = <<[type |-> "ACK"]>> \/ up'[conn] = <<>>
            BY <1>3, <3>2, <3>6, SendUpFacts
        <3>8. WireInv'
            <4>1. \A c \in Conns : c # conn => down'[c] = down[c]
                BY <1>1
            <4> QED BY <1>1, <1>3, <1>9, <3>2, <3>6, <4>1, RequestWires
        <3>9. lastGot' = lastGot
            BY <3>2 DEF lastGot
        <3>10. master' \in [replid : Int, reploff : Int, read_reploff : Int] /\ held' \subseteq 0..replid
            BY <1>7, <3>2, <3>5
        <3>11. TypeInv'
            BY <1>1, <1>2, <1>5, <3>2, <3>7, <3>9, <3>10, Zenon DEF TypeInv
        <3>12. MasterInv'
            <4>1. conn \in Nat
                BY ConstantsAssumption DEF TypeInv
            <4> QED BY <1>1, <4>1, MasterFrame, SMTT(20)
        <3>13. CacheInv'
            BY <1>1, <1>2, <2>6, <3>2, <3>9, Zenon DEF CacheInv
        <3>14. \A i \in 1..Len(up'[conn']) : up'[conn'][i].type = "ACK"
            BY <1>4, <3>7
        <3>15. /\ master'.replid = id /\ master'.reploff = f
               /\ master'.read_reploff = f + Len(querybuf')
            BY <3>4, <3>5
        <3>16. StreamOk(master.replid, master.reploff, pipe)'
            BY <1>2, <1>4, <1>5, <2>6, <3>9, <3>15, Zenon DEF StreamOk
        <3>17. InStream'
            <4>1. /\ client'[conn'].replstate \in {"NONE", "WAIT_BGSAVE_END", "ONLINE"}
                  /\ client'[conn'].replstate = "WAIT_BGSAVE_END" => ~child'.running
                BY <1>2, <1>4, <2>2, <2>6, Zenon
            <4>2. master'.replid <= replid' /\ master'.reploff >= 0
                BY <1>2, <1>7, <2>6, <3>15
            <4> QED BY <3>14, <3>15, <3>16, <4>1, <4>2 DEF InStream
        <3>18. Advances
            BY <1>7, <3>9 DEF Advances
        <3> QED BY <1>6, <3>2, <3>8, <3>11, <3>12, <3>13, <3>17, <3>18 DEF PhaseInv
    <2>7. \/ /\ pipe[1] = [type |-> "MERGE_START"]
             /\ SnapshotAt(Tail(pipe), lastGot, replid, written, offset, backlog, st, n, child)
          \/ \E u \in 0..written :
                /\ pipe[1] = Merge(u)
                /\ \A h \in Nat : h >= lastGot /\ h >= u =>
                      SnapshotAt(Tail(pipe), h, replid, written, offset, backlog, st, n, child)
          \/ \E id \in 0..replid, f \in 0..offset :
                /\ pipe[1] = MergeEnd(id, f)
                /\ \A i \in 2..Len(pipe) : pipe[i] = Eof
                /\ Behind(id, 0, lastGot, replid, written, offset, backlog)
                /\ ~(st = "WAIT_BGSAVE_END" /\ child.running)
                /\ StreamAt(id, f, Tail(pipe), lastGot, replid, written, offset, backlog, st, n)
        BY <1>5, <1>6, <1>7, <2>2, SnapshotPop, Zenon
    <2> QED BY <2>4, <2>5, <2>6, <2>7, Zenon
<1> QED BY <1>3, <1>8, <1>9

-----------------------------------------------------------------------------
(***************************************************************************)
(* A stream that the master continues, or sends from its buffer.           *)
(***************************************************************************)

\* The output buffer ws of the client is sent (replconfCommand, ack-vc).
LEMMA StreamFlush ==
    ASSUME NEW id \in Int, NEW off \in Int, NEW p \in Seq(DownMsg), NEW g \in Nat,
           NEW r \in Nat, NEW w \in Nat, NEW o \in Nat, NEW b, NEW st, NEW ws \in Seq(Nat),
           NEW n \in Nat, n = Len(ws),
           StreamAt(id, off, p, g, r, w, o, b, st, n), st # "NONE",
           LastWrites(ws, w)
    PROVE  StreamAt(id, off, p \o Commands(ws), g, r, w, o, b, st, 0)
<1> DEFINE q == p \o Commands(ws)
<1>1. PICK a \in 0..g : StreamAt(id, off, p, g, r, w, o, b, st, n)!(a)
    BY DEF StreamAt
<1>2. /\ Len(p) \in Nat
      /\ Commands(ws) \in Seq(DownMsg) /\ Len(Commands(ws)) = n
      /\ \A i \in 1..n : Commands(ws)[i] = Command(ws[i])
    BY LenProperties, CommandsFacts
<1>3. /\ Len(q) = Len(p) + n
      /\ \A i \in 1..(Len(p) + n) : q[i] = IF i <= Len(p) THEN p[i] ELSE Commands(ws)[i - Len(p)]
    <2>1. /\ Len(q) = Len(p) + Len(Commands(ws))
          /\ \A i \in 1..(Len(p) + Len(Commands(ws))) :
                q[i] = IF i <= Len(p) THEN p[i] ELSE Commands(ws)[i - Len(p)]
        BY <1>2, ConcatProperties, Zenon
    <2>2. Len(Commands(ws)) = n
        BY <1>2
    <2> QED BY <2>1, <2>2, Zenon
<1>4. \A i \in 1..(Len(p) + n) : i > Len(p) => q[i] = Command(a + i) /\ a + i <= w
    <2> SUFFICES ASSUME NEW i \in 1..(Len(p) + n), i > Len(p)
                 PROVE  q[i] = Command(a + i) /\ a + i <= w
        BY Zenon
    <2>1. i - Len(p) \in 1..n
        BY <1>2
    <2>2. q[i] = Command(ws[i - Len(p)])
        <3>1. q[i] = Commands(ws)[i - Len(p)] /\ ~(i <= Len(p))
            <4>1. ~(i <= Len(p))
                BY <1>2
            <4> QED BY <1>3, <4>1, Zenon
        <3>2. Commands(ws)[i - Len(p)] = Command(ws[i - Len(p)])
            BY <1>2, <2>1, Zenon
        <3> QED BY <3>1, <3>2
    <2>3. ws[i - Len(p)] = a + i /\ a + i <= w
        <3>1. ws[i - Len(p)] = w - n + (i - Len(p))
            BY <2>1, SMTT(20) DEF LastWrites
        <3>2. a + Len(p) + n = w
            BY <1>1 DEF Abreast
        <3>3. Len(p) \in Int /\ n \in Int /\ i <= Len(p) + n
            BY <1>2
        <3>4. w - n + (i - Len(p)) = a + i /\ a + i <= w
            BY <3>2, <3>3, SMTT(20)
        <3> QED BY <3>1, <3>4
    <2> QED BY <2>2, <2>3
<1>5. Stretch(q, a, w)
    BY <1>1, <1>2, <1>3, <1>4, SMTT(20) DEF Stretch
<1>6. \A x : Command(x) # Eof
    BY DEF Command, Eof
<1>7. NoEof(q)
    <2>1. \A i \in 1..Len(p) : p[i] # Eof
        BY <1>1 DEF Abreast, NoEof
    <2> SUFFICES ASSUME NEW i \in 1..(Len(p) + n)
                 PROVE  q[i] # Eof
        BY <1>3, Zenon DEF NoEof
    <2>2. CASE i <= Len(p)
        BY <1>2, <1>3, <2>1, <2>2
    <2>3. CASE i > Len(p)
        BY <1>4, <1>6, <2>3, Zenon
    <2> QED BY <1>2, <2>2, <2>3
<1>8. Abreast(id, off, q, a, r, w, o, 0)
    BY <1>1, <1>2, <1>3, <1>7 DEF Abreast
<1> QED BY <1>1, <1>5, <1>8 DEF StreamAt

\* The master continues the stream from its backlog (crdtPsyncCommand).
LEMMA StreamStart ==
    ASSUME NEW off \in Int, NEW g \in Nat, NEW r \in Nat, NEW w \in Nat, NEW o \in Nat,
           NEW b \in Seq(Nat), NEW st, b # NoBacklog, LastWrites(b, w),
           Behind(r, off, g, r, w, o, b),
           NEW s \in Int, s = off + 1 - (o - Len(b) + 1) + 1,
           off + 1 \in (o - Len(b) + 1)..(o + 1)
    PROVE  /\ SubSeq(b, s, Len(b)) \in Seq(Nat)
           /\ StreamAt(r, off, Commands(SubSeq(b, s, Len(b))), g, r, w, o, b, st, 0)
<1> DEFINE ws == SubSeq(b, s, Len(b))
           a == w - o + off
<1>1. Len(b) \in Nat /\ \A i \in 1..Len(b) : b[i] \in Nat
    BY LenProperties, ElementOfSeq
<1>2. s \in 1..(Len(b) + 1)
    BY <1>1
<1>3. \A i \in s..Len(b) : b[i] \in Nat
    BY <1>1, <1>2
<1>4. /\ ws \in Seq(Nat)
      /\ Len(ws) = o - off
      /\ \A i \in 1..(Len(b) - s + 1) : ws[i] = b[s + i - 1]
    BY <1>1, <1>2, <1>3, SubSeqProperties
<1>5. a \in 0..g
    BY <1>1 DEF Behind, LastWrites
<1>6. ASSUME NEW i \in 1..Len(ws)
      PROVE  Commands(ws)[i] = Command(a + i) /\ a + i <= w
    <2>1. s + i - 1 \in 1..Len(b) /\ i \in 1..(Len(b) - s + 1)
        BY <1>1, <1>2, <1>4
    <2>2. ws[i] = a + i
        BY <1>1, <1>4, <2>1 DEF LastWrites
    <2>3. Commands(ws)[i] = Command(ws[i])
        BY <1>4, CommandsFacts, Zenon
    <2> QED BY <1>1, <1>4, <2>1, <2>2, <2>3
<1>7. Len(Commands(ws)) = Len(ws)
    BY <1>4, CommandsFacts, Zenon
<1>8. Stretch(Commands(ws), a, w)
    BY <1>6, <1>7 DEF Stretch
<1>9. NoEof(Commands(ws))
    <2>1. \A x : Command(x) # Eof
        BY DEF Command, Eof
    <2> QED BY <1>6, <1>7, <2>1, Zenon DEF NoEof
<1>10. Abreast(r, off, Commands(ws), a, r, w, o, 0)
    <2>1. Len(Commands(ws)) = o - off
        BY <1>4, <1>7, Zenon
    <2> HIDE DEF ws
    <2> QED BY <1>9, <2>1 DEF Abreast
<1>11. Behind(r, off, a, r, w, o, b)
    BY DEF Behind
<1> QED BY <1>4, <1>5, <1>8, <1>10, <1>11 DEF StreamAt

-----------------------------------------------------------------------------
(***************************************************************************)
(* The master takes a PSYNC request or an acknowledgement.                 *)
(***************************************************************************)

\* One client that is not in the care of the child, and has nothing to wait
\* for in its output buffer.
LEMMA ClientStep ==
    ASSUME TypeInv, MasterInv, NEW c \in Conns, UNCHANGED <<written, child, ends, conn>>,
           backlog' # NoBacklog, LastWrites(backlog', written),
           client[c].replstate # "WAIT_BGSAVE_END",
           client'[c].replstate \in {"ONLINE", "WAIT_BGSAVE_START"},
           ~client'[c].put_online_on_ack, client'[c].reply = <<>>,
           \A d \in Conns : d # c => client'[d] = client[d]
    PROVE  MasterInv'
<1>1. LastWrites(<<>>, written)
    BY NoWrites, Zenon DEF TypeInv
<1>2. child.running => child # NoChild /\ child.conns \subseteq Conns
    BY Zenon DEF MasterInv, TypeInv, Child
<1>3. child.running => \A d \in child.conns :
         "slave" \in ends[d] => client'[d].replstate = "WAIT_BGSAVE_END"
    BY <1>2, Zenon DEF MasterInv
<1>4. \A d \in Conns : Writable(d)' => client'[d].reply = <<>>
    BY DEF MasterInv, Writable
<1>5. \A d \in Conns :
         /\ client'[d].replstate \in {"NONE", "WAIT_BGSAVE_START"} => client'[d].reply = <<>>
         /\ client'[d].replstate \in {"NONE", "WAIT_BGSAVE_START", "WAIT_BGSAVE_END"}
               => ~client'[d].put_online_on_ack
         /\ LastWrites(client'[d].reply, written)
         /\ client'[d].replstate = "WAIT_BGSAVE_END" => child # NoChild /\ d \in child.conns
    BY <1>1, Zenon DEF MasterInv
<1> QED BY <1>2, <1>3, <1>4, <1>5, Zenon DEF MasterInv

\* CRDT.PSYNC, answered by the rest of the stream.
LEMMA ContinueStep ==
    ASSUME IndInv, NEW c \in Conns, crdtPsyncCommand(c), CanContinue(Head(up[c]))
    PROVE  IndInv'
<1> USE DEF IndInv
<1> DEFINE s == Head(up[c]).offset - backlog_off + 1
           rest == Commands(SubSeq(backlog, s, Len(backlog)))
           first == [type |-> "CONTINUE", replid |-> replid]
<1>1. /\ Takes(c, "PSYNC")
      /\ client' = [client EXCEPT ![c].replstate = "ONLINE"]
      /\ SendTo(c, <<first>> \o rest)
      /\ UNCHANGED <<replid, backlog, written, offset, child, ends, slaveVars, faults>>
    BY DEF crdtPsyncCommand
<1>2. /\ UNCHANGED <<repl_state, round, conn, cached, master, querybuf, held, got>>
      /\ lastGot' = lastGot
    BY <1>1 DEF slaveVars, lastGot
<1>3. /\ up' \in [Conns -> Seq(UpMsg)] /\ "master" \in ends[c]
      /\ \A d \in Conns : d # c => up'[d] = up[d]
      /\ Len(up[c]) \in Nat \ {0} /\ Head(up[c]) = up[c][1] /\ up[c][1].type = "PSYNC"
      /\ Len(up[c]) = 1 => up'[c] = <<>>
    BY <1>1, TakesFacts
<1>4. Len(up[c]) = 1 /\ client[c] = NewClient /\ up'[c] = <<>>
    <2>1. 1 \in 1..Len(up[c])
        BY <1>3
    <2> QED BY <1>3, <2>1 DEF WireInv
<1>5. /\ client'[c] = [NewClient EXCEPT !.replstate = "ONLINE"]
      /\ \A d \in Conns : d # c => client'[d] = client[d]
    BY <1>1, <1>4 DEF TypeInv
<1>6. /\ client'[c].replstate = "ONLINE" /\ ~client'[c].put_online_on_ack
      /\ client'[c].reply = <<>> /\ client[c].replstate = "NONE"
      /\ client' \in [Conns -> Client]
    <2>1. [NewClient EXCEPT !.replstate = "ONLINE"] \in Client
        <3>1. <<>> \in Seq(Nat)
            BY EmptySeq
        <3> QED BY <3>1, Zenon DEF NewClient, Client, States
    <2>2. client \in [Conns -> Client]
        BY DEF TypeInv
    <2> QED BY <1>1, <1>4, <1>5, <2>1, <2>2 DEF NewClient
<1>7. /\ backlog # NoBacklog /\ Head(up[c]).replid = replid
      /\ Head(up[c]).offset \in (offset - Len(backlog) + 1)..(offset + 1)
    BY DEF CanContinue, backlog_off
<1>8. /\ backlog \in Seq(Nat) /\ Len(backlog) \in Nat /\ offset \in Nat /\ written \in Nat
      /\ replid \in Nat /\ lastGot \in Nat /\ LastWrites(backlog, written)
    <2>1. backlog \in Seq(Nat)
        BY <1>7, Zenon DEF TypeInv
    <2>2. Len(backlog) \in Nat
        BY <2>1, LenProperties, Zenon
    <2>3. offset \in Nat /\ written \in Nat /\ replid \in Nat /\ lastGot \in Nat
        <3>1. \A x : \A y \in 0..x : y \in Nat
            OBVIOUS
        <3> QED BY <3>1, Zenon DEF TypeInv
    <2>4. LastWrites(backlog, written)
        BY <1>7, Zenon DEF MasterInv
    <2> QED BY <2>1, <2>2, <2>3, <2>4, Zenon
<1>9. rest \in Seq(DownMsg) /\ first \in DownMsg
    <2>1. s \in 1..(Len(backlog) + 1)
        BY <1>7, <1>8 DEF backlog_off
    <2>2. \A i \in s..Len(backlog) : backlog[i] \in Nat
        BY <1>8, <2>1, ElementOfSeq
    <2>3. SubSeq(backlog, s, Len(backlog)) \in Seq(Nat)
        BY <1>8, <2>1, <2>2, SubSeqProperties
    <2> QED BY <1>8, <2>3, CommandsFacts, Zenon DEF DownMsg
<1>10. /\ <<first>> \in Seq(DownMsg) /\ <<first>> # <<>>
       /\ <<first>> \o rest \in Seq(DownMsg) /\ <<first>> \o rest # <<>>
       /\ (<<first>> \o rest)[1] = first
       /\ Tail(<<first>> \o rest) = rest
    BY <1>9, FirstMessage, Zenon
<1> HIDE DEF s, rest, first
<1>11. /\ down' \in [Conns -> Seq(DownMsg)]
       /\ \A d \in Conns : /\ d # c => down'[d] = down[d]
                           /\ "slave" \notin ends[d] => down'[d] = <<>>
       /\ "slave" \in ends[c] => down'[c] = down[c] \o (<<first>> \o rest)
    BY <1>1, <1>10, SendToFacts, Zenon
<1>12. TypeInv'
    BY <1>1, <1>2, <1>3, <1>6, <1>11, Zenon DEF TypeInv
<1>13. WireInv'
    BY <1>1, <1>5, <1>11, TakesWires
<1>14. MasterInv'
    BY <1>1, <1>2, <1>5, <1>6, <1>7, <1>8, ClientStep, Zenon
<1>15. CacheInv'
    BY <1>1, <1>2, CacheFrame
<1>16. CASE c # conn \/ repl_state = "CONNECT"
    <2>1. conn \in Conns \/ repl_state = "CONNECT"
        BY DEF WireInv
    <2> QED BY <1>1, <1>3, <1>5, <1>11, <1>12, <1>13, <1>14, <1>15, <1>16, <2>1, PhaseFrame
<1>17. CASE c = conn /\ repl_state # "CONNECT"
    <2>1. repl_state = "RECEIVE_PSYNC" /\ Asked /\ querybuf = <<>>
        BY <1>1, <1>17, TakesPhase
    <2>2. Head(up[c]).replid = cached.replid /\ Head(up[c]).offset = cached.reploff + 1
        <3>1. up[c] = <<PsyncRequest>>
            BY <1>17, <2>1 DEF Asked
        <3>2. Head(up[c]) = PsyncRequest
            BY <3>1
        <3> QED BY <3>2 DEF PsyncRequest
    <2>3. down'[conn] = <<first>> \o rest
        <3>1. down[conn] = <<>> /\ "slave" \in ends[c]
            BY <1>17, <2>1, Zenon DEF Asked, WireInv
        <3>2. <<>> \o (<<first>> \o rest) = <<first>> \o rest
            BY <1>10, ConcatEmptySeq
        <3> QED BY <1>11, <1>17, <3>1, <3>2
    <2>4. cached.reploff \in Int /\ cached.replid = replid
        BY <1>7, <2>2, SMTT(20) DEF TypeInv
    <2>5. s = cached.reploff + 1 - (offset - Len(backlog) + 1) + 1 /\ s \in Int
        BY <1>8, <2>2, <2>4 DEF s, backlog_off
    <2>6. Behind(replid, cached.reploff, lastGot, replid, written, offset, backlog)
        BY <2>4 DEF CacheInv
    <2>7. cached.reploff + 1 \in (offset - Len(backlog) + 1)..(offset + 1)
        BY <1>7, <2>2
    <2>8. StreamAt(replid, cached.reploff, rest, lastGot, replid, written, offset, backlog,
                   "ONLINE", 0)
        BY <1>7, <1>8, <2>4, <2>5, <2>6, <2>7, StreamStart, Zenon DEF rest
    <2>9. Len(client'[conn].reply) = 0
        BY <1>6, <1>17, EmptySeq
    <2>10. StreamOk(cached.replid, cached.reploff, Tail(down[conn]))'
        BY <1>1, <1>2, <1>6, <1>10, <1>17, <2>3, <2>4, <2>8, <2>9, Zenon DEF StreamOk
    <2>11. Head(down'[conn]) = first
        <3>1. Head(<<first>> \o rest) = (<<first>> \o rest)[1]
            BY <1>10, HeadTailProperties
        <3> QED BY <1>10, <2>3, <3>1
    <2>12. Continues'
        BY <1>2, <1>4, <1>6, <1>10, <1>17, <2>3, <2>4, <2>10, <2>11, Zenon DEF Continues, Writable, first
    <2>13. PhaseInv'
        BY <1>2, <2>1, <2>12 DEF PhaseInv, InPsync
    <2> QED BY <1>12, <1>13, <1>14, <1>15, <2>13
<1> QED BY <1>16, <1>17

\* CRDT.PSYNC, and the slave has to wait for a snapshot.
LEMMA RefullStep ==
    ASSUME IndInv, NEW c \in Conns, crdtPsyncCommand(c), ~CanContinue(Head(up[c]))
    PROVE  IndInv'
<1> USE DEF IndInv
<1>1. /\ Takes(c, "PSYNC")
      /\ client' = [client EXCEPT ![c].replstate = "WAIT_BGSAVE_START"]
      /\ IF backlog = NoBacklog
         THEN backlog' = <<>> /\ replid' = IF slaves = {} THEN replid + 1 ELSE replid
         ELSE UNCHANGED <<backlog, replid>>
      /\ UNCHANGED <<down, written, offset, child, ends, slaveVars, faults>>
    BY DEF crdtPsyncCommand, refullSyncWithSlaves
<1>2. /\ UNCHANGED <<repl_state, round, conn, cached, master, querybuf, held, got>>
      /\ lastGot' = lastGot
    BY <1>1 DEF slaveVars, lastGot
<1>3. /\ up' \in [Conns -> Seq(UpMsg)] /\ "master" \in ends[c]
      /\ \A d \in Conns : d # c => up'[d] = up[d]
      /\ Len(up[c]) \in Nat \ {0} /\ up[c][1].type = "PSYNC"
      /\ Len(up[c]) = 1 => up'[c] = <<>>
    BY <1>1, TakesFacts
<1>4. Len(up[c]) = 1 /\ client[c] = NewClient /\ up'[c] = <<>>
    <2>1. 1 \in 1..Len(up[c])
        BY <1>3
    <2> QED BY <1>3, <2>1, Zenon DEF WireInv
<1>5. /\ client'[c] = [NewClient EXCEPT !.replstate = "WAIT_BGSAVE_START"]
      /\ \A d \in Conns : d # c => client'[d] = client[d]
    BY <1>1, <1>4 DEF TypeInv
<1>6. /\ client'[c].replstate = "WAIT_BGSAVE_START" /\ ~client'[c].put_online_on_ack
      /\ client'[c].reply = <<>> /\ client[c].replstate = "NONE"
      /\ client' \in [Conns -> Client]
    <2>1. [NewClient EXCEPT !.replstate = "WAIT_BGSAVE_START"] \in Client
        <3>1. <<>> \in Seq(Nat)
            BY EmptySeq
        <3> QED BY <3>1, Zenon DEF NewClient, Client, States
    <2>2. client \in [Conns -> Client]
        BY DEF TypeInv
    <2> QED BY <1>1, <1>4, <1>5, <2>1, <2>2 DEF NewClient
<1>7. \/ backlog = NoBacklog /\ backlog' = <<>> /\ replid' = replid + 1 /\ slaves = {}
      \/ backlog # NoBacklog /\ backlog' = backlog /\ replid' = replid
    BY <1>1 DEF MasterInv
<1>8. replid \in Nat /\ written \in Nat /\ backlog \in Seq(Nat) /\ held \subseteq 0..replid
      /\ <<>> \in Seq(Nat)
    BY EmptySeq DEF TypeInv
<1>9. replid' \in Nat /\ replid' >= replid /\ backlog' \in Seq(Nat) /\ held \subseteq 0..replid'
    <2>1. CASE replid' = replid
        BY <1>7, <1>8, <2>1
    <2>2. CASE replid' = replid + 1
        <3>1. replid + 1 \in Nat /\ replid + 1 >= replid /\ 0..replid \subseteq 0..(replid + 1)
            BY <1>8
        <3> QED BY <1>7, <1>8, <2>2, <3>1, Zenon
    <2> QED BY <1>7, <2>1, <2>2
<1>10. TypeInv'
    BY <1>1, <1>2, <1>3, <1>6, <1>9, Zenon DEF TypeInv
<1>11. WireInv'
    <2>1. \A d \in Conns : "slave" \notin ends[d] => down'[d] = <<>>
        BY <1>1 DEF WireInv
    <2> QED BY <1>1, <1>5, <2>1, TakesWires
<1>12. backlog' # NoBacklog /\ LastWrites(backlog', written)
    <2>1. <<>> # NoBacklog
        <3>1. Len(<<>>) = 0 /\ Len(NoBacklog) = 1
            BY EmptySeq DEF NoBacklog
        <3> QED BY <3>1
    <2>2. LastWrites(<<>>, written)
        BY <1>8, EmptySeq DEF LastWrites
    <2> QED BY <1>7, <2>1, <2>2, Zenon DEF MasterInv
<1>13. MasterInv'
    BY <1>1, <1>2, <1>5, <1>6, <1>12, ClientStep, Zenon
<1>14. CacheInv'
    BY <1>1, <1>2, <1>7, CacheFrame, RenewCache
<1>15. PhaseInv'
    <2>1. CASE repl_state = "CONNECT"
        BY <1>2, <2>1 DEF PhaseInv
    <2>2. CASE repl_state # "CONNECT" /\ c # conn
        <3>1. conn \in Conns /\ up'[conn] = up[conn] /\ client'[conn] = client[conn]
            BY <1>3, <1>5, <2>2 DEF WireInv
        <3>2. CASE backlog # NoBacklog
            BY <1>1, <1>7, <2>2, <3>1, <3>2, PhaseFrame
        <3>3. CASE backlog = NoBacklog
            <4>1. StreamMoves(<<>>) /\ SnapshotMoves(<<>>)
                BY <1>1, <1>7, <3>1, <3>3, RenewMoves
            <4> QED BY <1>1, <1>9, <2>2, <3>1, <4>1, QuietPhase
        <3> QED BY <3>2, <3>3
    <2>3. CASE repl_state # "CONNECT" /\ c = conn
        <3>1. repl_state = "RECEIVE_PSYNC" /\ Asked /\ querybuf = <<>>
            BY <1>1, <2>3, TakesPhase
        <3>2. Waits'
            BY <1>1, <1>2, <1>4, <1>6, <2>3, <3>1 DEF Asked, Waits
        <3> QED BY <1>2, <3>1, <3>2 DEF PhaseInv, InPsync
    <2> QED BY <2>1, <2>2, <2>3
<1> QED BY <1>10, <1>11, <1>13, <1>14, <1>15

\* The master answers PSYNC: it continues the stream, or lets the slave wait
\* for a snapshot.
LEMMA PsyncStep == \A c \in Conns : IndInv /\ crdtPsyncCommand(c) => IndInv'
BY ContinueStep, RefullStep

=============================================================================
