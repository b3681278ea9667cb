--------------------------- MODULE PeerLinkProofs ---------------------------
(***************************************************************************)
(* The link between two sites counts right and loses nothing, for any      *)
(* number of writes, faults and connections: every step preserves the      *)
(* invariant of PeerLinkInv (an acknowledgement, a snapshot and a write    *)
(* here, the others in PeerLinkInv and PeerLinkSteps), so OffsetExact is   *)
(* an invariant of PeerLink, and PeerLink implements PeerStream.           *)
(***************************************************************************)
EXTENDS PeerLinkSteps

-----------------------------------------------------------------------------
(***************************************************************************)
(* The acknowledgements of the slave.                                      *)
(***************************************************************************)

\* replconfCommand, ack-vc.
LEMMA AcknowledgeStep == \A c \in Conns : IndInv /\ Acknowledge(c) => IndInv'
<1> SUFFICES ASSUME NEW c \in Conns, IndInv, Acknowledge(c) PROVE IndInv'
    OBVIOUS
<1> USE DEF IndInv
<1>1. Takes(c, "ACK") /\ UNCHANGED <<written, replid, offset, backlog, child, ends, slaveVars, faults>>
    BY DEF Acknowledge
<1>2. /\ UNCHANGED <<repl_state, round, conn, cached, master, querybuf, held, got>>
      /\ lastGot' = lastGot
    BY <1>1 DEF slaveVars, lastGot
<1>3. /\ up' \in [Conns -> Seq(UpMsg)] /\ \A d \in Conns : d # c => up'[d] = up[d]
      /\ Len(up[c]) \in Nat \ {0} /\ Len(up'[c]) = Len(up[c]) - 1
      /\ \A i \in 1..(Len(up[c]) - 1) : up'[c][i] = up[c][i + 1]
    BY <1>1, TakesFacts
<1>4. (\A i \in 1..Len(up[c]) : up[c][i].type = "ACK") =>
          \A i \in 1..Len(up'[c]) : up'[c][i].type = "ACK"
    <2> SUFFICES ASSUME \A i \in 1..Len(up[c]) : up[c][i].type = "ACK", NEW i \in 1..Len(up'[c])
                 PROVE  up'[c][i].type = "ACK"
        OBVIOUS
    <2>1. PICK n \in Nat \ {0} : n = Len(up[c]) /\ Len(up'[c]) = n - 1
        BY <1>3
    <2>2. i \in 1..(n - 1)
        BY <2>1, Zenon
    <2>3. i + 1 \in 1..n
        BY <2>2
    <2> QED BY <1>3, <2>1, <2>2, <2>3
<1>5. CacheInv'
    BY <1>1, <1>2, CacheFrame
<1>6. conn' = conn /\ conn \in Nat
    BY <1>2, ConstantsAssumption DEF TypeInv
<1>7. CASE client[c].put_online_on_ack /\ client[c].replstate = "ONLINE"
    <2> DEFINE ws == client[c].reply
    <2>1. /\ client' = [client EXCEPT ![c].put_online_on_ack = FALSE, ![c].reply = <<>>]
          /\ SendTo(c, Commands(ws))
        BY <1>7, Zenon DEF Acknowledge
    <2>2. /\ client \in [Conns -> Client] /\ client[c] \in Client /\ ws \in Seq(Nat)
          /\ LastWrites(ws, written) /\ <<>> \in Seq(Nat) /\ Len(ws) \in Nat
        BY EmptySeq, LenProperties, SMTT(20) DEF TypeInv, MasterInv, Client
    <2>3. /\ client' \in [Conns -> Client]
          /\ client'[c].replstate = "ONLINE" /\ ~client'[c].put_online_on_ack
          /\ client'[c].reply = <<>> /\ \A d \in Conns : d # c => client'[d] = client[d]
        BY <1>7, <2>1, <2>2, Zenon DEF Client
    <2>4. Commands(ws) \in Seq(DownMsg)
        BY <2>2, CommandsFacts
    <2>5. /\ down' \in [Conns -> Seq(DownMsg)]
          /\ \A d \in Conns : /\ d # c => down'[d] = down[d]
                              /\ "slave" \notin ends[d] => down'[d] = <<>>
          /\ "slave" \in ends[c] => down'[c] = down[c] \o Commands(ws)
        BY <2>1, <2>4, SendToFacts, Zenon
    <2>6. TypeInv'
        <3>1. /\ client' \in [Conns -> Client]
              /\ down' \in [Conns -> Seq(DownMsg)] /\ up' \in [Conns -> Seq(UpMsg)]
            BY <1>3, <2>3, <2>5
        <3> QED BY <1>1, <1>2, <3>1 DEF TypeInv
    <2>7. WireInv'
        BY <1>1, <2>3, <2>5, TakesWires
    <2>8. MasterInv'
        <3>1. slaves # {}
            BY <1>7 DEF slaves
        <3>2. backlog' # NoBacklog /\ LastWrites(backlog', written)
            BY <1>1, <3>1 DEF MasterInv
        <3> QED BY <1>1, <1>2, <1>7, <2>3, <3>2, ClientStep
    <2>9. CASE c # conn \/ repl_state = "CONNECT"
        <3>1. conn \in Conns \/ repl_state = "CONNECT"
            BY DEF WireInv
        <3> QED BY <1>1, <1>3, <1>5, <2>3, <2>5, <2>6, <2>7, <2>8, <2>9, <3>1, PhaseFrame
    <2>10. CASE c = conn /\ repl_state # "CONNECT"
        <3>1. repl_state = "CONNECTED" /\ InStream
            BY <1>1, <2>10, TakesPhase
        <3>2. /\ querybuf \in Seq(DownMsg) /\ down[conn] \in Seq(DownMsg) /\ "slave" \in ends[conn]
              /\ lastGot \in Nat /\ replid \in Nat /\ written \in Nat /\ offset \in Nat
              /\ master.replid \in Int /\ master.reploff \in Int
            BY <2>10 DEF TypeInv, WireInv
        <3>3. pipe \in Seq(DownMsg) /\ pipe' = pipe \o Commands(ws)
            <4>1. querybuf \o (down[conn] \o Commands(ws)) = (querybuf \o down[conn]) \o Commands(ws)
                  /\ querybuf \o down[conn] \in Seq(DownMsg)
                BY <2>4, <3>2, PipeGrows, ZenonT(30)
            <4> QED BY <1>2, <2>5, <2>10, <3>2, <4>1, Zenon DEF pipe
        <3>4. StreamAt(master.replid, master.reploff, pipe, lastGot, replid, written, offset,
                       backlog, "ONLINE", Len(ws))
            BY <1>7, <2>10, <3>1 DEF InStream, StreamOk
        <3>5. StreamAt(master.replid, master.reploff, pipe \o Commands(ws), lastGot, replid, written,
                       offset, backlog, "ONLINE", 0)
            BY <2>2, <3>2, <3>3, <3>4, StreamFlush, Zenon
        <3>6. Len(client'[conn].reply) = 0
            BY <2>3, <2>10, EmptySeq
        <3>7. StreamOk(master.replid, master.reploff, pipe)'
            BY <1>1, <1>2, <2>3, <2>10, <3>3, <3>5, <3>6 DEF StreamOk
        <3>8. InStream'
            BY <1>1, <1>2, <1>4, <2>3, <2>10, <3>1, <3>7 DEF InStream
        <3>9. PhaseInv'
            BY <1>2, <3>1, <3>8 DEF PhaseInv
        <3> QED BY <1>5, <2>6, <2>7, <2>8, <3>9
    <2> QED BY <2>9, <2>10
<1>8. CASE ~(client[c].put_online_on_ack /\ client[c].replstate = "ONLINE")
    <2>1. UNCHANGED <<client, down>>
        BY <1>8 DEF Acknowledge
    <2>2. TypeInv'
        BY <1>1, <1>2, <1>3, <2>1, SMTT(20) DEF TypeInv
    <2>3. \A d \in Conns : "slave" \notin ends[d] => down'[d] = <<>>
        BY <2>1 DEF WireInv
    <2>4. WireInv'
        BY <1>1, <2>1, <2>3, TakesWires
    <2>5. MasterInv'
        BY <1>1, <1>6, <2>1, MasterFrame DEF masterVars
    <2>6. CASE c # conn \/ repl_state = "CONNECT"
        <3>1. conn \in Conns \/ repl_state = "CONNECT"
            BY DEF WireInv
        <3> QED BY <1>1, <1>3, <1>5, <2>1, <2>2, <2>4, <2>5, <2>6, <3>1, PhaseFrame, SMTT(20)
    <2>7. CASE c = conn /\ repl_state # "CONNECT"
        <3>1. repl_state = "CONNECTED" /\ InStream
            BY <1>1, <2>7, TakesPhase
        <3>2. InStream'
            BY <1>1, <1>2, <1>4, <2>1, <2>7, <3>1 DEF InStream, StreamOk, pipe
        <3>3. PhaseInv'
            BY <1>2, <3>1, <3>2 DEF PhaseInv
        <3> QED BY <1>5, <2>2, <2>4, <2>5, <3>3
    <2> QED BY <2>6, <2>7
<1> QED BY <1>7, <1>8

-----------------------------------------------------------------------------
(***************************************************************************)
(* The snapshots of the master.                                            *)
(***************************************************************************)

\* A child is forked for a client that waits (startCrdtBgsaveForReplication2).
LEMMA SnapshotStart ==
    ASSUME NEW g, NEW r \in Nat, NEW w \in Nat, NEW o \in Nat, NEW b, NEW st, NEW ch,
           ch.written = w, ch.replid = r, ch.offset = o
    PROVE  SnapshotAt(<<>>, g, r, w, o, b, st, 0, ch)
<1>1. SnapshotPart(<<>>, w, r, o, g) /\ NoEof(<<>>)
    BY DEF SnapshotPart, NoEof
<1>2. Behind(r, o, w, r, w, o, b)
    BY DEF Behind
<1>3. Recent(<<>>, w, r, o, r, w, o, 0) /\ Unwritten(<<>>, w, r, o, ch)
    BY <1>1 DEF Recent, Unwritten
<1>4. w \in 0..w /\ r \in 0..r /\ o \in 0..o
    OBVIOUS
<1> QED BY <1>1, <1>2, <1>3, <1>4 DEF SnapshotAt

\* The child writes the snapshot (crdtRdbSaveRio).
LEMMA SnapshotWritten ==
    ASSUME NEW g \in Nat, NEW r \in Nat, NEW w \in Nat, NEW o \in Nat, NEW b, NEW n, NEW ch, NEW ch2,
           ch.running, ~ch2.running,
           SnapshotAt(<<>>, g, r, w, o, b, "WAIT_BGSAVE_END", n, ch)
    PROVE  /\ Snapshot(ch) \in Seq(DownMsg)
           /\ SnapshotAt(Snapshot(ch), g, r, w, o, b, "WAIT_BGSAVE_END", n, ch2)
<1>1. PICK u \in 0..w, id \in 0..r, f \in 0..o :
          SnapshotAt(<<>>, g, r, w, o, b, "WAIT_BGSAVE_END", n, ch)!(u, id, f)
    BY DEF SnapshotAt
<1>2. ch.written = u /\ ch.replid = id /\ ch.offset = f
    BY <1>1 DEF Unwritten
<1> DEFINE q == Snapshot(ch)
<1>3. /\ q \in Seq(DownMsg) /\ Len(q) = 3
      /\ q[1] = [type |-> "MERGE_START"] /\ q[2] = Merge(u) /\ q[3] = MergeEnd(id, f)
    BY <1>2, SnapshotFacts, SMTT(20)
<1> HIDE DEF q
<1>4. SnapshotPart(q, u, id, f, g)
    <2>1. \A i \in 1..Len(q) : i = 1 \/ i = 2 \/ i = 3
        BY <1>3
    <2>2. \A j \in (3 + 1)..Len(q) : q[j] = Eof
        BY <1>3
    <2>3. 2 \in 1..(3 - 1)
        OBVIOUS
    <2> QED BY <1>3, <2>1, <2>2, <2>3 DEF SnapshotPart
<1>5. NoEof(q)
    <2>1. \A i \in 1..Len(q) : i = 1 \/ i = 2 \/ i = 3
        BY <1>3
    <2>2. q[1] # Eof /\ q[2] # Eof /\ q[3] # Eof
        BY <1>3 DEF Eof, Merge, MergeEnd
    <2> QED BY <2>1, <2>2 DEF NoEof
<1>6. Recent(q, u, id, f, r, w, o, n)
    BY <1>1, <1>5 DEF Recent
<1> QED BY <1>1, <1>3, <1>4, <1>6 DEF SnapshotAt, q

\* A client that waits for a snapshot is one whose slave has got no answer.
LEMMA WaitsHere ==
    ASSUME IndInv, repl_state # "CONNECT", client[conn].replstate = "WAIT_BGSAVE_START"
    PROVE  repl_state = "RECEIVE_PSYNC" /\ Waits /\ querybuf = <<>>
<1> USE DEF IndInv
<1>1. client[conn] # NewClient
    BY DEF NewClient
<1>2. repl_state # "HANDSHAKE"
    BY <1>1 DEF PhaseInv, InHandshake
<1>3. repl_state # "TRANSFER" /\ ~Resyncs
    BY DEF PhaseInv, InTransfer, Resyncs, SnapshotOk
<1>4. repl_state # "CONNECTED"
    BY DEF PhaseInv, InStream
<1>5. repl_state = "RECEIVE_PSYNC"
    BY <1>2, <1>3, <1>4 DEF TypeInv
<1>6. ~Asked /\ ~Refused /\ ~Continues
    BY <1>1 DEF Asked, Refused, Continues, Writable
<1> QED BY <1>3, <1>5, <1>6 DEF PhaseInv, InPsync

\* A client that the child serves, or did, is past its first answer.
LEMMA ServedHere ==
    ASSUME IndInv, repl_state # "CONNECT", client[conn].replstate = "WAIT_BGSAVE_END"
    PROVE  repl_state # "HANDSHAKE" /\ ~Asked /\ ~Refused /\ ~Waits
<1>1. client[conn] # NewClient
    BY DEF NewClient
<1> QED BY <1>1 DEF IndInv, PhaseInv, InHandshake, Asked, Refused, Waits

\* The wires stay, and the clients that change are no new ones.
LEMMA ClientWires ==
    ASSUME WireInv, UNCHANGED <<ends, up, repl_state, conn>>,
           \A c \in Conns : "slave" \notin ends[c] => down'[c] = <<>>,
           \A c \in Conns : client[c] = NewClient => client'[c] = NewClient
    PROVE  WireInv'
BY DEF WireInv

\* The child starts: its clients get the answer with the offset of the snapshot.
LEMMA StartStep == IndInv /\ startCrdtBgsaveForReplication => IndInv'
<1> SUFFICES ASSUME IndInv, startCrdtBgsaveForReplication PROVE IndInv'
    OBVIOUS
<1> USE DEF IndInv
<1> DEFINE full == [type |-> "FULLRESYNC", replid |-> replid, offset |-> offset]
           ms == [c \in waiting |-> <<full>>]
<1>1. /\ child = NoChild
      /\ client' = [c \in Conns |->
                      IF c \in waiting
                      THEN [client[c] EXCEPT !.replstate = "WAIT_BGSAVE_END"] ELSE client[c]]
      /\ SendDown(ms) /\ DOMAIN ms = waiting /\ \A c \in waiting : ms[c] = <<full>>
      /\ child' = [running |-> TRUE, conns |-> waiting,
                   written |-> written, replid |-> replid, offset |-> offset]
      /\ UNCHANGED <<written, replid, offset, backlog, ends, up, slaveVars, faults>>
    BY DEF startCrdtBgsaveForReplication
<1> HIDE DEF ms
<1>2. /\ UNCHANGED <<repl_state, round, conn, cached, master, querybuf, held, got>>
      /\ lastGot' = lastGot
    BY <1>1 DEF slaveVars, lastGot
<1>3. full \in DownMsg /\ <<full>> \in Seq(DownMsg)
    BY DEF DownMsg, TypeInv
<1>4. /\ down' \in [Conns -> Seq(DownMsg)]
      /\ \A c \in Conns :
            /\ c \notin waiting => down'[c] = down[c]
            /\ "slave" \notin ends[c] => down'[c] = <<>>
            /\ c \in waiting /\ "slave" \in ends[c] => down'[c] = down[c] \o <<full>>
    <2>1. \A c \in Conns : c \in DOMAIN ms => ms[c] \in Seq(DownMsg)
        BY <1>1, <1>3, Zenon
    <2> QED BY <1>1, <2>1, SendDownFacts, Zenon
<1> HIDE DEF full
<1>5. waiting \subseteq Conns /\ \A c \in waiting : client[c].replstate = "WAIT_BGSAVE_START"
    BY DEF waiting
<1>6. \A c \in waiting :
         /\ client'[c].replstate = "WAIT_BGSAVE_END" /\ client'[c].reply = client[c].reply
         /\ client'[c].put_online_on_ack = client[c].put_online_on_ack /\ client'[c] \in Client
    <2> SUFFICES ASSUME NEW c \in waiting
                 PROVE  /\ client'[c].replstate = "WAIT_BGSAVE_END" /\ client'[c].reply = client[c].reply
                        /\ client'[c].put_online_on_ack = client[c].put_online_on_ack
                        /\ client'[c] \in Client
        BY Zenon
    <2>1. c \in Conns /\ client'[c] = [client[c] EXCEPT !.replstate = "WAIT_BGSAVE_END"]
        BY <1>1, <1>5, Zenon
    <2>2. client[c] \in Client
        BY <2>1, Zenon DEF TypeInv
    <2> QED BY <2>1, <2>2, Zenon DEF Client, States
<1>7. \A c \in Conns : c \notin waiting => client'[c] = client[c]
    BY <1>1
<1>8. child' \in Child /\ child' # NoChild /\ child'.conns = waiting
    <2>1. child' \in Child
        BY <1>1, <1>5 DEF Child, TypeInv
    <2>2. child'.running /\ ~NoChild.running
        BY <1>1 DEF NoChild
    <2> QED BY <1>1, <2>1, <2>2
<1>9. TypeInv'
    <2>1. client' \in [Conns -> Client]
        BY <1>1, <1>6, Zenon DEF TypeInv
    <2> QED BY <1>1, <1>2, <1>4, <1>8, <2>1 DEF TypeInv
<1>10. WireInv'
    <2>1. \A c \in Conns : client[c] = NewClient => client'[c] = NewClient
        BY <1>5, <1>7 DEF NewClient
    <2> QED BY <1>1, <1>2, <1>4, <2>1, ClientWires
<1>11. MasterInv'
    <2>1. slaves' = slaves
        BY <1>5, <1>6, <1>7 DEF slaves
    <2>2. \A c \in Conns :
             /\ client'[c].replstate \in {"NONE", "WAIT_BGSAVE_START"} => client'[c].reply = <<>>
             /\ client'[c].replstate \in {"NONE", "WAIT_BGSAVE_START", "WAIT_BGSAVE_END"}
                   => ~client'[c].put_online_on_ack
             /\ LastWrites(client'[c].reply, written)
        BY <1>5, <1>6, <1>7 DEF MasterInv
    <2>3. \A c \in Conns : Writable(c)' => client'[c].reply = <<>>
        BY <1>6, <1>7 DEF MasterInv, Writable
    <2>4. \A c \in Conns : client'[c].replstate = "WAIT_BGSAVE_END" => c \in waiting
        BY <1>1, <1>7 DEF MasterInv
    <2>5. \A c \in waiting : c <= conn
        <3> SUFFICES ASSUME NEW c \in waiting PROVE c <= conn
            OBVIOUS
        <3>1. c \in Conns /\ ends[c] # {}
            BY <1>5 DEF WireInv, NewClient
        <3>2. ~(c > conn)
            BY <3>1 DEF WireInv
        <3>3. c \in Nat /\ conn \in Nat
            BY <3>1, ConstantsAssumption DEF TypeInv, Conns
        <3> QED BY <3>2, <3>3
    <2> QED BY <1>1, <1>2, <1>6, <1>8, <2>1, <2>2, <2>3, <2>4, <2>5, Zenon DEF MasterInv
<1>12. CacheInv'
    BY <1>1, <1>2, CacheFrame
<1>13. PhaseInv'
    <2>1. CASE repl_state = "CONNECT"
        BY <1>2, <2>1 DEF PhaseInv
    <2>2. CASE repl_state # "CONNECT" /\ conn \notin waiting
        <3>1. /\ conn \in Conns /\ down'[conn] = down[conn] /\ client'[conn] = client[conn]
            BY <1>4, <1>7, <2>2 DEF WireInv
        <3>2. client[conn].replstate # "WAIT_BGSAVE_END"
            BY <1>1, <3>1 DEF MasterInv
        <3>3. StreamMoves(<<>>) /\ SnapshotMoves(<<>>)
            BY <1>1, <3>1, <3>2, StayMoves
        <3>4. replid' \in Nat /\ replid' >= replid
            BY <1>1 DEF TypeInv
        <3> QED BY <1>1, <2>2, <3>1, <3>3, <3>4, QuietPhase
    <2>3. CASE repl_state # "CONNECT" /\ conn \in waiting
        <3>1. repl_state = "RECEIVE_PSYNC" /\ Waits /\ querybuf = <<>>
            BY <1>5, <2>3, WaitsHere
        <3>2. /\ conn \in Conns /\ "slave" \in ends[conn] /\ down[conn] = <<>> /\ up'[conn] = <<>>
              /\ client[conn].reply = <<>>
            BY <1>1, <1>5, <2>3, <3>1 DEF WireInv, Waits, MasterInv
        <3>3. down'[conn] = <<full>>
            <4>1. <<>> \o <<full>> = <<full>>
                BY <1>3, ConcatEmptySeq
            <4> QED BY <1>4, <2>3, <3>2, <4>1
        <3>4. /\ down'[conn] # <<>> /\ Head(down'[conn]).type = "FULLRESYNC"
              /\ Tail(down'[conn]) = <<>>
            <4>1. <<full>> # <<>> /\ Head(<<full>>) = full /\ Tail(<<full>>) = <<>>
                BY <1>3
            <4> QED BY <3>3, <4>1 DEF full
        <3>5. SnapshotAt(<<>>, lastGot, replid, written, offset, backlog, "WAIT_BGSAVE_END", 0, child')
            <4>1. child'.written = written /\ child'.replid = replid /\ child'.offset = offset
                BY <1>1
            <4> QED BY <4>1, SnapshotStart DEF TypeInv
        <3>6. /\ client'[conn].replstate = "WAIT_BGSAVE_END" /\ Len(client'[conn].reply) = 0
            BY <1>6, <2>3, <3>2, EmptySeq
        <3>7. SnapshotOk(Tail(down[conn]))'
            BY <1>1, <1>2, <3>4, <3>5, <3>6, Zenon DEF SnapshotOk
        <3>8. Resyncs'
            BY <1>2, <3>2, <3>4, <3>7 DEF Resyncs
        <3> QED BY <1>2, <3>1, <3>8 DEF PhaseInv, InPsync
    <2> QED BY <2>1, <2>2, <2>3
<1> QED BY <1>9, <1>10, <1>11, <1>12, <1>13

\* The child writes the snapshot to its clients.
LEMMA ChildWritesStep == IndInv /\ ChildWrites => IndInv'
<1> SUFFICES ASSUME IndInv, ChildWrites PROVE IndInv'
    OBVIOUS
<1> USE DEF IndInv
<1> DEFINE ms == [c \in child.conns |-> Snapshot(child)]
<1>1. /\ child # NoChild /\ child.running
      /\ SendDown(ms) /\ DOMAIN ms = child.conns /\ \A c \in child.conns : ms[c] = Snapshot(child)
      /\ child' = [child EXCEPT !.running = FALSE]
      /\ UNCHANGED <<written, replid, offset, backlog, client, ends, up, slaveVars, faults>>
    BY DEF ChildWrites
<1> HIDE DEF ms
<1>2. /\ UNCHANGED <<repl_state, round, conn, cached, master, querybuf, held, got>>
      /\ lastGot' = lastGot
    BY <1>1 DEF slaveVars, lastGot
<1>3. /\ child \in Child /\ child' \in Child /\ child'.conns = child.conns /\ ~child'.running
      /\ child.conns \subseteq Conns
    BY <1>1, Zenon DEF TypeInv, Child
<1>4. child' # NoChild
    <2>1. \A x \in Child : "conns" \in DOMAIN x
        BY DEF Child
    <2>2. "conns" \notin DOMAIN NoChild
        BY DEF NoChild
    <2> QED BY <1>3, <2>1, <2>2
<1>5. Snapshot(child) \in Seq(DownMsg)
    BY <1>3, SnapshotFacts DEF Child
<1>6. /\ down' \in [Conns -> Seq(DownMsg)]
      /\ \A c \in Conns :
            /\ c \notin child.conns => down'[c] = down[c]
            /\ "slave" \notin ends[c] => down'[c] = <<>>
            /\ c \in child.conns /\ "slave" \in ends[c] => down'[c] = down[c] \o Snapshot(child)
    <2>1. \A c \in Conns : c \in DOMAIN ms => ms[c] \in Seq(DownMsg)
        BY <1>1, <1>5
    <2> QED BY <1>1, <2>1, SendDownFacts, Zenon
<1>7. TypeInv'
    BY <1>1, <1>2, <1>3, <1>6 DEF TypeInv
<1>8. WireInv'
    BY <1>1, <1>2, <1>6, ClientWires
<1>9. MasterInv'
    <2>1. slaves' = slaves /\ \A c \in Conns : Writable(c)' = Writable(c)
        BY <1>1 DEF slaves, Writable
    <2> QED BY <1>1, <1>2, <1>3, <1>4, <2>1 DEF MasterInv
<1>10. CacheInv'
    BY <1>1, <1>2, CacheFrame
<1>11. replid' \in Nat /\ replid' >= replid
    BY <1>1 DEF TypeInv
<1>12. PhaseInv'
    <2>1. CASE repl_state = "CONNECT"
        BY <1>2, <2>1 DEF PhaseInv
    <2>2. CASE repl_state # "CONNECT" /\ conn \notin child.conns
        <3>1. conn \in Conns /\ down'[conn] = down[conn]
            BY <1>6, <2>2 DEF WireInv
        <3>2. client[conn].replstate # "WAIT_BGSAVE_END"
            BY <2>2, <3>1 DEF MasterInv
        <3>3. StreamMoves(<<>>) /\ SnapshotMoves(<<>>)
            BY <1>1, <3>1, <3>2, StayMoves
        <3> QED BY <1>1, <1>11, <2>2, <3>1, <3>3, QuietPhase
    <2>3. CASE repl_state # "CONNECT" /\ conn \in child.conns
        <3>1. /\ conn \in Conns /\ down'[conn] = down[conn] \o Snapshot(child)
              /\ client[conn].replstate = "WAIT_BGSAVE_END"
            BY <1>1, <1>6, <2>3 DEF WireInv, MasterInv
        <3>2. repl_state # "HANDSHAKE" /\ ~Asked /\ ~Refused /\ ~Waits
            BY <2>3, <3>1, ServedHere
        <3>3. StreamMoves(Snapshot(child))
            BY <1>1, <3>1 DEF StreamMoves, Streaming
        <3>4. ASSUME NEW p \in Seq(DownMsg), SnapshotOk(p) PROVE SnapshotNext(p \o Snapshot(child))
            <4>1. SnapshotAt(p, lastGot, replid, written, offset, backlog, "WAIT_BGSAVE_END",
                             Len(client[conn].reply), child)
                BY <3>1, <3>4 DEF SnapshotOk
            <4>2. p = <<>>
                BY <1>1, <4>1 DEF SnapshotAt, Unwritten
            <4>3. replid \in Nat /\ written \in Nat /\ offset \in Nat /\ lastGot \in Nat
                BY DEF TypeInv
            <4>4. SnapshotAt(Snapshot(child), lastGot, replid, written, offset, backlog,
                             "WAIT_BGSAVE_END", Len(client[conn].reply), child')
                BY <1>1, <1>3, <4>1, <4>2, <4>3, SnapshotWritten, Zenon
            <4>5. p \o Snapshot(child) = Snapshot(child)
                BY <1>5, <4>2, ConcatEmptySeq
            <4> QED BY <1>1, <3>1, <4>4, <4>5 DEF SnapshotNext
        <3>5. SnapshotMoves(Snapshot(child))
            BY <3>4 DEF SnapshotMoves
        <3>6. /\ client'[conn].replstate \in States
              /\ ~(client[conn].replstate = "NONE" \/ Writable(conn))
            BY <1>1, <3>1 DEF States, Writable
        <3> QED BY <1>1, <1>5, <1>11, <2>3, <3>1, <3>2, <3>3, <3>5, <3>6, PhaseMoves
    <2> QED BY <2>1, <2>2, <2>3
<1> QED BY <1>7, <1>8, <1>9, <1>10, <1>12

\* The state of a client whose transfer has ended.
LEMMA PutOnline ==
    ASSUME NEW x \in Client
    PROVE  LET y == [x EXCEPT !.replstate = "ONLINE", !.put_online_on_ack = TRUE]
           IN  y \in Client /\ y.replstate = "ONLINE" /\ y.reply = x.reply /\ y.put_online_on_ack
BY Zenon DEF Client, States

\* The child has ended well: its clients go online, and wait for an
\* acknowledgement before their buffers are sent.
LEMMA DoneStep == IndInv /\ backgroundSaveDoneHandlerSocket => IndInv'
<1> SUFFICES ASSUME IndInv, backgroundSaveDoneHandlerSocket PROVE IndInv'
    OBVIOUS
<1> USE DEF IndInv
<1>1. /\ child # NoChild /\ ~child.running /\ child' = NoChild
      /\ UNCHANGED <<written, replid, offset, backlog, ends, down, up, slaveVars, faults>>
    BY Zenon DEF backgroundSaveDoneHandlerSocket, wires
<1>2. /\ UNCHANGED <<repl_state, round, conn, cached, master, querybuf, held, got>>
      /\ lastGot' = lastGot
    BY <1>1 DEF slaveVars, lastGot
<1>3. /\ \A c \in served : c \in Conns /\ client[c].replstate = "WAIT_BGSAVE_END"
      /\ \A c \in Conns : client[c].replstate = "WAIT_BGSAVE_END" => c \in served
    BY DEF served
<1>4. \A c \in served :
         /\ client'[c].replstate = "ONLINE" /\ client'[c].reply = client[c].reply
         /\ client'[c].put_online_on_ack /\ client'[c] \in Client
    <2> SUFFICES ASSUME NEW c \in served
                 PROVE  /\ client'[c].replstate = "ONLINE" /\ client'[c].reply = client[c].reply
                        /\ client'[c].put_online_on_ack /\ client'[c] \in Client
        OBVIOUS
    <2>1. c \in Conns /\ client[c] \in Client
        BY <1>3 DEF TypeInv
    <2>2. client'[c] = [client[c] EXCEPT !.replstate = "ONLINE", !.put_online_on_ack = TRUE]
        BY <2>1, Zenon DEF backgroundSaveDoneHandlerSocket
    <2> QED BY <2>1, <2>2, PutOnline, Zenon
<1>5. \A c \in Conns : c \notin served => client'[c] = client[c]
    BY Zenon DEF backgroundSaveDoneHandlerSocket
<1>6. DOMAIN client' = Conns /\ client' = [c \in Conns |-> client'[c]]
    BY Zenon DEF backgroundSaveDoneHandlerSocket
<1>7. TypeInv'
    <2>1. client' \in [Conns -> Client]
        <3>1. \A c \in Conns : client'[c] \in Client
            BY <1>4, <1>5 DEF TypeInv
        <3> QED BY <1>6, <3>1
    <2> QED BY <1>1, <1>2, <2>1 DEF TypeInv
<1>8. WireInv'
    <2>1. \A c \in Conns : client[c] = NewClient => client'[c] = NewClient
        BY <1>3, <1>5 DEF NewClient
    <2>2. \A c \in Conns : "slave" \notin ends[c] => down'[c] = <<>>
        BY <1>1 DEF WireInv
    <2> QED BY <1>1, <1>2, <2>1, <2>2, ClientWires
<1>9. MasterInv'
    <2>1. slaves' = slaves
        BY <1>3, <1>4, <1>5 DEF slaves
    <2>2. \A c \in Conns :
             /\ client'[c].replstate \in {"NONE", "WAIT_BGSAVE_START"} => client'[c].reply = <<>>
             /\ client'[c].replstate \in {"NONE", "WAIT_BGSAVE_START", "WAIT_BGSAVE_END"}
                   => ~client'[c].put_online_on_ack
             /\ LastWrites(client'[c].reply, written)
        BY <1>3, <1>4, <1>5, Zenon DEF MasterInv
    <2>3. \A c \in Conns : Writable(c)' => client'[c].reply = <<>>
        BY <1>4, <1>5 DEF MasterInv, Writable
    <2>4. \A c \in Conns : client'[c].replstate # "WAIT_BGSAVE_END"
        BY <1>3, <1>4, <1>5
    <2>5. ~child'.running
        BY <1>1 DEF NoChild
    <2> QED BY <1>1, <1>2, <2>1, <2>2, <2>3, <2>4, <2>5 DEF MasterInv
<1>10. CacheInv'
    BY <1>1, <1>2, CacheFrame
<1>11. replid' \in Nat /\ replid' >= replid
    <2>1. replid' = replid
        BY <1>1
    <2>2. replid \in Nat
        BY DEF TypeInv
    <2> QED BY <2>1, <2>2
<1>12. PhaseInv'
    <2>1. CASE repl_state = "CONNECT"
        BY <1>2, <2>1 DEF PhaseInv
    <2>2. CASE repl_state # "CONNECT" /\ conn \notin served
        <3>1. conn \in Conns /\ client'[conn] = client[conn]
            BY <1>5, <2>2 DEF WireInv
        <3>2. client[conn].replstate # "WAIT_BGSAVE_END"
            BY <1>3, <2>2, <3>1
        <3>3. StreamMoves(<<>>) /\ SnapshotMoves(<<>>)
            BY <1>1, <3>1, <3>2, StayMoves
        <3> QED BY <1>1, <1>11, <2>2, <3>1, <3>3, QuietPhase
    <2>3. CASE repl_state # "CONNECT" /\ conn \in served
        <3>1. /\ conn \in Conns /\ client[conn].replstate = "WAIT_BGSAVE_END"
              /\ client'[conn].replstate = "ONLINE" /\ client'[conn].put_online_on_ack
              /\ Len(client'[conn].reply) = Len(client[conn].reply)
              /\ down[conn] \in Seq(DownMsg)
            BY <1>3, <1>4, <2>3 DEF TypeInv
        <3>2. repl_state # "HANDSHAKE" /\ ~Asked /\ ~Refused /\ ~Waits
            BY <2>3, <3>1, ServedHere
        <3>3. \A p \in Seq(DownMsg) : p \o <<>> = p
            BY ConcatEmptySeq
        <3>4. ASSUME NEW id \in Int, NEW off \in Int, NEW p \in Seq(DownMsg), StreamOk(id, off, p)
              PROVE  StreamNext(id, off, p)
            <4>1. StreamAt(id, off, p, lastGot, replid, written, offset, backlog,
                           "WAIT_BGSAVE_END", Len(client[conn].reply))
                BY <3>1, <3>4, Zenon DEF StreamOk
            <4>2. StreamAt(id, off, p, lastGot, replid, written, offset, backlog,
                           "ONLINE", Len(client[conn].reply))
                BY <4>1 DEF StreamAt
            <4> QED BY <1>1, <3>1, <4>2, Zenon DEF StreamNext
        <3>5. Streaming'
            BY <1>2, <3>1 DEF Streaming
        <3>6. StreamMoves(<<>>)
            BY <3>3, <3>4, <3>5 DEF StreamMoves
        <3>7. ASSUME NEW p \in Seq(DownMsg), SnapshotOk(p) PROVE SnapshotNext(p)
            <4>1. SnapshotAt(p, lastGot, replid, written, offset, backlog, "WAIT_BGSAVE_END",
                             Len(client[conn].reply), child)
                BY <3>1, <3>7 DEF SnapshotOk
            <4>2. SnapshotAt(p, lastGot, replid, written, offset, backlog, "ONLINE",
                             Len(client[conn].reply), child')
                BY <4>1, SnapshotDone
            <4> QED BY <1>1, <3>1, <4>2 DEF SnapshotNext
        <3>8. SnapshotMoves(<<>>)
            BY <3>3, <3>7 DEF SnapshotMoves
        <3>9. /\ client'[conn].replstate \in States /\ down'[conn] = down[conn] \o <<>>
              /\ ~(client[conn].replstate = "NONE" \/ Writable(conn)) /\ <<>> \in Seq(DownMsg)
            BY <1>1, <3>1, <3>3, EmptySeq DEF States, Writable
        <3> QED BY <1>1, <1>11, <2>3, <3>2, <3>6, <3>8, <3>9, PhaseMoves, Zenon
    <2> QED BY <2>1, <2>2, <2>3
<1> QED BY <1>7, <1>8, <1>9, <1>10, <1>12

-----------------------------------------------------------------------------
(***************************************************************************)
(* Writes, and the idle timer of the backlog.                              *)
(***************************************************************************)

\* A write that is not sent: it waits in the output buffer of the client, if
\* the master has one (replicationFeedAllSlaves).
LEMMA StreamWrite ==
    ASSUME NEW g \in Nat, NEW r \in Nat, NEW w \in Nat, NEW o \in Nat, NEW b, NEW st, NEW n \in Nat,
           NEW o2 \in Nat, NEW b2, NEW n2 \in Nat,
           b = NoBacklog => o2 = o /\ b2 = b,
           b # NoBacklog => o2 = o + 1,
           st # "NONE" => b # NoBacklog,
           st # "NONE" => n2 = n + 1
    PROVE  \A id \in Int, off \in Int, p \in Seq(DownMsg) :
              StreamAt(id, off, p, g, r, w, o, b, st, n) =>
                  StreamAt(id, off, p, g, r, w + 1, o2, b2, st, n2)
<1> SUFFICES ASSUME NEW id \in Int, NEW off \in Int, NEW p \in Seq(DownMsg),
                    StreamAt(id, off, p, g, r, w, o, b, st, n)
             PROVE  StreamAt(id, off, p, g, r, w + 1, o2, b2, st, n2)
    OBVIOUS
<1>1. PICK a \in 0..g : StreamAt(id, off, p, g, r, w, o, b, st, n)!(a)
    BY DEF StreamAt
<1>2. Len(p) \in Nat
    BY LenProperties
<1>3. Stretch(p, a, w + 1)
    BY <1>1, <1>2 DEF Stretch
<1>4. Behind(id, off, a, r, w + 1, o2, b2)
    BY <1>1 DEF Behind
<1>5. st # "NONE" => Abreast(id, off, p, a, r, w + 1, o2, n2)
    BY <1>1, <1>2 DEF Abreast
<1> QED BY <1>3, <1>4, <1>5 DEF StreamAt

\* A write that is sent at once.
LEMMA StreamSend ==
    ASSUME NEW id \in Int, NEW off \in Int, NEW p \in Seq(DownMsg), NEW g \in Nat,
           NEW r \in Nat, NEW w \in Nat, NEW o \in Nat, NEW b, NEW b2, NEW st, NEW n \in Nat,
           StreamAt(id, off, p, g, r, w, o, b, st, n),
           b # NoBacklog, st # "NONE", n = 0
    PROVE  StreamAt(id, off, p \o <<Command(w + 1)>>, g, r, w + 1, o + 1, b2, st, 0)
<1> DEFINE q == p \o <<Command(w + 1)>>
<1>1. PICK a \in 0..g : StreamAt(id, off, p, g, r, w, o, b, st, n)!(a)
    BY DEF StreamAt
<1>2. Command(w + 1) \in DownMsg /\ Command(w + 1) # Eof
    BY DEF Command, DownMsg, Eof
<1>3. /\ Len(p) \in Nat
      /\ Len(q) = Len(p) + 1
      /\ \A i \in 1..Len(p) : q[i] = p[i]
      /\ q[Len(p) + 1] = Command(w + 1)
    BY <1>2, LenProperties, AppendProperties, AppendIsConcat
<1>4. Stretch(q, a, w + 1)
    <2> SUFFICES ASSUME NEW i \in 1..(Len(p) + 1)
                 PROVE  q[i] = Eof \/ (q[i] = Command(a + i) /\ a + i <= w + 1)
        BY <1>3, SMTT(20) DEF Stretch
    <2>1. CASE i \in 1..Len(p)
        BY <2>1, <1>1, <1>3 DEF Stretch
    <2>2. CASE i = Len(p) + 1
        <3>1. a + i = w + 1
            BY <2>2, <1>1, <1>3 DEF Abreast
        <3> QED BY <2>2, <3>1, <1>3
    <2> QED BY <2>1, <2>2, <1>3
<1>5. Behind(id, off, a, r, w + 1, o + 1, b2)
    BY <1>1 DEF Behind
<1>6. Abreast(id, off, q, a, r, w + 1, o + 1, 0)
    BY <1>1, <1>2, <1>3, SMTT(20) DEF Abreast, NoEof
<1> QED BY <1>4, <1>5, <1>6 DEF StreamAt

\* A write while the snapshot is on its way waits in the output buffer.
LEMMA SnapshotWrite ==
    ASSUME NEW p, NEW g, NEW r \in Nat, NEW w \in Nat, NEW o \in Nat, NEW b, NEW st,
           NEW n \in Nat, NEW ch, NEW o2 \in Nat, NEW b2, NEW n2 \in Nat,
           SnapshotAt(p, g, r, w, o, b, st, n, ch),
           b = NoBacklog => o2 = o /\ b2 = b,
           b # NoBacklog => o2 = o + 1,
           st # "NONE" => b # NoBacklog,
           st # "NONE" => n2 = n + 1
    PROVE  SnapshotAt(p, g, r, w + 1, o2, b2, st, n2, ch)
<1>1. PICK u \in 0..w, id \in 0..r, f \in 0..o : SnapshotAt(p, g, r, w, o, b, st, n, ch)!(u, id, f)
    BY DEF SnapshotAt
<1>2. u \in 0..(w + 1) /\ f \in 0..o2
    BY <1>1
<1>3. Behind(id, f, u, r, w + 1, o2, b2)
    BY <1>1 DEF Behind
<1>4. st # "NONE" => Recent(p, u, id, f, r, w + 1, o2, n2)
    BY <1>1 DEF Recent
<1> QED BY <1>1, <1>2, <1>3, <1>4, Zenon DEF SnapshotAt

\* A backlog of the last writes, after one more.
LEMMA AppendWrites ==
    ASSUME NEW w \in Nat, NEW ws \in Seq(Nat), LastWrites(ws, w)
    PROVE  Append(ws, w + 1) \in Seq(Nat) /\ LastWrites(Append(ws, w + 1), w + 1)
<1> DEFINE n == Len(ws)
           a == Append(ws, w + 1)
<1>1. /\ n \in Nat /\ n <= w /\ a \in Seq(Nat) /\ Len(a) = n + 1
      /\ \A i \in 1..n : a[i] = ws[i] /\ ws[i] = w - n + i
      /\ a[n + 1] = w + 1
    BY LenProperties, AppendProperties DEF LastWrites
<1> HIDE DEF n, a
<1>2. ASSUME NEW i \in 1..(n + 1) PROVE a[i] = (w + 1) - (n + 1) + i
    <2>1. CASE i \in 1..n
        <3>1. a[i] = w - n + i
            BY <1>1, <2>1
        <3> QED BY <1>1, <2>1, <3>1
    <2>2. CASE i = n + 1
        BY <1>1, <2>2
    <2> QED BY <1>1, <2>1, <2>2
<1>3. n + 1 <= w + 1
    BY <1>1
<1>4. LastWrites(a, w + 1)
    BY <1>1, <1>2, <1>3 DEF LastWrites
<1> QED BY <1>1, <1>4 DEF a

\* A full backlog drops its oldest write.
LEMMA TailWrites ==
    ASSUME NEW w \in Nat, NEW ws \in Seq(Nat), LastWrites(ws, w), ws # <<>>
    PROVE  Tail(ws) \in Seq(Nat) /\ LastWrites(Tail(ws), w)
<1> DEFINE n == Len(ws)
           t == Tail(ws)
<1>1. /\ n \in Nat \ {0} /\ n <= w /\ t \in Seq(Nat) /\ Len(t) = n - 1
      /\ \A i \in 1..n : ws[i] = w - n + i
      /\ \A i \in 1..(n - 1) : t[i] = ws[i + 1]
    BY EmptySeq, LenProperties, HeadTailProperties DEF LastWrites
<1> HIDE DEF n, t
<1>2. \A i \in 1..(n - 1) : t[i] = w - (n - 1) + i
    BY <1>1
<1>3. n - 1 <= w
    BY <1>1
<1>4. LastWrites(t, w)
    BY <1>1, <1>2, <1>3 DEF LastWrites
<1> QED BY <1>1, <1>4 DEF t

\* The backlog holds the last writes (feedReplicationBacklog).
LEMMA FeedFacts ==
    ASSUME NEW w \in Nat, backlog \in Seq(Nat), LastWrites(backlog, w)
    PROVE  Feed(w + 1) \in Seq(Nat) /\ LastWrites(Feed(w + 1), w + 1) /\ Feed(w + 1) # NoBacklog
<1> DEFINE b == Append(backlog, w + 1)
<1>1. b \in Seq(Nat) /\ LastWrites(b, w + 1) /\ b # <<>> /\ w + 1 \in Nat
    BY AppendWrites, AppendProperties
<1>2. Tail(b) \in Seq(Nat) /\ LastWrites(Tail(b), w + 1)
    BY <1>1, TailWrites, Zenon
<1>3. Feed(w + 1) \in Seq(Nat) /\ LastWrites(Feed(w + 1), w + 1)
    BY <1>1, <1>2 DEF Feed
<1>4. ~LastWrites(NoBacklog, w + 1)
    <2>1. Len(NoBacklog) = 1 /\ NoBacklog[1] = 0
        BY DEF NoBacklog
    <2>2. LastWrites(NoBacklog, w + 1) => NoBacklog[1] = (w + 1) - 1 + 1
        BY <2>1 DEF LastWrites
    <2> QED BY <2>1, <2>2
<1> QED BY <1>3, <1>4

\* The commands of a single write.
LEMMA OneCommand ==
    ASSUME NEW w \in Nat
    PROVE  Commands(<<w>>) = <<Command(w)>> /\ <<Command(w)>> \in Seq(DownMsg)
<1>0. <<w>> \in Seq(Nat) /\ Len(<<w>>) = 1 /\ <<w>>[1] = w
    OBVIOUS
<1>1. PICK ws \in Seq(Nat) : ws = <<w>>
    BY <1>0, Zenon
<1>2. /\ Commands(<<w>>) \in Seq(DownMsg) /\ Len(Commands(<<w>>)) = 1
      /\ Commands(<<w>>)[1] = Command(w)
    <2>1. /\ Commands(ws) \in Seq(DownMsg) /\ Len(Commands(ws)) = Len(ws)
          /\ \A i \in 1..Len(ws) : Commands(ws)[i] = Command(ws[i])
        BY CommandsFacts
    <2>2. 1 \in 1..Len(ws) /\ Len(ws) = 1 /\ ws[1] = w
        BY <1>0, <1>1
    <2> QED BY <1>1, <2>1, <2>2
<1>3. Command(w) \in DownMsg
    BY DEF Command, DownMsg
<1>4. <<Command(w)>> \in Seq(DownMsg) /\ Len(<<Command(w)>>) = 1 /\ <<Command(w)>>[1] = Command(w)
    BY <1>3
<1>5. \A i \in 1..1 : i = 1
    OBVIOUS
<1>6. \A i \in 1..Len(<<Command(w)>>) : Commands(<<w>>)[i] = <<Command(w)>>[i]
    BY <1>2, <1>4, <1>5
<1> QED BY <1>2, <1>4, <1>6, SeqEqual

\* The buffered output of a client grows by the write.
LEMMA AppendLen == \A q \in Seq(Nat) : Len(Append(q, written + 1)) = Len(q) + 1
OBVIOUS

\* What the write does to the path of a snapshot that the slave has not got.
LEMMA SnapshotWaits ==
    ASSUME NEW p, NEW st, NEW n \in Nat, NEW n2 \in Nat,
           replid \in Nat, written \in Nat, offset \in Nat, offset' \in Nat,
           SnapshotAt(p, lastGot, replid, written, offset, backlog, st, n, child),
           backlog = NoBacklog => offset' = offset /\ backlog' = backlog,
           backlog # NoBacklog => offset' = offset + 1,
           st # "NONE" => backlog # NoBacklog,
           st # "NONE" => n2 = n + 1
    PROVE  SnapshotAt(p, lastGot, replid, written + 1, offset', backlog', st, n2, child)
BY SnapshotWrite

\* A write that the slave is not sent now.
LEMMA WaitMoves ==
    ASSUME IndInv, conn \in Conns, written' = written + 1, UNCHANGED <<replid, child, slaveVars>>,
           backlog = NoBacklog => offset' = offset /\ backlog' = backlog,
           backlog # NoBacklog => offset' = offset + 1, offset' \in Nat,
           client'[conn].replstate = client[conn].replstate,
           client'[conn].put_online_on_ack = client[conn].put_online_on_ack,
           Len(client'[conn].reply) \in Nat,
           client[conn].replstate \in {"WAIT_BGSAVE_END", "ONLINE"} =>
               Len(client'[conn].reply) = Len(client[conn].reply) + 1
    PROVE  StreamMoves(<<>>) /\ SnapshotMoves(<<>>)
<1> USE DEF IndInv
<1> DEFINE st == client[conn].replstate
           n == Len(client[conn].reply)
           n2 == Len(client'[conn].reply)
<1>1. \A p \in Seq(DownMsg) : p \o <<>> = p
    BY ConcatEmptySeq
<1>2. /\ replid \in Nat /\ written \in Nat /\ offset \in Nat /\ lastGot \in Nat /\ n \in Nat
      /\ st \in States /\ conn' = conn
    BY LenProperties DEF TypeInv, Client, slaveVars
<1>3. st # "NONE" => backlog # NoBacklog
    BY DEF MasterInv, slaves
<1>4. st # "NONE" /\ st # "WAIT_BGSAVE_START" => n2 = n + 1
    BY <1>2 DEF States
<1>5. ASSUME st # "WAIT_BGSAVE_START"
      PROVE  \A id \in Int, off \in Int, p \in Seq(DownMsg) :
                StreamOk(id, off, p) => StreamNext(id, off, p)
    <2>1. (st # "NONE" => n2 = n + 1) /\ n2 \in Nat
        BY <1>4, <1>5
    <2> HIDE DEF n, n2
    <2>2. \A id \in Int, off \in Int, p \in Seq(DownMsg) :
             StreamAt(id, off, p, lastGot, replid, written, offset, backlog, st, n) =>
                 StreamAt(id, off, p, lastGot, replid, written + 1, offset', backlog', st, n2)
        BY <1>2, <1>3, <2>1, StreamWrite, Zenon
    <2> QED BY <2>2 DEF StreamOk, StreamNext, n, n2
<1>6. ASSUME NEW p \in Seq(DownMsg), SnapshotOk(p) PROVE SnapshotNext(p)
    <2>1. SnapshotAt(p, lastGot, replid, written, offset, backlog, st, n, child)
        BY <1>6 DEF SnapshotOk
    <2>2. st \in {"NONE", "WAIT_BGSAVE_END", "ONLINE"} /\ (st = "ONLINE" => client[conn].put_online_on_ack)
        BY <1>6 DEF SnapshotOk
    <2>3. (st # "NONE" => n2 = n + 1) /\ n2 \in Nat
        BY <1>4, <2>2
    <2> HIDE DEF n, n2
    <2>4. SnapshotAt(p, lastGot, replid, written + 1, offset', backlog', st, n2, child)
        BY <1>2, <1>3, <2>1, <2>3, SnapshotWaits, Zenon
    <2> QED BY <2>2, <2>4 DEF SnapshotNext, n2
<1>7. Streaming => Streaming'
    BY <1>2 DEF Streaming
<1>8. StreamMoves(<<>>)
    BY <1>1, <1>5, <1>7 DEF StreamMoves, Streaming
<1>9. SnapshotMoves(<<>>)
    BY <1>1, <1>6 DEF SnapshotMoves
<1> QED BY <1>8, <1>9

\* A write that the slave is sent.
LEMMA SentMoves ==
    ASSUME IndInv, conn \in Conns, written' = written + 1, UNCHANGED <<replid, slaveVars>>,
           offset' = offset + 1, backlog # NoBacklog, client'[conn] = client[conn], Writable(conn)
    PROVE  StreamMoves(<<Command(written + 1)>>) /\ SnapshotMoves(<<Command(written + 1)>>)
<1> USE DEF IndInv
<1> DEFINE e == <<Command(written + 1)>>
<1>1. /\ replid \in Nat /\ written \in Nat /\ offset \in Nat /\ lastGot \in Nat
      /\ client[conn].replstate = "ONLINE" /\ ~client[conn].put_online_on_ack /\ conn' = conn
    BY DEF TypeInv, Writable, slaveVars
<1>2. Len(client[conn].reply) = 0
    BY EmptySeq DEF MasterInv
<1>3. ASSUME NEW id \in Int, NEW off \in Int, NEW p \in Seq(DownMsg), StreamOk(id, off, p)
      PROVE  StreamNext(id, off, p \o e)
    <2>1. StreamAt(id, off, p, lastGot, replid, written, offset, backlog, "ONLINE", 0)
        BY <1>1, <1>2, <1>3 DEF StreamOk
    <2>2. StreamAt(id, off, p \o e, lastGot, replid, written + 1, offset + 1, backlog', "ONLINE", 0)
        BY <1>1, <2>1, StreamSend, Zenon
    <2> HIDE DEF e
    <2> QED BY <1>1, <1>2, <2>2 DEF StreamNext
<1> HIDE DEF e
<1>4. Streaming'
    BY <1>1 DEF Streaming
<1>5. StreamMoves(e)
    BY <1>3, <1>4 DEF StreamMoves
<1>6. SnapshotMoves(e)
    BY <1>1 DEF SnapshotMoves, SnapshotOk
<1> QED BY <1>5, <1>6 DEF e

\* The master executes a write and feeds it to its clients.
LEMMA WriteStep == IndInv /\ Write => IndInv'
<1> SUFFICES ASSUME IndInv, Write PROVE IndInv'
    OBVIOUS
<1> USE DEF IndInv
<1> DEFINE sent == {c \in slaves \ waiting : Writable(c)}
           fed == (slaves \ waiting) \ sent
           ms == [c \in sent |-> Commands(<<written'>>)]
<1>1. /\ written' = written + 1
      /\ backlog = NoBacklog => offset' = offset /\ backlog' = backlog
      /\ backlog # NoBacklog => offset' = offset + 1 /\ backlog' = Feed(written')
      /\ client' = [c \in Conns |->
                      IF c \in fed THEN [client[c] EXCEPT !.reply = Append(@, written')]
                                   ELSE client[c]]
      /\ SendDown(ms) /\ DOMAIN ms = sent /\ \A c \in sent : ms[c] = Commands(<<written'>>)
      /\ UNCHANGED <<replid, child, ends, up, slaveVars, faults>>
    BY DEF Write
<1> HIDE DEF ms
<1>2. /\ UNCHANGED <<repl_state, round, conn, cached, master, querybuf, held, got>>
      /\ lastGot' = lastGot
    BY <1>1 DEF slaveVars, lastGot
<1>3. written \in Nat /\ offset \in Nat /\ replid \in Nat /\ written' \in Nat /\ offset' \in Nat
    BY <1>1, SMTT(20) DEF TypeInv
<1> DEFINE e == <<Command(written + 1)>>
<1>4. Commands(<<written'>>) = e /\ e \in Seq(DownMsg)
    BY <1>1, <1>3, OneCommand
<1> HIDE DEF e
<1>5. /\ down' \in [Conns -> Seq(DownMsg)]
      /\ \A c \in Conns :
            /\ c \notin sent => down'[c] = down[c]
            /\ "slave" \notin ends[c] => down'[c] = <<>>
            /\ c \in sent /\ "slave" \in ends[c] => down'[c] = down[c] \o e
    <2>1. \A c \in Conns : c \in DOMAIN ms => ms[c] \in Seq(DownMsg)
        BY <1>1, <1>4
    <2> QED BY <1>1, <1>4, <2>1, SendDownFacts, Zenon
<1>6. /\ sent \subseteq Conns /\ fed \subseteq Conns
      /\ \A c \in sent : Writable(c) /\ client'[c] = client[c]
      /\ \A c \in fed : client[c].replstate \in {"WAIT_BGSAVE_END", "ONLINE"} /\ ~Writable(c)
      /\ \A c \in Conns : c \notin fed => client'[c] = client[c]
      /\ \A c \in Conns : Writable(c) => c \in sent
      /\ \A c \in Conns : c \notin fed /\ c \notin sent =>
            client[c].replstate \in {"NONE", "WAIT_BGSAVE_START"}
    <2>1. \A c \in Conns : client[c].replstate \in States
        BY DEF TypeInv, Client
    <2> QED BY <1>1, <2>1, Zenon DEF slaves, waiting, Writable, States
<1>7. \A c \in fed :
         /\ client'[c].replstate = client[c].replstate
         /\ client'[c].put_online_on_ack = client[c].put_online_on_ack
         /\ client'[c].reply = Append(client[c].reply, written + 1)
         /\ client[c].reply \in Seq(Nat) /\ client[c] \in Client
    <2> SUFFICES ASSUME NEW c \in fed
                 PROVE  /\ client'[c].replstate = client[c].replstate
                        /\ client'[c].put_online_on_ack = client[c].put_online_on_ack
                        /\ client'[c].reply = Append(client[c].reply, written + 1)
                        /\ client[c].reply \in Seq(Nat) /\ client[c] \in Client
        BY Zenon
    <2>1. c \in Conns /\ client'[c] = [client[c] EXCEPT !.reply = Append(@, written + 1)]
        BY <1>1, <1>6
    <2>2. client[c] \in Client
        BY <2>1, Zenon DEF TypeInv
    <2> QED BY <2>1, <2>2, Zenon DEF Client
<1>8. \A c \in fed : client'[c].reply \in Seq(Nat) /\ LastWrites(client'[c].reply, written + 1)
    <2> SUFFICES ASSUME NEW c \in fed
                 PROVE  client'[c].reply \in Seq(Nat) /\ LastWrites(client'[c].reply, written + 1)
        OBVIOUS
    <2>1. /\ client[c].reply \in Seq(Nat) /\ LastWrites(client[c].reply, written)
          /\ client'[c].reply = Append(client[c].reply, written + 1)
        BY <1>6, <1>7, Zenon DEF MasterInv
    <2> QED BY <1>3, <2>1, AppendWrites
<1> HIDE DEF fed, sent
<1>9. backlog' \in Seq(Nat) /\ (backlog # NoBacklog => backlog' # NoBacklog)
      /\ (backlog' # NoBacklog => LastWrites(backlog', written'))
    <2>1. CASE backlog = NoBacklog
        BY <1>1, <2>1 DEF TypeInv
    <2>2. CASE backlog # NoBacklog
        <3>1. LastWrites(backlog, written) /\ backlog \in Seq(Nat)
            BY <2>2, Zenon DEF MasterInv, TypeInv
        <3>2. backlog' = Feed(written + 1)
            BY <1>1, <2>2
        <3> QED BY <1>1, <1>3, <3>1, <3>2, FeedFacts
    <2> QED BY <2>1, <2>2
<1>10. TypeInv'
    <2>1. \A c \in fed : client'[c] \in Client
        BY <1>1, <1>6, <1>7, <1>8, Zenon DEF Client
    <2>2. client' \in [Conns -> Client]
        BY <1>1, <2>1, Zenon DEF TypeInv
    <2>3. lastGot' \in 0..written'
        BY <1>1, <1>2, <1>3, SMTT(20) DEF TypeInv
    <2> QED BY <1>1, <1>2, <1>3, <1>5, <1>9, <2>2, <2>3, Zenon DEF TypeInv
<1>11. WireInv'
    <2>1. \A c \in Conns : client[c] = NewClient => client'[c] = NewClient
        BY <1>6 DEF NewClient
    <2> QED BY <1>1, <1>2, <1>5, <2>1, ClientWires
<1>12. MasterInv'
    <2>1. \A c \in Conns : client'[c].replstate = client[c].replstate
                           /\ client'[c].put_online_on_ack = client[c].put_online_on_ack
        BY <1>6, <1>7
    <2>2. slaves' = slaves
        BY <2>1 DEF slaves
    <2>3. \A c \in Conns : Writable(c)' => client'[c].reply = <<>>
        BY <1>6, <2>1, ZenonT(30) DEF MasterInv, Writable
    <2>4. \A c \in Conns :
             client'[c].replstate \in {"NONE", "WAIT_BGSAVE_START"} => client'[c].reply = <<>>
        BY <1>6, <2>1, Zenon DEF MasterInv
    <2>5. LastWrites(<<>>, written')
        BY <1>3, EmptySeq DEF LastWrites
    <2>6. \A c \in Conns : LastWrites(client'[c].reply, written')
        BY <1>1, <1>6, <1>8, <2>5, Zenon DEF MasterInv
    <2>7. child # NoChild => child.conns \subseteq Conns
        BY DEF TypeInv, Child
    <2>8. child'.running =>
             /\ child' # NoChild
             /\ \A c \in child'.conns : "slave" \in ends'[c] => client'[c].replstate = "WAIT_BGSAVE_END"
        BY <1>1, <2>1, <2>7 DEF MasterInv
    <2> QED BY <1>1, <1>2, <1>9, <2>1, <2>2, <2>3, <2>4, <2>6, <2>8, Zenon DEF MasterInv
<1>13. CacheInv'
    <2>1. \A id, off, g : Behind(id, off, g, replid, written, offset, backlog) /\ off \in Int =>
             Behind(id, off, g, replid, written', offset', backlog')
        <3>1. CASE backlog = NoBacklog
            BY <1>1, <3>1 DEF Behind
        <3>2. CASE backlog # NoBacklog
            <4>1. \A off \in Int : off + (written' - offset') = off + (written - offset)
                BY <1>1, <1>3, <3>2
            <4> QED BY <3>2, <4>1 DEF Behind
        <3> QED BY <3>1, <3>2
    <2>2. cached.reploff \in Int /\ 0 \in Int
        BY DEF TypeInv
    <2> QED BY <1>1, <1>2, <2>1, <2>2 DEF CacheInv
<1>14. PhaseInv'
    <2>1. CASE repl_state = "CONNECT"
        BY <1>2, <2>1 DEF PhaseInv
    <2> SUFFICES ASSUME repl_state # "CONNECT" PROVE PhaseInv'
        BY <2>1
    <2>2. conn \in Conns /\ "slave" \in ends[conn] /\ down[conn] \in Seq(DownMsg)
        BY Zenon DEF WireInv, TypeInv
    <2>3. replid' \in Nat /\ replid' >= replid
        BY <1>1, <1>3
    <2>4. Len(client[conn].reply) \in Nat
        BY <2>2, LenProperties DEF TypeInv, Client
    <2>5. CASE conn \notin fed /\ conn \notin sent
        <3>1. /\ down'[conn] = down[conn] /\ client'[conn] = client[conn]
              /\ client[conn].replstate \in {"NONE", "WAIT_BGSAVE_START"}
            BY <1>5, <1>6, <2>2, <2>5
        <3>2. StreamMoves(<<>>) /\ SnapshotMoves(<<>>)
            BY <1>1, <1>3, <2>2, <2>4, <3>1, WaitMoves
        <3> QED BY <1>1, <2>2, <2>3, <3>1, <3>2, QuietPhase
    <2>6. CASE conn \in fed
        <3>1. /\ client'[conn].replstate = client[conn].replstate
              /\ client'[conn].put_online_on_ack = client[conn].put_online_on_ack
              /\ client'[conn].reply = Append(client[conn].reply, written + 1)
              /\ client[conn].reply \in Seq(Nat)
              /\ client[conn].replstate \in {"WAIT_BGSAVE_END", "ONLINE"} /\ ~Writable(conn)
            BY <1>6, <1>7, <2>6, Zenon
        <3>2. Len(client'[conn].reply) = Len(client[conn].reply) + 1
            BY <3>1, AppendLen
        <3>3. StreamMoves(<<>>) /\ SnapshotMoves(<<>>)
            BY <1>1, <1>3, <2>2, <2>4, <3>1, <3>2, WaitMoves
        <3>4. conn \notin sent /\ client[conn] # NewClient
            BY <1>6, <3>1 DEF NewClient
        <3>5. down'[conn] = down[conn] \o <<>> /\ <<>> \in Seq(DownMsg)
            BY <1>5, <2>2, <3>4, ConcatEmptySeq, EmptySeq
        <3>6. repl_state # "HANDSHAKE" /\ ~Asked /\ ~Refused /\ ~Waits
            BY <3>1, <3>4, Zenon DEF PhaseInv, InHandshake, Asked, Refused, Waits
        <3>7. client'[conn].replstate \in States /\ client[conn].replstate # "NONE"
            BY <3>1 DEF States
        <3> QED BY <1>1, <2>3, <3>1, <3>3, <3>5, <3>6, <3>7, PhaseMoves, ZenonT(30)
    <2>7. CASE conn \in sent
        <3>1. /\ Writable(conn) /\ client'[conn] = client[conn] /\ down'[conn] = down[conn] \o e
              /\ client[conn].replstate = "ONLINE"
            BY <1>5, <1>6, <2>2, <2>7, Zenon DEF Writable
        <3>2. backlog # NoBacklog
            BY <2>2, <3>1, Zenon DEF MasterInv, slaves
        <3>3. StreamMoves(e) /\ SnapshotMoves(e)
            BY <1>1, <2>2, <3>1, <3>2, SentMoves DEF e
        <3>4. client[conn] # NewClient /\ conn' = conn
            BY <1>2, <3>1 DEF NewClient
        <3>5. repl_state # "HANDSHAKE" /\ ~Asked /\ ~Refused /\ ~Waits
            BY <3>1, <3>4 DEF PhaseInv, InHandshake, Asked, Refused, Waits
        <3>6. client'[conn].replstate \in States /\ Writable(conn)'
            BY <3>1, <3>4 DEF States, Writable
        <3> QED BY <1>1, <1>4, <2>3, <3>1, <3>3, <3>5, <3>6, PhaseMoves, Zenon
    <2> QED BY <2>5, <2>6, <2>7
<1> QED BY <1>10, <1>11, <1>12, <1>13, <1>14

\* The master drops a backlog nobody uses, and renames its history.
LEMMA FreeBacklogStep == IndInv /\ freeReplicationBacklog => IndInv'
<1> SUFFICES ASSUME IndInv, freeReplicationBacklog PROVE IndInv'
    OBVIOUS
<1> USE DEF IndInv
<1>1. /\ slaves = {} /\ replid' = replid + 1 /\ backlog' = NoBacklog
      /\ UNCHANGED <<written, offset, client, child, ends, down, up, slaveVars, faults>>
    BY DEF freeReplicationBacklog, wires
<1>2. /\ UNCHANGED <<repl_state, round, conn, cached, master, querybuf, held, got>>
      /\ lastGot' = lastGot
    BY <1>1 DEF slaveVars, lastGot
<1>3. replid \in Nat /\ replid' \in Nat /\ replid' >= replid
    BY <1>1 DEF TypeInv
<1>4. TypeInv'
    <2>1. NoBacklog \in Seq(Nat)
        BY DEF NoBacklog
    <2>2. held' \subseteq 0..replid'
        BY <1>1, <1>2, <1>3 DEF TypeInv
    <2> QED BY <1>1, <1>2, <1>3, <2>1, <2>2 DEF TypeInv
<1>5. WireInv'
    BY <1>1, <1>2, Zenon DEF WireInv
<1>6. MasterInv'
    <2>1. slaves' = {} /\ \A c \in Conns : Writable(c)' = Writable(c)
        BY <1>1 DEF slaves, Writable
    <2> QED BY <1>1, <1>2, <2>1, Zenon DEF MasterInv
<1>7. CacheInv'
    BY <1>1, <1>2, RenewCache
<1>8. CASE repl_state = "CONNECT"
    BY <1>2, <1>4, <1>5, <1>6, <1>7, <1>8 DEF PhaseInv
<1>9. CASE repl_state # "CONNECT"
    <2>1. conn \in Conns
        BY <1>9 DEF WireInv
    <2>2. StreamMoves(<<>>) /\ SnapshotMoves(<<>>)
        BY <1>1, <2>1, RenewMoves
    <2>3. PhaseInv'
        BY <1>1, <1>3, <1>9, <2>2, QuietPhase
    <2> QED BY <1>4, <1>5, <1>6, <1>7, <2>3
<1> QED BY <1>8, <1>9

-----------------------------------------------------------------------------
(***************************************************************************)
(* The results.                                                            *)
(***************************************************************************)

\* The initial state satisfies the invariant.
LEMMA InitInv == Init => IndInv
<1> SUFFICES ASSUME Init PROVE IndInv
    OBVIOUS
<1> USE DEF Init
<1>1. lastGot = 0 /\ got = 1..lastGot
    <2>1. {} = 1..0
        OBVIOUS
    <2>2. (CHOOSE w \in (1..0) \cup {0} : \A v \in 1..0 : v <= w) = 0
        BY LastOfInterval
    <2> QED BY <2>1, <2>2 DEF lastGot
<1>2. /\ NewClient \in Client /\ NewClient.replstate = "NONE" /\ NewClient.reply = <<>>
      /\ ~NewClient.put_online_on_ack
    BY EmptySeq DEF NewClient, Client, States
<1>3. NoMaster \in [replid : Int, reploff : Int, read_reploff : Int]
    BY DEF NoMaster, NoId
<1>4. <<>> \in Seq(DownMsg) /\ <<>> \in Seq(UpMsg) /\ NoBacklog \in Seq(Nat) /\ Len(<<>>) = 0
    BY EmptySeq DEF NoBacklog
<1>5. round \in 0..Len(Handshake) /\ conn \in 0..(MaxFaults + 1)
    BY HandshakeFacts, ConstantsAssumption
<1>6. TypeInv
    BY <1>1, <1>2, <1>3, <1>4, <1>5, NoCacheType, SMTT(20) DEF TypeInv
<1>7. WireInv
    <2>1. \A c \in Conns : 1..Len(up[c]) = {}
        BY <1>4
    <2> QED BY <2>1 DEF WireInv
<1>8. MasterInv
    <2>1. slaves = {} /\ LastWrites(<<>>, written) /\ ~child.running
        BY <1>2, <1>4 DEF slaves, LastWrites, NoChild
    <2> QED BY <1>2, <2>1, Zenon DEF MasterInv
<1>9. CacheInv
    BY DEF CacheInv, NoCache, NoId, Behind
<1>10. PhaseInv
    BY <1>4 DEF PhaseInv
<1> QED BY <1>6, <1>7, <1>8, <1>9, <1>10 DEF IndInv

\* So does a step that changes nothing.
LEMMA StutterStep == IndInv /\ UNCHANGED vars => IndInv'
<1> SUFFICES ASSUME IndInv, UNCHANGED vars PROVE IndInv'
    OBVIOUS
<1> USE DEF IndInv
<1>1. /\ UNCHANGED <<masterVars, slaveVars, ends, down, up, faults>>
      /\ UNCHANGED <<written, replid, offset, backlog, client, child>>
      /\ UNCHANGED <<repl_state, round, conn, cached, master, querybuf, held, got>>
    BY DEF vars, masterVars, wires, slaveVars
<1>2. lastGot' = lastGot
    BY <1>1 DEF lastGot
<1>3. TypeInv'
    BY <1>1, <1>2 DEF TypeInv
<1>4. WireInv'
    BY <1>1, Zenon DEF WireInv
<1>5. MasterInv'
    <2>1. conn' = conn /\ conn \in Nat
        BY <1>1, ConstantsAssumption DEF TypeInv
    <2> QED BY <1>1, <2>1, MasterFrame
<1>6. CacheInv'
    BY <1>1, CacheFrame
<1>7. PhaseInv'
    BY <1>1, PhaseFrame
<1> QED BY <1>3, <1>4, <1>5, <1>6, <1>7

\* Every step of the slave preserves the invariant.
LEMMA SlaveSteps == IndInv /\ (SlaveStep \/ crdtReplicationSendAck) => IndInv'
<1> SUFFICES ASSUME IndInv, SlaveStep \/ crdtReplicationSendAck PROVE IndInv'
    OBVIOUS
<1>1. CASE \E k \in 1..(MaxWrites + 3) : readQueryFromClient(k)
    <2>1. PICK k \in 1..(MaxWrites + 3) : readQueryFromClient(k)
        BY <1>1
    <2>2. k \in Nat
        BY ConstantsAssumption
    <2> QED BY <2>1, <2>2, ReadStep
<1>2. CASE crdtConnectWithMaster \/ crdtSyncWithMaster \/ crdtSlaveTryPartialResynchronization
    BY <1>2, ConnectStep, SyncStep, PsyncAnswerStep
<1>3. CASE processInputBuffer
    BY <1>3, ProcessStep
<1>4. CASE ReadMasterEof \/ LoseConnection \/ crdtCancelReplicationHandshake
    BY <1>4, BreakStep, CancelStep
<1>5. CASE crdtReplicationSendAck
    BY <1>5, AckStep
<1> QED BY <1>1, <1>2, <1>3, <1>4, <1>5 DEF SlaveStep

\* Every step of the master preserves the invariant.
LEMMA MasterSteps == IndInv /\ MasterStep => IndInv'
<1> SUFFICES ASSUME IndInv, MasterStep PROVE IndInv'
    OBVIOUS
<1>1. ASSUME NEW c \in Conns,
             \/ AnswerHandshake(c) \/ crdtPsyncCommand(c) \/ RefusePsync(c)
             \/ Acknowledge(c) \/ ReadEof(c) \/ TimeoutSlave(c)
      PROVE  IndInv'
    BY <1>1, AnswerStep, PsyncStep, RefuseStep, AcknowledgeStep, ReadEofStep, TimeoutStep
<1>2. CASE startCrdtBgsaveForReplication \/ BgsaveFails \/ ChildWrites
    BY <1>2, StartStep, BgsaveFailsStep, ChildWritesStep
<1>3. CASE backgroundSaveDoneHandlerSocket \/ ChildFails
    BY <1>3, DoneStep, ChildFailsStep
<1>4. CASE Write \/ freeReplicationBacklog
    BY <1>4, WriteStep, FreeBacklogStep
<1> QED BY <1>1, <1>2, <1>3, <1>4 DEF MasterStep

\* The invariant of the link: what is in the pipe to the slave is what the slave
\* is missing, given what it waits for and what the master believes of it.
THEOREM Invariance == Spec => []IndInv
<1>1. IndInv /\ [Next]_vars => IndInv'
    BY SlaveSteps, MasterSteps, StutterStep DEF Next
<1> QED BY <1>1, InitInv, PTL DEF Spec

\* On a connected link the offset of the slave, what is on its way and what
\* waits in the output buffer of the master add up to crdtServer.master_repl_offset,
\* under the replication id of the master, for any number of writes, faults,
\* connections and replication ids.
THEOREM OffsetsAddUp == Spec => []OffsetExact
<1>1. IndInv => OffsetExact
    <2> SUFFICES ASSUME IndInv, repl_state = "CONNECTED", conn \in slaves
                 PROVE  /\ master.replid = replid
                        /\ master.reploff + Len(querybuf) + Len(down[conn])
                              + Len(client[conn].reply) = offset
        BY DEF OffsetExact
    <2> DEFINE n == Len(client[conn].reply)
    <2>1. StreamOk(master.replid, master.reploff, pipe) /\ client[conn].replstate # "NONE"
        BY DEF IndInv, PhaseInv, InStream, slaves
    <2>2. master.replid = replid /\ master.reploff + Len(pipe) + n = offset
        BY <2>1, Zenon DEF StreamOk, StreamAt, Abreast
    <2>3. /\ querybuf \in Seq(DownMsg) /\ down[conn] \in Seq(DownMsg) /\ master.reploff \in Int
        BY DEF IndInv, TypeInv, WireInv
    <2>4. Len(pipe) = Len(querybuf) + Len(down[conn])
        BY <2>3, ConcatProperties DEF pipe
    <2>5. Len(querybuf) \in Nat /\ Len(down[conn]) \in Nat
        BY <2>3, LenProperties
    <2> HIDE DEF n
    <2>6. master.reploff + Len(querybuf) + Len(down[conn]) + n = offset
        BY <2>2, <2>3, <2>4, <2>5
    <2> QED BY <2>2, <2>6 DEF n
<1> QED BY <1>1, Invariance, PTL

\* Steps that the abstract stream does not see.
LEMMA Unseen ==
    ASSUME UNCHANGED <<written, got>>, (repl_state' = "CONNECTED") = (repl_state = "CONNECTED")
    PROVE  UNCHANGED Stream!vars
BY DEF Stream!vars, lastGot

\* Steps that only connect or disconnect the link.
LEMMA Switches ==
    ASSUME UNCHANGED <<written, got>>
    PROVE  [Stream!Next]_(Stream!vars)
<1>1. lastGot' = lastGot
    BY DEF lastGot
<1>2. CASE (repl_state' = "CONNECTED") = (repl_state = "CONNECTED")
    BY <1>2, Unseen
<1>3. CASE (repl_state' = "CONNECTED") # (repl_state = "CONNECTED")
    BY <1>1, <1>3 DEF Stream!Next, Stream!Switch
<1> QED BY <1>2, <1>3

\* The slave applies a command or a snapshot.
LEMMA Applies == IndInv /\ processInputBuffer => [Stream!Next]_(Stream!vars)
<1> SUFFICES ASSUME IndInv, processInputBuffer PROVE [Stream!Next]_(Stream!vars)
    OBVIOUS
<1>1. Advances /\ written' = written
    BY ProcessStep DEF processInputBuffer, masterVars
<1>2. lastGot \in Nat /\ written \in Nat /\ lastGot <= written /\ lastGot' \in Nat
    BY <1>1 DEF IndInv, TypeInv, Advances
<1>3. CASE lastGot' = lastGot
    <2>1. CASE (repl_state' = "CONNECTED") = (repl_state = "CONNECTED")
        BY <1>1, <1>3, <2>1 DEF Stream!vars
    <2>2. CASE (repl_state' = "CONNECTED") # (repl_state = "CONNECTED")
        BY <1>1, <1>3, <2>2 DEF Stream!Next, Stream!Switch
    <2> QED BY <2>1, <2>2
<1>4. CASE lastGot' # lastGot /\ repl_state = "CONNECTED"
    <2>1. lastGot' = lastGot + 1 /\ lastGot < written /\ repl_state' = "CONNECTED"
        BY <1>1, <1>2, <1>4 DEF Advances
    <2> QED BY <1>1, <1>4, <2>1 DEF Stream!Next, Stream!Deliver
<1>5. CASE lastGot' # lastGot /\ repl_state # "CONNECTED"
    <2>1. lastGot' \in lastGot..written /\ repl_state' # "CONNECTED"
        BY <1>1, <1>5 DEF Advances
    <2> QED BY <1>1, <1>5, <2>1 DEF Stream!Next, Stream!Synchronise
<1> QED BY <1>3, <1>4, <1>5

\* Every step of the link is a step of the stream or changes nothing of it.
LEMMA StepSimulation == IndInv /\ [Next]_vars => [Stream!Next]_(Stream!vars)
<1> SUFFICES ASSUME IndInv, [Next]_vars PROVE [Stream!Next]_(Stream!vars)
    OBVIOUS
<1>1. CASE UNCHANGED vars
    BY <1>1, Switches DEF vars, masterVars, slaveVars
<1>2. CASE processInputBuffer
    BY <1>2, Applies
<1>3. CASE Write
    <2>1. lastGot' = lastGot /\ repl_state' = repl_state /\ written' = written + 1
        BY <1>3 DEF Write, slaveVars, lastGot
    <2> QED BY <2>1 DEF Stream!Next, Stream!Write
<1>4. CASE SlaveStep /\ ~processInputBuffer
    <2>1. UNCHANGED <<written, got>>
        BY <1>4, Zenon DEF SlaveStep, crdtConnectWithMaster, crdtSyncWithMaster,
                    crdtSlaveTryPartialResynchronization, readQueryFromClient, ReadMasterEof,
                    LoseConnection, crdtCancelReplicationHandshake, masterVars
    <2> QED BY <2>1, Switches
<1>5. CASE crdtReplicationSendAck
    BY <1>5, Switches DEF crdtReplicationSendAck, masterVars, slaveVars
<1>6. CASE MasterStep /\ ~Write
    <2>1. UNCHANGED slaveVars /\ written' = written
        <3>1. ASSUME NEW c \in Conns,
                     \/ AnswerHandshake(c) \/ crdtPsyncCommand(c) \/ RefusePsync(c)
                     \/ Acknowledge(c) \/ ReadEof(c) \/ TimeoutSlave(c)
              PROVE  UNCHANGED slaveVars /\ written' = written
            <4>1. CASE AnswerHandshake(c) \/ RefusePsync(c) \/ Acknowledge(c)
                BY <4>1 DEF AnswerHandshake, RefusePsync, Acknowledge, masterVars
            <4>2. CASE crdtPsyncCommand(c)
                BY <4>2 DEF crdtPsyncCommand
            <4>3. CASE ReadEof(c) \/ TimeoutSlave(c)
                BY <4>3 DEF ReadEof, TimeoutSlave, masterVars
            <4> QED BY <3>1, <4>1, <4>2, <4>3
        <3>2. CASE startCrdtBgsaveForReplication \/ BgsaveFails \/ ChildWrites
            BY <3>2 DEF startCrdtBgsaveForReplication, BgsaveFails, ChildWrites
        <3>3. CASE backgroundSaveDoneHandlerSocket \/ ChildFails \/ freeReplicationBacklog
            BY <3>3, Zenon DEF backgroundSaveDoneHandlerSocket, ChildFails, freeReplicationBacklog
        <3> QED BY <1>6, <3>1, <3>2, <3>3 DEF MasterStep
    <2> QED BY <2>1, Switches DEF slaveVars
<1> QED BY <1>1, <1>2, <1>3, <1>4, <1>5, <1>6 DEF Next

\* The link implements the stream without gaps of PeerStream: whatever breaks, a
\* connected slave applies the next write or one it has applied before
\* (processInputBuffer), a snapshot never sets it back, and a partial
\* synchronisation (crdtPsyncCommand) goes on where it has stopped.
THEOREM LinkImplementsStream == Spec => ImplementsStream
<1>1. Init => Stream!Init
    <2> SUFFICES ASSUME Init PROVE Stream!Init
        OBVIOUS
    <2>1. lastGot = 0
        <3>1. {} = 1..0
            OBVIOUS
        <3>2. (CHOOSE w \in (1..0) \cup {0} : \A v \in 1..0 : v <= w) = 0
            BY LastOfInterval
        <3> QED BY <3>1, <3>2 DEF Init, lastGot
    <2> QED BY <2>1 DEF Init, Stream!Init
<1> QED BY <1>1, StepSimulation, Invariance, PTL DEF Spec, ImplementsStream, Stream!Spec

=============================================================================
