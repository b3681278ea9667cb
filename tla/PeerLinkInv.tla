---------------------------- MODULE PeerLinkInv ----------------------------
(***************************************************************************)
(* The invariant of PeerLink from which the proofs about it follow, the    *)
(* lemmas that both sides of the link need, and the steps in which the     *)
(* master ends connections and answers a handshake.                        *)
(*                                                                         *)
(* The invariant says what is in the pipe to the slave, given what the     *)
(* slave waits for and what the master believes of it.                     *)
(***************************************************************************)
EXTENDS PeerLink, SequenceTheorems, TLAPS

States == {"NONE", "WAIT_BGSAVE_START", "WAIT_BGSAVE_END", "ONLINE"}

Eof == [type |-> "EOF"]
Command(w) == [type |-> "command", write |-> w]
Merge(u) == [type |-> "MERGE", upto |-> u]
MergeEnd(id, o) == [type |-> "MERGE_END", replid |-> id, offset |-> o]

DownMsg ==
    [type : {"OK", "ERR", "LOADING", "EOF", "MERGE_START"}]
        \cup [type : {"command"}, write : Nat]
        \cup [type : {"MERGE"}, upto : Nat]
        \cup [type : {"FULLRESYNC", "MERGE_END"}, replid : Nat, offset : Nat]
        \cup [type : {"CONTINUE"}, replid : Nat]

Requests == {"PING", "CRDT.AUTH", "AUTH", "listening-port", "ip-address", "capa", "min-vc"}

UpMsg ==
    [type : Requests \cup {"ACK"}]
        \cup [type : {"PSYNC"}, replid : Int, offset : Int]

Client == [replstate : States, put_online_on_ack : BOOLEAN, reply : Seq(Nat)]
Child == [running : BOOLEAN, conns : SUBSET Conns, written : Nat, replid : Nat, offset : Nat]

\* The types of the variables.
TypeInv ==
    /\ written \in Nat /\ replid \in Nat /\ offset \in Nat /\ backlog \in Seq(Nat)
    /\ client \in [Conns -> Client]
    /\ child \in Child \cup {NoChild}
    /\ ends \in [Conns -> SUBSET {"slave", "master"}]
    /\ down \in [Conns -> Seq(DownMsg)] /\ up \in [Conns -> Seq(UpMsg)]
    /\ repl_state \in {"CONNECT", "HANDSHAKE", "RECEIVE_PSYNC", "TRANSFER", "CONNECTED"}
    /\ round \in 0..Len(Handshake) /\ conn \in 0..(MaxFaults + 1)
    /\ cached \in [replid : Int, reploff : Int]
    /\ master \in [replid : Int, reploff : Int, read_reploff : Int]
    /\ querybuf \in Seq(DownMsg) /\ held \subseteq 0..replid
    /\ lastGot \in 0..written /\ got = 1..lastGot
    /\ faults \in Nat

\* Connections: nothing is on its way to an end that is closed, only the
\* latest connection has the slave's end open, a client exists only at a
\* master's end that is open, and one that has asked and has no answer is new.
WireInv ==
    /\ \A c \in Conns : "slave" \notin ends[c] => down[c] = <<>>
    /\ \A c \in Conns : "master" \notin ends[c] => up[c] = <<>> /\ client[c] = NewClient
    /\ \A c \in Conns : c # conn => "slave" \notin ends[c]
    /\ \A c \in Conns : c > conn => ends[c] = {}
    /\ \A c \in Conns : \A i \in 1..Len(up[c]) :
          up[c][i].type = "PSYNC" => Len(up[c]) = 1 /\ client[c] = NewClient
    /\ IF repl_state = "CONNECT"
       THEN \A c \in Conns : "slave" \notin ends[c]
       ELSE conn \in Conns /\ "slave" \in ends[conn]

\* The last writes, up to w.
LastWrites(ws, w) ==
    Len(ws) <= w /\ \A i \in 1..Len(ws) : ws[i] = w - Len(ws) + i

\* The master's clients, its child and its backlog.
MasterInv ==
    /\ slaves # {} => backlog # NoBacklog
    /\ backlog # NoBacklog => LastWrites(backlog, written)
    /\ \A c \in Conns :
          /\ client[c].replstate \in {"NONE", "WAIT_BGSAVE_START"} => client[c].reply = <<>>
          /\ client[c].replstate \in {"NONE", "WAIT_BGSAVE_START", "WAIT_BGSAVE_END"}
                => ~client[c].put_online_on_ack
          /\ Writable(c) => client[c].reply = <<>>
          /\ LastWrites(client[c].reply, written)
          /\ client[c].replstate = "WAIT_BGSAVE_END" => child # NoChild /\ c \in child.conns
    /\ child.running =>
          /\ child # NoChild
          /\ \A c \in child.conns :
                "slave" \in ends[c] => client[c].replstate = "WAIT_BGSAVE_END"
    /\ child # NoChild => \A c \in child.conns : c <= conn

\* What the slave may ask to continue from: under the id r of the master, whose
\* backlog is b, no more than it has applied.
Behind(id, off, g, r, w, o, b) == id = r /\ b # NoBacklog => off + (w - o) <= g

CacheInv ==
    /\ cached.replid = NoId \/ cached.reploff >= 0
    /\ cached.replid <= replid
    /\ Behind(cached.replid, cached.reploff, lastGot, replid, written, offset, backlog)
    /\ \A id \in held : Behind(id, 0, lastGot, replid, written, offset, backlog)

\* The rest p of a stream, read by a slave with this id and offset that has
\* applied g writes.  The client that the master has for it is in state st, with n
\* writes in its output buffer.
Stretch(p, a, w) ==
    \A i \in 1..Len(p) : p[i] = Eof \/ (p[i] = Command(a + i) /\ a + i <= w)

NoEof(p) == \A i \in 1..Len(p) : p[i] # Eof

\* Nothing is missing between the slave and the master.
Abreast(id, off, p, a, r, w, o, n) ==
    id = r /\ off + Len(p) + n = o /\ a + Len(p) + n = w /\ NoEof(p)

StreamAt(id, off, p, g, r, w, o, b, st, n) ==
    \E a \in 0..g :
        /\ Stretch(p, a, w)
        /\ Behind(id, off, a, r, w, o, b)
        /\ st # "NONE" => Abreast(id, off, p, a, r, w, o, n)

StreamOk(id, off, p) ==
    StreamAt(id, off, p, lastGot, replid, written, offset, backlog,
             client[conn].replstate, Len(client[conn].reply))

\* The rest p of a snapshot that stands for the writes up to u, and for the
\* offset f under id.
SnapshotPart(p, u, id, f, g) ==
    \A i \in 1..Len(p) :
        \/ p[i] = [type |-> "MERGE_START"]
        \/ p[i] = Merge(u)
        \/ /\ p[i] = MergeEnd(id, f)
           /\ u <= g \/ \E j \in 1..(i - 1) : p[j] = Merge(u)
           /\ \A j \in (i + 1)..Len(p) : p[j] = Eof
        \/ p[i] = Eof

\* Nothing is missing between the snapshot and the master.
Recent(p, u, id, f, r, w, o, n) == id = r /\ f + n = o /\ u + n = w /\ NoEof(p)

\* The child has still to write it.
Unwritten(p, u, id, f, ch) == p = <<>> /\ ch.written = u /\ ch.replid = id /\ ch.offset = f

SnapshotAt(p, g, r, w, o, b, st, n, ch) ==
    \E u \in 0..w, id \in 0..r, f \in 0..o :
        /\ SnapshotPart(p, u, id, f, g)
        /\ Behind(id, f, u, r, w, o, b)
        /\ st # "NONE" => Recent(p, u, id, f, r, w, o, n)
        /\ st = "WAIT_BGSAVE_END" /\ ch.running => Unwritten(p, u, id, f, ch)

SnapshotOk(p) ==
    /\ client[conn].replstate \in {"NONE", "WAIT_BGSAVE_END", "ONLINE"}
    /\ client[conn].replstate = "ONLINE" => client[conn].put_online_on_ack
    /\ SnapshotAt(p, lastGot, replid, written, offset, backlog,
                  client[conn].replstate, Len(client[conn].reply), child)

pipe == querybuf \o down[conn]

InHandshake ==
    /\ querybuf = <<>> /\ client[conn] = NewClient /\ "master" \in ends[conn]
    /\ round \in 1..Len(Handshake)
    /\ up[conn] = <<>> \/ down[conn] = <<>>
    /\ Len(up[conn]) <= 1
    /\ Len(down[conn]) <= 1
    /\ \A i \in 1..Len(up[conn]) : up[conn][i].type \in Requests
    /\ \A i \in 1..Len(down[conn]) : down[conn][i].type \in {"OK", "ERR"}

Asked == up[conn] = <<PsyncRequest>> /\ down[conn] = <<>> /\ client[conn] = NewClient
Refused ==
    /\ up[conn] = <<>> /\ client[conn] = NewClient
    /\ \A i \in 1..Len(down[conn]) : down[conn][i].type \in {"LOADING", "ERR", "EOF"}
Waits ==
    /\ up[conn] = <<>> /\ down[conn] = <<>>
    /\ client[conn].replstate = "WAIT_BGSAVE_START"
Continues ==
    /\ up[conn] = <<>> /\ down[conn] # <<>>
    /\ Head(down[conn]) = [type |-> "CONTINUE", replid |-> cached.replid]
    /\ client[conn].replstate = "NONE" \/ Writable(conn)
    /\ StreamOk(cached.replid, cached.reploff, Tail(down[conn]))
Resyncs ==
    /\ up[conn] = <<>> /\ down[conn] # <<>>
    /\ Head(down[conn]).type = "FULLRESYNC"
    /\ SnapshotOk(Tail(down[conn]))

InPsync == querybuf = <<>> /\ (Asked \/ Refused \/ Waits \/ Continues \/ Resyncs)

InTransfer ==
    /\ up[conn] = <<>>
    /\ SnapshotOk(pipe)
    /\ master.replid \in held \cup {Garbage} /\ master.reploff = 0

InStream ==
    /\ \A i \in 1..Len(up[conn]) : up[conn][i].type = "ACK"
    /\ client[conn].replstate \in {"NONE", "WAIT_BGSAVE_END", "ONLINE"}
    /\ client[conn].replstate = "WAIT_BGSAVE_END" => ~child.running
    /\ master.replid <= replid /\ master.reploff >= 0
    /\ master.read_reploff = master.reploff + Len(querybuf)
    /\ StreamOk(master.replid, master.reploff, pipe)

PhaseInv ==
    /\ \A i \in 1..Len(querybuf) : querybuf[i] # Eof
    /\ repl_state = "CONNECT" => querybuf = <<>>
    /\ repl_state = "HANDSHAKE" => InHandshake
    /\ repl_state = "RECEIVE_PSYNC" => InPsync
    /\ repl_state = "TRANSFER" => InTransfer
    /\ repl_state = "CONNECTED" => InStream

IndInv == TypeInv /\ WireInv /\ MasterInv /\ CacheInv /\ PhaseInv

-----------------------------------------------------------------------------
(***************************************************************************)
(* What happens to the rest of a stream, and of a snapshot.                *)
(***************************************************************************)

\* The commands of some writes.
LEMMA CommandsFacts ==
    ASSUME NEW ws \in Seq(Nat)
    PROVE  /\ Commands(ws) \in Seq(DownMsg)
           /\ Len(Commands(ws)) = Len(ws)
           /\ \A i \in 1..Len(ws) : Commands(ws)[i] = Command(ws[i])
<1>1. Len(ws) \in Nat /\ DOMAIN ws = 1..Len(ws) /\ \A i \in 1..Len(ws) : ws[i] \in Nat
    BY LenProperties, ElementOfSeq
<1>2. \A i \in 1..Len(ws) : Command(ws[i]) \in DownMsg
    BY <1>1 DEF Command, DownMsg
<1>3. Commands(ws) = [i \in 1..Len(ws) |-> Command(ws[i])]
    BY <1>1 DEF Commands, Command
<1>4. Commands(ws) \in [1..Len(ws) -> DownMsg]
    BY <1>2, <1>3
<1>5. Commands(ws) \in Seq(DownMsg)
    BY <1>1, <1>4, SeqDef
<1>6. Len(Commands(ws)) = Len(ws)
    BY <1>1, <1>4, <1>5, LenProperties
<1> QED BY <1>3, <1>5, <1>6

\* The client is freed, and the end of the stream is sent.
LEMMA StreamClose ==
    ASSUME NEW id \in Int, NEW off \in Int, NEW p \in Seq(DownMsg), NEW g \in Nat,
           NEW r \in Nat, NEW w \in Nat, NEW o \in Nat, NEW b, NEW st, NEW n \in Nat,
           StreamAt(id, off, p, g, r, w, o, b, st, n)
    PROVE  StreamAt(id, off, p \o <<Eof>>, g, r, w, o, b, "NONE", 0)
<1> DEFINE q == p \o <<Eof>>
<1>1. PICK a \in 0..g : StreamAt(id, off, p, g, r, w, o, b, st, n)!(a)
    BY DEF StreamAt
<1>2. Eof \in DownMsg
    BY DEF Eof, DownMsg
<1>3. /\ Len(p) \in Nat
      /\ Len(q) = Len(p) + 1
      /\ \A i \in 1..Len(p) : q[i] = p[i]
      /\ q[Len(p) + 1] = Eof
    BY <1>2, LenProperties, AppendProperties, AppendIsConcat
<1>4. Stretch(q, a, w)
    BY <1>1, <1>3 DEF Stretch
<1> QED BY <1>1, <1>4 DEF StreamAt

\* The backlog is freed or created, under a new id.
LEMMA StreamRenew ==
    ASSUME NEW id \in Int, NEW off, NEW p, NEW g, NEW r \in Nat, NEW w, NEW o,
           NEW b, NEW b2, NEW n,
           StreamAt(id, off, p, g, r, w, o, b, "NONE", n), id <= r
    PROVE  StreamAt(id, off, p, g, r + 1, w, o, b2, "NONE", n)
<1>1. PICK a \in 0..g : StreamAt(id, off, p, g, r, w, o, b, "NONE", n)!(a)
    BY DEF StreamAt
<1>2. Behind(id, off, a, r + 1, w, o, b2)
    BY DEF Behind
<1> QED BY <1>1, <1>2 DEF StreamAt

\* The backlog is freed or created, under a new id.
LEMMA SnapshotRenew ==
    ASSUME NEW p, NEW g, NEW r \in Nat, NEW w, NEW o, NEW b, NEW n, NEW ch, NEW b2,
           SnapshotAt(p, g, r, w, o, b, "NONE", n, ch)
    PROVE  SnapshotAt(p, g, r + 1, w, o, b2, "NONE", n, ch)
<1>1. PICK u \in 0..w, id \in 0..r, f \in 0..o :
          SnapshotAt(p, g, r, w, o, b, "NONE", n, ch)!(u, id, f)
    BY DEF SnapshotAt
<1>2. id \in 0..(r + 1) /\ Behind(id, f, u, r + 1, w, o, b2)
    BY <1>1 DEF Behind
<1> QED BY <1>1, <1>2 DEF SnapshotAt

\* The master learns that the child is done, or the child another one.
LEMMA SnapshotDone ==
    ASSUME NEW p, NEW g, NEW r, NEW w, NEW o, NEW b, NEW st, NEW n, NEW ch, NEW st2, NEW ch2,
           SnapshotAt(p, g, r, w, o, b, st, n, ch),
           st = "NONE" => st2 = "NONE",
           ~(st2 = "WAIT_BGSAVE_END" /\ ch2.running)
    PROVE  SnapshotAt(p, g, r, w, o, b, st2, n, ch2)
BY DEF SnapshotAt

\* The client is freed, and the end of the stream is sent.
LEMMA SnapshotClose ==
    ASSUME NEW p \in Seq(DownMsg), NEW g, NEW r \in Nat, NEW w \in Nat, NEW o \in Nat, NEW b,
           NEW st, NEW n, NEW ch, NEW ch2,
           SnapshotAt(p, g, r, w, o, b, st, n, ch)
    PROVE  SnapshotAt(p \o <<Eof>>, g, r, w, o, b, "NONE", 0, ch2)
<1> DEFINE q == p \o <<Eof>>
<1>1. PICK u \in 0..w, id \in 0..r, f \in 0..o : SnapshotAt(p, g, r, w, o, b, st, n, ch)!(u, id, f)
    BY DEF SnapshotAt
<1>2. Eof \in DownMsg
    BY DEF Eof, DownMsg
<1>3. /\ Len(p) \in Nat
      /\ Len(q) = Len(p) + 1
      /\ \A i \in 1..Len(p) : q[i] = p[i]
      /\ q[Len(p) + 1] = Eof
    BY <1>2, LenProperties, AppendProperties, AppendIsConcat
<1>4. SnapshotPart(q, u, id, f, g)
    <2> SUFFICES ASSUME NEW i \in 1..(Len(p) + 1)
                 PROVE  SnapshotPart(q, u, id, f, g)!(i)
        BY <1>3, Zenon DEF SnapshotPart
    <2>1. CASE i = Len(p) + 1
        BY <1>3, <2>1
    <2>2. CASE i \in 1..Len(p)
        <3>1. SnapshotPart(p, u, id, f, g)!(i) /\ q[i] = p[i]
            BY <1>1, <1>3, <2>2 DEF SnapshotPart
        <3>2. \A j \in 1..(i - 1) : q[j] = p[j]
            BY <1>3, <2>2
        <3>3. \A j \in (i + 1)..(Len(p) + 1) : j \in (i + 1)..Len(p) \/ q[j] = Eof
            BY <1>3, <2>2
        <3>4. \A j \in (i + 1)..Len(p) : q[j] = p[j]
            BY <1>3, <2>2
        <3> QED BY <1>3, <3>1, <3>2, <3>3, <3>4
    <2> QED BY <1>3, <2>1, <2>2, SMTT(20)
<1> QED BY <1>1, <1>4 DEF SnapshotAt

\* The three parts of a snapshot.
LEMMA SnapshotFacts ==
    ASSUME NEW ch, ch.written \in Nat, ch.replid \in Nat, ch.offset \in Nat
    PROVE  /\ Snapshot(ch) \in Seq(DownMsg) /\ Len(Snapshot(ch)) = 3
           /\ Snapshot(ch)[1] = [type |-> "MERGE_START"]
           /\ Snapshot(ch)[2] = Merge(ch.written)
           /\ Snapshot(ch)[3] = MergeEnd(ch.replid, ch.offset)
<1>1. /\ [type |-> "MERGE_START"] \in DownMsg
      /\ Merge(ch.written) \in DownMsg
      /\ MergeEnd(ch.replid, ch.offset) \in DownMsg
    BY DEF DownMsg, Merge, MergeEnd
<1>2. Snapshot(ch) = <<[type |-> "MERGE_START"], Merge(ch.written), MergeEnd(ch.replid, ch.offset)>>
    BY DEF Snapshot, Merge, MergeEnd
<1> QED BY <1>1, <1>2

\* The child dies with part of the snapshot written, and the client is freed.
LEMMA SnapshotFailed ==
    ASSUME NEW g \in Nat, NEW r \in Nat, NEW w \in Nat, NEW o \in Nat, NEW b, NEW n, NEW ch, NEW ch2,
           NEW k \in 0..2, ch.running,
           SnapshotAt(<<>>, g, r, w, o, b, "WAIT_BGSAVE_END", n, ch)
    PROVE  /\ SubSeq(Snapshot(ch), 1, k) \in Seq(DownMsg)
           /\ SnapshotAt(SubSeq(Snapshot(ch), 1, k) \o <<Eof>>, g, r, w, o, b, "NONE", 0, ch2)
<1>1. PICK u \in 0..w, id \in 0..r, f \in 0..o :
          SnapshotAt(<<>>, g, r, w, o, b, "WAIT_BGSAVE_END", n, ch)!(u, id, f)
    BY DEF SnapshotAt
<1>2. ch.written = u /\ ch.replid = id /\ ch.offset = f
    BY <1>1 DEF Unwritten
<1> DEFINE q == SubSeq(Snapshot(ch), 1, k)
<1>3. /\ Snapshot(ch) \in Seq(DownMsg) /\ Len(Snapshot(ch)) = 3
      /\ Snapshot(ch)[1] = [type |-> "MERGE_START"] /\ Snapshot(ch)[2] = Merge(u)
    BY <1>2, SnapshotFacts
<1>4. \A i \in 1..k : Snapshot(ch)[i] \in DownMsg
    <2> SUFFICES ASSUME NEW i \in 1..k
                 PROVE  Snapshot(ch)[i] \in DownMsg
        OBVIOUS
    <2>1. i \in 1..Len(Snapshot(ch))
        BY <1>3
    <2> QED BY <1>3, <2>1, ElementOfSeq, Zenon
<1>5. /\ q \in Seq(DownMsg) /\ Len(q) = k
      /\ \A i \in 1..k : q[i] = Snapshot(ch)[i]
    BY <1>4, SubSeqProperties
<1> HIDE DEF q
<1>6. SnapshotPart(q, u, id, f, g)
    <2> SUFFICES ASSUME NEW i \in 1..k
                 PROVE  q[i] = [type |-> "MERGE_START"] \/ q[i] = Merge(u)
        BY <1>5 DEF SnapshotPart
    <2>1. i = 1 \/ i = 2
        OBVIOUS
    <2> QED BY <1>3, <1>5, <2>1
<1>7. SnapshotAt(q, g, r, w, o, b, "NONE", n, ch)
    BY <1>1, <1>6 DEF SnapshotAt
<1>8. SnapshotAt(q \o <<Eof>>, g, r, w, o, b, "NONE", 0, ch2)
    BY <1>5, <1>7, SnapshotClose
<1> QED BY <1>5, <1>8 DEF q

-----------------------------------------------------------------------------
(***************************************************************************)
(* Facts the steps of both sides need.                                     *)
(***************************************************************************)

\* lastGot is the end of the interval of applied writes.
LEMMA LastOfInterval ==
    ASSUME NEW k \in Nat
    PROVE  (CHOOSE w \in (1..k) \cup {0} : \A v \in 1..k : v <= w) = k
<1>1. k \in (1..k) \cup {0} /\ \A v \in 1..k : v <= k
    OBVIOUS
<1>2. \A w \in (1..k) \cup {0} : (\A v \in 1..k : v <= w) => w = k
    OBVIOUS
<1> QED BY <1>1, <1>2

\* The requests of the handshake.
LEMMA HandshakeFacts ==
    /\ Len(Handshake) \in Nat /\ Len(Handshake) >= 1 /\ DOMAIN Handshake = 1..Len(Handshake)
    /\ \A i \in 1..Len(Handshake) : Handshake[i] \in Requests
    /\ Handshake[1] = "PING"
<1>1. <<"PING", "CRDT.AUTH">> \in Seq(Requests) /\ <<"listening-port">> \in Seq(Requests)
      /\ <<"capa", "min-vc">> \in Seq(Requests) /\ <<"AUTH">> \in Seq(Requests)
      /\ <<"ip-address">> \in Seq(Requests) /\ <<>> \in Seq(Requests)
    BY DEF Requests
<1> QED BY <1>1, ConcatProperties, LenProperties, ElementOfSeq DEF Handshake

\* What SendDown does.
LEMMA SendDownFacts ==
    ASSUME TypeInv, WireInv, NEW msgs, SendDown(msgs),
           \A c \in Conns : c \in DOMAIN msgs => msgs[c] \in Seq(DownMsg)
    PROVE  /\ down' \in [Conns -> Seq(DownMsg)]
           /\ \A c \in Conns :
                 /\ c \notin DOMAIN msgs => down'[c] = down[c]
                 /\ "slave" \notin ends[c] => down'[c] = <<>>
                 /\ c \in DOMAIN msgs /\ "slave" \in ends[c] => down'[c] = down[c] \o msgs[c]
<1>1. \A c \in Conns : down[c] \in Seq(DownMsg)
    BY DEF TypeInv
<1>2. \A c \in Conns : c \in DOMAIN msgs => down[c] \o msgs[c] \in Seq(DownMsg)
    BY <1>1, ConcatProperties
<1> QED BY <1>1, <1>2, Zenon DEF SendDown, WireInv

\* A step of the slave keeps the invariant of the master: it dials new
\* connections and closes its ends, no more.
LEMMA MasterFrame ==
    ASSUME TypeInv, MasterInv, UNCHANGED masterVars, conn' \in Nat, conn' >= conn,
           \A c \in Conns : "slave" \in ends'[c] => "slave" \in ends[c] \/ c > conn
    PROVE  MasterInv'
<1>1. conn \in Nat /\ Conns \subseteq Nat
    BY ConstantsAssumption, SMTT(20) DEF TypeInv, Conns
<1>2. UNCHANGED <<written, backlog, client, child>> /\ slaves' = slaves
    BY DEF masterVars, slaves
<1>3. child # NoChild => child.conns \subseteq Conns
    BY DEF TypeInv, Child
<1>4. child # NoChild => \A c \in child.conns : c <= conn /\ c \in Conns /\ c \in Nat
    BY <1>1, <1>3, Zenon DEF MasterInv
<1>5. child.running =>
        /\ child # NoChild
        /\ \A c \in child.conns : "slave" \in ends'[c] => client[c].replstate = "WAIT_BGSAVE_END"
    BY <1>1, <1>4 DEF MasterInv
<1>6. child # NoChild => \A c \in child.conns : c <= conn'
    BY <1>1, <1>4
<1> QED BY <1>2, <1>5, <1>6 DEF MasterInv, Writable

\* The cached master depends only on what the slave remembers and on the
\* identities and offsets the master has used.
LEMMA CacheFrame ==
    ASSUME CacheInv, UNCHANGED <<written, replid, offset, backlog, cached, held, got>>
    PROVE  CacheInv'
BY DEF CacheInv, lastGot

\* Nothing that the slave would notice.
LEMMA PhaseFrame ==
    ASSUME PhaseInv, UNCHANGED <<slaveVars, written, replid, offset, backlog, child>>,
           repl_state # "CONNECT" =>
              /\ down'[conn] = down[conn] /\ up'[conn] = up[conn]
              /\ client'[conn] = client[conn] /\ ends'[conn] = ends[conn]
    PROVE  PhaseInv'
<1>1. UNCHANGED <<repl_state, round, conn, cached, master, querybuf, held, got>> /\ lastGot' = lastGot
    BY DEF slaveVars, lastGot
<1>2. CASE repl_state = "CONNECT"
    BY <1>1, <1>2 DEF PhaseInv
<1>3. CASE repl_state = "HANDSHAKE"
    BY <1>1, <1>3 DEF PhaseInv, InHandshake
<1>4. CASE repl_state = "RECEIVE_PSYNC"
    <2> USE <1>1, <1>4
    <2>1. Asked => Asked'
        BY DEF Asked, PsyncRequest
    <2>2. Refused => Refused'
        BY DEF Refused
    <2>3. Waits => Waits'
        BY DEF Waits
    <2>4. Continues => Continues'
        BY DEF Continues, StreamOk, Writable
    <2>5. Resyncs => Resyncs'
        BY DEF Resyncs, SnapshotOk
    <2> QED BY <2>1, <2>2, <2>3, <2>4, <2>5 DEF PhaseInv, InPsync
<1>5. CASE repl_state = "TRANSFER"
    BY <1>1, <1>5 DEF PhaseInv, InTransfer, SnapshotOk, pipe
<1>6. CASE repl_state = "CONNECTED"
    BY <1>1, <1>6 DEF PhaseInv, InStream, StreamOk, pipe
<1> QED BY <1>1, <1>2, <1>3, <1>4, <1>5, <1>6 DEF PhaseInv

\* A sequence of one element.
LEMMA OneElement ==
    ASSUME NEW S, NEW x \in S
    PROVE  /\ <<x>> \in Seq(S) /\ <<x>> # <<>> /\ Len(<<x>>) = 1 /\ <<x>>[1] = x
           /\ Head(<<x>>) = x /\ Tail(<<x>>) = <<>> /\ Len(<<>>) = 0
OBVIOUS

\* The first message of q, followed by d.
LEMMA PipeHead ==
    ASSUME NEW q \in Seq(DownMsg), q # <<>>, NEW d \in Seq(DownMsg)
    PROVE  /\ q \o d \in Seq(DownMsg) /\ q \o d # <<>> /\ (q \o d)[1] = Head(q)
           /\ Tail(q \o d) = Tail(q) \o d
           /\ Tail(q) \in Seq(DownMsg) /\ Len(Tail(q)) = Len(q) - 1
           /\ Len(q) \in Nat \ {0} /\ Len(q \o d) = Len(q) + Len(d)
           /\ \A i \in 1..Len(q) : (q \o d)[i] = q[i]
           /\ \A i \in 1..(Len(q) - 1) : Tail(q)[i] = q[i + 1]
           /\ q[1] = Head(q)
<1>1. /\ Len(q) \in Nat \ {0} /\ Len(d) \in Nat /\ Head(q) = q[1]
      /\ Tail(q) \in Seq(DownMsg) /\ Len(Tail(q)) = Len(q) - 1
      /\ \A i \in 1..(Len(q) - 1) : Tail(q)[i] = q[i + 1]
    BY EmptySeq, LenProperties, HeadTailProperties
<1>2. /\ q \o d \in Seq(DownMsg) /\ Len(q \o d) = Len(q) + Len(d)
      /\ \A i \in 1..(Len(q) + Len(d)) :
            (q \o d)[i] = IF i <= Len(q) THEN q[i] ELSE d[i - Len(q)]
    BY ConcatProperties
<1>3. q \o d # <<>> /\ (q \o d)[1] = Head(q)
    BY <1>1, <1>2, EmptySeq
<1>4. /\ Tail(q \o d) \in Seq(DownMsg) /\ Len(Tail(q \o d)) = Len(q) + Len(d) - 1
      /\ \A i \in 1..(Len(q) + Len(d) - 1) : Tail(q \o d)[i] = (q \o d)[i + 1]
    BY <1>2, <1>3, HeadTailProperties
<1>5. /\ Tail(q) \o d \in Seq(DownMsg) /\ Len(Tail(q) \o d) = Len(q) - 1 + Len(d)
      /\ \A i \in 1..(Len(q) - 1 + Len(d)) :
            (Tail(q) \o d)[i] = IF i <= Len(q) - 1 THEN Tail(q)[i] ELSE d[i - (Len(q) - 1)]
    BY <1>1, ConcatProperties
<1>6. ASSUME NEW i \in 1..(Len(q) + Len(d) - 1)
      PROVE  Tail(q \o d)[i] = (Tail(q) \o d)[i]
    <2>1. i + 1 \in 1..(Len(q) + Len(d)) /\ i \in 1..(Len(q) - 1 + Len(d))
        BY <1>1
    <2>2. CASE i <= Len(q) - 1
        <3>1. i \in 1..(Len(q) - 1) /\ i + 1 <= Len(q)
            BY <1>1, <2>2
        <3> QED BY <1>1, <1>2, <1>4, <1>5, <2>1, <3>1
    <2>3. CASE ~(i <= Len(q) - 1)
        <3>1. ~(i + 1 <= Len(q)) /\ i + 1 - Len(q) = i - (Len(q) - 1)
            BY <1>1, <2>3
        <3> QED BY <1>2, <1>4, <1>5, <2>1, <2>3, <3>1
    <2> QED BY <2>2, <2>3
<1>7. Tail(q \o d) = Tail(q) \o d
    <2>1. Len(Tail(q \o d)) = Len(Tail(q) \o d)
        BY <1>1, <1>4, <1>5
    <2>2. \A i \in 1..Len(Tail(q \o d)) : Tail(q \o d)[i] = (Tail(q) \o d)[i]
        BY <1>4, <1>6
    <2> QED BY <1>4, <1>5, <2>1, <2>2, SeqEqual
<1> QED BY <1>1, <1>2, <1>3, <1>7

-----------------------------------------------------------------------------
(***************************************************************************)
(* What the slave notices of the steps of the master.                      *)
(***************************************************************************)

\* The slave reads a stream, or will: no child is going to write a snapshot.
Streaming ==
    /\ client[conn].replstate # "WAIT_BGSAVE_START"
    /\ client[conn].replstate = "WAIT_BGSAVE_END" => ~child.running

\* StreamOk and SnapshotOk after a step of the master.
StreamNext(id, off, p) ==
    StreamAt(id, off, p, lastGot, replid', written', offset', backlog',
             client'[conn].replstate, Len(client'[conn].reply))

SnapshotNext(p) ==
    /\ client'[conn].replstate \in {"NONE", "WAIT_BGSAVE_END", "ONLINE"}
    /\ client'[conn].replstate = "ONLINE" => client'[conn].put_online_on_ack
    /\ SnapshotAt(p, lastGot, replid', written', offset', backlog',
                  client'[conn].replstate, Len(client'[conn].reply), child')

\* The rest of a stream is as it should be once e is sent behind it.
StreamMoves(e) ==
    Streaming =>
        /\ Streaming'
        /\ \A id \in Int, off \in Int, p \in Seq(DownMsg) :
              id <= replid /\ StreamOk(id, off, p) => StreamNext(id, off, p \o e)

\* The same for the rest of a snapshot.
SnapshotMoves(e) ==
    up[conn] = <<>> => \A p \in Seq(DownMsg) : SnapshotOk(p) => SnapshotNext(p \o e)

\* One message before others.
LEMMA FirstMessage ==
    ASSUME NEW x \in DownMsg, NEW r \in Seq(DownMsg)
    PROVE  /\ <<x>> \in Seq(DownMsg) /\ <<x>> # <<>>
           /\ <<x>> \o r \in Seq(DownMsg) /\ <<x>> \o r # <<>>
           /\ (<<x>> \o r)[1] = x
           /\ Tail(<<x>> \o r) = r
<1>1. <<>> \o r = r
    BY ConcatEmptySeq
<1>2. /\ <<x>> \in Seq(DownMsg) /\ <<x>> # <<>>
      /\ Head(<<x>>) = x /\ Tail(<<x>>) = <<>>
    BY OneElement
<1> QED BY <1>1, <1>2, PipeHead

\* The last message of a snapshot.
LEMMA MergeEndFields ==
    ASSUME NEW id, NEW off, NEW x, x = MergeEnd(id, off)
    PROVE  x.type = "MERGE_END" /\ x.replid = id /\ x.offset = off
BY DEF MergeEnd

\* What the master sends on the connection is added at the end of the pipe.
LEMMA PipeGrows ==
    ASSUME NEW q \in Seq(DownMsg), NEW d \in Seq(DownMsg), NEW e \in Seq(DownMsg)
    PROVE  q \o (d \o e) = (q \o d) \o e /\ q \o d \in Seq(DownMsg)
<1>1. (q \o d) \o e = q \o (d \o e)
    BY ConcatAssociative
<1>2. q \o d \in Seq(DownMsg)
    BY ConcatProperties
<1> QED BY <1>1, <1>2

\* A step of the master that sends e to the slave.
LEMMA PhaseMoves ==
    ASSUME IndInv, UNCHANGED slaveVars, repl_state # "CONNECT", NEW e \in Seq(DownMsg),
           down'[conn] = down[conn] \o e, replid' \in Nat, replid' >= replid,
           repl_state = "HANDSHAKE" => InHandshake',
           repl_state = "RECEIVE_PSYNC" /\ (Asked \/ Refused \/ Waits) => InPsync',
           up[conn] = <<>> => up'[conn] = <<>>,
           (\A i \in 1..Len(up[conn]) : up[conn][i].type = "ACK") =>
               \A i \in 1..Len(up'[conn]) : up'[conn][i].type = "ACK",
           client[conn].replstate = "NONE" \/ Writable(conn) =>
               client'[conn].replstate = "NONE" \/ Writable(conn)',
           client'[conn].replstate \in States,
           StreamMoves(e), SnapshotMoves(e)
    PROVE  PhaseInv'
<1> USE DEF IndInv
<1> DEFINE D == down[conn]
<1>1. /\ UNCHANGED <<repl_state, round, conn, cached, master, querybuf, held, got>>
      /\ lastGot' = lastGot
    BY DEF slaveVars, lastGot
<1>2. conn \in Conns /\ D \in Seq(DownMsg) /\ querybuf \in Seq(DownMsg) /\ replid \in Nat
    BY DEF WireInv, TypeInv
<1>3. cached.replid \in Int /\ cached.reploff \in Int /\ master.replid \in Int /\ master.reploff \in Int
      /\ cached.replid <= replid
    BY DEF TypeInv, CacheInv
<1>4. ASSUME D # <<>>
      PROVE  /\ down'[conn'] # <<>> /\ Head(down'[conn']) = Head(D)
             /\ Tail(down'[conn']) = Tail(D) \o e /\ Tail(D) \in Seq(DownMsg)
    <2>1. /\ D \o e # <<>> /\ (D \o e)[1] = Head(D) /\ Tail(D \o e) = Tail(D) \o e
          /\ Tail(D) \in Seq(DownMsg) /\ D \o e \in Seq(DownMsg)
        BY <1>2, <1>4, PipeHead, Zenon
    <2>2. Head(D \o e) = (D \o e)[1]
        BY <2>1, HeadTailProperties
    <2> QED BY <1>1, <2>1, <2>2, Zenon
<1>5. pipe' = pipe \o e /\ pipe \in Seq(DownMsg)
    <2>0. D \in Seq(DownMsg) /\ querybuf \in Seq(DownMsg)
        BY <1>2
    <2>1. querybuf \o (D \o e) = (querybuf \o D) \o e /\ querybuf \o D \in Seq(DownMsg)
        BY <2>0, PipeGrows, Zenon
    <2> QED BY <1>1, <2>1, Zenon DEF pipe
<1>6. Continues => Continues'
    <2> SUFFICES ASSUME Continues PROVE Continues'
        OBVIOUS
    <2>1. /\ up[conn] = <<>> /\ D # <<>>
          /\ Head(D) = [type |-> "CONTINUE", replid |-> cached.replid]
          /\ client[conn].replstate = "NONE" \/ Writable(conn)
          /\ StreamOk(cached.replid, cached.reploff, Tail(D))
        BY Zenon DEF Continues
    <2>2. Streaming
        BY <2>1 DEF Streaming, Writable
    <2>3. StreamNext(cached.replid, cached.reploff, Tail(D) \o e)
        BY <1>3, <1>4, <2>1, <2>2, Zenon DEF StreamMoves
    <2>4. StreamOk(cached.replid, cached.reploff, Tail(down[conn]))'
        BY <1>1, <1>4, <2>1, <2>3, Zenon DEF StreamNext, StreamOk
    <2>5. Writable(conn)' => client'[conn'].replstate = "ONLINE" /\ ~client'[conn'].put_online_on_ack
        BY <1>1 DEF Writable
    <2> QED BY <1>1, <1>4, <2>1, <2>4, Zenon DEF Continues
<1>7. Resyncs => Resyncs'
    <2> SUFFICES ASSUME Resyncs PROVE Resyncs'
        OBVIOUS
    <2>1. up[conn] = <<>> /\ D # <<>> /\ Head(D).type = "FULLRESYNC" /\ SnapshotOk(Tail(D))
        BY DEF Resyncs
    <2>2. SnapshotNext(Tail(D) \o e)
        BY <1>4, <2>1, Zenon DEF SnapshotMoves
    <2>3. SnapshotOk(Tail(down[conn]))'
        BY <1>1, <1>4, <2>1, <2>2, Zenon DEF SnapshotNext, SnapshotOk
    <2> QED BY <1>1, <1>4, <2>1, <2>3, Zenon DEF Resyncs
<1>8. CASE repl_state = "HANDSHAKE"
    BY <1>1, <1>8 DEF PhaseInv
<1>9. CASE repl_state = "RECEIVE_PSYNC"
    BY <1>1, <1>6, <1>7, <1>9 DEF PhaseInv, InPsync
<1>10. CASE repl_state = "TRANSFER"
    <2>1. InTransfer
        BY <1>10 DEF PhaseInv
    <2>2. SnapshotNext(pipe \o e)
        BY <1>5, <2>1 DEF SnapshotMoves, InTransfer
    <2>3. SnapshotOk(pipe)'
        BY <1>1, <1>5, <2>2, Zenon DEF SnapshotNext, SnapshotOk
    <2>4. InTransfer'
        BY <1>1, <2>1, <2>3, Zenon DEF InTransfer
    <2> QED BY <1>1, <1>10, <2>4 DEF PhaseInv
<1>11. CASE repl_state = "CONNECTED"
    <2>1. InStream
        BY <1>11 DEF PhaseInv
    <2>2. Streaming /\ master.replid <= replid
        BY <2>1 DEF InStream, Streaming
    <2>3. StreamOk(master.replid, master.reploff, pipe)
        BY <2>1 DEF InStream
    <2>4. Streaming' /\ StreamOk(master.replid, master.reploff, pipe)'
        <3>1. Streaming' /\ StreamNext(master.replid, master.reploff, pipe \o e)
            BY <1>3, <1>5, <2>2, <2>3, Zenon DEF StreamMoves
        <3> QED BY <1>1, <1>5, <3>1, Zenon DEF StreamNext, StreamOk
    <2>5. master'.replid <= replid'
        <3>1. /\ master' = master /\ master.replid \in Int
              /\ replid \in Int /\ replid' \in Int /\ replid' >= replid
            BY <1>1, <1>2, <1>3
        <3>2. master.replid <= replid
            BY <2>2
        <3> QED BY <3>1, <3>2
    <2>6. InStream'
        BY <1>1, <2>1, <2>4, <2>5, Zenon DEF InStream, Streaming, States
    <2> QED BY <1>1, <1>11, <2>6 DEF PhaseInv
<1> QED BY <1>8, <1>9, <1>10, <1>11, Zenon DEF TypeInv

\* A step of the master that does not touch the connection of the slave.
LEMMA QuietPhase ==
    ASSUME IndInv, UNCHANGED slaveVars, repl_state # "CONNECT", replid' \in Nat, replid' >= replid,
           down'[conn] = down[conn], up'[conn] = up[conn], client'[conn] = client[conn],
           ends'[conn] = ends[conn], StreamMoves(<<>>), SnapshotMoves(<<>>)
    PROVE  PhaseInv'
<1> USE DEF IndInv
<1>1. UNCHANGED <<repl_state, round, conn, cached, master, querybuf, held, got>>
    BY DEF slaveVars
<1>2. conn \in Conns /\ down[conn] \in Seq(DownMsg) /\ client[conn].replstate \in States
    BY DEF WireInv, TypeInv, Client
<1>3. down'[conn] = down[conn] \o <<>> /\ <<>> \in Seq(DownMsg)
    BY <1>2, ConcatEmptySeq, EmptySeq
<1>4. repl_state = "HANDSHAKE" => InHandshake'
    BY <1>1 DEF PhaseInv, InHandshake
<1>5. Asked => Asked'
    BY <1>1 DEF Asked, PsyncRequest
<1>6. Refused => Refused'
    BY <1>1 DEF Refused
<1>7. Waits => Waits'
    BY <1>1 DEF Waits
<1>8. repl_state = "RECEIVE_PSYNC" /\ (Asked \/ Refused \/ Waits) => InPsync'
    BY <1>1, <1>5, <1>6, <1>7 DEF PhaseInv, InPsync
<1>9. client[conn].replstate = "NONE" \/ Writable(conn) =>
          client'[conn].replstate = "NONE" \/ Writable(conn)'
    BY <1>1 DEF Writable
<1> QED BY <1>2, <1>3, <1>4, <1>8, <1>9, PhaseMoves, Zenon

\* The master has no slaves and changes its replication id.
LEMMA RenewMoves ==
    ASSUME IndInv, slaves = {}, conn \in Conns, replid' = replid + 1,
           UNCHANGED <<written, offset, child>>, client'[conn] = client[conn], up'[conn] = up[conn],
           UNCHANGED slaveVars
    PROVE  StreamMoves(<<>>) /\ SnapshotMoves(<<>>)
<1> USE DEF IndInv
<1>1. /\ client[conn].replstate = "NONE" /\ client'[conn].replstate = "NONE"
      /\ replid \in Nat /\ Len(client'[conn].reply) = Len(client[conn].reply)
      /\ conn' = conn
    BY DEF slaves, TypeInv, slaveVars
<1>2. \A p \in Seq(DownMsg) : p \o <<>> = p
    BY ConcatEmptySeq
<1>3. ASSUME NEW id \in Int, NEW off \in Int, NEW p \in Seq(DownMsg), id <= replid, StreamOk(id, off, p)
      PROVE  StreamNext(id, off, p)
    <2>1. StreamAt(id, off, p, lastGot, replid, written, offset, backlog, "NONE",
                   Len(client[conn].reply))
        BY <1>1, <1>3 DEF StreamOk
    <2>2. StreamAt(id, off, p, lastGot, replid + 1, written, offset, backlog', "NONE",
                   Len(client[conn].reply))
        BY <1>1, <1>3, <2>1, StreamRenew
    <2> QED BY <1>1, <2>2 DEF StreamNext
<1>4. ASSUME NEW p \in Seq(DownMsg), SnapshotOk(p) PROVE SnapshotNext(p)
    <2>1. SnapshotAt(p, lastGot, replid, written, offset, backlog, "NONE",
                     Len(client[conn].reply), child)
        BY <1>1, <1>4 DEF SnapshotOk
    <2>2. SnapshotAt(p, lastGot, replid + 1, written, offset, backlog', "NONE",
                     Len(client[conn].reply), child)
        BY <1>1, <2>1, SnapshotRenew, Zenon
    <2> QED BY <1>1, <2>2 DEF SnapshotNext
<1>5. Streaming'
    BY <1>1 DEF Streaming
<1>6. StreamMoves(<<>>)
    BY <1>2, <1>3, <1>5 DEF StreamMoves
<1>7. SnapshotMoves(<<>>)
    BY <1>2, <1>4 DEF SnapshotMoves
<1> QED BY <1>6, <1>7

\* The cached master names no history that the master starts anew.
LEMMA RenewCache ==
    ASSUME TypeInv, CacheInv, replid' = replid + 1, UNCHANGED <<cached, held>>
    PROVE  CacheInv'
<1>1. /\ replid \in Nat /\ cached.replid \in Int /\ cached.replid <= replid
      /\ held \subseteq 0..replid
    BY DEF TypeInv, CacheInv
<1>2. /\ cached.replid # replid + 1 /\ cached.replid <= replid + 1
      /\ \A id \in held : id # replid + 1
    BY <1>1
<1> QED BY <1>2 DEF CacheInv, Behind

\* The client of the slave stays as it is, and no child is going to write to it
\* that was not.
LEMMA StayMoves ==
    ASSUME IndInv, conn \in Conns, UNCHANGED <<written, replid, offset, backlog, slaveVars>>,
           client'[conn] = client[conn],
           client[conn].replstate = "WAIT_BGSAVE_END" => child' = child \/ ~child'.running
    PROVE  StreamMoves(<<>>) /\ SnapshotMoves(<<>>)
<1>1. \A p \in Seq(DownMsg) : p \o <<>> = p
    BY ConcatEmptySeq
<1>2. conn' = conn
    BY DEF slaveVars
<1>3. Streaming => Streaming'
    BY <1>2 DEF Streaming
<1>4. \A id \in Int, off \in Int, p \in Seq(DownMsg) : StreamOk(id, off, p) => StreamNext(id, off, p)
    BY DEF StreamOk, StreamNext
<1>5. StreamMoves(<<>>)
    BY <1>1, <1>3, <1>4 DEF StreamMoves
<1>6. ASSUME NEW p \in Seq(DownMsg), SnapshotOk(p) PROVE SnapshotNext(p)
    <2> DEFINE st == client[conn].replstate
               n == Len(client[conn].reply)
    <2>1. SnapshotAt(p, lastGot, replid, written, offset, backlog, st, n, child)
        BY <1>6 DEF SnapshotOk
    <2>2. SnapshotAt(p, lastGot, replid, written, offset, backlog, st, n, child')
        <3>1. CASE child' = child
            BY <2>1, <3>1
        <3>2. CASE ~(st = "WAIT_BGSAVE_END" /\ child'.running)
            BY <2>1, <3>2, SnapshotDone
        <3> QED BY <3>1, <3>2
    <2> QED BY <1>6, <2>2 DEF SnapshotOk, SnapshotNext
<1>7. SnapshotMoves(<<>>)
    BY <1>1, <1>6 DEF SnapshotMoves
<1> QED BY <1>5, <1>7

-----------------------------------------------------------------------------
(***************************************************************************)
(* The master closes connections.                                          *)
(***************************************************************************)

\* Appending to a sequence of one.
LEMMA AppendPair == ASSUME NEW a, NEW b PROVE Append(<<a>>, b) = <<a, b>>
<1>1. <<a>> \in Seq({a, b}) /\ Len(<<a>>) = 1 /\ <<a>>[1] = a
    OBVIOUS
<1>2. /\ Append(<<a>>, b) \in Seq({a, b}) /\ Len(Append(<<a>>, b)) = 2
      /\ Append(<<a>>, b)[1] = a /\ Append(<<a>>, b)[2] = b
    BY <1>1, AppendProperties
<1>3. <<a, b>> \in Seq({a, b}) /\ Len(<<a, b>>) = 2 /\ <<a, b>>[1] = a /\ <<a, b>>[2] = b
    OBVIOUS
<1>4. \A i \in 1..2 : i = 1 \/ i = 2
    OBVIOUS
<1>5. \A i \in 1..Len(<<a, b>>) : Append(<<a>>, b)[i] = <<a, b>>[i]
    BY <1>2, <1>3, <1>4
<1> QED BY <1>2, <1>3, <1>5, SeqEqual, Zenon

\* No write has waited in an empty buffer.
LEMMA NoWrites == ASSUME NEW w \in Nat PROVE LastWrites(<<>>, w)
<1>1. Len(<<>>) = 0
    BY EmptySeq
<1> QED BY <1>1 DEF LastWrites

\* What the master does to the connections of the clients that it frees.
Freed(cs, last) ==
    /\ \A c \in Conns :
          /\ c \in cs => /\ client'[c] = NewClient /\ up'[c] = <<>>
                         /\ ends'[c] = ends[c] \ {"master"}
          /\ c \notin cs => /\ client'[c] = client[c] /\ ends'[c] = ends[c]
                            /\ up'[c] = up[c] /\ down'[c] = down[c]
          /\ "slave" \notin ends[c] => down'[c] = <<>>
          /\ c \in cs /\ "slave" \in ends[c] => down'[c] = down[c] \o Append(last, Eof)
    /\ client' \in [Conns -> Client] /\ ends' \in [Conns -> SUBSET {"slave", "master"}]
    /\ up' \in [Conns -> Seq(UpMsg)] /\ down' \in [Conns -> Seq(DownMsg)]

\* FreeClients does that.
LEMMA FreeFacts ==
    ASSUME TypeInv, WireInv, NEW cs, cs \subseteq Conns, NEW last \in Seq(DownMsg),
           FreeClients(cs, last)
    PROVE  Freed(cs, last)
<1> DEFINE ms == [c \in cs |-> Append(last, Eof)]
<1>1. /\ client' = [c \in Conns |-> IF c \in cs THEN NewClient ELSE client[c]]
      /\ ends' = [c \in Conns |-> IF c \in cs THEN ends[c] \ {"master"} ELSE ends[c]]
      /\ up' = [c \in Conns |-> IF c \in cs THEN <<>> ELSE up[c]]
      /\ SendDown(ms) /\ DOMAIN ms = cs /\ \A c \in cs : ms[c] = Append(last, Eof)
    BY DEF FreeClients, Eof
<1> HIDE DEF ms
<1>2. Append(last, Eof) \in Seq(DownMsg)
    BY AppendProperties DEF Eof, DownMsg
<1>3. /\ down' \in [Conns -> Seq(DownMsg)]
      /\ \A c \in Conns :
            /\ c \notin cs => down'[c] = down[c]
            /\ "slave" \notin ends[c] => down'[c] = <<>>
            /\ c \in cs /\ "slave" \in ends[c] => down'[c] = down[c] \o Append(last, Eof)
    <2>1. \A c \in Conns : c \in DOMAIN ms => ms[c] \in Seq(DownMsg)
        BY <1>1, <1>2, Zenon
    <2> QED BY <1>1, <2>1, SendDownFacts, Zenon
<1>4. NewClient \in Client /\ <<>> \in Seq(UpMsg)
    BY EmptySeq DEF NewClient, Client, States
<1>5. /\ client' \in [Conns -> Client] /\ ends' \in [Conns -> SUBSET {"slave", "master"}]
      /\ up' \in [Conns -> Seq(UpMsg)]
    BY <1>1, <1>4 DEF TypeInv
<1>6. \A c \in Conns :
         /\ c \in cs => client'[c] = NewClient /\ up'[c] = <<>> /\ ends'[c] = ends[c] \ {"master"}
         /\ c \notin cs => client'[c] = client[c] /\ ends'[c] = ends[c] /\ up'[c] = up[c]
    BY <1>1, Zenon
<1> QED BY <1>3, <1>5, <1>6, Zenon DEF Freed

\* The connections after that.
LEMMA FreeWires ==
    ASSUME TypeInv, WireInv, NEW cs, cs \subseteq Conns, NEW last \in Seq(DownMsg),
           FreeClients(cs, last), UNCHANGED <<conn, repl_state>>
    PROVE  WireInv'
<1>1. \A c \in Conns :
         /\ c \in cs => client'[c] = NewClient /\ up'[c] = <<>> /\ ends'[c] = ends[c] \ {"master"}
         /\ c \notin cs => client'[c] = client[c] /\ ends'[c] = ends[c] /\ up'[c] = up[c]
         /\ "slave" \notin ends[c] => down'[c] = <<>>
    <2>1. Freed(cs, last)
        BY FreeFacts
    <2> QED BY <2>1, Zenon DEF Freed
<1>2. \A c \in Conns : ("slave" \in ends'[c] <=> "slave" \in ends[c]) /\ ends'[c] \subseteq ends[c]
    BY <1>1
<1>3. \A c \in Conns : \A i \in 1..Len(up'[c]) :
         up'[c][i].type = "PSYNC" => Len(up'[c]) = 1 /\ client'[c] = NewClient
    <2> SUFFICES ASSUME NEW c \in Conns, c \in cs
                 PROVE  1..Len(up'[c]) = {}
        BY <1>1, Zenon DEF WireInv
    <2>1. Len(up'[c]) = 0
        BY <1>1, EmptySeq, Zenon
    <2> QED BY <2>1
<1> QED BY <1>1, <1>2, <1>3, Zenon DEF WireInv

\* The clients that are left.
LEMMA FreeMaster ==
    ASSUME TypeInv, WireInv, MasterInv, NEW cs, cs \subseteq Conns, NEW last \in Seq(DownMsg),
           FreeClients(cs, last), UNCHANGED <<written, backlog, conn>>,
           child' = child \/ (child' = NoChild /\ served \subseteq cs),
           child' # NoChild /\ child'.running =>
               \A c \in cs : c \in child.conns => "slave" \notin ends[c]
    PROVE  MasterInv'
<1>1. \A c \in Conns :
         /\ c \in cs => client'[c] = NewClient /\ ends'[c] = ends[c] \ {"master"}
         /\ c \notin cs => client'[c] = client[c] /\ ends'[c] = ends[c]
    <2>1. Freed(cs, last)
        BY FreeFacts
    <2> QED BY <2>1, Zenon DEF Freed
<1>2. NewClient.replstate = "NONE" /\ ~NewClient.put_online_on_ack /\ NewClient.reply = <<>>
    BY DEF NewClient
<1>3. slaves' # {} => backlog' # NoBacklog
    <2>1. slaves' \subseteq slaves
        BY <1>1, <1>2 DEF slaves
    <2> QED BY <2>1, Zenon DEF MasterInv
<1>4. LastWrites(<<>>, written)
    <2>1. written \in Nat
        BY DEF TypeInv
    <2> QED BY <2>1, NoWrites
<1>5. \A c \in Conns :
         /\ client'[c].replstate \in {"NONE", "WAIT_BGSAVE_START"} => client'[c].reply = <<>>
         /\ client'[c].replstate \in {"NONE", "WAIT_BGSAVE_START", "WAIT_BGSAVE_END"}
               => ~client'[c].put_online_on_ack
         /\ LastWrites(client'[c].reply, written)
    BY <1>1, <1>2, <1>4 DEF MasterInv
<1>6. \A c \in Conns : Writable(c)' => client'[c].reply = <<>>
    BY <1>1, <1>2 DEF MasterInv, Writable
<1>7. \A c \in Conns : client'[c].replstate = "WAIT_BGSAVE_END" =>
                          child' # NoChild /\ c \in child'.conns
    BY <1>1, <1>2 DEF MasterInv, served
<1>8. ASSUME child'.running
      PROVE  /\ child' # NoChild
             /\ \A c \in child'.conns :
                   "slave" \in ends'[c] => client'[c].replstate = "WAIT_BGSAVE_END"
    <2>1. child' # NoChild
        BY <1>8 DEF NoChild
    <2>2. child' = child /\ child.conns \subseteq Conns
        BY <2>1 DEF TypeInv, Child
    <2> QED BY <1>1, <1>8, <2>1, <2>2 DEF MasterInv
<1>9. child' # NoChild => \A c \in child'.conns : c <= conn'
    BY DEF MasterInv
<1> QED BY <1>3, <1>5, <1>6, <1>7, <1>8, <1>9, Zenon DEF MasterInv

\* The master frees clients.
LEMMA FreeStep ==
    ASSUME IndInv, NEW cs, cs \subseteq Conns, NEW last \in Seq(DownMsg), FreeClients(cs, last),
           UNCHANGED <<written, replid, offset, backlog, slaveVars>>, faults' \in Nat,
           child' = child \/ (child' = NoChild /\ served \subseteq cs),
           child' # NoChild /\ child'.running =>
               \A c \in cs : c \in child.conns => "slave" \notin ends[c],
           conn \in cs /\ repl_state # "CONNECT" =>
               /\ client[conn].replstate # "NONE"
               /\ client[conn].replstate = "WAIT_BGSAVE_START" => last = <<[type |-> "ERR"]>>
               /\ StreamMoves(Append(last, Eof)) /\ SnapshotMoves(Append(last, Eof))
    PROVE  IndInv'
<1> USE DEF IndInv
<1>1. /\ \A c \in Conns :
            /\ c \in cs => client'[c] = NewClient /\ up'[c] = <<>>
            /\ c \notin cs => /\ client'[c] = client[c] /\ ends'[c] = ends[c]
                              /\ up'[c] = up[c] /\ down'[c] = down[c]
            /\ c \in cs /\ "slave" \in ends[c] => down'[c] = down[c] \o Append(last, Eof)
      /\ client' \in [Conns -> Client] /\ ends' \in [Conns -> SUBSET {"slave", "master"}]
      /\ up' \in [Conns -> Seq(UpMsg)] /\ down' \in [Conns -> Seq(DownMsg)]
    <2>1. Freed(cs, last)
        BY FreeFacts
    <2> QED BY <2>1, Zenon DEF Freed
<1>2. /\ UNCHANGED <<repl_state, round, conn, cached, master, querybuf, held, got>>
      /\ lastGot' = lastGot
    BY DEF slaveVars, lastGot
<1>3. Append(last, Eof) \in Seq(DownMsg)
    BY AppendProperties DEF Eof, DownMsg
<1>4. child' \in Child \cup {NoChild}
    BY DEF TypeInv
<1>5. TypeInv'
    BY <1>1, <1>2, <1>4, Zenon DEF TypeInv
<1>6. WireInv'
    BY <1>2, FreeWires
<1>7. MasterInv'
    BY <1>2, FreeMaster
<1>8. CacheInv'
    BY <1>2, CacheFrame
<1>9. PhaseInv'
    <2>1. CASE repl_state = "CONNECT"
        BY <1>2, <2>1 DEF PhaseInv
    <2>2. CASE repl_state # "CONNECT" /\ conn \notin cs
        <3>1. /\ conn \in Conns /\ down'[conn] = down[conn] /\ up'[conn] = up[conn]
              /\ client'[conn] = client[conn] /\ ends'[conn] = ends[conn]
            BY <1>1, <2>2, Zenon DEF WireInv
        <3>2. client[conn].replstate = "WAIT_BGSAVE_END" => child' = child \/ ~child'.running
            BY DEF NoChild
        <3>3. StreamMoves(<<>>) /\ SnapshotMoves(<<>>)
            BY <3>1, <3>2, StayMoves
        <3>4. replid' \in Nat /\ replid' >= replid
            BY DEF TypeInv
        <3> QED BY <2>2, <3>1, <3>3, <3>4, QuietPhase
    <2>3. CASE repl_state # "CONNECT" /\ conn \in cs
        <3>1. /\ conn \in Conns /\ "slave" \in ends[conn] /\ up'[conn] = <<>>
              /\ down'[conn] = down[conn] \o Append(last, Eof)
              /\ client'[conn] = NewClient /\ client'[conn].replstate = "NONE"
            <4>1. conn \in Conns /\ "slave" \in ends[conn]
                BY <2>3, Zenon DEF WireInv
            <4>2. NewClient.replstate = "NONE"
                BY DEF NewClient
            <4> QED BY <1>1, <2>3, <4>1, <4>2, Zenon
        <3>2. client[conn].replstate # "NONE" /\ client[conn] # NewClient
            BY <2>3 DEF NewClient
        <3>3. ~(repl_state = "HANDSHAKE") /\ ~Asked /\ ~Refused
            BY <3>2 DEF PhaseInv, InHandshake, Asked, Refused
        <3>4. repl_state = "RECEIVE_PSYNC" /\ Waits => InPsync'
            <4> SUFFICES ASSUME repl_state = "RECEIVE_PSYNC", Waits PROVE InPsync'
                BY Zenon
            <4>1. last = <<[type |-> "ERR"]>> /\ down[conn] = <<>> /\ querybuf = <<>>
                BY <2>3 DEF Waits, PhaseInv, InPsync
            <4>2. down'[conn] = <<[type |-> "ERR"], Eof>>
                <5>1. <<>> \o Append(last, Eof) = Append(last, Eof)
                    BY <1>3, ConcatEmptySeq
                <5>2. Append(<<[type |-> "ERR"]>>, Eof) = <<[type |-> "ERR"], Eof>>
                    BY AppendPair
                <5> QED BY <3>1, <4>1, <5>1, <5>2
            <4>3. \A i \in 1..Len(down'[conn]) : down'[conn][i].type \in {"LOADING", "ERR", "EOF"}
                <5>1. /\ Len(down'[conn]) = 2 /\ down'[conn][1] = [type |-> "ERR"]
                      /\ down'[conn][2] = [type |-> "EOF"]
                    BY <4>2 DEF Eof
                <5>2. \A i \in 1..2 : i = 1 \/ i = 2
                    OBVIOUS
                <5> QED BY <5>1, <5>2
            <4>4. Refused'
                BY <1>2, <3>1, <4>3, Zenon DEF Refused
            <4> QED BY <1>2, <4>1, <4>4 DEF InPsync
        <3>5. \A i \in 1..Len(up'[conn]) : up'[conn][i].type = "ACK"
            <4>1. Len(up'[conn]) = 0
                BY <3>1, EmptySeq
            <4> QED BY <4>1
        <3>6. replid' \in Nat /\ replid' >= replid /\ client'[conn].replstate \in States
            BY <3>1 DEF TypeInv, States
        <3> QED BY <1>3, <2>3, <3>1, <3>3, <3>4, <3>5, <3>6, PhaseMoves, Zenon
    <2> QED BY <2>1, <2>2, <2>3
<1> QED BY <1>5, <1>6, <1>7, <1>8, <1>9

\* The client of the slave is freed.
LEMMA CloseMoves ==
    ASSUME IndInv, conn \in Conns, UNCHANGED <<written, replid, offset, backlog, slaveVars>>,
           client'[conn] = NewClient
    PROVE  StreamMoves(<<Eof>>) /\ SnapshotMoves(<<Eof>>)
<1> USE DEF IndInv
<1>1. /\ client'[conn].replstate = "NONE" /\ client'[conn].reply = <<>> /\ conn' = conn
      /\ Len(client'[conn].reply) = 0
    BY EmptySeq DEF NewClient, slaveVars
<1>2. /\ replid \in Nat /\ written \in Nat /\ offset \in Nat /\ lastGot \in Nat
      /\ Len(client[conn].reply) \in Nat
    BY LenProperties DEF TypeInv, Client
<1>3. ASSUME NEW id \in Int, NEW off \in Int, NEW p \in Seq(DownMsg), StreamOk(id, off, p)
      PROVE  StreamNext(id, off, p \o <<Eof>>)
    <2>1. StreamAt(id, off, p \o <<Eof>>, lastGot, replid, written, offset, backlog, "NONE", 0)
        BY <1>2, <1>3, StreamClose, Zenon DEF StreamOk
    <2> QED BY <1>1, <2>1, Zenon DEF StreamNext
<1>4. ASSUME NEW p \in Seq(DownMsg), SnapshotOk(p) PROVE SnapshotNext(p \o <<Eof>>)
    <2>1. SnapshotAt(p \o <<Eof>>, lastGot, replid, written, offset, backlog, "NONE", 0, child')
        BY <1>2, <1>4, SnapshotClose DEF SnapshotOk
    <2> QED BY <1>1, <2>1, Zenon DEF SnapshotNext
<1>5. Streaming'
    BY <1>1 DEF Streaming
<1>6. StreamMoves(<<Eof>>)
    BY <1>3, <1>5 DEF StreamMoves
<1>7. SnapshotMoves(<<Eof>>)
    BY <1>4 DEF SnapshotMoves
<1> QED BY <1>6, <1>7

\* One client is freed, and nothing was sent before.
LEMMA FreeOneStep ==
    ASSUME IndInv, NEW c \in Conns, FreeClients({c}, <<>>),
           UNCHANGED <<written, replid, offset, backlog, child, slaveVars>>, faults' \in Nat,
           "slave" \notin ends[c] \/ client[c].replstate = "ONLINE"
    PROVE  IndInv'
<1> USE DEF IndInv
<1>1. <<>> \in Seq(DownMsg) /\ Append(<<>>, Eof) = <<Eof>>
    BY EmptySeq
<1>2. child' # NoChild /\ child'.running => \A d \in {c} : d \in child.conns => "slave" \notin ends[d]
    BY DEF MasterInv
<1>3. ASSUME conn \in {c}, repl_state # "CONNECT"
      PROVE  /\ client[conn].replstate # "NONE"
             /\ client[conn].replstate = "WAIT_BGSAVE_START" => <<>> = <<[type |-> "ERR"]>>
             /\ StreamMoves(Append(<<>>, Eof)) /\ SnapshotMoves(Append(<<>>, Eof))
    <2>1. client[conn].replstate = "ONLINE" /\ conn \in Conns
        BY <1>3 DEF WireInv
    <2>2. client'[conn] = NewClient
        BY <1>3, Zenon DEF FreeClients
    <2>3. StreamMoves(<<Eof>>) /\ SnapshotMoves(<<Eof>>)
        BY <2>1, <2>2, CloseMoves
    <2> QED BY <1>1, <2>1, <2>3
<1>4. {c} \subseteq Conns
    OBVIOUS
<1> QED BY <1>1, <1>2, <1>3, <1>4, FreeStep, Zenon

\* The master reads the end of a connection and frees the client.
LEMMA ReadEofStep == \A c \in Conns : IndInv /\ ReadEof(c) => IndInv'
<1> SUFFICES ASSUME NEW c \in Conns, IndInv, ReadEof(c) PROVE IndInv'
    OBVIOUS
<1>1. /\ FreeClients({c}, <<>>) /\ "slave" \notin ends[c] /\ faults' \in Nat
      /\ UNCHANGED <<written, replid, offset, backlog, child, slaveVars>>
    BY DEF ReadEof, IndInv, TypeInv
<1> QED BY <1>1, FreeOneStep

\* The master frees a client that has been silent for too long.
LEMMA TimeoutStep == \A c \in Conns : IndInv /\ TimeoutSlave(c) => IndInv'
<1> SUFFICES ASSUME NEW c \in Conns, IndInv, TimeoutSlave(c) PROVE IndInv'
    OBVIOUS
<1>1. /\ FreeClients({c}, <<>>) /\ client[c].replstate = "ONLINE" /\ faults' \in Nat
      /\ UNCHANGED <<written, replid, offset, backlog, child, slaveVars>>
    BY DEF TimeoutSlave, Fault, IndInv, TypeInv
<1> QED BY <1>1, FreeOneStep

\* The fork fails: every client that waits for it is closed.
LEMMA BgsaveFailsStep == IndInv /\ BgsaveFails => IndInv'
<1> SUFFICES ASSUME IndInv, BgsaveFails PROVE IndInv'
    OBVIOUS
<1> USE DEF IndInv
<1> DEFINE err == <<[type |-> "ERR"]>>
<1>1. /\ FreeClients(waiting, err) /\ child = NoChild /\ faults' \in Nat
      /\ UNCHANGED <<written, replid, offset, backlog, child, slaveVars>>
    BY DEF BgsaveFails, Fault, TypeInv
<1>2. waiting \subseteq Conns /\ err \in Seq(DownMsg)
    BY DEF waiting, DownMsg
<1>3. ASSUME conn \in waiting, repl_state # "CONNECT"
      PROVE  /\ client[conn].replstate # "NONE"
             /\ StreamMoves(Append(err, Eof)) /\ SnapshotMoves(Append(err, Eof))
    BY <1>3, Zenon DEF waiting, StreamMoves, Streaming, SnapshotMoves, SnapshotOk
<1> HIDE DEF err
<1>4. conn \in waiting /\ repl_state # "CONNECT" =>
         /\ client[conn].replstate # "NONE"
         /\ client[conn].replstate = "WAIT_BGSAVE_START" => err = <<[type |-> "ERR"]>>
         /\ StreamMoves(Append(err, Eof)) /\ SnapshotMoves(Append(err, Eof))
    BY <1>3 DEF err
<1> QED BY <1>1, <1>2, <1>4, FreeStep

\* The child dies: every client that it served is closed.
LEMMA ChildFailsStep == IndInv /\ ChildFails => IndInv'
<1> SUFFICES ASSUME IndInv, ChildFails PROVE IndInv'
    OBVIOUS
<1> USE DEF IndInv
<1>1. PICK k \in 0..2 : FreeClients(served, SubSeq(Snapshot(child), 1, k))
    BY DEF ChildFails
<1>2. /\ child # NoChild /\ child.running /\ child' = NoChild /\ faults' \in Nat
      /\ UNCHANGED <<written, replid, offset, backlog, slaveVars>>
    BY DEF ChildFails, Fault, TypeInv
<1> DEFINE last == SubSeq(Snapshot(child), 1, k)
<1>3. child.written \in Nat /\ child.replid \in Nat /\ child.offset \in Nat
    BY <1>2 DEF TypeInv, Child
<1>4. last \in Seq(DownMsg)
    <2>1. Snapshot(child) \in Seq(DownMsg) /\ Len(Snapshot(child)) = 3
        BY <1>3, SnapshotFacts
    <2>2. \A i \in 1..k : Snapshot(child)[i] \in DownMsg
        BY <2>1, ElementOfSeq
    <2>3. k \in Int /\ 1 \in Int
        OBVIOUS
    <2> QED BY <2>1, <2>2, <2>3, SubSeqProperties
<1>5. served \subseteq Conns
    BY DEF served
<1>6. ASSUME conn \in served, repl_state # "CONNECT"
      PROVE  /\ client[conn].replstate = "WAIT_BGSAVE_END"
             /\ StreamMoves(Append(last, Eof)) /\ SnapshotMoves(Append(last, Eof))
    <2>1. conn \in Conns /\ client[conn].replstate = "WAIT_BGSAVE_END" /\ conn' = conn
        BY <1>2, <1>6 DEF served, slaveVars
    <2>2. client'[conn] = NewClient /\ client'[conn].replstate = "NONE" /\ Len(client'[conn].reply) = 0
        BY <1>1, <1>6, <2>1, EmptySeq DEF FreeClients, NewClient
    <2>3. StreamMoves(Append(last, Eof))
        BY <1>2, <2>1 DEF StreamMoves, Streaming
    <2>4. ASSUME NEW p \in Seq(DownMsg), SnapshotOk(p) PROVE SnapshotNext(p \o Append(last, Eof))
        <3>1. SnapshotAt(p, lastGot, replid, written, offset, backlog, "WAIT_BGSAVE_END",
                         Len(client[conn].reply), child)
            BY <2>1, <2>4 DEF SnapshotOk
        <3>2. p = <<>>
            BY <1>2, <3>1 DEF SnapshotAt, Unwritten
        <3>3. replid \in Nat /\ written \in Nat /\ offset \in Nat /\ lastGot \in Nat
            BY DEF TypeInv
        <3>4. SnapshotAt(last \o <<Eof>>, lastGot, replid, written, offset, backlog, "NONE", 0, child')
            BY <1>2, <3>1, <3>2, <3>3, SnapshotFailed, Zenon
        <3>5. p \o Append(last, Eof) = last \o <<Eof>>
            <4>1. Eof \in DownMsg
                BY DEF Eof, DownMsg
            <4>2. Append(last, Eof) = last \o <<Eof>> /\ Append(last, Eof) \in Seq(DownMsg)
                BY <1>4, <4>1, AppendIsConcat, AppendProperties
            <4> QED BY <3>2, <4>2, ConcatEmptySeq
        <3> QED BY <1>2, <2>2, <3>4, <3>5, Zenon DEF SnapshotNext
    <2>5. SnapshotMoves(Append(last, Eof))
        BY <2>4 DEF SnapshotMoves
    <2> QED BY <2>1, <2>3, <2>5
<1> HIDE DEF last
<1>7. conn \in served /\ repl_state # "CONNECT" =>
         /\ client[conn].replstate # "NONE"
         /\ client[conn].replstate = "WAIT_BGSAVE_START" => last = <<[type |-> "ERR"]>>
         /\ StreamMoves(Append(last, Eof)) /\ SnapshotMoves(Append(last, Eof))
    BY <1>6
<1>8. FreeClients(served, last)
    BY <1>1 DEF last
<1> QED BY <1>2, <1>4, <1>5, <1>7, <1>8, FreeStep, Zenon

-----------------------------------------------------------------------------
(***************************************************************************)
(* The master answers a handshake.                                         *)
(***************************************************************************)

\* The master takes a request.
LEMMA TakesFacts ==
    ASSUME TypeInv, WireInv, NEW c \in Conns, NEW t, Takes(c, t)
    PROVE  /\ up' \in [Conns -> Seq(UpMsg)] /\ "master" \in ends[c]
           /\ \A d \in Conns : d # c => up'[d] = up[d]
           /\ Len(up[c]) \in Nat \ {0} /\ Head(up[c]) = up[c][1] /\ up[c][1].type = t
           /\ Len(up'[c]) = Len(up[c]) - 1
           /\ \A i \in 1..(Len(up[c]) - 1) : up'[c][i] = up[c][i + 1]
           /\ Len(up[c]) = 1 => up'[c] = <<>>
<1>1. /\ up \in [Conns -> Seq(UpMsg)] /\ up[c] \in Seq(UpMsg) /\ up[c] # <<>>
      /\ Head(up[c]).type = t /\ up' = [up EXCEPT ![c] = Tail(up[c])]
    BY DEF TypeInv, Takes
<1>2. /\ Len(up[c]) \in Nat \ {0} /\ Head(up[c]) = up[c][1] /\ Tail(up[c]) \in Seq(UpMsg)
      /\ Len(Tail(up[c])) = Len(up[c]) - 1
      /\ \A i \in 1..(Len(up[c]) - 1) : Tail(up[c])[i] = up[c][i + 1]
    BY <1>1, EmptySeq, HeadTailProperties
<1>3. up'[c] = Tail(up[c]) /\ up' \in [Conns -> Seq(UpMsg)] /\ \A d \in Conns : d # c => up'[d] = up[d]
    BY <1>1, <1>2
<1>4. Len(up[c]) = 1 => Tail(up[c]) = <<>>
    <2>1. Len(up[c]) = 1 => Len(Tail(up[c])) = 0
        BY <1>2
    <2>2. Tail(up[c]) # <<>> => Len(Tail(up[c])) # 0
        BY <1>2, EmptySeq, Zenon
    <2> QED BY <2>1, <2>2
<1> QED BY <1>1, <1>2, <1>3, <1>4, Zenon DEF WireInv

\* Requests of the slave and the state it is in.
LEMMA TakesPhase ==
    ASSUME IndInv, repl_state # "CONNECT", NEW t, Takes(conn, t)
    PROVE  /\ t \in Requests => repl_state = "HANDSHAKE" /\ InHandshake
           /\ t = "PSYNC" => repl_state = "RECEIVE_PSYNC" /\ Asked /\ querybuf = <<>>
           /\ t = "ACK" => repl_state = "CONNECTED" /\ InStream
<1> USE DEF IndInv
<1>1. conn \in Conns
    BY DEF WireInv
<1>2. Len(up[conn]) \in Nat \ {0} /\ up[conn][1].type = t
    BY <1>1, TakesFacts
<1>3. up[conn] # <<>> /\ 1 \in 1..Len(up[conn])
    BY <1>2, EmptySeq
<1>4. CASE repl_state = "HANDSHAKE"
    BY <1>2, <1>3, <1>4 DEF PhaseInv, InHandshake, Requests
<1>5. CASE repl_state = "RECEIVE_PSYNC"
    <2>1. Asked /\ querybuf = <<>>
        BY <1>3, <1>5 DEF PhaseInv, InPsync, Refused, Waits, Continues, Resyncs
    <2>2. up[conn][1].type = "PSYNC"
        BY <2>1 DEF Asked, PsyncRequest
    <2> QED BY <1>2, <1>5, <2>1, <2>2 DEF Requests
<1>6. CASE repl_state = "TRANSFER"
    BY <1>3, <1>6 DEF PhaseInv, InTransfer
<1>7. CASE repl_state = "CONNECTED"
    BY <1>2, <1>3, <1>7 DEF PhaseInv, InStream, Requests
<1> QED BY <1>4, <1>5, <1>6, <1>7 DEF TypeInv

\* The wires, once the master has taken a request of c and has answered.
LEMMA TakesWires ==
    ASSUME TypeInv, WireInv, NEW c \in Conns, NEW t, Takes(c, t), UNCHANGED <<ends, slaveVars>>,
           \A d \in Conns : "slave" \notin ends[d] => down'[d] = <<>>,
           \A d \in Conns : d # c => client'[d] = client[d]
    PROVE  WireInv'
<1>1. UNCHANGED <<repl_state, conn>>
    BY DEF slaveVars
<1>2. /\ "master" \in ends[c] /\ \A d \in Conns : d # c => up'[d] = up[d]
      /\ Len(up[c]) \in Nat \ {0} /\ up[c][1].type = t /\ Len(up'[c]) = Len(up[c]) - 1
      /\ \A i \in 1..(Len(up[c]) - 1) : up'[c][i] = up[c][i + 1]
    BY TakesFacts, Zenon
<1>3. ASSUME NEW i \in 1..Len(up'[c]) PROVE up'[c][i].type # "PSYNC"
    <2>0. PICK n \in Nat \ {0} : n = Len(up[c]) /\ Len(up'[c]) = n - 1
        BY <1>2
    <2>4. i \in 1..(n - 1)
        BY <2>0, Zenon
    <2>3. i \in 1..(n - 1) /\ i + 1 \in 1..n /\ n # 1
        BY <2>4
    <2>1. i + 1 \in 1..Len(up[c]) /\ Len(up[c]) # 1
        BY <2>0, <2>3
    <2>2. up'[c][i] = up[c][i + 1]
        BY <1>2, <2>0, <2>3
    <2> QED BY <2>1, <2>2, Zenon DEF WireInv
<1> QED BY <1>1, <1>2, <1>3, Zenon DEF WireInv

\* What SendTo does.
LEMMA SendToFacts ==
    ASSUME TypeInv, WireInv, NEW c \in Conns, NEW msgs \in Seq(DownMsg), SendTo(c, msgs)
    PROVE  /\ down' \in [Conns -> Seq(DownMsg)]
           /\ \A d \in Conns : /\ d # c => down'[d] = down[d]
                               /\ "slave" \notin ends[d] => down'[d] = <<>>
           /\ "slave" \in ends[c] => down'[c] = down[c] \o msgs
<1> DEFINE ms == [d \in {c} |-> msgs]
<1>1. SendDown(ms) /\ DOMAIN ms = {c} /\ ms[c] = msgs
    BY DEF SendTo
<1> HIDE DEF ms
<1>2. \A d \in Conns : d \in DOMAIN ms => ms[d] \in Seq(DownMsg)
    BY <1>1
<1> QED BY <1>1, <1>2, SendDownFacts, Zenon

\* The master answers a request with one message, and nothing else changes.
LEMMA ReplyStep ==
    ASSUME IndInv, NEW c \in Conns, NEW t, Takes(c, t), NEW a \in DownMsg,
           SendTo(c, <<a>>), UNCHANGED <<masterVars, ends, slaveVars>>, faults' \in Nat,
           \/ t \in Requests /\ a.type \in {"OK", "ERR"}
           \/ t = "PSYNC" /\ a.type = "LOADING"
    PROVE  IndInv'
<1> USE DEF IndInv
<1>1. /\ UNCHANGED <<repl_state, round, conn, cached, master, querybuf, held, got>>
      /\ lastGot' = lastGot
    BY DEF slaveVars, lastGot
<1>2. UNCHANGED <<written, replid, offset, backlog, client, child>>
    BY DEF masterVars
<1>3. <<a>> \in Seq(DownMsg)
    OBVIOUS
<1>4. /\ down' \in [Conns -> Seq(DownMsg)]
      /\ \A d \in Conns : /\ d # c => down'[d] = down[d]
                          /\ "slave" \notin ends[d] => down'[d] = <<>>
      /\ "slave" \in ends[c] => down'[c] = down[c] \o <<a>>
    BY <1>3, SendToFacts, Zenon
<1>5. up' \in [Conns -> Seq(UpMsg)] /\ \A d \in Conns : d # c => up'[d] = up[d]
    BY TakesFacts
<1>6. TypeInv'
    BY <1>1, <1>2, <1>4, <1>5 DEF TypeInv
<1>7. WireInv'
    BY <1>2, <1>4, TakesWires, Zenon
<1>8. MasterInv' /\ CacheInv'
    <2>1. conn' = conn /\ conn \in Nat
        BY <1>1, ConstantsAssumption DEF TypeInv
    <2>2. MasterInv'
        BY <2>1, MasterFrame
    <2> QED BY <1>1, <1>2, <2>2, CacheFrame
<1>9. CASE c # conn \/ repl_state = "CONNECT"
    <2>1. conn \in Conns \/ repl_state = "CONNECT"
        BY DEF WireInv
    <2> QED BY <1>2, <1>4, <1>5, <1>6, <1>7, <1>8, <1>9, <2>1, PhaseFrame, Zenon
<1>10. CASE c = conn /\ repl_state # "CONNECT"
    <2>1. /\ Len(up[conn]) \in Nat \ {0}
          /\ Len(up[conn]) = 1 => up'[conn] = <<>>
          /\ "slave" \in ends[conn]
        BY <1>10, TakesFacts, Zenon DEF WireInv
    <2>2. down[conn] = <<>> => down'[conn] = <<a>>
        <3>1. <<>> \o <<a>> = <<a>>
            BY <1>3, ConcatEmptySeq
        <3> QED BY <1>4, <1>10, <2>1, <3>1, Zenon
    <2>3. CASE t \in Requests /\ a.type \in {"OK", "ERR"}
        <3>1. repl_state = "HANDSHAKE" /\ InHandshake
            BY <1>10, <2>3, TakesPhase
        <3>8. Len(up[conn]) <= 1 /\ (up[conn] = <<>> \/ down[conn] = <<>>)
            BY <3>1 DEF InHandshake
        <3>9. \A n \in Nat \ {0} : n <= 1 => n = 1
            OBVIOUS
        <3>2. up[conn] # <<>> /\ Len(up[conn]) = 1
            <4>1. Len(up[conn]) = 1
                BY <2>1, <3>8, <3>9, Zenon
            <4>2. Len(up[conn]) = 1 => up[conn] # <<>>
                <5>1. Len(<<>>) = 0 /\ 0 # 1
                    BY EmptySeq
                <5> QED BY <5>1, Zenon
            <4> QED BY <4>1, <4>2
        <3>3. down'[conn] = <<a>> /\ up'[conn] = <<>>
            BY <2>1, <2>2, <3>2, <3>8
        <3>4. Len(down'[conn']) = 1 /\ down'[conn'][1] = a /\ Len(up'[conn']) = 0
            BY <1>1, <3>3, OneElement, Zenon
        <3>5. \A i \in 1..Len(down'[conn']) : down'[conn'][i].type \in {"OK", "ERR"}
            BY <2>3, <3>4
        <3>10. /\ Len(down'[conn']) <= 1 /\ Len(up'[conn']) <= 1
               /\ \A i \in 1..Len(up'[conn']) : up'[conn'][i].type \in Requests
            BY <3>4
        <3>11. ends' = ends
            OBVIOUS
        <3>6. InHandshake'
            BY <1>1, <1>2, <3>1, <3>3, <3>5, <3>10, <3>11, Zenon DEF InHandshake
        <3>7. PhaseInv'
            BY <1>1, <3>1, <3>6 DEF PhaseInv
        <3> QED BY <1>6, <1>7, <1>8, <3>7
    <2>4. CASE t = "PSYNC" /\ a.type = "LOADING"
        <3>1. repl_state = "RECEIVE_PSYNC" /\ Asked /\ querybuf = <<>>
            BY <1>10, <2>4, TakesPhase
        <3>2. Len(up[conn]) = 1
            <4>1. PsyncRequest \in {PsyncRequest}
                OBVIOUS
            <4> QED BY <3>1, <4>1, OneElement, Zenon DEF Asked
        <3>3. down'[conn] = <<a>> /\ up'[conn] = <<>>
            BY <2>1, <2>2, <3>1, <3>2, Zenon DEF Asked
        <3>4. Len(down'[conn']) = 1 /\ down'[conn'][1] = a
            BY <1>1, <3>3, OneElement, Zenon
        <3>5. \A i \in 1..Len(down'[conn']) : down'[conn'][i].type \in {"LOADING", "ERR", "EOF"}
            BY <2>4, <3>4
        <3>6. Refused'
            BY <1>1, <1>2, <3>1, <3>3, <3>5, Zenon DEF Refused, Asked
        <3>7. PhaseInv'
            BY <1>1, <3>1, <3>6 DEF PhaseInv, InPsync
        <3> QED BY <1>6, <1>7, <1>8, <3>7
    <2> QED BY <2>3, <2>4, SMTT(20)
<1> QED BY <1>9, <1>10

\* The master answers the handshake.
LEMMA AnswerStep == \A c \in Conns : IndInv /\ AnswerHandshake(c) => IndInv'
<1> SUFFICES ASSUME NEW c \in Conns, IndInv, AnswerHandshake(c) PROVE IndInv'
    OBVIOUS
<1>1. PICK i \in DOMAIN Handshake : Takes(c, Handshake[i])
    BY DEF AnswerHandshake
<1>2. Handshake[i] \in Requests
    BY HandshakeFacts
<1>3. [type |-> "OK"] \in DownMsg /\ [type |-> "ERR"] \in DownMsg
    BY DEF DownMsg
<1>4. faults' \in Nat
    BY DEF AnswerHandshake, Fault, IndInv, TypeInv
<1>5. UNCHANGED <<masterVars, ends, slaveVars>>
    BY DEF AnswerHandshake
<1>6. CASE SendTo(c, <<[type |-> "OK"]>>)
    <2>1. [type |-> "OK"].type \in {"OK", "ERR"}
        OBVIOUS
    <2> QED BY <1>1, <1>2, <1>3, <1>4, <1>5, <1>6, <2>1, ReplyStep
<1>7. CASE SendTo(c, <<[type |-> "ERR"]>>)
    <2>1. [type |-> "ERR"].type \in {"OK", "ERR"}
        OBVIOUS
    <2> QED BY <1>1, <1>2, <1>3, <1>4, <1>5, <1>7, <2>1, ReplyStep
<1> QED BY <1>6, <1>7 DEF AnswerHandshake

\* The master refuses a PSYNC request.
LEMMA RefuseStep == \A c \in Conns : IndInv /\ RefusePsync(c) => IndInv'
<1> SUFFICES ASSUME NEW c \in Conns, IndInv, RefusePsync(c) PROVE IndInv'
    OBVIOUS
<1>1. /\ Takes(c, "PSYNC") /\ SendTo(c, <<[type |-> "LOADING"]>>) /\ faults' \in Nat
      /\ UNCHANGED <<masterVars, ends, slaveVars>>
    BY DEF RefusePsync, Fault, IndInv, TypeInv
<1>2. [type |-> "LOADING"] \in DownMsg /\ [type |-> "LOADING"].type = "LOADING"
    BY DEF DownMsg
<1> QED BY <1>1, <1>2, ReplyStep

=============================================================================
