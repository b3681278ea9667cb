----------------------------- MODULE SiteStream -----------------------------
(***************************************************************************)
(* The stream that the master of a site sends to its slave.  Two kinds of  *)
(* commands are woven into it: what the site's own clients write, which    *)
(* also goes to the peers, and what the site receives from each peer,      *)
(* which is passed on byte by byte.  All of them share one connection, so  *)
(* they share its selected database and its transaction state.             *)
(*                                                                         *)
(* The slave counts from this stream how far it has followed every peer,   *)
(* and feeds its own copy of the backlog for peers, so that it can take    *)
(* the place of the master: it then goes on with each peer's stream at     *)
(* that offset, in the database last selected by that peer.                *)
(*                                                                         *)
(* A command counts one byte.  The payload of a write is the database      *)
(* where its origin executed it.                                           *)
(***************************************************************************)
EXTENDS Integers, Sequences, FiniteSets, SequencesExt

CONSTANTS
    Peers,        \* the gids of the peers
    Own,          \* the gid of the site
    Databases,    \* the ids of the databases
    MaxOwn,       \* bound: commands of the site's own clients
    MaxPeerLog,   \* bound: commands of one peer
    MaxTakeovers  \* bound: promotions of the slave

VARIABLES
    peerlog,    \* peerlog[p]: the stream of peer p
    peersel,    \* peersel[p]: the database selected in it
    link,       \* link[p]: the client of the master that reads peer p
    atmaster,   \* the writes the master has applied, each with its database
    own,        \* what its own clients have written so far
    seldb,      \* server.slaveseldb
    crdtseldb,  \* crdtServer.slaveseldb
    crdtoff,    \* crdtServer.master_repl_offset of the master
    stream,     \* on the way to the slave
    slave,      \* the slave
    stale,      \* ghost: seldb is not what the slave has after the stream
    misfiled,   \* ghost: writes sent to the slave while that was so
    slip,       \* ghost: commands for slaves only, sent inside transactions
    takeovers

streamVars == <<peerlog, peersel, link, atmaster, own, seldb, crdtseldb,
                crdtoff, stream, slave, stale, misfiled, slip, takeovers>>

NoDb == -1

\* The commands.  The gid of SELECT and of RENAME is Plain: they count for no
\* stream of a site.
Plain == -1

Command(op, gid, db, id) == [op |-> op, gid |-> gid, db |-> db, id |-> id]

Select(db) == Command("select", Plain, db, 0)
CrdtSelect(gid, db) == Command("select", gid, db, 0)
Multi(gid) == Command("multi", gid, NoDb, 0)
Exec(gid) == Command("exec", gid, NoDb, 0)
Write(gid, db, id) == Command("write", gid, db, id)

\* What a site appends to a stream whose selected database is sel.
Selecting(gid, sel, db, s) ==
    (IF sel # db THEN <<CrdtSelect(gid, db)>> ELSE <<>>) \o s

-----------------------------------------------------------------------------
(***************************************************************************)
(* A connection executes commands: of a peer at the master, or of the      *)
(* master at the slave.                                                    *)
(***************************************************************************)

\* done: the commands applied, each with the database it was applied in.
Connection == [db |-> 0, multi |-> FALSE, queue |-> <<>>, done |-> {}]

\* SELECT, CRDT.SELECT and a write, outside of a transaction.
Apply(c, x) ==
    IF x.op = "select"
    THEN [c EXCEPT !.db = x.db]
    ELSE [c EXCEPT !.done = @ \cup {[write |-> x, db |-> c.db]}]

\* processCommand queues in a transaction; EXEC runs the queue.
processCommand(c, x) ==
    CASE x.op = "multi" -> IF c.multi THEN c ELSE [c EXCEPT !.multi = TRUE]
      [] x.op = "exec" ->
            IF c.multi
            THEN [FoldLeft(Apply, c, c.queue) EXCEPT !.multi = FALSE, !.queue = <<>>]
            ELSE c
      [] OTHER -> IF c.multi THEN [c EXCEPT !.queue = Append(@, x)] ELSE Apply(c, x)

\* The client of a peer: read counts the bytes read, off those applied.
NewLink(db, off) ==
    [client |-> [Connection EXCEPT !.db = db], read |-> off, off |-> off]

\* processInputBuffer: the offset stands still inside a transaction.
processInputBuffer(l, x) ==
    LET c == processCommand(l.client, x)
    IN  [client |-> c, read |-> l.read + 1,
         off |-> IF c.multi THEN l.off ELSE l.read + 1]

-----------------------------------------------------------------------------
Init ==
    /\ peerlog = [p \in Peers |-> <<>>]
    /\ peersel = [p \in Peers |-> NoDb]
    /\ link = [p \in Peers |-> NewLink(0, 0)]
    /\ atmaster = {} /\ own = 0
    /\ seldb = NoDb /\ crdtseldb = NoDb /\ crdtoff = 0
    /\ stream = <<>>
    /\ slave = [client |-> Connection, raw |-> <<>>, crdtoff |-> 0,
                peer |-> [p \in Peers |-> [off |-> 0, db |-> 0]]]
    /\ stale = FALSE /\ misfiled = {} /\ slip = 0 /\ takeovers = 0

\* Peer p executes a command of a client, or a transaction, in database d.
\* The MULTI goes out in the database that was selected when EXEC was called.
PeerWrites(p, d) ==
    LET x == Write(p, d, Len(peerlog[p]))
        more == Selecting(p, peersel[p], d, <<x>>)
    IN  /\ Len(peerlog[p] \o more) <= MaxPeerLog
        /\ peerlog' = [peerlog EXCEPT ![p] = @ \o more]
        /\ peersel' = [peersel EXCEPT ![p] = d]
        /\ UNCHANGED <<link, atmaster, own, seldb, crdtseldb, crdtoff, stream,
                       slave, stale, misfiled, slip, takeovers>>

PeerExecs(p, d, e) ==
    LET x == Write(p, e, Len(peerlog[p]))
        more == Selecting(p, peersel[p], d,
                          <<Multi(p)>> \o Selecting(p, d, e, <<x, Exec(p)>>))
    IN  /\ Len(peerlog[p] \o more) <= MaxPeerLog
        /\ peerlog' = [peerlog EXCEPT ![p] = @ \o more]
        /\ peersel' = [peersel EXCEPT ![p] = e]
        /\ UNCHANGED <<link, atmaster, own, seldb, crdtseldb, crdtoff, stream,
                       slave, stale, misfiled, slip, takeovers>>

-----------------------------------------------------------------------------
(***************************************************************************)
(* The master.                                                             *)
(***************************************************************************)

Writes(s) == {s[i] : i \in {j \in DOMAIN s : s[j].op = "write"}}

\* A command in database d to the slave and to the peers, and one to the
\* slave only: SELECT first, if needed.
replicationFeedAllSlaves(f, d, x) ==
    LET sel == f.sel # d \/ f.crdtsel # d
        s == Selecting(Own, IF sel THEN NoDb ELSE d, d, <<x>>)
    IN  [f EXCEPT !.sel = d, !.crdtsel = d, !.out = @ \o s, !.off = @ + Len(s),
                  !.stale = @ /\ ~sel,
                  !.wrong = @ \cup (IF f.stale /\ ~sel THEN Writes(s) ELSE {})]

\* Seeded fault: the database selected for the peers is looked at.
replicationFeedSlaves_Peers(f, d, x) ==
    LET sel == f.crdtsel # d
        s == (IF sel THEN <<Select(d)>> ELSE <<>>) \o <<x>>
    IN  [f EXCEPT !.sel = d, !.out = @ \o s, !.stale = @ /\ ~sel,
                  !.wrong = @ \cup (IF f.stale /\ ~sel THEN Writes(s) ELSE {})]

replicationFeedSlaves(f, d, x) ==
    LET sel == f.sel # d
        s == (IF sel THEN <<Select(d)>> ELSE <<>>) \o <<x>>
    IN  [f EXCEPT !.sel = d, !.out = @ \o s, !.stale = @ /\ ~sel,
                  !.wrong = @ \cup (IF f.stale /\ ~sel THEN Writes(s) ELSE {})]

Feeding == [sel |-> seldb, crdtsel |-> crdtseldb, off |-> crdtoff, out |-> <<>>,
            stale |-> stale, wrong |-> {}]

Feeds(f) ==
    /\ seldb' = f.sel /\ crdtseldb' = f.crdtsel /\ crdtoff' = f.off
    /\ stream' = stream \o f.out
    /\ stale' = f.stale /\ misfiled' = misfiled \cup f.wrong

OwnSteps(n, ws) ==
    /\ own + n <= MaxOwn
    /\ own' = own + n
    /\ atmaster' = atmaster \cup {[write |-> x, db |-> x.db] : x \in ws}
    /\ UNCHANGED <<peerlog, peersel, link, slave, takeovers>>

\* A write of a client, replicated by its module command.
OwnWrites(d) ==
    LET x == Write(Own, d, own)
    IN  /\ Feeds(replicationFeedAllSlaves(Feeding, d, x))
        /\ OwnSteps(1, {x})
        /\ UNCHANGED slip

\* A command of the server itself, such as RENAME: for the slaves only.
OwnRenames(d) ==
    LET x == Write(Plain, d, own)
    IN  /\ Feeds(replicationFeedSlaves(Feeding, d, x))
        /\ OwnSteps(1, {x})
        /\ UNCHANGED slip

\* EXEC in database d of a write in e and a RENAME: CRDT.MULTI before the
\* first command that may write, CRDT.EXEC at the end.
OwnExecs(d, e) ==
    LET x == Write(Own, e, own)
        y == Write(Plain, e, own + 1)
        f1 == replicationFeedAllSlaves(Feeding, d, Multi(Own))
        f2 == replicationFeedAllSlaves(f1, e, x)
        f3 == replicationFeedSlaves(f2, e, y)
    IN  /\ Feeds(replicationFeedAllSlaves(f3, e, Exec(Own)))
        /\ OwnSteps(2, {x, y})
        /\ slip' = slip + Len(f3.out) - Len(f2.out)

\* The master reads some bytes of peer p, applies the whole commands in them
\* and passes on what was applied, after a SELECT of the database that was
\* selected before it.
readQueryFromClient(p, n) ==
    LET l == FoldLeft(processInputBuffer, [link[p] EXCEPT !.client.done = {}],
                      SubSeq(peerlog[p], link[p].read + 1, link[p].read + n))
        applied == SubSeq(peerlog[p], link[p].off + 1, l.off)
        d == link[p].client.db
        sel == applied # <<>> /\ seldb # d
    IN  /\ link[p].read + n <= Len(peerlog[p])
        /\ link' = [link EXCEPT ![p] = l]
        /\ atmaster' = atmaster \cup l.client.done
        /\ stream' = stream \o (IF sel THEN <<Select(d)>> ELSE <<>>) \o applied
        /\ seldb' = IF sel THEN d ELSE seldb
        /\ stale' = IF applied = <<>> THEN stale
                    ELSE (stale /\ ~sel /\ \A i \in DOMAIN applied : applied[i].op # "select")
                         \/ l.client.db # seldb'
        /\ misfiled' = misfiled \cup
                (IF stale /\ ~sel THEN {w.write : w \in l.client.done} ELSE {})
        /\ UNCHANGED <<peerlog, peersel, own, crdtseldb, crdtoff, slave, slip, takeovers>>

\* The connection to peer p breaks and is resumed at the offset of the cached
\* master; what was not applied, also of a transaction, is read again.
crdtReplicationCacheMaster(p) ==
    /\ link[p].read # link[p].off
    /\ link' = [link EXCEPT ![p] = NewLink(@.client.db, @.off)]
    /\ UNCHANGED <<peerlog, peersel, atmaster, own, seldb, crdtseldb, crdtoff,
                   stream, slave, stale, misfiled, slip, takeovers>>

-----------------------------------------------------------------------------
(***************************************************************************)
(* The slave.                                                              *)
(***************************************************************************)

\* Seeded fault: the slave does not note what the peer selected.
RM_CrdtSelectDb_Own(peer, gid, db) == peer

\* CRDT.SELECT also selects for the client kept for that peer.
RM_CrdtSelectDb(peer, gid, db) ==
    IF gid \in Peers THEN [peer EXCEPT ![gid].db = db] ELSE peer

\* The databases of the peers after the commands executed for x.
Selected(peer, c, x) ==
    CASE x.op = "exec" /\ c.multi ->
            FoldLeft(LAMBDA q, y : IF y.op = "select" THEN RM_CrdtSelectDb(q, y.gid, y.db)
                                                      ELSE q,
                     peer, c.queue)
      [] x.op = "select" /\ ~c.multi -> RM_CrdtSelectDb(peer, x.gid, x.db)
      [] OTHER -> peer

\* A command of the master's stream.  Outside of a transaction, the bytes since
\* the last one are counted for the site whose gid the command set.
SlaveExecutes ==
    /\ stream # <<>>
    /\ LET x == Head(stream)
           c == processCommand(slave.client, x)
           raw == Append(slave.raw, x)
           peer == Selected(slave.peer, slave.client, x)
           gid == IF c.multi THEN Plain ELSE x.gid
       IN  slave' = [client |-> c,
                     raw |-> IF c.multi THEN raw ELSE <<>>,
                     crdtoff |-> slave.crdtoff + IF gid = Own THEN Len(raw) ELSE 0,
                     peer |-> IF gid \in Peers
                              THEN [peer EXCEPT ![gid].off = @ + Len(raw)]
                              ELSE peer]
    /\ stream' = Tail(stream)
    /\ UNCHANGED <<peerlog, peersel, link, atmaster, own, seldb, crdtseldb, crdtoff,
                   stale, misfiled, slip, takeovers>>

\* The connection to the master breaks inside a transaction and is resumed.
replicationCacheMaster ==
    /\ slave.client.multi
    /\ stream' = slave.raw \o stream
    /\ slave' = [slave EXCEPT !.raw = <<>>, !.client.multi = FALSE, !.client.queue = <<>>]
    /\ UNCHANGED <<peerlog, peersel, link, atmaster, own, seldb, crdtseldb, crdtoff,
                   stale, misfiled, slip, takeovers>>

\* The slave becomes the master; what was on the way to it is lost.  Another
\* slave is synchronised from it, and the streams begin with a SELECT.
replicationUnsetMaster ==
    /\ takeovers < MaxTakeovers
    /\ takeovers' = takeovers + 1
    /\ link' = [p \in Peers |-> NewLink(slave.peer[p].db, slave.peer[p].off)]
    /\ atmaster' = slave.client.done
    /\ crdtoff' = slave.crdtoff
    /\ seldb' = NoDb /\ crdtseldb' = NoDb /\ stream' = <<>>
    /\ slave' = [slave EXCEPT !.client = [Connection EXCEPT !.done = slave.client.done],
                              !.raw = <<>>]
    /\ stale' = FALSE /\ slip' = 0
    /\ UNCHANGED <<peerlog, peersel, own, misfiled>>

Next ==
    \/ \E p \in Peers, d \in Databases : PeerWrites(p, d)
    \/ \E p \in Peers, d, e \in Databases : PeerExecs(p, d, e)
    \/ \E d \in Databases : OwnWrites(d) \/ OwnRenames(d)
    \/ \E d, e \in Databases : OwnExecs(d, e)
    \/ \E p \in Peers, n \in 1..MaxPeerLog : readQueryFromClient(p, n)
    \/ \E p \in Peers : crdtReplicationCacheMaster(p)
    \/ SlaveExecutes
    \/ replicationCacheMaster
    \/ replicationUnsetMaster

Spec == Init /\ [][Next]_streamVars

-----------------------------------------------------------------------------
(***************************************************************************)
(* Properties.                                                             *)
(***************************************************************************)

\* Every write lands in the database where its origin executed it, at the
\* master and at the slave, whatever the streams are woven of.
SameDatabase ==
    \A w \in atmaster \cup slave.client.done : w.db = w.write.db

\* The same, but for writes sent to the slave while server.slaveseldb did not
\* tell what the slave had selected: after a chunk of a peer's stream in which
\* that peer selected another database (networking.c:1585).
SameDatabaseUnlessStale ==
    \A w \in atmaster \cup slave.client.done :
        w.db = w.write.db \/ w.write \in misfiled

\* The commands of peer p among its first n that are writes.
FirstWrites(p, n) == Writes(SubSeq(peerlog[p], 1, n))

\* The database that peer p has selected after its first n commands.
SelectedAfter(p, n) ==
    LET sels == {i \in 1..n : peerlog[p][i].op = "select"}
    IN  IF sels = {} THEN 0
        ELSE peerlog[p][CHOOSE i \in sels : \A j \in sels : j <= i].db

\* Where the slave would go on with the stream of a peer is exact: it has every
\* write before that offset, none behind it, and the database that the peer has
\* selected there.
TakeoverExact ==
    \A p \in Peers :
        LET s == slave.peer[p]
        IN  /\ {w.write : w \in {v \in slave.client.done : v.write.gid = p}}
                    = FirstWrites(p, s.off)
            /\ s.db = SelectedAfter(p, s.off)

\* The slave's backlog for peers is as long as the master's once it has executed
\* the whole stream, so that peers can go on with it by a partial synchronisation
\* after a takeover (networking.c:1555); but for commands that go to slaves only and
\* are executed inside of a transaction: the slave counts all bytes from CRDT.MULTI
\* to CRDT.EXEC as its site's own, and is ahead by exactly those.
BacklogAlignedButForSlip == stream = <<>> => slave.crdtoff = crdtoff + slip

\* A transaction reaches the slave whole: nothing of another site, and nothing
\* that the site executed outside of it, is queued into it.
TransactionsWhole ==
    slave.client.multi =>
        \A i, j \in DOMAIN slave.raw :
            slave.raw[i].gid # slave.raw[j].gid => {slave.raw[i].gid, slave.raw[j].gid} = {Own, Plain}
=============================================================================
