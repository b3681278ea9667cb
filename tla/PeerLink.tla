------------------------------ MODULE PeerLink ------------------------------
(***************************************************************************)
(* One link between two sites: the CRDT slave that connects, and the CRDT  *)
(* master that serves it.                                                  *)
(*                                                                         *)
(* The slave walks through a handshake, asks for the rest of the stream    *)
(* (CRDT.PSYNC) and gets it from the backlog of the master, or a snapshot  *)
(* that a forked child writes to the socket.  Connections break at either  *)
(* end at any time and the other end learns of it late, so that the master *)
(* may still hold the client of an earlier connection.                     *)
(*                                                                         *)
(* Every command is one byte long, and carries the number of the write it  *)
(* stands for.  The module implements PeerStream.                          *)
(***************************************************************************)
EXTENDS Integers, Sequences, FiniteSets

CONSTANTS
    RequireAuth,   \* masterauth is configured
    AnnounceIp,    \* slave_announce_ip is configured
    BacklogSize,   \* repl_backlog_size
    MaxWrites,     \* bound: writes of the master
    MaxFaults,     \* bound: errors, timeouts and broken connections
    MaxReplid      \* bound: replication ids the master takes

ASSUME ConstantsAssumption ==
    /\ RequireAuth \in BOOLEAN /\ AnnounceIp \in BOOLEAN
    /\ BacklogSize \in Nat \ {0}
    /\ MaxWrites \in Nat /\ MaxFaults \in Nat /\ MaxReplid \in Nat

VARIABLES
    \* the master
    written,      \* writes executed
    replid,       \* crdtServer.replid
    offset,       \* crdtServer.master_repl_offset
    backlog,      \* what crdtServer.repl_backlog holds, or NoBacklog
    client,       \* client[c]: the client of connection c
    child,        \* the child that writes a snapshot, or NoChild
    \* the connections
    ends,         \* ends[c]: the ends of c that are open
    down,         \* down[c]: what the master has sent on c
    up,           \* up[c]: what the slave has sent on c
    \* the slave
    repl_state,   \* of the CRDT_Master_Instance
    round,        \* in the handshake: the request that waits for its answer
    conn,         \* its connection, the latest one
    cached,       \* cached_master: replication id and offset, or NoCache
    master,       \* the client "master": replication id and offsets
    querybuf,     \* its query buffer
    held,         \* replication ids its clients have held
    got,          \* writes the slave has applied
    faults        \* faults so far

masterVars == <<written, replid, offset, backlog, client, child>>
wires == <<ends, down, up>>
slaveVars == <<repl_state, round, conn, cached, master, querybuf, held, got>>
vars == <<masterVars, wires, slaveVars, faults>>

\* Every connection but the first follows a fault.
Conns == 1..(MaxFaults + 1)

NoBacklog == <<0>>                             \* no write has the number 0
NoChild == [running |-> FALSE]
NoId == -1                                     \* the id "?"
Garbage == -2                                  \* bytes that are no id
NoCache == [replid |-> NoId, reploff |-> -2]
NoMaster == [replid |-> NoId, reploff |-> 0, read_reploff |-> 0]

\* A client on the master: its replstate, repl_put_online_on_ack, and what
\* waits in its output buffer.
NewClient == [replstate |-> "NONE", put_online_on_ack |-> FALSE, reply |-> <<>>]

\* crdtServer.slaves
slaves == {c \in Conns : client[c].replstate # "NONE"}

\* The requests of the handshake in their order, each one answered before the
\* next is sent.
Handshake ==
    <<"PING", "CRDT.AUTH">>
        \o (IF RequireAuth THEN <<"AUTH">> ELSE <<>>)
        \o <<"listening-port">>
        \o (IF AnnounceIp THEN <<"ip-address">> ELSE <<>>)
        \o <<"capa", "min-vc">>

\* An error in answer to one of these ends the attempt.
Fatal == {"PING", "CRDT.AUTH", "AUTH"}

\* The writes of a sequence as the commands of a stream.
Commands(ws) == [i \in DOMAIN ws |-> [type |-> "command", write |-> ws[i]]]

\* What a snapshot looks like on the socket.
Snapshot(s) ==
    << [type |-> "MERGE_START"],
       [type |-> "MERGE", upto |-> s.written],
       [type |-> "MERGE_END", replid |-> s.replid, offset |-> s.offset] >>

\* The master writes to, and closes, its end of some connections.
SendDown(msgs) ==
    down' = [c \in Conns |->
                IF c \in DOMAIN msgs /\ "slave" \in ends[c]
                THEN down[c] \o msgs[c] ELSE down[c]]

SendTo(c, msgs) == SendDown([d \in {c} |-> msgs])

\* The slave writes to its end of its connection.
SendUp(c, m) ==
    up' = [up EXCEPT ![c] = IF "master" \in ends[c] THEN Append(@, m) ELSE @]

Init ==
    /\ written = 0 /\ replid = 0 /\ offset = 0 /\ backlog = NoBacklog
    /\ client = [c \in Conns |-> NewClient]
    /\ child = NoChild
    /\ ends = [c \in Conns |-> {}]
    /\ down = [c \in Conns |-> <<>>]
    /\ up = [c \in Conns |-> <<>>]
    /\ repl_state = "CONNECT" /\ round = 0 /\ conn = 0
    /\ cached = NoCache /\ master = NoMaster /\ querybuf = <<>> /\ held = {}
    /\ got = {} /\ faults = 0

\* A fault happens: one of the budget is spent.
Fault == faults < MaxFaults /\ faults' = faults + 1

-----------------------------------------------------------------------------
(***************************************************************************)
(* The slave connects and shakes hands.  Its server is single-threaded: it *)
(* takes up nothing else before querybuf is processed.                     *)
(***************************************************************************)

\* crdtReplicationCron connects; the first event on the socket sends PING.
crdtConnectWithMaster ==
    /\ repl_state = "CONNECT"
    /\ conn + 1 \in Conns
    /\ conn' = conn + 1
    /\ ends' = [ends EXCEPT ![conn'] = {"slave", "master"}]
    /\ up' = [up EXCEPT ![conn'] = <<[type |-> "PING"]>>]
    /\ repl_state' = "HANDSHAKE" /\ round' = 1
    /\ UNCHANGED <<masterVars, down, cached, master, querybuf, held, got, faults>>

\* The slave closes its end: what is on its way down is lost.
CloseSlaveEnd ==
    /\ ends' = [ends EXCEPT ![conn] = @ \ {"slave"}]
    /\ down' = [down EXCEPT ![conn] = <<>>]
    /\ UNCHANGED up

\* The path "error" of crdtSyncWithMaster.
HandshakeError ==
    /\ CloseSlaveEnd
    /\ repl_state' = "CONNECT" /\ round' = 0

\* The CRDT.PSYNC request: the stream after what the cached master holds.
PsyncRequest == [type |-> "PSYNC", replid |-> cached.replid, offset |-> cached.reploff + 1]

\* An answer to a request of the handshake arrives.  An error ends the attempt
\* only for the fatal requests, and a closed connection reads as an error
\* whose next request may or may not be written.
crdtSyncWithMaster ==
    /\ repl_state = "HANDSHAKE"
    /\ down[conn] # <<>>
    /\ LET answer == Head(down[conn]).type
       IN  \/ /\ answer = "OK" \/ Handshake[round] \notin Fatal
              /\ down' = [down EXCEPT ![conn] = IF answer = "EOF" THEN @ ELSE Tail(@)]
              /\ IF round < Len(Handshake)
                 THEN /\ SendUp(conn, [type |-> Handshake[round + 1]])
                      /\ round' = round + 1 /\ UNCHANGED repl_state
                 ELSE /\ SendUp(conn, PsyncRequest)
                      /\ repl_state' = "RECEIVE_PSYNC" /\ round' = 0
              /\ UNCHANGED ends
           \/ /\ \/ answer = "EOF"
                 \/ answer = "ERR" /\ Handshake[round] \in Fatal
              /\ HandshakeError
    /\ UNCHANGED <<masterVars, conn, cached, master, querybuf, held, got, faults>>

\* A new client comes from createClient, which leaves its replication id
\* uninitialised: it is that of a client freed before, or garbage.
FreshReplid == held \cup {Garbage}

\* The answer to CRDT.PSYNC arrives.
crdtSlaveTryPartialResynchronization ==
    /\ repl_state = "RECEIVE_PSYNC"
    /\ down[conn] # <<>>
    /\ LET reply == Head(down[conn])
       IN  \/ /\ reply.type = "FULLRESYNC"
              /\ \E id \in FreshReplid :
                    master' = [replid |-> id, reploff |-> 0, read_reploff |-> 0]
              /\ cached' = NoCache
              /\ repl_state' = "TRANSFER"
              /\ down' = [down EXCEPT ![conn] = Tail(@)]
              /\ UNCHANGED <<ends, up, round, held>>
           \/ /\ reply.type = "CONTINUE"
              /\ master' = [replid |-> reply.replid, reploff |-> cached.reploff,
                            read_reploff |-> cached.reploff]
              /\ held' = held \cup {reply.replid}
              /\ cached' = NoCache
              /\ repl_state' = "CONNECTED"
              /\ down' = [down EXCEPT ![conn] = Tail(@)]
              /\ UNCHANGED <<ends, up, round>>
           \/ /\ reply.type \in {"LOADING", "ERR", "EOF"}
              /\ HandshakeError
              /\ cached' = IF reply.type = "LOADING" THEN cached ELSE NoCache
              /\ UNCHANGED <<master, held>>
    /\ UNCHANGED <<masterVars, conn, querybuf, got, faults>>

-----------------------------------------------------------------------------
(***************************************************************************)
(* The slave follows the stream.                                           *)
(***************************************************************************)

\* readQueryFromClient takes what has arrived, in part or all of it; the
\* bytes count for the offset once the link is connected.
readQueryFromClient(k) ==
    /\ repl_state \in {"TRANSFER", "CONNECTED"}
    /\ querybuf = <<>>
    /\ k \in 1..Len(down[conn])
    /\ \A i \in 1..k : down[conn][i].type # "EOF"
    /\ querybuf' = SubSeq(down[conn], 1, k)
    /\ down' = [down EXCEPT ![conn] = SubSeq(@, k + 1, Len(@))]
    /\ master' = IF repl_state = "CONNECTED"
                 THEN [master EXCEPT !.read_reploff = @ + k] ELSE master
    /\ UNCHANGED <<masterVars, ends, up, repl_state, round, conn, cached, held,
                   got, faults>>

\* The offset of a processed command: what is read less what is left.
Processed(m) == [m EXCEPT !.reploff = m.read_reploff - Len(Tail(querybuf))]

\* crdtMergeEndCommand: the client takes the id and the offset of the
\* snapshot, acknowledges, and the link is connected.
crdtMergeEndCommand(m) ==
    /\ master' = Processed([replid |-> m.replid, reploff |-> m.offset,
                            read_reploff |-> m.offset])
    /\ held' = held \cup {m.replid}
    /\ repl_state' = "CONNECTED"
    /\ SendUp(conn, [type |-> "ACK"])
    /\ UNCHANGED got

\* processInputBuffer executes one command of the buffer.
processInputBuffer ==
    /\ querybuf # <<>>
    /\ querybuf' = Tail(querybuf)
    /\ LET m == Head(querybuf)
       IN  \/ m.type = "MERGE_END" /\ crdtMergeEndCommand(m)
           \/ /\ m.type # "MERGE_END"
              /\ got' = got \cup (CASE m.type = "command" -> {m.write}
                                    [] m.type = "MERGE" -> 1..m.upto
                                    [] OTHER -> {})
              /\ master' = IF repl_state = "CONNECTED" THEN Processed(master) ELSE master
              /\ UNCHANGED <<held, repl_state, up>>
    /\ UNCHANGED <<masterVars, ends, down, round, conn, cached, faults>>

\* crdtReplicationCron acknowledges from time to time.
crdtReplicationSendAck ==
    /\ repl_state = "CONNECTED" /\ querybuf = <<>>
    /\ up[conn] = <<>>
    /\ SendUp(conn, [type |-> "ACK"])
    /\ UNCHANGED <<masterVars, ends, down, slaveVars, faults>>

\* freeClient caches the client of a master, crdtReplicationCacheMaster, also
\* one that was still receiving the snapshot.
crdtReplicationCacheMaster ==
    /\ CloseSlaveEnd
    /\ cached' = [replid |-> master.replid, reploff |-> master.reploff]
    /\ master' = NoMaster
    /\ repl_state' = "CONNECT"
    /\ UNCHANGED <<round, held>>

\* The slave reads the end of the stream.
ReadMasterEof ==
    /\ querybuf = <<>>
    /\ repl_state \in {"TRANSFER", "CONNECTED"}
    /\ down[conn] # <<>> /\ Head(down[conn]).type = "EOF"
    /\ crdtReplicationCacheMaster
    /\ UNCHANGED <<masterVars, conn, querybuf, got, faults>>

\* A read error, or a timeout of the connected link.
LoseConnection ==
    /\ querybuf = <<>>
    /\ repl_state \in {"TRANSFER", "CONNECTED"}
    /\ Fault
    /\ crdtReplicationCacheMaster
    /\ UNCHANGED <<masterVars, conn, querybuf, got>>

\* crdtCancelReplicationHandshake after a timeout: a cached master is kept, a
\* snapshot is dropped with its client.
crdtCancelReplicationHandshake ==
    /\ querybuf = <<>>
    /\ repl_state \in {"HANDSHAKE", "RECEIVE_PSYNC", "TRANSFER"}
    /\ Fault
    /\ HandshakeError
    /\ master' = NoMaster
    /\ UNCHANGED <<masterVars, conn, cached, querybuf, held, got>>

-----------------------------------------------------------------------------
(***************************************************************************)
(* The master.                                                             *)
(***************************************************************************)

\* The next request of connection c is of type t; it is taken.
Takes(c, t) ==
    /\ up[c] # <<>> /\ Head(up[c]).type = t
    /\ up' = [up EXCEPT ![c] = Tail(@)]

\* pingCommand, crdtAuthCommand, authCommand and replconfCommand answer.
AnswerHandshake(c) ==
    /\ \E i \in DOMAIN Handshake : Takes(c, Handshake[i])
    /\ \/ SendTo(c, <<[type |-> "OK"]>>) /\ UNCHANGED faults
       \/ SendTo(c, <<[type |-> "ERR"]>>) /\ Fault
    /\ UNCHANGED <<masterVars, ends, slaveVars>>

\* The offset of the first byte of the backlog: repl_backlog_off.
backlog_off == offset - Len(backlog) + 1

\* masterTryPartialResynchronization: the id is ours, and the backlog still
\* holds what follows the offset.
CanContinue_AnyId(m) ==   \* seeded fault: the id is not compared
    /\ backlog # NoBacklog
    /\ m.offset \in backlog_off..(offset + 1)

CanContinue(m) ==
    /\ m.replid = replid
    /\ backlog # NoBacklog
    /\ m.offset \in backlog_off..(offset + 1)

\* refullSyncWithSlaves: the slave waits for a snapshot.  The first one has
\* the backlog created, under a new replication id.
refullSyncWithSlaves(c) ==
    /\ client' = [client EXCEPT ![c].replstate = "WAIT_BGSAVE_START"]
    /\ IF backlog = NoBacklog
       THEN /\ backlog' = <<>>
            /\ replid' = IF slaves = {} THEN replid + 1 ELSE replid
       ELSE UNCHANGED <<backlog, replid>>
    /\ UNCHANGED down

crdtPsyncCommand(c) ==
    /\ Takes(c, "PSYNC")
    /\ LET m == Head(up[c])
       IN  IF CanContinue(m)
           THEN /\ client' = [client EXCEPT ![c].replstate = "ONLINE"]
                /\ SendTo(c, <<[type |-> "CONTINUE", replid |-> replid]>>
                                \o Commands(SubSeq(backlog, m.offset - backlog_off + 1,
                                                   Len(backlog))))
                /\ UNCHANGED <<replid, backlog>>
           ELSE refullSyncWithSlaves(c)
    /\ UNCHANGED <<written, offset, child, ends, slaveVars, faults>>

\* A server that is loading, or that has lost its own master, puts it off.
RefusePsync(c) ==
    /\ Takes(c, "PSYNC")
    /\ Fault
    /\ SendTo(c, <<[type |-> "LOADING"]>>)
    /\ UNCHANGED <<masterVars, ends, slaveVars>>

\* The clients that wait for a snapshot to start.
waiting == {c \in Conns : client[c].replstate = "WAIT_BGSAVE_START"}

\* The master frees clients: their connections are closed, once what was sent
\* before is read.
FreeClients(cs, last) ==
    /\ client' = [c \in Conns |-> IF c \in cs THEN NewClient ELSE client[c]]
    /\ ends' = [c \in Conns |-> IF c \in cs THEN ends[c] \ {"master"} ELSE ends[c]]
    /\ up' = [c \in Conns |-> IF c \in cs THEN <<>> ELSE up[c]]
    /\ SendDown([c \in cs |-> Append(last, [type |-> "EOF"])])

\* startCrdtBgsaveForReplication2 forks a child for all waiting slaves, and
\* tells them the offset that the snapshot stands for.
startCrdtBgsaveForReplication ==
    /\ child = NoChild
    /\ waiting # {}
    /\ client' = [c \in Conns |->
                    IF c \in waiting
                    THEN [client[c] EXCEPT !.replstate = "WAIT_BGSAVE_END"] ELSE client[c]]
    /\ SendDown([c \in waiting |->
                    <<[type |-> "FULLRESYNC", replid |-> replid, offset |-> offset]>>])
    /\ child' = [running |-> TRUE, conns |-> waiting,
                 written |-> written, replid |-> replid, offset |-> offset]
    /\ UNCHANGED <<written, replid, offset, backlog, ends, up, slaveVars, faults>>

\* The fork fails: the slaves that wait get an error and are closed.
BgsaveFails ==
    /\ child = NoChild
    /\ waiting # {}
    /\ Fault
    /\ FreeClients(waiting, <<[type |-> "ERR"]>>)
    /\ UNCHANGED <<written, replid, offset, backlog, child, slaveVars>>

\* crdtRdbSaveRio in the child writes the snapshot to all the sockets.
ChildWrites ==
    /\ child # NoChild /\ child.running
    /\ SendDown([c \in child.conns |-> Snapshot(child)])
    /\ child' = [child EXCEPT !.running = FALSE]
    /\ UNCHANGED <<written, replid, offset, backlog, client, ends, up, slaveVars, faults>>

\* The clients of the child that the master has not freed.
served == {c \in Conns : client[c].replstate = "WAIT_BGSAVE_END"}

\* The master learns that the child is done: updateSlavesWaitingBgsave.  The
\* slaves count as online, but are sent nothing before they acknowledge.
backgroundSaveDoneHandlerSocket ==
    /\ child # NoChild /\ ~child.running
    /\ child' = NoChild
    /\ client' = [c \in Conns |->
                    IF c \in served
                    THEN [client[c] EXCEPT !.replstate = "ONLINE", !.put_online_on_ack = TRUE]
                    ELSE client[c]]
    /\ UNCHANGED <<written, replid, offset, backlog, wires, slaveVars, faults>>

\* The child dies with the snapshot half written: its slaves are closed.
ChildFails ==
    /\ child # NoChild /\ child.running
    /\ Fault
    /\ child' = NoChild
    /\ \E k \in 0..2 : FreeClients(served, SubSeq(Snapshot(child), 1, k))
    /\ UNCHANGED <<written, replid, offset, backlog, slaveVars>>

\* Seeded fault: what has waited in the output buffer is not sent.
Acknowledge_DropsReply(c) ==
    /\ Takes(c, "ACK")
    /\ client' = [client EXCEPT ![c].put_online_on_ack = FALSE, ![c].reply = <<>>]
    /\ UNCHANGED <<written, replid, offset, backlog, child, ends, down, slaveVars, faults>>

\* replconfCommand, ack-vc: the first acknowledgement after the snapshot puts
\* the slave online, and what has waited in the output buffer is sent.
Acknowledge(c) ==
    /\ Takes(c, "ACK")
    /\ IF client[c].put_online_on_ack /\ client[c].replstate = "ONLINE"
       THEN /\ client' = [client EXCEPT ![c].put_online_on_ack = FALSE, ![c].reply = <<>>]
            /\ SendTo(c, Commands(client[c].reply))
       ELSE UNCHANGED <<client, down>>
    /\ UNCHANGED <<written, replid, offset, backlog, child, ends, slaveVars, faults>>

\* feedReplicationBacklog: the last BacklogSize bytes are kept.
Feed(w) ==
    LET b == Append(backlog, w)
    IN  IF Len(b) > BacklogSize THEN Tail(b) ELSE b

Writable_Early(c) ==   \* seeded fault: the acknowledgement is not awaited
    client[c].replstate = "ONLINE"

\* prepareClientToWrite: a slave is sent its output buffer once it is really
\* online.
Writable(c) == client[c].replstate = "ONLINE" /\ ~client[c].put_online_on_ack

\* A write.  replicationFeedAllSlaves puts it in the backlog, if there is one,
\* and in the output buffer of every slave that does not wait for a snapshot
\* to start.
Write ==
    /\ written < MaxWrites
    /\ written' = written + 1
    /\ IF backlog = NoBacklog
       THEN UNCHANGED <<offset, backlog>>
       ELSE offset' = offset + 1 /\ backlog' = Feed(written')
    /\ LET fed == slaves \ waiting
           sent == {c \in fed : Writable(c)}
       IN  /\ client' = [c \in Conns |->
                            IF c \in fed \ sent
                            THEN [client[c] EXCEPT !.reply = Append(@, written')]
                            ELSE client[c]]
           /\ SendDown([c \in sent |-> Commands(<<written'>>)])
    /\ UNCHANGED <<replid, child, ends, up, slaveVars, faults>>

\* The master reads the end of a connection that the slave has closed.
ReadEof(c) ==
    /\ ends[c] = {"master"} /\ up[c] = <<>>
    /\ FreeClients({c}, <<>>)
    /\ UNCHANGED <<written, replid, offset, backlog, child, slaveVars, faults>>

\* A slave has not acknowledged for repl_timeout seconds.
TimeoutSlave(c) ==
    /\ client[c].replstate = "ONLINE"
    /\ Fault
    /\ FreeClients({c}, <<>>)
    /\ UNCHANGED <<written, replid, offset, backlog, child, slaveVars>>

\* Without slaves for repl_backlog_time_limit seconds, the backlog is freed and
\* the replication id changed.
freeReplicationBacklog ==
    /\ slaves = {} /\ backlog # NoBacklog
    /\ replid < MaxReplid
    /\ replid' = replid + 1
    /\ backlog' = NoBacklog
    /\ UNCHANGED <<written, offset, client, child, wires, slaveVars, faults>>

-----------------------------------------------------------------------------
\* What the event loops and crons of both servers do by themselves.
SlaveStep ==
    \/ crdtConnectWithMaster
    \/ crdtSyncWithMaster
    \/ crdtSlaveTryPartialResynchronization
    \/ \E k \in 1..(MaxWrites + 3) : readQueryFromClient(k)
    \/ processInputBuffer
    \/ ReadMasterEof
    \/ LoseConnection
    \/ crdtCancelReplicationHandshake

MasterStep ==
    \/ \E c \in Conns :
          \/ AnswerHandshake(c)
          \/ crdtPsyncCommand(c)
          \/ RefusePsync(c)
          \/ Acknowledge(c)
          \/ ReadEof(c)
          \/ TimeoutSlave(c)
    \/ startCrdtBgsaveForReplication
    \/ BgsaveFails
    \/ ChildWrites
    \/ backgroundSaveDoneHandlerSocket
    \/ ChildFails
    \/ Write
    \/ freeReplicationBacklog

Next == SlaveStep \/ crdtReplicationSendAck \/ MasterStep

Spec == Init /\ [][Next]_vars

\* The event loops of both servers run, their crons are called, sockets
\* deliver what is written to them, and a child ends.  Nothing is assumed of
\* writes, of faults and of the idle timer.
Fairness ==
    /\ WF_vars(crdtConnectWithMaster)
    /\ WF_vars(crdtSyncWithMaster)
    /\ WF_vars(crdtSlaveTryPartialResynchronization)
    /\ WF_vars(\E k \in 1..(MaxWrites + 3) : readQueryFromClient(k))
    /\ WF_vars(processInputBuffer)
    /\ WF_vars(ReadMasterEof)
    /\ WF_vars(crdtReplicationSendAck)
    /\ \A c \in Conns :
          /\ WF_vars(AnswerHandshake(c))
          /\ WF_vars(crdtPsyncCommand(c))
          /\ WF_vars(Acknowledge(c))
          /\ WF_vars(ReadEof(c))
    /\ WF_vars(startCrdtBgsaveForReplication)
    /\ WF_vars(ChildWrites)
    /\ WF_vars(backgroundSaveDoneHandlerSocket)

FairSpec == Spec /\ Fairness

-----------------------------------------------------------------------------
(***************************************************************************)
(* Properties.                                                             *)
(***************************************************************************)

\* The offset that a slave will ask for is that of its last command: on a
\* connected link the offset of the slave and the commands that are on their
\* way add up to the offset of the master, under the id of the master.  It
\* depends on the master sending nothing behind the snapshot before the slave
\* has acknowledged it (crdtMergeEndCommand sets the offset, and bytes behind
\* it in the same buffer would never be counted).
OffsetExact ==
    repl_state = "CONNECTED" /\ conn \in slaves =>
        /\ master.replid = replid
        /\ master.reploff + Len(querybuf) + Len(down[conn]) + Len(client[conn].reply)
               = offset

\* The last write that the slave has applied.
lastGot == CHOOSE w \in got \cup {0} : \A v \in got : v <= w

Stream == INSTANCE PeerStream WITH got <- lastGot, live <- repl_state = "CONNECTED"

\* The slave applies the stream without a gap, whatever breaks: a partial
\* synchronisation (crdtPsyncCommand) continues where the slave has stopped,
\* and a full one (crdtMergeEndCommand) is only followed by what came after
\* the fork.  A command may be applied again, which changes nothing.
ImplementsStream == Stream!Spec

\* Once writes and faults stop, the slave gets everything: the handshake, the
\* partial or the full synchronisation and the first acknowledgement
\* (crdtReplicationSendAck) never leave the link waiting for good.
CaughtUp == got = 1..written
=============================================================================
