------------------------------ MODULE SlaveSync -----------------------------
(***************************************************************************)
(* The master's side of replication inside of a site (replication.c): what *)
(* a PSYNC may continue, and how a slave that needs everything gets a      *)
(* snapshot and what was written since.                                    *)
(***************************************************************************)
EXTENDS Integers, Sequences, FiniteSets, SequencesExt

-----------------------------------------------------------------------------
(***************************************************************************)
(* The histories of the servers of one site (replication.c): a master, its *)
(* slaves and slaves of slaves, and which of them may continue the stream  *)
(* of which other one after a broken link, a restart or a change of        *)
(* master.                                                                 *)
(*                                                                         *)
(* A history has a replication id and an offset.  A server keeps the end   *)
(* of its history in a backlog and answers a PSYNC from it if the id is    *)
(* its own, or its former one up to the offset where it changed.  Two      *)
(* servers with the same id and offset must have the same data.  Here the  *)
(* data is the sequence of writes a server has executed, and a write takes *)
(* one place in the stream.                                                *)
(***************************************************************************)

CONSTANTS
    Servers,       \* servers; 1 starts as the master of the others
    BacklogSize,   \* repl_backlog_size
    MaxHistory,    \* bound: writes
    MaxSlaveofs,   \* bound: SLAVEOF commands
    MaxBreaks      \* bound: broken links, aborted transfers and restarts

VARIABLES
    srv,       \* server -> its state
    feed,      \* slave -> [up, q]: whether its master feeds it, and what is on the way
    saved,     \* server -> the RDB file: [data, info, id, off]
    ids,       \* replication ids used so far
    written,   \* writes so far
    forked,    \* ghost: a backlog was started under an old id although the data had changed
               \* without being counted ('missed' of a server)
    slaveofs, breaks

psVars == <<srv, feed, saved, ids, written, forked, slaveofs, breaks>>

NoId == 0
NoCache == [id |-> NoId, off |-> 0]
NoBacklog == [on |-> FALSE, q |-> <<>>]
NoFeed == [up |-> FALSE, q |-> <<>>]

-----------------------------------------------------------------------------
(***************************************************************************)
(* Ids and backlogs.                                                       *)
(***************************************************************************)

changeReplicationId(s, id) == [s EXCEPT !.id = id]

clearReplicationId2(s) == [s EXCEPT !.id2 = NoId, !.off2 = -1]

shiftReplicationId(s, id) == changeReplicationId([s EXCEPT !.id2 = s.id, !.off2 = s.off + 1], id)

createReplicationBacklog(s) ==
    IF s.backlog.on THEN s ELSE [s EXCEPT !.backlog = [on |-> TRUE, q |-> <<>>]]

freeReplicationBacklog(s) == [s EXCEPT !.backlog = NoBacklog]

\* The offset of the oldest write in the backlog.
BacklogOff(s) == s.off - Len(s.backlog.q) + 1

feedReplicationBacklog(s, w) ==
    LET q == Append(s.backlog.q, w)
    IN  [s EXCEPT !.off = @ + 1,
                  !.backlog.q = IF Len(q) > BacklogSize THEN Tail(q) ELSE q]

Fed(m) == {n \in Servers : srv[n].of = m /\ feed[n].up}

ToSlaves(m, w) == [n \in Servers |-> IF n \in Fed(m) THEN [feed[n] EXCEPT !.q = Append(@, w)]
                                                     ELSE feed[n]]

\* disconnectSlaves: they may still read what is on the way.
disconnectSlaves(m) == [n \in Servers |-> IF n \in Fed(m) THEN [feed[n] EXCEPT !.up = FALSE]
                                                          ELSE feed[n]]

-----------------------------------------------------------------------------
PartialInit ==
    /\ srv = [n \in Servers |->
                [data |-> <<>>, off |-> 0, id |-> n, id2 |-> NoId, off2 |-> -1,
                 backlog |-> NoBacklog, of |-> IF n = 1 THEN 0 ELSE 1,
                 st |-> IF n = 1 THEN "none" ELSE "connect",
                 cached |-> NoCache, reploff |-> 0, bulk |-> <<>>, bulkid |-> NoId,
                 crdtlog |-> FALSE, missed |-> FALSE]]
    /\ feed = [n \in Servers |-> NoFeed]
    /\ saved = [n \in Servers |-> [data |-> <<>>, info |-> FALSE, id |-> NoId, off |-> 0]]
    /\ ids = Cardinality(Servers)
    /\ written = 0
    /\ forked = FALSE
    /\ slaveofs = 0
    /\ breaks = 0

\* replicationFeedSlaves: a write at a master, counted only with a backlog.
Write(m) ==
    /\ srv[m].of = 0
    /\ written < MaxHistory
    /\ written' = written + 1
    /\ LET s == [srv[m] EXCEPT !.data = Append(@, written + 1)]
       IN  srv' = [srv EXCEPT ![m] = IF s.backlog.on THEN feedReplicationBacklog(s, written + 1)
                                                     ELSE [s EXCEPT !.missed = TRUE]]
    /\ feed' = ToSlaves(m, written + 1)
    /\ UNCHANGED <<saved, ids, forked, slaveofs, breaks>>

\* replicationFeedSlavesFromMasterStream: a slave executes a write of its master,
\* keeps it in its backlog and passes it on.
SlaveReads(n) ==
    /\ srv[n].st = "connected"
    /\ feed[n].q # <<>>
    /\ LET w == Head(feed[n].q)
           s == [srv[n] EXCEPT !.data = Append(@, w), !.reploff = @ + 1]
       IN  /\ srv' = [srv EXCEPT ![n] = IF s.backlog.on THEN feedReplicationBacklog(s, w) ELSE s]
           /\ feed' = [ToSlaves(n, w) EXCEPT ![n].q = Tail(@)]
    /\ UNCHANGED <<saved, ids, written, forked, slaveofs, breaks>>

-----------------------------------------------------------------------------
(***************************************************************************)
(* PSYNC.                                                                  *)
(***************************************************************************)

\* syncCommand refuses while the link to the own master is down.
Answers(m) == srv[m].of # 0 => srv[m].st = "connected"

masterTryPartialResynchronization(m, id, off) ==
    LET s == srv[m]
    IN  /\ id # NoId
        /\ id = s.id \/ (id = s.id2 /\ off <= s.off2)
        /\ s.backlog.on
        /\ off \in BacklogOff(s) .. BacklogOff(s) + Len(s.backlog.q)

addReplyReplicationBacklog(s, off) ==
    SubSeq(s.backlog.q, off - BacklogOff(s) + 1, Len(s.backlog.q))

Asks(n, m) ==
    /\ srv[n].st = "connect"
    /\ srv[n].of = m
    /\ Answers(m)

replicationResurrectCachedMaster(s, cached) ==
    [s EXCEPT !.st = "connected", !.reploff = cached.off, !.cached = NoCache]

\* +CONTINUE: the slave takes over the id of the master, and tells its own slaves.
PsyncContinues(n, m) ==
    LET s == srv[n]
        asked == s.cached.off + 1
        renamed == IF srv[m].id = s.cached.id THEN s
                   ELSE [s EXCEPT !.id2 = s.cached.id, !.off2 = s.off + 1, !.id = srv[m].id]
    IN  /\ Asks(n, m)
        /\ masterTryPartialResynchronization(m, s.cached.id, asked)
        /\ srv' = [srv EXCEPT ![n] = createReplicationBacklog(
                      replicationResurrectCachedMaster(renamed, s.cached))]
        /\ feed' = [(IF srv[m].id = s.cached.id THEN feed ELSE disconnectSlaves(n)) EXCEPT
                      ![n] = [up |-> TRUE, q |-> addReplyReplicationBacklog(srv[m], asked)]]
        /\ UNCHANGED <<saved, ids, written, forked, slaveofs, breaks>>

\* The first slave of a server without any backlog starts a new history.
FullSyncStarts(s, first) ==
    CASE first /\ ~s.backlog.on /\ ~s.crdtlog ->
            [createReplicationBacklog(clearReplicationId2(changeReplicationId(s, ids + 1)))
                EXCEPT !.crdtlog = TRUE, !.missed = FALSE]
      [] OTHER -> [createReplicationBacklog(s) EXCEPT !.crdtlog = TRUE]

\* +FULLRESYNC: the master forks a child that saves, the slave gives up what it had.
PsyncResyncs(n, m) ==
    LET f == FullSyncStarts(srv[m], Fed(m) = {})
    IN  /\ Asks(n, m)
        /\ ~masterTryPartialResynchronization(m, srv[n].cached.id, srv[n].cached.off + 1)
        /\ srv' = [srv EXCEPT ![m] = f,
                              ![n] = [freeReplicationBacklog(srv[n]) EXCEPT
                                        !.st = "transfer", !.cached = NoCache,
                                        !.bulk = f.data, !.bulkid = f.id, !.reploff = f.off]]
        /\ ids' = IF f.id # srv[m].id THEN ids + 1 ELSE ids
        /\ forked' = (forked \/ (~srv[m].backlog.on /\ srv[m].missed /\ f.id = srv[m].id))
        /\ feed' = [disconnectSlaves(n) EXCEPT ![n] = [up |-> TRUE, q |-> <<>>]]
        /\ UNCHANGED <<saved, written, slaveofs, breaks>>

\* The file is complete: the slave loads it and takes over id and offset.
readSyncBulkPayload(n) ==
    /\ srv[n].st = "transfer"
    /\ srv' = [srv EXCEPT ![n] =
                 [createReplicationBacklog(clearReplicationId2(
                     [srv[n] EXCEPT !.id = srv[n].bulkid, !.off = srv[n].reploff]))
                  EXCEPT !.st = "connected", !.data = srv[n].bulk, !.crdtlog = TRUE, !.missed = FALSE,
                         !.bulk = <<>>, !.bulkid = NoId]]
    /\ saved' = [saved EXCEPT ![n] = [data |-> srv[n].bulk, info |-> TRUE,
                                      id |-> srv[n].bulkid, off |-> srv[n].reploff]]
    /\ UNCHANGED <<feed, ids, written, forked, slaveofs, breaks>>

\* The file cannot be loaded: the old data is gone already.
LoadFails(n) ==
    /\ srv[n].st = "transfer"
    /\ breaks < MaxBreaks
    /\ breaks' = breaks + 1
    /\ srv' = [srv EXCEPT ![n] = [srv[n] EXCEPT !.st = "connect", !.data = <<>>, !.missed = TRUE,
                                                !.bulk = <<>>, !.bulkid = NoId]]
    /\ feed' = [feed EXCEPT ![n] = NoFeed]
    /\ UNCHANGED <<saved, ids, written, forked, slaveofs>>

-----------------------------------------------------------------------------
(***************************************************************************)
(* Broken links, SLAVEOF and restarts.                                     *)
(***************************************************************************)

\* replicationCacheMaster: the slave of a broken link remembers where it was.
replicationCacheMaster(s) ==
    [s EXCEPT !.st = "connect",
              !.cached = IF s.st = "connected" THEN [id |-> s.id, off |-> s.reploff] ELSE s.cached,
              !.bulk = <<>>, !.bulkid = NoId]

\* A master that becomes a slave knows where its own history stands.
replicationCacheMasterUsingMyself(s) == [s EXCEPT !.cached = [id |-> s.id, off |-> s.off]]

LinkLost(n) ==
    /\ srv[n].st \in {"transfer", "connected"}
    /\ feed[n].up => breaks < MaxBreaks
    /\ breaks' = IF feed[n].up THEN breaks + 1 ELSE breaks
    /\ srv' = [srv EXCEPT ![n] = replicationCacheMaster(srv[n])]
    /\ feed' = [feed EXCEPT ![n] = NoFeed]
    /\ UNCHANGED <<saved, ids, written, forked, slaveofs>>

\* SLAVEOF host port
replicationSetMaster(n, m) ==
    /\ slaveofs < MaxSlaveofs
    /\ n # m
    /\ srv[n].of # m
    /\ slaveofs' = slaveofs + 1
    /\ LET s == srv[n]
           cached == IF s.of = 0 THEN replicationCacheMasterUsingMyself(s)
                                 ELSE replicationCacheMaster(s)
       IN  srv' = [srv EXCEPT ![n] = [cached EXCEPT !.of = m, !.st = "connect"]]
    /\ feed' = [disconnectSlaves(n) EXCEPT ![n] = NoFeed]
    /\ UNCHANGED <<saved, ids, written, forked, breaks>>

\* SLAVEOF NO ONE
replicationUnsetMaster(n) ==
    /\ slaveofs < MaxSlaveofs
    /\ srv[n].of # 0
    /\ slaveofs' = slaveofs + 1
    /\ srv' = [srv EXCEPT ![n] = [shiftReplicationId(srv[n], ids + 1) EXCEPT
                                    !.of = 0, !.st = "none", !.cached = NoCache,
                                    !.bulk = <<>>, !.bulkid = NoId]]
    /\ ids' = ids + 1
    /\ feed' = [disconnectSlaves(n) EXCEPT ![n] = NoFeed]
    /\ UNCHANGED <<saved, written, forked, breaks>>

\* crdtReplicationCron: a master without slaves frees its backlogs, and starts a new
\* history since it no longer counts its writes.
BacklogsFreed(m) ==
    /\ breaks < MaxBreaks
    /\ srv[m].of = 0
    /\ Fed(m) = {}
    /\ srv[m].backlog.on
    /\ srv[m].crdtlog
    /\ breaks' = breaks + 1
    /\ srv' = [srv EXCEPT ![m] = [freeReplicationBacklog(clearReplicationId2(
                                     changeReplicationId(srv[m], ids + 1)))
                                  EXCEPT !.crdtlog = FALSE]]
    /\ ids' = ids + 1
    /\ UNCHANGED <<feed, saved, written, forked, slaveofs>>

\* rdbPopulateSaveInfo: a file has id and offset if the server is in a history.
Save(n) ==
    LET s == srv[n]
    IN  /\ breaks < MaxBreaks
        /\ saved' = [saved EXCEPT ![n] =
                       [data |-> s.data, id |-> s.id, off |-> s.off,
                        info |-> IF s.of = 0 THEN s.backlog.on
                                 ELSE s.st = "connected" \/ s.cached # NoCache]]
        /\ saved' # saved
        /\ UNCHANGED <<srv, feed, ids, written, forked, slaveofs, breaks>>

\* A server that is configured as a slave continues the history of its file.
Restart(n) ==
    /\ breaks < MaxBreaks
    /\ breaks' = breaks + 1
    /\ LET f == saved[n]
           resumes == srv[n].of # 0 /\ f.info
       IN  /\ srv' = [srv EXCEPT ![n] =
                        [srv[n] EXCEPT !.data = f.data,
                                       !.id = IF resumes THEN f.id ELSE ids + 1,
                                       !.off = IF resumes THEN f.off ELSE 0,
                                       !.id2 = NoId, !.off2 = -1, !.backlog = NoBacklog,
                                       !.st = IF srv[n].of = 0 THEN "none" ELSE "connect",
                                       !.cached = IF resumes THEN [id |-> f.id, off |-> f.off]
                                                  ELSE NoCache,
                                       !.reploff = 0, !.bulk = <<>>, !.bulkid = NoId,
                                       !.crdtlog = FALSE, !.missed = FALSE]]
           /\ ids' = IF resumes THEN ids ELSE ids + 1
    /\ feed' = [disconnectSlaves(n) EXCEPT ![n] = NoFeed]
    /\ UNCHANGED <<saved, written, forked, slaveofs>>

PartialNext ==
    \/ \E m \in Servers : Write(m)
    \/ \E n \in Servers : SlaveReads(n)
    \/ \E n, m \in Servers : PsyncContinues(n, m) \/ PsyncResyncs(n, m)
    \/ \E n \in Servers : readSyncBulkPayload(n) \/ LoadFails(n) \/ LinkLost(n)
    \/ \E n, m \in Servers : replicationSetMaster(n, m)
    \/ \E n \in Servers : replicationUnsetMaster(n)
    \/ \E m \in Servers : BacklogsFreed(m)
    \/ \E n \in Servers : Save(n) \/ Restart(n)

PartialSpec == PartialInit /\ [][PartialNext]_psVars

-----------------------------------------------------------------------------
(***************************************************************************)
(* Properties.                                                             *)
(***************************************************************************)

\* A slave that its master feeds has, with what is on the way, exactly the writes
\* of its master: a partial resynchronization never skips or repeats one
\* (replication.c:425).  Left out is a master that started a backlog under an id it
\* had before writes it did not count: FullSyncStarts (replication.c:639) changes
\* the id only if the backlog of the peers is missing too.
FedSlaveExactUnlessForked ==
    \A n \in Servers :
        srv[n].st = "connected" /\ feed[n].up /\ ~forked =>
            srv[n].data \o feed[n].q = srv[srv[n].of].data

-----------------------------------------------------------------------------
(***************************************************************************)
(* The full synchronizations a master serves (replication.c, rdb.c): a     *)
(* slave waits for a child process that saves the data set to a file or to *)
(* the sockets of the slaves, the master collects the commands executed    *)
(* since the fork, and the slave gets the snapshot and then the commands.  *)
(* Slaves that come later may join a save to a file that is already        *)
(* running.  Peers of other sites are served by a second child.  BGSAVE,   *)
(* the rewrite of the append only file and FLUSHALL interfere.             *)
(*                                                                         *)
(* The data set is the sequence of writes since the last FLUSHALL; a       *)
(* command of the stream is a write (its number) or Flush.                 *)
(***************************************************************************)

CONSTANTS
    Replicas,      \* slaves of this site
    EofCapable,    \* the slaves that can read a snapshot of unknown length (CAPA EOF)
    PeerSlaves,    \* slaves in other sites
    MaxStreamed,   \* bound: commands
    MaxSyncs,      \* bound: full synchronizations asked for
    MaxSaves,      \* bound: BGSAVE and BGREWRITEAOF commands
    MaxForkFaults  \* bound: failing forks and children

VARIABLES
    repl,       \* slave of this site -> [st, base, buf, snap]
    peer,       \* slave of another site -> its state
    child,      \* the saving child: [type, snap, st]
    crdtchild,  \* the child that serves peers: "none", "running" or "exited"
    aofchild,   \* an append only file is being rewritten
    scheduled,  \* rdb_bgsave_scheduled
    dataset,    \* the data set
    offset,     \* master_repl_offset
    file,       \* the content of the RDB file
    diskless,   \* repl_diskless_sync
    multi,      \* multi_process_sync
    syncs, saves, forkFaults

stVars == <<repl, peer, child, crdtchild, aofchild, scheduled, dataset, offset, file,
            diskless, multi, syncs, saves, forkFaults>>

Flush == 0
NoChild == [type |-> "none", snap |-> <<>>, st |-> "none"]
Gone == [st |-> "none", base |-> 0, buf |-> <<>>, snap |-> <<>>]

\* The data set after a command, and after a sequence of commands.
Execute(c, d) == IF c = Flush THEN <<>> ELSE Append(d, c)
Replay(d, cmds) == FoldLeft(LAMBDA e, c : Execute(c, e), d, cmds)

In(st) == {r \in Replicas : repl[r].st = st}

-----------------------------------------------------------------------------
TransferInit ==
    /\ repl = [r \in Replicas |-> Gone]
    /\ peer = [p \in PeerSlaves |-> "none"]
    /\ child = NoChild
    /\ crdtchild = "none"
    /\ aofchild = FALSE
    /\ scheduled = FALSE
    /\ dataset = <<>>
    /\ offset = 0
    /\ file = <<>>
    /\ diskless \in BOOLEAN
    /\ multi \in BOOLEAN
    /\ syncs = 0
    /\ saves = 0
    /\ forkFaults = 0

\* replicationFeedSlaves: everyone who is past the fork collects the command.
replicationFeedSlaves(c) ==
    [r \in Replicas |-> IF repl[r].st \in {"none", "start"} THEN repl[r]
                        ELSE [repl[r] EXCEPT !.buf = Append(@, c)]]

\* A write of a client.
WriteCommand ==
    /\ offset < MaxStreamed
    /\ offset' = offset + 1
    /\ dataset' = Execute(offset + 1, dataset)
    /\ repl' = replicationFeedSlaves(offset + 1)
    /\ UNCHANGED <<peer, child, crdtchild, aofchild, scheduled, file, diskless, multi,
                   syncs, saves, forkFaults>>

\* FLUSHALL kills the children and saves the empty data set itself.
flushallCommand ==
    /\ offset < MaxStreamed
    /\ offset' = offset + 1
    /\ dataset' = <<>>
    /\ child' = IF child.st = "running" THEN [child EXCEPT !.st = "killed"] ELSE child
    /\ crdtchild' = IF crdtchild = "running" THEN "killed" ELSE crdtchild
    /\ file' = <<>>
    /\ repl' = replicationFeedSlaves(Flush)
    /\ UNCHANGED <<peer, aofchild, scheduled, diskless, multi, syncs, saves, forkFaults>>

-----------------------------------------------------------------------------
(***************************************************************************)
(* Starting a child.                                                       *)
(***************************************************************************)

\* A fork may fail.
Fork(ok) ==
    /\ ok \/ forkFaults < MaxForkFaults
    /\ forkFaults' = IF ok THEN forkFaults ELSE forkFaults + 1

\* rdbSaveBackground: no other child, unless children of both kinds may run.
MaySaveToFile(c, other) == ~aofchild /\ c.type = "none" /\ (multi \/ other = "none")

\* rdbSaveToSlavesSockets
MaySaveToSockets(c) == ~aofchild /\ c.type = "none"

replicationSetupSlaveForFullResync(r) == [r EXCEPT !.st = "end", !.base = offset, !.buf = <<>>]

\* startBgsaveForReplication: all waiting slaves are served, or dropped.  'rs' are the
\* slaves, 'c' and 'other' the children before, 'eof' whether all who wait are capable.
startBgsaveForReplication(rs, c, other, eof, ok) ==
    LET socket == diskless /\ eof
        started == ok /\ (IF socket THEN MaySaveToSockets(c) ELSE MaySaveToFile(c, other))
    IN  /\ child' = IF started THEN [type |-> IF socket THEN "socket" ELSE "disk",
                                     snap |-> dataset, st |-> "running"] ELSE c
        /\ repl' = [r \in Replicas |->
                      CASE rs[r].st # "start" -> rs[r]
                        [] rs[r].st = "start" /\ started -> replicationSetupSlaveForFullResync(rs[r])
                        [] OTHER -> Gone]

AllCapable(rs) == \A r \in Replicas : rs[r].st = "start" => r \in EofCapable

-----------------------------------------------------------------------------
(***************************************************************************)
(* Slaves arrive.                                                          *)
(***************************************************************************)

\* refullSyncWithSlaves, CASE 1: join the save to a file that another slave waits for.
CanAttach(r) ==
    /\ child.type = "disk"
    /\ In("end") # {}
    /\ LET s == CHOOSE s \in In("end") : TRUE IN s \in EofCapable => r \in EofCapable

\* Seeded fault: the writes since the snapshot are not copied.
Attach_Fresh(r) ==
    /\ CanAttach(r)
    /\ LET s == CHOOSE s \in In("end") : TRUE IN repl' = [repl EXCEPT ![r] = [repl[s] EXCEPT !.buf = <<>>]]
    /\ UNCHANGED <<child, forkFaults>>

Attach(r) ==
    /\ CanAttach(r)
    /\ LET s == CHOOSE s \in In("end") : TRUE IN repl' = [repl EXCEPT ![r] = repl[s]]
    /\ UNCHANGED <<child, forkFaults>>

\* CASE 1 without such a slave, CASE 2, and CASE 3 when the cron is to start the child.
WaitForChild(r) ==
    /\ \/ child.type = "disk" /\ ~CanAttach(r)
       \/ child.type = "socket"
       \/ child.type = "none" /\ ((diskless /\ r \in EofCapable) \/ aofchild)
    /\ repl' = [repl EXCEPT ![r].st = "start"]
    /\ UNCHANGED <<child, forkFaults>>

\* CASE 3: start a save to a file now.
StartNow(r, ok) ==
    /\ child.type = "none"
    /\ ~(diskless /\ r \in EofCapable)
    /\ ~aofchild
    /\ Fork(ok)
    /\ startBgsaveForReplication([repl EXCEPT ![r].st = "start"], child, crdtchild, r \in EofCapable, ok)

refullSyncWithSlaves(r) ==
    /\ repl[r].st = "none"
    /\ syncs < MaxSyncs
    /\ syncs' = syncs + 1
    /\ \/ Attach(r)
       \/ WaitForChild(r)
       \/ \E ok \in BOOLEAN : StartNow(r, ok)
    /\ UNCHANGED <<peer, crdtchild, aofchild, scheduled, dataset, offset, file, diskless,
                   multi, saves>>

\* A peer always waits for the cron.
refullSyncWithPeer(p) ==
    /\ peer[p] = "none"
    /\ syncs < MaxSyncs
    /\ syncs' = syncs + 1
    /\ peer' = [peer EXCEPT ![p] = "start"]
    /\ UNCHANGED <<repl, child, crdtchild, aofchild, scheduled, dataset, offset, file, diskless,
                   multi, saves, forkFaults>>

-----------------------------------------------------------------------------
(***************************************************************************)
(* The crons.                                                              *)
(***************************************************************************)

\* replicationCron: a child for the slaves that wait.
replicationCron ==
    /\ child.type = "none"
    /\ ~aofchild
    /\ multi \/ crdtchild = "none"
    /\ In("start") # {}
    /\ \E ok \in BOOLEAN :
          Fork(ok) /\ startBgsaveForReplication(repl, child, crdtchild, AllCapable(repl), ok)
    /\ UNCHANGED <<peer, crdtchild, aofchild, scheduled, dataset, offset, file, diskless, multi,
                   syncs, saves>>

\* crdtReplicationCron: a child for the peers that wait, or they are dropped.
crdtReplicationCron ==
    /\ crdtchild = "none"
    /\ multi \/ (child.type = "none" /\ ~aofchild)
    /\ \E p \in PeerSlaves : peer[p] = "start"
    /\ \E ok \in BOOLEAN :
          /\ Fork(ok)
          /\ crdtchild' = IF ok THEN "running" ELSE "none"
          /\ peer' = [p \in PeerSlaves |-> IF peer[p] = "start"
                                           THEN IF ok THEN "end" ELSE "none" ELSE peer[p]]
    /\ UNCHANGED <<repl, child, aofchild, scheduled, dataset, offset, file, diskless, multi,
                   syncs, saves>>

\* serverCron: a BGSAVE that was put off, after the slaves had their turn.
ScheduledSave ==
    /\ scheduled
    /\ MaySaveToFile(child, crdtchild)
    /\ In("start") = {}
    /\ child' = [type |-> "disk", snap |-> dataset, st |-> "running"]
    /\ scheduled' = FALSE
    /\ UNCHANGED <<repl, peer, crdtchild, aofchild, dataset, offset, file, diskless, multi,
                   syncs, saves, forkFaults>>

\* BGSAVE [SCHEDULE]
bgsaveCommand ==
    /\ saves < MaxSaves
    /\ saves' = saves + 1
    /\ \/ /\ MaySaveToFile(child, crdtchild)
          /\ child' = [type |-> "disk", snap |-> dataset, st |-> "running"]
          /\ UNCHANGED scheduled
       \/ /\ child.type = "none"
          /\ aofchild
          /\ scheduled' = TRUE
          /\ UNCHANGED child
    /\ UNCHANGED <<repl, peer, crdtchild, aofchild, dataset, offset, file, diskless, multi,
                   syncs, forkFaults>>

\* A rewrite of the append only file starts; it is modelled in AofPersistence.
rewriteAppendOnlyFileBackground ==
    /\ saves < MaxSaves
    /\ saves' = saves + 1
    /\ ~aofchild
    /\ child.type = "none"
    /\ aofchild' = TRUE
    /\ UNCHANGED <<repl, peer, child, crdtchild, scheduled, dataset, offset, file, diskless,
                   multi, syncs, forkFaults>>

RewriteDone ==
    /\ aofchild
    /\ aofchild' = FALSE
    /\ UNCHANGED <<repl, peer, child, crdtchild, scheduled, dataset, offset, file, diskless,
                   multi, syncs, saves, forkFaults>>

-----------------------------------------------------------------------------
(***************************************************************************)
(* Children end.                                                           *)
(***************************************************************************)

\* rdbSave: the child renames its complete file and exits; or it fails.
ChildExits(ok) ==
    /\ child.st = "running"
    /\ Fork(ok)
    /\ child' = [child EXCEPT !.st = IF ok THEN "exited" ELSE "failed"]
    /\ file' = IF ok /\ child.type = "disk" THEN child.snap ELSE file
    /\ UNCHANGED <<repl, peer, crdtchild, aofchild, scheduled, dataset, offset, diskless, multi,
                   syncs, saves>>

\* Seeded fault: a slave whose save failed is not freed.
ServedFromFile_Waits(r, ok) ==
    IF r.st # "end" THEN r
    ELSE IF ok THEN [r EXCEPT !.st = "bulk", !.snap = file] ELSE r

\* updateSlavesWaitingBgsave for a save to a file: the slaves get the file as it is now.
ServedFromFile(r, ok) ==
    IF r.st # "end" THEN r
    ELSE IF ok THEN [r EXCEPT !.st = "bulk", !.snap = file] ELSE Gone

\* The same for a save to sockets: slaves the child reports are online, others freed.
ServedBySocket(r, delivered) ==
    IF r.st # "end" THEN r
    ELSE IF delivered THEN [r EXCEPT !.st = "ack", !.snap = child.snap] ELSE Gone

Served(good) ==
    [r \in Replicas |-> IF child.type = "disk" THEN ServedFromFile(repl[r], child.st = "exited")
                        ELSE ServedBySocket(repl[r], child.st = "exited" /\ r \in good)]

\* backgroundSaveDoneHandler; slaves that still wait get a child at once.
backgroundSaveDoneHandler ==
    /\ child.st \in {"exited", "failed", "killed"}
    /\ \E good \in SUBSET In("end"), ok \in BOOLEAN :
          /\ child.type = "disk" => good = {}
          /\ Fork(ok)
          /\ LET rs == Served(good)
             IN  IF In("start") # {}
                 THEN startBgsaveForReplication(rs, NoChild, crdtchild, AllCapable(rs), ok)
                 ELSE ok /\ repl' = rs /\ child' = NoChild
    /\ UNCHANGED <<peer, crdtchild, aofchild, scheduled, dataset, offset, file, diskless, multi,
                   syncs, saves>>

CrdtChildExits ==
    /\ crdtchild = "running"
    /\ crdtchild' = "exited"
    /\ UNCHANGED <<repl, peer, child, aofchild, scheduled, dataset, offset, file, diskless, multi,
                   syncs, saves, forkFaults>>

\* The handler for the child of the peers: peers that wait start a child for the
\* slaves of this site, of which there may be none.
crdtBackgroundSaveDoneHandler ==
    /\ crdtchild \in {"exited", "killed"}
    /\ crdtchild' = "none"
    /\ \E good \in SUBSET {p \in PeerSlaves : peer[p] = "end"}, ok \in BOOLEAN :
          /\ peer' = [p \in PeerSlaves |->
                        IF peer[p] # "end" THEN peer[p]
                        ELSE IF crdtchild = "exited" /\ p \in good THEN "online" ELSE "none"]
          /\ Fork(ok)
          /\ IF \E p \in PeerSlaves : peer[p] = "start"
             THEN startBgsaveForReplication(repl, child, "none", TRUE, ok)
             ELSE ok /\ UNCHANGED <<child, repl>>
    /\ UNCHANGED <<aofchild, scheduled, dataset, offset, file, diskless, multi, syncs, saves>>

\* sendBulkToSlave: the file is sent.  REPLCONF ACK: a slave of a socket child loaded it.
putSlaveOnline(r) ==
    /\ repl[r].st \in {"bulk", "ack"}
    /\ repl' = [repl EXCEPT ![r].st = "online"]
    /\ UNCHANGED <<peer, child, crdtchild, aofchild, scheduled, dataset, offset, file, diskless,
                   multi, syncs, saves, forkFaults>>

\* A slave that timed out or closed its connection.
freeSlave(r) ==
    /\ repl[r].st # "none"
    /\ forkFaults < MaxForkFaults
    /\ forkFaults' = forkFaults + 1
    /\ repl' = [repl EXCEPT ![r] = Gone]
    /\ UNCHANGED <<peer, child, crdtchild, aofchild, scheduled, dataset, offset, file, diskless,
                   multi, syncs, saves>>

TransferNext ==
    \/ WriteCommand \/ flushallCommand
    \/ \E r \in Replicas : refullSyncWithSlaves(r) \/ putSlaveOnline(r) \/ freeSlave(r)
    \/ \E p \in PeerSlaves : refullSyncWithPeer(p)
    \/ replicationCron \/ crdtReplicationCron \/ ScheduledSave
    \/ bgsaveCommand \/ rewriteAppendOnlyFileBackground \/ RewriteDone
    \/ \E ok \in BOOLEAN : ChildExits(ok)
    \/ backgroundSaveDoneHandler
    \/ CrdtChildExits \/ crdtBackgroundSaveDoneHandler

\* Children end and crons run for ever.
Fairness ==
    /\ WF_stVars(replicationCron)
    /\ WF_stVars(crdtReplicationCron)
    /\ WF_stVars(RewriteDone)
    /\ WF_stVars(\E ok \in BOOLEAN : ChildExits(ok))
    /\ WF_stVars(backgroundSaveDoneHandler)
    /\ WF_stVars(CrdtChildExits)
    /\ WF_stVars(crdtBackgroundSaveDoneHandler)

TransferSpec == TransferInit /\ [][TransferNext]_stVars /\ Fairness

-----------------------------------------------------------------------------
(***************************************************************************)
(* Properties.                                                             *)
(***************************************************************************)

\* A slave that has a snapshot reaches the data set of the master with the commands
\* it was sent since, also if it joined a child that others had started
\* (replication.c:667), and if FLUSHALL replaced the file of that child
\* (replication.c:1094); and its offset is the one of the master.
SnapshotExact ==
    \A r \in Replicas :
        /\ repl[r].st \in {"bulk", "ack", "online"} => Replay(repl[r].snap, repl[r].buf) = dataset
        /\ repl[r].st \in {"end", "bulk", "ack", "online"} => repl[r].base + Len(repl[r].buf) = offset

\* A slave that waits for a child to end waits for one that exists (rdb.c:2110).
WaitsForChild ==
    /\ In("end") # {} => child.type # "none"
    /\ (\E p \in PeerSlaves : peer[p] = "end") => crdtchild # "none"

\* What every full synchronisation leads to: nobody waits for a child to start
\* or to end (replication.c:2918).
NobodyWaits ==
    /\ \A r \in Replicas : repl[r].st \notin {"start", "end"}
    /\ \A p \in PeerSlaves : peer[p] \notin {"start", "end"}
=============================================================================
