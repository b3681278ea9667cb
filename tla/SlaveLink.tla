----------------------------- MODULE SlaveLink ------------------------------
(***************************************************************************)
(* The link of a slave to its master inside a site (replication.c): the    *)
(* handshake that the event loop drives through syncWithMaster, the bulk   *)
(* transfer in its two forms, loading the dataset, and what SLAVEOF,       *)
(* timeouts and broken connections do in between.                          *)
(*                                                                         *)
(* The slave asks one question at a time and the master answers.  Masters  *)
(* differ: "crdt" ones of this system, "plain" Redis ones, "old" ones      *)
(* without PSYNC, and ones with a password ("locked", "lockedplain").  The *)
(* dataset of a plain master is turned into commands, which the slave      *)
(* executes with its own clock and feeds to its own slaves and peers.      *)
(***************************************************************************)
EXTENDS Integers, Sequences, FiniteSets

CONSTANTS
    Masters,      \* kinds of masters that may be named by SLAVEOF
    HasAuth,      \* masterauth is configured
    AnnounceIp,   \* slave-announce-ip is configured
    Content,      \* the bytes of a snapshot, some like a part of the end mark
    MaxSlaveofs,  \* bound: SLAVEOF commands
    MaxBreaks,    \* bound: broken connections, timeouts and failing operations
    MaxOwnClock   \* bound: the slave's own clock

VARIABLES
    sl,       \* the slave: [state, host, isCrdt, cached, clock, replid, backlog, subs]
    link,     \* the connection: [open, on, asked, reply, broken, authed]
    bulk,     \* the transfer: [form, left, file, last, tmp]
    aofon,    \* "on", "off", or "exited" when the server gave up
    loaded,   \* ghost: the file that was loaded last
    sent,     \* ghost: clocks of the commands made from plain snapshots
    reset,    \* ghost: a conversion was aborted
    slaveofs, breaks

slVars == <<sl, link, bulk, aofon, loaded, sent, reset, slaveofs, breaks>>

IsCrdt(m) == m \in {"crdt", "locked"}
Locked(m) == m \in {"locked", "lockedplain"}
Mark == <<"m", "n">>

NoLink == [open |-> FALSE, on |-> "none", asked |-> "none", reply |-> "none",
           broken |-> FALSE, authed |-> FALSE]
NoBulk == [form |-> "none", left |-> <<>>, file |-> <<>>, last |-> <<>>, tmp |-> FALSE]

Init ==
    /\ sl = [state |-> "none", host |-> "none", isCrdt |-> TRUE, cached |-> FALSE,
             clock |-> 0, replid |-> "own", backlog |-> TRUE, subs |-> TRUE]
    /\ link = NoLink /\ bulk = NoBulk /\ aofon = "on" /\ loaded = <<>>
    /\ sent = <<>> /\ reset = FALSE
    /\ slaveofs = 0 /\ breaks = 0

ghosts == <<loaded, sent, reset>>
bounds == <<slaveofs, breaks>>

\* Answers come in these states.
slaveIsInHandshakeState == sl.state \in
    {"pong", "gid", "auth", "port", "ip", "capa", "crdt", "psync"}

isSameTypeWithMaster == sl.isCrdt
initedCrdtServer == sl.clock > 0
iAmMaster == sl.host = "none" \/ ~sl.isCrdt

-----------------------------------------------------------------------------
(***************************************************************************)
(* The master.                                                             *)
(***************************************************************************)

\* What a master replies; busy while it loads its dataset or misses its own master.
Answers(m, q, busy) ==
    LET refused == Locked(m) /\ ~link.authed
    IN  CASE q = "ping"  -> IF refused THEN "noauth" ELSE IF busy THEN "loading" ELSE "ok"
          [] q = "gid"   -> IF ~IsCrdt(m) THEN "unknown" ELSE
                            IF refused THEN "noauth" ELSE IF busy THEN "loading" ELSE "ok"
          [] q = "auth"  -> IF Locked(m) THEN "ok" ELSE "err"
          [] q \in {"port", "ip"} -> IF refused THEN "noauth" ELSE "ok"
          [] q = "capa"  -> IF refused THEN "noauth" ELSE IF m = "old" THEN "err" ELSE "ok"
          [] q = "crdt"  -> IF refused THEN "noauth" ELSE IF IsCrdt(m) THEN "ok" ELSE "err"
          [] q = "psync" -> IF refused THEN "noauth" ELSE IF busy THEN "loading"
                            ELSE IF m = "old" THEN "err" ELSE "fullresync"
          [] q = "sync"  -> IF refused THEN "noauth" ELSE "newline"

MasterAnswers(busy) ==
    /\ link.open /\ ~link.broken /\ link.asked \notin {"none", "bulk"} /\ link.reply = "none"
    /\ link' = [link EXCEPT !.asked = IF link.asked = "sync" THEN "bulk" ELSE "none",
                            !.authed = @ \/ link.asked = "auth",
                            !.reply = Answers(sl.host, link.asked, busy)]
    /\ UNCHANGED <<sl, bulk, aofon, ghosts, bounds>>

\* A PSYNC that the master continues, under its old or under a new id.
MasterContinues(id) ==
    /\ link.open /\ ~link.broken /\ link.asked = "psync" /\ link.reply = "none"
    /\ sl.cached /\ sl.host # "old" /\ (Locked(sl.host) => link.authed)
    /\ link' = [link EXCEPT !.asked = "none", !.reply = id]
    /\ UNCHANGED <<sl, bulk, aofon, ghosts, bounds>>

\* The header of the snapshot, with its length or with the end mark; or an error.
MasterSends(form) ==
    /\ link.open /\ ~link.broken /\ link.asked = "bulk" /\ link.reply = "none"
    /\ link' = [link EXCEPT !.asked = "none", !.reply = form]
    /\ form = "eof" => sl.host # "old"
    /\ bulk' = [bulk EXCEPT !.left = IF form = "eof" THEN Content \o Mark
                                     ELSE IF form = "count" THEN Content ELSE <<>>]
    /\ UNCHANGED <<sl, aofon, ghosts, bounds>>

\* Empty lines keep the connection alive while the master is at work.
MasterPings ==
    /\ link.open /\ ~link.broken /\ link.asked \in {"psync", "bulk"} /\ link.reply = "none"
    /\ link' = [link EXCEPT !.reply = "newline"]
    /\ UNCHANGED <<sl, bulk, aofon, ghosts, bounds>>

\* The connection is lost: what was sent but not read can be lost too.
Breaks ==
    /\ link.open /\ ~link.broken /\ breaks < MaxBreaks
    /\ breaks' = breaks + 1
    /\ link' = [link EXCEPT !.broken = TRUE, !.reply = "none"]
    /\ UNCHANGED <<sl, bulk, aofon, ghosts, slaveofs>>

-----------------------------------------------------------------------------
(***************************************************************************)
(* The slave: connections.                                                 *)
(***************************************************************************)

connectWithMaster ==
    /\ sl.state = "connect"
    /\ sl' = [sl EXCEPT !.state = "connecting"]
    /\ link' = [NoLink EXCEPT !.open = TRUE, !.on = "sync"]
    /\ UNCHANGED <<bulk, aofon, ghosts, bounds>>

\* The connection of an attempt in progress is closed, and the file of a transfer.
cancelReplicationHandshake(s) ==
    /\ link' = IF s.state \in {"none", "connect"} THEN link ELSE NoLink
    /\ bulk' = NoBulk

\* Caching the connected master asserts that none is cached, else the server stops.
CanCache == sl.state = "connected" => ~sl.cached

\* An attempt, or a connected master, that was silent for too long.
replicationCronTimeout ==
    /\ slaveIsInHandshakeState \/ sl.state \in {"connecting", "transfer", "connected"}
    /\ breaks < MaxBreaks /\ breaks' = breaks + 1
    /\ CanCache
    /\ sl' = [sl EXCEPT !.state = "connect", !.cached = @ \/ sl.state = "connected"]
    /\ cancelReplicationHandshake(sl)
    /\ UNCHANGED <<aofon, ghosts, slaveofs>>

\* The connected master goes away: it is cached.
replicationHandleMasterDisconnection ==
    /\ sl.state = "connected" /\ link.broken /\ CanCache
    /\ sl' = [sl EXCEPT !.state = "connect", !.cached = TRUE]
    /\ link' = NoLink
    /\ UNCHANGED <<bulk, aofon, ghosts, bounds>>

\* Slaves are told of the change; a master caches itself.
replicationSetMaster(m) ==
    /\ slaveofs < MaxSlaveofs /\ slaveofs' = slaveofs + 1
    /\ CanCache
    /\ sl' = [sl EXCEPT !.host = m, !.state = "connect", !.subs = FALSE,
                        !.cached = @ \/ sl.state = "connected" \/ sl.host = "none"]
    /\ cancelReplicationHandshake(sl)
    /\ UNCHANGED <<aofon, ghosts, breaks>>

\* What SLAVEOF NO ONE does.
replicationUnsetMaster ==
    /\ slaveofs < MaxSlaveofs /\ slaveofs' = slaveofs + 1
    /\ CanCache
    /\ sl' = [sl EXCEPT !.host = "none", !.state = "none", !.subs = FALSE,
                        !.cached = FALSE, !.isCrdt = TRUE, !.replid = "own"]
    /\ cancelReplicationHandshake(sl)
    /\ UNCHANGED <<aofon, ghosts, breaks>>

\* Naming the same master again changes nothing.
slaveofCommand(m) ==
    /\ sl.host # m
    /\ IF m = "none" THEN replicationUnsetMaster ELSE replicationSetMaster(m)

SlaveReconnects ==
    /\ ~sl.subs /\ sl.state \in {"none", "connected"}
    /\ sl' = [sl EXCEPT !.subs = TRUE, !.backlog = TRUE]
    /\ UNCHANGED <<link, bulk, aofon, ghosts, bounds>>

\* A client writes: refused by a slave that knows it is one.
ClientWrites ==
    /\ iAmMaster
    /\ sl.clock < MaxOwnClock
    /\ sl' = [sl EXCEPT !.clock = @ + 1]
    /\ UNCHANGED <<link, bulk, aofon, loaded, sent, reset, bounds>>

-----------------------------------------------------------------------------
(***************************************************************************)
(* The handshake.                                                          *)
(***************************************************************************)

\* The attempt is given up.
Fails(s) ==
    /\ sl' = [s EXCEPT !.state = "connect"]
    /\ link' = NoLink
    /\ UNCHANGED bulk

\* The next question.  Writing to a broken connection can seem to work.
sendSynchronousCommand(s, q) ==
    \/ /\ sl' = [s EXCEPT !.state = q]
       /\ link' = [link EXCEPT !.asked = q, !.reply = "none"]
       /\ UNCHANGED bulk
    \/ link.broken /\ Fails(s)

Error(r) == r \notin {"ok", "newline", "fullresync", "continue", "continuenew"}

\* The state after the answer r in state q, before the next command is written.
After(q, r) ==
    CASE q = "gid"  -> [sl EXCEPT !.isCrdt = r # "unknown"]
      [] q = "crdt" -> [sl EXCEPT !.isCrdt = ~Error(r)]
      [] OTHER      -> sl

\* Which errors end the attempt.
Fatal(q, r) ==
    CASE q = "pong" -> Error(r) /\ r # "noauth"
      [] q = "gid"  -> Error(r) /\ r # "unknown"
      [] q = "auth" -> Error(r)
      [] OTHER      -> FALSE

Following(q) ==
    CASE q = "pong" -> "gid"
      [] q = "gid"  -> IF HasAuth THEN "auth" ELSE "port"
      [] q = "auth" -> "port"
      [] q = "port" -> IF AnnounceIp THEN "ip" ELSE "capa"
      [] q = "ip"   -> "capa"
      [] q = "capa" -> "crdt"
      [] q = "crdt" -> "psync"

\* Something to read: an answer, or the end of the connection, which reads as an error.
Readable == link.reply # "none" \/ link.broken
Answer == IF link.reply # "none" THEN link.reply ELSE "err"

syncWithMasterConnects ==
    /\ sl.state = "connecting" /\ link.on = "sync"
    /\ \/ /\ sl' = [sl EXCEPT !.state = "pong"]
          /\ link' = [link EXCEPT !.asked = "ping"]
          /\ UNCHANGED bulk
       \/ link.broken /\ Fails(sl)
    /\ UNCHANGED <<aofon, ghosts, bounds>>

syncWithMaster ==
    /\ sl.state \in {"pong", "gid", "auth", "port", "ip", "capa", "crdt"}
    /\ link.on = "sync" /\ Readable
    /\ LET s == After(sl.state, Answer)
       IN  IF Fatal(sl.state, Answer) THEN Fails(s)
           ELSE \/ sendSynchronousCommand(s, Following(sl.state))
                \/ link.broken /\ Fails(sl)
    /\ UNCHANGED <<aofon, ghosts, bounds>>

\* A partial resynchronization.  A new id is adopted from a master of the same type,
\* and the slaves have to hear of it.
PsyncContinues ==
    /\ sl.state = "psync" /\ link.reply \in {"continue", "continuenew"}
    /\ sl' = [sl EXCEPT !.state = "connected", !.cached = FALSE, !.backlog = TRUE,
                        !.replid = IF link.reply = "continuenew" /\ isSameTypeWithMaster
                                   THEN sl.host ELSE @,
                        !.subs = @ /\ link.reply = "continue"]
    /\ link' = [link EXCEPT !.reply = "none", !.on = "client"]
    /\ UNCHANGED <<bulk, aofon, ghosts, bounds>>

\* The slaves have to start over too.
FullSync(s, full) ==
    \/ /\ sl' = [s EXCEPT !.state = "transfer", !.subs = FALSE,
                           !.backlog = @ /\ ~(full /\ isSameTypeWithMaster)]
       /\ link' = [link EXCEPT !.on = "bulk", !.reply = "none",
                               !.asked = IF full THEN "bulk" ELSE "sync"]
       /\ bulk' = [NoBulk EXCEPT !.tmp = TRUE]
    \/ link.broken /\ Fails([s EXCEPT !.subs = FALSE])

\* Everything else: wait, try later, or a full synchronization, with SYNC where PSYNC
\* is not known.  Only a slave without data of its own takes the data of a plain master.
slaveTryPartialResynchronization ==
    /\ sl.state = "psync" /\ link.on = "sync" /\ Readable
    /\ Answer \notin {"continue", "continuenew"}
    /\ LET full == Answer = "fullresync"
           s == [sl EXCEPT !.cached = @ /\ ~full]
       IN  CASE Answer = "newline" ->
                    link' = [link EXCEPT !.reply = "none"] /\ UNCHANGED <<sl, bulk>>
             [] Answer = "loading" -> Fails(s)
             [] full /\ ~sl.isCrdt /\ initedCrdtServer -> Fails(s)
             [] OTHER -> FullSync(s, full)
    /\ UNCHANGED <<aofon, ghosts, bounds>>

-----------------------------------------------------------------------------
(***************************************************************************)
(* The transfer.                                                           *)
(***************************************************************************)

GivesUp ==
    /\ sl' = [sl EXCEPT !.state = "connect"]
    /\ link' = NoLink
    /\ bulk' = NoBulk

\* The header.
BulkHeader ==
    /\ sl.state = "transfer" /\ link.on = "bulk" /\ bulk.form = "none" /\ Readable
    /\ CASE Answer = "newline" -> link' = [link EXCEPT !.reply = "none"] /\ UNCHANGED <<sl, bulk>>
         [] Answer \in {"eof", "count"} ->
                /\ bulk' = [bulk EXCEPT !.form = Answer]
                /\ link' = [link EXCEPT !.reply = "none"]
                /\ UNCHANGED sl
         [] OTHER -> GivesUp
    /\ UNCHANGED <<aofon, ghosts, bounds>>

LastTwo(s) == IF Len(s) <= 2 THEN s ELSE SubSeq(s, Len(s) - 1, Len(s))

\* n more bytes: written to the file; with the mark, the last bytes are compared to it.
Received(n) ==
    LET read == SubSeq(bulk.left, 1, n)
    IN  [bulk EXCEPT !.left = SubSeq(bulk.left, n + 1, Len(bulk.left)),
                     !.file = @ \o read,
                     !.last = LastTwo(bulk.last \o read)]

EofReached(b) == IF b.form = "eof" THEN b.last = Mark ELSE Len(b.file) = Len(Content)

Reading(n) ==
    /\ sl.state = "transfer" /\ link.on = "bulk" /\ bulk.form # "none" /\ ~link.broken
    /\ n \in 1..Len(bulk.left)

\* The old backlog goes with the first bytes from a master of the same type.
readSyncBulkPayload(n) ==
    /\ Reading(n) /\ ~EofReached(Received(n))
    /\ bulk' = Received(n)
    /\ sl' = [sl EXCEPT !.backlog = @ /\ ~isSameTypeWithMaster]
    /\ UNCHANGED <<link, aofon, ghosts, bounds>>

BulkBroken ==
    /\ sl.state = "transfer" /\ bulk.form # "none" /\ link.broken
    /\ GivesUp
    /\ UNCHANGED <<aofon, ghosts, bounds>>

\* Ten attempts to start the append only file, of which f fail.
restartAOF(f) == IF f = 9 THEN "exited" ELSE IF f < 9 THEN "on" ELSE "off"

Trimmed(b) == IF b.form = "eof" THEN SubSeq(b.file, 1, Len(b.file) - 2) ELSE b.file

\* A plain snapshot of k keys: k commands with clocks of the slave.
Converted(k) == [i \in 1..k |-> sl.clock + i]

\* The whole snapshot is there: it replaces the dataset.  An id and offset are those of
\* the master if it is of the same type.
LoadSucceeds(n, k, f) ==
    /\ Reading(n) /\ EofReached(Received(n)) /\ (IsCrdt(sl.host) => k = 0)
    /\ aofon # "exited" /\ sl.clock + k <= MaxOwnClock
    /\ IsCrdt(sl.host) \/ ~initedCrdtServer
    /\ f > 0 => breaks < MaxBreaks
    /\ breaks' = IF f > 0 THEN breaks + 1 ELSE breaks
    /\ loaded' = Trimmed(Received(n))
    /\ sent' = sent \o Converted(k)
    /\ sl' = [sl EXCEPT !.state = "connected", !.clock = @ + k, !.backlog = TRUE,
                        !.replid = IF isSameTypeWithMaster THEN sl.host ELSE @]
    /\ link' = [link EXCEPT !.on = "client"]
    /\ bulk' = NoBulk
    /\ aofon' = IF aofon = "on" THEN restartAOF(f) ELSE aofon
    /\ UNCHANGED <<reset, slaveofs>>

\* A plain snapshot with a value of a type that cannot be converted, after k keys: the
\* clock starts again.
LoadFails(n, k) ==
    /\ Reading(n) /\ EofReached(Received(n)) /\ aofon # "exited"
    /\ breaks < MaxBreaks /\ breaks' = breaks + 1
    /\ ~IsCrdt(sl.host) \/ k = 0
    /\ initedCrdtServer /\ ~IsCrdt(sl.host) => k = 0
    /\ sl.clock + k <= MaxOwnClock
    /\ loaded' = Trimmed(Received(n))
    /\ sent' = sent \o Converted(k)
    /\ reset' = (reset \/ k > 0)
    /\ sl' = [sl EXCEPT !.state = "connect", !.clock = IF k > 0 THEN 0 ELSE @]
    /\ link' = NoLink
    /\ bulk' = NoBulk
    /\ UNCHANGED <<aofon, slaveofs>>

Next ==
    \/ \E b \in BOOLEAN : MasterAnswers(b)
    \/ \E id \in {"continue", "continuenew"} : MasterContinues(id)
    \/ \E form \in {"count", "eof", "err"} : MasterSends(form)
    \/ MasterPings \/ Breaks
    \/ connectWithMaster \/ replicationCronTimeout \/ replicationHandleMasterDisconnection
    \/ \E m \in Masters \cup {"none"} : slaveofCommand(m)
    \/ SlaveReconnects \/ ClientWrites
    \/ syncWithMasterConnects \/ syncWithMaster \/ PsyncContinues
    \/ slaveTryPartialResynchronization
    \/ BulkHeader \/ BulkBroken
    \/ \E n \in 1..Len(Content) + 2 :
          \/ readSyncBulkPayload(n)
          \/ \E k \in 0..2 : LoadFails(n, k) \/ \E f \in {0, 9, 10} : LoadSucceeds(n, k, f)

Spec == Init /\ [][Next]_slVars

-----------------------------------------------------------------------------
(***************************************************************************)
(* Properties.                                                             *)
(***************************************************************************)

\* The connection, its callback and the temporary file are those of the state: nothing
\* is left open by an attempt that was given up, replaced or timed out.  A connected
\* slave has no other master cached, unless SYNC alone brought it here.
LinkMatchesState ==
    /\ link.open = (sl.state \notin {"none", "connect"})
    /\ bulk.tmp = (sl.state = "transfer")
    /\ sl.state = "connected" => link.on = "client" /\ (sl.cached => sl.host = "old")
    /\ sl.state = "transfer" => link.on = "bulk"
    /\ slaveIsInHandshakeState => link.on = "sync"
    /\ (sl.host = "none") = (sl.state = "none")

\* The file that is loaded is the snapshot, byte for byte, however it was cut into
\* pieces and whichever way its end was announced.
LoadedWhole == loaded # <<>> => loaded = Content

\* A slave keeps no backlog of its old history under the id of its CRDT master: while it
\* receives the new dataset no slave of its own is connected or can continue.
NoOldHistoryServed ==
    sl.state = "transfer" /\ bulk.file # <<>> /\ isSameTypeWithMaster =>
        ~sl.backlog /\ ~sl.subs

\* Commands made from plain snapshots never reuse a clock: a peer that has seen a clock
\* ignores the next command that carries it.
ClocksDistinct == \A i, j \in DOMAIN sent : i # j => sent[i] # sent[j]

\* The same unless the load of a plain snapshot failed, which sets the own clock back to 0
\* (rdb.c:1766): commands made from plain snapshots never reuse a clock that peers have seen.
ClocksDistinctUnlessReset == reset \/ ClocksDistinct
=============================================================================
