--------------------------- MODULE ClusterHandover --------------------------
(***************************************************************************)
(* The two ways in which an operator has a node of a cluster hand over     *)
(* what it serves (cluster.c): a manual failover to a slave, and the move  *)
(* of a slot to another master, key by key.                                *)
(***************************************************************************)
EXTENDS Integers, FiniteSets

-----------------------------------------------------------------------------
(***************************************************************************)
(* CLUSTER FAILOVER (cluster.c): a slave asks its master to pause its      *)
(* clients, learns the offset at which it paused, waits until it has       *)
(* processed the stream up to there and is then elected.  One master and   *)
(* one slave with a common clock; the bus may delay and lose packets.  The *)
(* election itself is ClusterElection; here it may take any time.          *)
(*                                                                         *)
(* Offsets count commands: writes of clients and the PINGs with which the  *)
(* master keeps the stream alive (replicationCron).                        *)
(***************************************************************************)

CONSTANTS
  MFTimeout,      \* CLUSTER_MF_TIMEOUT
  MaxTime,        \* bound on the clock
  MaxOffset,      \* bound on the replication offset
  MaxInFlight     \* bound on the packets on the bus

VARIABLES
  time,
  mfMaster,       \* mf_end of the master, 0: none, and the attempt it serves
  pauseEnd,       \* clients_pause_end_time of the master, 0: not paused
  mfSlave,        \* mf_end, mf_can_start, mf_master_offset of the slave,
                  \* and the attempt whose pause gave the offset
  attempt,        \* number of the slave's last attempt
  offset,         \* offset[m]: the stream produced, offset[s]: processed
  written,        \* offset of the last write the master acknowledged
  flight,         \* packets on their way
  pinged,         \* the stream had a PING since the master was asked to pause
  promoted        \* how the slave became the master: "no", "forced", "manual"

mfVars == <<time, mfMaster, pauseEnd, mfSlave, attempt, offset, written, flight,
            pinged, promoted>>

NoMF == [end |-> 0, canStart |-> FALSE, masterOffset |-> 0, from |-> 0,
         forced |-> FALSE]

ManualInit ==
  /\ time = 1 /\ attempt = 0 /\ written = 1 /\ flight = {}
  /\ mfMaster = [end |-> 0, serves |-> 0]
  /\ pauseEnd = 0 /\ mfSlave = NoMF
  /\ offset = [m |-> 1, s |-> 1]
  /\ pinged = FALSE /\ promoted = "no"

InFlight(packets) ==
  /\ flight' = packets
  /\ Cardinality(packets) <= MaxInFlight

(* Each of the two sends its packets over one link, which keeps them in    *)
(* order.                                                                  *)
Oldest(p) ==
  \A q \in flight : q.type = p.type =>
    p.of < q.of \/ (p.of = q.of /\ p.offset <= q.offset)

--------------------------------------------------------------------------------

(* resetManualFailover at the start of the command drops an earlier        *)
(* attempt of the slave.                                                   *)
clusterFailover ==
  /\ promoted = "no"
  /\ attempt < 2 /\ attempt' = attempt + 1
  /\ mfSlave' = [NoMF EXCEPT !.end = time + MFTimeout]
  /\ InFlight(flight \cup {[type |-> "MFSTART", of |-> attempt', offset |-> 0]})
  /\ UNCHANGED <<time, mfMaster, pauseEnd, offset, written, pinged, promoted>>

clusterFailoverForce ==
  /\ promoted = "no"
  /\ attempt < 2 /\ attempt' = attempt + 1
  /\ mfSlave' = [NoMF EXCEPT !.end = time + MFTimeout, !.canStart = TRUE,
                          !.forced = TRUE]
  /\ UNCHANGED <<time, mfMaster, pauseEnd, offset, written, flight, pinged,
                 promoted>>

ProcessMFStart(p) ==
  /\ p.type = "MFSTART" /\ Oldest(p)
  /\ mfMaster' = [end |-> time + MFTimeout, serves |-> p.of]
  /\ pauseEnd' = time + 2 * MFTimeout
  /\ flight' = flight \ {p}
  /\ pinged' = FALSE
  /\ UNCHANGED <<time, mfSlave, attempt, offset, written, promoted>>

(* The master pings the slave all the time during a manual failover, with  *)
(* its offset and the flag that says that it is paused.                    *)
SendPaused ==
  /\ mfMaster.end # 0
  /\ InFlight(flight \cup {[type |-> "PAUSED", of |-> mfMaster.serves,
                            offset |-> offset.m]})
  /\ UNCHANGED <<time, mfMaster, pauseEnd, mfSlave, attempt, offset, written,
                 pinged, promoted>>

ProcessPaused(p) ==
  /\ p.type = "PAUSED" /\ Oldest(p)
  /\ mfSlave' = IF mfSlave.end # 0 /\ mfSlave.masterOffset = 0
                     /\ promoted = "no"
                THEN [mfSlave EXCEPT !.masterOffset = p.offset, !.from = p.of]
                ELSE mfSlave
  /\ flight' = flight \ {p}
  /\ UNCHANGED <<time, mfMaster, pauseEnd, attempt, offset, written, pinged,
                 promoted>>

Lose(p) ==
  /\ flight' = flight \ {p}
  /\ UNCHANGED <<time, mfMaster, pauseEnd, mfSlave, attempt, offset, written,
                 pinged, promoted>>

(* clusterHandleManualFailover *)
clusterHandleManualFailover ==
  /\ mfSlave.end # 0 /\ ~mfSlave.canStart /\ mfSlave.masterOffset # 0
  /\ mfSlave.masterOffset = offset.s
  /\ mfSlave' = [mfSlave EXCEPT !.canStart = TRUE]
  /\ UNCHANGED <<time, mfMaster, pauseEnd, attempt, offset, written, flight,
                 pinged, promoted>>

(* clusterHandleSlaveFailover with the votes it needs. *)
clusterHandleSlaveFailover ==
  /\ mfSlave.end # 0 /\ mfSlave.canStart
  /\ promoted' = IF mfSlave.forced THEN "forced" ELSE "manual"
  /\ mfSlave' = [mfSlave EXCEPT !.end = 0, !.canStart = FALSE]
  /\ UNCHANGED <<time, mfMaster, pauseEnd, attempt, offset, written, flight,
                 pinged>>

(* The clock, and manualFailoverCheckTimeout of both at the next tick: the *)
(* master that gives up also ends the pause.                               *)
manualFailoverCheckTimeout ==
  /\ time < MaxTime /\ time' = time + 1
  /\ mfSlave' = IF mfSlave.end # 0 /\ mfSlave.end < time' THEN NoMF
                ELSE mfSlave
  /\ LET over == mfMaster.end # 0 /\ mfMaster.end < time'
     IN  /\ mfMaster' = IF over THEN [end |-> 0, serves |-> 0] ELSE mfMaster
         /\ pauseEnd' = IF over \/ pauseEnd < time' THEN 0 ELSE pauseEnd
  /\ UNCHANGED <<attempt, offset, written, flight, pinged, promoted>>

(* A client writes to the master, which has not heard of its demotion. *)
Write ==
  /\ pauseEnd = 0 /\ promoted = "no" /\ offset.m < MaxOffset
  /\ offset' = [offset EXCEPT !.m = @ + 1]
  /\ written' = offset.m + 1
  /\ UNCHANGED <<time, mfMaster, pauseEnd, mfSlave, attempt, flight, pinged,
                 promoted>>

KeepAlive ==
  /\ offset.m < MaxOffset /\ promoted = "no"
  /\ offset' = [offset EXCEPT !.m = @ + 1]
  /\ pinged' = TRUE
  /\ UNCHANGED <<time, mfMaster, pauseEnd, mfSlave, attempt, written, flight,
                 promoted>>

Replicate ==
  /\ offset.s < offset.m /\ promoted = "no"
  /\ offset' = [offset EXCEPT !.s = @ + 1]
  /\ UNCHANGED <<time, mfMaster, pauseEnd, mfSlave, attempt, written, flight,
                 pinged, promoted>>

ManualNext ==
  \/ clusterFailover \/ clusterFailoverForce \/ SendPaused
  \/ clusterHandleManualFailover \/ clusterHandleSlaveFailover
  \/ manualFailoverCheckTimeout \/ Write \/ KeepAlive \/ Replicate
  \/ \E p \in flight : ProcessMFStart(p) \/ ProcessPaused(p) \/ Lose(p)

ManualSpec == ManualInit /\ [][ManualNext]_mfVars

--------------------------------------------------------------------------------

(* A slave that a manual failover promotes has processed every write the   *)
(* master acknowledged, unless it was forced or took the offset of the     *)
(* pause of its previous attempt, which nothing in the PAUSED packet tells *)
(* apart (the goal stated above resetManualFailover).                      *)
ManualLosesNothing ==
  promoted = "manual" /\ mfSlave.from = attempt => offset.s >= written

(* A slave never runs past the offset it waits for, which it compares for  *)
(* equality, unless the master's keep-alive moved the stream on while its  *)
(* clients were paused (clusterHandleManualFailover, replicationCron) or   *)
(* the pause was that of its previous attempt.                             *)
NeverOvershoots ==
  mfSlave.masterOffset # 0 /\ mfSlave.from = attempt /\ ~mfSlave.canStart
    /\ ~pinged /\ promoted = "no"
    => offset.s <= mfSlave.masterOffset

-----------------------------------------------------------------------------
(***************************************************************************)
(* Moving a hash slot from one master to another while clients go on       *)
(* (cluster.c): the open states of a slot, the redirections of             *)
(* getNodeByQuery, MIGRATE and RESTORE-ASKING between the two masters with *)
(* their errors, and the end of the move, by SETSLOT NODE at every master  *)
(* or by the headers of the new owner.  The order of the commands is that  *)
(* of redis-trib's move_slot, which may be run again after an error.       *)
(***************************************************************************)

CONSTANTS
  Source, Target, Other,   \* the masters; Other has no part in the move
  SlotKeys,                \* the keys of the slot
  SlotValues,              \* what a client writes; 0 is no key
  MaxMoves                 \* bound on the runs of move_slot

VARIABLES
  owner,       \* owner[n]: server.cluster->slots[slot] at node n
  migrating,   \* migrating[n]: migrating_slots_to[slot], or None
  importing,   \* importing[n]: importing_slots_from[slot], or None
  claimed,     \* whether Target has claimed the slot under a new epoch
  data,        \* data[n]: the keys of the slot at node n
  move,        \* where move_slot is
  transfer,    \* the MIGRATE in progress at Source
  request,     \* the command of the client and where it has got to
  truth,       \* what the last write of every key left there
  copied,      \* the keys of which a broken MIGRATE left two copies
  stale        \* whether a command ran on something else than the truth

reshardVars == <<owner, migrating, importing, claimed, data, move, transfer,
                 request, truth, copied, stale>>

Masters == {Source, Target, Other}

None == 0

countKeysInSlot(n) == Cardinality({k \in SlotKeys : data[n][k] # 0})

NoTransfer == [keys |-> {}, sent |-> {}, done |-> {}, busy |-> {},
               replace |-> FALSE, retried |-> FALSE]

NoRequest == [at |-> None, keys |-> {}, op |-> "none", value |-> 0,
              asking |-> FALSE]

ReshardInit ==
  /\ owner = [n \in Masters |-> Source]
  /\ migrating = [n \in Masters |-> None]
  /\ importing = [n \in Masters |-> None]
  /\ claimed = FALSE
  /\ data \in {[n \in Masters |-> IF n = Source THEN d ELSE [k \in SlotKeys |-> 0]] :
                 d \in [SlotKeys -> {0, 1}]}
  /\ truth = data[Source]
  /\ move = [phase |-> "begin", count |-> 1, left |-> {}]
  /\ transfer = NoTransfer /\ request = NoRequest
  /\ copied = {} /\ stale = FALSE

\* Seeded fault: a client is sent on only when none of its keys is here.
Missing_All(n, ks) == \A k \in ks : data[n][k] = 0

(***************************************************************************)
(* getNodeByQuery at node n for the keys ks of the slot: "serve", "tryagain"*)
(* or the node to ask or to move to.                                       *)
(***************************************************************************)
Missing(n, ks) == \E k \in ks : data[n][k] = 0

getNodeByQuery(n, ks, asking) ==
  CASE owner[n] = n /\ migrating[n] # None /\ Missing(n, ks) ->
         [what |-> "ask", node |-> migrating[n]]
    [] /\ importing[n] # None /\ asking
       /\ ~(owner[n] = n /\ migrating[n] # None) ->
         IF Cardinality(ks) > 1 /\ Missing(n, ks)
         THEN [what |-> "tryagain", node |-> None]
         ELSE [what |-> "serve", node |-> n]
    [] OTHER -> IF owner[n] = n THEN [what |-> "serve", node |-> n]
                                ELSE [what |-> "moved", node |-> owner[n]]

(* A node in the middle of a MIGRATE does nothing else. *)
Blocked(n) == n = Source /\ transfer.keys # {}

--------------------------------------------------------------------------------

ClientSends ==
  /\ request = NoRequest
  /\ \E n \in Masters, ks \in SUBSET SlotKeys \ {{}}, op \in {"get", "del"} :
       request' = [at |-> n, keys |-> ks, op |-> op, value |-> 0,
                   asking |-> FALSE]
  /\ UNCHANGED <<owner, migrating, importing, claimed, data, move, transfer,
                 truth, copied, stale>>

ClientSendsWrite ==
  /\ request = NoRequest
  /\ \E n \in Masters, k \in SlotKeys, v \in SlotValues :
       request' = [at |-> n, keys |-> {k}, op |-> "set", value |-> v,
                   asking |-> FALSE]
  /\ UNCHANGED <<owner, migrating, importing, claimed, data, move, transfer,
                 truth, copied, stale>>

(* The command runs at node n. *)
Serve(n) ==
  LET changed(d) ==
        [k \in SlotKeys |->
           IF k \in request.keys /\ request.op # "get" THEN request.value
           ELSE d[k]]
  IN  /\ stale' = (stale \/ \E k \in request.keys \ copied :
                              data[n][k] # truth[k])
      /\ data' = [data EXCEPT ![n] = changed(@)]
      /\ truth' = changed(truth)
      /\ request' = NoRequest

processCommand ==
  LET n == request.at
      r == getNodeByQuery(n, request.keys, request.asking)
  IN  /\ n # None /\ ~Blocked(n)
      /\ \/ r.what = "serve" /\ Serve(n)
         \/ /\ r.what = "tryagain"
            /\ request' = NoRequest
            /\ UNCHANGED <<data, truth, stale>>
         \/ /\ r.what \in {"ask", "moved"}
            /\ request' = [request EXCEPT !.at = r.node,
                                          !.asking = r.what = "ask"]
            /\ UNCHANGED <<data, truth, stale>>
      /\ UNCHANGED <<owner, migrating, importing, claimed, move, transfer,
                     copied>>

(***************************************************************************)
(* redis-trib move_slot, with CLUSTER SETSLOT.                             *)
(***************************************************************************)
setslotImporting ==
  /\ move.phase = "begin" /\ owner[Target] # Target
  /\ importing' = [importing EXCEPT ![Target] = Source]
  /\ move' = [move EXCEPT !.phase = "importing"]
  /\ UNCHANGED <<owner, migrating, claimed, data, transfer, request, truth,
                 copied, stale>>

setslotMigrating ==
  /\ move.phase = "importing" /\ owner[Source] = Source
  /\ migrating' = [migrating EXCEPT ![Source] = Target]
  /\ move' = [move EXCEPT !.phase = "moving"]
  /\ UNCHANGED <<owner, importing, claimed, data, transfer, request, truth,
                 copied, stale>>

(* GETKEYSINSLOT found nothing: close the slot everywhere. *)
SlotIsEmpty ==
  /\ move.phase = "moving" /\ ~Blocked(Source)
  /\ countKeysInSlot(Source) = 0
  /\ move' = [move EXCEPT !.phase = "closing", !.left = Masters]
  /\ UNCHANGED <<owner, migrating, importing, claimed, data, transfer,
                 request, truth, copied, stale>>

(* The new owner has imported the slot. *)
Imported(n) == IF n = Target THEN [importing EXCEPT ![n] = None] ELSE importing

setslotNode(n) ==
  /\ move.phase = "closing" /\ n \in move.left
  /\ ~(owner[n] = n /\ n # Target /\ countKeysInSlot(n) # 0)
  /\ migrating' = IF countKeysInSlot(n) = 0
                  THEN [migrating EXCEPT ![n] = None] ELSE migrating
  /\ importing' = Imported(n)
  /\ claimed' = (claimed \/ (n = Target /\ importing[n] # None))
  /\ owner' = [owner EXCEPT ![n] = Target]
  /\ move' = IF move.left = {n}
             THEN [move EXCEPT !.phase = "end", !.left = {}]
             ELSE [move EXCEPT !.left = @ \ {n}]
  /\ UNCHANGED <<data, transfer, request, truth, copied, stale>>

(* A header of Target with its new epoch reaches n: the slot is rebound,   *)
(* and keys that n still has in a slot it loses are deleted.               *)
clusterUpdateSlotsConfigWith(n) ==
  /\ claimed /\ n # Target /\ owner[n] # Target /\ importing[n] = None
  /\ ~Blocked(n)
  /\ owner' = [owner EXCEPT ![n] = Target]
  /\ data' = IF owner[n] = n
             THEN [data EXCEPT ![n] = [k \in SlotKeys |-> 0]] ELSE data
  /\ UNCHANGED <<migrating, importing, claimed, move, transfer, request,
                 truth, copied, stale>>

(* move_slot gave up; the operator runs it again, with or without --fix. *)
MoveAgain ==
  /\ move.phase = "failed" /\ move.count < MaxMoves
  /\ move' = [phase |-> "begin", count |-> move.count + 1, left |-> {}]
  /\ UNCHANGED <<owner, migrating, importing, claimed, data, transfer,
                 request, truth, copied, stale>>

(***************************************************************************)
(* MIGRATE ... KEYS: the keys that exist are sent in one go and Source     *)
(* waits; Target runs one RESTORE-ASKING after the other.                  *)
(***************************************************************************)
migrateCommand(replace) ==
  /\ move.phase = "moving" /\ transfer = NoTransfer
  /\ \E ks \in SUBSET {k \in SlotKeys : data[Source][k] # 0} :
       /\ ks # {}
       /\ transfer' = [NoTransfer EXCEPT !.keys = ks, !.sent = ks,
                                         !.replace = replace]
  /\ UNCHANGED <<owner, migrating, importing, claimed, data, move, request,
                 truth, copied, stale>>

restoreCommand(k) ==
  /\ k \in transfer.sent
  /\ LET refused == \/ getNodeByQuery(Target, {k}, TRUE).what # "serve"
                    \/ ~transfer.replace /\ data[Target][k] # 0
     IN  /\ transfer' = [transfer EXCEPT
                           !.sent = @ \ {k},
                           !.busy = IF refused THEN @ \cup {k} ELSE @,
                           !.done = IF refused THEN @ ELSE @ \cup {k}]
         /\ data' = IF refused THEN data
                    ELSE [data EXCEPT ![Target][k] = data[Source][k]]
  /\ UNCHANGED <<owner, migrating, importing, claimed, move, request, truth,
                 copied, stale>>

(* Source has read the answers about ks: those keys are deleted.  The      *)
(* answers about the others are lost with the connection, and a key that   *)
(* Target has restored without Source knowing is there twice.              *)
MigrateEnds(read, failed) ==
  /\ data' = [data EXCEPT ![Source] =
                [k \in SlotKeys |-> IF k \in read THEN 0 ELSE @[k]]]
  /\ copied' = copied \cup (transfer.done \ read)
  /\ transfer' = NoTransfer
  /\ move' = IF failed THEN [move EXCEPT !.phase = "failed"] ELSE move

migrateSuccess ==
  /\ transfer.keys # {} /\ transfer.sent = {}
  /\ MigrateEnds(transfer.done, transfer.busy # {})
  /\ UNCHANGED <<owner, migrating, importing, claimed, request, truth, stale>>

(* The connection breaks or times out; what was not yet executed may still *)
(* be executed by Target, or not at all.                                   *)
migrateSocketError ==
  /\ transfer.keys # {}
  /\ \E read \in SUBSET transfer.done :
       /\ read # transfer.keys
       /\ MigrateEnds(read, TRUE)
  /\ UNCHANGED <<owner, migrating, importing, claimed, request, truth, stale>>

(* No answer was read: everything is sent once more. *)
migrateTryAgain ==
  /\ transfer.keys # {} /\ ~transfer.retried
  /\ transfer' = [transfer EXCEPT !.sent = transfer.keys, !.done = {},
                                  !.busy = {}, !.retried = TRUE]
  /\ copied' = copied \cup transfer.done
  /\ UNCHANGED <<owner, migrating, importing, claimed, data, move, request,
                 truth, stale>>

ReshardNext ==
  \/ ClientSends \/ ClientSendsWrite \/ processCommand
  \/ setslotImporting \/ setslotMigrating \/ SlotIsEmpty \/ MoveAgain
  \/ \E n \in Masters : setslotNode(n) \/ clusterUpdateSlotsConfigWith(n)
  \/ migrateCommand(FALSE) \/ (move.count > 1 /\ migrateCommand(TRUE))
  \/ \E k \in SlotKeys : restoreCommand(k)
  \/ migrateSuccess \/ migrateSocketError \/ migrateTryAgain

ReshardSpec == ReshardInit /\ [][ReshardNext]_reshardVars

--------------------------------------------------------------------------------

(* Whatever node a client starts at and whatever redirections it follows,  *)
(* a command runs on what the last write left, at every moment of a move:  *)
(* a key is never seen missing or old because it is on its way             *)
(* (getNodeByQuery).  A key of which a broken MIGRATE left a second copy   *)
(* is excepted.                                                            *)
CommandsSeeLatest == ~stale

(* Once the move is over, every key is at the new owner and nowhere else,  *)
(* with the value of its last write.                                       *)
MovedWhole ==
  move.phase = "end" =>
    /\ data[Target] = truth \/ copied # {}
    /\ \A n \in Masters : owner[n] = Target /\ importing[n] = None
    /\ countKeysInSlot(Source) = 0
=============================================================================
