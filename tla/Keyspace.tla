------------------------------ MODULE Keyspace ------------------------------
(***************************************************************************)
(* The keys of a server, their expire times and the clients that WATCH     *)
(* them (db.c, expire.c, multi.c), at a master and at its slave.           *)
(*                                                                         *)
(* Keys disappear in two ways: by a command, and because their time is     *)
(* over.  Only the master decides the second, when it touches the key or   *)
(* in its cron, and tells the slave by a delete.  A key last written by    *)
(* another site is left to that site for a while.  The slave executes the  *)
(* commands of the master later, by its own clock, with the same handlers. *)
(*                                                                         *)
(* The handlers are operators on a server: [db, master, who, touched,      *)
(* silent, dirty, out, tracked].  db[d][k] has a value, 0 for no key, an   *)
(* expire time, 0 for none, and the site of the last write.                *)
(***************************************************************************)
EXTENDS Integers, Sequences, FiniteSets, FiniteSetsExt, SequencesExt

CONSTANTS
    KeyNames,      \* keys that clients of the master use
    SlaveKey,      \* a key that clients of a writable slave use
    Dbs,           \* database ids
    KeyValues,     \* values
    WatchClients,  \* clients of the master
    ExpireDelay,   \* server.non_last_write_delay_expire_time
    MaxClock,      \* bound: the time
    MaxStream,     \* bound: commands on the way to the slave
    MaxCommands    \* bound: commands executed

VARIABLES
    keydb,     \* the databases of the master
    slavedb,   \* those of the slave
    tracked,   \* slaveKeysWithExpire of the slave: pairs of database and key
    swapped,   \* the slave has swapped databases (for the properties)
    tostream,  \* commands on the way to the slave
    clock,     \* mstime()
    conns,     \* the clients
    commands   \* commands executed

keyVars == <<keydb, slavedb, tracked, swapped, tostream, clock, conns, commands>>

AllKeys == KeyNames \cup {SlaveKey}
NoKey == [val |-> 0, exp |-> 0, own |-> TRUE]

Cmd(op, d, k, to, v) == [op |-> op, d |-> d, k |-> k, to |-> to, v |-> v]

\* A server about to execute a command on behalf of who.
Server(db, master, who) ==
    [db |-> db, master |-> master, who |-> who, touched |-> {}, silent |-> {},
     dirty |-> FALSE, out |-> <<>>, tracked |-> {}]

-----------------------------------------------------------------------------
(***************************************************************************)
(* db.c                                                                    *)
(***************************************************************************)

dbExists(s, d, k) == s.db[d][k].val # 0

dbDelete(s, d, k) == [s EXCEPT !.db[d][k] = NoKey]

signalModifiedKey(s, d, k) == [s EXCEPT !.touched = @ \cup {<<d, k>>}]

Dirty(s, x) == [s EXCEPT !.dirty = TRUE, !.out = Append(@, x)]

setExpire(s, d, k, when) ==
    [s EXCEPT !.db[d][k].exp = when,
              !.tracked = @ \cup (IF ~s.master /\ s.who = "client" THEN {<<d, k>>} ELSE {})]

Expired(s, d, k, now) == s.db[d][k].exp # 0 /\ now > s.db[d][k].exp

\* Whether the key may go now: never for a command of a peer, and later when
\* the cron finds it and another site wrote it last.
crdtPropagateExpire(s, d, k, now) ==
    /\ s.who # "peer"
    /\ s.who = "cron" /\ ~s.db[d][k].own => now >= s.db[d][k].exp + ExpireDelay

expireIfNeeded(s, d, k, now) ==
    IF s.master /\ Expired(s, d, k, now) /\ crdtPropagateExpire(s, d, k, now)
    THEN [dbDelete(s, d, k) EXCEPT !.out = Append(@, Cmd("unlink", d, k, k, 0)),
                                   !.silent = @ \cup {<<d, k>>}]
    ELSE s

lookupKeyWrite(s, d, k, now) == expireIfNeeded(s, d, k, now)

lookupKeyReadWithFlags(s, d, k, now) == expireIfNeeded(s, d, k, now)

\* A write that replaces the value and its expire time.
setKey(s0, x, now) ==
    LET s == lookupKeyWrite(s0, x.d, x.k, now)
    IN  Dirty(signalModifiedKey([s EXCEPT !.db[x.d][x.k] =
                                    [val |-> x.v, exp |-> 0, own |-> TRUE]], x.d, x.k), x)

\* A write of another site, replicated by a peer: the expire time stays.
PeerSet(s, x) ==
    Dirty(signalModifiedKey([s EXCEPT !.db[x.d][x.k].val = x.v,
                                      !.db[x.d][x.k].own = FALSE], x.d, x.k), x)

delGenericCommand(s0, x, now) ==
    LET s == expireIfNeeded(s0, x.d, x.k, now)
    IN  IF dbExists(s, x.d, x.k)
        THEN Dirty(signalModifiedKey(dbDelete(s, x.d, x.k), x.d, x.k), x)
        ELSE s

renameGenericCommand(s0, x, now) ==
    LET s1 == lookupKeyWrite(s0, x.d, x.k, now)
        e == s1.db[x.d][x.k]
        s2 == lookupKeyWrite(s1, x.d, x.to, now)
        s3 == [s2 EXCEPT !.db[x.d][x.to] = [e EXCEPT !.exp = 0]]
        s4 == IF e.exp # 0 THEN setExpire(s3, x.d, x.to, e.exp) ELSE s3
    IN  CASE ~dbExists(s1, x.d, x.k) \/ x.k = x.to -> s1
          [] x.op = "renamenx" /\ dbExists(s2, x.d, x.to) -> s2
          [] OTHER -> Dirty(signalModifiedKey(signalModifiedKey(
                        dbDelete(s4, x.d, x.k), x.d, x.k), x.d, x.to), x)

\* MOVE; it does not signal the keys.
moveCommand(s0, x, now) ==
    LET s1 == lookupKeyWrite(s0, x.d, x.k, now)
        e == s1.db[x.d][x.k]
        s2 == lookupKeyWrite(s1, x.to, x.k, now)
        s3 == [s2 EXCEPT !.db[x.to][x.k] = [e EXCEPT !.exp = 0]]
        s4 == IF e.exp # 0 THEN setExpire(s3, x.to, x.k, e.exp) ELSE s3
    IN  CASE x.d = x.to -> s0
          [] x.d # x.to /\ ~dbExists(s1, x.d, x.k) -> s1
          [] x.d # x.to /\ dbExists(s1, x.d, x.k) /\ dbExists(s2, x.to, x.k) -> s2
          [] OTHER -> Dirty([dbDelete(s4, x.d, x.k) EXCEPT
                                !.silent = @ \cup {<<x.d, x.k>>, <<x.to, x.k>>}], x)

\* SWAPDB; nor does it.
dbSwapDatabases(s, x) ==
    Dirty([s EXCEPT !.db[x.d] = s.db[x.to], !.db[x.to] = s.db[x.d],
                    !.silent = @ \cup ({x.d, x.to} \X AllKeys)], x)

\* Seeded fault: the keys that are watched are not touched.
emptyDb_Untouched(s, x, ds) ==
    Dirty([s EXCEPT !.db = [d \in Dbs |-> IF d \in ds THEN [k \in AllKeys |-> NoKey]
                                                      ELSE s.db[d]]], x)

\* FLUSHDB and FLUSHALL; watched keys are touched if they exist.
emptyDb(s, x, ds) ==
    Dirty([s EXCEPT !.db = [d \in Dbs |-> IF d \in ds THEN [k \in AllKeys |-> NoKey]
                                                      ELSE s.db[d]],
                    !.touched = @ \cup {<<d, k>> \in ds \X AllKeys : dbExists(s, d, k)}], x)

-----------------------------------------------------------------------------
(***************************************************************************)
(* expire.c                                                                *)
(***************************************************************************)

\* Seeded fault: a slave deletes as well.
expireGenericCommand_Anywhere(s0, x, now) ==
    LET s == lookupKeyWrite(s0, x.d, x.k, now)
        when == IF x.op = "expire" THEN now + x.v ELSE x.v
    IN  CASE ~dbExists(s, x.d, x.k) -> s
          [] dbExists(s, x.d, x.k) /\ when <= now ->
                Dirty(signalModifiedKey(dbDelete(s, x.d, x.k), x.d, x.k),
                      Cmd("unlink", x.d, x.k, x.k, 0))
          [] OTHER -> Dirty(signalModifiedKey(setExpire(s, x.d, x.k, when), x.d, x.k), x)

\* EXPIRE and the like.  A time that is over deletes, but only at a master.
expireGenericCommand(s0, x, now) ==
    LET s == lookupKeyWrite(s0, x.d, x.k, now)
        when == IF x.op = "expire" THEN now + x.v ELSE x.v
    IN  CASE ~dbExists(s, x.d, x.k) -> s
          [] dbExists(s, x.d, x.k) /\ when <= now /\ s.master ->
                Dirty(signalModifiedKey(dbDelete(s, x.d, x.k), x.d, x.k),
                      Cmd("unlink", x.d, x.k, x.k, 0))
          [] OTHER -> Dirty(signalModifiedKey(setExpire(s, x.d, x.k, when), x.d, x.k), x)

persistCommand(s0, x, now) ==
    LET s == lookupKeyWrite(s0, x.d, x.k, now)
    IN  IF dbExists(s, x.d, x.k) /\ s.db[x.d][x.k].exp # 0
        THEN Dirty([s EXCEPT !.db[x.d][x.k].exp = 0], x)
        ELSE s

\* The handler of a command.
Execute(s, x, now) ==
    CASE x.op = "set" -> setKey(s, x, now)
      [] x.op = "crdtset" -> PeerSet(s, x)
      [] x.op = "get" -> lookupKeyReadWithFlags(s, x.d, x.k, now)
      [] x.op = "unlink" -> delGenericCommand(s, x, now)
      [] x.op \in {"rename", "renamenx"} -> renameGenericCommand(s, x, now)
      [] x.op = "move" -> moveCommand(s, x, now)
      [] x.op = "swapdb" -> dbSwapDatabases(s, x)
      [] x.op = "flushdb" -> emptyDb(s, x, {x.d})
      [] x.op = "flushall" -> emptyDb(s, x, Dbs)
      [] x.op \in {"expire", "pexpireat"} -> expireGenericCommand(s, x, now)
      [] x.op = "persist" -> persistCommand(s, x, now)

ClientCommands ==
    {Cmd("set", d, k, k, v) : d \in Dbs, k \in KeyNames, v \in KeyValues}
        \cup {Cmd(op, d, k, k, 0) : op \in {"get", "unlink", "persist"}, d \in Dbs, k \in KeyNames}
        \cup {Cmd(op, d, k, to, 0) : op \in {"rename", "renamenx"}, d \in Dbs,
                                     k \in KeyNames, to \in KeyNames}
        \cup {Cmd("move", d, k, to, 0) : d \in Dbs, k \in KeyNames, to \in Dbs}
        \cup {Cmd("swapdb", d, SlaveKey, to, 0) : d \in Dbs, to \in Dbs}
        \cup {Cmd(op, d, SlaveKey, d, 0) : op \in {"flushdb", "flushall"}, d \in Dbs}
        \cup {Cmd("expire", d, k, k, t) : d \in Dbs, k \in KeyNames, t \in {0, 1}}
        \cup {Cmd("pexpireat", d, k, k, t) : d \in Dbs, k \in KeyNames, t \in {1}}

-----------------------------------------------------------------------------
(***************************************************************************)
(* multi.c                                                                 *)
(***************************************************************************)

\* seen: the watched keys, each with the value it had; hidden: one of them has
\* changed in a way that signals nothing.
NewConn == [seen |-> {}, cas |-> FALSE, multi |-> FALSE, queue |-> <<>>, hidden |-> FALSE]

Watches(c, keys) == \E w \in c.seen : <<w.d, w.k>> \in keys

touchWatchedKey(cs, s) ==
    [c \in WatchClients |->
        [cs[c] EXCEPT !.cas = @ \/ Watches(cs[c], s.touched),
                      !.hidden = @ \/ Watches(cs[c], s.silent)]]

\* What the master does with the result of its commands.
Done(s, cs) ==
    /\ Len(tostream) + Len(s.out) <= MaxStream
    /\ commands < MaxCommands
    /\ commands' = commands + 1
    /\ keydb' = s.db
    /\ tostream' = tostream \o s.out
    /\ conns' = touchWatchedKey(cs, s)
    /\ UNCHANGED <<slavedb, tracked, swapped, clock>>

Master(who) == Server(keydb, TRUE, who)

ClientExecutes(c, x) ==
    /\ ~conns[c].multi
    /\ Done(Execute(Master("client"), x, clock), conns)

watchForKey(c, d, k) ==
    /\ ~conns[c].multi
    /\ \A w \in conns[c].seen : <<w.d, w.k>> # <<d, k>>
    /\ conns' = [conns EXCEPT ![c].seen = @ \cup {[d |-> d, k |-> k, val |-> keydb[d][k].val]}]
    /\ UNCHANGED <<keydb, slavedb, tracked, swapped, tostream, clock, commands>>

multiCommand(c) ==
    /\ ~conns[c].multi
    /\ conns' = [conns EXCEPT ![c].multi = TRUE]
    /\ UNCHANGED <<keydb, slavedb, tracked, swapped, tostream, clock, commands>>

queueMultiCommand(c, x) ==
    /\ conns[c].multi
    /\ conns[c].queue = <<>>
    /\ conns' = [conns EXCEPT ![c].queue = Append(@, x)]
    /\ UNCHANGED <<keydb, slavedb, tracked, swapped, tostream, clock, commands>>

discardTransaction(c) == [conns EXCEPT ![c] = NewConn]

execCommand(c) ==
    /\ conns[c].multi
    /\ IF conns[c].cas
       THEN /\ conns' = discardTransaction(c)
            /\ UNCHANGED <<keydb, slavedb, tracked, swapped, tostream, clock, commands>>
       ELSE Done(FoldLeft(LAMBDA s, x : Execute(s, x, clock), Master("client"),
                          conns[c].queue),
                 discardTransaction(c))

discardCommand(c) ==
    /\ conns[c].multi
    /\ conns' = discardTransaction(c)
    /\ UNCHANGED <<keydb, slavedb, tracked, swapped, tostream, clock, commands>>

unwatchCommand(c) ==
    /\ ~conns[c].multi
    /\ conns[c].seen # {}
    /\ conns' = [conns EXCEPT ![c].seen = {}, ![c].cas = FALSE, ![c].hidden = FALSE]
    /\ UNCHANGED <<keydb, slavedb, tracked, swapped, tostream, clock, commands>>

-----------------------------------------------------------------------------
Init ==
    /\ keydb = [d \in Dbs |-> [k \in AllKeys |-> NoKey]]
    /\ slavedb = keydb
    /\ tracked = {}
    /\ swapped = FALSE
    /\ tostream = <<>>
    /\ clock = 0
    /\ conns = [c \in WatchClients |-> NewConn]
    /\ commands = 0

PeerExecutes(d, k, v) == Done(Execute(Master("peer"), Cmd("crdtset", d, k, k, v), clock), conns)

\* The cron of the master tries one key.
activeExpireCycleTryExpire(d, k) ==
    /\ Expired(Master("cron"), d, k, clock)
    /\ Done(expireIfNeeded(Master("cron"), d, k, clock), conns)

Tick ==
    /\ clock < MaxClock
    /\ clock' = clock + 1
    /\ UNCHANGED <<keydb, slavedb, tracked, swapped, tostream, conns, commands>>

\* The slave executes a command of its master, or of a client that writes to it.
Slave(who) == Server(slavedb, FALSE, who)

SlaveApplies ==
    /\ tostream # <<>>
    /\ slavedb' = Execute(Slave("master"), Head(tostream), clock).db
    /\ tostream' = Tail(tostream)
    /\ tracked' = IF Head(tostream).op = "flushall" THEN {} ELSE tracked
    /\ swapped' = (swapped \/ Head(tostream).op = "swapdb")
    /\ UNCHANGED <<keydb, clock, conns, commands>>

SlaveClientWrites(x) ==
    /\ commands < MaxCommands
    /\ commands' = commands + 1
    /\ LET s == Execute(Slave("client"), x, clock)
       IN  slavedb' = s.db /\ tracked' = tracked \cup s.tracked
    /\ UNCHANGED <<keydb, swapped, tostream, clock, conns>>

\* The cron of the slave looks at one key that its own clients gave an expire time.
expireSlaveKeys(d, k) ==
    /\ <<d, k>> \in tracked
    /\ LET s == Slave("cron")
           gone == Expired(s, d, k, clock) /\ crdtPropagateExpire(s, d, k, clock)
       IN  /\ slavedb' = IF gone THEN dbDelete(s, d, k).db ELSE slavedb
           /\ tracked' = IF gone \/ slavedb[d][k].exp = 0 THEN tracked \ {<<d, k>>}
                                                          ELSE tracked
    /\ UNCHANGED <<keydb, swapped, tostream, clock, conns, commands>>

Next ==
    \/ \E c \in WatchClients : multiCommand(c) \/ execCommand(c) \/ discardCommand(c)
                               \/ unwatchCommand(c)
    \/ \E c \in WatchClients, x \in ClientCommands : ClientExecutes(c, x) \/ queueMultiCommand(c, x)
    \/ \E c \in WatchClients, d \in Dbs, k \in KeyNames : watchForKey(c, d, k)
    \/ \E d \in Dbs, k \in KeyNames, v \in KeyValues : PeerExecutes(d, k, v)
    \/ \E d \in Dbs, k \in KeyNames : activeExpireCycleTryExpire(d, k)
    \/ SlaveApplies
    \/ \E d \in Dbs, v \in KeyValues : SlaveClientWrites(Cmd("set", d, SlaveKey, SlaveKey, v))
    \/ \E d \in Dbs : SlaveClientWrites(Cmd("expire", d, SlaveKey, SlaveKey, 1))
    \/ \E d \in Dbs : expireSlaveKeys(d, SlaveKey)
    \/ Tick

Spec == Init /\ [][Next]_keyVars

-----------------------------------------------------------------------------
(***************************************************************************)
(* Properties.                                                             *)
(***************************************************************************)

\* Once it has executed all commands of the master, the slave has the same keys
\* with the same values, volatile or not alike, although it runs them later and
\* never decides by itself that a key is over.
ReplicaSame ==
    tostream = <<>> =>
        \A d \in Dbs, k \in KeyNames :
            /\ slavedb[d][k].val = keydb[d][k].val
            /\ (slavedb[d][k].exp = 0) = (keydb[d][k].exp = 0)

\* An EXEC that would run now runs on what the client has watched: a watched key
\* with another value has marked the client, unless the key has expired or was
\* moved or swapped, which mark nobody (db.c:900, db.c:979, db.c:1187).
WatchSound ==
    \A c \in WatchClients : \A w \in conns[c].seen :
        keydb[w.d][w.k].val # w.val => conns[c].cas \/ conns[c].hidden

\* A key that a client of the slave gave an expire time, and that the master never
\* wrote, is still known to the slave's cron, so that it goes some day.  A swap
\* of databases takes the key away from its entry (db.c:979).
SlaveKeyTracked ==
    \A d \in Dbs : slavedb[d][SlaveKey].exp # 0 /\ ~swapped => <<d, SlaveKey>> \in tracked
=============================================================================
