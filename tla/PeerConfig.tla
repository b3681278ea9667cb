----------------------------- MODULE PeerConfig -----------------------------
(***************************************************************************)
(* The peers a site knows: PEEROF, its copies at the slave, in RDB files   *)
(* and in the configuration (ctrip_crdt_replication.c), and the gids that  *)
(* are declared offline (ctrip.c).                                         *)
(***************************************************************************)
EXTENDS Integers, Sequences, SequencesExt, FiniteSets

-----------------------------------------------------------------------------
(***************************************************************************)
(* The table of peers of a site: PEEROF and its proxies, the config file   *)
(* and the RDB fields that keep it, and its copy at the site's slave.      *)
(*                                                                         *)
(* PEEROF names the master of another site, perhaps through proxies and    *)
(* perhaps with a clock from which this site's own writes are to come back *)
(* (backstream); the server then refuses commands until MERGE_END has come *)
(* from every peer that owes data.  The master feeds PEEROF and the marks  *)
(* of a merge to its slave, which keeps a table of its own.                *)
(***************************************************************************)

CONSTANTS
    PeerGids,     \* gids of other sites
    Hosts,        \* addresses of their masters
    ProxyTexts,   \* the proxy servers that PEEROF may name, as typed: a sequence of
                  \* points, each split at its colons
    MaxPeerofs,   \* bound: PEEROF commands of operators
    MaxMishaps,   \* bound: restarts, lost links, failing writes of the config file
    MaxFeed       \* bound: commands on their way to the slave

VARIABLES
    site,      \* the master: [isMaster, peers, loading, conf, hung, unsaved]
    copy,      \* its slave, the same
    rdbPeers,  \* the peers in the master's RDB file
    toslave,   \* the commands on their way to the slave
    linkedTo,  \* the slave follows the stream
    failed,    \* ghost: a config file could not be written
    orphan,    \* ghost: a mark of a merge came for a peer that is not in the table
    peerofs, mishaps

pcVars == <<site, copy, rdbPeers, toslave, linkedTo, failed, orphan, peerofs, mishaps>>

NoPeer == [host |-> "none"]
Null == -1          \* no backstream clock
Bad == [tcp |-> FALSE, host |-> <<>>, port |-> -1]   \* what does not parse

\* createPeerMaster, with the address that its callers set at once.
createPeerMaster(h, proxy) ==
    [host |-> h, proxy |-> proxy, at |-> 1, via |-> <<>>, state |-> "none",
     owes |-> Null, lazy |-> FALSE]

EmptyTable == [g \in PeerGids |-> NoPeer]
NewServer(m) == [isMaster |-> m, peers |-> EmptyTable, loading |-> FALSE,
                 conf |-> EmptyTable, hung |-> FALSE, unsaved |-> {}]

PeerInit ==
    /\ site = NewServer(TRUE) /\ copy = NewServer(FALSE)
    /\ rdbPeers = EmptyTable /\ toslave = <<>> /\ linkedTo = TRUE
    /\ failed = FALSE /\ orphan = FALSE
    /\ peerofs = 0 /\ mishaps = 0

Known(sv) == {g \in PeerGids : sv.peers[g] # NoPeer}
Owing(sv) == {g \in Known(sv) : sv.peers[g].owes # Null}

-----------------------------------------------------------------------------
(***************************************************************************)
(* Proxies.                                                                *)
(***************************************************************************)

\* host:port, or PROXYTCP://host:port; no other type is known.
parsePoint(units) ==
    CASE Len(units) = 2 -> [tcp |-> FALSE, host |-> units[1], port |-> units[2]]
      [] Len(units) = 3 /\ units[1] = "PROXYTCP" ->
             [tcp |-> TRUE, host |-> Tail(units[2]), port |-> units[3]]
      [] OTHER -> Bad

getPointInfo(p) ==
    IF p.tcp THEN <<"PROXYTCP", <<"//">> \o p.host, p.port>> ELSE <<p.host, p.port>>

\* A list with a point that does not parse is no list.
parseServers(text) ==
    LET points == [i \in DOMAIN text |-> parsePoint(text[i])]
    IN  IF Bad \in Range(points) THEN <<Bad>> ELSE points

getProxyServersInfo(points) == [i \in DOMAIN points |-> getPointInfo(points[i])]

\* Points are compared without their type.
Point(p) == <<p.host, p.port>>
PointSet(ps) == {Point(ps[i]) : i \in DOMAIN ps}

\* Two lists of proxies are equal when each server of the first is in the second.
eqProxy(p, q) ==
    \/ p = <<>> /\ q = <<>>
    \/ p # <<>> /\ q # <<>> /\ Len(p) = Len(q) /\ PointSet(p) \subseteq PointSet(q)

SameType(p, q) == (p = <<>>) = (q = <<>>)

\* A connection stays if its proxy server is in the new list.
proxyIsKeepConnected(p, new) == new # <<>> /\ Point(p.proxy[p.at]) \in PointSet(new)

\* The new list, at the position of the server in use.
KeptProxy(p, new) ==
    [p EXCEPT !.proxy = new,
              !.at = SelectInSeq(new, LAMBDA s : Point(s) = Point(p.proxy[p.at]))]

\* What is written of a peer to the config file and to the RDB file.
Line(p) == IF p = NoPeer THEN NoPeer ELSE [host |-> p.host, proxy |-> getProxyServersInfo(p.proxy)]
Lines(sv) == [g \in PeerGids |-> Line(sv.peers[g])]

\* All lines are written; a failing write leaves the file as it was.
rewriteConfig(sv) == [sv EXCEPT !.conf = Lines(sv), !.unsaved = {}]

\* peerof lines of a file become peers.
FromLine(l) == IF l = NoPeer THEN NoPeer ELSE createPeerMaster(l.host, parseServers(l.proxy))

-----------------------------------------------------------------------------
(***************************************************************************)
(* PEEROF.                                                                 *)
(***************************************************************************)

\* Seeded fault: what other peers owe is not looked at.
tryCleanCrdtServerLoading_Always(sv) == [sv EXCEPT !.loading = FALSE, !.hung = FALSE]

\* Clients are let in when no peer owes data.
tryCleanCrdtServerLoading(sv) ==
    IF Owing(sv) = {} THEN [sv EXCEPT !.loading = FALSE, !.hung = FALSE] ELSE sv

\* The peer is dropped, its link and what it owes.
crdtReplicationUnsetMaster(sv, g) ==
    IF sv.peers[g] = NoPeer THEN sv
    ELSE tryCleanCrdtServerLoading([sv EXCEPT !.peers[g] = NoPeer])

\* The peer gets its address; a master closes the old link and connects anew.
crdtReplicationSetMaster(sv, g, h) ==
    LET p == IF sv.peers[g] = NoPeer THEN createPeerMaster(h, <<>>) ELSE sv.peers[g]
        q == [p EXCEPT !.host = h, !.lazy = FALSE]
    IN  IF sv.isMaster THEN [q EXCEPT !.state = "connect", !.via = <<>>] ELSE q

\* PEEROF gid no one: the config file is not written.
PeerofNoOne(sv, c) ==
    LET gone == crdtReplicationUnsetMaster(sv, c.gid)
    IN  [sv |-> [gone EXCEPT !.unsaved = @ \cup {c.gid}], dirty |-> TRUE]

\* The command in the order of its checks.  A backstream clock shuts clients
\* out as soon as it is parsed, whatever comes of the command.
PeerofSet(sv, c, fails) ==
    LET p       == sv.peers[c.gid]
        proxy   == parseServers(c.proxy)
        flagged == [sv EXCEPT !.loading = @ \/ c.bs # Null,
                              !.hung = @ \/ (c.bs # Null /\ Owing(sv) = {})]
        same    == p # NoPeer /\ p.host = c.host
        set     == [crdtReplicationSetMaster(sv, c.gid, c.host)
                        EXCEPT !.owes = IF c.bs # Null THEN c.bs ELSE @,
                               !.proxy = proxy, !.at = 1]
        added   == [sv EXCEPT !.loading = @ \/ c.bs # Null, !.peers[c.gid] = set]
    IN  IF proxy = <<Bad>>
        THEN [sv |-> IF c.first THEN flagged ELSE sv, dirty |-> FALSE]
        ELSE IF same /\ SameType(p.proxy, proxy) /\ p.state = "connected"
                     /\ proxyIsKeepConnected(p, proxy)
        THEN [sv |-> [flagged EXCEPT !.peers[c.gid] = KeptProxy(p, proxy),
                                     !.unsaved = @ \cup {c.gid}],
              dirty |-> TRUE]
        ELSE IF same /\ p.owes = c.bs /\ eqProxy(proxy, p.proxy)
        THEN [sv |-> [flagged EXCEPT !.peers[c.gid].lazy = FALSE], dirty |-> FALSE]
        ELSE IF fails
        THEN [sv |-> [crdtReplicationUnsetMaster(added, c.gid)
                          EXCEPT !.unsaved = @ \cup {c.gid}],
              dirty |-> FALSE]
        ELSE [sv |-> rewriteConfig(added), dirty |-> TRUE]

peerofCommand(sv, c, fails) ==
    IF c.cmd = "noone" THEN PeerofNoOne(sv, c) ELSE PeerofSet(sv, c, fails)

-----------------------------------------------------------------------------
(***************************************************************************)
(* The master.                                                             *)
(***************************************************************************)

PeerofCommands ==
    [cmd : {"peerof"}, gid : PeerGids, host : Hosts, proxy : ProxyTexts \cup {<<>>},
     bs : {Null, 0}, first : BOOLEAN]
    \cup [cmd : {"noone"}, gid : PeerGids]

Feed(c) == toslave' = IF linkedTo THEN Append(toslave, c) ELSE toslave

\* An operator sends PEEROF.  What changed the table goes on to the slave.
OperatorPeerof(c, fails) ==
    /\ peerofs < MaxPeerofs /\ Len(toslave) < MaxFeed
    /\ fails => mishaps < MaxMishaps
    /\ peerofs' = peerofs + 1
    /\ mishaps' = IF fails THEN mishaps + 1 ELSE mishaps
    /\ failed' = (failed \/ fails)
    /\ LET r == peerofCommand(site, c, fails)
       IN  /\ site' = r.sv
           /\ IF r.dirty THEN Feed(c) ELSE UNCHANGED toslave
    /\ UNCHANGED <<copy, rdbPeers, linkedTo, orphan>>

\* The cron prepares a peer without state, and one that waits is connected
\* once its lazy time is over; a proxy is taken at random.
crdtReplicationCron(g) ==
    /\ site.peers[g] # NoPeer
    /\ \/ /\ site.peers[g].state = "none"
          /\ site' = [site EXCEPT !.peers[g].state = "connect"]
       \/ /\ site.peers[g].state = "connect" /\ site.peers[g].lazy
          /\ site' = [site EXCEPT !.peers[g].lazy = FALSE]
       \/ /\ site.peers[g].state = "connect" /\ ~site.peers[g].lazy
          /\ IF site.peers[g].proxy = <<>>
             THEN site' = [site EXCEPT !.peers[g].state = "handshake",
                                       !.peers[g].via = <<"direct">>]
             ELSE \E i \in DOMAIN site.peers[g].proxy :
                     site' = [site EXCEPT !.peers[g].state = "handshake",
                                          !.peers[g].at = i,
                                          !.peers[g].via = Point(site.peers[g].proxy[i])]
    /\ UNCHANGED <<copy, rdbPeers, toslave, linkedTo, failed, orphan, peerofs, mishaps>>

\* The peer continues the stream, unless a backstream was asked for.
PartialResync(g) ==
    /\ site.peers[g] # NoPeer /\ site.peers[g].state = "handshake"
    /\ site.peers[g].owes = Null
    /\ site' = [site EXCEPT !.peers[g].state = "connected"]
    /\ UNCHANGED <<copy, rdbPeers, toslave, linkedTo, failed, orphan, peerofs, mishaps>>

\* The marks of a full synchronisation, which the slave gets as well.
MergeStarts(g) ==
    /\ site.peers[g] # NoPeer /\ site.peers[g].state = "handshake"
    /\ Len(toslave) < MaxFeed
    /\ site' = [site EXCEPT !.peers[g].state = "transfer"]
    /\ Feed([cmd |-> "start", gid |-> g])
    /\ UNCHANGED <<copy, rdbPeers, linkedTo, failed, orphan, peerofs, mishaps>>

\* The end of a merge settles what the peer owed.
crdtMergeEndCommand(sv, g) ==
    IF sv.peers[g].owes = Null THEN sv
    ELSE tryCleanCrdtServerLoading([sv EXCEPT !.peers[g].owes = Null])

MergeEnds(g) ==
    /\ site.peers[g] # NoPeer /\ site.peers[g].state = "transfer"
    /\ Len(toslave) < MaxFeed
    /\ site' = [crdtMergeEndCommand(site, g) EXCEPT !.peers[g].state = "connected"]
    /\ Feed([cmd |-> "end", gid |-> g])
    /\ UNCHANGED <<copy, rdbPeers, linkedTo, failed, orphan, peerofs, mishaps>>

\* A link to a peer is lost.
PeerLost(g) ==
    /\ site.peers[g] # NoPeer /\ site.peers[g].state \in {"handshake", "transfer", "connected"}
    /\ mishaps < MaxMishaps /\ mishaps' = mishaps + 1
    /\ site' = [site EXCEPT !.peers[g].state = "connect", !.peers[g].via = <<>>]
    /\ UNCHANGED <<copy, rdbPeers, toslave, linkedTo, failed, orphan, peerofs>>

\* A snapshot for the disk holds the table.
rdbSaveAuxFieldCrdt ==
    /\ rdbPeers # Lines(site)
    /\ rdbPeers' = Lines(site)
    /\ UNCHANGED <<site, copy, toslave, linkedTo, failed, orphan, peerofs, mishaps>>

\* Lines of the config file come first, the RDB file adds peers that they lack.
LoadedPeers(conf, rdb) ==
    [g \in PeerGids |-> FromLine(IF conf[g] # NoPeer THEN conf[g] ELSE rdb[g])]

\* cleanSlavePeerBackStream: nobody owes anything.
cleanSlavePeerBackStream(sv) ==
    [sv EXCEPT !.peers = [g \in PeerGids |-> IF sv.peers[g] = NoPeer THEN NoPeer
                                             ELSE [sv.peers[g] EXCEPT !.owes = Null]],
               !.loading = FALSE, !.hung = FALSE]

\* peerBackStream: the data of the RDB file stays (keep), or the peers owe data.
peerBackStream(sv, keep) ==
    IF keep /\ sv.isMaster THEN cleanSlavePeerBackStream(sv)
    ELSE [sv EXCEPT !.peers = [g \in PeerGids |-> IF sv.peers[g] = NoPeer THEN NoPeer
                                                  ELSE [sv.peers[g] EXCEPT !.owes = 0]],
                    !.loading = Known(sv) # {}]

\* lazyPeerof: after a restart the peers are connected later.
lazyPeerof(sv) ==
    [sv EXCEPT !.peers = [g \in PeerGids |-> IF sv.peers[g] = NoPeer THEN NoPeer
                                             ELSE [sv.peers[g] EXCEPT !.lazy = TRUE]]]

\* The server starts with what its files say.
Started(sv, rdb, keep) ==
    LET read  == [NewServer(sv.isMaster) EXCEPT !.conf = sv.conf,
                                                !.peers = LoadedPeers(sv.conf, rdb)]
        added == {g \in PeerGids : sv.conf[g] = NoPeer /\ rdb[g] # NoPeer}
        kept  == IF added # {} THEN rewriteConfig(read) ELSE read
    IN  lazyPeerof(peerBackStream(kept, keep))

PeerRestart(keep) ==
    /\ mishaps < MaxMishaps /\ mishaps' = mishaps + 1
    /\ site' = Started(site, rdbPeers, keep)
    /\ toslave' = <<>> /\ linkedTo' = FALSE
    /\ UNCHANGED <<copy, rdbPeers, failed, orphan, peerofs>>

-----------------------------------------------------------------------------
(***************************************************************************)
(* The slave.                                                              *)
(***************************************************************************)

\* The slave executes the next command of the stream.
PeerSlaveExecutes(fails) ==
    /\ toslave # <<>>
    /\ LET c == Head(toslave)
       IN  /\ fails => c.cmd = "peerof" /\ mishaps < MaxMishaps
           /\ copy' = CASE c.cmd \in {"peerof", "noone"} -> peerofCommand(copy, c, fails).sv
                        [] c.cmd = "end" /\ copy.peers[c.gid] # NoPeer ->
                               crdtMergeEndCommand(copy, c.gid)
                        [] OTHER -> copy
           /\ orphan' = (orphan \/ (c.cmd \in {"start", "end"} /\ copy.peers[c.gid] = NoPeer))
    /\ toslave' = Tail(toslave)
    /\ mishaps' = IF fails THEN mishaps + 1 ELSE mishaps
    /\ failed' = (failed \/ fails)
    /\ UNCHANGED <<site, rdbPeers, linkedTo, peerofs>>

\* The stream is lost and continued: nothing is missed, debts are forgotten.
SlaveContinues ==
    /\ linkedTo /\ ~site.loading
    /\ mishaps < MaxMishaps /\ mishaps' = mishaps + 1
    /\ copy' = cleanSlavePeerBackStream(copy)
    /\ UNCHANGED <<site, rdbPeers, toslave, linkedTo, failed, orphan, peerofs>>

SlaveRestart ==
    /\ mishaps < MaxMishaps /\ mishaps' = mishaps + 1
    /\ copy' = Started(copy, EmptyTable, FALSE)
    /\ toslave' = <<>> /\ linkedTo' = FALSE
    /\ UNCHANGED <<site, rdbPeers, failed, orphan, peerofs>>

\* A snapshot of the master replaces the table; a table with peers is saved.
SlaveLoads ==
    /\ ~linkedTo /\ ~site.loading
    /\ LET new == [copy EXCEPT !.peers = [g \in PeerGids |-> FromLine(Lines(site)[g])],
                               !.loading = FALSE, !.hung = FALSE,
                               !.unsaved = @ \cup PeerGids]
       IN  copy' = IF Known(site) # {} THEN rewriteConfig(new) ELSE new
    /\ linkedTo' = TRUE /\ toslave' = <<>>
    /\ UNCHANGED <<site, rdbPeers, failed, orphan, peerofs, mishaps>>

-----------------------------------------------------------------------------
PeerNext ==
    \/ \E c \in PeerofCommands, fails \in BOOLEAN : OperatorPeerof(c, fails)
    \/ \E g \in PeerGids : \/ crdtReplicationCron(g) \/ PartialResync(g)
                           \/ MergeStarts(g) \/ MergeEnds(g) \/ PeerLost(g)
    \/ rdbSaveAuxFieldCrdt
    \/ \E keep \in BOOLEAN : PeerRestart(keep)
    \/ \E fails \in BOOLEAN : PeerSlaveExecutes(fails)
    \/ SlaveContinues
    \/ SlaveRestart
    \/ SlaveLoads

PeerSpec == PeerInit /\ [][PeerNext]_pcVars
-----------------------------------------------------------------------------
\* A server that shuts clients out waits for a peer that owes it data, whatever
\* PEEROF, restarts and lost links did (tryCleanCrdtServerLoading is called only
\* when such a debt ends).  Excepted is what PEEROF leaves behind when it has set
\* crdtServer.loading and then refuses or keeps the connection.
LoadingOwed == \A sv \in {site, copy} : sv.loading /\ ~sv.hung => Owing(sv) # {}

\* No client is served while a peer owes this site's own writes.
OwedShutsOut == \A sv \in {site, copy} : Owing(sv) # {} => sv.loading

\* After all of the stream, the slave knows the peers of its master: it can follow
\* merges, and connect to them when it is promoted.  A config file that could not
\* be written breaks this at either side.
SlaveKnowsPeers ==
    ~failed => /\ linkedTo /\ toslave = <<>> => Lines(copy) = Lines(site)
               /\ ~orphan

\* What PEEROF acknowledged is in the config file, except for a peer that was
\* removed (also by a failing write), or whose proxies were exchanged under the
\* connection.
ConfigHoldsPeers ==
    \A sv \in {site, copy} : \A g \in PeerGids \ sv.unsaved : sv.conf[g] = Lines(sv)[g]

\* The proxy that INFO reports, and that a new PEEROF is compared with, is the one
\* that the link goes through (xpipeProxyIsKeepConnected, xpipeProxyConnect).
LinkThroughProxy ==
    \A g \in Known(site) :
        site.peers[g].proxy # <<>> /\ site.peers[g].via # <<>> =>
            site.peers[g].via = Point(site.peers[g].proxy[site.peers[g].at])

-----------------------------------------------------------------------------
(***************************************************************************)
(* The gids an operator declares offline (CRDT.SETOFFLINEGID, the          *)
(* crdt-offline-gid option and the RDB field of that name), and the copy   *)
(* of the vector clock without them, vectorClockCache, that modules stamp  *)
(* their writes with.  The copy is kept next to the clock: some of the     *)
(* code that changes the clock changes the copy too and some does not.     *)
(*                                                                         *)
(* A site is a master and a slave; the commands the master executes reach  *)
(* the slave in order, and a failover loses those still on their way.      *)
(***************************************************************************)

CONSTANTS OwnGid, OtherGids,
          Jump,            \* the day of writes jumpVectorClock skips, more than are ever on their way
          MaxVcu,          \* bound: the largest clock of a peer
          MaxOgWrites, MaxOgSteps, MaxOgStream    \* bounds

LOCAL INSTANCE VectorClock WITH Gid <- OtherGids \cup {OwnGid}, MaxClock <- MaxVcu

VARIABLES og,              \* og[x]: [vc, cache, off] of server x
          ogMaster,        \* the server that is master; the other one is its slave
          ogStream,        \* the commands on their way to the slave
          ogLinked,        \* the slave has had the master's data since it started or changed sides
          ogDump,          \* what the last save of each server holds, [vc, off]
          highest,         \* ghost: the largest own clock a write was stamped with since the last FLUSHALL,
                           \* those stamped by a server that was bypassed left out
          bypassed,        \* ghost: the servers whose clock changed behind the back of the copy
          stamped,         \* ghost: the last write, [vcu, before, exempt]
          ogWrites, ogSteps

ogVars == <<og, ogMaster, ogStream, ogLinked, ogDump, highest, bypassed, stamped, ogWrites, ogSteps>>

OgServers == {1, 2}

OgSlave == 3 - ogMaster

Filtered(sv) == [g \in DOMAIN sv.vc \ sv.off |-> sv.vc[g]]

\* initServer: the own gid at zero, no copy.
Fresh(off) == [vc |-> [g \in {OwnGid} |-> 0], cache |-> NullVectorClock, off |-> off]

GidsInit ==
    /\ og = [x \in OgServers |-> Fresh({})]
    /\ ogMaster = 1 /\ ogStream = << >> /\ ogLinked = TRUE
    /\ ogDump = [x \in OgServers |-> [vc |-> Fresh({}).vc, off |-> {}]]
    /\ highest = 0 /\ bypassed = {}
    /\ stamped = [vcu |-> 1, before |-> 0, exempt |-> FALSE]
    /\ ogWrites = 0 /\ ogSteps = 0

initVectorClockCache(sv) == [sv EXCEPT !.cache = Filtered(sv)]

\* The set there is already is not looked at again.
setOfflinePeerSet(sv, gids) ==
    IF gids = sv.off THEN sv
    ELSE IF gids = {} THEN [sv EXCEPT !.off = {}, !.cache = NullVectorClock]
    ELSE initVectorClockCache([sv EXCEPT !.off = gids])

incrLocalVcUnit(sv, delta) ==
    [sv EXCEPT !.vc = incrLogicClock(@, OwnGid, delta),
               !.cache = IF isNullVectorClock(@) THEN @ ELSE incrLogicClock(@, OwnGid, delta)]

RM_MergeVectorClock(sv, gid, vc) ==
    [sv EXCEPT !.vc = updateProcessVectorClock(@, vc, gid, OwnGid),
               !.cache = IF isNullVectorClock(@) THEN @ ELSE updateProcessVectorClock(@, vc, gid, OwnGid)]

\* RM_CurrentVectorClock makes the copy that is missing.
Current(sv) ==
    IF sv.off = {} THEN [sv EXCEPT !.cache = NullVectorClock]
    ELSE IF isNullVectorClock(sv.cache) THEN initVectorClockCache(sv)
    ELSE sv

RM_CurrentVectorClock(sv) == IF sv.off = {} THEN sv.vc ELSE Current(sv).cache

\* resetVectorClock.
Zeroed(vc) == [g \in DOMAIN vc |-> 0]

\* crdtMergeStartCommand and GidsMergeEnd touch the clock alone.
MergeStarted(sv, gid) ==
    IF gid \in DOMAIN sv.vc THEN sv ELSE [sv EXCEPT !.vc = addVectorClockUnit(@, gid, 0)]

MergeEnded(sv, gid, vcu) == [sv EXCEPT !.vc = mergeLogicClock(@, [g \in {gid} |-> vcu], gid)]

\* What a command of the master's stream does, on the master and the slave.
Executed(sv, cmd) ==
    CASE cmd.name = "offline" -> setOfflinePeerSet(sv, cmd.gids)
      [] cmd.name = "write"   -> RM_MergeVectorClock(sv, OwnGid, cmd.vc)
      [] cmd.name = "peer"    -> RM_MergeVectorClock(sv, cmd.gid, [g \in {cmd.gid} |-> cmd.vcu])
      [] cmd.name = "start"   -> MergeStarted(sv, cmd.gid)
      [] cmd.name = "end"     -> MergeEnded(sv, cmd.gid, cmd.vcu)
      [] cmd.name = "flush"   -> [sv EXCEPT !.vc = Zeroed(@)]

\* The commands that change the clock and not the copy, or that put an
\* offline gid into the copy.
BehindTheCopy(x, cmd) ==
    /\ ~isNullVectorClock(og[x].cache)
    /\ \/ cmd.name \in {"start", "end", "flush"}
       \/ cmd.name = "peer" /\ cmd.gid \in og[x].off
       \/ cmd.name = "write" /\ OwnGid \in og[x].off

\* The copy is made anew, or dropped, when the set changes.
Ghost(x, new, behind) ==
    IF isNullVectorClock(new.cache) \/ new.off # og[x].off THEN bypassed \ {x}
    ELSE IF behind THEN bypassed \cup {x} ELSE bypassed

Step == ogSteps < MaxOgSteps /\ ogSteps' = ogSteps + 1

\* A slave that is not linked will take all of the data.
Sent(cmd) == IF ogLinked THEN Append(ogStream, cmd) ELSE ogStream

\* Commands of the operator, of a peer and of a peer's full data, executed by
\* the master and sent on to the slave.
Command(cmd) ==
    LET new == Executed(og[ogMaster], cmd) IN
    /\ Step /\ Len(ogStream) < MaxOgStream
    /\ og' = [og EXCEPT ![ogMaster] = new]
    /\ bypassed' = Ghost(ogMaster, new, BehindTheCopy(ogMaster, cmd))
    /\ ogStream' = Sent(cmd)
    /\ highest' = IF cmd.name = "flush" THEN 0 ELSE highest
    /\ UNCHANGED <<ogMaster, ogLinked, ogDump, stamped, ogWrites>>

setOfflineGidCommand(gids) == Command([name |-> "offline", gids |-> gids])

PeerCommand(gid, vcu) == Command([name |-> "peer", gid |-> gid, vcu |-> vcu])

crdtMergeStartCommand(gid) == Command([name |-> "start", gid |-> gid])

\* CRDT.MERGE_END follows CRDT.MERGE_START.
GidsMergeEnd(gid, vcu) ==
    gid \in DOMAIN og[ogMaster].vc /\ Command([name |-> "end", gid |-> gid, vcu |-> vcu])

flushallCommand == Command([name |-> "flush"])

\* A client's write: the module moves the clock on and stamps the write.
Write ==
    LET x == ogMaster
        new == Current(incrLocalVcUnit(og[x], 1))
        vc == RM_CurrentVectorClock(new)
        vcu == get_vcu_from_vc(vc, OwnGid)
    IN
    /\ ogWrites < MaxOgWrites /\ ogWrites' = ogWrites + 1 /\ Len(ogStream) < MaxOgStream
    /\ og' = [og EXCEPT ![x] = new]
    /\ ogStream' = Sent([name |-> "write", vc |-> vc])
    /\ stamped' = [vcu |-> vcu, before |-> highest, exempt |-> x \in bypassed \/ OwnGid \in new.off]
    /\ highest' = IF stamped'.exempt THEN highest ELSE max(highest, vcu)
    /\ UNCHANGED <<ogMaster, ogLinked, ogDump, bypassed, ogSteps>>

SlaveExecutes ==
    /\ ogLinked /\ ogStream # << >>
    /\ LET cmd == Head(ogStream)
           new == Executed(og[OgSlave], cmd)
       IN /\ og' = [og EXCEPT ![OgSlave] = new]
          /\ bypassed' = Ghost(OgSlave, new, BehindTheCopy(OgSlave, cmd))
    /\ ogStream' = Tail(ogStream)
    /\ UNCHANGED <<ogMaster, ogLinked, ogDump, highest, stamped, ogWrites, ogSteps>>

\* rdbLoadCrdtInfoAuxFields: the clock of the file, which holds the own gid at
\* least, then its set.
Loaded(sv, file) ==
    setOfflinePeerSet([sv EXCEPT !.vc = IF OwnGid \in DOMAIN file.vc THEN file.vc
                                        ELSE addVectorClockUnit(file.vc, OwnGid, 0)],
                      file.off)

\* The slave takes all of the master's data.
FullSync ==
    LET new == Loaded(og[OgSlave], og[ogMaster]) IN
    /\ Step
    /\ og' = [og EXCEPT ![OgSlave] = new]
    /\ bypassed' = Ghost(OgSlave, new, TRUE)
    /\ ogStream' = << >> /\ ogLinked' = TRUE
    /\ UNCHANGED <<ogMaster, ogDump, highest, stamped, ogWrites>>

\* Seeded fault: the clock does not skip what was on its way.
Promote_NoJump ==
    /\ Step /\ ogLinked
    /\ og' = og
    /\ ogMaster' = OgSlave /\ ogStream' = << >> /\ ogLinked' = FALSE
    /\ UNCHANGED <<ogDump, highest, bypassed, stamped, ogWrites>>

\* SLAVEOF NO ONE: replicationUnsetMaster skips a day of writes.
Promote ==
    /\ Step /\ ogLinked
    /\ og' = [og EXCEPT ![OgSlave] = incrLocalVcUnit(@, Jump)]
    /\ ogMaster' = OgSlave /\ ogStream' = << >> /\ ogLinked' = FALSE
    /\ UNCHANGED <<ogDump, highest, bypassed, stamped, ogWrites>>

Save(x) ==
    /\ Step
    /\ ogDump' = [ogDump EXCEPT ![x] = [vc |-> og[x].vc, off |-> og[x].off]]
    /\ UNCHANGED <<og, ogMaster, ogStream, ogLinked, highest, bypassed, stamped, ogWrites>>

\* The slave starts again: the option of the configuration file, rewritten with
\* every change of the set, then the file of the last save.  (A master that
\* starts again with an old clock recovers it from its peers: SiteRecovery.)
Restart ==
    LET new == Loaded(Fresh(og[OgSlave].off), ogDump[OgSlave]) IN
    /\ Step
    /\ og' = [og EXCEPT ![OgSlave] = new]
    /\ bypassed' = bypassed \ {OgSlave}
    /\ ogStream' = << >> /\ ogLinked' = FALSE
    /\ UNCHANGED <<ogMaster, ogDump, highest, stamped, ogWrites>>

GidsNext ==
    \/ \E gids \in SUBSET (OtherGids \cup {OwnGid}) : setOfflineGidCommand(gids)
    \/ \E gid \in OtherGids, vcu \in 1..MaxVcu : PeerCommand(gid, vcu) \/ GidsMergeEnd(gid, vcu)
    \/ \E gid \in OtherGids : crdtMergeStartCommand(gid)
    \/ flushallCommand \/ Write \/ SlaveExecutes \/ FullSync \/ Promote \/ Restart
    \/ \E x \in OgServers : Save(x)

GidsSpec == GidsInit /\ [][GidsNext]_ogVars

-----------------------------------------------------------------------------
\* The copy is the clock without the offline gids, for a server whose clock was
\* not changed by code that leaves the copy alone since the copy was made
\* (initVectorClockCache, incrLocalVcUnit, RM_MergeVectorClock).
CopyFollowsClock ==
    \A x \in OgServers \ bypassed :
        isNullVectorClock(og[x].cache) \/ (og[x].off # {} /\ og[x].cache = Filtered(og[x]))

\* A write is stamped with an own clock that no earlier write of the site has,
\* over changes of the set and failovers that lose the last writes, where
\* the copy the stamp comes from was not bypassed.
StampsFresh == stamped.exempt \/ stamped.vcu > stamped.before
=============================================================================
