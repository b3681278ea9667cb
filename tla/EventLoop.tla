------------------------------ MODULE EventLoop -----------------------------
(***************************************************************************)
(* The event loop of ae.c: the events of files and those of time.          *)
(***************************************************************************)
EXTENDS Integers, Sequences, FiniteSets, FiniteSetsExt, SequencesExt

-----------------------------------------------------------------------------
(***************************************************************************)
(* File events of the event loop (ae.c on ae_epoll.c): the table of        *)
(* handlers per descriptor, the kernel's interest set, and the dispatch of *)
(* a batch of fired events.  A handler of the batch may close its own      *)
(* connection or another one, accept a connection, which gets the lowest   *)
(* free descriptor, add and remove handlers, have the table enlarged       *)
(* (CONFIG SET maxclients), which may move it, or serve events itself      *)
(* while it loads data (processEventsWhileBlocked), which overwrites the   *)
(* batch.  A dispatch takes its entry once per event: when the table moves *)
(* under it, it goes on with the freed one.                                *)
(*                                                                         *)
(* A connection is a number that is never used again; connection 1 is the  *)
(* listening socket, on descriptor 0.                                      *)
(***************************************************************************)

CONSTANTS MaxFd,            \* bound: descriptors are 0..MaxFd
          InitialSet,       \* aeCreateEventLoop's setsize
          MaxAccepted,      \* bound
          MaxNested,        \* bound: loads that serve events
          MaxReady          \* bound: times a connection becomes readable

VARIABLES events,           \* events[fd]: [mask, conn, same] the table's entry: conn is the clientData,
                            \* same tells that one handler reads and writes (syncWithMaster)
          setsize, maxfd,
          epoll,            \* epoll[fd]: what the kernel watches, {} for a descriptor it does not know
          opened,           \* opened[fd]: the connection open on it, 0 for none
          readable,         \* the connections with data; all are writable
          fired,            \* fired[i]: [fd, mask]
          batches,          \* a stack of [j, n, half, fd, mask, rfired, fe]: the dispatches going on;
                            \* fe is what a freed entry last held, or InTable
          called,           \* ghost: the last handler called was that of the connection open on its
                            \* descriptor ("live"), of another ("dead"), or of a freed entry ("freed")
          nextConn, nested, readied

feVars == <<events, setsize, maxfd, epoll, opened, readable, fired, batches, called, nextConn, nested, readied>>

Fds == 0..MaxFd

NoFired == [fd |-> 0, mask |-> {}]

FileInit ==
    /\ setsize = InitialSet
    /\ events = [fd \in Fds |-> IF fd = 0 THEN [mask |-> {"r"}, conn |-> 1, same |-> FALSE]
                                ELSE [mask |-> {}, conn |-> 0, same |-> FALSE]]
    /\ maxfd = 0
    /\ epoll = [fd \in Fds |-> IF fd = 0 THEN {"r"} ELSE {}]
    /\ opened = [fd \in Fds |-> IF fd = 0 THEN 1 ELSE 0]
    /\ readable = {} /\ fired = [i \in 1..(MaxFd + 1) |-> NoFired] /\ batches = << >>
    /\ called = "live"
    /\ nextConn = 2 /\ nested = 0 /\ readied = 0

\* Every state change of the table goes through these; a table is the record of
\* the variables a handler can change.
Table == [events |-> events, setsize |-> setsize, maxfd |-> maxfd, epoll |-> epoll, opened |-> opened,
          readable |-> readable, nextConn |-> nextConn, moved |-> FALSE]

\* epoll_ctl ADD and MOD: all that the table has for the descriptor and the
\* new events.  MOD of a descriptor the kernel does not know fails, and so
\* does ADD of one it knows.
aeApiAddEvent(t, fd, mask) ==
    [t EXCEPT !.epoll[fd] = IF (t.events[fd].mask = {}) = (@ = {}) THEN t.events[fd].mask \cup mask ELSE @]

aeApiDelEvent(t, fd, delmask) == [t EXCEPT !.epoll[fd] = t.events[fd].mask \ delmask]

Highest(fds) == IF fds = {} THEN -1 ELSE Max(fds)

aeCreateFileEvent(t, fd, mask, conn) ==
    LET k == aeApiAddEvent(t, fd, mask) IN
    [k EXCEPT !.events[fd] = [mask |-> t.events[fd].mask \cup mask, conn |-> conn,
                                   same |-> mask = {"r", "w"}],
              !.maxfd = Max({@, fd})]

aeDeleteFileEvent(t, fd, mask) ==
    IF t.events[fd].mask = {} THEN t
    ELSE LET k == aeApiDelEvent(t, fd, mask)
             left == t.events[fd].mask \ mask
         IN [k EXCEPT !.events[fd].mask = left,
                      !.maxfd = IF fd = t.maxfd /\ left = {}
                                THEN Highest({f \in Fds : f < fd /\ t.events[f].mask # {}})
                                ELSE @]

\* unlinkClient: the handlers, then the socket; closing it makes the kernel
\* forget it.
unlinkClient(t, fd) ==
    LET d == aeDeleteFileEvent(aeDeleteFileEvent(t, fd, {"r"}), fd, {"w"}) IN
    [d EXCEPT !.opened[fd] = 0, !.epoll[fd] = {}, !.readable = @ \ {t.opened[fd]}]

FreeFds(t) == {fd \in Fds : t.opened[fd] = 0}

\* A connection opened by accept or connect, which take the lowest free
\* descriptor; createClient closes it when the table has no room for it.
Opened(t, mask) ==
    LET fd == Min(FreeFds(t))
        o == [t EXCEPT !.opened[fd] = t.nextConn, !.nextConn = @ + 1]
    IN IF fd >= t.setsize THEN [o EXCEPT !.opened[fd] = 0] ELSE aeCreateFileEvent(o, fd, mask, t.nextConn)

CanOpen(t) == FreeFds(t) # {} /\ t.nextConn - 2 < MaxAccepted

\* aeResizeSetSize, for more clients: realloc leaves the table in place or moves
\* it and frees the old one.
Grown(t) ==
    {[t EXCEPT !.setsize = MaxFd + 1, !.moved = m] : m \in IF t.setsize = MaxFd + 1 THEN {FALSE} ELSE BOOLEAN}

\* What the handler of connection c may do: accept; read and answer, which may
\* need a write handler; write the rest; close the connection or another one.
Effects(t, fd, half) ==
    IF fd = 0
    THEN IF CanOpen(t) THEN {[Opened(t, {"r"}) EXCEPT !.readable = @ \ {1}]} ELSE {t}
    ELSE LET c == t.opened[fd]
             read == [t EXCEPT !.readable = @ \ {c}]
             others == {f \in Fds \ {0} : t.opened[f] # 0}
         IN IF half = "w" THEN {t, aeDeleteFileEvent(t, fd, {"w"})} \cup {unlinkClient(t, fd)}
            ELSE {read, aeCreateFileEvent(read, fd, {"w"}, c)} \cup Grown(read)
                 \cup {unlinkClient(read, f) : f \in others}

Becomes(t) ==
    /\ events' = t.events /\ setsize' = t.setsize /\ maxfd' = t.maxfd /\ epoll' = t.epoll
    /\ opened' = t.opened /\ readable' = t.readable /\ nextConn' = t.nextConn

\* aeApiPoll: what is ready of what the kernel watches; an error counts as
\* writable whether that is watched or not.
ReadyMask(fd) == epoll[fd] \cap ({"w"} \cup IF opened[fd] \in readable THEN {"r"} ELSE {})

InTable == [mask |-> {}, conn |-> -1, same |-> FALSE]

\* A batch of all that is ready, in any order, on top of the dispatches "under".
Polled(under) ==
    \E broken \in {fd \in Fds : epoll[fd] # {}} :
    LET mask(fd) == ReadyMask(fd) \cup IF broken = fd /\ fd # 0 THEN {"w"} ELSE {}
        fds == {fd \in Fds : mask(fd) # {}}
        n == Cardinality(fds)
    IN /\ n > 0
       /\ \E order \in {o \in [1..n -> fds] : \A i, k \in 1..n : i # k => o[i] # o[k]} :
            fired' = [i \in DOMAIN fired |->
                        IF i <= n THEN [fd |-> order[i], mask |-> mask(order[i])]
                        ELSE fired[i]]
       /\ batches' = Append(under, [j |-> 0, n |-> n, half |-> "next", fd |-> 0, mask |-> {}, rfired |-> FALSE,
                                   fe |-> InTable])

\* aeProcessEvents from aeMain.
Poll ==
    /\ batches = << >> /\ Polled(<< >>)
    /\ UNCHANGED <<events, setsize, maxfd, epoll, opened, readable, called, nextConn, nested, readied>>

Top == batches[Len(batches)]

WithTop(f) == [batches EXCEPT ![Len(batches)] = f]

\* The entry that fe points to, or what it held when the table moved away.
Entry(f) == IF f.fe = InTable THEN events[f.fd] ELSE f.fe

\* The dispatches that go on after a handler, whose entries it may have freed.
Dangling(bs, t) ==
    IF t.moved
    THEN [i \in DOMAIN bs |-> IF bs[i].half = "w" THEN [bs[i] EXCEPT !.fe = t.events[bs[i].fd]] ELSE bs[i]]
    ELSE bs

\* The next event of the batch, read from an array that a nested dispatch may
\* have overwritten.
NextEvent ==
    /\ batches # << >> /\ Top.half = "next" /\ Top.j < Top.n
    /\ LET e == fired[Top.j + 1] IN
       batches' = WithTop([Top EXCEPT !.j = @ + 1, !.half = "r", !.fd = e.fd, !.mask = e.mask,
                                      !.rfired = FALSE, !.fe = InTable])
    /\ UNCHANGED <<events, setsize, maxfd, epoll, opened, readable, fired, called, nextConn, nested, readied>>

BatchEnds ==
    /\ batches # << >> /\ Top.half = "next" /\ Top.j = Top.n
    /\ batches' = SubSeq(batches, 1, Len(batches) - 1)
    /\ UNCHANGED <<events, setsize, maxfd, epoll, opened, readable, fired, called, nextConn, nested, readied>>

\* Seeded fault: the event is taken as it fired.
Valid_Fired(f, half) == half \in f.mask

\* "maybe an already processed event removed an element that fired and we still
\* didn't processed, so we check if the event is still valid"; one handler for
\* both halves is called once.
Valid(f, half) ==
    /\ half \in Entry(f).mask \cap f.mask
    /\ ~(half = "w" /\ f.rfired /\ Entry(f).same)

Call(f) ==
    called' = IF f.fe # InTable THEN "freed"
              ELSE IF opened[f.fd] # 0 /\ events[f.fd].conn = opened[f.fd] THEN "live" ELSE "dead"

\* The readable half, then the writable half of an event.  A freed entry holds
\* what it held or anything else, an empty mask for one.
Dispatch(half, after) ==
    LET done == WithTop([Top EXCEPT !.half = after, !.fe = InTable]) IN
    /\ batches # << >> /\ Top.half = half
    /\ \/ /\ Valid(Top, half)
          /\ Call(Top)
          /\ \E t \in Effects(Table, Top.fd, half) :
                /\ Becomes(t)
                /\ batches' = Dangling([done EXCEPT ![Len(batches)].rfired = TRUE], t)
       \/ /\ ~Valid(Top, half) \/ Top.fe # InTable
          /\ batches' = done
          /\ UNCHANGED <<events, setsize, maxfd, epoll, opened, readable, called, nextConn>>
    /\ UNCHANGED <<fired, nested, readied>>

Readable == Dispatch("r", "w")

Writable == Dispatch("w", "next")

\* The handler that reads the last of a full synchronization loads it, and
\* serves events meanwhile.
processEventsWhileBlocked ==
    /\ Len(batches) = 1 /\ Top.half = "r" /\ Top.fd # 0 /\ Valid(Top, "r") /\ nested < MaxNested
    /\ nested' = nested + 1
    /\ Call(Top)
    /\ Polled(WithTop([Top EXCEPT !.half = "w", !.rfired = TRUE]))
    /\ UNCHANGED <<events, setsize, maxfd, epoll, opened, readable, nextConn, readied>>

\* connectWithMaster, from the cron: a connection that is both read and written
\* by one handler.
Connect ==
    /\ batches = << >> /\ CanOpen(Table)
    /\ Becomes(Opened(Table, {"r", "w"}))
    /\ UNCHANGED <<fired, batches, called, nested, readied>>

\* The network.
DataArrives ==
    /\ readied < MaxReady /\ readied' = readied + 1
    /\ \E fd \in Fds : opened[fd] # 0 /\ opened[fd] \notin readable /\ readable' = readable \cup {opened[fd]}
    /\ UNCHANGED <<events, setsize, maxfd, epoll, opened, fired, batches, called, nextConn, nested>>

FileNext ==
    \/ Poll \/ NextEvent \/ BatchEnds \/ Readable \/ Writable \/ processEventsWhileBlocked
    \/ Connect \/ DataArrives

FileSpec == FileInit /\ [][FileNext]_feVars

-----------------------------------------------------------------------------
\* A handler is called only while its connection is open and the handler is
\* still that connection's, whatever the handlers before it in the batch, or
\* in a batch served while data was loading, closed and opened.  Left out is
\* the writable half of an event during whose readable half the table moved
\* (aeResizeSetSize): fe, taken before, points to freed memory (ae.c:411, 423).
CallsLive == called # "dead"

\* The kernel watches each descriptor for exactly the events the table has
\* handlers for, so no event is missed and none fires without a handler.
KernelAgrees == \A fd \in Fds : epoll[fd] = events[fd].mask /\ (opened[fd] = 0 => epoll[fd] = {})

\* maxfd is the highest descriptor with a handler, which decides whether the
\* loop polls at all and whether the table may shrink.
MaxfdExact == maxfd = Highest({fd \in Fds : events[fd].mask # {}})

-----------------------------------------------------------------------------
(***************************************************************************)
(* Time events of the event loop (ae.c): an unsorted list of timers, the   *)
(* sleep until the nearest one, and the pass over the list that fires what *)
(* is due while its callbacks create and delete timers and the system      *)
(* clock moves on, or back.                                                *)
(***************************************************************************)

CONSTANTS Intervals,        \* the milliseconds a timer is set to
          Second,           \* milliseconds of a second, 1000 in the code
          MaxTicks, MaxTimers, MaxBack   \* bounds

VARIABLES timers,           \* the list: [uid, id, when, due, live]; uid stands for its address, due and live are ghosts
          timeEventNextId,
          lastTime,         \* in seconds
          tick,             \* the system clock, in milliseconds
          pass,             \* "asleep", "awake" or the pass [te, prev, maxId] over the list
          wake,             \* milliseconds left to sleep
          behind,           \* ghost: the clock was set back and no pass has noticed since
          early,            \* ghost: a timer fired before its time, or after it was deleted
          finalized,        \* ghost: the timers whose finalizer ran, with repetitions as "twice"
          turned            \* how often the clock was set back

teVars == <<timers, timeEventNextId, lastTime, tick, pass, wake, behind, early, finalized, turned>>

AE_DELETED_EVENT_ID == -1

Deleted(t) == t.id = AE_DELETED_EVENT_ID

NoPass(name) == [at |-> name, te |-> 0, prev |-> 0, maxId |-> 0]

\* aeAddMillisecondsToNow, with seconds and milliseconds as one number.
FromNow(ms) == tick + ms

\* initServer: serverCron, due in a millisecond.
TimeInit ==
    /\ timers = <<[uid |-> 1, id |-> 0, when |-> 1, due |-> 1, live |-> TRUE]>>
    /\ timeEventNextId = 1 /\ lastTime = 0 /\ tick = 0
    /\ pass = NoPass("awake") /\ wake = 0
    /\ behind = FALSE /\ early = FALSE /\ finalized = {} /\ turned = 0

At(uid) == CHOOSE i \in DOMAIN timers : timers[i].uid = uid

\* The element after the i-th, as its address.
After(l, i) == IF i < Len(l) THEN l[i + 1].uid ELSE 0

aeSearchNearestTimer == CHOOSE t \in ToSet(timers) : \A u \in ToSet(timers) : t.when <= u.when

\* aeProcessEvents: the poll waits for the nearest timer.  serverCron never
\* goes, so there is one.
Sleep ==
    /\ pass.at = "awake"
    /\ pass' = NoPass("asleep")
    /\ wake' = LET ms == aeSearchNearestTimer.when - tick IN IF ms > 0 THEN ms ELSE 0
    /\ UNCHANGED <<timers, timeEventNextId, lastTime, tick, behind, early, finalized, turned>>

\* The clock; the sleep ends no later than asked for.
Tick ==
    /\ tick < MaxTicks /\ tick' = tick + 1
    /\ pass.at = "asleep" => wake > 0
    /\ wake' = IF pass.at = "asleep" THEN wake - 1 ELSE wake
    /\ UNCHANGED <<timers, timeEventNextId, lastTime, pass, behind, early, finalized, turned>>

SetBack ==
    /\ turned < MaxBack /\ turned' = turned + 1
    /\ \E t \in 0..(tick - 1) : tick' = t
    /\ behind' = TRUE
    /\ UNCHANGED <<timers, timeEventNextId, lastTime, pass, wake, early, finalized>>

\* A clock that went back makes all timers due: their second becomes zero.
Noticed ==
    IF tick \div Second < lastTime
    THEN [i \in DOMAIN timers |-> [timers[i] EXCEPT !.when = @ % Second, !.due = @ % Second]]
    ELSE timers

\* The poll returns, with file events or because its time is over, and
\* processTimeEvents starts.
Wake ==
    /\ pass.at = "asleep"
    /\ timers' = Noticed
    /\ lastTime' = tick \div Second
    /\ pass' = [at |-> "pass", te |-> timers[1].uid, prev |-> 0, maxId |-> timeEventNextId - 1]
    /\ behind' = (behind /\ tick \div Second >= lastTime)
    /\ UNCHANGED <<timeEventNextId, tick, wake, early, finalized, turned>>

\* Out of the list: the head moves on when there is no element before it.
Removed(i) ==
    IF pass.prev = 0 THEN SubSeq(timers, i + 1, Len(timers))
    ELSE SubSeq(timers, 1, At(pass.prev)) \o SubSeq(timers, i + 1, Len(timers))

Unlink ==
    /\ pass.at = "pass" /\ pass.te # 0 /\ Deleted(timers[At(pass.te)])
    /\ LET i == At(pass.te) IN
       /\ timers' = Removed(i)
       /\ pass' = [pass EXCEPT !.te = After(timers, i)]
       /\ finalized' = finalized \cup {IF timers[i].uid \in finalized THEN 0 ELSE timers[i].uid}
    /\ UNCHANGED <<timeEventNextId, lastTime, tick, wake, behind, early, turned>>

\* aeCreateTimeEvent: at the head.
Created(l, ms) ==
    <<[uid |-> timeEventNextId + 1, id |-> timeEventNextId, when |-> FromNow(ms), due |-> FromNow(ms),
       live |-> TRUE]>> \o l

aeDeleteTimeEvent(l, id) ==
    IF \E i \in DOMAIN l : l[i].id = id
    THEN LET i == CHOOSE j \in DOMAIN l : l[j].id = id
         IN [l EXCEPT ![i] = [@ EXCEPT !.id = AE_DELETED_EVENT_ID, !.live = FALSE]]
    ELSE l

Due(t) == tick >= t.when

\* What the callback returned: the milliseconds to the next time, or AE_NOMORE
\* (-1), which deletes the timer.
Again(l, uid, ms) ==
    LET i == CHOOSE j \in DOMAIN l : l[j].uid = uid IN
    IF ms = -1 THEN [l EXCEPT ![i] = [@ EXCEPT !.id = AE_DELETED_EVENT_ID, !.live = FALSE]]
    ELSE [l EXCEPT ![i] = [@ EXCEPT !.when = FromNow(ms), !.due = FromNow(ms)]]

\* The timer is called when due; it creates at most one timer and deletes at
\* most one, itself included.  serverCron (id 0) stays and returns 1000/hz.
Visit ==
    /\ pass.at = "pass" /\ pass.te # 0 /\ ~Deleted(timers[At(pass.te)])
    /\ LET i == At(pass.te)
           t == timers[i]
           goOn == pass' = [pass EXCEPT !.prev = pass.te, !.te = After(timers, i)]
       IN IF t.id > pass.maxId
          THEN /\ pass' = [pass EXCEPT !.te = After(timers, i)]
               /\ UNCHANGED <<timers, timeEventNextId, early>>
          ELSE IF ~Due(t) THEN goOn /\ UNCHANGED <<timers, timeEventNextId, early>>
          ELSE \E new \in Intervals \cup {0}, gone \in (1..MaxTimers) \cup {-2}, again \in Intervals \cup {-1} :
               /\ t.id = 0 => again # -1
               /\ new # 0 => timeEventNextId < MaxTimers
               /\ timers' = Again(aeDeleteTimeEvent(IF new # 0 THEN Created(timers, new) ELSE timers, gone),
                                  t.uid, again)
               /\ timeEventNextId' = IF new # 0 THEN timeEventNextId + 1 ELSE timeEventNextId
               /\ early' = (early \/ ~t.live \/ tick < t.due)
               /\ goOn
    /\ UNCHANGED <<lastTime, tick, wake, behind, finalized, turned>>

PassEnds ==
    /\ pass.at = "pass" /\ pass.te = 0
    /\ pass' = NoPass("awake")
    /\ UNCHANGED <<timers, timeEventNextId, lastTime, tick, wake, behind, early, finalized, turned>>

TimeNext == Sleep \/ Tick \/ SetBack \/ Wake \/ Unlink \/ Visit \/ PassEnds

TimeSpec == TimeInit /\ [][TimeNext]_teVars

-----------------------------------------------------------------------------
\* Every timer that was created is in the list once until its finalizer runs,
\* which happens once, whatever the callbacks create and delete during the
\* pass (aeCreateTimeEvent, aeDeleteTimeEvent, processTimeEvents).
TimersKept ==
    /\ {timers[i].uid : i \in DOMAIN timers} = (1..timeEventNextId) \ finalized
    /\ Cardinality({timers[i].uid : i \in DOMAIN timers}) = Len(timers)
    /\ 0 \notin finalized

\* No timer fires before its time or after it was deleted, by itself or by
\* another.
FiresInTime == ~early

\* The loop never sleeps past the time of a timer, nor longer than a timer was
\* set to, once a pass over the list has noticed that the clock was set back
\* (its second is before that of the pass before).
SleepBounded ==
    pass.at = "asleep" /\ ~behind =>
        /\ \A i \in DOMAIN timers : timers[i].live => tick + wake <= timers[i].due \/ wake = 0
        /\ wake <= Max(Intervals)
=============================================================================
