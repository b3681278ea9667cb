--------------------------- MODULE MemoryEviction ---------------------------
(***************************************************************************)
(* freeMemoryIfNeeded: what is dropped when the memory limit is passed.    *)
(* Tombstones go first, then keys by the policy.  Candidates are sampled   *)
(* into a pool that is kept from call to call, is shared by tombstones and *)
(* keys, and owns one buffer per slot for the names of its entries.        *)
(*                                                                         *)
(* Memory is counted in units: KeySize for a key, one for a tombstone.     *)
(* Each round samples at most one entry of each database, any one.  The    *)
(* score of a key (its idle time, the inverse of its frequency or of its   *)
(* time to live, by the policy) is given with the key.                     *)
(* (With lazy eviction the code would look at the memory again every 16    *)
(* keys, but it counts the keys of one round only and never does.)         *)
(***************************************************************************)
EXTENDS Integers, Sequences, FiniteSets, FiniteSetsExt

CONSTANTS EvKeys, EvDbs,
          EvGids, EvOwn,     \* the sites, and this one
          Policies, Idles,   \* maxmemory-policy, the idle times of keys
          EVPOOL_SIZE, KeySize, MaxMemory,
          Scale,             \* gid_idle_max
          MaxVcu, MaxCalls   \* bounds

NoName == 0

VARIABLES evkeys,   \* evkeys[d]: key -> [idle, vol], of the keys that are there
          evtombs,  \* evtombs[d]: key -> clock of the deletion
          evvc,     \* crdtServer.vectorClock
          evpool,   \* slots: [name, idle, db, buf]
          bufs,     \* bufs[b]: the name in buffer b
          nextdb, policy,
          ev,       \* the call: [pc, overhead, tofree, freed, peer, result]
          last,     \* the last thing dropped: "tomb", "key", or "none"
          calls

evVars == <<evkeys, evtombs, evvc, evpool, bufs, nextdb, policy, ev, last, calls>>

Slots == 1..EVPOOL_SIZE
NoCall == [pc |-> "idle", overhead |-> 0, tofree |-> 0, freed |-> 0, peer |-> FALSE, result |-> "none"]
NoDrop == "none"

Init ==
    /\ evkeys = [d \in EvDbs |-> <<>>] /\ evtombs = [d \in EvDbs |-> <<>>]
    /\ evvc = [g \in EvGids |-> 0]
    /\ evpool = [i \in Slots |-> [name |-> NoName, idle |-> 0, db |-> 0, buf |-> i]]
    /\ bufs = [i \in Slots |-> NoName]
    /\ nextdb = 0 /\ policy \in Policies
    /\ ev = NoCall /\ last = NoDrop /\ calls = 0

Total(f) == MapThenSumSet(LAMBDA d : Cardinality(DOMAIN f[d]), EvDbs)
zmalloc_used_memory == KeySize * Total(evkeys) + Total(evtombs)

With(f, k, v) == [x \in DOMAIN f \cup {k} |-> IF x = k THEN v ELSE f[x]]
Without(f, k) == [x \in DOMAIN f \ {k} |-> f[x]]

-----------------------------------------------------------------------------
(* Commands between the calls: a write, a deletion, one of a peer. *)

Set(d, k, idle, vol) ==
    /\ ev.pc = "idle" /\ k \notin DOMAIN evkeys[d] /\ evvc[EvOwn] < MaxVcu
    /\ evkeys' = [evkeys EXCEPT ![d] = With(@, k, [idle |-> idle, vol |-> vol])]
    /\ evtombs' = [evtombs EXCEPT ![d] = Without(@, k)]
    /\ evvc' = [evvc EXCEPT ![EvOwn] = @ + 1]
    /\ last' = NoDrop /\ ev' = NoCall
    /\ UNCHANGED <<evpool, bufs, nextdb, policy, calls>>

Del(d, k, g) ==
    /\ ev.pc = "idle" /\ k \in DOMAIN evkeys[d] /\ evvc[g] < MaxVcu
    /\ evkeys' = [evkeys EXCEPT ![d] = Without(@, k)]
    /\ evvc' = [evvc EXCEPT ![g] = @ + 1]
    /\ evtombs' = [evtombs EXCEPT ![d] = With(@, k, [evvc EXCEPT ![g] = @ + 1])]
    /\ last' = NoDrop /\ ev' = NoCall
    /\ UNCHANGED <<evpool, bufs, nextdb, policy, calls>>

-----------------------------------------------------------------------------
(* The pool. *)

\* The score of a tombstone: the nearer its clock to the present, the higher.
tombstoneGetIdle(vc) ==
    1 + MapThenSumSet(LAMBDA g : (Scale * (IF g = EvOwn THEN Cardinality(EvGids) ELSE 1))
                                     \div (IF evvc[g] - vc[g] > 0 THEN evvc[g] - vc[g] + 1 ELSE 1),
                      EvGids)

\* Seeded fault: the slot that is shifted over keeps no buffer of its own.
Insert_Buffer(pool, names, d, name, idle) ==
    LET k == Min({i \in Slots : pool[i].name = NoName \/ pool[i].idle >= idle} \cup {EVPOOL_SIZE + 1})
        full == pool[EVPOOL_SIZE].name # NoName
        at == IF full THEN k - 1 ELSE k
        moved == IF k <= EVPOOL_SIZE /\ pool[k].name = NoName THEN pool
                 ELSE IF ~full THEN [i \in Slots |-> IF i > k THEN pool[i - 1] ELSE pool[i]]
                 ELSE [i \in Slots |-> IF i < at THEN pool[i + 1] ELSE pool[i]]
    IN IF k = 1 /\ full THEN [pool |-> pool, bufs |-> names]
       ELSE [pool |-> [moved EXCEPT ![at] = [name |-> name, idle |-> idle, db |-> d, buf |-> @.buf]],
             bufs |-> [names EXCEPT ![moved[at].buf] = name]]

\* One sample enters the pool: into the first free slot, or before the first
\* entry that is not smaller; to the right while there is room, else the
\* smallest goes.  The buffer of the slot that is lost is used for the entry.
Insert(pool, names, d, name, idle) ==
    LET k == Min({i \in Slots : pool[i].name = NoName \/ pool[i].idle >= idle} \cup {EVPOOL_SIZE + 1})
        full == pool[EVPOOL_SIZE].name # NoName
        at == IF full THEN k - 1 ELSE k
        free == k <= EVPOOL_SIZE /\ pool[k].name = NoName
        cached == IF free THEN pool[k].buf ELSE IF full THEN pool[1].buf ELSE pool[EVPOOL_SIZE].buf
        moved == IF free THEN pool
                 ELSE IF ~full THEN [i \in Slots |-> IF i > k THEN pool[i - 1] ELSE pool[i]]
                 ELSE [i \in Slots |-> IF i < at THEN pool[i + 1] ELSE pool[i]]
    IN IF k = 1 /\ full THEN [pool |-> pool, bufs |-> names]
       ELSE [pool |-> [moved EXCEPT ![at] = [name |-> name, idle |-> idle, db |-> d, buf |-> cached]],
             bufs |-> [names EXCEPT ![cached] = name]]

\* evictionPoolPopulate and evictionTombstonePoolPopulate, a database after
\* the other; pick[d] is the sample.
RECURSIVE Populate(_, _, _, _)
Populate(p, pick, what, n) ==
    IF n \notin EvDbs THEN p
    ELSE LET name == pick[n]
             idle == IF what = "tombs" THEN tombstoneGetIdle(evtombs[n][name]) ELSE evkeys[n][name].idle
             q == IF name = NoName THEN p ELSE Insert(p.pool, p.bufs, n, name, idle)
         IN Populate(q, pick, what, n + 1)

Candidates(what, d) ==
    IF what = "tombs" THEN DOMAIN evtombs[d]
    ELSE IF policy \in {"allkeys-lru", "allkeys-random"} THEN DOMAIN evkeys[d]
    ELSE {k \in DOMAIN evkeys[d] : evkeys[d][k].vol}

Picks(what) == {f \in [EvDbs -> EvKeys \cup {NoName}] :
                    \A d \in EvDbs : f[d] \in Candidates(what, d) \cup {NoName}}

\* From the best entry backwards: entries are taken out until one is still
\* there.  Names are read from the buffers.
Scanned(p, what) ==
    LET Name(i) == p.bufs[p.pool[i].buf]
        hits == {i \in Slots : p.pool[i].name # NoName /\ Name(i) \in Candidates(what, p.pool[i].db)}
        hit == IF hits = {} THEN 0 ELSE Max(hits)
    IN [hit |-> hit, name |-> IF hit = 0 THEN NoName ELSE Name(hit),
        db |-> IF hit = 0 THEN 0 ELSE p.pool[hit].db,
        pool |-> [i \in Slots |-> IF i >= hit /\ p.pool[i].name # NoName
                                  THEN [p.pool[i] EXCEPT !.name = NoName, !.idle = 0] ELSE p.pool[i]]]

-----------------------------------------------------------------------------
(* freeMemoryIfNeeded, a round of a loop at a time. *)

\* freeMemoryGetNotCountedMemory: the buffers of slaves, peers and the AOF.
NotCounted == {0, 1}

Ends(result) == [NoCall EXCEPT !.result = result, !.overhead = ev.overhead]

\* A command arrives, of a peer or not; the buffers of slaves do not count.
freeMemoryIfNeeded(peer, overhead) ==
    /\ ev.pc = "idle" /\ calls < MaxCalls /\ calls' = calls + 1
    /\ LET used == zmalloc_used_memory - overhead
       IN /\ used > MaxMemory
          /\ ev' = IF policy = "noeviction" THEN Ends("err")
                   ELSE [pc |-> "tombs", overhead |-> overhead, tofree |-> used - MaxMemory,
                         freed |-> 0, peer |-> peer, result |-> "none"]
    /\ last' = NoDrop
    /\ UNCHANGED <<evkeys, evtombs, evvc, evpool, bufs, nextdb, policy>>

TombstonesLeft == Total(evtombs) # 0

FreeTombstone ==
    /\ ev.pc = "tombs"
    /\ IF ev.freed >= ev.tofree
       THEN /\ ev' = Ends("ok") /\ last' = NoDrop
            /\ UNCHANGED <<evtombs, evpool, bufs>>
       ELSE IF ~TombstonesLeft
       THEN /\ ev' = [ev EXCEPT !.pc = "keys"] /\ last' = NoDrop
            /\ UNCHANGED <<evtombs, evpool, bufs>>
       ELSE \E pick \in Picks("tombs") :
               LET p == Populate([pool |-> evpool, bufs |-> bufs], pick, "tombs", 0)
                   s == Scanned(p, "tombs")
               IN /\ evpool' = s.pool /\ bufs' = p.bufs
                  /\ IF s.hit = 0 THEN UNCHANGED <<evtombs, ev>> /\ last' = NoDrop
                     ELSE /\ evtombs' = [evtombs EXCEPT ![s.db] = Without(@, s.name)]
                          /\ ev' = [ev EXCEPT !.freed = @ + 1]
                          /\ last' = "tomb"
    /\ UNCHANGED <<evkeys, evvc, nextdb, policy, calls>>

\* crdtPropagateExpire leaves a tombstone, which is announced as evicted and
\* dropped with the key; the memory of both counts as freed.
Evicted(d, k) ==
    /\ evkeys' = [evkeys EXCEPT ![d] = Without(@, k)]
    /\ UNCHANGED evtombs
    /\ ev' = [ev EXCEPT !.freed = @ + KeySize + 1]
    /\ last' = "key"

\* A key is not evicted while a peer's command runs: the call gives up.
FreeKey ==
    /\ ev.pc = "keys"
    /\ IF ev.freed >= ev.tofree
       THEN ev' = Ends("ok") /\ last' = NoDrop /\ UNCHANGED <<evkeys, evtombs, evpool, bufs, nextdb>>
       ELSE IF \A d \in EvDbs : Candidates("keys", d) = {}
       THEN /\ ev' = Ends("err") /\ last' = NoDrop
            /\ nextdb' = nextdb
            /\ UNCHANGED <<evkeys, evtombs, evpool, bufs>>
       ELSE IF policy \in {"allkeys-random", "volatile-random"}
       THEN LET Turn(i) == (nextdb + i) % Cardinality(EvDbs)
                i == Min({j \in 1..Cardinality(EvDbs) : Candidates("keys", Turn(j)) # {}})
            IN /\ nextdb' = Turn(i)
               /\ IF ev.peer THEN ev' = Ends("err") /\ last' = NoDrop /\ UNCHANGED <<evkeys, evtombs>>
                  ELSE \E k \in Candidates("keys", Turn(i)) : Evicted(Turn(i), k)
               /\ UNCHANGED <<evpool, bufs>>
       ELSE \E pick \in Picks("keys") :
               LET p == Populate([pool |-> evpool, bufs |-> bufs], pick, "keys", 0)
                   s == Scanned(p, "keys")
               IN /\ evpool' = s.pool /\ bufs' = p.bufs
                  /\ IF s.hit = 0 THEN last' = NoDrop /\ UNCHANGED <<evkeys, evtombs, ev>>
                     ELSE IF ev.peer THEN ev' = Ends("err") /\ last' = NoDrop /\ UNCHANGED <<evkeys, evtombs>>
                     ELSE Evicted(s.db, s.name)
                  /\ nextdb' = nextdb
    /\ UNCHANGED <<evvc, policy, calls>>

Next ==
    \/ \E d \in EvDbs, k \in EvKeys :
           \/ \E idle \in Idles, vol \in BOOLEAN : Set(d, k, idle, vol)
           \/ \E g \in EvGids : Del(d, k, g)
    \/ \E peer \in BOOLEAN, overhead \in NotCounted : freeMemoryIfNeeded(peer, overhead)
    \/ FreeTombstone \/ FreeKey

Spec == Init /\ [][Next]_evVars

-----------------------------------------------------------------------------
(* Properties. *)

\* The pool across calls, samples of both kinds and ghosts: its entries are
\* the first slots, in ascending order of their scores; no two slots share a
\* buffer, and an entry's buffer holds the name that was sampled.
PoolSound ==
    /\ \A i, j \in Slots : i < j /\ evpool[j].name # NoName =>
           evpool[i].name # NoName /\ evpool[i].idle <= evpool[j].idle
    /\ \A i, j \in Slots : i # j => evpool[i].buf # evpool[j].buf
    /\ \A i \in Slots : evpool[i].name # NoName => bufs[evpool[i].buf] = evpool[i].name

\* Keys go only when no database has a tombstone (the assertion that the new
\* tombstone is the only one), and never inside a command of a peer.
KeysAfterTombstones ==
    last = "key" => Total(evtombs) = 0 /\ ~ev.peer
=============================================================================
