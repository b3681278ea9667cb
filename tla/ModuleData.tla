----------------------------- MODULE ModuleData -----------------------------
(***************************************************************************)
(* The part of the module API (module.c) through which a module holds      *)
(* memory and reads and writes keys.                                       *)
(***************************************************************************)
EXTENDS Integers, Sequences, FiniteSets, SequencesExt, FiniteSetsExt

-----------------------------------------------------------------------------
(***************************************************************************)
(* The memory a module gets from the server while one of its callbacks     *)
(* runs (module.c): strings, replies and keys counted or owned once, which *)
(* the server releases itself at the end when automatic memory is on, and  *)
(* small pieces cut from blocks that are always released at the end.       *)
(***************************************************************************)

CONSTANTS
    MaxObjects,  \* bound: objects of one callback
    MinBlock,    \* REDISMODULE_POOL_ALLOC_MIN_SIZE
    Align,       \* REDISMODULE_POOL_ALLOC_ALIGN, a power of two
    PieceSizes,  \* sizes asked for
    MaxPieces    \* bound: pieces of one callback

VARIABLES
    auto,     \* REDISMODULE_CTX_AUTO_MEMORY
    amqueue,  \* what is to be released at the end
    refs,     \* object -> references that exist; an object is [type, id]
    mine,     \* ghost: object -> references the module has to give back itself
    pool,     \* blocks, the newest first: [size, used]
    pieces,   \* ghost: the pieces, [block, off, len]
    running   \* the callback has not returned

mmVars == <<auto, amqueue, refs, mine, pool, pieces, running>>

MemoryInit ==
    /\ auto \in BOOLEAN
    /\ amqueue = <<>> /\ refs = <<>> /\ mine = <<>>
    /\ pool = <<>> /\ pieces = {} /\ running = TRUE

\* Objects are numbered as they are made; the type is kept with the number.
Objects == DOMAIN refs
Alive(o) == refs[o].count > 0

-----------------------------------------------------------------------------
(***************************************************************************)
(* The queue.                                                              *)
(***************************************************************************)

autoMemoryAdd(q, o) == IF auto THEN Append(q, o) ELSE q

\* The places in the order they are looked at: from both ends to the middle.
ZigZag(n) == [k \in 1..2 * ((n + 1) \div 2) |->
                 IF k % 2 = 1 THEN n - (k - 1) \div 2 ELSE k \div 2]

\* The first place found with o is filled with the last entry.
autoMemoryFreed(q, o) ==
    LET zz == ZigZag(Len(q))
        hits == {k \in DOMAIN zz : q[zz[k]] = o}
        i == zz[CHOOSE k \in hits : \A l \in hits : k <= l]
    IN  IF ~auto \/ hits = {} THEN q ELSE SubSeq([q EXCEPT ![i] = q[Len(q)]], 1, Len(q) - 1)

InQueue(o) == \E i \in DOMAIN amqueue : amqueue[i] = o

-----------------------------------------------------------------------------
(***************************************************************************)
(* What the module calls.                                                  *)
(***************************************************************************)

\* RM_CreateString and its variants, RM_OpenKey, RM_Call.
Creates(type) ==
    /\ running
    /\ Cardinality(Objects) < MaxObjects
    /\ LET o == Cardinality(Objects) + 1
       IN  /\ refs' = Append(refs, [type |-> type, count |-> 1])
           /\ mine' = Append(mine, IF auto THEN 0 ELSE 1)
           /\ amqueue' = autoMemoryAdd(amqueue, o)
    /\ UNCHANGED <<auto, pool, pieces, running>>

\* RM_FreeString, RM_CloseKey, RM_FreeCallReply, also while automatic memory is on.
Frees(o) ==
    /\ running
    /\ InQueue(o) \/ mine[o] > 0
    /\ refs' = [refs EXCEPT ![o].count = @ - 1]
    /\ amqueue' = autoMemoryFreed(amqueue, o)
    /\ mine' = IF InQueue(o) THEN mine ELSE [mine EXCEPT ![o] = @ - 1]
    /\ UNCHANGED <<auto, pool, pieces, running>>

\* Seeded fault: a string that was in the queue is counted again.
RM_RetainString_Counted(o) ==
    /\ running
    /\ refs[o].type = "string" /\ Alive(o) /\ mine[o] < 2
    /\ amqueue' = autoMemoryFreed(amqueue, o)
    /\ refs' = [refs EXCEPT ![o].count = @ + 1]
    /\ mine' = [mine EXCEPT ![o] = @ + 1]
    /\ UNCHANGED <<auto, pool, pieces, running>>

\* The string is to outlive the callback: taken out of the queue, or counted again.
RM_RetainString(o) ==
    /\ running
    /\ refs[o].type = "string" /\ Alive(o) /\ mine[o] < 2
    /\ amqueue' = autoMemoryFreed(amqueue, o)
    /\ refs' = IF amqueue' = amqueue THEN [refs EXCEPT ![o].count = @ + 1] ELSE refs
    /\ mine' = [mine EXCEPT ![o] = @ + 1]
    /\ UNCHANGED <<auto, pool, pieces, running>>

\* The alignment asked for: the word, or less for small pieces.
Alignment(bytes) ==
    LET powers == {p \in 1..Align : Align % p = 0}
        fit == {p \in powers : p = Align \/ p >= bytes}
    IN  IF bytes >= Align THEN Align ELSE CHOOSE p \in fit : \A r \in fit : p <= r

RM_PoolAlloc(bytes) ==
    LET b == pool[1]
        left == IF pool = <<>> THEN 0 ELSE b.size - b.used
        a == Alignment(bytes)
        used == IF left >= bytes /\ b.used % a # 0 THEN b.used + a - (b.used % a) ELSE b.used
        room == IF left >= bytes THEN IF used > b.size THEN 0 ELSE b.size - used ELSE left
        new == room < bytes
        size == IF MinBlock < bytes THEN bytes ELSE MinBlock
        off == IF new THEN 0 ELSE used
        kept == IF pool = <<>> THEN pool ELSE [pool EXCEPT ![1].used = used]
    IN  /\ running
        /\ Cardinality(pieces) < MaxPieces
        /\ pool' = IF new THEN <<[size |-> size, used |-> bytes]>> \o kept
                          ELSE [pool EXCEPT ![1].used = off + bytes]
        /\ pieces' = pieces \cup {[block |-> Len(pool'), off |-> off, len |-> bytes]}
        /\ UNCHANGED <<auto, amqueue, refs, mine, running>>

\* moduleFreeContext: what is still in the queue is released, and all blocks.
autoMemoryCollect ==
    /\ running
    /\ refs' = [o \in Objects |->
                  [refs[o] EXCEPT !.count = @ - Cardinality({i \in DOMAIN amqueue : amqueue[i] = o})]]
    /\ amqueue' = <<>> /\ pool' = <<>> /\ pieces' = {}
    /\ running' = FALSE
    /\ UNCHANGED <<auto, mine>>

MemoryNext ==
    \/ \E t \in {"string", "key", "reply"} : Creates(t)
    \/ \E o \in Objects : Frees(o) \/ RM_RetainString(o)
    \/ \E n \in PieceSizes : RM_PoolAlloc(n)
    \/ autoMemoryCollect

MemorySpec == MemoryInit /\ [][MemoryNext]_mmVars

-----------------------------------------------------------------------------
(***************************************************************************)
(* Properties.                                                             *)
(***************************************************************************)

\* At any time an object has exactly the references that the module and the queue will
\* give back: nothing is released twice, and at the end only what was kept is left.
ReferencesExact ==
    \A o \in Objects :
        refs[o].count = mine[o] + Cardinality({i \in DOMAIN amqueue : amqueue[i] = o})

\* Pieces lie inside their blocks, do not overlap, and are aligned to the word if they
\* are as long as one, and to the next power of two below that.
PiecesApart ==
    /\ \A p \in pieces :
           /\ p.off + p.len <= pool[Len(pool) + 1 - p.block].used
           /\ pool[Len(pool) + 1 - p.block].used <= pool[Len(pool) + 1 - p.block].size
           /\ \E a \in {1, 2, 4} : p.off % a = 0 /\ (a >= p.len \/ a = Align)
    /\ \A p, q \in pieces :
           (p # q /\ p.block = q.block) => p.off + p.len <= q.off \/ q.off + q.len <= p.off

-----------------------------------------------------------------------------
(***************************************************************************)
(* The key handles of the module API (module.c).  A module opens a key and *)
(* works on its value through the handle: values are created when they are *)
(* first written, and deleted when the last element is gone.  Over a       *)
(* sorted set a handle iterates a range, by scores or by elements, in both *)
(* directions.  Closing a handle that could write tells the clients that   *)
(* watch the key.                                                          *)
(*                                                                         *)
(* A value is its type and its elements; a string its length.  An element  *)
(* of a sorted set is a number: its tens are the score, and as a whole it  *)
(* stands for the order of the elements.  A module does not write through  *)
(* a handle while it iterates.                                             *)
(***************************************************************************)

CONSTANTS
    ModuleKeyNames,  \* keys
    Elems,           \* elements
    Ranges,          \* ranges: [min, max, minex, maxex, by]
    MaxLength,       \* bound: elements of a list, length of a string
    MaxSteps         \* bound: calls

VARIABLES
    mdb,       \* key -> value
    handle,    \* the open handle
    unsaid,    \* keys changed and not signalled as modified
    visited,   \* ghost: the elements the iteration has been at, and whether the last
               \* step found the end
    callcount

mkVars == <<mdb, handle, unsaid, visited, callcount>>

Absent == [t |-> "none", e |-> <<>>]
Entry == [t |-> "entry", e |-> <<>>]      \* a key whose value was not set yet

Unvisited == [seq |-> <<>>, ended |-> FALSE]
NoIteration == [by |-> "none", cur |-> 0, zer |-> TRUE, spec |-> 0]
Closed == [open |-> FALSE]

KeysInit ==
    /\ mdb = [k \in ModuleKeyNames |-> Absent]
    /\ handle = Closed /\ unsaid = {} /\ visited = Unvisited /\ callcount = 0

Value == mdb[handle.key]
Is(t) == handle.val /\ Value.t = t
Empty(v) == v.t \in {"list", "hash", "zset"} /\ Len(v.e) = 0

\* One more call with the open handle.
Call(h) ==
    /\ handle.open
    /\ callcount < MaxSteps
    /\ callcount' = callcount + 1
    /\ handle' = h

-----------------------------------------------------------------------------
(***************************************************************************)
(* Opening and closing.                                                    *)
(***************************************************************************)

\* Reading needs an existing key.
getModuleKey(k, write, quiet) ==
    /\ ~handle.open
    /\ callcount < MaxSteps /\ callcount' = callcount + 1
    /\ write \/ mdb[k] # Absent
    /\ handle' = [open |-> TRUE, key |-> k, write |-> write, quiet |-> quiet,
                  val |-> mdb[k] # Absent, iter |-> NoIteration]
    /\ UNCHANGED <<mdb, unsaid, visited>>

\* An iteration ends with the handle.  A key opened without touching it is signalled by
\* the caller, as the deletion of an expired key is.
closeModuleKey ==
    /\ handle.open
    /\ handle' = Closed
    /\ unsaid' = IF handle.write /\ ~handle.quiet THEN unsaid \ {handle.key} ELSE unsaid
    /\ visited' = Unvisited
    /\ UNCHANGED <<mdb, callcount>>

\* A write through the handle: the value v, and no value if it became empty and the
\* function looks for that.
Writes(v, t, looks) ==
    LET gone == looks /\ Empty([t |-> t, e |-> v])
    IN  /\ handle.open
        /\ handle.write
        /\ handle.iter.by = "none"
        /\ mdb' = [mdb EXCEPT ![handle.key] = IF gone THEN Absent ELSE [t |-> t, e |-> v]]
        /\ unsaid' = IF mdb' # mdb /\ ~handle.quiet THEN unsaid \cup {handle.key} ELSE unsaid
        /\ Call([handle EXCEPT !.val = ~gone])
        /\ UNCHANGED visited

\* The value as type t, created if the key does not exist.
moduleCreateEmptyKey(t) == IF handle.val THEN Value.e ELSE <<>>
Usable(t) == handle.open /\ (handle.val => Value.t = t)

-----------------------------------------------------------------------------
(***************************************************************************)
(* The types.                                                              *)
(***************************************************************************)

RM_DeleteKey ==
    /\ handle.open /\ handle.write /\ handle.val /\ handle.iter.by = "none"
    /\ mdb' = [mdb EXCEPT ![handle.key] = Absent]
    /\ unsaid' = IF handle.quiet THEN unsaid ELSE unsaid \cup {handle.key}
    /\ Call([handle EXCEPT !.val = FALSE])
    /\ UNCHANGED visited

Zeros(n) == [i \in 1..n |-> 0]

RM_StringTruncate(n) ==
    /\ Usable("string")
    /\ handle.val \/ n > 0
    /\ Writes(Zeros(n), "string", FALSE)

RM_ListPush(x, head) ==
    LET l == moduleCreateEmptyKey("list")
    IN  /\ Usable("list") /\ Len(l) < MaxLength
        /\ Writes(IF head THEN <<x>> \o l ELSE Append(l, x), "list", TRUE)

RM_ListPop(head) ==
    /\ handle.open /\ Is("list") /\ Len(Value.e) > 0
    /\ Writes(IF head THEN Tail(Value.e) ELSE SubSeq(Value.e, 1, Len(Value.e) - 1), "list", TRUE)

Elements(s) == {s[i] : i \in DOMAIN s}
Sorted(S) == [i \in 1..Cardinality(S) |->
                CHOOSE x \in S : Cardinality({y \in S : y < x}) = i - 1]

\* Fields are set, if new (NX), if there (XX) or always, or deleted.
RM_HashSet(x, mode) ==
    LET f == Elements(moduleCreateEmptyKey("hash"))
        skip == (mode = "xx" /\ x \notin f) \/ (mode = "nx" /\ x \in f)
        g == IF skip THEN f ELSE IF mode = "delete" THEN f \ {x} ELSE f \cup {x}
    IN  /\ Usable("hash")
        /\ Writes(Sorted(g), "hash", TRUE)

\* zsetAdd does nothing for XX and a missing element, NX and an existing one; the
\* value was created before.
RM_ZsetAdd(x, mode) ==
    LET z == Elements(moduleCreateEmptyKey("zset"))
    IN  /\ Usable("zset")
        /\ Writes(Sorted(IF mode = "xx" THEN z ELSE z \cup {x}), "zset", FALSE)

\* Does not look whether the set is empty now.
RM_ZsetRem(x) ==
    /\ Usable("zset") /\ handle.val
    /\ Writes(Sorted(Elements(Value.e) \ {x}), "zset", FALSE)

\* RM_ModuleTypeSetValue and RM_DbSetValue: the old value goes first.
RM_ModuleTypeSetValue == Writes(<<>>, "module", FALSE)

\* The pair RM_DbAddOrFind and RM_DbEntrySetVal works without a handle.
RM_DbAddOrFind(k) ==
    /\ ~handle.open
    /\ callcount < MaxSteps /\ callcount' = callcount + 1
    /\ mdb[k] = Absent
    /\ mdb' = [mdb EXCEPT ![k] = Entry]
    /\ UNCHANGED <<handle, unsaid, visited>>

RM_DbEntrySetVal(k) ==
    /\ mdb[k] = Entry
    /\ mdb' = [mdb EXCEPT ![k] = [t |-> "module", e |-> <<>>]]
    /\ UNCHANGED <<handle, unsaid, visited, callcount>>

\* RM_DbDelete: no client that watches the key is told.
RM_DbDelete(k) ==
    /\ ~handle.open /\ callcount < MaxSteps /\ callcount' = callcount + 1
    /\ mdb[k].t = "module"
    /\ mdb' = [mdb EXCEPT ![k] = Absent]
    /\ UNCHANGED <<handle, unsaid, visited>>

-----------------------------------------------------------------------------
(***************************************************************************)
(* Iterating a sorted set.                                                 *)
(***************************************************************************)

Of(r, x) == IF r.by = "score" THEN x \div 10 ELSE x

zslValueGteMin(x, r) == IF r.minex THEN Of(r, x) > r.min ELSE Of(r, x) >= r.min
zslValueLteMax(x, r) == IF r.maxex THEN Of(r, x) < r.max ELSE Of(r, x) <= r.max

InRange(s, r) == {i \in DOMAIN s : zslValueGteMin(s[i], r) /\ zslValueLteMax(s[i], r)}

\* A step to handle h, or one that finds the end; after an end the iteration can turn.
Visits(h, stop) ==
    LET seq == IF visited.ended THEN <<Value.e[handle.iter.cur]>> ELSE visited.seq
    IN  [seq |-> IF stop THEN seq ELSE Append(seq, Value.e[h.iter.cur]), ended |-> stop]

\* The first or the last element of the range.
zsetInitScoreRange(r, first) ==
    LET in == InRange(Value.e, r)
        h == [handle EXCEPT !.iter =
                 IF in = {} THEN [by |-> r.by, cur |-> 0, zer |-> TRUE, spec |-> r]
                 ELSE [by |-> r.by, cur |-> IF first THEN Min(in) ELSE Max(in),
                       zer |-> FALSE, spec |-> r]]
    IN  /\ handle.open /\ Is("zset")
        /\ Call(h)
        /\ visited' = [seq |-> IF h.iter.zer THEN <<>> ELSE <<Value.e[h.iter.cur]>>,
                       ended |-> h.iter.zer]
        /\ UNCHANGED <<mdb, unsaid>>

zsetInitLexRange(r, first) == r.by = "lex" /\ zsetInitScoreRange(r, first)

\* The neighbour, unless there is none or it lies outside: then the end is reached and
\* the iteration stays where it is.
RM_ZsetRangeNext ==
    LET i == handle.iter
        stop == i.cur = Len(Value.e) \/ ~zslValueLteMax(Value.e[i.cur + 1], i.spec)
        h == IF stop THEN [handle EXCEPT !.iter.zer = TRUE]
                     ELSE [handle EXCEPT !.iter.cur = @ + 1]
    IN  /\ handle.open /\ handle.iter.by # "none" /\ handle.iter.cur > 0
        /\ Call(h)
        /\ visited' = Visits(h, stop)
        /\ UNCHANGED <<mdb, unsaid>>

RM_ZsetRangePrev ==
    LET i == handle.iter
        stop == i.cur = 1 \/ ~zslValueGteMin(Value.e[i.cur - 1], i.spec)
        h == IF stop THEN [handle EXCEPT !.iter.zer = TRUE]
                     ELSE [handle EXCEPT !.iter.cur = @ - 1]
    IN  /\ handle.open /\ handle.iter.by # "none" /\ handle.iter.cur > 0
        /\ Call(h)
        /\ visited' = Visits(h, stop)
        /\ UNCHANGED <<mdb, unsaid>>

RM_ZsetRangeStop ==
    /\ handle.open /\ handle.iter.by # "none"
    /\ Call([handle EXCEPT !.iter = NoIteration])
    /\ visited' = Unvisited
    /\ UNCHANGED <<mdb, unsaid>>

KeysNext ==
    \/ \E k \in ModuleKeyNames :
          \/ \E w, q \in BOOLEAN : getModuleKey(k, w, q)
          \/ RM_DbAddOrFind(k) \/ RM_DbEntrySetVal(k) \/ RM_DbDelete(k)
    \/ closeModuleKey \/ RM_DeleteKey
    \/ \E n \in 0..MaxLength : RM_StringTruncate(n)
    \/ \E x \in Elems, b \in BOOLEAN : RM_ListPush(x, b)
    \/ \E b \in BOOLEAN : RM_ListPop(b)
    \/ \E x \in Elems, m \in {"set", "nx", "xx", "delete"} : RM_HashSet(x, m)
    \/ \E x \in Elems : RM_ZsetAdd(x, "set") \/ RM_ZsetAdd(x, "xx") \/ RM_ZsetRem(x)
    \/ RM_ModuleTypeSetValue
    \/ \E r \in Ranges, f \in BOOLEAN :
          (r.by = "score" /\ zsetInitScoreRange(r, f)) \/ zsetInitLexRange(r, f)
    \/ RM_ZsetRangeNext \/ RM_ZsetRangePrev \/ RM_ZsetRangeStop

KeysSpec == KeysInit /\ [][KeysNext]_mkVars

-----------------------------------------------------------------------------
(***************************************************************************)
(* Properties.                                                             *)
(***************************************************************************)

\* No key holds a list or a hash without elements.  Sorted sets may be empty: RM_ZsetRem
\* does not look, and RM_ZsetAdd with XX leaves the set it made for nothing
\* (module.c:2426, 2361).
NoEmptyListsOrHashes == \A k \in ModuleKeyNames : Empty(mdb[k]) => mdb[k].t = "zset"

\* An iteration that goes one way visits the elements of the range in order, each once,
\* and when it reaches the end it has visited all of them.
IterationsExact ==
    handle.open /\ handle.iter.by # "none" =>
        LET in == InRange(Value.e, handle.iter.spec)
            v == visited.seq
            seen == {i \in DOMAIN Value.e : Value.e[i] \in Elements(v)}
            up == \A i \in 1..Len(v) - 1 : v[i] < v[i + 1]
            down == \A i \in 1..Len(v) - 1 : v[i] > v[i + 1]
        IN  /\ seen \subseteq in
            /\ visited.ended /\ v = <<>> => in = {}
            /\ (visited.ended /\ (up \/ down) /\ Len(v) > 1) =>
                   \/ seen = in
                   \/ up /\ v[1] # Value.e[Min(in)]
                   \/ down /\ v[1] # Value.e[Max(in)]

\* Once its handle is closed, every change made through it was signalled to the
\* clients that watch the key.
ChangesSignalled == ~handle.open => unsaid = {}
=============================================================================
