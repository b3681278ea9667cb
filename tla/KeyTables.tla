------------------------------ MODULE KeyTables -----------------------------
(***************************************************************************)
(* The structures that hold keys: the hash table of a database (dict.c)    *)
(* and the radix tree (rax.c).                                             *)
(***************************************************************************)
EXTENDS Integers, Sequences, FiniteSets, FiniteSetsExt, SequencesExt

-----------------------------------------------------------------------------
(* The hash table of dict.c: two tables while it grows or shrinks, one bucket
   moved per operation, and the three ways of walking through it (cursor scan,
   safe iterator, random key).  A key is the number its hash is. *)

CONSTANTS
    Keys,              \* keys, each the value of its hash
    InitialSize,       \* DICT_HT_INITIAL_SIZE
    ForceResizeRatio,  \* dict_force_resize_ratio
    ExpandMaxIdle,     \* dict_expand_max_idle_size
    MinFill,           \* HASHTABLE_MIN_FILL
    EmptyVisits,       \* empty buckets visited per bucket moved: 10 in dictRehash
    Word               \* 2^w for the w bits of a cursor, at least the largest size

VARIABLES
    dict,       \* [ht, rehashidx, iterators]
    canResize,  \* dict_can_resize
    content,    \* history: the keys the calls so far have put in
    scan,       \* a client that scans: [cursor, must, seen, apart] or NoScan
    iter        \* a caller that iterates: [table, index, rest, must, seen] or NoIter

dictVars == <<dict, canResize, content, scan, iter>>

NoScan == [cursor |-> -1, must |-> {}, seen |-> {}, apart |-> FALSE]
NoIter == [table |-> 0, index |-> -2, rest |-> <<>>, must |-> {}, seen |-> <<>>]

(* ---- tables ---- *)

EmptyTable == [size |-> 0, used |-> 0, table |-> <<>>]

NewTable(n) == [size |-> n, used |-> 0, table |-> [i \in 0..n-1 |-> <<>>]]

dictIsRehashing(d) == d.rehashidx # -1

dictSize(d) == d.ht[0].used + d.ht[1].used

nextPower(n) == Min({s \in {InitialSize * 2^k : k \in 0..6} : s >= n})

(* dictExpand answers DICT_ERR exactly when it leaves the dictionary alone. *)
expandFails(d, size) ==
    \/ dictIsRehashing(d)
    \/ d.ht[0].used > size
    \/ nextPower(size) = d.ht[0].size

dictExpand(d, size) ==
    LET n == NewTable(nextPower(size)) IN
    IF expandFails(d, size) THEN d
    ELSE IF d.ht[0].size = 0 THEN [d EXCEPT !.ht[0] = n]
    ELSE [d EXCEPT !.ht[1] = n, !.rehashidx = 0]

(* The size _dictExpandIfNeeded asks for, 0 when it asks for none. *)
expandRequest(d) ==
    LET used == d.ht[0].used  size == d.ht[0].size  min2x == nextPower(used) IN
    IF dictIsRehashing(d) THEN 0
    ELSE IF size = 0 THEN InitialSize
    ELSE IF used >= size /\ (canResize \/ used \div size > ForceResizeRatio)
         THEN IF min2x > used /\ 2 * min2x - used > ExpandMaxIdle THEN min2x ELSE 2 * used
    ELSE 0

(* ---- incremental rehashing ---- *)

\* Seeded fault: the bucket in the new table is that of the old one.
moveEntry_OldMask(d, k) ==
    [d EXCEPT !.ht[0].used = @ - 1, !.ht[1].used = @ + 1,
              !.ht[1].table[k % d.ht[0].size] = <<k>> \o @]

(* One entry goes from ht[0] to the head of its bucket in ht[1]. *)
moveEntry(d, k) ==
    [d EXCEPT !.ht[0].used = @ - 1, !.ht[1].used = @ + 1,
              !.ht[1].table[k % d.ht[1].size] = <<k>> \o @]

moveBucket(d) ==
    LET moved == FoldLeft(moveEntry, d, d.ht[0].table[d.rehashidx])
    IN  [moved EXCEPT !.ht[0].table[d.rehashidx] = <<>>, !.rehashidx = @ + 1]

finishRehash(d) ==
    IF d.ht[0].used = 0
    THEN [d EXCEPT !.ht = (0 :> d.ht[1]) @@ (1 :> EmptyTable), !.rehashidx = -1]
    ELSE d

RECURSIVE rehashLoop(_, _, _)
rehashLoop(d, n, visits) ==
    IF n = 0 \/ d.ht[0].used = 0 THEN finishRehash(d)
    ELSE IF d.ht[0].table[d.rehashidx] # <<>> THEN rehashLoop(moveBucket(d), n - 1, visits)
    ELSE IF visits = 1 THEN [d EXCEPT !.rehashidx = @ + 1]
    ELSE rehashLoop([d EXCEPT !.rehashidx = @ + 1], n, visits - 1)

dictRehash(d, n) == IF dictIsRehashing(d) THEN rehashLoop(d, n, n * EmptyVisits) ELSE d

rehashStep(d) == IF d.iterators = 0 THEN dictRehash(d, 1) ELSE d

(* ---- lookup, insertion, deletion ---- *)

(* The tables a lookup visits: the second one only while rehashing. *)
tables(d) == IF dictIsRehashing(d) THEN {0, 1} ELSE {0}

bucket(d, t, k) ==
    IF d.ht[t].size = 0 THEN <<>> ELSE d.ht[t].table[k % d.ht[t].size]

found(d, k) == \E t \in tables(d) : k \in Range(bucket(d, t, k))

dictFind(d, k) == IF dictSize(d) = 0 THEN d ELSE rehashStep(d)

insertHead(d, k) ==
    LET t == IF dictIsRehashing(d) THEN 1 ELSE 0
    IN  [d EXCEPT !.ht[t].table[k % d.ht[t].size] = <<k>> \o @, !.ht[t].used = @ + 1]

dictAddRaw(d, k) ==
    LET d1 == rehashStep(d)
        size == expandRequest(d1)
        d2 == IF size = 0 THEN d1 ELSE dictExpand(d1, size)
        refused == size # 0 /\ expandFails(d1, size)
    IN  IF refused \/ found(d2, k) THEN d2 ELSE insertHead(d2, k)

unlinkFrom(d, t, k) ==
    [d EXCEPT !.ht[t].table[k % d.ht[t].size] = SelectSeq(@, LAMBDA e : e # k),
              !.ht[t].used = @ - 1]

dictGenericDelete(d, k) ==
    LET d1 == rehashStep(d)
        at == {t \in tables(d1) : k \in Range(bucket(d1, t, k))}
    IN  IF dictSize(d) = 0 THEN d
        ELSE IF at = {} THEN d1
        ELSE unlinkFrom(d1, Min(at), k)

dictEmpty(d) ==
    [ht |-> [t \in {0, 1} |-> EmptyTable], rehashidx |-> -1, iterators |-> 0]

dictResize(d) ==
    LET used == d.ht[0].used
    IN  dictExpand(d, IF used < InitialSize THEN InitialSize ELSE used)

(* ---- cursor scan ---- *)

(* The bits of a cursor of log2(Word) bits, in reverse order. *)
rev(v) ==
    LET w == CHOOSE n \in 0..10 : 2^n = Word
        bit(i) == (v \div 2^i) % 2
    IN  SumSet({bit(i) * 2^(w - 1 - i) : i \in 0..w-1})

\* Seeded fault: one bucket of the larger table is looked at.
scanned_One(d, v) ==
    LET small == IF dictIsRehashing(d) /\ d.ht[0].size > d.ht[1].size THEN 1 ELSE 0
        t0 == d.ht[small]
        t1 == d.ht[1 - small]
        expansions == {v % t1.size}
    IN  Range(t0.table[v % t0.size])
          \cup IF dictIsRehashing(d) THEN UNION {Range(t1.table[b]) : b \in expansions} ELSE {}

(* The smaller table first; then, in the larger, the expansions of the cursor
   from the cursor's own bits upwards. *)
scanned(d, v) ==
    LET small == IF dictIsRehashing(d) /\ d.ht[0].size > d.ht[1].size THEN 1 ELSE 0
        t0 == d.ht[small]
        t1 == d.ht[1 - small]
        expansions == {b \in 0..t1.size-1 : b >= v % t1.size /\ b % t0.size = v % t0.size}
    IN  Range(t0.table[v % t0.size])
          \cup IF dictIsRehashing(d) THEN UNION {Range(t1.table[b]) : b \in expansions} ELSE {}

nextCursor(d, v) ==
    LET m == IF dictIsRehashing(d) THEN Min({d.ht[0].size, d.ht[1].size}) ELSE d.ht[0].size
    IN  rev((rev((v % m) + (Word - m)) + 1) % Word)

(* ---- safe iterator ---- *)

(* dictNext: the next non-empty bucket at or after the iterator's, ht[1] after
   ht[0] while rehashing; no bucket left when index is -1. *)
RECURSIVE nextBucket(_, _, _)
nextBucket(d, t, i) ==
    IF i >= d.ht[t].size
    THEN IF t = 0 /\ dictIsRehashing(d) THEN nextBucket(d, 1, 0)
         ELSE [table |-> t, index |-> -1]
    ELSE IF d.ht[t].table[i] # <<>> THEN [table |-> t, index |-> i]
    ELSE nextBucket(d, t, i + 1)

(* dictGetRandomKey draws buckets from rehashidx upwards until one has entries. *)
randomKeys(d) ==
    LET from(t) == IF t = 0 /\ dictIsRehashing(d) THEN d.rehashidx ELSE 0
    IN  UNION {UNION {Range(d.ht[t].table[i]) : i \in from(t)..d.ht[t].size-1} : t \in tables(d)}

(* ---- calls ---- *)

DictInit ==
    /\ dict = [ht |-> [t \in {0, 1} |-> EmptyTable], rehashidx |-> -1, iterators |-> 0]
    /\ canResize = TRUE
    /\ content = {}
    /\ scan = NoScan
    /\ iter = NoIter

(* The keys a scan or an iteration owes are those present from its start on. *)
Contents(keys) ==
    /\ content' = keys
    /\ scan' = [scan EXCEPT !.must = @ \cap keys]
    /\ iter' = [iter EXCEPT !.must = @ \cap keys]

Add(k) ==
    /\ dict' = dictAddRaw(dict, k)
    /\ Contents(content \cup {k})
    /\ UNCHANGED canResize

(* A caller that iterates may delete any key but the one dictNext has saved as
   the next entry. *)
Delete(k) ==
    /\ iter.rest # <<>> => k # Head(iter.rest)
    /\ dict' = dictGenericDelete(dict, k)
    /\ content' = content \ {k}
    /\ scan' = [scan EXCEPT !.must = @ \ {k}]
    /\ iter' = [iter EXCEPT !.must = @ \ {k}, !.rest = SelectSeq(@, LAMBDA e : e # k),
                            !.seen = SelectSeq(@, LAMBDA e : e # k)]
    /\ UNCHANGED canResize

Find(k) ==
    /\ dict' = dictFind(dict, k)
    /\ UNCHANGED <<canResize, content, scan, iter>>

Empty ==
    /\ iter = NoIter
    /\ dict' = dictEmpty(dict)
    /\ Contents({})
    /\ UNCHANGED canResize

(* serverCron: shrink a sparse table, rehash for a millisecond, and follow the
   child process with dictEnableResize and dictDisableResize.  An iterator lives
   within one command, so none is open. *)
TryResize ==
    /\ iter = NoIter
    /\ canResize /\ ~dictIsRehashing(dict)
    /\ dict.ht[0].size > InitialSize
    /\ (dict.ht[0].used * 100) \div dict.ht[0].size < MinFill
    /\ dict' = dictResize(dict)
    /\ UNCHANGED <<canResize, content, scan, iter>>

IncrementallyRehash ==
    /\ iter = NoIter
    /\ dictIsRehashing(dict)
    /\ dict' = dictRehash(dict, 100)
    /\ UNCHANGED <<canResize, content, scan, iter>>

ChildStartsOrEnds ==
    /\ canResize' = ~canResize
    /\ UNCHANGED <<dict, content, scan, iter>>

ScanStart ==
    /\ scan = NoScan /\ iter = NoIter /\ content # {}
    /\ scan' = [cursor |-> nextCursor(dict, 0), must |-> content, seen |-> scanned(dict, 0),
                apart |-> FALSE]
    /\ UNCHANGED <<dict, canResize, content, iter>>

(* Rehashing between sizes that differ by a factor of four or more. *)
farApart(d) ==
    /\ dictIsRehashing(d)
    /\ d.ht[0].size >= 4 * d.ht[1].size \/ d.ht[1].size >= 4 * d.ht[0].size

(* A cursor of 0 ends the scan, and so does a scan of an empty dictionary. *)
ScanNext ==
    /\ scan.cursor > 0
    /\ scan' = IF dictSize(dict) = 0 THEN [scan EXCEPT !.cursor = 0]
               ELSE [scan EXCEPT !.cursor = nextCursor(dict, @),
                                 !.seen = @ \cup scanned(dict, scan.cursor),
                                 !.apart = @ \/ farApart(dict)]
    /\ UNCHANGED <<dict, canResize, content, iter>>

ScanEnd ==
    /\ scan.cursor = 0
    /\ scan' = NoScan
    /\ UNCHANGED <<dict, canResize, content, iter>>

IterStart ==
    /\ iter = NoIter /\ scan = NoScan
    /\ iter' = [NoIter EXCEPT !.index = -1, !.must = content]
    /\ dict' = [dict EXCEPT !.iterators = @ + 1]
    /\ UNCHANGED <<canResize, content, scan>>

(* index -3: dictNext has returned NULL. *)
IterNext ==
    /\ iter.index >= -1
    /\ LET b == nextBucket(dict, iter.table, iter.index + 1)
           chain == dict.ht[b.table].table[b.index]
       IN  iter' = IF iter.rest # <<>>
                   THEN [iter EXCEPT !.rest = Tail(@), !.seen = Append(@, Head(iter.rest))]
                   ELSE IF b.index = -1 THEN [iter EXCEPT !.index = -3]
                   ELSE [iter EXCEPT !.table = b.table, !.index = b.index,
                                     !.rest = Tail(chain), !.seen = Append(@, Head(chain))]
    /\ UNCHANGED <<dict, canResize, content, scan>>

IterRelease ==
    /\ iter.index = -3
    /\ iter' = NoIter
    /\ dict' = [dict EXCEPT !.iterators = @ - 1]
    /\ UNCHANGED <<canResize, content, scan>>

DictNext ==
    \/ \E k \in Keys : Add(k) \/ Delete(k) \/ Find(k)
    \/ Empty \/ TryResize \/ IncrementallyRehash \/ ChildStartsOrEnds
    \/ ScanStart \/ ScanNext \/ ScanEnd
    \/ IterStart \/ IterNext \/ IterRelease

DictSpec == DictInit /\ [][DictNext]_dictVars

(* ---- properties ---- *)

(* Whatever the sizes, the progress of rehashing and the calls so far, the two
   tables hold exactly the keys that were put in and not deleted, each found by
   a lookup and linked once, and the counters of the tables are their numbers
   of entries (dictAdd never refuses a key it does not hold). *)
HoldsContent ==
    /\ \A k \in Keys : found(dict, k) <=> k \in content
    /\ \A t \in {0, 1} :
          dict.ht[t].used = Cardinality({<<i, j>> \in (0..dict.ht[t].size-1) \X (1..Cardinality(Keys)) :
                                            j <= Len(dict.ht[t].table[i])})
    /\ dictSize(dict) = Cardinality(content)

(* Every key can be drawn by dictGetRandomKey: nothing is left behind in the
   buckets below rehashidx that it skips. *)
RandomReachesAll == randomKeys(dict) = content

(* A scan that ends has returned every key that was present all along, although
   the table was resized and rehashed between its calls, if none of its calls met
   two tables whose sizes differ by a factor of four or more: doubling and halving
   lose nothing, and neither does any change of size that is over before the next
   call (dictScan). *)
ScanCompleteUnlessApart ==
    scan.cursor = 0 /\ ~scan.apart => scan.must \subseteq scan.seen

(* An iteration with a safe iterator returns no entry twice, and when it ends it
   has returned every key that was present all along, although its caller adds,
   deletes and looks up keys. *)
IterationExact ==
    /\ \A i, j \in 1..Len(iter.seen) : iter.seen[i] = iter.seen[j] => i = j
    /\ iter.index = -3 => iter.must \subseteq Range(iter.seen)

-----------------------------------------------------------------------------
(***************************************************************************)
(* The radix tree (rax.c) that keeps the keys of a cluster's hash slots in *)
(* order.  A node has either one edge per child, sorted, or, compressed, a *)
(* string of edges that leads to its only child.  Inserting splits         *)
(* compressed nodes, removing deletes the branch of a key and compresses   *)
(* what is left.  An iterator is a path from the head, and the key the     *)
(* path spells.                                                            *)
(*                                                                         *)
(* Allocation never fails (rax_malloc is zmalloc, which aborts), and keys  *)
(* are shorter than RAX_NODE_MAX_SIZE.                                     *)
(***************************************************************************)

CONSTANTS RaxKeys,   \* the keys: sequences of numbers
          RaxValues  \* their values

VARIABLES rax,       \* the tree: head, numele and numnodes
          keymap     \* ghost: the keys inserted and not removed, with their values

raxVars == <<rax, keymap>>

NoValue == 0

raxNewNode == [val |-> NoValue, compr |-> FALSE, data |-> <<>>, kids |-> <<>>]
IsKey(n) == n.val # NoValue

\* A node whose only way goes on: part of a chain that may be compressed.
Passing(n) == ~IsKey(n) /\ (n.compr \/ Len(n.data) = 1)

RECURSIVE NodeAt(_, _)
NodeAt(n, path) == IF path = <<>> THEN n ELSE NodeAt(n.kids[Head(path)], Tail(path))

RECURSIVE WithNode(_, _, _)
WithNode(n, path, new) ==
    IF path = <<>> THEN new
    ELSE [n EXCEPT !.kids[Head(path)] = WithNode(@, Tail(path), new)]

Up(path) == SubSeq(path, 1, Len(path) - 1)
Rest(s, i) == SubSeq(s, i + 1, Len(s))

-----------------------------------------------------------------------------
\* How many of the edges of a compressed node s goes along.
Common(data, s) ==
    CHOOSE j \in 0 .. Len(data) :
        /\ IsPrefix(SubSeq(data, 1, j), s)
        /\ j = Len(data) \/ ~IsPrefix(SubSeq(data, 1, j + 1), s)

\* raxLowWalk: the path, the characters used (i) and where in a compressed node
\* the walk stopped (j).
RECURSIVE LowWalk(_, _, _)
LowWalk(n, s, w) ==
    LET rest == Rest(s, w.i)
        j == Common(n.data, rest)
        at == SelectInSeq(n.data, LAMBDA c : c = rest[1])
    IN  IF n.data = <<>> \/ rest = <<>> THEN w
        ELSE IF n.compr
        THEN IF j # Len(n.data) THEN [w EXCEPT !.i = @ + j, !.j = j]
             ELSE LowWalk(n.kids[1], s, [w EXCEPT !.i = @ + j, !.path = Append(@, 1)])
        ELSE IF at = 0 THEN w
             ELSE LowWalk(n.kids[at], s, [w EXCEPT !.i = @ + 1, !.path = Append(@, at)])

raxLowWalk(s) == LowWalk(rax.head, s, [path |-> <<>>, i |-> 0, j |-> 0])

\* raxFind.
Found(s) ==
    LET w == raxLowWalk(s)
        h == NodeAt(rax.head, w.path)
    IN  IF w.i # Len(s) \/ (h.compr /\ w.j # 0) THEN NoValue ELSE h.val

\* raxAddChild: the edge goes where it keeps the edges sorted.
raxAddChild(n, c, child) ==
    LET at == 1 + Cardinality({k \in DOMAIN n.data : n.data[k] < c})
    IN  [n EXCEPT !.data = InsertAt(@, at, c), !.kids = InsertAt(@, at, child)]

\* A chain of edges; compressed if it is longer than one.
Chain(data, val, child) ==
    [val |-> val, compr |-> Len(data) > 1, data |-> data, kids |-> <<child>>]

\* The end of raxInsert: nodes for the characters that are left.
RECURSIVE AddBranch(_, _, _)
AddBranch(h, s, v) ==
    CASE s = <<>> -> [h EXCEPT !.val = v]
      [] s # <<>> /\ h.data = <<>> /\ Len(s) > 1 -> Chain(s, h.val, [raxNewNode EXCEPT !.val = v])
      [] s # <<>> /\ (h.data # <<>> \/ Len(s) = 1) ->
            raxAddChild(h, s[1], AddBranch(raxNewNode, Tail(s), v))

\* How many nodes that takes.
BranchNodes(h, s) == IF s = <<>> THEN 0 ELSE IF h.data = <<>> \/ Len(s) = 1 THEN 1 ELSE 2

\* raxInsert of s, from the node h where the walk w stopped.
InsertedAt(s, v, w, h) ==
    LET next == h.kids[1]
        put(n) == WithNode(rax.head, w.path, n)
        left == Rest(s, w.i)
        \* Algorithm 1: the compressed node has another character.
        post == Rest(h.data, w.j + 1)
        split == [val |-> IF w.j = 0 THEN h.val ELSE NoValue, compr |-> FALSE,
                  data |-> <<h.data[w.j + 1]>>,
                  kids |-> <<IF post = <<>> THEN next ELSE Chain(post, NoValue, next)>>]
        grown == AddBranch(split, left, v)
        one == IF w.j = 0 THEN grown ELSE Chain(SubSeq(h.data, 1, w.j), h.val, grown)
        \* Algorithm 2: the key ends inside of the compressed node.
        two == Chain(SubSeq(h.data, 1, w.j), h.val, Chain(Rest(h.data, w.j), v, next))
    IN  CASE left = <<>> /\ (~h.compr \/ w.j = 0) ->
               [rax EXCEPT !.head = put([h EXCEPT !.val = v]),
                           !.numele = IF IsKey(h) THEN @ ELSE @ + 1]
          [] h.compr /\ left # <<>> ->
               [rax EXCEPT !.head = put(one), !.numele = @ + 1,
                           !.numnodes = @ + (IF w.j = 0 THEN 0 ELSE 1)
                                          + (IF post = <<>> THEN 0 ELSE 1)
                                          + BranchNodes(split, left)]
          [] h.compr /\ left = <<>> /\ w.j # 0 ->
               [rax EXCEPT !.head = put(two), !.numele = @ + 1, !.numnodes = @ + 1]
          [] ~h.compr /\ left # <<>> ->
               [rax EXCEPT !.head = put(AddBranch(h, left, v)), !.numele = @ + 1,
                           !.numnodes = @ + BranchNodes(h, left)]

raxInsert(s, v) ==
    LET w == raxLowWalk(s) IN InsertedAt(s, v, w, NodeAt(rax.head, w.path))

-----------------------------------------------------------------------------
raxRemoveChild(n, k) ==
    IF n.compr THEN [n EXCEPT !.compr = FALSE, !.data = <<>>, !.kids = <<>>]
    ELSE [n EXCEPT !.data = RemoveAt(@, k), !.kids = RemoveAt(@, k)]

\* The chain of nodes to compress that begins at n: its edges, its nodes, its end.
RECURSIVE Collect(_, _, _)
Collect(n, data, nodes) ==
    LET all == data \o n.data
        child == n.kids[1]
    IN  IF Passing(child) THEN Collect(child, all, nodes + 1)
        ELSE [data |-> all, nodes |-> nodes + 1, end |-> child]

\* The end of raxRemove: go up to where the chain begins, and compress it.
Compressed(r, start, c) ==
    IF c.nodes = 1 THEN r
    ELSE [r EXCEPT !.head = WithNode(@, start, [val |-> NoValue, compr |-> TRUE,
                                                 data |-> c.data, kids |-> <<c.end>>]),
                   !.numnodes = @ + 1 - c.nodes]

TryCompress(r, path) ==
    LET top == CHOOSE k \in 0 .. Len(path) :
                  /\ \A m \in k .. Len(path) - 1 : Passing(NodeAt(r.head, SubSeq(path, 1, m)))
                  /\ k > 0 => ~Passing(NodeAt(r.head, SubSeq(path, 1, k - 1)))
        start == SubSeq(path, 1, top)
    IN  Compressed(r, start, Collect(NodeAt(r.head, start), <<>>, 0))

\* Nodes without a branch and without a key go with the leaf, up to where one stays.
Stays(r, path) ==
    CHOOSE k \in 0 .. Len(path) - 1 :
        LET goes(m) == m > 0 /\ Passing(NodeAt(r.head, SubSeq(path, 1, m)))
        IN  ~goes(k) /\ \A m \in k + 1 .. Len(path) - 1 : goes(m)

\* new is what becomes of the node that stays.
Uprooted(r, parent, new, gone) ==
    LET cut == [r EXCEPT !.head = WithNode(@, parent, new), !.numnodes = @ - gone]
    IN  IF Len(new.data) = 1 /\ ~IsKey(new) THEN TryCompress(cut, parent) ELSE cut

LeafRemoved(r, path, up) ==
    LET parent == SubSeq(path, 1, up)
    IN  Uprooted(r, parent, raxRemoveChild(NodeAt(r.head, parent), path[up + 1]), Len(path) - up)

\* r is the tree in which the node h no longer holds a key.
RemovedAt(r, path, h) ==
    IF h.data = <<>>
    THEN IF path = <<>> THEN r ELSE LeafRemoved(r, path, Stays(r, path))
    ELSE IF Len(h.data) = 1 THEN TryCompress(r, path) ELSE r

raxRemove(s) ==
    LET path == raxLowWalk(s).path
        h == NodeAt(rax.head, path)
    IN  IF Found(s) = NoValue THEN rax
        ELSE RemovedAt([rax EXCEPT !.head = WithNode(@, path, [h EXCEPT !.val = NoValue]),
                                   !.numele = @ - 1], path, h)

-----------------------------------------------------------------------------
(***************************************************************************)
(* Iterators.                                                              *)
(***************************************************************************)

Node(it) == NodeAt(rax.head, it.path)
AddChars(it, s) == [it EXCEPT !.key = @ \o s]
\* raxStackPop, and the characters of the edge.
Edge(n) == IF n.compr THEN Len(n.data) ELSE 1
DelChars(it) == [it EXCEPT !.key = SubSeq(@, 1, Len(@) - Edge(Node(it)))]
Enter(it, k, s) == [AddChars(it, s) EXCEPT !.path = Append(@, k)]

RECURSIVE SeekGreatest(_)
SeekGreatest(it) ==
    LET n == Node(it)
    IN  IF n.data = <<>> THEN it
        ELSE SeekGreatest(IF n.compr THEN Enter(it, 1, n.data)
                          ELSE Enter(it, Len(n.data), <<Last(n.data)>>))

\* raxIteratorNextStep: deeper to the first child, or up until there is a next one.
RECURSIVE NextStep(_, _, _)
NextKey(i, orig) == IF IsKey(Node(i)) THEN i ELSE NextStep([i EXCEPT !.up = FALSE], FALSE, orig)

\* From u, one node up (m), to the child behind the one the iterator comes from.
NextChild(u, m, prevchild, least, orig) ==
    LET nexts == {k \in DOMAIN m.data : m.data[k] > prevchild}
        k == CHOOSE x \in nexts : \A y \in nexts : x <= y
    IN  IF ~m.compr /\ Len(m.data) > least /\ nexts # {}
        THEN NextKey(Enter(u, k, <<m.data[k]>>), orig)
        ELSE NextStep([u EXCEPT !.up = TRUE], FALSE, orig)

NextStep(it, noup, orig) ==
    LET n == Node(it)
        u == DelChars(IF noup THEN it ELSE [it EXCEPT !.path = Up(@)])
    IN  IF ~noup /\ ~it.up /\ n.data # <<>>
        THEN NextKey(Enter(it, 1, IF n.compr THEN n.data ELSE <<n.data[1]>>), orig)
        ELSE IF ~noup /\ it.path = <<>> THEN [orig EXCEPT !.eof = TRUE]
        ELSE NextChild(u, Node(u), Last(it.key), IF noup THEN 0 ELSE 1, orig)

\* raxIteratorPrevStep: up, then to the greatest key of the previous child.
PrevChild(u, m, prevchild, least) ==
    LET prevs == {k \in DOMAIN m.data : m.data[k] < prevchild}
        k == CHOOSE x \in prevs : \A y \in prevs : y <= x
    IN  IF ~m.compr /\ Len(m.data) > least /\ prevs # {}
        THEN SeekGreatest(Enter(u, k, <<m.data[k]>>)) ELSE u

RECURSIVE PrevStep(_, _, _)
PrevKey(i, orig) == IF IsKey(Node(i)) THEN i ELSE PrevStep(i, FALSE, orig)

PrevStep(it, noup, orig) ==
    LET u == DelChars(IF noup THEN it ELSE [it EXCEPT !.path = Up(@)])
    IN  IF ~noup /\ it.path = <<>> THEN [orig EXCEPT !.eof = TRUE]
        ELSE PrevKey(PrevChild(u, Node(u), Last(it.key), IF noup THEN 0 ELSE 1), orig)

Next1(it, noup) == [NextStep(it, noup, it) EXCEPT !.up = FALSE]
Prev1(it, noup) == PrevStep(it, noup, it)

\* raxSeek: where a walk for the key stops, then one step with care.
SeekStart == [path |-> <<>>, key |-> <<>>, eof |-> FALSE, up |-> FALSE]

\* From it, at the node h where the walk w for ele stopped.
SeekFrom(op, ele, w, it, h) ==
    LET gt == op \in {">", ">="}
        lt == op \in {"<", "<="}
        eq == op \in {">=", "<=", "="}
        all == AddChars(it, h.data)
        step(i, noup) == IF gt THEN Next1(i, noup) ELSE Prev1(i, noup)
    IN  IF eq /\ w.i = Len(ele) /\ (~h.compr \/ w.j = 0) /\ IsKey(h) THEN it
        ELSE IF ~gt /\ ~lt THEN [it EXCEPT !.eof = TRUE]
        ELSE IF w.i = Len(ele) THEN step(it, FALSE)
        ELSE IF ~h.compr THEN step(AddChars(it, <<ele[w.i + 1]>>), TRUE)
        ELSE IF gt /\ h.data[w.j + 1] > ele[w.i + 1] THEN Next1(it, FALSE)
        ELSE IF lt /\ h.data[w.j + 1] < ele[w.i + 1] THEN SeekGreatest(it)
        ELSE step(all, TRUE)

SeekAt(op, ele, w) ==
    LET it == [SeekStart EXCEPT !.path = w.path, !.key = SubSeq(ele, 1, w.i - w.j)]
    IN  SeekFrom(op, ele, w, it, Node(it))

raxSeek(op, ele) ==
    IF rax.numele = 0 THEN [SeekStart EXCEPT !.eof = TRUE]
    ELSE IF op = "$" THEN SeekGreatest(SeekStart)
    ELSE SeekAt(op, ele, raxLowWalk(ele))

-----------------------------------------------------------------------------
\* raxNew.
RaxInit ==
    /\ rax = [head |-> raxNewNode, numele |-> 0, numnodes |-> 1]
    /\ keymap = <<>>

InsertKey(s, v) ==
    /\ rax' = raxInsert(s, v)
    /\ keymap' = [k \in DOMAIN keymap \cup {s} |-> IF k = s THEN v ELSE keymap[k]]

RemoveKey(s) ==
    /\ s \in DOMAIN keymap
    /\ rax' = raxRemove(s)
    /\ keymap' = [k \in DOMAIN keymap \ {s} |-> keymap[k]]

RaxNext == \E s \in RaxKeys : RemoveKey(s) \/ \E v \in RaxValues : InsertKey(s, v)

RaxSpec == RaxInit /\ [][RaxNext]_raxVars

-----------------------------------------------------------------------------
RECURSIVE Nodes(_)
Nodes(n) == 1 + FoldLeft(LAMBDA a, k : a + Nodes(k), 0, n.kids)

\* Every key leads to its value and no other key is found, and the counters, on which
\* freeing a tree relies, are the numbers of keys and nodes (rax.c:799, rax.c:1117).
RaxHoldsKeys ==
    /\ \A s \in RaxKeys : Found(s) = IF s \in DOMAIN keymap THEN keymap[s] ELSE NoValue
    /\ rax.numele = Cardinality(DOMAIN keymap)
    /\ rax.numnodes = Nodes(rax.head)

RECURSIVE Before(_, _)
Before(a, b) ==
    IF b = <<>> THEN FALSE ELSE IF a = <<>> THEN TRUE
    ELSE a[1] < b[1] \/ (a[1] = b[1] /\ Before(Tail(a), Tail(b)))

\* What a seek or a step is to find among the keys S: the first or the last.
IsFirst(it, S) == IF S = {} THEN it.eof
                  ELSE ~it.eof /\ it.key \in S /\ \A k \in S : k = it.key \/ Before(it.key, k)
IsLast(it, S) == IF S = {} THEN it.eof
                 ELSE ~it.eof /\ it.key \in S /\ \A k \in S : k = it.key \/ Before(k, it.key)

StepsForward(it) ==
    ~it.eof => IsFirst(Next1(it, FALSE), {k \in DOMAIN keymap : Before(it.key, k)})

\* A seek for the keys from some key on finds the first of them, whether or not that
\* key is there, and the steps that follow find the others, one by one and in order:
\* what a slot's keys are enumerated and deleted by (rax.c:1374, db.c:1508).
ForwardExact ==
    \A s \in RaxKeys :
        /\ IsFirst(raxSeek(">", s), {k \in DOMAIN keymap : Before(s, k)})
        /\ IsFirst(raxSeek(">=", s), {k \in DOMAIN keymap : k = s \/ Before(s, k)})
        /\ StepsForward(raxSeek(">=", s))

\* Stepping back from a key finds the one before it, from the greatest key on.
BackwardExact ==
    /\ IsLast(raxSeek("$", <<>>), DOMAIN keymap)
    /\ \A s \in DOMAIN keymap :
          IsLast(Prev1(raxSeek("=", s), FALSE), {k \in DOMAIN keymap : Before(k, s)})
=============================================================================
