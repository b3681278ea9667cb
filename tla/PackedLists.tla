----------------------------- MODULE PackedLists ----------------------------
(***************************************************************************)
(* The ziplist (ziplist.c), whose entries lie in one block of memory, and  *)
(* the quicklist (quicklist.c), a chain of ziplists.                       *)
(***************************************************************************)
EXTENDS Integers, Sequences, SequencesExt

-----------------------------------------------------------------------------
(***************************************************************************)
(* The ziplist (ziplist.c): a list in one block of memory.  Every entry    *)
(* begins with the length of the entry before it, in one byte or, from 254 *)
(* on, in five, so that growing an entry may make the next one grow, and   *)
(* the next.  The header has the size of the block, the offset of the last *)
(* entry and a length that is given up on at its limit.                    *)
(*                                                                         *)
(* An entry is its value and the sizes of its parts; the value is the size *)
(* of a string or an integer, and says how many bytes its encoding takes.  *)
(***************************************************************************)

CONSTANTS ZipValues,      \* values: [int |-> n] or [str |-> length]
          MaxZipLength,   \* UINT16_MAX: a length at the limit is not maintained
          MaxZipEntries   \* bound: entries

VARIABLES zls,            \* two ziplists
          zipvalues       \* ghost: the values of each

zipVars == <<zls, zipvalues>>

ZIP_BIG_PREVLEN == 254
ZIPLIST_HEADER_SIZE == 10
ZIPLIST_END_SIZE == 1

ziplistNew == [entries |-> <<>>, bytes |-> ZIPLIST_HEADER_SIZE + ZIPLIST_END_SIZE,
               tail |-> ZIPLIST_HEADER_SIZE, length |-> 0]

-----------------------------------------------------------------------------
\* zipTryEncoding and zipIntSize: bytes of an integer.
zipIntSize(n) ==
    CASE n \in 0 .. 12 -> 0
      [] n \in (-128 .. 127) \ (0 .. 12) -> 1
      [] n \in (-32768 .. 32767) \ (-128 .. 127) -> 2
      [] n < -32768 \/ n > 32767 -> IF n >= -8388608 /\ n <= 8388607 THEN 3 ELSE 4

\* zipStoreEntryEncoding and what follows it: an entry without its first field.
BodySize(v) ==
    IF "int" \in DOMAIN v THEN 1 + zipIntSize(v.int)
    ELSE v.str + (IF v.str <= 63 THEN 1 ELSE IF v.str <= 16383 THEN 2 ELSE 5)

\* zipStorePrevEntryLength(NULL, len).
PrevLenSize(len) == IF len < ZIP_BIG_PREVLEN THEN 1 ELSE 5

zipRawEntryLength(e) == e.prevlensize + BodySize(e.value)

zipPrevLenByteDiff(e, len) == PrevLenSize(len) - e.prevlensize

SizeOf(es) == FoldLeft(LAMBDA a, e : a + zipRawEntryLength(e), 0, es)
OffsetOf(es, k) == ZIPLIST_HEADER_SIZE + SizeOf(SubSeq(es, 1, k - 1))

\* ZIPLIST_INCR_LENGTH.
IncrLength(z, n) == IF z.length < MaxZipLength THEN [z EXCEPT !.length = @ + n] ELSE z

-----------------------------------------------------------------------------
\* __ziplistCascadeUpdate: from entry k on, until a field need not grow.
RECURSIVE CascadeUpdate(_, _)
CascadeUpdate(z, k) ==
    LET rawlen == zipRawEntryLength(z.entries[k])
        next == z.entries[k + 1]
        extra == PrevLenSize(rawlen) - next.prevlensize
        isTail == z.tail = OffsetOf(z.entries, k + 1)
    IN  IF k >= Len(z.entries) THEN z
        ELSE IF next.prevlen = rawlen THEN z
        ELSE IF extra > 0
        THEN CascadeUpdate([z EXCEPT !.entries[k + 1].prevlen = rawlen,
                                     !.entries[k + 1].prevlensize = @ + extra,
                                     !.bytes = @ + extra,
                                     !.tail = IF isTail THEN @ ELSE @ + extra], k + 1)
        \* A field that could shrink keeps its size.
        ELSE [z EXCEPT !.entries[k + 1].prevlen = rawlen]

\* __ziplistInsert: before entry k, or at the end.
ziplistInsert(z, k, v) ==
    LET atEnd == k > Len(z.entries)
        next == z.entries[k]
        \* At the end the last entry is the one the header points to.
        prevlen == IF ~atEnd THEN next.prevlen
                   ELSE IF z.entries = <<>> THEN 0 ELSE zipRawEntryLength(Last(z.entries))
        new == [prevlen |-> prevlen, prevlensize |-> PrevLenSize(prevlen), value |-> v]
        reqlen == zipRawEntryLength(new)
        diff == IF atEnd THEN 0 ELSE zipPrevLenByteDiff(next, reqlen)
        forcelarge == diff = -4 /\ reqlen < 4
        nextdiff == IF forcelarge THEN 0 ELSE diff
        moved == [next EXCEPT !.prevlen = reqlen, !.prevlensize = @ + nextdiff]
        es == SubSeq(z.entries, 1, k - 1) \o <<new>> \o
              (IF atEnd THEN <<>> ELSE <<moved>> \o SubSeq(z.entries, k + 1, Len(z.entries)))
        y == [z EXCEPT !.entries = es,
                       !.bytes = @ + reqlen + nextdiff,
                       !.tail = IF atEnd THEN OffsetOf(z.entries, k)
                                ELSE @ + reqlen + (IF k < Len(z.entries) THEN nextdiff ELSE 0)]
    IN  IncrLength(IF nextdiff # 0 THEN CascadeUpdate(y, k + 1) ELSE y, 1)

\* __ziplistDelete: num entries from entry k on.
ziplistDelete(z, k, num) ==
    LET last == IF k + num - 1 < Len(z.entries) THEN k + num - 1 ELSE Len(z.entries)
        first == z.entries[k]
        totlen == SizeOf(SubSeq(z.entries, k, last))
        toEnd == last = Len(z.entries)
        next == z.entries[last + 1]
        nextdiff == IF toEnd THEN 0 ELSE zipPrevLenByteDiff(next, first.prevlen)
        moved == [next EXCEPT !.prevlen = first.prevlen, !.prevlensize = @ + nextdiff]
        es == SubSeq(z.entries, 1, k - 1) \o
              (IF toEnd THEN <<>> ELSE <<moved>> \o SubSeq(z.entries, last + 2, Len(z.entries)))
        y == [z EXCEPT !.entries = es,
                       !.bytes = @ - totlen + nextdiff,
                       !.tail = IF toEnd THEN OffsetOf(z.entries, k) - first.prevlen
                                ELSE @ - totlen + (IF last + 1 < Len(z.entries) THEN nextdiff ELSE 0)]
        x == IncrLength(y, -(last - k + 1))
    IN  IF nextdiff # 0 THEN CascadeUpdate(x, k) ELSE x

\* ziplistMerge: the second behind the first; the fields at the seam are fixed.
ziplistMerge(a, b) ==
    LET length == a.length + b.length
        m == [entries |-> a.entries \o b.entries,
              bytes |-> a.bytes + b.bytes - ZIPLIST_HEADER_SIZE - ZIPLIST_END_SIZE,
              tail |-> a.bytes - ZIPLIST_END_SIZE + b.tail - ZIPLIST_HEADER_SIZE,
              length |-> IF length < MaxZipLength THEN length ELSE MaxZipLength]
    IN  CascadeUpdate(m, Len(a.entries))

\* ziplistIndex with a negative index: from the tail back, by the lengths in front of
\* the entries.
RECURSIVE BackTo(_, _, _)
BackTo(z, offset, index) ==
    LET at == {i \in DOMAIN z.entries : OffsetOf(z.entries, i) = offset}
        here == CHOOSE i \in at : TRUE
        prevlen == z.entries[here].prevlen
    IN  IF at = {} THEN 0
        ELSE IF index = 0 THEN here
        ELSE IF prevlen = 0 THEN 0
        ELSE BackTo(z, offset - prevlen, index - 1)

ziplistIndexBack(z, index) == BackTo(z, z.tail, index - 1)

\* ziplistLen: counts when the header does not say, and repairs it.
ziplistLen(z) == IF z.length < MaxZipLength THEN z.length ELSE Len(z.entries)
Counted(z) == [z EXCEPT !.length = IF z.length = MaxZipLength /\ Len(z.entries) < MaxZipLength
                                   THEN Len(z.entries) ELSE @]

-----------------------------------------------------------------------------
ZipInit ==
    /\ zls = <<ziplistNew, ziplistNew>>
    /\ zipvalues = << <<>>, <<>> >>

InsertValue(l, k, v) ==
    /\ Len(zls[1].entries) + Len(zls[2].entries) < MaxZipEntries
    /\ k <= Len(zls[l].entries) + 1
    /\ zls' = [zls EXCEPT ![l] = ziplistInsert(@, k, v)]
    /\ zipvalues' = [zipvalues EXCEPT ![l] = InsertAt(@, k, v)]

DeleteRange(l, k, num) ==
    /\ k <= Len(zls[l].entries)
    /\ zls' = [zls EXCEPT ![l] = ziplistDelete(@, k, num)]
    /\ zipvalues' = [zipvalues EXCEPT ![l] = SubSeq(@, 1, k - 1) \o SubSeq(@, k + num, Len(@))]

\* The nodes a quicklist merges are not empty.
Merge ==
    /\ zls[1].entries # <<>>
    /\ zls[2].entries # <<>>
    /\ zls' = <<ziplistMerge(zls[1], zls[2]), ziplistNew>>
    /\ zipvalues' = <<zipvalues[1] \o zipvalues[2], <<>> >>

Count(l) ==
    /\ zls' = [zls EXCEPT ![l] = Counted(@)]
    /\ UNCHANGED zipvalues

ZipNext ==
    \/ Merge
    \/ \E l \in {1, 2} :
          \/ Count(l)
          \/ \E k \in 1 .. MaxZipEntries :
                \/ \E v \in ZipValues : InsertValue(l, k, v)
                \/ \E num \in {1, 2} : DeleteRange(l, k, num)

ZipSpec == ZipInit /\ [][ZipNext]_zipVars

-----------------------------------------------------------------------------
\* The header and the fields in front of the entries say the truth after any insertion,
\* deletion or merge, wherever the growing of the fields stopped: every entry has the
\* size of the one before it, in a field large enough, and the header has the size of
\* the block, the last entry and the number of entries (ziplist.c:616).
ZiplistSound ==
    \A l \in {1, 2} :
        LET z == zls[l]
            es == z.entries
        IN  /\ z.bytes = ZIPLIST_HEADER_SIZE + SizeOf(es) + ZIPLIST_END_SIZE
            /\ z.tail = IF es = <<>> THEN ZIPLIST_HEADER_SIZE ELSE OffsetOf(es, Len(es))
            /\ ziplistLen(z) = Len(es)
            /\ \A k \in DOMAIN es :
                  /\ es[k].prevlen = IF k = 1 THEN 0 ELSE zipRawEntryLength(es[k - 1])
                  /\ es[k].prevlensize >= PrevLenSize(es[k].prevlen)

\* Walking back from the tail finds the values that were put in, in their order.
BackwardFindsValues ==
    \A l \in {1, 2} :
        LET z == zls[l]
            n == Len(zipvalues[l])
        IN  /\ ziplistIndexBack(z, n + 1) = 0
            /\ \A i \in 1 .. n :
                  LET k == ziplistIndexBack(z, i)
                  IN  k # 0 /\ z.entries[k].value = zipvalues[l][n + 1 - i]

-----------------------------------------------------------------------------
(* quicklist.c: a list stored as a chain of ziplists, each holding at most what the
   fill setting allows, the ones further than the compress depth from both ends
   compressed. An element is its size. A node is read and written as it stands, so an
   operation that meets a compressed node it takes for a plain one has undefined
   effects: such a step ends in Corrupt. *)

CONSTANTS
    Sizes,       \* the sizes of the elements
    Fills,       \* list-max-ziplist-size: [by |-> "count" or "size", max |-> n]
    Depths,      \* list-compress-depth
    MinCompress, \* MIN_COMPRESS_BYTES
    SafetyLimit, \* SIZE_SAFETY_LIMIT
    MaxElements  \* a bound on the length of the list

VARIABLES
    ql,      \* the quicklist: its nodes in order, and its count of elements
    fill, compress,
    elems    \* the elements the list should have

qlVars == <<ql, fill, compress, elems>>

Node(zl) == [zl |-> zl, count |-> Len(zl), lzf |-> FALSE, recompress |-> FALSE]
size(zl) == FoldSeq(LAMBDA a, b : a + b, 0, zl)
Corrupt == [nodes |-> <<>>, count |-> -1]
IsCorrupt == ql.count = -1

(* ---- nodes ---- *)

compressNode(n) ==
    IF n.lzf \/ size(n.zl) < MinCompress THEN n ELSE [n EXCEPT !.lzf = TRUE, !.recompress = FALSE]

decompressNode(n) == [n EXCEPT !.lzf = FALSE]

decompressNodeForUse(n) == IF n.lzf THEN [n EXCEPT !.lzf = FALSE, !.recompress = TRUE] ELSE n

(* __quicklistCompress for the node at i, 0 for none; len is the length the quicklist
   records at that moment. *)
compressAround(nodes, len, i) ==
    LET m == Len(nodes)
        meet == \E d \in 1..compress : d = m + 1 - d
        stop == IF meet THEN (m + 1) \div 2 ELSE compress
        ends == {d \in DOMAIN nodes : d <= stop \/ d >= m + 1 - stop}
        opened == FoldSet(LAMBDA d, s : [s EXCEPT ![d] = decompressNode(@)], nodes, ends)
        inner == (IF i \in DOMAIN nodes \ ends THEN {i} ELSE {})
                 \cup (IF compress > 1 THEN {compress + 1, m - compress} ELSE {})
    IN  IF compress = 0 \/ len < 2 * compress THEN nodes
        ELSE IF meet THEN opened
        ELSE FoldSet(LAMBDA d, s : [s EXCEPT ![d] = compressNode(@)], opened, inner \cap DOMAIN nodes)

quicklistCompress(nodes, len, i) ==
    IF nodes[i].recompress THEN [nodes EXCEPT ![i] = compressNode(@)] ELSE compressAround(nodes, len, i)

recompressOnly(nodes, i) == IF nodes[i].recompress THEN [nodes EXCEPT ![i] = compressNode(@)] ELSE nodes

(* Insert new before position i; old is the position of the neighbour, once inserted,
   or 0. The recorded length does not count the new node yet. *)
quicklistInsertNode(nodes, new, i, old) ==
    LET with == InsertAt(nodes, i, new)
    IN  IF old = 0 THEN with ELSE quicklistCompress(with, Len(nodes), old)

quicklistDelNode(q, i) ==
    [nodes |-> compressAround(RemoveAt(q.nodes, i), Len(q.nodes), 0), count |-> q.count - q.nodes[i].count]

fits(sz, count) ==
    \/ fill.by = "size" /\ sz <= fill.max
    \/ fill.by = "count" /\ sz <= SafetyLimit /\ count <= fill.max

allowInsert(nodes, i, v) ==
    i \in DOMAIN nodes /\ fits(size(nodes[i].zl) + v, nodes[i].count + 1)

allowMerge(nodes, i, j) ==
    /\ {i, j} \subseteq DOMAIN nodes
    /\ fits(size(nodes[i].zl) + size(nodes[j].zl), nodes[i].count + nodes[j].count)

(* ---- pushes and pops ---- *)

pushHead(q, v) ==
    IF allowInsert(q.nodes, 1, v)
    THEN IF q.nodes[1].lzf THEN Corrupt
         ELSE [nodes |-> [q.nodes EXCEPT ![1].zl = <<v>> \o @, ![1].count = @ + 1], count |-> q.count + 1]
    ELSE [nodes |-> quicklistInsertNode(q.nodes, Node(<<v>>), 1, IF q.nodes = <<>> THEN 0 ELSE 2),
          count |-> q.count + 1]

pushTail(q, v) ==
    LET m == Len(q.nodes)
    IN  IF allowInsert(q.nodes, m, v)
        THEN IF q.nodes[m].lzf THEN Corrupt
             ELSE [nodes |-> [q.nodes EXCEPT ![m].zl = Append(@, v), ![m].count = @ + 1], count |-> q.count + 1]
        ELSE [nodes |-> quicklistInsertNode(q.nodes, Node(<<v>>), m + 1, m), count |-> q.count + 1]

delIndex(q, i, at) ==
    LET n == [q.nodes[i] EXCEPT !.zl = RemoveAt(@, at), !.count = @ - 1]
        r == [q EXCEPT !.nodes[i] = n]
    IN  [(IF n.count = 0 THEN quicklistDelNode(r, i) ELSE r) EXCEPT !.count = @ - 1]

quicklistPop(q, head) ==
    LET i == IF head THEN 1 ELSE Len(q.nodes)
    IN  IF q.nodes[i].lzf THEN Corrupt ELSE delIndex(q, i, IF head THEN 1 ELSE Len(q.nodes[i].zl))

(* ---- positions ---- *)

before(nodes, i) == FoldSeq(LAMBDA n, a : a + n.count, 0, SubSeq(nodes, 1, i - 1))

(* quicklistIndex: the node and the offset in it of an index from the head, which
   leaves the node decompressed. *)
quicklistIndex(q, idx) ==
    LET i == CHOOSE d \in DOMAIN q.nodes : before(q.nodes, d) <= idx /\ idx < before(q.nodes, d + 1)
    IN  [nodes |-> [q.nodes EXCEPT ![i] = decompressNodeForUse(@)], node |-> i, at |-> idx - before(q.nodes, i) + 1]

replaceAtIndex(q, idx, v) ==
    LET e == quicklistIndex(q, idx)
        set == [e.nodes EXCEPT ![e.node].zl[e.at] = v]
    IN  [q EXCEPT !.nodes = quicklistCompress(set, Len(set), e.node)]

(* ---- insertion next to an element ---- *)

MergeNodes(q, i) ==
    LET a == q.nodes[i]
        b == q.nodes[i + 1]
        both == a.zl \o b.zl
        keepFirst == Len(a.zl) >= Len(b.zl)
        kept == [decompressNode(IF keepFirst THEN a ELSE b) EXCEPT !.zl = both, !.count = Len(both)]
        gone == [decompressNode(IF keepFirst THEN b ELSE a) EXCEPT !.count = 0]
        r == quicklistDelNode([q EXCEPT !.nodes[i] = IF keepFirst THEN kept ELSE gone,
                                        !.nodes[i + 1] = IF keepFirst THEN gone ELSE kept],
                              IF keepFirst THEN i + 1 ELSE i)
    IN  [r EXCEPT !.nodes = quicklistCompress(@, Len(@), i)]

(* Merge the two before the centre, the two after it, the centre with the one before,
   and the result with the one after. *)
mergeNodes(q, center) ==
    LET m1 == allowMerge(q.nodes, center - 2, center - 1)
        q1 == IF m1 THEN MergeNodes(q, center - 2) ELSE q
        c1 == IF m1 THEN center - 1 ELSE center
        m2 == allowMerge(q1.nodes, c1 + 1, c1 + 2)
        q2 == IF m2 THEN MergeNodes(q1, c1 + 1) ELSE q1
        m3 == allowMerge(q2.nodes, c1 - 1, c1)
        q3 == IF m3 THEN MergeNodes(q2, c1 - 1) ELSE q2
        c3 == IF m3 THEN c1 - 1 ELSE c1
    IN  IF allowMerge(q3.nodes, c3, c3 + 1) THEN MergeNodes(q3, c3) ELSE q3

(* _quicklistInsert next to the element at of node i. The code takes the element for
   the last of the node when its offset from 0 equals the count, which it never does. *)
insertEntry(q, i, at, v, after) ==
    LET full == ~allowInsert(q.nodes, i, v)
        atHead == ~after /\ at = 1
        n == decompressNodeForUse(q.nodes[i])
        at1 == IF after THEN at + 1 ELSE at
        placed == recompressOnly([q.nodes EXCEPT ![i] = [n EXCEPT !.zl = InsertAt(@, at1, v), !.count = @ + 1]], i)
        p == decompressNodeForUse(q.nodes[i - 1])
        inPrev == recompressOnly([q.nodes EXCEPT ![i - 1] = [p EXCEPT !.zl = Append(@, v), !.count = @ + 1]], i - 1)
        left == SubSeq(n.zl, 1, at1 - 1)
        right == SubSeq(n.zl, at1, Len(n.zl))
        new == Node(IF after THEN <<v>> \o right ELSE Append(left, v))
        old == [n EXCEPT !.zl = IF after THEN left ELSE right, !.count = IF after THEN Len(left) ELSE Len(right)]
        split == quicklistInsertNode([q.nodes EXCEPT ![i] = old], new, IF after THEN i + 1 ELSE i,
                                     IF after THEN i ELSE i + 1)
    IN  [(IF ~full THEN [q EXCEPT !.nodes = placed]
          ELSE IF atHead /\ i > 1 /\ allowInsert(q.nodes, i - 1, v) THEN [q EXCEPT !.nodes = inPrev]
          ELSE IF atHead /\ i > 1 THEN [q EXCEPT !.nodes = quicklistInsertNode(@, Node(<<v>>), i, i + 1)]
          ELSE mergeNodes([q EXCEPT !.nodes = split], IF after THEN i ELSE i + 1))
            EXCEPT !.count = @ + 1]

(* ---- ranges and iterators ---- *)

(* quicklistDelRange of the first count elements, or of the last. *)
RECURSIVE delFirst(_, _)
delFirst(q, count) ==
    IF count = 0 THEN q
    ELSE LET n == q.nodes[1] IN
         IF count >= n.count THEN delFirst(quicklistDelNode(q, 1), count - n.count)
         ELSE LET cut == [decompressNodeForUse(n) EXCEPT !.zl = SubSeq(@, count + 1, Len(@)), !.count = @ - count]
              IN  [nodes |-> recompressOnly([q.nodes EXCEPT ![1] = cut], 1), count |-> q.count - count]

RECURSIVE delFrom(_, _)
delFrom(q, i) == IF i > Len(q.nodes) THEN q ELSE delFrom(quicklistDelNode(q, i), i)

(* quicklistIndex has decompressed the first node the range touches. *)
delLast(q, count) ==
    LET e == quicklistIndex(q, q.count - count)
        del == e.nodes[e.node].count - e.at + 1
        cut == [e.nodes[e.node] EXCEPT !.zl = SubSeq(@, 1, e.at - 1), !.count = @ - del]
        r == [nodes |-> [e.nodes EXCEPT ![e.node] = cut], count |-> q.count - del]
    IN  IF cut.count = 0 THEN delFrom(quicklistDelNode(r, e.node), e.node)
        ELSE delFrom([r EXCEPT !.nodes = recompressOnly(@, e.node)], e.node + 1)

delRange(q, start, count) ==
    LET extent == IF count > q.count THEN q.count ELSE count
    IN  IF count <= 0 \/ q.count = 0 THEN q ELSE IF start = 0 THEN delFirst(q, extent) ELSE delLast(q, extent)

(* Iterate from the element at of node i, in the direction given, deleting the first n
   elements of size v and leaving the nodes as quicklistNext does; with stop the
   iteration ends at the first element of size v instead. The iterator is released
   without recompressing its node. *)
RECURSIVE iterate(_, _, _, _, _, _, _)
iterate(q, i, at, forward, v, n, stop) ==
    IF i \notin DOMAIN q.nodes \/ n = 0 THEN [q |-> q, node |-> 0, at |-> 0]
    ELSE LET o == [q EXCEPT !.nodes[i] = decompressNodeForUse(@)]
             zl == o.nodes[i].zl
         IN  IF at \notin DOMAIN zl
             THEN LET left == [o EXCEPT !.nodes = quicklistCompress(@, Len(@), i)]
                  IN  IF forward THEN iterate(left, i + 1, 1, forward, v, n, stop)
                      ELSE iterate(left, i - 1, IF i > 1 THEN Len(left.nodes[i - 1].zl) ELSE 0, forward, v, n, stop)
             ELSE IF zl[at] # v THEN iterate(o, i, IF forward THEN at + 1 ELSE at - 1, forward, v, n, stop)
             ELSE IF stop THEN [q |-> o, node |-> i, at |-> at]
             ELSE LET d == delIndex(o, i, at)
                      gone == Len(d.nodes) < Len(o.nodes)
                  IN  IF forward THEN iterate(d, i, IF gone THEN 1 ELSE at, forward, v, n - 1, stop)
                      ELSE IF gone
                      THEN iterate(d, i - 1, IF i > 1 THEN Len(d.nodes[i - 1].zl) ELSE 0, forward, v, n - 1, stop)
                      ELSE iterate(d, i, at - 1, forward, v, n - 1, stop)

(* ---- the operations the list type uses ---- *)

Result(q, s) ==
    /\ ql' = q /\ elems' = IF q = Corrupt THEN <<>> ELSE s
    /\ UNCHANGED <<fill, compress>>

Room == Len(elems) < MaxElements

quicklistPushHead(v) == Room /\ Result(pushHead(ql, v), <<v>> \o elems)
quicklistPushTail(v) == Room /\ Result(pushTail(ql, v), Append(elems, v))
PopHead == ql.count > 0 /\ Result(quicklistPop(ql, TRUE), Tail(elems))
PopTail == ql.count > 0 /\ Result(quicklistPop(ql, FALSE), Front(elems))

lindex(idx) == idx < ql.count /\ Result([ql EXCEPT !.nodes = quicklistIndex(ql, idx).nodes], elems)
quicklistReplaceAtIndex(idx, v) == idx < ql.count /\ Result(replaceAtIndex(ql, idx, v), [elems EXCEPT ![idx + 1] = v])

ltrim(first, last) ==
    /\ ql.count > 0 /\ first + last <= ql.count
    /\ Result(delRange(delRange(ql, 0, first), -last, last), SubSeq(elems, first + 1, Len(elems) - last))

linsert(pivot, v, after) ==
    LET e == iterate(ql, 1, 1, TRUE, pivot, 1, TRUE)
        i == SelectInSeq(elems, LAMBDA x : x = pivot)
    IN  /\ Room /\ ql.count > 0
        /\ IF e.node = 0 THEN Result(e.q, elems)
           ELSE Result(insertEntry(e.q, e.node, e.at, v, after), InsertAt(elems, IF after THEN i + 1 ELSE i, v))

lrange(idx) ==
    LET e == quicklistIndex(ql, idx)
    IN  idx < ql.count /\ Result(iterate([ql EXCEPT !.nodes = e.nodes], e.node, e.at, TRUE, 0, 1, FALSE).q, elems)

RECURSIVE without(_, _, _)
without(s, v, n) ==
    IF s = <<>> THEN s
    ELSE IF Head(s) = v /\ n # 0 THEN without(Tail(s), v, n - 1)
    ELSE <<Head(s)>> \o without(Tail(s), v, n)

lrem(v, n, forward) ==
    /\ ql.count > 0
    /\ IF forward THEN Result(iterate(ql, 1, 1, TRUE, v, n, FALSE).q, without(elems, v, n))
       ELSE Result(iterate(ql, Len(ql.nodes), Len(Last(ql.nodes).zl), FALSE, v, n, FALSE).q,
                   Reverse(without(Reverse(elems), v, n)))

(* Saving walks the nodes as they are; loading appends them one by one to an empty list. *)
quicklistAppendZiplist(q, zl) ==
    [nodes |-> quicklistInsertNode(q.nodes, Node(zl), Len(q.nodes) + 1, Len(q.nodes)), count |-> q.count + Len(zl)]

saveAndLoad ==
    /\ ql.count > 0
    /\ Result(FoldLeft(LAMBDA q, n : quicklistAppendZiplist(q, n.zl), [nodes |-> <<>>, count |-> 0], ql.nodes), elems)

QuickInit ==
    /\ ql = [nodes |-> <<>>, count |-> 0] /\ elems = <<>>
    /\ fill \in Fills /\ compress \in Depths

Operation ==
    \/ \E v \in Sizes : quicklistPushHead(v) \/ quicklistPushTail(v)
    \/ PopHead \/ PopTail \/ saveAndLoad
    \/ \E i \in 0..MaxElements - 1 : lindex(i) \/ lrange(i) \/ \E v \in Sizes : quicklistReplaceAtIndex(i, v)
    \/ \E first, last \in 0..2 : ltrim(first, last)
    \/ \E p, v \in Sizes, after \in BOOLEAN : linsert(p, v, after)
    \/ \E v \in Sizes, n \in {1, -1}, forward \in BOOLEAN : lrem(v, n, forward)

QuickNext ==
    \/ ~IsCorrupt /\ Operation
    \/ IsCorrupt /\ UNCHANGED qlVars

QuickSpec == QuickInit /\ [][QuickNext]_qlVars

(* ---- properties ---- *)

(* Through splits, merges, deletions of nodes and iterations with deletion, the nodes
   hold the elements of the list in order, the counts of the nodes and of the list
   are exact, and no node is empty or has more elements than a fill by count allows
   (_quicklistInsert, _quicklistMergeNodes). Left out is what comes after a push or a
   pop at an end that is compressed, although the ends should never be: see
   EndsUncompressed. *)
HoldsElements ==
    ~IsCorrupt =>
        /\ FlattenSeq([i \in DOMAIN ql.nodes |-> ql.nodes[i].zl]) = elems
        /\ ql.count = Len(elems)
        /\ \A i \in DOMAIN ql.nodes :
              LET n == ql.nodes[i] IN
              /\ n.count = Len(n.zl) /\ n.count > 0
              /\ n.count > 1 => fits(0, n.count)

(* redis.conf:1065 of a compress depth of at least 1: "[head], [tail] will always be
   uncompressed", so that pushes and pops may take the ends for plain ziplists
   (quicklistPopCustom). *)
EndsUncompressed ==
    ~IsCorrupt /\ ql.nodes # <<>> => ~ql.nodes[1].lzf /\ ~Last(ql.nodes).lzf
=============================================================================
