------------------------------- MODULE SortedSet -------------------------------
(* The sorted set of t_zset.c behind one key, in its two encodings: a ziplist of
   element-score pairs, and a skiplist with spans beside a dictionary from the
   elements to their scores. The commands that change the set are actions; the
   commands that query it are operators, which the properties compare with the
   definition of the same query on the plain contents of the set.

   An element is a one-byte string, written as the number of its byte, so sdscmp
   is the difference of two elements. Head and NULL are not elements. *)
EXTENDS Integers, Sequences, FiniteSets, SequencesExt

CONSTANTS
    Elements,          \* a set of positive naturals
    Long,              \* the elements longer than zset-max-ziplist-value
    Scores,            \* the scores ZADD is given
    MaxLevel,          \* ZSKIPLIST_MAXLEVEL
    MaxZiplistEntries, \* zset-max-ziplist-entries
    Operand            \* a plain set, the other input of ZUNIONSTORE and ZINTERSTORE

VARIABLES
    zobj,     \* the object at the key, or NoKey
    content   \* what the commands so far have put there: element -> score

zsetVars == <<zobj, content>>

Head0 == 0
NULL == -1
NoKey == [encoding |-> "none"]
Infinity == 1000
NaN == 2000
Increments == {1, -Infinity}   \* the increments ZINCRBY is given
MinString == 0
MaxString == 100
MaxRank == 100

Finite(s) == s \notin {Infinity, -Infinity, NaN}
plus(a, b) == IF NaN \in {a, b} THEN NaN
              ELSE IF Finite(a) /\ Finite(b) THEN a + b
              ELSE IF Finite(b) \/ a = b THEN a ELSE IF Finite(a) THEN b ELSE NaN
times(w, s) == IF Finite(s) THEN w * s ELSE IF w = 0 THEN NaN ELSE s
Less(a, b) == NaN \notin {a, b} /\ a < b

(* ---- the skiplist ---- *)

zslCreate == [node |-> (Head0 :> [score |-> 0, back |-> NULL,
                                  lvl |-> [i \in 1..MaxLevel |-> [fwd |-> NULL, span |-> 0]]]),
              tail |-> NULL, level |-> 1, length |-> 0]

Nodes(z) == DOMAIN z.node \ {Head0}

(* Go right along level i from the position at, through the nodes of S, as long as
   the rank stays within limit. A position is a node and the rank it was met at. *)
RECURSIVE along(_, _, _, _, _)
along(z, i, at, S, limit) ==
    LET step == z.node[at.node].lvl[i]
    IN  IF step.fwd \in S /\ at.rank + step.span <= limit
        THEN along(z, i, [node |-> step.fwd, rank |-> at.rank + step.span], S, limit)
        ELSE at

(* The position where the walk leaves each level, from the highest down (update
   and rank in the code). *)
descend(z, S, limit) ==
    LET update[i \in 1..z.level] ==
            along(z, i, IF i = z.level THEN [node |-> Head0, rank |-> 0] ELSE update[i + 1], S, limit)
    IN  [i \in 1..z.level |-> update[i]]

Precedes(z, n, score, ele) == z.node[n].score < score \/ (z.node[n].score = score /\ n < ele)

zslInsert(z, score, ele, level) ==
    LET walked == descend(z, {n \in Nodes(z) : Precedes(z, n, score, ele)}, MaxRank)
        top == IF level > z.level THEN level ELSE z.level
        update == [i \in 1..top |-> IF i <= z.level THEN walked[i] ELSE [node |-> Head0, rank |-> 0]]
        old(i) == IF i <= z.level THEN z.node[update[i].node].lvl[i]
                  ELSE [fwd |-> NULL, span |-> z.length]
        hop(i) == update[1].rank - update[i].rank
        next == old(1).fwd
        relinked(n) == [i \in DOMAIN z.node[n].lvl |->
                          IF i > top \/ update[i].node # n THEN z.node[n].lvl[i]
                          ELSE IF i <= level THEN [fwd |-> ele, span |-> hop(i) + 1]
                          ELSE [old(i) EXCEPT !.span = @ + 1]]
    IN  [node |-> [n \in DOMAIN z.node \cup {ele} |->
                     IF n = ele
                     THEN [score |-> score,
                           back |-> IF update[1].node = Head0 THEN NULL ELSE update[1].node,
                           lvl |-> [i \in 1..level |-> [fwd |-> old(i).fwd,
                                                        span |-> old(i).span - hop(i)]]]
                     ELSE [z.node[n] EXCEPT !.lvl = relinked(n),
                                            !.back = IF n = next THEN ele ELSE @]],
         tail |-> IF next = NULL THEN ele ELSE z.tail,
         level |-> top,
         length |-> z.length + 1]

zslDeleteNode(z, x, update) ==
    LET gone == z.node[x]
        next == gone.lvl[1].fwd
        unlinked(n) == [i \in DOMAIN z.node[n].lvl |->
                          LET l == z.node[n].lvl[i]
                          IN  IF i > z.level \/ update[i].node # n THEN l
                              ELSE IF l.fwd = x THEN [fwd |-> gone.lvl[i].fwd,
                                                      span |-> l.span + gone.lvl[i].span - 1]
                              ELSE [l EXCEPT !.span = @ - 1]]
        node == [n \in DOMAIN z.node \ {x} |->
                   [z.node[n] EXCEPT !.lvl = unlinked(n),
                                     !.back = IF n = next THEN gone.back ELSE @]]
        used == {i \in 1..z.level : node[Head0].lvl[i].fwd # NULL} \cup {1}
    IN  [node |-> node,
         tail |-> IF next = NULL THEN gone.back ELSE z.tail,
         level |-> CHOOSE i \in used : \A j \in used : j <= i,
         length |-> z.length - 1]

(* The node of the given score and element leaves the skiplist, when the walk meets it. *)
zslDelete(z, score, ele) ==
    LET update == descend(z, {n \in Nodes(z) : Precedes(z, n, score, ele)}, MaxRank)
        x == z.node[update[1].node].lvl[1].fwd
    IN  IF x # NULL /\ z.node[x].score = score /\ x = ele THEN zslDeleteNode(z, x, update) ELSE z

(* The nodes after update[1] leave the skiplist one by one, as long as they are in S. *)
RECURSIVE deleteWhile(_, _, _)
deleteWhile(z, update, S) ==
    LET x == z.node[update[1].node].lvl[1].fwd
    IN  IF x \in S THEN deleteWhile(zslDeleteNode(z, x, update), update, S) ELSE z

(* ---- ranges of scores and of elements ---- *)

GteMin(v, r) == IF r.minex THEN v > r.min ELSE v >= r.min
LteMax(v, r) == IF r.maxex THEN v < r.max ELSE v <= r.max
EmptyScoreRange(r) == r.min > r.max \/ (r.min = r.max /\ (r.minex \/ r.maxex))

sdscmplex(a, b) == IF a = b THEN 0
                   ELSE IF a = MinString \/ b = MaxString THEN -1
                   ELSE IF a = MaxString \/ b = MinString THEN 1 ELSE a - b
LexGteMin(v, r) == IF r.minex THEN sdscmplex(v, r.min) > 0 ELSE sdscmplex(v, r.min) >= 0
LexLteMax(v, r) == IF r.maxex THEN sdscmplex(v, r.max) < 0 ELSE sdscmplex(v, r.max) <= 0
EmptyLexRange(r) == sdscmplex(r.min, r.max) > 1 \/ (r.min = r.max /\ (r.minex \/ r.maxex))

(* What a range, of either kind, says of a set of elements with scores: the elements
   not below its minimum, the elements not above its maximum, and whether the code
   answers "empty" before it looks at any. The functions on ranges of elements are
   those on ranges of scores with the second definition for the first. *)
ScoreBounds(score, r) == [above |-> {e \in DOMAIN score : GteMin(score[e], r)},
                          below |-> {e \in DOMAIN score : LteMax(score[e], r)},
                          empty |-> EmptyScoreRange(r)]
LexBounds(score, r) == [above |-> {e \in DOMAIN score : LexGteMin(e, r)},
                        below |-> {e \in DOMAIN score : LexLteMax(e, r)},
                        empty |-> EmptyLexRange(r)]
Bounds(score, lex, r) == IF lex THEN LexBounds(score, r) ELSE ScoreBounds(score, r)

zslScores(z) == [n \in Nodes(z) |-> z.node[n].score]

zslIsInRange(z, b) ==
    ~b.empty /\ z.tail \in b.above /\ z.node[Head0].lvl[1].fwd \in b.below

zslFirstInRange(z, b) ==
    LET x == z.node[descend(z, Nodes(z) \ b.above, MaxRank)[1].node].lvl[1].fwd
    IN  IF zslIsInRange(z, b) /\ x \in b.below THEN x ELSE NULL

zslLastInRange(z, b) ==
    LET x == descend(z, b.below, MaxRank)[1].node
    IN  IF zslIsInRange(z, b) /\ x \in b.above THEN x ELSE NULL

zslDeleteRange(z, b) ==
    deleteWhile(z, descend(z, Nodes(z) \ b.above, MaxRank), b.below)

(* The nodes of ranks start to end, counted from 1. *)
zslDeleteRangeByRank(z, start, end) ==
    LET update == descend(z, Nodes(z), start - 1)
        RECURSIVE from(_, _, _)
        from(y, n, rank) == IF n = NULL \/ rank > end THEN y
                            ELSE from(zslDeleteNode(y, n, update), y.node[n].lvl[1].fwd, rank + 1)
    IN  from(z, z.node[update[1].node].lvl[1].fwd, update[1].rank + 1)

zslGetRank(z, score, ele) ==
    LET at == descend(z, {n \in Nodes(z) : Precedes(z, n, score, ele) \/ n = ele}, MaxRank)
        met == {i \in 1..z.level : at[i].node = ele}
    IN  IF met = {} THEN 0 ELSE at[CHOOSE i \in met : \A j \in met : j <= i].rank

zslGetElementByRank(z, rank) ==
    LET at == descend(z, Nodes(z), rank)
        met == {i \in 1..z.level : at[i].rank = rank}
    IN  IF met = {} THEN NULL ELSE at[CHOOSE i \in met : \A j \in met : j <= i].node

(* ---- the ziplist: a sequence of pairs ---- *)

zzlFind(zl, ele) == SelectInSeq(zl, LAMBDA p : p.ele = ele)

(* Before the first pair with a greater score, or with the same score and a greater
   element; at the tail when there is none. *)
zzlInsert(zl, score, ele) ==
    LET i == SelectInSeq(zl, LAMBDA p : p.score > score \/ (p.score = score /\ p.ele > ele))
        pair == [ele |-> ele, score |-> score]
    IN  IF i = 0 THEN Append(zl, pair) ELSE InsertAt(zl, i, pair)

zzlIsInRange(zl, b) ==
    ~b.empty /\ zl # <<>> /\ zl[Len(zl)].ele \in b.above /\ zl[1].ele \in b.below

(* The index of the pair, 0 for none. *)
zzlFirstInRange(zl, b) ==
    LET i == SelectInSeq(zl, LAMBDA p : p.ele \in b.above)
    IN  IF zzlIsInRange(zl, b) /\ i # 0 /\ zl[i].ele \in b.below THEN i ELSE 0

zzlLastInRange(zl, b) ==
    LET i == SelectLastInSeq(zl, LAMBDA p : p.ele \in b.below)
    IN  IF zzlIsInRange(zl, b) /\ i # 0 /\ zl[i].ele \in b.above THEN i ELSE 0

zzlDeleteRange(zl, b) ==
    LET i == zzlFirstInRange(zl, b)
        RECURSIVE drop(_)
        drop(l) == IF i <= Len(l) /\ l[i].ele \in b.below THEN drop(RemoveAt(l, i)) ELSE l
    IN  IF i = 0 THEN zl ELSE drop(zl)

zzlDeleteRangeByRank(zl, start, end) ==
    SubSeq(zl, 1, start - 1) \o SubSeq(zl, end + 1, Len(zl))

zzlScores(zl) == [e \in {zl[i].ele : i \in DOMAIN zl} |-> zl[zzlFind(zl, e)].score]

(* ---- the object, in either encoding ---- *)

Ziplist(zl) == [encoding |-> "ziplist", zl |-> zl]
Skiplist(zsl, dict) == [encoding |-> "skiplist", zsl |-> zsl, dict |-> dict]
Zipped(o) == o.encoding = "ziplist"

zsetLength(o) == IF Zipped(o) THEN Len(o.zl) ELSE o.zsl.length

(* The elements and scores an object holds. *)
held(o) == IF o = NoKey THEN <<>> ELSE IF Zipped(o) THEN zzlScores(o.zl) ELSE zslScores(o.zsl)

zsetScore(o, e) == IF Zipped(o) THEN LET i == zzlFind(o.zl, e) IN IF i = 0 THEN NaN ELSE o.zl[i].score
                   ELSE IF e \in DOMAIN o.dict THEN o.dict[e] ELSE NaN

(* level gives the level each new node draws. *)
RECURSIVE insertAll(_, _, _)
insertAll(z, zl, level) ==
    IF zl = <<>> THEN z
    ELSE insertAll(zslInsert(z, Head(zl).score, Head(zl).ele, level[Head(zl).ele]), Tail(zl), level)

RECURSIVE listed(_, _)
listed(z, n) == IF n = NULL THEN <<>>
                ELSE <<[ele |-> n, score |-> z.node[n].score]>> \o listed(z, z.node[n].lvl[1].fwd)

zsetConvert(o, level) ==
    IF Zipped(o) THEN Skiplist(insertAll(zslCreate, o.zl, level), zzlScores(o.zl))
    ELSE Ziplist(listed(o.zsl, o.zsl.node[Head0].lvl[1].fwd))

zsetConvertToZiplistIfNeeded(o, haslong, level) ==
    IF ~Zipped(o) /\ o.zsl.length <= MaxZiplistEntries /\ ~haslong THEN zsetConvert(o, level) ELSE o

(* A new element, or one whose score changes: the old pair or node goes first. *)
put(o, score, e, level) ==
    LET known == zsetScore(o, e) # NaN
        zl == IF known THEN RemoveAt(o.zl, zzlFind(o.zl, e)) ELSE o.zl
        added == Ziplist(zzlInsert(zl, score, e))
        zsl == IF known THEN zslDelete(o.zsl, o.dict[e], e) ELSE o.zsl
    IN  IF ~Zipped(o) THEN Skiplist(zslInsert(zsl, score, e, level[e]), (e :> score) @@ o.dict)
        ELSE IF ~known /\ (Len(added.zl) > MaxZiplistEntries \/ e \in Long) THEN zsetConvert(added, level)
        ELSE added

(* zsetAdd: flags is a subset of {"nx", "xx", "incr"}. *)
zsetAdd(o, score, e, flags, level) ==
    LET cur == zsetScore(o, e)
        new == IF "incr" \in flags THEN plus(cur, score) ELSE score
    IN  IF cur = NaN THEN (IF "xx" \in flags THEN [ok |-> TRUE, o |-> o] ELSE [ok |-> TRUE, o |-> put(o, score, e, level)])
        ELSE IF "nx" \in flags THEN [ok |-> TRUE, o |-> o]
        ELSE IF new = NaN THEN [ok |-> FALSE, o |-> o]
        ELSE [ok |-> TRUE, o |-> IF new # cur THEN put(o, new, e, level) ELSE o]

zsetDel(o, e) ==
    IF zsetScore(o, e) = NaN THEN o
    ELSE IF Zipped(o) THEN Ziplist(RemoveAt(o.zl, zzlFind(o.zl, e)))
    ELSE Skiplist(zslDelete(o.zsl, o.dict[e], e), [x \in DOMAIN o.dict \ {e} |-> o.dict[x]])

(* The rank from 0, -1 for an element that is not there. *)
zsetRank(o, e, reverse) ==
    LET llen == zsetLength(o)
        rank == IF Zipped(o) THEN zzlFind(o.zl, e) ELSE zslGetRank(o.zsl, o.dict[e], e)
    IN  IF zsetScore(o, e) = NaN THEN -1 ELSE IF reverse THEN llen - rank ELSE rank - 1

(* ---- the commands that write ---- *)

Levels == [Elements -> 1..MaxLevel]

(* An empty sorted set is deleted with its key. *)
stored(o) == IF zsetLength(o) = 0 THEN NoKey ELSE o

(* ZADD with one pair, and ZINCRBY. *)
zaddGenericCommand(score, e, flags, level) ==
    LET o == IF zobj # NoKey THEN zobj
             ELSE IF MaxZiplistEntries = 0 \/ e \in Long THEN Skiplist(zslCreate, <<>>)
             ELSE Ziplist(<<>>)
        cur == IF e \in DOMAIN content THEN content[e] ELSE 0
        new == IF "incr" \in flags THEN plus(cur, score) ELSE score
        skipped == \/ "nx" \in flags /\ e \in DOMAIN content
                   \/ "xx" \in flags /\ e \notin DOMAIN content
                   \/ new = NaN
    IN  /\ ~({"nx", "xx"} \subseteq flags)
        /\ new \in Scores \cup {NaN}
        /\ zobj' = IF zobj = NoKey /\ "xx" \in flags THEN zobj ELSE zsetAdd(o, score, e, flags, level).o
        /\ content' = IF skipped THEN content ELSE (e :> new) @@ content

(* ZREM of several elements, in the order of the command, until the set is empty. *)
zremCommand(es) ==
    LET RECURSIVE rem(_, _)
        rem(o, rest) == IF rest = <<>> \/ zsetLength(o) = 0 THEN o ELSE rem(zsetDel(o, Head(rest)), Tail(rest))
    IN  /\ zobj # NoKey
        /\ zobj' = stored(rem(zobj, es))
        /\ content' = [e \in DOMAIN content \ Range(es) |-> content[e]]

sanitized(llen, start, end) ==
    LET s == IF start < 0 THEN llen + start ELSE start
        e == IF end < 0 THEN llen + end ELSE end
    IN  [start |-> IF s < 0 THEN 0 ELSE s, end |-> IF e >= llen THEN llen - 1 ELSE e]

restricted(dict, z) == [e \in DOMAIN dict \cap Nodes(z) |-> dict[e]]

zremrangebyrank(start, end) ==
    LET llen == zsetLength(zobj)
        r == sanitized(llen, start, end)
        zsl == zslDeleteRangeByRank(zobj.zsl, r.start + 1, r.end + 1)
        order == SetToSortSeq(DOMAIN content, LAMBDA a, b : content[a] < content[b] \/ (content[a] = content[b] /\ a < b))
    IN  /\ zobj # NoKey
        /\ r.start <= r.end /\ r.start < llen
        /\ zobj' = stored(IF Zipped(zobj) THEN Ziplist(zzlDeleteRangeByRank(zobj.zl, r.start + 1, r.end + 1))
                          ELSE Skiplist(zsl, restricted(zobj.dict, zsl)))
        /\ content' = [e \in DOMAIN content \ {order[i] : i \in (r.start + 1)..(r.end + 1)} |-> content[e]]

OneScore(c) == \A a, b \in DOMAIN c : c[a] = c[b]

deletedRange(o, b) ==
    LET zsl == zslDeleteRange(o.zsl, b)
    IN  stored(IF Zipped(o) THEN Ziplist(zzlDeleteRange(o.zl, b)) ELSE Skiplist(zsl, restricted(o.dict, zsl)))

zremrangebyscore(r) ==
    LET b == ScoreBounds(held(zobj), r)
    IN  /\ zobj # NoKey
        /\ zobj' = deletedRange(zobj, b)
        /\ content' = [e \in DOMAIN content \ (b.above \cap b.below) |-> content[e]]

(* Only meaningful when all the scores are equal; it deletes what the walk meets when
   they are not. *)
zremrangebylex(r) ==
    LET b == LexBounds(held(zobj), r)
        o == deletedRange(zobj, b)
        left == IF OneScore(content) THEN DOMAIN content \ (b.above \cap b.below) ELSE DOMAIN held(o)
    IN  /\ zobj # NoKey
        /\ zobj' = o
        /\ content' = [e \in left |-> content[e]]

zunionInterAggregate(target, val, aggregate) ==
    CASE aggregate = "sum" -> LET t == plus(target, val) IN IF t = NaN THEN 0 ELSE t
      [] aggregate = "min" -> IF Less(val, target) THEN val ELSE target
      [] aggregate = "max" -> IF Less(target, val) THEN val ELSE target

(* An input: a plain set, or a sorted set in either encoding; its elements with their
   scores as the iterator returns them, and the score of one of them. *)
zuiIterated(src) == IF src.type = "set" THEN [e \in src.subject |-> 1] ELSE held(src.subject)
zuiFind(src, e) == IF src.type = "set" THEN (IF e \in src.subject THEN 1 ELSE NaN)
                   ELSE IF src.subject = NoKey THEN NaN ELSE zsetScore(src.subject, e)
zuiLength(src) == Cardinality(DOMAIN zuiIterated(src))

weighed(w, s) == IF times(w, s) = NaN THEN 0 ELSE times(w, s)

(* The two inputs, the smaller first. *)
interResult(small, large, aggregate) ==
    LET it == zuiIterated(small)
        value(e) == IF large.type = small.type /\ large.subject = small.subject THEN it[e] ELSE zuiFind(large, e)
    IN  [e \in {x \in DOMAIN it : value(x) # NaN} |->
            zunionInterAggregate(weighed(small.weight, it[e]), times(large.weight, value(e)), aggregate)]

unionResult(small, large, aggregate) ==
    LET one == zuiIterated(small)
        two == zuiIterated(large)
    IN  [e \in DOMAIN one \cup DOMAIN two |->
            IF e \notin DOMAIN two THEN weighed(small.weight, one[e])
            ELSE IF e \notin DOMAIN one THEN weighed(large.weight, two[e])
            ELSE zunionInterAggregate(weighed(small.weight, one[e]), weighed(large.weight, two[e]), aggregate)]

(* What the two commands mean, on the plain contents x and y of the smaller and the
   larger input. A score that is not a number (0 times infinity) counts as 0; in
   ZINTERSTORE one of the larger input makes the sum 0 and is no minimum or maximum. *)
intended(x, y, wx, wy, union, aggregate) ==
    LET sum(a, b) == IF NaN \in {a, b} \/ {a, b} = {Infinity, -Infinity} THEN 0
                     ELSE IF {a, b} \cap {Infinity, -Infinity} # {}
                     THEN CHOOSE c \in {a, b} : ~Finite(c) ELSE a + b
        both(a, b) == CASE aggregate = "sum" -> sum(a, b)
                        [] aggregate = "min" -> Min({a, b} \ {NaN})
                        [] aggregate = "max" -> Max({a, b} \ {NaN})
    IN  [e \in IF union THEN DOMAIN x \cup DOMAIN y ELSE DOMAIN x \cap DOMAIN y |->
            IF e \notin DOMAIN y THEN weighed(wx, x[e])
            ELSE IF e \notin DOMAIN x THEN weighed(wy, y[e])
            ELSE both(weighed(wx, x[e]), IF union THEN weighed(wy, y[e]) ELSE times(wy, y[e]))]

(* The key is the destination and the first input; the second is the plain set, or
   the key again. *)
zunionInterGenericCommand(union, other, w1, w2, aggregate, level) ==
    LET src1 == [type |-> "zset", subject |-> zobj, weight |-> w1]
        src2 == IF other THEN [type |-> "set", subject |-> Operand, weight |-> w2]
                ELSE [src1 EXCEPT !.weight = w2]
        swap == zuiLength(src2) < zuiLength(src1)
        small == IF swap THEN src2 ELSE src1
        large == IF swap THEN src1 ELSE src2
        result == IF union THEN unionResult(small, large, aggregate) ELSE interResult(small, large, aggregate)
        pairs == SetToSeq({[ele |-> e, score |-> result[e]] : e \in DOMAIN result})
        dst == Skiplist(insertAll(zslCreate, pairs, level), result)
        two == IF other THEN [e \in Operand |-> 1] ELSE content
        meant == IF swap THEN intended(two, content, w2, w1, union, aggregate)
                 ELSE intended(content, two, w1, w2, union, aggregate)
    IN  /\ \A e \in DOMAIN meant : meant[e] \in Scores
        /\ zobj' = IF result = <<>> THEN NoKey
                   ELSE zsetConvertToZiplistIfNeeded(dst, DOMAIN result \cap Long # {}, level)
        /\ content' = meant

(* ---- the commands that query ---- *)

(* Up to limit entries (all when negative) of the walk from a starting entry, after
   offset entries are skipped, while they are in range. *)
taken(walk, offset, limit, S) ==
    LET rest == SubSeq(walk, offset + 1, Len(walk))
        out == SelectInSeq(rest, LAMBDA e : e \notin S)
        run == IF out = 0 THEN rest ELSE SubSeq(rest, 1, out - 1)
    IN  IF limit < 0 \/ limit > Len(run) THEN run ELSE SubSeq(run, 1, limit)

RECURSIVE backwards(_, _)
backwards(z, n) == IF n = NULL THEN <<>> ELSE <<n>> \o backwards(z, z.node[n].back)
forwards(z, n) == LET l == listed(z, n) IN [i \in DOMAIN l |-> l[i].ele]
zipped(zl) == [i \in DOMAIN zl |-> zl[i].ele]

(* ZRANGE and ZREVRANGE. *)
zrangeGenericCommand(o, start, end, reverse) ==
    LET llen == zsetLength(o)
        r == sanitized(llen, start, end)
        first == IF reverse THEN IF r.start > 0 THEN zslGetElementByRank(o.zsl, llen - r.start) ELSE o.zsl.tail
                 ELSE IF r.start > 0 THEN zslGetElementByRank(o.zsl, r.start + 1) ELSE o.zsl.node[Head0].lvl[1].fwd
        walk == IF Zipped(o) THEN LET s == zipped(o.zl) IN SubSeq(IF reverse THEN Reverse(s) ELSE s, r.start + 1, llen)
                ELSE IF reverse THEN backwards(o.zsl, first) ELSE forwards(o.zsl, first)
    IN  IF r.start > r.end \/ r.start >= llen THEN <<>> ELSE SubSeq(walk, 1, r.end - r.start + 1)

(* The entries from the first, or back from the last, that is in the bounds. *)
walkFrom(o, b, reverse) ==
    LET i == IF reverse THEN zzlLastInRange(o.zl, b) ELSE zzlFirstInRange(o.zl, b)
        ln == IF reverse THEN zslLastInRange(o.zsl, b) ELSE zslFirstInRange(o.zsl, b)
    IN  IF ~Zipped(o) THEN (IF reverse THEN backwards(o.zsl, ln) ELSE forwards(o.zsl, ln))
        ELSE IF i = 0 THEN <<>>
        ELSE IF reverse THEN Reverse(SubSeq(zipped(o.zl), 1, i))
        ELSE SubSeq(zipped(o.zl), i, Len(o.zl))

(* Z[REV]RANGEBYSCORE and Z[REV]RANGEBYLEX with LIMIT. *)
genericZrangebyscoreCommand(o, r, reverse, offset, limit) ==
    LET b == ScoreBounds(held(o), r)
    IN  taken(walkFrom(o, b, reverse), offset, limit, IF reverse THEN b.above ELSE b.below)

genericZrangebylexCommand(o, r, reverse, offset, limit) ==
    LET b == LexBounds(held(o), r)
    IN  taken(walkFrom(o, b, reverse), offset, limit, IF reverse THEN b.above ELSE b.below)

(* A walk in the ziplist, two ranks in the skiplist. *)
counted(o, b) ==
    LET first == zslFirstInRange(o.zsl, b)
        last == zslLastInRange(o.zsl, b)
        rank(n) == zslGetRank(o.zsl, o.zsl.node[n].score, n)
    IN  IF Zipped(o) THEN Len(taken(walkFrom(o, b, FALSE), 0, -1, b.below))
        ELSE IF first = NULL THEN 0
        ELSE o.zsl.length - (rank(first) - 1) - IF last = NULL THEN 0 ELSE o.zsl.length - rank(last)

zcountCommand(o, r) == counted(o, ScoreBounds(held(o), r))
zlexcountCommand(o, r) == counted(o, LexBounds(held(o), r))

(* ---- the specification ---- *)

Ranges(values) == [min : values, max : values, minex : BOOLEAN, maxex : BOOLEAN]
ScoreRanges == Ranges(Scores)
LexRanges == {r \in Ranges(Elements \cup {MinString, MaxString}) :
                 /\ r.minex => r.min \in Elements
                 /\ r.maxex => r.max \in Elements}
Indexes == -(Cardinality(Elements) + 1)..Cardinality(Elements)

Init == zobj = NoKey /\ content = <<>>

Next ==
    \/ \E e \in Elements, flags \in SUBSET {"nx", "xx"}, level \in Levels :
          \/ \E s \in Scores : zaddGenericCommand(s, e, flags, level)
          \/ \E s \in Increments : zaddGenericCommand(s, e, flags \cup {"incr"}, level)
    \/ \E a, b \in Elements : zremCommand(<<a, b>>)
    \/ \E start, end \in Indexes : zremrangebyrank(start, end)
    \/ \E r \in ScoreRanges : zremrangebyscore(r)
    \/ \E r \in LexRanges : zremrangebylex(r)
    \/ \E union, other \in BOOLEAN, w1, w2 \in {0, 1}, a \in {"sum", "min", "max"}, level \in Levels :
          zunionInterGenericCommand(union, other, w1, w2, a, level)

Spec == Init /\ [][Next]_zsetVars

(* ---- properties ---- *)

(* The contents in the order of the sorted set. *)
Order == SetToSortSeq(DOMAIN content, LAMBDA a, b : content[a] < content[b] \/ (content[a] = content[b] /\ a < b))

(* Whatever commands came before, and however often the set changed its encoding,
   the key exists exactly when the set is not empty, holds the elements and scores
   the commands put there in order, and in the skiplist encoding the dictionary
   agrees with the skiplist, every span is the number of nodes it passes, the
   backward links mirror the forward links and no level above the highest is used. *)
EncodingHoldsContent ==
    /\ zobj = NoKey <=> content = <<>>
    /\ zobj # NoKey =>
        /\ zsetLength(zobj) = Len(Order)
        /\ Zipped(zobj) => zipped(zobj.zl) = Order /\ zzlScores(zobj.zl) = content
        /\ ~Zipped(zobj) =>
            LET z == zobj.zsl
                pos(n) == IF n = Head0 THEN 0 ELSE CHOOSE i \in DOMAIN Order : Order[i] = n
            IN  /\ forwards(z, z.node[Head0].lvl[1].fwd) = Order
                /\ backwards(z, z.tail) = Reverse(Order)
                /\ zobj.dict = content /\ zslScores(z) = content
                /\ z.level = 1 \/ z.node[Head0].lvl[z.level].fwd # NULL
                /\ \A i \in z.level+1..MaxLevel : z.node[Head0].lvl[i].fwd = NULL
                /\ \A n \in DOMAIN z.node : \A i \in DOMAIN z.node[n].lvl :
                      i <= z.level =>
                        z.node[n].lvl[i].span = (IF z.node[n].lvl[i].fwd = NULL THEN z.length
                                                 ELSE pos(z.node[n].lvl[i].fwd)) - pos(n)

(* ZRANK, ZREVRANK, ZRANGE and ZREVRANGE answer with the position in the order of the
   set and with the elements at the positions asked for, negative and too large
   indexes included, in either encoding. *)
RanksExact ==
    zobj # NoKey =>
        LET llen == Len(Order)
            at(i) == IF i < 0 THEN llen + i ELSE i
        IN  /\ \A e \in Elements, reverse \in BOOLEAN :
                 LET s == IF reverse THEN Reverse(Order) ELSE Order
                 IN  zsetRank(zobj, e, reverse) = SelectInSeq(s, LAMBDA x : x = e) - 1
            /\ \A start, end \in Indexes, reverse \in BOOLEAN :
                 LET s == IF reverse THEN Reverse(Order) ELSE Order
                 IN  zrangeGenericCommand(zobj, start, end, reverse)
                       = SelectSeq(s, LAMBDA x : zsetRank(zobj, x, reverse) \in at(start)..at(end))

(* ZRANGEBYSCORE, ZREVRANGEBYSCORE and ZCOUNT answer with exactly the elements of the
   range, in order and after LIMIT, for every range, empty, inverted and open ones
   included; so do the commands by element when all the scores are equal. *)
RangesExact ==
    zobj # NoKey =>
        \A lex \in BOOLEAN : (lex => OneScore(content)) =>
            \A r \in IF lex THEN LexRanges ELSE ScoreRanges :
                LET b == Bounds(content, lex, r)
                    range == SelectSeq(Order, LAMBDA e : e \in b.above \cap b.below)
                IN  /\ Len(range) = IF lex THEN zlexcountCommand(zobj, r) ELSE zcountCommand(zobj, r)
                    /\ \A reverse \in BOOLEAN, offset \in 0..1, limit \in {-1, 1} :
                          LET s == IF reverse THEN Reverse(range) ELSE range
                              rest == SubSeq(s, offset + 1, Len(s))
                          IN  (IF lex THEN genericZrangebylexCommand(zobj, r, reverse, offset, limit)
                               ELSE genericZrangebyscoreCommand(zobj, r, reverse, offset, limit))
                                = IF limit < 0 \/ rest = <<>> THEN rest ELSE SubSeq(rest, 1, 1)
====
