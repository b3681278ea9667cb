------------------------------ MODULE DataTypes -----------------------------
(***************************************************************************)
(* The types set, hash and list (t_set.c, t_hash.c, t_list.c) with the     *)
(* arrays of integers of intset.c: for each, the keys, the commands on     *)
(* them, and a copy at the other end of what is propagated.                *)
(***************************************************************************)
EXTENDS Integers, Sequences, FiniteSets, FiniteSetsExt, SequencesExt

-----------------------------------------------------------------------------
(* intset.c: a sorted array of integers in one block of memory, whose elements are
   all stored with the same width. The three widths of the code are 1, 2 and 4 cells
   here, and stand for 2, 4 and 8 bytes. A cell holds one part of a value written
   with some width, so a read at a wrong offset, with a wrong width or after a part
   was overwritten does not give the value back. *)

CONSTANTS Max1, Max2   \* the largest values of the two smaller widths (INT16_MAX, INT32_MAX)

Garbage == 1000000

valueEncoding(v) == IF v < -(Max2 + 1) \/ v > Max2 THEN 4
                    ELSE IF v < -(Max1 + 1) \/ v > Max1 THEN 2 ELSE 1

Cell(v, enc, part) == [v |-> v, enc |-> enc, part |-> part]
Unset == Cell(Garbage, 0, 0)

intsetNew == [encoding |-> 1, length |-> 0, contents |-> <<>>]

getEncoded(is, pos, enc) ==
    LET first == is.contents[pos * enc + 1]
    IN  IF \A p \in 1..enc : is.contents[pos * enc + p] = Cell(first.v, enc, p)
        THEN first.v ELSE Garbage

intsetGet(is, pos) == getEncoded(is, pos, is.encoding)

intsetSet(is, pos, value) ==
    [is EXCEPT !.contents = [c \in DOMAIN is.contents |->
        LET p == c - pos * is.encoding
        IN  IF p \in 1..is.encoding THEN Cell(value, is.encoding, p) ELSE is.contents[c]]]

intsetResize(is, len) ==
    [is EXCEPT !.contents = [c \in 1..(len * is.encoding) |->
        IF c \in DOMAIN is.contents THEN is.contents[c] ELSE Unset]]

(* memmove of the elements from position from on to position to. *)
intsetMoveTail(is, from, to) ==
    LET shift == (to - from) * is.encoding
        bytes == (is.length - from) * is.encoding
    IN  [is EXCEPT !.contents = [c \in DOMAIN is.contents |->
            IF c - to * is.encoding \in 1..bytes THEN is.contents[c - shift] ELSE is.contents[c]]]

(* Binary search: whether the value is there, and its position or the position to
   insert it at. *)
RECURSIVE bisect(_, _, _, _)
bisect(is, value, min, max) ==
    LET mid == (min + max) \div 2
        cur == intsetGet(is, mid)
    IN  IF max < min THEN [found |-> FALSE, pos |-> min]
        ELSE IF value > cur THEN bisect(is, value, mid + 1, max)
        ELSE IF value < cur THEN bisect(is, value, min, mid - 1)
        ELSE [found |-> TRUE, pos |-> mid]

intsetSearch(is, value) ==
    IF is.length = 0 THEN [found |-> FALSE, pos |-> 0]
    ELSE IF value > intsetGet(is, is.length - 1) THEN [found |-> FALSE, pos |-> is.length]
    ELSE IF value < intsetGet(is, 0) THEN [found |-> FALSE, pos |-> 0]
    ELSE bisect(is, value, 0, is.length - 1)

(* The elements are rewritten with the new width from the last to the first, one
   place further when the new value goes in front. *)
RECURSIVE upgrade(_, _, _, _)
upgrade(is, length, prepend, curenc) ==
    IF length = 0 THEN is
    ELSE upgrade(intsetSet(is, length - 1 + prepend, getEncoded(is, length - 1, curenc)),
                 length - 1, prepend, curenc)

intsetUpgradeAndAdd(is, value) ==
    LET prepend == IF value < 0 THEN 1 ELSE 0
        wide == intsetResize([is EXCEPT !.encoding = valueEncoding(value)], is.length + 1)
        moved == upgrade(wide, is.length, prepend, is.encoding)
    IN  [intsetSet(moved, IF prepend = 1 THEN 0 ELSE is.length, value) EXCEPT !.length = @ + 1]

intsetAdd(is, value) ==
    LET s == intsetSearch(is, value)
        grown == intsetResize(is, is.length + 1)
        opened == IF s.pos < is.length THEN intsetMoveTail(grown, s.pos, s.pos + 1) ELSE grown
    IN  IF valueEncoding(value) > is.encoding THEN intsetUpgradeAndAdd(is, value)
        ELSE IF s.found THEN is
        ELSE [intsetSet(opened, s.pos, value) EXCEPT !.length = @ + 1]

intsetFind(is, value) == valueEncoding(value) <= is.encoding /\ intsetSearch(is, value).found

intsetRemove(is, value) ==
    LET pos == intsetSearch(is, value).pos
        closed == IF pos < is.length - 1 THEN intsetMoveTail(is, pos + 1, pos) ELSE is
    IN  IF ~intsetFind(is, value) THEN is
        ELSE [intsetResize(closed, is.length - 1) EXCEPT !.length = @ - 1]

(* The elements in the order of their positions. *)
intsetList(is) == [i \in 1..is.length |-> intsetGet(is, i - 1)]

-----------------------------------------------------------------------------
(* The set type of t_set.c: several keys, each holding no set, an intset or a hash
   table, the commands on them, and what call() propagates for each command to the
   append only file and to the replicas. The other end of the propagation is a copy
   that takes every command it receives in its plain meaning on sets.

   The elements are integers; those in Texts stand for strings that are not the
   representation of a long long. *)

CONSTANTS
    SetKeys,           \* the keys
    Texts,             \* the elements that are not integers
    MaxIntsetEntries   \* set-max-intset-entries

VARIABLES
    setdb,    \* key -> object
    setcopy   \* key -> the set the propagated commands give it

setVars == <<setdb, setcopy>>

NoSet == [encoding |-> "none"]
Ints == {-(Max2 + 2), -1, Max1, Max2}
SetElements == Ints \cup Texts

Intset(is) == [encoding |-> "intset", is |-> is]
Hashtable(ht) == [encoding |-> "ht", ht |-> ht]
IsIntset(o) == o.encoding = "intset"

setTypeCreate(value) == IF value \in Texts THEN Hashtable({}) ELSE Intset(intsetNew)
createIntsetObject == Intset(intsetNew)

setTypeConvert(o) == Hashtable(Range(intsetList(o.is)))

setTypeAdd(o, value) ==
    LET added == Intset(intsetAdd(o.is, value))
    IN  IF ~IsIntset(o) THEN Hashtable(o.ht \cup {value})
        ELSE IF value \in Texts THEN Hashtable(setTypeConvert(o).ht \cup {value})
        ELSE IF added.is.length > MaxIntsetEntries /\ added # o THEN setTypeConvert(added) ELSE added

setTypeRemove(o, value) ==
    IF ~IsIntset(o) THEN Hashtable(o.ht \ {value})
    ELSE IF value \in Texts THEN o ELSE Intset(intsetRemove(o.is, value))

setTypeIsMember(o, value) ==
    IF ~IsIntset(o) THEN value \in o.ht ELSE value \notin Texts /\ intsetFind(o.is, value)

setTypeSize(o) == IF IsIntset(o) THEN o.is.length ELSE Cardinality(o.ht)

(* The elements in the order an iterator returns them. *)
setTypeList(o) == IF o = NoSet THEN <<>> ELSE IF IsIntset(o) THEN intsetList(o.is) ELSE SetToSeq(o.ht)

setTypeElements(o) == Range(setTypeList(o))

orNone(o) == IF setTypeSize(o) = 0 THEN NoSet ELSE o

addAll(o, values) == FoldLeft(setTypeAdd, o, values)
removeAll(o, values) == FoldLeft(setTypeRemove, o, values)

(* ---- what a replica does with a command it receives ---- *)

(* A command is a record; each is read as an operation on plain sets. *)
ReplaySet(sets, cmd) ==
    LET src == [i \in DOMAIN cmd.keys |-> sets[cmd.keys[i]]]
    IN  CASE cmd.name = "sadd" -> [sets EXCEPT ![cmd.dst] = @ \cup Range(cmd.args)]
          [] cmd.name = "srem" -> [sets EXCEPT ![cmd.dst] = @ \ Range(cmd.args)]
          [] cmd.name = "del" -> [sets EXCEPT ![cmd.dst] = {}]
          [] cmd.name = "smove" ->
               IF cmd.args[1] \notin src[1] THEN sets
               ELSE [[sets EXCEPT ![cmd.keys[1]] = @ \ Range(cmd.args)] EXCEPT ![cmd.dst] = @ \cup Range(cmd.args)]
          [] cmd.name = "sinterstore" -> [sets EXCEPT ![cmd.dst] = {v \in SetElements : \A i \in DOMAIN src : v \in src[i]}]
          [] cmd.name = "sunionstore" -> [sets EXCEPT ![cmd.dst] = UNION Range(src)]
          [] cmd.name = "sdiffstore" -> [sets EXCEPT ![cmd.dst] = src[1] \ UNION Range(Tail(src))]

Command(name, dst, keys, args) == [name |-> name, dst |-> dst, keys |-> keys, args |-> args]

(* A command that left the dirty counter alone is not propagated; the others are, as
   themselves or as the commands given in their place. *)
setcall(db, dirty, cmds) ==
    /\ setdb' = db
    /\ setcopy' = IF dirty THEN FoldLeft(ReplaySet, setcopy, cmds) ELSE setcopy

(* ---- the commands ---- *)

saddCommand(k, values) ==
    LET before == IF setdb[k] = NoSet THEN setTypeCreate(values[1]) ELSE setdb[k]
        after == addAll(before, values)
    IN  setcall([setdb EXCEPT ![k] = after], setTypeSize(after) > setTypeSize(before),
             <<Command("sadd", k, <<>>, values)>>)

sremCommand(k, values) ==
    LET after == removeAll(setdb[k], values)
    IN  /\ setdb[k] # NoSet
        /\ setcall([setdb EXCEPT ![k] = orNone(after)], setTypeSize(after) < setTypeSize(setdb[k]),
                <<Command("srem", k, <<>>, values)>>)

smoveCommand(s, d, value) ==
    LET src == setTypeRemove(setdb[s], value)
        dst == IF setdb[d] = NoSet THEN setTypeCreate(value) ELSE setdb[d]
    IN  /\ setdb[s] # NoSet
        /\ IF s = d \/ ~setTypeIsMember(setdb[s], value) THEN setcall(setdb, FALSE, <<>>)
           ELSE setcall([setdb EXCEPT ![s] = orNone(src), ![d] = setTypeAdd(dst, value)], TRUE,
                     <<Command("smove", d, <<s>>, <<value>>)>>)

spopCommand(k, value) ==
    /\ setdb[k] # NoSet
    /\ value \in setTypeElements(setdb[k])
    /\ setcall([setdb EXCEPT ![k] = orNone(setTypeRemove(@, value))], TRUE,
            <<Command("srem", k, <<>>, <<value>>)>>)

(* SPOP with a count: the whole set goes as a DEL; otherwise the popped elements are
   removed, or, when few are to stay, a new set is made of those that stay. *)
spopWithCountCommand(k, taken) ==
    LET set == setdb[k]
        size == setTypeSize(set)
        count == Cardinality(taken)
        gone == SetToSeq(taken)
        stay == SetToSeq(setTypeElements(set) \ taken)
        newset == addAll(setTypeCreate(stay[1]), stay)
        left == removeAll(set, stay)
    IN  /\ set # NoSet
        /\ taken \subseteq setTypeElements(set) /\ count > 0
        /\ IF count >= size
           THEN setcall([setdb EXCEPT ![k] = NoSet], TRUE, <<Command("del", k, <<>>, <<>>)>>)
           ELSE IF (size - count) * 5 > count
           THEN setcall([setdb EXCEPT ![k] = removeAll(set, gone)], TRUE,
                     [i \in DOMAIN gone |-> Command("srem", k, <<>>, <<gone[i]>>)])
           ELSE setcall([setdb EXCEPT ![k] = newset], TRUE,
                     [i \in DOMAIN setTypeList(left) |-> Command("srem", k, <<>>, <<setTypeList(left)[i]>>)])

(* The result replaces the destination, or deletes it when it is empty. *)
store(d, dstset, name, keys) ==
    setcall([setdb EXCEPT ![d] = orNone(dstset)], TRUE, <<Command(name, d, keys, <<>>)>>)

Smallest(keys) == CHOOSE i \in DOMAIN keys :
                    \A j \in DOMAIN keys : setTypeSize(setdb[keys[i]]) <= setTypeSize(setdb[keys[j]])

sinterGenericCommand(d, keys) ==
    LET first == setdb[keys[Smallest(keys)]]
        inAll(v) == \A j \in DOMAIN keys : setdb[keys[j]] = first \/ setTypeIsMember(setdb[keys[j]], v)
    IN  IF \E i \in DOMAIN keys : setdb[keys[i]] = NoSet
        THEN setcall([setdb EXCEPT ![d] = NoSet], setdb[d] # NoSet, <<Command("sinterstore", d, keys, <<>>)>>)
        ELSE store(d, addAll(createIntsetObject, SelectSeq(setTypeList(first), inAll)), "sinterstore", keys)

sunionResult(keys) ==
    addAll(createIntsetObject, FlattenSeq([i \in DOMAIN keys |-> setTypeList(setdb[keys[i]])]))

(* Either algorithm: each element of the first set looked up in the others, or the
   elements of the others removed from a copy of the first until it is empty. *)
sdiffResult(keys) ==
    LET set(i) == setdb[keys[i]]
        here == {i \in DOMAIN keys : set(i) # NoSet}
        one == MapThenSumSet(LAMBDA i : setTypeSize(set(1)), here) \div 2
        two == MapThenSumSet(LAMBDA i : setTypeSize(set(i)), here)
        alone(v) == \A i \in here \ {1} : keys[i] # keys[1] /\ ~setTypeIsMember(set(i), v)
        RECURSIVE diffed(_, _)
        diffed(dstset, i) == IF i > Len(keys) \/ setTypeSize(dstset) = 0 THEN dstset
                              ELSE diffed(removeAll(dstset, setTypeList(set(i))), i + 1)
    IN  IF 1 \notin here THEN createIntsetObject
        ELSE IF one <= two THEN addAll(createIntsetObject, SelectSeq(setTypeList(set(1)), alone))
        ELSE diffed(addAll(createIntsetObject, setTypeList(set(1))), 2)

sunionDiffGenericCommand(d, keys, op) ==
    IF op = "union" THEN store(d, sunionResult(keys), "sunionstore", keys)
    ELSE store(d, sdiffResult(keys), "sdiffstore", keys)

(* ---- the specification ---- *)

SetInit == setdb = [k \in SetKeys |-> NoSet] /\ setcopy = [k \in SetKeys |-> {}]

Pairs == {<<a, b>> : a, b \in SetElements}
Inputs == {<<k>> : k \in SetKeys} \cup {<<a, b>> : a, b \in SetKeys}

SetNext ==
    \/ \E k \in SetKeys, p \in Pairs : saddCommand(k, p) \/ sremCommand(k, p)
    \/ \E s, d \in SetKeys, v \in SetElements : smoveCommand(s, d, v)
    \/ \E k \in SetKeys : \/ \E v \in SetElements : spopCommand(k, v)
                          \/ \E taken \in SUBSET SetElements : spopWithCountCommand(k, taken)
    \/ \E d \in SetKeys, keys \in Inputs :
          \/ sinterGenericCommand(d, keys)
          \/ \E op \in {"union", "diff"} : sunionDiffGenericCommand(d, keys, op)

SetSpec == SetInit /\ [][SetNext]_setVars

(* ---- properties ---- *)

(* An intset is sorted without duplicates, every value reads back whole and its block
   is exactly as large as its elements need, whatever upgrades and moves it has been
   through; and no key holds an empty set or an intset larger than the limit. *)
SetsWellFormed ==
    \A k \in SetKeys : setdb[k] # NoSet =>
        /\ setTypeSize(setdb[k]) > 0
        /\ IsIntset(setdb[k]) =>
            LET is == setdb[k].is
                l == intsetList(is)
            IN  /\ Len(is.contents) = is.length * is.encoding
                /\ is.length <= MaxIntsetEntries
                /\ \A i \in DOMAIN l : l[i] \in Ints
                /\ \A i, j \in DOMAIN l : i < j => l[i] < l[j]

(* The commands call() propagates, read as plain operations on sets, give a replica
   exactly the sets of the master: no change goes unpropagated, none is propagated
   that did not happen, and the random choices of SPOP are passed on. *)
CopyHasSameSets == \A k \in SetKeys : setTypeElements(setdb[k]) = setcopy[k]

-----------------------------------------------------------------------------
(* The hash type of t_hash.c behind one key: a ziplist of alternating fields and
   values, or a hash table; the commands, and what call() propagates for them to a
   copy that reads every command in its plain meaning on maps.

   A value is an integer of the width of a long long (LLMax), or Text, a string that
   is no number. The sum HINCRBYFLOAT computes depends on the machine: the copy
   would round differently. *)

CONSTANTS
    Fields,            \* the fields, and
    LongFields,        \* those of them longer than hash-max-ziplist-value
    LLMax,             \* LLONG_MAX
    MaxHashEntries     \* hash-max-ziplist-entries

VARIABLES
    hash,      \* the object at the key, or NoHash
    hashcopy   \* the map the propagated commands give the key

hashVars == <<hash, hashcopy>>

NoHash == [encoding |-> "none"]
Text == 1000
NoValue == 1001
HashValues == {Text, LLMax, 1 - LLMax}
Increments == {-LLMax, -1, 1, LLMax}
InWidth(v) == v \in -(LLMax + 1)..LLMax

Zl(zl) == [encoding |-> "ziplist", zl |-> zl]
Ht(ht) == [encoding |-> "ht", ht |-> ht]
IsZl(o) == o.encoding = "ziplist"

(* ziplistFind with one entry skipped after each it compares: only the fields are
   compared, at the odd places. 0 when there is none. *)
findField(zl, f) ==
    LET at == {i \in DOMAIN zl : i % 2 = 1 /\ zl[i] = f}
    IN  IF at = {} THEN 0 ELSE CHOOSE i \in at : \A j \in at : i <= j

hashTypeGetValue(o, f) ==
    IF IsZl(o) THEN (IF findField(o.zl, f) = 0 THEN NoValue ELSE o.zl[findField(o.zl, f) + 1])
    ELSE IF f \in DOMAIN o.ht THEN o.ht[f] ELSE NoValue

hashTypeExists(o, f) == hashTypeGetValue(o, f) # NoValue

hashTypeLength(o) == IF IsZl(o) THEN Len(o.zl) \div 2 ELSE Cardinality(DOMAIN o.ht)

(* The pairs an iterator returns. *)
hashTypePairs(o) == IF IsZl(o) THEN {<<o.zl[2*i - 1], o.zl[2*i]>> : i \in 1..hashTypeLength(o)}
                    ELSE {<<f, o.ht[f]>> : f \in DOMAIN o.ht}

hashTypeConvert(o) ==
    IF ~IsZl(o) THEN o
    ELSE Ht([f \in {p[1] : p \in hashTypePairs(o)} |-> hashTypeGetValue(o, f)])

hashTypeTryConversion(o, fields) == IF \E f \in fields : f \in LongFields THEN hashTypeConvert(o) ELSE o

(* The value is deleted from the ziplist and the new one inserted in its place; a new
   pair goes to the tail. *)
hashTypeSet(o, f, v) ==
    LET at == findField(o.zl, f)
        zl == IF at # 0 THEN InsertAt(RemoveAt(o.zl, at + 1), at + 1, v) ELSE o.zl \o <<f, v>>
    IN  IF ~IsZl(o) THEN Ht((f :> v) @@ o.ht)
        ELSE IF hashTypeLength(Zl(zl)) > MaxHashEntries THEN hashTypeConvert(Zl(zl)) ELSE Zl(zl)

hashTypeDelete(o, f) ==
    LET at == findField(o.zl, f)
    IN  IF ~hashTypeExists(o, f) THEN o
        ELSE IF IsZl(o) THEN Zl(RemoveAt(RemoveAt(o.zl, at), at))
        ELSE Ht([g \in DOMAIN o.ht \ {f} |-> o.ht[g]])

hashTypeLookupWriteOrCreate == IF hash = NoHash THEN Zl(<<>>) ELSE hash

(* ---- propagation: a command is the map it writes and the fields it deletes ---- *)

ReplayHash(map, set, del) == [f \in DOMAIN (set @@ map) \ del |-> (set @@ map)[f]]

hashcall(o, dirty, set, del) ==
    /\ hash' = o
    /\ hashcopy' = IF dirty THEN ReplayHash(hashcopy, set, del) ELSE hashcopy

(* ---- the commands ---- *)

hsetnxCommand(f, v) ==
    LET o == hashTypeTryConversion(hashTypeLookupWriteOrCreate, {f})
    IN  IF hashTypeExists(o, f) THEN hashcall(o, FALSE, <<>>, {})
        ELSE hashcall(hashTypeSet(o, f, v), TRUE, f :> v, {})

(* HSET and HMSET of two pairs. *)
hsetCommand(f, v, g, w) ==
    LET o == hashTypeTryConversion(hashTypeLookupWriteOrCreate, {f, g})
    IN  hashcall(hashTypeSet(hashTypeSet(o, f, v), g, w), TRUE, (g :> w) @@ (f :> v), {})

(* The copy executes HINCRBY itself, so its result is that of the plain sum. *)
hincrbyCommand(f, incr) ==
    LET o == hashTypeLookupWriteOrCreate
        old == IF hashTypeExists(o, f) THEN hashTypeGetValue(o, f) ELSE 0
        theirs == IF f \in DOMAIN hashcopy THEN hashcopy[f] ELSE 0
    IN  /\ old # Text
        /\ ~(incr < 0 /\ old < 0 /\ incr < -(LLMax + 1) - old)
        /\ ~(incr > 0 /\ old > 0 /\ incr > LLMax - old)
        /\ hashcall(hashTypeSet(o, f, old + incr), TRUE, f :> (theirs + incr), {})

(* Propagated as an HSET of the result. *)
hincrbyfloatCommand(f, incr, rounding) ==
    LET o == hashTypeLookupWriteOrCreate
        old == IF hashTypeExists(o, f) THEN hashTypeGetValue(o, f) ELSE 0
        new == old + incr + rounding
    IN  /\ old # Text
        /\ InWidth(new)   \* a bound of the model
        /\ hashcall(hashTypeSet(o, f, new), TRUE, f :> new, {})

hdelCommand(f, g) ==
    LET one == hashTypeDelete(hash, f)
        two == IF hashTypeLength(one) = 0 THEN one ELSE hashTypeDelete(one, g)
    IN  /\ hash # NoHash
        /\ hashcall(IF hashTypeLength(two) = 0 THEN NoHash ELSE two,
                hashTypeLength(two) < hashTypeLength(hash), <<>>, {f, g})

HashInit == hash = NoHash /\ hashcopy = <<>>

HashNext ==
    \E f \in Fields :
        \/ \E v \in HashValues : hsetnxCommand(f, v)
        \/ \E v, w \in HashValues, g \in Fields : hsetCommand(f, v, g, w)
        \/ \E i \in Increments : hincrbyCommand(f, i)
        \/ \E i \in Increments, r \in 0..1 : hincrbyfloatCommand(f, i, r)
        \/ \E g \in Fields : hdelCommand(f, g)

HashSpec == HashInit /\ [][HashNext]_hashVars

(* ---- properties ---- *)

(* The ziplist is made of pairs, names no field twice and stays within the limits;
   the key is never left with an empty hash; every integer stays in the width of a
   long long, whatever increments are given. *)
HashWellFormed ==
    hash # NoHash =>
        /\ hashTypeLength(hash) > 0
        /\ IsZl(hash) => /\ Len(hash.zl) % 2 = 0
                         /\ hashTypeLength(hash) <= MaxHashEntries
                         /\ Cardinality({p[1] : p \in hashTypePairs(hash)}) = hashTypeLength(hash)
        /\ \A p \in hashTypePairs(hash) : InWidth(p[2]) \/ p[2] = Text

(* The commands call() propagates give the copy exactly the fields and values of the
   master, although a hash in the master changes its encoding and HINCRBYFLOAT
   rounds. *)
CopyHasSameHash ==
    hashcopy = IF hash = NoHash THEN <<>>
               ELSE [f \in {p[1] : p \in hashTypePairs(hash)} |-> hashTypeGetValue(hash, f)]

-----------------------------------------------------------------------------
(* The list commands of t_list.c and the clients blocked on lists (t_list.c and
   blocked.c), on several keys that hold nothing, a list or a string, and what is
   propagated to a copy of the keys. A list is the sequence of its elements; how a
   quicklist stores it is the subject of PackedLists. A transaction or a script is a
   run of commands between multi and exec: the clients blocked on the lists it
   filled are served after the last of them. *)

CONSTANTS
    ListKeys,      \* the keys
    ListValues,    \* the elements
    Waiters,       \* the clients that issue blocking commands
    MaxListLength, \* a bound: commands that would make a list longer are not issued
    MaxInMulti     \* a bound on the commands of a transaction

VARIABLES
    lists,      \* key -> nothing, a string or a list
    listcopy,   \* the same at the other end of the propagation
    blocked,    \* client -> what it waits for, or NotBlocked
    waiting,    \* blocking_keys: key -> the clients blocked on it, in order
    ready,      \* ready_keys: the keys to serve
    inMulti,    \* commands executed in the current transaction, 0 outside
    served,     \* client -> the key that served it in the last step, or NoKey
    overwritten \* keys holding a list that was put in the place of a string

listVars == <<lists, listcopy, blocked, waiting, ready, inMulti, served, overwritten>>

Nothing == [type |-> "none"]
String == [type |-> "string"]
List(s) == [type |-> "list", seq |-> s]
IsList(o) == o.type = "list"
NotBlocked == [keys |-> {}, where |-> "none", target |-> 0]
NoTarget == 0      \* not a key
NoKey == 0

(* ---- sequences ---- *)

pushed(s, v, where) == IF where = "head" THEN <<v>> \o s ELSE Append(s, v)
popped(s, where) == IF where = "head" THEN Tail(s) ELSE Front(s)
end(s, where) == IF where = "head" THEN Head(s) ELSE Last(s)
elements(o) == IF IsList(o) THEN o.seq ELSE <<>>
orNothing(s) == IF s = <<>> THEN Nothing ELSE List(s)

(* ---- the whole state a command works on ---- *)

(* Taken apart into a record, so that one command can do several steps: db, copy,
   the blocked clients, the ready keys and the answers. *)
Now == [db |-> lists, copy |-> listcopy, blocked |-> blocked, waiting |-> waiting,
        ready |-> ready, served |-> [c \in Waiters |-> NoKey], overwritten |-> overwritten]

signalListAsReady(S, k) ==
    IF S.waiting[k] = <<>> \/ k \in Range(S.ready) THEN S ELSE [S EXCEPT !.ready = Append(@, k)]

dbAdd(S, k, o) ==
    LET T == [S EXCEPT !.db[k] = o] IN IF IsList(o) THEN signalListAsReady(T, k) ELSE T

setKey(S, k, o) ==
    IF S.db[k] = Nothing THEN dbAdd(S, k, o)
    ELSE [S EXCEPT !.db[k] = o,
                   !.overwritten = IF IsList(o) /\ ~IsList(S.db[k]) THEN @ \cup {k} ELSE @]

(* listTypePush at a key, which is created when it does not exist. *)
listTypePush(S, k, v, where) ==
    LET T == IF S.db[k] = Nothing THEN dbAdd(S, k, List(<<>>)) ELSE S
    IN  [T EXCEPT !.db[k] = List(pushed(@.seq, v, where))]

deleteIfEmpty(S, k) == IF IsList(S.db[k]) THEN [S EXCEPT !.db[k] = orNothing(@.seq)] ELSE S

(* What a propagated command does at the other end. *)
replayPush(copy, k, v, where) == [copy EXCEPT ![k] = List(pushed(elements(@), v, where))]
replayPop(copy, k, where) == [copy EXCEPT ![k] = orNothing(popped(elements(@), where))]

(* ---- blocked clients ---- *)

blockForKeys(S, c, keys, where, target) ==
    [S EXCEPT !.blocked[c] = [keys |-> keys, where |-> where, target |-> target],
              !.waiting = [k \in ListKeys |-> IF k \in keys THEN Append(@[k], c) ELSE @[k]]]

unblockClient(S, c) ==
    [S EXCEPT !.blocked[c] = NotBlocked,
              !.waiting = [k \in ListKeys |-> SelectSeq(@[k], LAMBDA x : x # c)]]

rpoplpushHandlePush(S, dst, v) == listTypePush(S, dst, v, "head")

\* Seeded fault: the pop for a client that was blocked is not propagated.
serveClientBlockedOnList_Quiet(S, c, k, b, v) ==
    LET P == [S EXCEPT !.served[c] = k]
    IN  IF b.target = NoTarget THEN P
        ELSE IF S.db[b.target].type # "string"
             THEN [rpoplpushHandlePush(P, b.target, v) EXCEPT !.copy = replayPush(@, b.target, v, "head")]
             ELSE [S EXCEPT !.db[k].seq = pushed(@, v, b.where)]

(* Serve a client with an element already popped from k; a BRPOPLPUSH whose target
   holds something else gets an error, and the element goes back. *)
serveClientBlockedOnList(S, c, k, b, v) ==
    LET P == [S EXCEPT !.copy = replayPop(@, k, b.where), !.served[c] = k]
    IN  IF b.target = NoTarget THEN P
        ELSE IF S.db[b.target].type # "string"
             THEN [rpoplpushHandlePush(P, b.target, v) EXCEPT !.copy = replayPush(@, b.target, v, "head")]
             ELSE [S EXCEPT !.db[k].seq = pushed(@, v, b.where)]

\* Seeded fault: the client that blocked last is served.
nextWaiter_Last(S, k) == S.waiting[k][Len(S.waiting[k])]

nextWaiter(S, k) == Head(S.waiting[k])

(* At most n clients are served, in the order they blocked, while there are elements. *)
RECURSIVE serveKey(_, _, _)
serveKey(S, k, n) ==
    IF n = 0 \/ S.db[k].seq = <<>> THEN S
    ELSE LET c == nextWaiter(S, k)
             b == S.blocked[c]
             v == end(S.db[k].seq, b.where)
             T == unblockClient([S EXCEPT !.db[k].seq = popped(@, b.where)], c)
         IN  serveKey(serveClientBlockedOnList(T, c, k, b, v), k, n - 1)

RECURSIVE handleClientsBlockedOnLists(_)
handleClientsBlockedOnLists(S) ==
    IF S.ready = <<>> THEN S
    ELSE LET k == Head(S.ready)
             T == [S EXCEPT !.ready = Tail(@)]
         IN  handleClientsBlockedOnLists(
                IF IsList(S.db[k]) THEN deleteIfEmpty(serveKey(T, k, Len(T.waiting[k])), k) ELSE T)

Becomes(S) ==
    /\ lists' = S.db /\ listcopy' = S.copy /\ blocked' = S.blocked /\ waiting' = S.waiting
    /\ ready' = S.ready /\ served' = S.served
    /\ overwritten' = {k \in S.overwritten : IsList(S.db[k])}

(* processCommand: after a command outside a transaction the ready keys are served. *)
processCommand(S) ==
    LET T == handleClientsBlockedOnLists(S)
    IN  /\ \A k \in ListKeys : Len(elements(S.db[k])) <= MaxListLength /\ Len(elements(T.db[k])) <= MaxListLength
        /\ \/ inMulti = 0 /\ Becomes(T) /\ UNCHANGED inMulti
           \/ inMulti \in 1..MaxInMulti /\ Becomes(S) /\ inMulti' = inMulti + 1

(* ---- commands ---- *)

(* LPUSH, RPUSH, and with x LPUSHX, RPUSHX. *)
pushGenericCommand(k, v, where, x) ==
    /\ lists[k].type # "string"
    /\ x => IsList(lists[k])
    /\ processCommand([listTypePush(Now, k, v, where) EXCEPT !.copy = replayPush(@, k, v, where)])

linsertCommand(k, pivot, v, where) ==
    LET s == elements(lists[k])
        i == SelectInSeq(s, LAMBDA e : e = pivot)
        t == InsertAt(s, IF where = "head" THEN i ELSE i + 1, v)
    IN  /\ i # 0
        /\ processCommand([Now EXCEPT !.db[k] = List(t), !.copy[k] = List(t)])

index(s, i) == IF i >= 0 THEN i + 1 ELSE Len(s) + i + 1

lsetCommand(k, i, v) ==
    LET s == elements(lists[k])
        at == index(s, i)
    IN  /\ at \in DOMAIN s
        /\ processCommand([Now EXCEPT !.db[k].seq[at] = v, !.copy[k].seq[index(elements(listcopy[k]), i)] = v])

popGenericCommand(k, where) ==
    /\ IsList(lists[k])
    /\ processCommand([deleteIfEmpty([Now EXCEPT !.db[k].seq = popped(@, where)], k)
                          EXCEPT !.copy = replayPop(@, k, where)])

trimmed(s, start, stop) ==
    LET llen == Len(s)
        a == IF start < 0 THEN (IF llen + start < 0 THEN 0 ELSE llen + start) ELSE start
        b == IF stop < 0 THEN llen + stop ELSE stop
    IN  IF a > b \/ a >= llen THEN <<>> ELSE SubSeq(s, a + 1, IF b >= llen THEN llen ELSE b + 1)

ltrimCommand(k, start, stop) ==
    /\ IsList(lists[k])
    /\ processCommand([deleteIfEmpty([Now EXCEPT !.db[k].seq = trimmed(@, start, stop)], k)
                          EXCEPT !.copy[k] = orNothing(trimmed(elements(@), start, stop))])

(* At most |n| elements equal to v, from the head or for a negative n from the tail;
   all of them when n is 0. *)
RECURSIVE without(_, _, _)
without(s, v, n) ==
    IF s = <<>> THEN s
    ELSE IF Head(s) = v /\ n # 0 THEN without(Tail(s), v, n - 1)
    ELSE <<Head(s)>> \o without(Tail(s), v, n)

removed(s, v, n) == IF n < 0 THEN Reverse(without(Reverse(s), v, -n))
                    ELSE without(s, v, IF n = 0 THEN -1 ELSE n)

lremCommand(k, v, n) ==
    LET s == elements(lists[k])
        t == removed(s, v, n)
    IN  /\ IsList(lists[k])
        /\ processCommand([Now EXCEPT !.db[k] = orNothing(t),
                                      !.copy[k] = IF t # s THEN orNothing(removed(elements(@), v, n)) ELSE @])

rpoplpushed(S, s, d) ==
    LET v == Last(S.db[s].seq)
        T == rpoplpushHandlePush([S EXCEPT !.db[s].seq = Front(@)], d, v)
    IN  [deleteIfEmpty(T, s) EXCEPT !.copy = replayPush(replayPop(@, s, "tail"), d, v, "head")]

rpoplpushCommand(s, d) ==
    /\ IsList(lists[s]) /\ lists[d].type # "string"
    /\ processCommand(rpoplpushed(Now, s, d))

(* BLPOP and BRPOP of the keys in the order given: the first that holds a list is
   popped, and propagated as the plain pop; a string ends the command; without
   either the client blocks, except in a transaction. *)
blockingPopGenericCommand(c, ks, where) ==
    LET i == SelectInSeq(ks, LAMBDA k : lists[k] # Nothing)
        S == Now
    IN  /\ blocked[c] = NotBlocked
        /\ IF i = 0 THEN IF inMulti > 0 THEN processCommand(S)
                         ELSE processCommand(blockForKeys(S, c, Range(ks), where, NoTarget))
           ELSE IF ~IsList(lists[ks[i]]) THEN processCommand(S)
           ELSE processCommand(
                   [deleteIfEmpty([S EXCEPT !.db[ks[i]].seq = popped(@, where)], ks[i])
                      EXCEPT !.copy = replayPop(@, ks[i], where),
                             !.served[c] = ks[i]])

brpoplpushCommand(c, s, d) ==
    LET S == Now
    IN  /\ blocked[c] = NotBlocked
        /\ IF lists[s] = Nothing
           THEN IF inMulti > 0 THEN processCommand(S)
                ELSE processCommand(blockForKeys(S, c, {s}, "tail", d))
           ELSE /\ IsList(lists[s]) /\ lists[d].type # "string"
                /\ processCommand([rpoplpushed(S, s, d) EXCEPT !.served[c] = s])

(* The timeout of a blocked client, its disconnection, or the mass unblocking when
   the instance becomes a slave. *)
clientsCronHandleTimeout(c) ==
    /\ inMulti = 0 /\ blocked[c] # NotBlocked
    /\ Becomes(unblockClient(Now, c))
    /\ UNCHANGED inMulti

disconnectAllBlockedClients ==
    /\ inMulti = 0
    /\ \E c \in Waiters : blocked[c] # NotBlocked
    /\ Becomes(FoldSet(LAMBDA c, S : unblockClient(S, c), Now, {c \in Waiters : blocked[c] # NotBlocked}))
    /\ UNCHANGED inMulti

(* Commands of other files: SET, DEL, and SORT ... STORE, which puts a whole list at a
   key with setKey whatever the key held. *)
setCommand(k) == processCommand([setKey(Now, k, String) EXCEPT !.copy[k] = String])
delCommand(k) == lists[k] # Nothing /\ processCommand([Now EXCEPT !.db[k] = Nothing, !.copy[k] = Nothing])
sortStore(k, v) == processCommand([setKey(Now, k, List(<<v>>)) EXCEPT !.copy[k] = List(<<v>>)])

multi == inMulti = 0 /\ inMulti' = 1 /\ Becomes(Now)
exec == inMulti > 0 /\ inMulti' = 0 /\ Becomes(handleClientsBlockedOnLists(Now))

ListInit ==
    /\ lists = [k \in ListKeys |-> Nothing] /\ listcopy = [k \in ListKeys |-> Nothing]
    /\ blocked = [c \in Waiters |-> NotBlocked] /\ waiting = [k \in ListKeys |-> <<>>]
    /\ ready = <<>> /\ inMulti = 0 /\ served = [c \in Waiters |-> NoKey]
    /\ overwritten = {}

ListNext ==
    \/ \E k \in ListKeys, v \in ListValues, where \in {"head", "tail"} :
          \/ \E x \in BOOLEAN : pushGenericCommand(k, v, where, x)
          \/ \E p \in ListValues : linsertCommand(k, p, v, where)
    \/ \E k \in ListKeys, v \in ListValues, i \in -1..1 : lsetCommand(k, i, v) \/ lremCommand(k, v, i)
    \/ \E k \in ListKeys, a, b \in -2..1 : ltrimCommand(k, a, b)
    \/ \E k \in ListKeys, where \in {"head", "tail"} : popGenericCommand(k, where)
    \/ \E s, d \in ListKeys : rpoplpushCommand(s, d) \/ \E c \in Waiters : brpoplpushCommand(c, s, d)
    \/ \E c \in Waiters, where \in {"head", "tail"}, ks \in {<<k>> : k \in ListKeys} \cup {SetToSeq(ListKeys)} :
          blockingPopGenericCommand(c, ks, where)
    \/ \E c \in Waiters : clientsCronHandleTimeout(c)
    \/ disconnectAllBlockedClients
    \/ \E k \in ListKeys : setCommand(k) \/ delCommand(k) \/ \E v \in ListValues : sortStore(k, v)
    \/ multi \/ exec

ListSpec == ListInit /\ [][ListNext]_listVars

(* ---- properties ---- *)

(* What is propagated, pops done on behalf of a served client included, gives the
   copy the same keys with the same elements in the same order, and no key is left
   with an empty list. *)
CopyHasSameLists ==
    /\ listcopy = lists
    /\ \A k \in ListKeys : IsList(lists[k]) => lists[k].seq # <<>>

(* signalListAsReady and handleClientsBlockedOnLists: outside a transaction no client
   waits for a key that holds a list, whatever command, or client served, put it
   there. Left out are the keys whose list took the place of a string, which setKey
   does without signalling the key. *)
WaitersServedUnlessOverwritten ==
    inMulti = 0 => \A k \in ListKeys \ overwritten : IsList(lists[k]) => waiting[k] = <<>>

(* Clients are served "from the one that blocked first, to the last": a client that
   receives an element of a key leaves no client blocked that was waiting for the
   same key before it. *)
ServesInOrder ==
    \A c, d \in Waiters, k \in ListKeys :
       ( /\ \E i, j \in DOMAIN waiting[k] : i < j /\ waiting[k][i] = d /\ waiting[k][j] = c
         /\ blocked'[c] = NotBlocked /\ served'[c] = k )
       => blocked'[d] = NotBlocked

(* The same of every step of a behaviour (serveClientBlockedOnList). *)
ServedInOrder == [][ServesInOrder]_listVars
=============================================================================
