--------------------------------- MODULE Rdb --------------------------------
(***************************************************************************)
(* RDB files (rdb.c): how one object is written, read and turned into      *)
(* commands for peers, how a whole file is saved, in the foreground or by  *)
(* a child, and loaded, and the compression of its strings (lzf_c.c,       *)
(* lzf_d.c).                                                               *)
(***************************************************************************)
EXTENDS Integers, Sequences, FiniteSets, FiniteSetsExt, SequencesExt

-----------------------------------------------------------------------------
(***************************************************************************)
(* lzf_compress and lzf_decompress, with which RDB strings and the inner   *)
(* nodes of quicklists are stored, on bytes of ByteBits bits: a control    *)
(* byte is three bits of length and the rest of literal count or offset.   *)
(*                                                                         *)
(* The hash table lies uninitialised on the stack, and its hash maps       *)
(* several triples to a slot: what a lookup yields is any earlier position *)
(* or none, and only the tests that follow it make a match.                *)
(***************************************************************************)

CONSTANTS LzfBits, Inputs, OutLens

CtrlBits == LzfBits - 3
MAX_LIT == 2 ^ CtrlBits
MAX_OFF == 2 ^ (CtrlBits + LzfBits)
MAX_REF == 2 ^ LzfBits + 2 ^ 3

VARIABLE lz     \* [in, outlen, ip, out, lit, high, phase]: out[1..] the output,
                \* the control byte of the open run included; high the last
                \* place written

lzVars == <<lz>>

LzfInit ==
    \E s \in Inputs, n \in OutLens :
        lz = [in |-> s, outlen |-> n, ip |-> 0, out |-> <<0>>, lit |-> 0, high |-> 0, phase |-> "loop"]

opAt(z) == Len(z.out)
Gone(z) == [z EXCEPT !.phase = "none"]

\* *op++ = b, within a literal run; at MAX_LIT the run is closed and another
\* started.
Literal(z) ==
    LET out == Append(z.out, z.in[z.ip + 1])
        a == [z EXCEPT !.out = out, !.ip = @ + 1, !.lit = @ + 1, !.high = Max({@, Len(out)})]
    IN IF a.lit = MAX_LIT
       THEN [a EXCEPT !.out = Append([out EXCEPT ![Len(out) - a.lit] = a.lit - 1], 0), !.lit = 0]
       ELSE a

\* The tests on what the slot holds.
Matches(z, ref) ==
    /\ ref > 0 /\ ref < z.ip
    /\ z.ip - ref - 1 < MAX_OFF
    /\ \A i \in 1..3 : z.in[ref + i] = z.in[z.ip + i]

\* The bytes that match: the loop compares sixteen at once when it may.
MatchLength(z, ref) ==
    LET maxlen == Min({Len(z.in) - z.ip - 2, MAX_REF})
        top == IF maxlen > 16 THEN Max({maxlen, 19}) ELSE Max({maxlen, 3})
    IN Min({n \in 3..top : n = top \/ z.in[ref + n + 1] # z.in[z.ip + n + 1]})

\* op[-lit - 1] = lit - 1; op -= !lit
StopRun(out, lit) ==
    IF lit = 0 THEN SubSeq(out, 1, Len(out) - 1) ELSE [out EXCEPT ![Len(out) - lit] = lit - 1]

Reference(off, len) ==
    IF len < 7 THEN <<(off \div 2 ^ LzfBits) + len * 2 ^ CtrlBits, off % 2 ^ LzfBits>>
               ELSE <<(off \div 2 ^ LzfBits) + 7 * 2 ^ CtrlBits, (len - 7) % 2 ^ LzfBits, off % 2 ^ LzfBits>>

\* The exact test, which the conservative one before it includes.
NoRoom(z) == opAt(z) - (IF z.lit = 0 THEN 1 ELSE 0) + 3 + 1 >= z.outlen

Step(z) ==
    IF z.ip < Len(z.in) - 2
    THEN {IF opAt(z) >= z.outlen THEN Gone(z) ELSE Literal(z)}
         \cup {LET len == MatchLength(z, ref) - 2
                   out == StopRun(z.out, z.lit) \o Reference(z.ip - ref - 1, len)
               IN IF NoRoom(z) THEN Gone(z)
                  ELSE [z EXCEPT !.out = Append(out, 0), !.lit = 0, !.ip = @ + len + 2,
                                 !.high = Max({@, Len(out)})] :
                   ref \in {r \in 0..(z.ip - 1) : Matches(z, r)}}
    ELSE {IF opAt(z) + 3 > z.outlen THEN Gone(z) ELSE [z EXCEPT !.phase = "tail"]}

lzf_compress ==
    /\ lz.phase = "loop"
    /\ lz' \in Step(lz)

\* The last bytes, and the end of the last run.
Finish ==
    /\ lz.phase = "tail"
    /\ lz' = IF lz.ip < Len(lz.in) THEN Literal(lz)
             ELSE [lz EXCEPT !.out = StopRun(@, lz.lit), !.high = Max({@, Len(lz.out) - lz.lit}),
                             !.phase = "done"]

LzfNext == lzf_compress \/ Finish

LzfSpec == LzfInit /\ [][LzfNext]_lzVars

-----------------------------------------------------------------------------
(* lzf_decompress *)

Fails == <<-1>>     \* 0, which no output of a caller has as its length

\* The bytes of a reference, one by one: it may reach into what it writes.
RECURSIVE Copied(_, _, _)
Copied(out, ref, n) == IF n = 0 THEN out ELSE Copied(Append(out, out[ref + 1]), ref + 1, n - 1)

RECURSIVE LzfDecompress(_, _, _, _)
LzfDecompress(b, ip, out, outlen) ==
    IF ip >= Len(b) THEN out
    ELSE LET ctrl == b[ip + 1]
             n == ctrl + 1
             long == ctrl \div 2 ^ CtrlBits = 7
             at == IF long THEN ip + 2 ELSE ip + 1
         IN IF ctrl < MAX_LIT
            THEN IF Len(out) + n > outlen \/ ip + 1 + n > Len(b) THEN Fails
                 ELSE LzfDecompress(b, ip + 1 + n, out \o SubSeq(b, ip + 2, ip + 1 + n), outlen)
            ELSE IF ip + 1 >= Len(b) \/ at >= Len(b) THEN Fails
                 ELSE LET len == IF long THEN 7 + b[ip + 2] ELSE ctrl \div 2 ^ CtrlBits
                          ref == Len(out) - (ctrl % 2 ^ CtrlBits) * 2 ^ LzfBits - 1 - b[at + 1]
                      IN IF Len(out) + len + 2 > outlen \/ ref < 0 THEN Fails
                         ELSE LzfDecompress(b, at + 1, Copied(out, ref, len + 2), outlen)

lzf_decompress(b, outlen) == LzfDecompress(b, 0, <<>>, outlen)

-----------------------------------------------------------------------------
(* Properties. *)

\* lzf_compress: whatever the uninitialised hash table holds, and whichever
\* matches it takes, what it returns decompresses to the input; and into a
\* buffer one byte shorter lzf_decompress refuses it.
DecompressesSame ==
    lz.phase = "done" =>
        /\ lzf_decompress(lz.out, Len(lz.in)) = lz.in
        /\ lzf_decompress(lz.out, Len(lz.in) - 1) = Fails

\* The tests for room: no byte is written past the output buffer, and the
\* length returned is within it.
WithinBuffer ==
    /\ lz.high <= lz.outlen
    /\ lz.phase = "done" => Len(lz.out) <= lz.outlen

-----------------------------------------------------------------------------
(***************************************************************************)
(* The bytes of an RDB file (rdb.c, and the module side of it in           *)
(* module.c): lengths, integers, strings, scores and the objects built     *)
(* from them, written by rdbSaveObject and read back by rdbLoadObject      *)
(* under limits that need not be those of the writer.  What is read from   *)
(* the file of a plain Redis is then turned into commands (data2CrdtData). *)
(*                                                                         *)
(* A byte has ByteBits bits; 8 in the code, where ByteBits = 4 keeps every *)
(* width (2 and 2 + 4 bit lengths, 1, 2 and 4 byte integers) within what   *)
(* TLC computes.  Characters are bytes: 0 .. 9 are the digits and 10 is    *)
(* the minus sign.                                                         *)
(***************************************************************************)

CONSTANTS ByteBits,
          MinLzf,        \* 20: no compression up to this length
          MaxArgv,       \* MAX_FAKECLIENT_ARGV
          Objects,       \* what is saved: [type, enc, val]
          LoadLimits     \* of the reader: [intset, zset, zsetvalue, hash, hashvalue]

VARIABLES robj           \* [phase, o, compression, limits, bytes, out, commands]

rdbObjVars == <<robj>>

Byte == 2 ^ ByteBits
Half == 2 ^ (ByteBits - 2)     \* weight of the two upper bits

BigEndian(n, k) == [i \in 1 .. k |-> (n \div Byte ^ (k - i)) % Byte]
LittleEndian(n, k) == Reverse(BigEndian(n, k))
RECURSIVE FromBig(_)
FromBig(bs) == IF bs = <<>> THEN 0 ELSE FromBig(Front(bs)) * Byte + Last(bs)

\* A reader's answer: what was read and what is left; nothing after an error.
Read(v, rest) == [ok |-> TRUE, val |-> v, rest |-> rest]
Failed == [ok |-> FALSE, val |-> <<>>, rest |-> <<>>]

\* The next read, with what the one before read and left.
Then(r, F(_, _)) == IF r.ok THEN F(r.val, r.rest) ELSE Failed

\* rioRead: all of the bytes or none.
rioRead(b, n) == IF Len(b) < n THEN Failed ELSE Read(SubSeq(b, 1, n), SubSeq(b, n + 1, Len(b)))

-----------------------------------------------------------------------------
(* Lengths and integers. *)

RDB_14BITLEN == 1
RDB_ENCVAL == 3
RDB_32BITLEN == 2 * Half
RDB_64BITLEN == 2 * Half + 1
RDB_ENC_LZF == 3

rdbSaveLen(len) ==
    IF len < Half THEN <<len>>
    ELSE IF len < Half * Byte THEN <<RDB_14BITLEN * Half + len \div Byte, len % Byte>>
    ELSE IF len < Byte ^ 4 THEN <<RDB_32BITLEN>> \o BigEndian(len, 4)
    ELSE <<RDB_64BITLEN>> \o BigEndian(len, 8)

\* The answer also says if an encoding was read rather than a length.
rdbLoadLenByRef(b) ==
    Then(rioRead(b, 1), LAMBDA v, rest :
      LET c == v[1] IN
      IF c \div Half = RDB_ENCVAL THEN Read([enc |-> TRUE, len |-> c % Half], rest)
      ELSE IF c \div Half = 0 THEN Read([enc |-> FALSE, len |-> c % Half], rest)
      ELSE IF c \div Half = RDB_14BITLEN
      THEN Then(rioRead(rest, 1), LAMBDA w, left :
             Read([enc |-> FALSE, len |-> (c % Half) * Byte + w[1]], left))
      ELSE IF c \in {RDB_32BITLEN, RDB_64BITLEN}
      THEN Then(rioRead(rest, IF c = RDB_32BITLEN THEN 4 ELSE 8), LAMBDA w, left :
             Read([enc |-> FALSE, len |-> FromBig(w)], left))
      ELSE Failed)

\* ll2string.
RECURSIVE Digits(_)
Digits(n) == IF n < 10 THEN <<n>> ELSE Digits(n \div 10) \o <<n % 10>>
ll2string(v) == IF v < 0 THEN <<10>> \o Digits(-v) ELSE Digits(v)

\* strtoll of a string that ll2string gives back: of nothing else is it asked.
RECURSIVE Number(_)
Number(ds) == IF ds = <<>> THEN 0 ELSE Number(Front(ds)) * 10 + Last(ds)
IsNumber(s) ==
    LET ds == IF s # <<>> /\ s[1] = 10 THEN Tail(s) ELSE s IN
    /\ ds # <<>> /\ \A i \in DOMAIN ds : ds[i] <= 9
    /\ ds[1] = 0 => s = <<0>>
ValueOf(s) == IF s[1] = 10 THEN -Number(Tail(s)) ELSE Number(s)

InWidth(v, k) == v >= -(Byte ^ k \div 2) /\ v < Byte ^ k \div 2
IntBytes(enc) == 2 ^ enc       \* RDB_ENC_INT8, INT16, INT32: 1, 2, 4 bytes

\* Nothing when the value is too wide.
rdbEncodeInteger(v) ==
    LET k == IF InWidth(v, 1) THEN 0 ELSE IF InWidth(v, 2) THEN 1 ELSE 2 IN
    IF ~InWidth(v, 4) THEN <<>>
    ELSE <<RDB_ENCVAL * Half + k>> \o LittleEndian(v % Byte ^ IntBytes(k), IntBytes(k))

Signed(u, n) == IF u < Byte ^ n \div 2 THEN u ELSE u - Byte ^ n

rdbLoadIntegerObject(b, enc) ==
    Then(rioRead(b, IntBytes(enc)), LAMBDA v, rest :
      Read(ll2string(Signed(FromBig(Reverse(v)), IntBytes(enc))), rest))

\* The length of the text of the smallest 4 byte integer: 11 in the code.
MaxIntText == Len(ll2string(-(Byte ^ 4 \div 2)))

rdbTryIntegerEncoding(s) == IF IsNumber(s) THEN rdbEncodeInteger(ValueOf(s)) ELSE <<>>

-----------------------------------------------------------------------------
(* Strings. *)

\* lzf_compress, as far as this file goes (the algorithm is above): a
\* string that ends in repetitions becomes fewer bytes, which lzf_decompress
\* turns back into it.
Compress(s) ==
    LET k == CHOOSE k \in DOMAIN s : /\ \A i \in k .. Len(s) : s[i] = Last(s)
                                     /\ k > 1 => s[k - 1] # Last(s)
    IN SubSeq(s, 1, k)
Decompress(c, len) == [i \in 1 .. len |-> IF i <= Len(c) THEN c[i] ELSE Last(c)]

rdbSaveLzfBlob(c, len) == <<RDB_ENCVAL * Half + RDB_ENC_LZF>> \o rdbSaveLen(Len(c)) \o rdbSaveLen(len) \o c

\* Nothing when fewer than four bytes are saved.
rdbSaveLzfStringObject(s) ==
    IF Len(s) > 4 /\ Len(Compress(s)) <= Len(s) - 4
    THEN rdbSaveLzfBlob(Compress(s), Len(s)) ELSE <<>>

rdbLoadLzfStringObject(b) ==
    Then(rdbLoadLenByRef(b), LAMBDA clen, rest :
    Then(rdbLoadLenByRef(rest), LAMBDA len, blob :
    Then(rioRead(blob, clen.len), LAMBDA c, left : Read(Decompress(c, len.len), left))))

rdbSaveRawString(s, compression) ==
    LET int == IF Len(s) <= MaxIntText THEN rdbTryIntegerEncoding(s) ELSE <<>>
        lzf == IF compression /\ Len(s) > MinLzf THEN rdbSaveLzfStringObject(s) ELSE <<>>
    IN IF int # <<>> THEN int ELSE IF lzf # <<>> THEN lzf ELSE rdbSaveLen(Len(s)) \o s

rdbSaveLongLongAsStringObject(v) ==
    LET int == rdbEncodeInteger(v) IN
    IF int # <<>> THEN int ELSE rdbSaveLen(Len(ll2string(v))) \o ll2string(v)

rdbGenericLoadStringObject(b) ==
    Then(rdbLoadLenByRef(b), LAMBDA l, rest :
      IF ~l.enc THEN rioRead(rest, l.len)
      ELSE IF l.len = RDB_ENC_LZF THEN rdbLoadLzfStringObject(rest)
      ELSE rdbLoadIntegerObject(rest, l.len))

\* Reads n times with what was read in order; nothing after an error.
RECURSIVE LoadStrings(_, _)
LoadStrings(b, n) ==
    IF n = 0 THEN Read(<<>>, b)
    ELSE Then(rdbGenericLoadStringObject(b), LAMBDA s, rest :
         Then(LoadStrings(rest, n - 1), LAMBDA ss, left : Read(<<s>> \o ss, left)))

-----------------------------------------------------------------------------
(* Scores: a number of units and a tiny part that only a full conversion    *)
(* keeps.  13 stands for the point.                                         *)

ScoreText(x) == ll2string(x.units) \o (IF x.tiny = 0 THEN <<>> ELSE <<13, x.tiny>>)
ScoreOf(t) ==
    LET p == SelectInSeq(t, LAMBDA c : c = 13) IN
    IF p = 0 THEN [units |-> ValueOf(t), tiny |-> 0]
    ELSE [units |-> ValueOf(SubSeq(t, 1, p - 1)), tiny |-> t[p + 1]]

\* rdbSaveDoubleValue: a byte with the length and the text (old sorted sets).
rdbSaveDoubleValue(x) == <<Len(ScoreText(x))>> \o ScoreText(x)
rdbLoadDoubleValue(b) ==
    Then(rioRead(b, 1), LAMBDA len, rest :
    Then(rioRead(rest, len[1]), LAMBDA t, left : Read(ScoreOf(t), left)))

\* The eight bytes of the double.
rdbSaveBinaryDoubleValue(x) == LittleEndian(x.units % Byte ^ 6, 6) \o <<x.tiny, 0>>
rdbLoadBinaryDoubleValue(b) ==
    Then(rioRead(b, 8), LAMBDA v, rest :
      Read([units |-> FromBig(Reverse(SubSeq(v, 1, 6))), tiny |-> v[7]], rest))

RECURSIVE LoadPairs(_, _, _)
LoadPairs(b, n, binary) ==
    IF n = 0 THEN Read(<<>>, b)
    ELSE Then(rdbGenericLoadStringObject(b), LAMBDA e, rest :
         Then(IF binary THEN rdbLoadBinaryDoubleValue(rest) ELSE rdbLoadDoubleValue(rest), LAMBDA x, more :
         Then(LoadPairs(more, n - 1, binary), LAMBDA ps, left : Read(<<<<e, x>>>> \o ps, left))))

-----------------------------------------------------------------------------
(* Blocks: a ziplist, a zipmap or an intset is one string.  15 begins a     *)
(* block and 14 each of its elements.                                       *)

Block(es) == FoldLeft(LAMBDA acc, e : acc \o <<14>> \o e, <<15>>, es)
RECURSIVE Elements(_)
Elements(bl) ==
    LET p == SelectLastInSeq(bl, LAMBDA c : c = 14) IN
    IF p = 0 THEN <<>> ELSE Elements(SubSeq(bl, 1, p - 1)) \o <<SubSeq(bl, p + 1, Len(bl))>>

Flat(pairs) == FoldLeft(LAMBDA acc, p : acc \o <<p[1], p[2]>>, <<>>, pairs)
Paired(es) == [i \in 1 .. Len(es) \div 2 |-> <<es[2 * i - 1], es[2 * i]>>]
Scored(pairs) == [i \in DOMAIN pairs |-> <<pairs[i][1], ScoreText(pairs[i][2])>>]
Unscored(pairs) == [i \in DOMAIN pairs |-> <<pairs[i][1], ScoreOf(pairs[i][2])>>]

-----------------------------------------------------------------------------
(* Values of module types: what the callback saved, in order. *)

RDB_MODULE_OPCODE_EOF == 0
RDB_MODULE_OPCODE_UINT == 2

RDB_MODULE_OPCODE_DOUBLE == 4
RDB_MODULE_OPCODE_STRING == 5

\* RM_SaveUnsigned, RM_SaveStringBuffer, RM_SaveDouble, RM_SaveFloat.
SaveItem(it, compression) ==
    rdbSaveLen(it.op) \o
    (IF it.op = RDB_MODULE_OPCODE_UINT THEN rdbSaveLen(it.v)
     ELSE IF it.op = RDB_MODULE_OPCODE_STRING THEN rdbSaveRawString(it.v, compression)
     ELSE IF it.op = RDB_MODULE_OPCODE_DOUBLE THEN rdbSaveBinaryDoubleValue(it.v)
     ELSE LittleEndian(it.v, 4))

\* RM_LoadUnsigned, moduleLoadString, RM_LoadDouble, RM_LoadFloat: the process
\* ends on another opcode or a short read.
LoadItem(b, op) ==
    Then(rdbLoadLenByRef(b), LAMBDA code, rest :
      IF code.len # op THEN Failed
      ELSE Then(IF op = RDB_MODULE_OPCODE_UINT
                THEN Then(rdbLoadLenByRef(rest), LAMBDA l, left : Read(l.len, left))
                ELSE IF op = RDB_MODULE_OPCODE_STRING THEN rdbGenericLoadStringObject(rest)
                ELSE IF op = RDB_MODULE_OPCODE_DOUBLE THEN rdbLoadBinaryDoubleValue(rest)
                ELSE Then(rioRead(rest, 4), LAMBDA f, left : Read(FromBig(Reverse(f)), left)),
                LAMBDA v, left : Read([op |-> op, v |-> v], left)))

\* The callback reads what it saved; then the end mark of a module value.
RECURSIVE LoadItems(_, _)
LoadItems(b, ops) ==
    IF ops = <<>>
    THEN Then(rdbLoadLenByRef(b), LAMBDA eof, left :
           IF eof.len = RDB_MODULE_OPCODE_EOF THEN Read(<<>>, left) ELSE Failed)
    ELSE Then(LoadItem(b, Head(ops)), LAMBDA it, rest :
         Then(LoadItems(rest, Tail(ops)), LAMBDA its, left : Read(<<it>> \o its, left)))

\* rdbLoadCheckModuleValue: the check tool reads by the opcodes alone.
RECURSIVE rdbLoadCheckModuleValue(_)
rdbLoadCheckModuleValue(b) ==
    Then(rdbLoadLenByRef(b), LAMBDA code, rest :
      IF code.len = RDB_MODULE_OPCODE_EOF THEN Read(<<>>, rest)
      ELSE Then(LoadItem(b, code.len), LAMBDA it, left : rdbLoadCheckModuleValue(left)))

-----------------------------------------------------------------------------
(* Objects. *)

Concat(ss) == FoldLeft(LAMBDA acc, s : acc \o s, <<>>, ss)
Strings(ss, compression) == Concat([i \in DOMAIN ss |-> rdbSaveRawString(ss[i], compression)])

\* rdbSaveObjectType; the last four are what older servers wrote.
rdbSaveObjectType(o) ==
    CASE o.type = "string" -> 0
      [] o.type = "list" /\ o.enc = "quicklist" -> 14
      [] o.type = "set" -> IF o.enc = "intset" THEN 11 ELSE 2
      [] o.type = "zset" /\ o.enc # "old" -> IF o.enc = "ziplist" THEN 12 ELSE 5
      [] o.type = "hash" /\ o.enc # "zipmap" -> IF o.enc = "ziplist" THEN 13 ELSE 4
      [] o.type = "module" -> 7
      [] o.type = "list" /\ o.enc # "quicklist" -> IF o.enc = "ziplist" THEN 10 ELSE 1
      [] o.type = "zset" /\ o.enc = "old" -> 3
      [] o.type = "hash" /\ o.enc = "zipmap" -> 9

SaveNode(nd, compression) ==
    LET zl == Block(nd.elems) IN
    IF nd.lzf THEN rdbSaveLzfBlob(Compress(zl), Len(zl)) ELSE rdbSaveRawString(zl, compression)

\* rdbSaveObject.  A skip list is saved from its tail.
rdbSaveObject(o, compression) ==
    CASE o.enc = "int" -> rdbSaveLongLongAsStringObject(o.val)
      [] o.enc = "raw" -> rdbSaveRawString(o.val, compression)
      [] o.enc = "quicklist" ->
            rdbSaveLen(Len(o.val)) \o Concat([i \in DOMAIN o.val |-> SaveNode(o.val[i], compression)])
      [] o.enc = "ht" /\ o.type = "set" -> rdbSaveLen(Len(o.val)) \o Strings(o.val, compression)
      [] o.enc = "ht" /\ o.type = "hash" -> rdbSaveLen(Len(o.val)) \o Strings(Flat(o.val), compression)
      [] o.enc = "intset" -> rdbSaveRawString(Block([i \in DOMAIN o.val |-> ll2string(o.val[i])]), compression)
      [] o.enc = "ziplist" /\ o.type = "zset" -> rdbSaveRawString(Block(Flat(Scored(o.val))), compression)
      [] o.enc = "ziplist" /\ o.type = "hash" -> rdbSaveRawString(Block(Flat(o.val)), compression)
      [] o.enc = "skiplist" ->
            rdbSaveLen(Len(o.val)) \o
            Concat([i \in DOMAIN o.val |->
                      LET p == o.val[Len(o.val) + 1 - i] IN
                      rdbSaveRawString(p[1], compression) \o rdbSaveBinaryDoubleValue(p[2])])
      [] o.enc = "module" ->
            Concat([i \in DOMAIN o.val |-> SaveItem(o.val[i], compression)]) \o rdbSaveLen(RDB_MODULE_OPCODE_EOF)
      [] o.enc \in {"linked", "zipmap", "old"} \/ (o.enc = "ziplist" /\ o.type = "list") ->
            IF o.enc = "linked" THEN rdbSaveLen(Len(o.val)) \o Strings(o.val, compression)
            ELSE IF o.enc = "old"
            THEN rdbSaveLen(Len(o.val)) \o
                 Concat([i \in DOMAIN o.val |->
                           rdbSaveRawString(o.val[i][1], compression) \o rdbSaveDoubleValue(o.val[i][2])])
            ELSE rdbSaveRawString(Block(IF o.enc = "zipmap" THEN Flat(o.val) ELSE o.val), compression)

Obj(type, enc, val) == [type |-> type, enc |-> enc, val |-> val]
LoadString(b) ==
    Then(rdbGenericLoadStringObject(b), LAMBDA s, rest :      \* and tryObjectEncoding
      Read(IF IsNumber(s) THEN Obj("string", "int", ValueOf(s)) ELSE Obj("string", "raw", s), rest))

LoadSet(b, n, limits) ==
    Then(LoadStrings(b, n), LAMBDA es, rest :
      Read(IF n <= limits.intset /\ \A i \in DOMAIN es : IsNumber(es[i])
           THEN Obj("set", "intset", [i \in DOMAIN es |-> ValueOf(es[i])])
           ELSE Obj("set", "ht", es), rest))

Longest(es) == FoldLeft(LAMBDA m, e : IF Len(e) > m THEN Len(e) ELSE m, 0, es)

\* zslInsert puts every pair in its place.
LoadZset(b, n, binary, limits) ==
    LET less(p, q) == p[2].units < q[2].units \/ (p[2].units = q[2].units /\ p[2].tiny < q[2].tiny) IN
    Then(LoadPairs(b, n, binary), LAMBDA ps, rest :
      Read(Obj("zset", IF n <= limits.zset /\ Longest([i \in DOMAIN ps |-> ps[i][1]]) <= limits.zsetvalue
                       THEN "ziplist" ELSE "skiplist", SortSeq(ps, less)), rest))

\* Turned into a table by the number of pairs, or by the first long string.
LoadHash(b, n, limits) ==
    Then(LoadStrings(b, 2 * n), LAMBDA es, rest :
      Read(Obj("hash", IF n > limits.hash \/ Longest(es) > limits.hashvalue THEN "ht" ELSE "ziplist",
               Paired(es)), rest))

PlainNode(es) == [lzf |-> FALSE, elems |-> es]

RECURSIVE LoadNodes(_, _)
LoadNodes(b, n) ==
    IF n = 0 THEN Read(<<>>, b)
    ELSE Then(rdbGenericLoadStringObject(b), LAMBDA zl, rest :
         Then(LoadNodes(rest, n - 1), LAMBDA nds, left :
           Read(<<PlainNode(Elements(zl))>> \o nds, left)))

\* The encoded types: the number of entries is looked at, not their lengths,
\* except for a zipmap.
EncodedObject(es, type, limits) ==
    LET n == Len(es) IN
    CASE type = 9 -> Obj("hash", IF n \div 2 > limits.hash \/ Longest(es) > limits.hashvalue
                                 THEN "ht" ELSE "ziplist", Paired(es))
      [] type = 10 -> Obj("list", "quicklist", <<PlainNode(es)>>)
      [] type = 11 -> IF n > limits.intset THEN Obj("set", "ht", es)
                      ELSE Obj("set", "intset", [i \in DOMAIN es |-> ValueOf(es[i])])
      [] type = 12 -> Obj("zset", IF n \div 2 > limits.zset THEN "skiplist" ELSE "ziplist",
                          Unscored(Paired(es)))
      [] type = 13 -> Obj("hash", IF n \div 2 > limits.hash THEN "ht" ELSE "ziplist", Paired(es))

LoadEncoded(b, type, limits) ==
    Then(rdbGenericLoadStringObject(b), LAMBDA bl, rest :
      Read(EncodedObject(Elements(bl), type, limits), rest))

\* rdbLoadObject.  ops is what the callback of a module type expects.
rdbLoadObject(b, type, limits, ops) ==
    IF type = 0 THEN LoadString(b)
    ELSE IF type = 7
    THEN Then(LoadItems(b, ops), LAMBDA its, rest : Read(Obj("module", "module", its), rest))
    ELSE IF type \in 9 .. 13 THEN LoadEncoded(b, type, limits)
    ELSE Then(rdbLoadLenByRef(b), LAMBDA l, items :
      IF type = 1
      THEN Then(LoadStrings(items, l.len), LAMBDA es, rest :
             Read(Obj("list", "quicklist", <<PlainNode(es)>>), rest))
      ELSE IF type = 2 THEN LoadSet(items, l.len, limits)
      ELSE IF type \in {3, 5} THEN LoadZset(items, l.len, type = 5, limits)
      ELSE IF type = 4 THEN LoadHash(items, l.len, limits)
      ELSE Then(LoadNodes(items, l.len), LAMBDA nds, rest : Read(Obj("list", "quicklist", nds), rest)))

-----------------------------------------------------------------------------
(* Commands for what a plain Redis saved. *)

\* The arguments after the key: each loop ends at the last item or when the
\* array is full, the first item is always taken.
RECURSIVE Batches(_, _)
Batches(items, width) ==
    LET room == CHOOSE k \in 1 .. MaxArgv : 2 + k * width >= MaxArgv /\ 2 + (k - 1) * width < MaxArgv
        k == IF Len(items) < room THEN Len(items) ELSE room
    IN IF items = <<>> THEN <<>>
       ELSE <<Concat(SubSeq(items, 1, k))>> \o Batches(SubSeq(items, k + 1, Len(items)), width)

\* createStringObjectFromLongDouble, humanfriendly: no more than 17 decimals.
PlainScore(x) == ll2string(x.units)

\* data2CrdtData; a list or a module value ends the loading.
data2CrdtData(o) ==
    LET items == CASE o.type = "string" -> <<<<IF o.enc = "int" THEN ll2string(o.val) ELSE o.val>>>>
                   [] o.type = "hash" -> [i \in DOMAIN o.val |-> o.val[i]]
                   [] o.type = "set" -> [i \in DOMAIN o.val |->
                                           <<IF o.enc = "intset" THEN ll2string(o.val[i]) ELSE o.val[i]>>]
                   [] o.type = "zset" -> [i \in DOMAIN o.val |-> <<PlainScore(o.val[i][2]), o.val[i][1]>>]
    IN IF o.type \in {"list", "module"} THEN <<>>
       ELSE Batches(items, IF o.type \in {"string", "set"} THEN 1 ELSE 2)

-----------------------------------------------------------------------------
ObjectInit ==
    \E o \in Objects, compression \in BOOLEAN, limits \in LoadLimits :
        robj = [phase |-> "memory", o |-> o, compression |-> compression, limits |-> limits,
                bytes |-> <<>>, out |-> <<>>, commands |-> <<>>]

\* rdbSaveKeyValuePair, the type and the value.
SaveObject ==
    /\ robj.phase = "memory"
    /\ robj' = [robj EXCEPT !.phase = "file",
                            !.bytes = <<rdbSaveObjectType(robj.o)>> \o rdbSaveObject(robj.o, robj.compression)]

Ops(o) == IF o.type = "module" THEN [i \in DOMAIN o.val |-> o.val[i].op] ELSE <<>>
LoadFrom(b) ==
    IF b = <<>> THEN Failed ELSE rdbLoadObject(Tail(b), b[1], robj.limits, Ops(robj.o))

LoadObject ==
    /\ robj.phase = "file"
    /\ LET r == LoadFrom(robj.bytes) IN
       robj' = [robj EXCEPT !.phase = IF r.ok /\ r.rest = <<>> THEN "loaded" ELSE "failed",
                            !.out = IF r.ok THEN <<r.val>> ELSE <<>>]

ConvertObject ==
    /\ robj.phase = "loaded"
    /\ robj' = [robj EXCEPT !.phase = "commands", !.commands = data2CrdtData(robj.out[1])]

ObjectNext == SaveObject \/ LoadObject \/ ConvertObject

ObjectSpec == ObjectInit /\ [][ObjectNext]_rdbObjVars

-----------------------------------------------------------------------------
(* Properties. *)

\* What an object holds, whatever its encoding.
ContentOf(o) ==
    CASE o.type = "string" -> IF o.enc = "int" THEN ll2string(o.val) ELSE o.val
      [] o.type = "list" -> IF o.enc = "quicklist" THEN Concat([i \in DOMAIN o.val |-> o.val[i].elems]) ELSE o.val
      [] o.type = "set" -> {IF o.enc = "intset" THEN ll2string(o.val[i]) ELSE o.val[i] : i \in DOMAIN o.val}
      [] o.type \in {"zset", "hash"} -> ToSet(o.val)
      [] o.type = "module" -> o.val

\* rdbSaveObject and rdbLoadObject: every object, in every encoding, is read
\* back with the same content and to its last byte, with and without
\* compression and whatever the limits of the reader; an encoding that the
\* reader's number of entries does not allow is not kept.
LoadedSame ==
    /\ robj.phase # "failed"
    /\ robj.phase = "loaded" =>
          LET o == robj.out[1] IN
          /\ o.type = robj.o.type /\ ContentOf(o) = ContentOf(robj.o)
          /\ o.enc = "intset" => Len(o.val) <= robj.limits.intset
          /\ o.type = "hash" /\ o.enc = "ziplist" => Len(o.val) <= robj.limits.hash
          /\ o.type = "zset" /\ o.enc = "ziplist" => Len(o.val) <= robj.limits.zset

\* Every read checks what it was given: a file that ends anywhere inside the
\* object is never taken for a shorter object, by the server or, for module
\* values, by the check tool that knows only the opcodes.
ShortRefused ==
    robj.phase = "file" =>
      \A k \in 0 .. Len(robj.bytes) - 1 :
         LET b == SubSeq(robj.bytes, 1, k) IN
         /\ ~LoadFrom(b).ok
         /\ k > 0 /\ b[1] = 7 => ~rdbLoadCheckModuleValue(Tail(b)).ok

\* data2CrdtData: the commands, none longer than the array they are built in,
\* carry every element once, in the batches however many there are (of a score
\* the 17 decimals that are printed).
CommandsWhole ==
    robj.phase = "commands" /\ robj.o.type \notin {"list", "module"} =>
      LET o == robj.out[1]
          all == Concat(robj.commands)
      IN /\ \A i \in DOMAIN robj.commands : robj.commands[i] # <<>> /\ 2 + Len(robj.commands[i]) <= MaxArgv
         /\ CASE o.type = "string" -> all = <<ContentOf(robj.o)>>
              [] o.type = "set" -> Len(all) = Len(o.val) /\ ToSet(all) = ContentOf(robj.o)
              [] o.type = "hash" -> Len(all) = 2 * Len(o.val) /\ ToSet(Paired(all)) = ContentOf(robj.o)
              [] o.type = "zset" -> Paired(all) = [i \in DOMAIN o.val |-> <<PlainScore(o.val[i][2]), o.val[i][1]>>]

-----------------------------------------------------------------------------
(***************************************************************************)
(* The RDB file on disk (rdb.c): what rdbSaveRio writes and rdbLoadRio     *)
(* makes of it, the temporary file and the rename, and everything that     *)
(* replaces the file or counts changes: BGSAVE's child, SAVE, FLUSHALL,    *)
(* SHUTDOWN, DEBUG RELOAD, a full synchronisation and a restart.           *)
(*                                                                         *)
(* The file is the sequence of what is written with one call; the bytes of *)
(* each are module RdbObjects.  A key has a value, a time to expire and a  *)
(* tombstone, 0 for none.                                                  *)
(***************************************************************************)

CONSTANTS RdbKeys, RdbDbs,
          rdb_checksum,     \* configuration
          saveparams,       \* configuration: there are save points
          MaxRdbWrites,     \* bound: changes
          MaxRdbSaves,      \* bound: files written
          MaxRdbFaults      \* bound: failures and crashes

VARIABLES rdbsrv,           \* [up, ks, dirty, before, child, status]
          dump,             \* the file: [items, of]; `of` is a ghost, what it was made from
          rdbghost          \* [newer, overwritten, swallowed, writes, saves, faults]

rdbFileVars == <<rdbsrv, dump, rdbghost>>

NoKey == [val |-> 0, expire |-> 0, tombstone |-> 0]
Entries == {NoKey, [val |-> 1, expire |-> 0, tombstone |-> 0], [val |-> 1, expire |-> 5, tombstone |-> 0],
            [val |-> 0, expire |-> 0, tombstone |-> 1], [val |-> 1, expire |-> 0, tombstone |-> 1]}
EmptyKs == [d \in RdbDbs |-> [k \in RdbKeys |-> NoKey]]

Live(db) == {k \in RdbKeys : db[k].val # 0}
Dead(db) == {k \in RdbKeys : db[k].tombstone # 0}

-----------------------------------------------------------------------------
(* Writing. *)

\* One live key, with the tombstone it has.
SaveLive(db, k) ==
    (IF db[k].expire # 0 THEN <<[op |-> "expire", a |-> db[k].expire, b |-> 0]>> ELSE <<>>) \o
    <<[op |-> "crdt", a |-> k, b |-> 0], [op |-> "payload", a |-> db[k].val, b |-> db[k].tombstone]>>

SaveDead(db, k) ==
    <<[op |-> "crdt", a |-> k, b |-> 0], [op |-> "payload", a |-> 0, b |-> db[k].tombstone]>>

\* RDB_OPCODE_RESIZEDB: hints, with the number of tombstones.
rdbSaveCrdtDbSize(db) == [op |-> "resizedb", a |-> Cardinality(Live(db)), b |-> Cardinality(Dead(db))]

\* Seeded fault: a database without live keys is skipped, tombstones and all.
SaveDb_LiveOnly(d, db) ==
    IF Live(db) = {} THEN <<>>
    ELSE <<[op |-> "selectdb", a |-> d, b |-> 0],
           rdbSaveCrdtDbSize(db)>>
         \o FoldLeft(LAMBDA acc, k : acc \o SaveLive(db, k), <<>>, SetToSeq(Live(db)))
         \o FoldLeft(LAMBDA acc, k : acc \o SaveDead(db, k), <<>>, SetToSeq(Dead(db) \ Live(db)))

SaveDb(d, db) ==
    IF Live(db) = {} /\ Dead(db) = {} THEN <<>>
    ELSE <<[op |-> "selectdb", a |-> d, b |-> 0],
           rdbSaveCrdtDbSize(db)>>
         \o FoldLeft(LAMBDA acc, k : acc \o SaveLive(db, k), <<>>, SetToSeq(Live(db)))
         \o FoldLeft(LAMBDA acc, k : acc \o SaveDead(db, k), <<>>, SetToSeq(Dead(db) \ Live(db)))

\* rdbSaveRio up to the checksum: the signature, the auxiliary fields, the
\* databases, the end.
rdbSaveRio(ks) ==
    <<[op |-> "magic", a |-> 0, b |-> 0], [op |-> "aux", a |-> 0, b |-> 0]>>
    \o FoldLeft(LAMBDA acc, d : acc \o SaveDb(d, ks[d]), <<>>, SetToSeq(RdbDbs))
    \o <<[op |-> "eof", a |-> 0, b |-> 0]>>

\* The checksum is of what was meant to be written.
File(ks, lost) ==
    LET items == rdbSaveRio(ks) IN
    [items |-> SelectSeq([i \in DOMAIN items |-> IF i \in lost THEN [op |-> "lost", a |-> 0, b |-> 0] ELSE items[i]],
                         LAMBDA it : it.op # "lost"),
     cksum |-> IF rdb_checksum THEN items ELSE <<>>, of |-> ks]

\* What rdbSave may leave under its final name: the file, whole or, since
\* nobody looks at what became of a CRDT value, short of one.
Payloads(ks) == {i \in DOMAIN rdbSaveRio(ks) : rdbSaveRio(ks)[i].op = "payload"}
WrittenFiles(ks, faults) ==
    {File(ks, {})} \cup (IF faults < MaxRdbFaults THEN {File(ks, {i}) : i \in Payloads(ks)} ELSE {})

-----------------------------------------------------------------------------
(* Reading. *)

\* An expire is set only where the value is.
rdbLoadCrdtData(s, it) ==
    [s EXCEPT !.ks[s.db][s.key] = [val |-> it.a, tombstone |-> it.b,
                                   expire |-> IF it.a # 0 THEN s.expire ELSE 0],
              !.key = 0, !.expire = 0]

\* One step of the loop of rdbLoadRio.  A value without its key's opcode, or a
\* key without its value, ends the process.
LoadEntry(s, it) ==
    IF ~s.ok \/ s.done THEN s
    ELSE IF s.key # 0
    THEN IF it.op # "payload" THEN [s EXCEPT !.ok = FALSE]
         ELSE rdbLoadCrdtData(s, it)
    ELSE CASE it.op = "expire" -> [s EXCEPT !.expire = it.a]
           [] it.op = "crdt" -> [s EXCEPT !.key = it.a]
           [] it.op = "selectdb" -> [s EXCEPT !.db = it.a]
           [] it.op \in {"aux", "resizedb"} -> s
           [] it.op = "eof" -> [s EXCEPT !.done = TRUE]
           [] it.op = "payload" -> [s EXCEPT !.ok = FALSE]

\* The signature and the version; another file is not loaded.
Signature(file) == Len(file.items) > 0 /\ file.items[1].op = "magic"

rdbLoadRio(file) ==
    LET start == [ok |-> Signature(file), done |-> FALSE, ks |-> EmptyKs,
                  db |-> CHOOSE d \in RdbDbs : TRUE, key |-> 0, expire |-> 0]
        end == FoldLeft(LoadEntry, start, Tail(file.items))
    IN [ok |-> /\ end.ok /\ end.done
               /\ rdb_checksum /\ file.cksum # <<>> => file.cksum = file.items,
        ks |-> end.ks]

-----------------------------------------------------------------------------
NoChild == [running |-> FALSE, exited |-> "", snapshot |-> <<>>]

FileInit ==
    /\ rdbsrv = [up |-> TRUE, ks |-> EmptyKs, dirty |-> 0, before |-> 0, child |-> NoChild, status |-> "ok"]
    /\ dump = File(EmptyKs, {})
    /\ rdbghost = [newer |-> FALSE, overwritten |-> FALSE, swallowed |-> FALSE, writes |-> 0, saves |-> 0, faults |-> 0]

HasChild == rdbsrv.child # NoChild

\* rename of a finished temporary file; newer says that the file was replaced
\* after the child took its snapshot.
Renamed(f, bychild) ==
    /\ dump' = f
    /\ LET short == Len(f.items) # Len(rdbSaveRio(f.of)) IN
       rdbghost' = [rdbghost EXCEPT !.newer = IF bychild THEN @ ELSE HasChild,
                                    !.swallowed = short,
                                    !.saves = @ + 1, !.faults = @ + (IF short THEN 1 ELSE 0)]
MaySave == rdbghost.saves < MaxRdbSaves
Fault == rdbghost.faults < MaxRdbFaults /\ rdbghost' = [rdbghost EXCEPT !.faults = @ + 1]

Write(d, k, e) ==
    /\ rdbsrv.up /\ rdbghost.writes < MaxRdbWrites /\ rdbsrv.ks[d][k] # e
    /\ rdbsrv' = [rdbsrv EXCEPT !.ks[d][k] = e, !.dirty = @ + 1]
    /\ rdbghost' = [rdbghost EXCEPT !.writes = @ + 1]
    /\ UNCHANGED dump

-----------------------------------------------------------------------------
(* The child. *)

rdbSaveBackground ==
    /\ rdbsrv.up /\ ~HasChild /\ MaySave
    /\ \/ /\ rdbsrv' = [rdbsrv EXCEPT !.before = rdbsrv.dirty,
                                      !.child = [running |-> TRUE, exited |-> "", snapshot |-> <<rdbsrv.ks>>]]
          /\ rdbghost' = [rdbghost EXCEPT !.newer = FALSE]
       \/ /\ Fault      \* fork
          /\ rdbsrv' = [rdbsrv EXCEPT !.before = rdbsrv.dirty, !.status = "err"]
    /\ UNCHANGED dump

ChildSaves ==
    /\ rdbsrv.child.running
    /\ \E f \in WrittenFiles(rdbsrv.child.snapshot[1], rdbghost.faults) : Renamed(f, TRUE)
    /\ rdbsrv' = [rdbsrv EXCEPT !.child.running = FALSE, !.child.exited = "ok"]

\* A write, flush, fsync, close or rename error, or a signal.
ChildFails ==
    /\ rdbsrv.child.running /\ Fault
    /\ \E how \in {"error", "signal"} :
          rdbsrv' = [rdbsrv EXCEPT !.child.running = FALSE, !.child.exited = how]
    /\ UNCHANGED dump

backgroundSaveDoneHandlerDisk ==
    /\ rdbsrv.up /\ HasChild /\ ~rdbsrv.child.running
    /\ LET how == rdbsrv.child.exited IN
       rdbsrv' = [rdbsrv EXCEPT !.child = NoChild,
                                !.dirty = IF how = "ok" THEN @ - rdbsrv.before ELSE @,
                                !.status = IF how = "ok" THEN "ok" ELSE IF how = "usr1" THEN @ ELSE "err"]
    /\ rdbghost' = [rdbghost EXCEPT !.overwritten = IF rdbsrv.child.exited = "ok" THEN rdbghost.newer ELSE @]
    /\ UNCHANGED dump

\* kill(SIGUSR1); a child that has ended is past caring.
Killed(c) == IF c.running THEN [c EXCEPT !.running = FALSE, !.exited = "usr1"] ELSE c

-----------------------------------------------------------------------------
(* The server itself writes the file. *)

\* rdbSave; ks is the dataset then, and the child as it is left.
SaveCommand ==
    /\ rdbsrv.up /\ ~HasChild /\ MaySave
    /\ \/ /\ \E f \in WrittenFiles(rdbsrv.ks, rdbghost.faults) : Renamed(f, FALSE)
          /\ rdbsrv' = [rdbsrv EXCEPT !.dirty = 0, !.status = "ok"]
       \/ Fault /\ UNCHANGED <<rdbsrv, dump>>

flushallCommand ==
    /\ rdbsrv.up /\ MaySave /\ rdbghost.writes < MaxRdbWrites
    /\ LET removed == Cardinality({<<d, k>> \in RdbDbs \X RdbKeys : rdbsrv.ks[d][k].val # 0})
           flushed == [rdbsrv EXCEPT !.ks = EmptyKs, !.dirty = @ + removed + 1, !.child = Killed(@)]
       IN \/ /\ saveparams
             /\ Renamed(File(EmptyKs, {}), FALSE)
             /\ rdbsrv' = [flushed EXCEPT !.status = "ok"]
          \/ saveparams /\ Fault /\ rdbsrv' = flushed /\ UNCHANGED dump
          \/ /\ ~saveparams /\ rdbsrv' = flushed /\ UNCHANGED dump
             /\ rdbghost' = [rdbghost EXCEPT !.writes = @ + 1]

\* DEBUG RELOAD: saves, empties and loads, whatever the child does.
DebugReload ==
    /\ rdbsrv.up /\ MaySave
    /\ \E f \in WrittenFiles(rdbsrv.ks, rdbghost.faults) :
          /\ Renamed(f, FALSE)
          /\ LET r == rdbLoadRio(f) IN
             rdbsrv' = [rdbsrv EXCEPT !.up = r.ok, !.ks = r.ks, !.dirty = 0, !.status = "ok",
                                      !.child = IF r.ok THEN @ ELSE NoChild]

\* readSyncBulkPayload: the file received from the master becomes the dump and
\* is loaded; neither the child nor the count of changes is touched.
FullSync(d, k, e) ==
    /\ rdbsrv.up /\ MaySave
    /\ LET ks == [EmptyKs EXCEPT ![d][k] = e] IN
       /\ Renamed(File(ks, {}), FALSE)
       /\ rdbsrv' = [rdbsrv EXCEPT !.ks = rdbLoadRio(File(ks, {})).ks]

\* prepareForShutdown: refused if the file cannot be written.
Shutdown ==
    /\ rdbsrv.up /\ MaySave
    /\ LET down == [rdbsrv EXCEPT !.up = FALSE, !.dirty = 0, !.child = NoChild] IN
       \/ saveparams /\ rdbsrv' = down /\ \E f \in WrittenFiles(rdbsrv.ks, rdbghost.faults) : Renamed(f, FALSE)
       \/ ~saveparams /\ rdbsrv' = down /\ UNCHANGED <<dump, rdbghost>>
       \/ saveparams /\ Fault /\ rdbsrv' = [rdbsrv EXCEPT !.child = Killed(@)] /\ UNCHANGED dump

\* The process is gone at any moment; the temporary file is never read again.
Crash ==
    /\ rdbsrv.up /\ Fault
    /\ rdbsrv' = [rdbsrv EXCEPT !.up = FALSE, !.child = NoChild]
    /\ UNCHANGED dump

\* loadDataFromDisk; a file that does not load ends the process again.
Restart ==
    /\ ~rdbsrv.up /\ rdbLoadRio(dump).ok
    /\ rdbsrv' = [rdbsrv EXCEPT !.up = TRUE, !.ks = rdbLoadRio(dump).ks, !.dirty = 0, !.before = 0, !.status = "ok"]
    /\ rdbghost' = [rdbghost EXCEPT !.overwritten = FALSE]
    /\ UNCHANGED dump

FileNext ==
    \/ \E d \in RdbDbs, k \in RdbKeys, e \in Entries : Write(d, k, e) \/ (e.val # 0 /\ FullSync(d, k, e))
    \/ rdbSaveBackground \/ ChildSaves \/ ChildFails \/ backgroundSaveDoneHandlerDisk
    \/ SaveCommand \/ flushallCommand \/ DebugReload \/ Shutdown \/ Crash \/ Restart

FileSpec == FileInit /\ [][FileNext]_rdbFileVars

-----------------------------------------------------------------------------
(* Properties. *)

\* rdbSave and rdbLoadRio: the file under its final name loads into exactly
\* the dataset it was made from (every database, value, expire and tombstone)
\* whatever crash or error came before, and a file that lost a value on the
\* way is refused rather than loaded short.
DumpLoadsWhole ==
    LET r == rdbLoadRio(dump) IN
    /\ r.ok => r.ks = dump.of
    /\ ~rdbghost.swallowed => r.ok

\* server.dirty and server.dirty_before_bgsave: when no change is counted as
\* unsaved, none is, so that no save point, and no SHUTDOWN without them,
\* leaves one behind; except after a child that ended well though the file was
\* replaced since it began (DEBUG RELOAD and a full synchronisation leave it).
CleanMeansSaved ==
    rdbsrv.up /\ rdbsrv.dirty <= 0 /\ ~HasChild /\ ~rdbghost.overwritten => rdbsrv.ks = dump.of
=============================================================================
