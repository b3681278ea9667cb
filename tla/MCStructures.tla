-------------------------- MODULE MCStructures --------------------------
(***************************************************************************)
(* The data structures for TLC: the arrays of vector clocks, whose module  *)
(* is extended, and each of the others in a small instance of its own, in  *)
(* behaviours that are told apart by part. The components share nothing;   *)
(* they are checked in one run because what is asked of them is the same:  *)
(* that the structure holds what was put into it.                          *)
(***************************************************************************)
EXTENDS VectorClockUnits

VARIABLES
    part,   \* the component of this behaviour
    r1, r2, r3, r4, r5, r6, r7, r8   \* its variables

Fills == {[by |-> "count", max |-> 2], [by |-> "size", max |-> 3]}

RaxWords == {<<>>, <<1>>, <<1, 1>>, <<1, 1, 1>>, <<1, 2, 1>>, <<1, 2>>, <<1, 1, 2, 1>>, <<2, 1>>,
             <<3, 1, 2>>, <<3, 1, 3>>, <<3>>, <<1, 2, 1, 3>>}

\* Values around the length at which the header of the next entry grows (254).
ZipItems == {[int |-> 5], [str |-> 248], [str |-> 251], [str |-> 300]}

Repeat(b, n) == [i \in 1..n |-> b]
Mixed(n) == [i \in 1..n |-> IF i < 16 THEN i ELSE (i * i * 3 + i) % 16]
LzfInputs ==
    UNION {[1..n -> {1, 2}] : n \in 4..7}
    \cup {Repeat(5, 11), Mixed(25) \o SubSeq(Mixed(25), 2, 20), Mixed(25) \o SubSeq(Mixed(25), 2, 21),
          Mixed(25) \o SubSeq(Mixed(25), 2, 18) \o <<9, 9>>,
          Mixed(27) \o SubSeq(Mixed(27), 2, 27) \o <<9, 9>>, Mixed(34) \o SubSeq(Mixed(34), 1, 8),
          Mixed(32) \o SubSeq(Mixed(32), 1, 8)}


\* Objects whose lengths and numbers lie on both sides of each limit of the encodings.
Object(t, e, v) == [type |-> t, enc |-> e, val |-> v]
Score(u, t) == [units |-> u, tiny |-> t]
Strings == {<<>>, <<0>>, <<0, 7>>, <<7>>, <<8>>, <<10, 8>>, <<10, 9>>, <<1, 2, 7>>, <<1, 2, 8>>,
            <<10, 1, 2, 8>>, <<10, 1, 2, 9>>, <<3, 2, 7, 6, 7>>, <<3, 2, 7, 6, 8>>,
            <<10, 3, 2, 7, 6, 8>>, <<10, 3, 2, 7, 6, 9>>, <<11, 12>>, <<10>>, <<10, 0>>,
            Repeat(11, 9), Repeat(1, 9), Repeat(12, 70)}
Numbers == {0, 7, 8, -8, -9, 127, 128, -128, -129, 32767, 32768, -32768, -32769, 99999}
Three == <<<<11>>, <<4>>, <<11, 12, 13>>>>
Pairs(n) == [i \in 1..n |-> <<<<i>>, IF i = 3 THEN <<12, 12, 12, 12>> ELSE <<i, 11>>>>]
Scored(n) == [i \in 1..n |-> <<<<11, i>>, Score(i * 3, IF i = 2 THEN 1 ELSE 0)>>]
RdbValues ==
    {Object("string", "raw", t) : t \in Strings} \cup {Object("string", "int", v) : v \in Numbers}
    \cup {Object("set", "ht", SubSeq(Three, 1, n)) : n \in 0..3}
    \cup {Object("set", "ht", [i \in 1..n |-> <<i>>]) : n \in {2, 4, 7}}
    \cup {Object("set", "intset", [i \in 1..n |-> i * 50 - 60]) : n \in 0..4}
    \cup {Object("hash", e, Pairs(n)) : e \in {"ziplist", "ht", "zipmap"}, n \in {0, 1, 2, 3, 5}}
    \cup {Object("zset", e, Scored(n)) : e \in {"ziplist", "skiplist", "old"}, n \in {0, 1, 2, 4}}
    \cup {Object("list", "quicklist", v) :
             v \in {<<>>, <<[lzf |-> FALSE, elems |-> Three]>>,
                    <<[lzf |-> TRUE, elems |-> <<<<1>>, Repeat(12, 9)>>]>>,
                    <<[lzf |-> FALSE, elems |-> <<<<1>>>>], [lzf |-> FALSE, elems |-> <<<<11, 2>>, <<>>>>]>>}}
    \cup {Object("list", e, v) : e \in {"ziplist", "linked"}, v \in {<<>>, Three}}
    \cup {Object("module", "module", v) :
             v \in {<<>>, <<[op |-> 2, v |-> 70000], [op |-> 5, v |-> <<1, 2>>]>>,
                    <<[op |-> 4, v |-> Score(9, 1)], [op |-> 3, v |-> 500],
                      [op |-> 5, v |-> Repeat(12, 9)], [op |-> 2, v |-> 3]>>}}
RdbLimits == {[intset |-> a, zset |-> a, zsetvalue |-> b, hash |-> a, hashvalue |-> b] :
                 a \in {1, 3}, b \in {1, 4}}

D == INSTANCE KeyTables WITH Keys <- {0, 1, 3}, InitialSize <- 1, ForceResizeRatio <- 1,
        ExpandMaxIdle <- 4, MinFill <- 60, EmptyVisits <- 2, Word <- 8, RaxKeys <- RaxWords,
        RaxValues <- {1}, dict <- r1, canResize <- r2, content <- r3, scan <- r4, iter <- r5,
        rax <- r1, keymap <- r2

Z == INSTANCE SortedSet WITH Elements <- {1, 2, 3}, Long <- {3}, Scores <- {0, 1000},
        MaxLevel <- 2, MaxZiplistEntries <- 2, Operand <- {2, 3}, zobj <- r1, content <- r2

S == INSTANCE DataTypes WITH SetKeys <- {1, 2}, Texts <- {50}, MaxIntsetEntries <- 3, Max1 <- 1,
        Max2 <- 3, Fields <- {1, 2, 3}, LongFields <- {3}, LLMax <- 3, MaxHashEntries <- 2,
        ListKeys <- {1, 2}, ListValues <- {1}, Waiters <- {1, 2}, MaxListLength <- 2,
        MaxInMulti <- 2, setdb <- r1, setcopy <- r2, hash <- r1, hashcopy <- r2, lists <- r1,
        listcopy <- r2, blocked <- r3, waiting <- r4, ready <- r5, inMulti <- r6, served <- r7,
        overwritten <- r8

Q == INSTANCE PackedLists WITH Sizes <- {1, 2}, Fills <- Fills, Depths <- {0, 1, 2},
        MinCompress <- 2, SafetyLimit <- 3, MaxElements <- 4, ZipValues <- ZipItems,
        MaxZipLength <- 3, MaxZipEntries <- 4, zls <- r1, zipvalues <- r2, ql <- r1, fill <- r2,
        compress <- r3, elems <- r4

O == INSTANCE Rdb WITH ByteBits <- 4, MinLzf <- 6, MaxArgv <- 6, Objects <- RdbValues,
        LoadLimits <- RdbLimits, RdbKeys <- {1}, RdbDbs <- {0}, rdb_checksum <- TRUE,
        saveparams <- TRUE, MaxRdbWrites <- 2, MaxRdbSaves <- 3, MaxRdbFaults <- 1,
        LzfBits <- 4, Inputs <- LzfInputs, OutLens <- {4, 6, 7, 8, 9, 10, 12, 20, 60, 90},
        lz <- r1, robj <- r1, rdbsrv <- r1, dump <- r2, rdbghost <- r3

RB == INSTANCE Rdb WITH RdbKeys <- {1, 2}, RdbDbs <- {0, 1}, rdb_checksum <- TRUE,
        saveparams <- FALSE, MaxRdbWrites <- 2, MaxRdbSaves <- 1, MaxRdbFaults <- 1,
        ByteBits <- 4, MinLzf <- 6, MaxArgv <- 6, Objects <- RdbValues, LoadLimits <- RdbLimits,
        LzfBits <- 4, Inputs <- LzfInputs, OutLens <- {4, 6, 7, 8, 9, 10, 12, 20, 60, 90},
        lz <- r1, robj <- r1, rdbsrv <- r1, dump <- r2, rdbghost <- r3

all == <<vars, part, r1, r2, r3, r4, r5, r6, r7, r8>>

-----------------------------------------------------------------------------
\* A behaviour is one of one component: the registers hold its variables and
\* those it does not need stay at 0.
Begin ==
    /\ Init
    /\ \/ /\ part = "clocks"
          /\ r1 = 0 /\ r2 = 0 /\ r3 = 0 /\ r4 = 0 /\ r5 = 0 /\ r6 = 0 /\ r7 = 0 /\ r8 = 0
       \/ /\ part = "dict" /\ D!DictInit
          /\ r6 = 0 /\ r7 = 0 /\ r8 = 0
       \/ /\ part = "sorted set" /\ Z!Init
          /\ r3 = 0 /\ r4 = 0 /\ r5 = 0 /\ r6 = 0 /\ r7 = 0 /\ r8 = 0
       \/ /\ part = "set" /\ S!SetInit
          /\ r3 = 0 /\ r4 = 0 /\ r5 = 0 /\ r6 = 0 /\ r7 = 0 /\ r8 = 0
       \/ /\ part = "hash" /\ S!HashInit
          /\ r3 = 0 /\ r4 = 0 /\ r5 = 0 /\ r6 = 0 /\ r7 = 0 /\ r8 = 0
       \/ /\ part = "list" /\ S!ListInit
       \/ /\ part = "quicklist" /\ Q!QuickInit
          /\ r5 = 0 /\ r6 = 0 /\ r7 = 0 /\ r8 = 0
       \/ /\ part = "rax" /\ D!RaxInit
          /\ r3 = 0 /\ r4 = 0 /\ r5 = 0 /\ r6 = 0 /\ r7 = 0 /\ r8 = 0
       \/ /\ part = "ziplist" /\ Q!ZipInit
          /\ r3 = 0 /\ r4 = 0 /\ r5 = 0 /\ r6 = 0 /\ r7 = 0 /\ r8 = 0
       \/ /\ part = "rdb objects" /\ O!ObjectInit
          /\ r2 = 0 /\ r3 = 0 /\ r4 = 0 /\ r5 = 0 /\ r6 = 0 /\ r7 = 0 /\ r8 = 0
       \/ /\ part = "rdb" /\ O!FileInit
          /\ r4 = 0 /\ r5 = 0 /\ r6 = 0 /\ r7 = 0 /\ r8 = 0
       \/ /\ part = "rdb keys" /\ RB!FileInit
          /\ r4 = 0 /\ r5 = 0 /\ r6 = 0 /\ r7 = 0 /\ r8 = 0
       \/ /\ part = "lzf" /\ O!LzfInit
          /\ r2 = 0 /\ r3 = 0 /\ r4 = 0 /\ r5 = 0 /\ r6 = 0 /\ r7 = 0 /\ r8 = 0

Step_Clocks == part = "clocks" /\ Next /\ UNCHANGED <<part, r1, r2, r3, r4, r5, r6, r7, r8>>

Step_Dict == part = "dict" /\ D!DictNext /\ UNCHANGED <<vars, part, r6, r7, r8>>

Step_SortedSet == part = "sorted set" /\ Z!Next /\ UNCHANGED <<vars, part, r3, r4, r5, r6, r7,
        r8>>

Step_Set == part = "set" /\ S!SetNext /\ UNCHANGED <<vars, part, r3, r4, r5, r6, r7, r8>>

Step_Hash == part = "hash" /\ S!HashNext /\ UNCHANGED <<vars, part, r3, r4, r5, r6, r7, r8>>

Step_List == part = "list" /\ S!ListNext /\ UNCHANGED <<vars, part>>

Step_Quicklist == part = "quicklist" /\ Q!QuickNext /\ UNCHANGED <<vars, part, r5, r6, r7, r8>>

Step_Rax == part = "rax" /\ D!RaxNext /\ UNCHANGED <<vars, part, r3, r4, r5, r6, r7, r8>>

Step_Ziplist == part = "ziplist" /\ Q!ZipNext /\ UNCHANGED <<vars, part, r3, r4, r5, r6, r7, r8>>

Step_RdbObjects == part = "rdb objects" /\ O!ObjectNext /\ UNCHANGED <<vars, part, r2, r3, r4,
        r5, r6, r7, r8>>

Step_Rdb == part = "rdb" /\ O!FileNext /\ UNCHANGED <<vars, part, r4, r5, r6, r7, r8>>

Step_RdbKeys == part = "rdb keys" /\ RB!FileNext /\ UNCHANGED <<vars, part, r4, r5, r6, r7, r8>>

Step_Lzf == part = "lzf" /\ O!LzfNext /\ UNCHANGED <<vars, part, r2, r3, r4, r5, r6, r7, r8>>

\* The bounds stop these; the others never get stuck.
Stopped == part \in {"sorted set", "rax", "ziplist", "rdb objects", "rdb", "rdb keys", "lzf"} /\ UNCHANGED all

Steps ==
    \/ Step_Clocks
    \/ Step_Dict
    \/ Step_SortedSet
    \/ Step_Set
    \/ Step_Hash
    \/ Step_List
    \/ Step_Quicklist
    \/ Step_Rax
    \/ Step_Ziplist
    \/ Step_RdbObjects
    \/ Step_Rdb
    \/ Step_RdbKeys
    \/ Step_Lzf
    \/ Stopped

Runs == Begin /\ [][Steps]_all

\* The quicklist by itself.
QuicklistRuns == Begin /\ part = "quicklist" /\ [][Step_Quicklist]_all

-----------------------------------------------------------------------------
(***************************************************************************)
(* The properties. Each is about one question, asked of the components it  *)
(* concerns in the behaviours that are theirs; the modules of the          *)
(* components state in full what each conjunct says.                       *)
(***************************************************************************)

\* Whatever operations, resizings, changes of encoding, splits and merges came
\* before, a structure holds exactly what was put into it and not removed, and
\* everything it keeps beside that (counters, spans, backward links, sizes of
\* neighbours, the order of the units of a clock) is true: hash table
\* (_dictRehashStep, dictAdd), radix tree (raxGenericInsert, raxRemove),
\* sorted set (zslInsert, zsetConvert), set and hash (intsetUpgradeAndAdd,
\* hashTypeConvert), quicklist (_quicklistMergeNodes), ziplist
\* (__ziplistCascadeUpdate) and the arrays of vector clocks, whose comparisons
\* agree with the clocks they stand for (sortVectorClock,
\* isVectorClockMonoIncr). Left out is a quicklist after a push or a pop has
\* taken a compressed end for a plain one (quicklist.c:1352), which it can
\* meet: see EndsUncompressed.
ContentHeld ==
    /\ part = "clocks" => Sorted
    /\ part = "clocks" => ComparisonsAgree
    /\ part = "dict" => D!HoldsContent
    /\ part = "rax" => D!RaxHoldsKeys
    /\ part = "sorted set" => Z!EncodingHoldsContent
    /\ part = "set" => S!SetsWellFormed
    /\ part = "hash" => S!HashWellFormed
    /\ part = "quicklist" => Q!HoldsElements
    /\ part = "ziplist" => Q!ZiplistSound

\* A traversal finds all and only what it should, in its order: a SCAN that
\* ends has returned every key that was there all along although the table was
\* resized between its calls (dictScan), unless a call met two tables whose
\* sizes differ by a factor of four or more, which can miss keys (dict.c:901);
\* a safe iterator returns nothing twice; a random key can be any key; a seek
\* in a radix tree and the steps from there visit the keys in order (raxSeek);
\* a ziplist is walked back as it was filled; ranks and ranges of a sorted set
\* are exact in either encoding (zslGetRank, zzlFirstInRange).
TraversalsExact ==
    /\ part = "dict" => D!ScanCompleteUnlessApart
    /\ part = "dict" => D!IterationExact
    /\ part = "dict" => D!RandomReachesAll
    /\ part = "rax" => D!ForwardExact
    /\ part = "rax" => D!BackwardExact
    /\ part = "ziplist" => Q!BackwardFindsValues
    /\ part = "sorted set" => Z!RanksExact
    /\ part = "sorted set" => Z!RangesExact

\* The commands that call() propagates, replayed as plain operations, give a
\* copy exactly the sets, hashes and lists of the master: random choices
\* (spopCommand), rounded floats (hincrbyfloatCommand), changes of encoding
\* and pops on behalf of a blocked client (serveClientBlockedOnList) included.
CopiesSame ==
    /\ part = "set" => S!CopyHasSameSets
    /\ part = "hash" => S!CopyHasSameHash
    /\ part = "list" => S!CopyHasSameLists

\* What is written is read back: every object in every encoding, with and
\* without compression and whatever the limits of the reader (rdbSaveObject,
\* rdbLoadObject), and the dataset of the file under its final name, whatever
\* crash or error came before (rdbSave, rdbLoadRio); nothing cut short is
\* taken for whole; a plain file becomes commands that carry every element
\* once (data2CrdtData); compression never writes past its buffer and
\* decompresses to its input, whatever is in the uninitialised hash table
\* (lzf_compress); and when no change is counted as unsaved, none is, except
\* after a child that ended well though the file was replaced since it began.
FilesLoadWhole ==
    /\ part = "rdb objects" => O!LoadedSame
    /\ part = "rdb objects" => O!ShortRefused
    /\ part = "rdb objects" => O!CommandsWhole
    /\ part = "rdb" => O!DumpLoadsWhole
    /\ part = "rdb keys" => RB!DumpLoadsWhole
    /\ part = "rdb" => O!CleanMeansSaved
    /\ part = "rdb keys" => RB!CleanMeansSaved
    /\ part = "lzf" => O!DecompressesSame
    /\ part = "lzf" => O!WithinBuffer

\* Outside a transaction no client waits for a key that holds a list, whatever
\* command, or client served, put it there (signalListAsReady), but for a list
\* that took the place of a string, which setKey does without a signal; and
\* clients are served "from the one that blocked first, to the last"
\* (handleClientsBlockedOnLists).
BlockedServed ==
    /\ [](part = "list" => S!WaitersServedUnlessOverwritten)
    /\ [][part = "list" => S!ServesInOrder]_all

\* redis.conf:1065 of the nodes of a list: "[head], [tail] will always be
\* uncompressed". A node that was decompressed for use keeps its recompress
\* flag (quicklist.c:242); when the nodes before it are gone, the next
\* quicklistCompress compresses it although it is an end (quicklist.c:333).
EndsUncompressed == part = "quicklist" => Q!EndsUncompressed

=============================================================================
