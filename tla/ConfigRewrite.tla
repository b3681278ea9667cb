--------------------------- MODULE ConfigRewrite ---------------------------
(***************************************************************************)
(* The configuration file (config.c): it is loaded at start, rewritten by  *)
(* CONFIG REWRITE, and every five seconds read and overwritten again to    *)
(* keep the site's own clock in it (updateConfigFileVectorUnit).           *)
(*                                                                         *)
(* A line is [o, k, v, n, q]: its option (or comment, blank, signature,    *)
(* padding, unparsable or junk), a class or unit k, a value v, its length  *)
(* n in bytes without the newline and whether its value is quoted.  The    *)
(* options stand for the kinds the code tells apart: "mem" for every       *)
(* option with a default, written in bytes and read back with a unit;      *)
(* "clock" for local-clock; "str" for a string that may be NULL; "save"    *)
(* for save and peerof, any number of lines; "limit" for the output buffer *)
(* limits, a line per class; "other" for the options a rewrite does not    *)
(* understand (rename-command, loadmodule).                                *)
(***************************************************************************)
EXTENDS Integers, Sequences, SequencesExt

CONSTANTS CONFIG_MAX_LINE,  \* bytes fgets takes at a time
          Kb,               \* bytes of a kilobyte, 1024 in the code
          Files,            \* the files a server may be started with
          Sizes, Texts,     \* values of mem, lengths of str
          Saves, MaxClock,  \* values of save, highest clock
          MaxConfigSets, MaxConfigLines   \* bounds

VARIABLES file,             \* the lines on disk
          padded,           \* lines of padding at its end that a truncation would remove
          conf,             \* the running configuration
          unwritten,        \* ghost: options changed since they were last written
          comments,         \* ghost: the comments the file was given with
          split,            \* ghost: a line longer than the buffer was read in pieces
          configSets

crVars == <<file, padded, conf, unwritten, comments, split, configSets>>

Classes == {1, 2}
Options == {"mem", "clock", "str", "save", "limit", "other"}
Marks == {"comment", "signature", "padding", "unparsable"}

Line(o, k, v, n, q) == [o |-> o, k |-> k, v |-> v, n |-> n, q |-> q]
Blank == Line("blank", 0, 0, 0, FALSE)
Signature == Line("signature", 0, 0, 1, FALSE)

-----------------------------------------------------------------------------
(* Loading *)

Fatal == [fatal |-> TRUE]
Defaults == [fatal |-> FALSE, mem |-> 1, clock |-> 0, str |-> 0, save |-> <<>>,
             limit |-> [c \in Classes |-> 1], other |-> <<>>]

\* memtoll: the number times its unit.
memtoll(l) == l.v * l.k

\* One directive of loadServerConfigFromString: later lines win, save and the
\* like accumulate, an unknown directive is fatal.
Directive(c, l) ==
    IF c.fatal \/ l.o \in Marks \cup {"blank"} THEN c
    ELSE IF l.o = "junk" THEN Fatal
    ELSE IF l.o = "mem" THEN [c EXCEPT !.mem = memtoll(l)]
    ELSE IF l.o = "clock" THEN [c EXCEPT !.clock = l.v]
    ELSE IF l.o = "str" THEN [c EXCEPT !.str = l.v]
    ELSE IF l.o = "save" THEN [c EXCEPT !.save = Append(@, l.v)]
    ELSE IF l.o = "limit" THEN [c EXCEPT !.limit[l.k] = l.v]
    ELSE [c EXCEPT !.other = Append(@, l.v)]

loadServerConfig(f) == FoldLeft(Directive, Defaults, f)

-----------------------------------------------------------------------------
(* Rewriting: the state [lines, of, rewritten, tail], with the line numbers of each option *)

\* "# ???" and the line.
Unparsable(n) == Line("unparsable", 0, 0, n + 1, FALSE)

\* What fgets makes of a line: pieces of at most CONFIG_MAX_LINE bytes, the
\* newline counted, each then trimmed and parsed as a line of its own.  The
\* pieces of a quoted value have unbalanced quotes and become comments.  Only
\* padding may be longer than two pieces here.
Pieces(l) ==
    LET rest == l.n - CONFIG_MAX_LINE IN
    IF rest < 0 THEN <<l>>
    ELSE IF rest = 0 THEN <<l, Blank>>
    ELSE IF l.o = "padding"
         THEN [i \in 1..(l.n \div CONFIG_MAX_LINE) |-> [l EXCEPT !.n = CONFIG_MAX_LINE]]
              \o <<[l EXCEPT !.n = @ % CONFIG_MAX_LINE]>>
    ELSE IF l.o \in Marks
         THEN <<[l EXCEPT !.n = CONFIG_MAX_LINE], Line("junk", 0, 0, rest, FALSE)>>
    ELSE IF l.q THEN <<Unparsable(CONFIG_MAX_LINE), Unparsable(rest)>>
    ELSE <<[l EXCEPT !.n = CONFIG_MAX_LINE, !.v = @ - rest], Line("junk", 0, 0, rest, FALSE)>>

LinesOf(s, o) == SetToSortSeq({i \in DOMAIN s : s[i].o = o}, LAMBDA a, b : a < b)

rewriteConfigReadOldFile(f) ==
    LET s == FlattenSeq([i \in DOMAIN f |-> Pieces(f[i])]) IN
    [lines |-> s, of |-> [o \in Options |-> LinesOf(s, o)], rewritten |-> {},
     tail |-> \E i \in DOMAIN s : s[i].o = "signature"]

rewriteConfigMarkAsProcessed(st, o) == [st EXCEPT !.rewritten = @ \cup {o}]

rewriteConfigAppendLine(st, l) == [st EXCEPT !.lines = Append(@, l)]

\* Seeded fault: an option without a line is never appended.
rewriteConfigRewriteLine_Never(st, l, force) ==
    IF st.of[l.o] = <<>> THEN rewriteConfigMarkAsProcessed(st, l.o)
    ELSE [rewriteConfigMarkAsProcessed(st, l.o)
            EXCEPT !.lines[Head(st.of[l.o])] = l, !.of[l.o] = Tail(@)]

rewriteConfigRewriteLine(st, l, force) ==
    LET marked == rewriteConfigMarkAsProcessed(st, l.o)
        signed == IF st.tail THEN marked
                  ELSE [rewriteConfigAppendLine(marked, Signature) EXCEPT !.tail = TRUE]
    IN IF st.of[l.o] # <<>>
       THEN [marked EXCEPT !.lines[Head(st.of[l.o])] = l, !.of[l.o] = Tail(@)]
       ELSE IF force THEN rewriteConfigAppendLine(signed, l) ELSE marked

\* rewriteConfigFormatMemory: the largest unit that divides the bytes.
FormatMemory(bytes) ==
    LET unit == IF bytes = 0 THEN 1
                ELSE IF bytes % (Kb * Kb * Kb) = 0 THEN Kb * Kb * Kb
                ELSE IF bytes % (Kb * Kb) = 0 THEN Kb * Kb
                ELSE IF bytes % Kb = 0 THEN Kb ELSE 1
    IN Line("mem", unit, bytes \div unit, 2, FALSE)

rewriteConfigBytesOption(st, c) ==
    rewriteConfigRewriteLine(st, FormatMemory(c.mem), c.mem # Defaults.mem)

\* sdscatrepr quotes the value.
rewriteConfigStringOption(st, c) ==
    IF c.str = 0 THEN rewriteConfigMarkAsProcessed(st, "str")
    ELSE rewriteConfigRewriteLine(st, Line("str", 0, c.str, c.str + 1, TRUE), TRUE)

rewriteConfigSaveOption(st, c) ==
    rewriteConfigMarkAsProcessed(
        FoldLeft(LAMBDA s, v : rewriteConfigRewriteLine(s, Line("save", 0, v, 2, FALSE), TRUE), st, c.save),
        "save")

rewriteConfigClientoutputbufferlimitOption(st, c) ==
    FoldLeft(LAMBDA s, k : rewriteConfigRewriteLine(s, Line("limit", k, c.limit[k], 2, FALSE),
                                                    c.limit[k] # Defaults.limit[k]),
             st, <<1, 2>>)

rewriteConfigVectorUnit(st, c) ==
    rewriteConfigRewriteLine(st, Line("clock", 0, c.clock, 2, FALSE), c.clock # Defaults.clock)

rewriteConfigRemoveOrphaned(st) ==
    [st EXCEPT !.lines = [i \in DOMAIN @ |->
        IF \E o \in st.rewritten : i \in ToSet(st.of[o]) THEN Blank ELSE @[i]]]

\* A cluster of empty lines becomes one.
rewriteConfigGetContentFromState(st) ==
    FoldLeft(LAMBDA s, l : IF l = Blank /\ s # <<>> /\ s[Len(s)] = Blank THEN s ELSE Append(s, l),
             <<>>, st.lines)

Bytes(f) == FoldLeft(LAMBDA a, l : a + l.n + 1, 0, f)

\* A newline and as many "#" as the old file was longer: an empty line and a
\* comment, whose last "#" stands where Bytes counts a newline.
Padding(old, new) ==
    LET n == Bytes(old) - Bytes(new) IN
    IF n <= 0 THEN <<>>
    ELSE IF n = 1 THEN <<Blank>> ELSE <<Blank, Line("padding", 0, 0, n - 2, FALSE)>>

\* One write of the content and its padding; the truncation follows.
rewriteConfigOverwriteFile(content) ==
    /\ Len(content) <= MaxConfigLines
    /\ file' = content \o Padding(file, content)
    /\ padded' = Len(Padding(file, content))
    /\ split' = (split \/ \E i \in DOMAIN file : Len(Pieces(file[i])) > 1)
    /\ UNCHANGED <<conf, comments, configSets>>

Finished(st) == rewriteConfigGetContentFromState(rewriteConfigRemoveOrphaned(st))

Running == ~conf.fatal

\* rewriteConfig.
rewriteConfig ==
    /\ Running /\ padded = 0
    /\ LET s1 == rewriteConfigBytesOption(rewriteConfigReadOldFile(file), conf)
           s2 == rewriteConfigStringOption(s1, conf)
           s3 == rewriteConfigSaveOption(s2, conf)
           s4 == rewriteConfigClientoutputbufferlimitOption(s3, conf)
       IN rewriteConfigOverwriteFile(Finished(rewriteConfigVectorUnit(s4, conf)))
    /\ unwritten' = {}

\* serverCron every five seconds, and the start of a server that is not
\* recovering: the own clock alone.
updateConfigFileVectorUnit ==
    /\ Running /\ padded = 0
    /\ rewriteConfigOverwriteFile(Finished(rewriteConfigVectorUnit(rewriteConfigReadOldFile(file), conf)))
    /\ unwritten' = unwritten \ {"clock"}

\* The truncation works, or fails and is ignored.
Truncate ==
    /\ padded > 0
    /\ file' \in {SubSeq(file, 1, Len(file) - padded), file}
    /\ padded' = 0
    /\ UNCHANGED <<conf, unwritten, comments, split, configSets>>

-----------------------------------------------------------------------------
(* The running server *)

\* CONFIG SET, PEEROF.
Set(o, v) ==
    /\ Running /\ padded = 0 /\ configSets < MaxConfigSets
    /\ conf' = [conf EXCEPT ![o] = v]
    /\ unwritten' = unwritten \cup {o}
    /\ configSets' = configSets + 1
    /\ UNCHANGED <<file, padded, comments, split>>

configSetCommand ==
    \/ \E v \in Sizes : Set("mem", v)
    \/ \E v \in Texts : Set("str", v)
    \/ \E v \in Saves : Set("save", v)
    \/ \E k \in Classes : Set("limit", [conf.limit EXCEPT ![k] = 3 - @])

\* A write of the site raises its own clock.
Write ==
    /\ Running /\ padded = 0 /\ conf.clock < MaxClock
    /\ conf' = [conf EXCEPT !.clock = @ + 1]
    /\ unwritten' = unwritten \cup {"clock"}
    /\ UNCHANGED <<file, padded, comments, split, configSets>>

\* The process stops, at any point of a rewrite, and is started again.
Restart ==
    /\ Running
    /\ conf' = loadServerConfig(file)
    /\ padded' = 0 /\ unwritten' = {}
    /\ UNCHANGED <<file, comments, split, configSets>>

CommentsOf(f) == SelectSeq(f, LAMBDA l : l.o = "comment")

Init ==
    /\ file \in Files
    /\ conf = loadServerConfig(file) /\ ~conf.fatal
    /\ comments = CommentsOf(file)
    /\ padded = 0 /\ unwritten = {} /\ split = FALSE /\ configSets = 0

Next ==
    \/ rewriteConfig
    \/ updateConfigFileVectorUnit
    \/ Truncate
    \/ configSetCommand
    \/ Write
    \/ Restart

Spec == Init /\ [][Next]_crVars

-----------------------------------------------------------------------------
(* Properties *)

\* Whenever the process may stop - between the write and the truncation of a
\* rewrite too, or after a truncation that failed - the file loads, and gives
\* every option its running value, but for those changed since they were last
\* written; lines of options a rewrite does not understand included.  A line
\* longer than the read buffer is exempt: the code cuts it in two
\* (rewriteConfigReadOldFile's fgets).
FileHoldsConfig ==
    (Running /\ ~split) =>
        LET c == loadServerConfig(file) IN
        ~c.fatal /\ \A o \in Options \ unwritten : c[o] = conf[o]

\* Rewriting keeps the comments of the file, in their order, and signs the
\* lines it adds once, however often it runs (rewriteConfigReadOldFile,
\* rewriteConfigRewriteLine).
StructureKept ==
    ~split =>
        /\ CommentsOf(file) = comments
        /\ Len(SelectSeq(file, LAMBDA l : l.o = "signature")) <= 1
=============================================================================
