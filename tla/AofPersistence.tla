--------------------------- MODULE AofPersistence ---------------------------
(***************************************************************************)
(* The append only file (aof.c) with its rewrite in a child process and    *)
(* its fsync in a background thread (bio.c).                               *)
(*                                                                         *)
(* Each write of the data set is also appended to aof_buf, which           *)
(* flushAppendOnlyFile writes to the file before the event loop sleeps.    *)
(* A rewrite forks a child that writes the data set it sees to a new file; *)
(* the parent keeps what is written meanwhile, sends it to the child       *)
(* through a pipe until the child asks it to stop, appends the rest itself *)
(* and swaps the files.  Writes can fail or be short, the process can be   *)
(* killed, and the power can fail, which loses what was not synced.        *)
(*                                                                         *)
(* An entry of the file is a command: "select" of a database, "incr" of    *)
(* the key of the selected database, "set" of it, "multi" and "exec".      *)
(***************************************************************************)
EXTENDS Integers, Sequences, SequencesExt

CONSTANTS
    AofDbs,          \* databases, each with one key
    Policies,        \* values of appendfsync: "always", "everysec", "no"
    Lax,             \* those with no-appendfsync-on-rewrite
    MaxAofWrites,    \* bound: writes
    MaxRewrites,     \* bound: rewrites started
    MaxFaults        \* bound: failed writes, kills and power failures

VARIABLES
    mem,       \* the data set: database -> value
    aof,       \* [state, buf, selected, failing, scheduled, policy, postponed, secs]
    disk,      \* [file, synced, torn, gen]: the file, how much of it is synced,
               \* whether its last entry is cut, and how often it was replaced
    rewrite,   \* [pid, data, diff, pipe, rest, stop, phase] of the child
    bio,       \* files (gen) with a pending BIO_AOF_FSYNC job
    rdbchild,  \* a child saves the RDB file
    cut,       \* the file has lost its end once (for the properties)
    half,      \* the server has loaded half a transaction (for the properties)
    writes, rewrites, faults

aofVars == <<mem, aof, disk, rewrite, bio, rdbchild, cut, half, writes, rewrites, faults>>

Entry(op, arg) == [op |-> op, arg |-> arg]
NoChild == [pid |-> FALSE, data |-> <<>>, diff |-> <<>>, pipe |-> <<>>, rest |-> <<>>,
            stop |-> FALSE, phase |-> "none"]
Empty == [d \in AofDbs |-> 0]

-----------------------------------------------------------------------------
(***************************************************************************)
(* Loading.  The fake client executes every command at once, those of a    *)
(* transaction too.                                                        *)
(***************************************************************************)

loadStep(s, e) ==
    CASE e.op = "select" -> [s EXCEPT !.sel = e.arg]
      [] e.op = "incr" -> [s EXCEPT !.data[s.sel] = @ + 1]
      [] e.op = "set" -> [s EXCEPT !.data[s.sel] = e.arg]
      [] e.op = "multi" -> [s EXCEPT !.multi = TRUE]
      [] e.op = "exec" -> [s EXCEPT !.multi = FALSE]

Replay(entries) == FoldLeft(loadStep, [data |-> Empty, sel |-> 0, multi |-> FALSE], entries)

-----------------------------------------------------------------------------
Init ==
    /\ mem = Empty
    /\ \E p \in Policies : aof = [state |-> "ON", buf |-> <<>>, selected |-> -1,
                                  failing |-> FALSE, scheduled |-> FALSE, policy |-> p,
                                  postponed |-> 0, secs |-> FALSE]
    /\ disk = [file |-> <<>>, synced |-> 0, torn |-> FALSE, gen |-> 0]
    /\ rewrite = NoChild
    /\ bio = <<>>
    /\ rdbchild = FALSE
    /\ cut = FALSE
    /\ half = FALSE
    /\ writes = 0
    /\ rewrites = 0
    /\ faults = 0

-----------------------------------------------------------------------------
(***************************************************************************)
(* Feeding.                                                                *)
(***************************************************************************)

Selecting(d) == IF d # aof.selected THEN <<Entry("select", d)>> ELSE <<>>

feedAppendOnlyFile(d, entries) ==
    LET new == Selecting(d) \o entries
    IN  IF aof.state = "OFF"
        THEN UNCHANGED <<aof, rewrite>>
        ELSE /\ aof' = [aof EXCEPT !.selected = d,
                                   !.buf = IF aof.state = "ON" THEN @ \o new ELSE @]
             /\ rewrite' = IF rewrite.pid THEN [rewrite EXCEPT !.rest = @ \o new] ELSE rewrite

\* A command, or a transaction of two of them.
Write(d, n) ==
    /\ ~aof.failing
    /\ writes + n <= MaxAofWrites
    /\ writes' = writes + n
    /\ mem' = [mem EXCEPT ![d] = @ + n]
    /\ feedAppendOnlyFile(d, IF n = 1 THEN <<Entry("incr", 0)>>
                             ELSE <<Entry("multi", 0), Entry("incr", 0), Entry("incr", 0),
                                    Entry("exec", 0)>>)
    /\ UNCHANGED <<disk, bio, rdbchild, cut, half, rewrites, faults>>

-----------------------------------------------------------------------------
(***************************************************************************)
(* flushAppendOnlyFile.                                                    *)
(***************************************************************************)

SyncInProgress == aof.policy = "everysec" /\ bio # <<>>

\* A flush waits for a sync of the thread for at most two seconds.
MayPostpone == SyncInProgress /\ aof.postponed < 3

Postpone ==
    /\ aof.buf # <<>>
    /\ MayPostpone
    /\ aof.postponed = 0
    /\ aof' = [aof EXCEPT !.postponed = 1]
    /\ UNCHANGED <<mem, disk, rewrite, bio, rdbchild, cut, half, writes, rewrites, faults>>

NoFsync == aof.policy \in Lax /\ (rewrite.pid \/ rdbchild)

\* The policy after a complete write of the buffer.
SyncAfterWrite(d, jobs) ==
    CASE NoFsync -> disk' = d /\ bio' = jobs
      [] ~NoFsync /\ aof.policy = "always" -> /\ disk' = [d EXCEPT !.synced = Len(d.file)]
                                  /\ bio' = jobs
      [] ~NoFsync /\ aof.policy = "everysec" ->
                                  /\ disk' = d
                                  /\ bio' = IF aof.secs /\ jobs = <<>> THEN <<d.gen>> ELSE jobs
      [] OTHER -> disk' = d /\ bio' = jobs

Flushed == [aof EXCEPT !.buf = <<>>, !.failing = FALSE, !.postponed = 0, !.secs = @ /\ NoFsync]

flushAppendOnlyFile ==
    /\ aof.buf # <<>>
    /\ aof.state # "OFF"
    /\ ~MayPostpone
    /\ aof' = Flushed
    /\ SyncAfterWrite([disk EXCEPT !.file = @ \o aof.buf, !.torn = FALSE], bio)
    /\ UNCHANGED <<mem, rewrite, rdbchild, cut, half, writes, rewrites, faults>>

\* A write fails after n entries, cut within the next one if t.  The part is
\* taken back with ftruncate, or left.
FlushFails(n, t, undone) ==
    /\ aof.buf # <<>>
    /\ aof.state # "OFF"
    /\ ~MayPostpone
    /\ aof.policy # "always"
    /\ faults < MaxFaults
    /\ n < Len(aof.buf)
    /\ faults' = faults + 1
    /\ IF undone
       THEN aof' = [aof EXCEPT !.failing = TRUE, !.postponed = 0] /\ UNCHANGED disk
       ELSE /\ aof' = [aof EXCEPT !.failing = TRUE, !.postponed = 0,
                                  !.buf = SubSeq(@, n + 1, Len(@))]
            /\ disk' = [disk EXCEPT !.file = @ \o SubSeq(aof.buf, 1, n),
                                    !.torn = t \/ (@ /\ n = 0)]
    /\ UNCHANGED <<mem, rewrite, bio, rdbchild, cut, half, writes, rewrites>>

\* There is no file to write what is left of the buffer to.
FlushWithoutFile ==
    /\ aof.buf # <<>>
    /\ aof.state = "OFF"
    /\ ~MayPostpone
    /\ aof' = [aof EXCEPT !.failing = TRUE, !.postponed = 0]
    /\ UNCHANGED <<mem, disk, rewrite, bio, rdbchild, cut, half, writes, rewrites, faults>>

\* bioProcessBackgroundJobs: the thread syncs the file, unless it is no longer the file.
bioFsync ==
    /\ bio # <<>>
    /\ bio' = Tail(bio)
    /\ IF Head(bio) = disk.gen
       THEN disk' = [disk EXCEPT !.synced = Len(disk.file)]
       ELSE UNCHANGED disk
    /\ UNCHANGED <<mem, aof, rewrite, rdbchild, cut, half, writes, rewrites, faults>>

Tick ==
    /\ aof.policy = "everysec"
    /\ aof' = [aof EXCEPT !.secs = TRUE,
                          !.postponed = IF @ \in 1 .. 2 THEN @ + 1 ELSE @]
    /\ aof' # aof
    /\ UNCHANGED <<mem, disk, rewrite, bio, rdbchild, cut, half, writes, rewrites, faults>>

-----------------------------------------------------------------------------
(***************************************************************************)
(* The rewrite.                                                            *)
(***************************************************************************)

\* What the child writes: the data set at the time of the fork.
rewriteAppendOnlyFileRio(m) ==
    FoldLeft(LAMBDA es, d : IF m[d] = 0 THEN es
                            ELSE es \o <<Entry("select", d), Entry("set", m[d])>>,
             <<>>, SetToSeq(AofDbs))

Forked == [NoChild EXCEPT !.pid = TRUE, !.data = rewriteAppendOnlyFileRio(mem),
                          !.phase = "saving"]

CanFork == ~rewrite.pid /\ ~rdbchild

\* BGREWRITEAOF, the growth of the file, or a rewrite scheduled before.
rewriteAppendOnlyFileBackground ==
    /\ CanFork
    /\ rewrites < MaxRewrites
    /\ rewrites' = rewrites + 1
    /\ rewrite' = Forked
    /\ aof' = [aof EXCEPT !.selected = -1, !.scheduled = FALSE]
    /\ UNCHANGED <<mem, disk, bio, rdbchild, cut, half, writes, faults>>

\* BGREWRITEAOF while an RDB file is being saved.
bgrewriteaofCommand ==
    /\ ~rewrite.pid
    /\ rdbchild
    /\ ~aof.scheduled
    /\ aof' = [aof EXCEPT !.scheduled = TRUE]
    /\ UNCHANGED <<mem, disk, rewrite, bio, rdbchild, cut, half, writes, rewrites, faults>>

\* The parent sends a part of what it has kept to the child.
aofChildWriteDiffData(n) ==
    /\ rewrite.pid
    /\ ~rewrite.stop
    /\ n \in 1 .. Len(rewrite.rest)
    /\ rewrite' = [rewrite EXCEPT !.pipe = @ \o SubSeq(rewrite.rest, 1, n),
                                  !.rest = SubSeq(@, n + 1, Len(@))]
    /\ UNCHANGED <<mem, aof, disk, bio, rdbchild, cut, half, writes, rewrites, faults>>

Received(r) == [r EXCEPT !.diff = @ \o r.pipe, !.pipe = <<>>]

\* The child reads the pipe while it saves.
aofReadDiffFromParent ==
    /\ rewrite.phase = "saving"
    /\ rewrite.pipe # <<>>
    /\ rewrite' = Received(rewrite)
    /\ UNCHANGED <<mem, aof, disk, bio, rdbchild, cut, half, writes, rewrites, faults>>

\* The child has saved, and asks the parent to stop.
ChildAsksToStop ==
    /\ rewrite.phase = "saving"
    /\ rewrite' = [rewrite EXCEPT !.phase = "asked"]
    /\ UNCHANGED <<mem, aof, disk, bio, rdbchild, cut, half, writes, rewrites, faults>>

aofChildPipeReadable ==
    /\ rewrite.phase = "asked"
    /\ rewrite' = [rewrite EXCEPT !.stop = TRUE, !.phase = "acked"]
    /\ UNCHANGED <<mem, aof, disk, bio, rdbchild, cut, half, writes, rewrites, faults>>

\* The child reads what is left in the pipe, appends the diff and exits.
rewriteAppendOnlyFile ==
    /\ rewrite.phase = "acked"
    /\ rewrite' = [Received(rewrite) EXCEPT !.phase = "exited"]
    /\ UNCHANGED <<mem, aof, disk, bio, rdbchild, cut, half, writes, rewrites, faults>>

\* Seeded fault: what the parent still has is not appended.
NewFile_NoRest == rewrite.data \o rewrite.diff

NewFile == rewrite.data \o rewrite.diff \o rewrite.rest

\* The parent appends what it still has and swaps the files.
backgroundRewriteDoneHandler ==
    /\ rewrite.phase = "exited"
    /\ disk' = [disk EXCEPT !.file = NewFile,
                            !.synced = IF aof.policy = "always" /\ aof.state # "OFF" THEN Len(NewFile)
                                       ELSE Len(rewrite.data \o rewrite.diff),
                            !.torn = FALSE, !.gen = @ + 1]
    /\ IF aof.state = "OFF"
       THEN UNCHANGED <<aof, bio>>
       ELSE /\ aof' = [aof EXCEPT !.state = "ON", !.buf = <<>>, !.selected = -1]
            /\ bio' = IF aof.policy = "everysec" THEN Append(bio, disk.gen + 1) ELSE bio
    /\ rewrite' = NoChild
    /\ UNCHANGED <<mem, rdbchild, cut, half, writes, rewrites, faults>>

\* The child fails or is killed, or the parent cannot append the rest.
RewriteFails ==
    /\ rewrite.pid
    /\ faults < MaxFaults
    /\ faults' = faults + 1
    /\ rewrite' = NoChild
    /\ aof' = [aof EXCEPT !.scheduled = @ \/ aof.state = "WAIT"]
    /\ UNCHANGED <<mem, disk, bio, rdbchild, cut, half, writes, rewrites>>

-----------------------------------------------------------------------------
(***************************************************************************)
(* CONFIG SET appendonly, the RDB child, shutdown, kill and power failure. *)
(***************************************************************************)

\* The last flush may fail; then the buffer stays.
stopAppendOnly(ok) ==
    /\ aof.state # "OFF"
    /\ IF ok
       THEN /\ aof' = [aof EXCEPT !.state = "OFF", !.selected = -1, !.buf = <<>>, !.failing = FALSE,
                                  !.postponed = 0, !.secs = FALSE]
            /\ disk' = [disk EXCEPT !.file = @ \o aof.buf, !.synced = Len(disk.file \o aof.buf),
                                    !.torn = FALSE]
            /\ UNCHANGED faults
       ELSE /\ aof.buf # <<>>
            /\ aof.policy # "always"
            /\ faults < MaxFaults
            /\ faults' = faults + 1
            /\ aof' = [aof EXCEPT !.state = "OFF", !.selected = -1, !.failing = TRUE,
                                  !.postponed = 0]
            /\ disk' = [disk EXCEPT !.synced = Len(disk.file)]
    /\ rewrite' = NoChild
    /\ UNCHANGED <<mem, bio, rdbchild, cut, half, writes, rewrites>>

startAppendOnly ==
    /\ aof.state = "OFF"
    /\ ~rewrite.pid
    /\ rewrites < MaxRewrites
    /\ IF rdbchild
       THEN /\ aof' = [aof EXCEPT !.state = "WAIT", !.scheduled = TRUE]
            /\ UNCHANGED <<rewrite, rewrites>>
       ELSE /\ aof' = [aof EXCEPT !.state = "WAIT", !.selected = -1, !.scheduled = FALSE]
            /\ rewrite' = Forked
            /\ rewrites' = rewrites + 1
    /\ UNCHANGED <<mem, disk, bio, rdbchild, cut, half, writes, faults>>

RdbChild ==
    /\ rdbchild \/ CanFork
    /\ rdbchild' = ~rdbchild
    /\ UNCHANGED <<mem, aof, disk, rewrite, bio, cut, half, writes, rewrites, faults>>

\* The server starts and loads the file, up to the last whole entry.
Restarted(file) ==
    LET s == Replay(file)
    IN  /\ mem' = s.data
        /\ half' = (half \/ s.multi)
        /\ disk' = [disk EXCEPT !.file = file, !.synced = Len(file), !.torn = FALSE]
        /\ aof' = [aof EXCEPT !.state = "ON", !.buf = <<>>, !.selected = -1, !.failing = FALSE,
                              !.scheduled = FALSE, !.postponed = 0, !.secs = FALSE]
        /\ rewrite' = NoChild
        /\ bio' = <<>>
        /\ rdbchild' = FALSE

\* With appendfsync always the server exits when a write fails.
FlushFatal(n) ==
    /\ aof.buf # <<>>
    /\ aof.policy = "always"
    /\ faults < MaxFaults
    /\ n < Len(aof.buf)
    /\ faults' = faults + 1
    /\ cut' = (cut \/ n > 0)
    /\ Restarted(disk.file \o SubSeq(aof.buf, 1, n))
    /\ UNCHANGED <<writes, rewrites>>

\* The process dies, and the file is what was written to it.
Killed ==
    /\ faults < MaxFaults
    /\ faults' = faults + 1
    /\ cut' = (cut \/ aof.failing)
    /\ Restarted(disk.file)
    /\ UNCHANGED <<writes, rewrites>>

\* The machine dies: any end of the file that was not synced may be lost.
PowerFails(n) ==
    /\ faults < MaxFaults
    /\ n \in disk.synced .. Len(disk.file)
    /\ faults' = faults + 1
    /\ cut' = (cut \/ aof.failing \/ n < Len(disk.file))
    /\ Restarted(SubSeq(disk.file, 1, n))
    /\ UNCHANGED <<writes, rewrites>>

\* SHUTDOWN; refused while the first file is being written.
prepareForShutdown ==
    /\ aof.state = "ON"
    /\ ~aof.failing
    /\ Restarted(disk.file \o aof.buf)
    /\ UNCHANGED <<cut, writes, rewrites, faults>>

Next ==
    \/ \E d \in AofDbs, n \in {1, 2} : Write(d, n)
    \/ Postpone
    \/ flushAppendOnlyFile
    \/ \E n \in 0 .. 1, t \in BOOLEAN, undone \in BOOLEAN : FlushFails(n, t, undone)
    \/ FlushWithoutFile
    \/ \E n \in 0 .. 2 : FlushFatal(n)
    \/ bioFsync
    \/ Tick
    \/ rewriteAppendOnlyFileBackground
    \/ bgrewriteaofCommand
    \/ \E n \in 1 .. 2 : aofChildWriteDiffData(n)
    \/ aofReadDiffFromParent
    \/ ChildAsksToStop
    \/ aofChildPipeReadable
    \/ rewriteAppendOnlyFile
    \/ backgroundRewriteDoneHandler
    \/ RewriteFails
    \/ \E ok \in BOOLEAN : stopAppendOnly(ok)
    \/ startAppendOnly
    \/ RdbChild
    \/ Killed
    \/ \E n \in 0 .. Len(disk.file) : PowerFails(n)
    \/ prepareForShutdown

Spec == Init /\ [][Next]_aofVars

-----------------------------------------------------------------------------
(***************************************************************************)
(* Properties.                                                             *)
(***************************************************************************)

\* While the append only file is on, the file and then the buffer, replayed, give
\* exactly the data set: no write is lost or done twice by a rewrite, a failed
\* write, a switch or a restart (aof.c:318, aof.c:1468).
FileHoldsData ==
    aof.state = "ON" => Replay(disk.file \o aof.buf).data = mem

\* With appendfsync always, what the clients have got a reply for survives a
\* power failure (aof.c:416).
AlwaysDurable ==
    aof.policy = "always" /\ ~NoFsync /\ aof.state = "ON" /\ aof.buf = <<>> =>
        Replay(SubSeq(disk.file, 1, disk.synced)).data = mem

\* A server that was never stopped within a write has no half of a transaction:
\* only a file that has lost its end is loaded up to the middle of one.
TransactionsLoadedWhole == half => cut
=============================================================================
