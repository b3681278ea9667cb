--------------------------- MODULE ModuleContexts ---------------------------
(***************************************************************************)
(* The contexts in which module code runs (module.c): what a call          *)
(* propagates, and threads, blocked clients and the lock they share with   *)
(* the main thread.                                                        *)
(***************************************************************************)
EXTENDS Integers, Sequences, FiniteSets, SequencesExt

-----------------------------------------------------------------------------
(***************************************************************************)
(* How what a command does reaches the append only file, the slaves and    *)
(* the peers (server.c call and propagate, multi.c execCommand, module.c). *)
(*                                                                         *)
(* A command of the server is propagated by call() as it was sent.  A      *)
(* module command is not: it says what to propagate, with the functions of *)
(* the module API.  Some of these wrap what they send in MULTI and EXEC;   *)
(* MULTI goes out at once, the rest is kept in server.also_propagate and   *)
(* goes out at the end of call(), so a callback that does not run below    *)
(* call() has nobody to send it.                                           *)
(***************************************************************************)

CONSTANTS
    Starts,     \* the kinds of activities: "command", "exec", "reply", "timeout", "thread"
    MaxRuns,    \* bound: activities
    MaxApiCalls \* bound: propagating API calls of one activity

VARIABLES
    logs,     \* what the append only file, the slaves and the peers were sent
    master,   \* iAmMaster()
    run,      \* the activity of the main thread, or of a thread with the lock
    also,     \* server.also_propagate inside the innermost call()
    stray,    \* server.also_propagate outside of any call()
    given,    \* ghost: the commands handed over, with the logs each should reach
    mixed,    \* ghost: both ways of wrapping were used below one callback
    unsent,   \* ghost: a MULTI went out from a timeout callback, or from a module
              \* command run by RM_Call without "!"
    runs

mcVars == <<logs, master, run, also, stray, given, mixed, unsent, runs>>

Multi == [op |-> "multi", id |-> 0]
Exec == [op |-> "exec", id |-> 0]
Cmd(n) == [op |-> "cmd", id |-> n]

Idle == [kind |-> "idle"]

\* A callback of a module: what its context remembers.
Context(kind, multi) ==
    [kind |-> kind, multi |-> multi, emitted |-> FALSE, crdtEmitted |-> FALSE,
     calls |-> 0, queue |-> <<>>, must |-> FALSE, wasMaster |-> master, inside |-> kind # "exec"]

-----------------------------------------------------------------------------
(***************************************************************************)
(* Propagation.                                                            *)
(***************************************************************************)

\* The append only file is on.  A slave of its own kind of master passes on what it
\* receives and nothing else.
propagate(l, cmd, target) ==
    [aof |-> IF "aof" \in target THEN Append(l.aof, cmd) ELSE l.aof,
     slaves |-> IF master /\ target \cap {"repl", "crdt"} # {} THEN Append(l.slaves, cmd)
                                                               ELSE l.slaves,
     peers |-> IF master /\ "crdt" \in target THEN Append(l.peers, cmd) ELSE l.peers]

\* Where a command with this target has to arrive.
Reaches(target) ==
    (target \cap {"aof"})
      \cup (IF master /\ target \cap {"repl", "crdt"} # {} THEN {"slaves"} ELSE {})
      \cup (IF master /\ "crdt" \in target THEN {"peers"} ELSE {})

\* The end of call(): the commands added while it ran.
PropagateAll(l, ops) == FoldLeft(LAMBDA m, o : propagate(m, o.cmd, o.target), l, ops)

\* Below call(), or not: replies and timeouts of blocked clients, and threads.
BelowCall == run.kind \in {"command", "exec"}

\* Seeded fault: the array holds one command.
alsoPropagate_Replaces(ops, cmd, target) == <<[cmd |-> cmd, target |-> target]>>

alsoPropagate(ops, cmd, target) == Append(ops, [cmd |-> cmd, target |-> target])

NewId == Cardinality(given) + 1

Given(id, target) == given' = given \cup {[id |-> id, to |-> Reaches(target)]}

\* One more API call of a callback; r is its context afterwards.
ApiCall(r) ==
    /\ run # Idle
    /\ run.inside
    /\ run.calls < MaxApiCalls
    /\ run' = [r EXCEPT !.calls = @ + 1]
    /\ UNCHANGED <<master, runs>>

\* alsoPropagate puts the command into the array of the innermost call(), if any.
Adds(cmd, target) ==
    /\ Given(NewId, target)
    /\ IF BelowCall THEN also' = alsoPropagate(also, cmd, target) /\ UNCHANGED stray
                    ELSE stray' = alsoPropagate(stray, cmd, target) /\ UNCHANGED also

-----------------------------------------------------------------------------
(***************************************************************************)
(* The functions a module calls.                                           *)
(***************************************************************************)

\* MULTI once per context, unless the client is in MULTI or the context is a thread's.
WrapsNow(emitted) == ~run.multi /\ ~emitted /\ run.kind # "thread"

moduleReplicateMultiIfNeeded(l) ==
    IF WrapsNow(run.emitted) THEN propagate(l, Multi, {"aof", "repl"}) ELSE l

crdtReplicateMultiIfNeeded(l) ==
    IF WrapsNow(run.crdtEmitted) THEN propagate(l, Multi, {"crdt"}) ELSE l

RM_Replicate ==
    /\ logs' = moduleReplicateMultiIfNeeded(logs)
    /\ Adds(Cmd(NewId), {"aof", "repl"})
    /\ mixed' = (mixed \/ run.crdtEmitted)
    /\ ApiCall([run EXCEPT !.emitted = @ \/ WrapsNow(@)])
    /\ UNCHANGED unsent

RM_CrdtMultiWrappedReplicate ==
    /\ logs' = crdtReplicateMultiIfNeeded(logs)
    /\ Adds(Cmd(NewId), {"crdt", "repl"})
    /\ mixed' = (mixed \/ run.emitted)
    /\ ApiCall([run EXCEPT !.crdtEmitted = @ \/ WrapsNow(@)])
    /\ UNCHANGED unsent

\* Not wrapped: the command as it was called, or as it is given.
Verbatim(target) ==
    /\ Adds(Cmd(NewId), target)
    /\ ApiCall(run)
    /\ UNCHANGED <<logs, mixed, unsent>>

RM_ReplicateVerbatim == Verbatim({"aof", "repl"})

\* A write of the own site goes to the peers too.
RM_CrdtReplicateVerbatim(own) == Verbatim(IF own THEN {"aof", "crdt"} ELSE {"aof", "repl"})

RM_ReplicateStraightForward == Verbatim({"repl"})

RM_CrdtReplicate == Verbatim({"crdt"})

RM_CrdtReplicateAlsoNormReplicate == Verbatim({"crdt"})

\* At once, to slaves and peers.
RM_ReplicationFeedAllSlaves ==
    /\ logs' = propagate(logs, Cmd(NewId), {"crdt"})
    /\ Given(NewId, {"crdt"})
    /\ ApiCall(run)
    /\ UNCHANGED <<also, stray, mixed, unsent>>

\* RM_Call of a command of the server that writes: propagated by its own call()
\* if the format has a "!".
RM_Call(replicate) ==
    /\ logs' = IF replicate
               THEN propagate(moduleReplicateMultiIfNeeded(logs), Cmd(NewId), {"aof", "repl"})
               ELSE logs
    /\ IF replicate THEN Given(NewId, {"aof", "repl"}) ELSE UNCHANGED given
    /\ mixed' = (mixed \/ (replicate /\ run.crdtEmitted))
    /\ ApiCall([run EXCEPT !.emitted = @ \/ (replicate /\ WrapsNow(@))])
    /\ UNCHANGED <<also, stray, unsent>>

\* RM_Call of a module command that itself calls RM_Replicate, in a context and for a
\* client of its own.  Without "!" its call() propagates nothing, but its MULTI is out.
RM_CallModule(replicate) ==
    LET l1 == IF replicate THEN moduleReplicateMultiIfNeeded(logs) ELSE logs
        l2 == propagate(l1, Multi, {"aof", "repl"})
        ops == alsoPropagate(alsoPropagate(<<>>, Cmd(NewId), {"aof", "repl"}),
                             Exec, {"aof", "repl"})
    IN  /\ logs' = IF replicate THEN PropagateAll(l2, ops) ELSE l2
        /\ IF replicate THEN Given(NewId, {"aof", "repl"}) ELSE UNCHANGED given
        /\ mixed' = (mixed \/ replicate)
        /\ unsent' = (unsent \/ ~replicate)
        /\ ApiCall([run EXCEPT !.emitted = @ \/ (replicate /\ WrapsNow(@))])
        /\ UNCHANGED <<also, stray>>

-----------------------------------------------------------------------------
(***************************************************************************)
(* Activities.                                                             *)
(***************************************************************************)

Begin(r) ==
    /\ run = Idle
    /\ runs < MaxRuns
    /\ runs' = runs + 1
    /\ run' = r
    /\ UNCHANGED <<logs, master, also, stray, given, mixed, unsent>>

\* A module command of a client, the reply callback of a blocked client, its timeout
\* callback, or calls of a thread that has taken the lock.
RedisModuleCommandDispatcher == "command" \in Starts /\ Begin(Context("command", FALSE))
ReplyStarts == "reply" \in Starts /\ Begin(Context("reply", FALSE))
TimeoutStarts == "timeout" \in Starts /\ Begin(Context("timeout", FALSE))
ThreadStarts == "thread" \in Starts /\ Begin(Context("thread", FALSE))

Queued == {"module", "read", "rename", "slaveof"}

\* EXEC with a queue of commands.
execCommand ==
    /\ "exec" \in Starts
    /\ \E q \in {<<a>> : a \in Queued} \cup {<<a, b>> : a, b \in Queued} :
           Begin([Context("exec", TRUE) EXCEPT !.queue = q])

\* The next one.  CRDT.MULTI goes out before the first that is neither read only nor
\* administrative; a module command then runs its callback.
ExecNext ==
    /\ run.kind = "exec" /\ ~run.inside /\ run.queue # <<>>
    /\ LET x == Head(run.queue)
           first == ~run.must /\ x \in {"module", "rename"}
           l == IF first THEN propagate(logs, Multi, {"aof", "crdt"}) ELSE logs
       IN  /\ logs' = IF x = "rename" THEN propagate(l, Cmd(NewId), {"aof", "repl"}) ELSE l
           /\ IF x = "rename" THEN Given(NewId, {"aof", "repl"}) ELSE UNCHANGED given
           /\ master' = (master /\ x # "slaveof")
           /\ run' = [run EXCEPT !.queue = Tail(@), !.must = @ \/ first,
                                 !.inside = x = "module"]
    /\ UNCHANGED <<also, stray, mixed, unsent, runs>>

\* CRDT.EXEC, if CRDT.MULTI went out: propagated to all by the call() of EXEC, or fed
\* to the backlogs by hand if the server has become a slave in between.
ExecEnds ==
    /\ run.kind = "exec" /\ ~run.inside /\ run.queue = <<>>
    /\ LET l == propagate(logs, Exec, {"aof", "repl", "crdt"})
       IN  logs' = IF ~run.must THEN logs
                   ELSE IF run.wasMaster /\ ~master
                   THEN [l EXCEPT !.slaves = Append(@, Exec), !.peers = Append(@, Exec)]
                   ELSE l
    /\ run' = Idle
    /\ UNCHANGED <<master, also, stray, given, mixed, unsent, runs>>

\* EXEC for a context that sent MULTI.
moduleHandlePropagationAfterCommandCallback(ops) ==
    IF run.emitted THEN alsoPropagate(ops, Exec, {"aof", "repl"})
    ELSE IF run.crdtEmitted THEN alsoPropagate(ops, Exec, {"crdt"})
    ELSE ops

\* The callback returns; below call(), what it added is propagated.  After a timeout
\* callback nothing is done.
CallbackReturns ==
    /\ run # Idle /\ run.inside
    /\ LET ops == moduleHandlePropagationAfterCommandCallback(IF BelowCall THEN also ELSE stray)
       IN  IF BelowCall
           THEN logs' = PropagateAll(logs, ops) /\ also' = <<>> /\ UNCHANGED stray
           ELSE /\ stray' = IF run.kind = "reply" THEN ops ELSE stray
                /\ UNCHANGED <<logs, also>>
    /\ run' = IF run.kind = "exec"
              THEN [run EXCEPT !.inside = FALSE, !.emitted = FALSE, !.crdtEmitted = FALSE]
              ELSE Idle
    /\ unsent' = (unsent \/ (run.kind = "timeout" /\ (run.emitted \/ run.crdtEmitted)))
    /\ UNCHANGED <<master, given, mixed, runs>>

CallInit ==
    /\ logs = [aof |-> <<>>, slaves |-> <<>>, peers |-> <<>>]
    /\ master \in BOOLEAN
    /\ run = Idle /\ also = <<>> /\ stray = <<>>
    /\ given = {} /\ mixed = FALSE /\ unsent = FALSE /\ runs = 0

CallNext ==
    \/ RedisModuleCommandDispatcher \/ execCommand \/ ReplyStarts
    \/ TimeoutStarts \/ ThreadStarts
    \/ run # Idle /\
        (\/ RM_Replicate \/ RM_CrdtMultiWrappedReplicate \/ RM_ReplicationFeedAllSlaves
         \/ RM_ReplicateVerbatim \/ RM_ReplicateStraightForward
         \/ RM_CrdtReplicate \/ RM_CrdtReplicateAlsoNormReplicate
         \/ \E b \in BOOLEAN : RM_CrdtReplicateVerbatim(b) \/ RM_Call(b) \/ RM_CallModule(b)
         \/ ExecNext \/ ExecEnds \/ CallbackReturns)

CallSpec == CallInit /\ [][CallNext]_mcVars

-----------------------------------------------------------------------------
(***************************************************************************)
(* Properties.                                                             *)
(***************************************************************************)

\* No MULTI inside of another one, and none open at the end.  An EXEC without MULTI,
\* as after a SLAVEOF that comes first in a transaction, is refused by the reader.
Balanced(log) ==
    LET Step(st, e) ==
            IF e.op = "multi" THEN IF st = "out" THEN "in" ELSE "bad"
            ELSE IF e.op = "exec" THEN IF st = "bad" THEN "bad" ELSE "out"
            ELSE st
    IN  FoldLeft(Step, "out", log) = "out"

\* No activity leaves a MULTI open or nests one, in any of the three logs: whoever
\* reads it would queue everything that follows, of whatever client.  Left out are module
\* commands that wrap in both ways or call one that wraps, and callbacks that run
\* outside of call() (module.c:1363, 4327).
LogsBalancedBelowCall ==
    run = Idle /\ stray = <<>> /\ ~mixed /\ ~unsent => \A k \in DOMAIN logs : Balanced(logs[k])

InLog(id, k) == \E i \in DOMAIN logs[k] : logs[k][i].id = id

\* What a module or the server itself hands over to be propagated has reached every
\* log it is meant for, once the activity is over (call, alsoPropagate); but for what is
\* handed over outside of call().
AllPropagatedBelowCall ==
    run = Idle => \A g \in given :
        (\A i \in DOMAIN stray : stray[i].cmd.id # g.id) => \A k \in g.to : InLog(g.id, k)

-----------------------------------------------------------------------------
(***************************************************************************)
(* Clients blocked by module commands (module.c, blocked.c).  The command  *)
(* hands a handle to a thread of the module; the thread prepares a reply   *)
(* and puts the handle into a queue, and the main thread, woken through a  *)
(* pipe, answers and unblocks the client.  Meanwhile the client may time   *)
(* out, be closed, or be turned away because the server becomes a slave.   *)
(*                                                                         *)
(* Threads touch the data set under the global lock, which the main thread *)
(* gives up only while it waits for events.                                *)
(***************************************************************************)

CONSTANTS
    ModClients,   \* clients
    MaxHandles,   \* bound: handles
    PipeSize      \* bytes the pipe holds

VARIABLES
    conn,     \* client -> [st, handle]: "idle", "blocked" with a handle, "closed"
    handles,  \* handle -> [client, st, cb, said]; client 0 is NULL
    unblockq, \* moduleUnblockedClients
    pipe,     \* bytes in the pipe
    main,     \* the main thread: "run", "serve" (in moduleHandleBlockedClients), "poll", "wake"
    gil,      \* who holds the lock: the main thread, nobody, or the thread of a handle
    answers,  \* handle -> answers its client was given
    late      \* ghost: handles answered although their client was not waiting for them

mtVars == <<conn, handles, unblockq, pipe, main, gil, answers, late>>

NoClient == 0
MainThread == -1
Nobody == 0
Unused == [client |-> NoClient, st |-> "unused", cb |-> FALSE, said |-> 0]

HandleIds == 1..MaxHandles
Fresh == {h \in HandleIds : handles[h].st = "unused"}

ThreadInit ==
    /\ conn = [c \in ModClients |-> [st |-> "idle", handle |-> 0]]
    /\ handles = [h \in HandleIds |-> Unused]
    /\ unblockq = <<>> /\ pipe = 0 /\ main = "run" /\ gil = MainThread
    /\ answers = [h \in HandleIds |-> 0] /\ late = {}

Answer(h) == answers' = [answers EXCEPT ![h] = @ + 1]

-----------------------------------------------------------------------------
(***************************************************************************)
(* The main thread executes commands and timers.                           *)
(***************************************************************************)

\* In a transaction the handle is made without a client, and an error is the reply.
RM_BlockClient(c, ismulti) ==
    /\ main = "run" /\ conn[c].st = "idle" /\ Fresh # {}
    /\ LET h == CHOOSE x \in Fresh : \A y \in Fresh : x <= y
       IN  /\ handles' = [handles EXCEPT ![h] = [client |-> IF ismulti THEN NoClient ELSE c,
                                                 st |-> "out", cb |-> TRUE, said |-> 0]]
           /\ conn' = IF ismulti THEN conn ELSE [conn EXCEPT ![c] = [st |-> "blocked", handle |-> h]]
           /\ IF ismulti THEN Answer(h) ELSE UNCHANGED answers
    /\ UNCHANGED <<unblockq, pipe, main, gil, late>>

\* The handle forgets its client, whatever the reason.
unblockClientFromModule(hs, c) == [hs EXCEPT ![conn[c].handle].client = NoClient]

\* The timeout callback answers, then the client is unblocked; turned into a slave, the
\* server answers with an error and closes the connection.
moduleBlockedClientTimedOut(c) ==
    /\ main = "run" /\ conn[c].st = "blocked"
    /\ Answer(conn[c].handle)
    /\ handles' = unblockClientFromModule(handles, c)
    /\ conn' = [conn EXCEPT ![c] = [st |-> "idle", handle |-> 0]]
    /\ UNCHANGED <<unblockq, pipe, main, gil, late>>

disconnectAllBlockedClients ==
    LET blocked == {c \in ModClients : conn[c].st = "blocked"}
    IN  /\ main = "run" /\ blocked # {}
        /\ answers' = [h \in HandleIds |-> IF \E c \in blocked : conn[c].handle = h
                                           THEN answers[h] + 1 ELSE answers[h]]
        /\ handles' = [h \in HandleIds |-> IF handles[h].client \in blocked
                                           THEN [handles[h] EXCEPT !.client = NoClient]
                                           ELSE handles[h]]
        /\ conn' = [c \in ModClients |-> IF c \in blocked THEN [st |-> "closed", handle |-> 0]
                                                          ELSE conn[c]]
        /\ UNCHANGED <<unblockq, pipe, main, gil, late>>

\* freeClient unblocks first.
freeClient(c) ==
    /\ main = "run" /\ conn[c].st # "closed"
    /\ handles' = IF conn[c].st = "blocked" THEN unblockClientFromModule(handles, c) ELSE handles
    /\ conn' = [conn EXCEPT ![c] = [st |-> "closed", handle |-> 0]]
    /\ UNCHANGED <<unblockq, pipe, main, gil, answers, late>>

-----------------------------------------------------------------------------
(***************************************************************************)
(* The turn of the event loop.                                             *)
(***************************************************************************)

\* All bytes are read before the queue is served.
beforeSleep ==
    /\ main = "run"
    /\ main' = "serve" /\ pipe' = 0
    /\ UNCHANGED <<conn, handles, unblockq, gil, answers, late>>

\* One handle; the mutex is free meanwhile.  The client may be gone; if not, it gets
\* what the reply callback says and then what the thread has said.
moduleHandleBlockedClients ==
    /\ main = "serve" /\ unblockq # <<>>
    /\ LET h == Head(unblockq)
           c == handles[h].client
           called == IF handles[h].cb THEN 1 ELSE 0
       IN  /\ answers' = IF c # NoClient
                         THEN [answers EXCEPT ![h] = @ + called + handles[h].said] ELSE answers
           /\ late' = IF c # NoClient /\ (conn[c].st # "blocked" \/ conn[c].handle # h)
                      THEN late \cup {h} ELSE late
           /\ conn' = IF c # NoClient THEN [conn EXCEPT ![c] = [st |-> "idle", handle |-> 0]]
                                      ELSE conn
           /\ handles' = [handles EXCEPT ![h].st = "freed", ![h].client = NoClient]
    /\ unblockq' = Tail(unblockq)
    /\ UNCHANGED <<pipe, main, gil>>

\* The queue is empty; the lock is given up and the loop waits.
Sleeps ==
    /\ main = "serve" /\ unblockq = <<>>
    /\ main' = "poll" /\ gil' = Nobody
    /\ UNCHANGED <<conn, handles, unblockq, pipe, answers, late>>

\* An event of a client, a timer or the pipe; then the lock is needed again.
aeApiPollReturns ==
    /\ main = "poll"
    /\ main' = "wake"
    /\ UNCHANGED <<conn, handles, unblockq, pipe, gil, answers, late>>

afterSleep ==
    /\ main = "wake" /\ gil = Nobody
    /\ main' = "run" /\ gil' = MainThread
    /\ UNCHANGED <<conn, handles, unblockq, pipe, answers, late>>

-----------------------------------------------------------------------------
(***************************************************************************)
(* The thread that works for handle h.                                     *)
(***************************************************************************)

\* A reply function called with a context of the blocked client: kept with the handle.
ThreadReplies(h) ==
    /\ handles[h].st = "out" /\ handles[h].said = 0
    /\ handles' = [handles EXCEPT ![h].said = 1]
    /\ UNCHANGED <<conn, unblockq, pipe, main, gil, answers, late>>

RM_ThreadSafeContextLock(h) ==
    /\ handles[h].st = "out" /\ gil = Nobody
    /\ gil' = h
    /\ UNCHANGED <<conn, handles, unblockq, pipe, main, answers, late>>

RM_ThreadSafeContextUnlock(h) ==
    /\ gil = h
    /\ gil' = Nobody
    /\ UNCHANGED <<conn, handles, unblockq, pipe, main, answers, late>>

\* RM_UnblockClient, and RM_AbortBlock which removes the callback first.  A byte that
\* does not fit is not needed.
RM_UnblockClient(h, abort) ==
    /\ handles[h].st = "out" /\ gil # h
    /\ handles' = [handles EXCEPT ![h].st = "queued", ![h].cb = ~abort]
    /\ unblockq' = Append(unblockq, h)
    /\ pipe' = IF pipe < PipeSize THEN pipe + 1 ELSE pipe
    /\ UNCHANGED <<conn, main, gil, answers, late>>

ThreadNext ==
    \/ \E c \in ModClients :
          \/ \E b \in BOOLEAN : RM_BlockClient(c, b)
          \/ moduleBlockedClientTimedOut(c) \/ freeClient(c)
    \/ disconnectAllBlockedClients
    \/ beforeSleep \/ moduleHandleBlockedClients \/ Sleeps \/ aeApiPollReturns \/ afterSleep
    \/ \E h \in HandleIds :
          \/ ThreadReplies(h) \/ RM_ThreadSafeContextLock(h) \/ RM_ThreadSafeContextUnlock(h)
          \/ \E b \in BOOLEAN : RM_UnblockClient(h, b)

ThreadSpec == ThreadInit /\ [][ThreadNext]_mtVars

-----------------------------------------------------------------------------
(***************************************************************************)
(* Properties.                                                             *)
(***************************************************************************)

\* The main thread does not wait for events while a handle is in the queue and no byte
\* is in the pipe: the client would wait for whatever event comes next.
NoLostWakeup == (main = "poll" /\ unblockq # <<>>) => pipe > 0

\* A handle knows a client exactly as long as that client waits for it, so that neither
\* a late thread answers a client that has gone on, nor a blocked client is forgotten.
HandleKnowsWaiter ==
    /\ late = {}
    /\ \A h \in HandleIds : handles[h].client # NoClient =>
           conn[handles[h].client] = [st |-> "blocked", handle |-> h]
    /\ \A c \in ModClients : conn[c].st = "blocked" => handles[conn[c].handle].client = c

\* A blocking command is answered once at most, by its thread, its reply callback, its
\* timeout or an error; a client that is unblocked without an answer was closed or its
\* block was aborted.  A module whose thread replies and that has a reply callback too
\* answers twice, once each, when the handle is served and not otherwise
\* (module.c:4314, 4333).
AnsweredOnce ==
    \A h \in HandleIds :
        /\ answers[h] <= (IF handles[h].st = "freed" /\ handles[h].cb THEN 1 + handles[h].said ELSE 1)
        /\ (handles[h].st = "out" /\ answers[h] = 1) => handles[h].client = NoClient
=============================================================================
