-------------------------- MODULE MCRuntime --------------------------
(***************************************************************************)
(* The server around the data for TLC: event loop, clients, requests,      *)
(* publish and subscribe, eviction, the configuration file and the module  *)
(* interface, each in small instances of its own, in behaviours that are   *)
(* told apart by part. What they share is one thread that leaves work for  *)
(* later: the question is whether what was left is done, once and in       *)
(* order.                                                                  *)
(***************************************************************************)
EXTENDS Integers, Sequences

VARIABLES
    part,   \* the component of this behaviour
    r1, r2, r3, r4, r5, r6, r7, r8, r9, r10, r11, r12   \* its variables

Asked == {[kind |-> "multi", args |-> <<1>>], [kind |-> "multi", args |-> <<1, 5>>],
          [kind |-> "multi", args |-> <<3, 3, 1>>], [kind |-> "inline"], [kind |-> "none"],
          [kind |-> "newline"]}

Interval(a, b, c, d, e) == [min |-> a, max |-> b, minex |-> c, maxex |-> d, by |-> e]
Intervals == {Interval(1, 2, FALSE, FALSE, "score"), Interval(1, 2, TRUE, FALSE, "score"),
              Interval(1, 2, FALSE, TRUE, "score"), Interval(11, 12, FALSE, FALSE, "lex")}

\* The texts a, K0a; *, K?a; and the classes of notify-keyspace-events.
Channels == {<<97>>, <<75, 48, 97>>}
Globs == {<<42>>, <<75, 63, 97>>}
Notify == {<<"K", "g">>, <<"A", "K", "E">>, <<"g", "$", "l", "s", "h", "z", "x", "K">>, <<"K", "q">>}

\* Patterns of * - ? [ \ ] ^ and letters, and the strings they are tried on.
GlobPatterns ==
    UNION {[1..n -> {42, 45, 63, 91, 92, 93, 94, 97, 98}] : n \in 0..3}
    \cup [1..4 -> {42, 91, 93, 94, 97}] \cup [1..5 -> {45, 91, 93, 97, 99}]
    \cup {<<91, 97, 66, 93>>, <<65, 42>>, <<63, 65>>}
GlobStrings == UNION {[1..n -> {97, 98}] : n \in 1..2} \cup {<<97, 98, 99>>, <<98, 97, 97>>, <<66, 65>>}

\* Lines of a configuration file: option, which of its kind, value, length, quoted.
Line(o, k, v, n, q) == [o |-> o, k |-> k, v |-> v, n |-> n, q |-> q]
Plain(o, k, v, n) == Line(o, k, v, n, FALSE)
Remark(n) == Plain("comment", 0, 0, n)
Blank == Plain("blank", 0, 0, 0)
ConfigFiles ==
    {<<>>,
     <<Remark(2), Plain("mem", 1, 2, 2), Blank, Plain("mem", 2, 2, 2), Plain("other", 0, 2, 3)>>,
     <<Plain("save", 0, 1, 2), Remark(2), Plain("save", 0, 2, 2), Plain("limit", 2, 1, 2), Remark(3)>>,
     <<Plain("limit", 2, 2, 2), Plain("clock", 0, 1, 2), Plain("str", 0, 2, 3), Blank,
       Plain("other", 0, 1, 2), Plain("str", 0, 1, 2)>>,
     <<Remark(6), Line("str", 0, 2, 3, TRUE)>>,
     <<Plain("other", 0, 5, 6), Line("str", 0, 3, 4, TRUE)>>}

CA == INSTANCE ClientLoop WITH Conns <- {1, 2},
        Commands <- {"get", "big", "array", "off", "on", "skip", "pause", "slaveof", "block", "kill", "killme"},
        BufBytes <- 2, SoftLimit <- 3, SoftSeconds <- 1, HardLimit <- 6, MaxSent <- 3,
        MaxNow <- 2, cl <- r1, writers <- r2, unblocked <- r3, closing <- r4, pause <- r5,
        phase <- r6, now <- r7, requeued <- r8, sentCmds <- r9

CB == INSTANCE ClientLoop WITH Conns <- {1, 2},
        Commands <- {"get", "big", "array", "off", "on", "skip", "pause", "slaveof", "block", "kill", "killme"},
        BufBytes <- 2, SoftLimit <- 3, SoftSeconds <- 1, HardLimit <- 6, MaxSent <- 2,
        MaxNow <- 4, cl <- r1, writers <- r2, unblocked <- r3, closing <- r4, pause <- r5,
        phase <- r6, now <- r7, requeued <- r8, sentCmds <- r9

Q == INSTANCE Requests WITH Requests <- Asked, IoBuf <- 4, BigArg <- 5, InlineMax <- 12,
        MaxRequests <- 3, Users <- {"u"}, Streams <- {"p"}, WriteLoads <- TRUE,
        repl_serve_stale_data <- FALSE, MaxQueued <- 2, MaxTurns <- 4, wire <- r1,
        requested <- r2, parser <- r3, executed <- r4, paused <- r5, open <- r6, eaten <- r7,
        grown <- r8, gate <- r1, tx <- r2, torn <- r3, turns <- r4

F == INSTANCE EventLoop WITH MaxFd <- 2, InitialSet <- 2, MaxAccepted <- 3, MaxNested <- 1,
        MaxReady <- 3, Intervals <- {1, 3}, Second <- 2, MaxBack <- 1, MaxTicks <- 6,
        MaxTimers <- 2, events <- r1, setsize <- r2, maxfd <- r3, epoll <- r4, opened <- r5,
        readable <- r6, fired <- r7, batches <- r8, called <- r9, nextConn <- r10,
        nested <- r11, readied <- r12, timers <- r1, timeEventNextId <- r2, lastTime <- r3,
        tick <- r4, pass <- r5, wake <- r6, behind <- r7, early <- r8, finalized <- r9,
        turned <- r10

TB == INSTANCE EventLoop WITH Intervals <- {1, 3}, Second <- 2, MaxBack <- 1, MaxTicks <- 4,
        MaxTimers <- 3, MaxFd <- 2, InitialSet <- 2, MaxAccepted <- 3, MaxNested <- 1,
        MaxReady <- 3, events <- r1, setsize <- r2, maxfd <- r3, epoll <- r4, opened <- r5,
        readable <- r6, fired <- r7, batches <- r8, called <- r9, nextConn <- r10,
        nested <- r11, readied <- r12, timers <- r1, timeEventNextId <- r2, lastTime <- r3,
        tick <- r4, pass <- r5, wake <- r6, behind <- r7, early <- r8, finalized <- r9,
        turned <- r10

PA == INSTANCE PubSub WITH Subs <- {1, 2}, EventKeys <- {97}, Srvs <- {"server", "crdt"},
        Channels <- {<<75, 48, 97>>}, PubPatterns <- {<<42>>}, Configs <- {},
        Patterns <- GlobPatterns, Strings <- GlobStrings, asked <- r1, subs <- r1, regs <- r2,
        psconn <- r3, events <- r4, wanted <- r5, told <- r6

PB == INSTANCE PubSub WITH Subs <- {1, 2}, EventKeys <- {97}, Srvs <- {"server"},
        Channels <- Channels, PubPatterns <- Globs, Configs <- Notify, Patterns <- GlobPatterns,
        Strings <- GlobStrings, asked <- r1, subs <- r1, regs <- r2, psconn <- r3, events <- r4,
        wanted <- r5, told <- r6

EA == INSTANCE MemoryEviction WITH EvKeys <- {1, 2}, EvDbs <- {0, 1}, EvGids <- {1}, EvOwn <- 1,
        Idles <- {1, 3}, EVPOOL_SIZE <- 2, KeySize <- 2, MaxMemory <- 4, Scale <- 4,
        MaxVcu <- 5, Policies <- {"allkeys-lru"}, MaxCalls <- 2, evkeys <- r1, evtombs <- r2,
        evvc <- r3, evpool <- r4, bufs <- r5, nextdb <- r6, policy <- r7, ev <- r8, last <- r9,
        calls <- r10

EB == INSTANCE MemoryEviction WITH EvKeys <- {1, 2}, EvDbs <- {0, 1}, EvGids <- {1}, EvOwn <- 1,
        Idles <- {1, 3}, EVPOOL_SIZE <- 2, KeySize <- 2, MaxMemory <- 4, Scale <- 4,
        MaxVcu <- 5, Policies <- {"volatile-random", "noeviction"}, MaxCalls <- 1, evkeys <- r1,
        evtombs <- r2, evvc <- r3, evpool <- r4, bufs <- r5, nextdb <- r6, policy <- r7,
        ev <- r8, last <- r9, calls <- r10

MA == INSTANCE ModuleContexts WITH Starts <- {"command", "exec", "reply", "timeout", "thread"},
        MaxRuns <- 1, MaxApiCalls <- 3, ModClients <- {1, 2}, MaxHandles <- 3, PipeSize <- 2,
        logs <- r1, master <- r2, run <- r3, also <- r4, stray <- r5, given <- r6, mixed <- r7,
        unsent <- r8, runs <- r9, conn <- r1, handles <- r2, unblockq <- r3, pipe <- r4,
        main <- r5, gil <- r6, answers <- r7, late <- r8

MB == INSTANCE ModuleContexts WITH Starts <- {"command", "exec", "reply", "timeout", "thread"},
        MaxRuns <- 2, MaxApiCalls <- 1, ModClients <- {1, 2}, MaxHandles <- 3, PipeSize <- 2,
        logs <- r1, master <- r2, run <- r3, also <- r4, stray <- r5, given <- r6, mixed <- r7,
        unsent <- r8, runs <- r9, conn <- r1, handles <- r2, unblockq <- r3, pipe <- r4,
        main <- r5, gil <- r6, answers <- r7, late <- r8

YA == INSTANCE ModuleData WITH MinBlock <- 8, Align <- 4, MaxObjects <- 4, PieceSizes <- {},
        MaxPieces <- 0, ModuleKeyNames <- {1}, Elems <- {1, 11, 12, 21}, Ranges <- Intervals,
        MaxLength <- 2, MaxSteps <- 10, auto <- r1, amqueue <- r2, refs <- r3, mine <- r4,
        pool <- r5, pieces <- r6, running <- r7, mdb <- r1, handle <- r2, unsaid <- r3,
        visited <- r4, callcount <- r5

YB == INSTANCE ModuleData WITH MinBlock <- 8, Align <- 4, MaxObjects <- 0,
        PieceSizes <- {1, 2, 3, 6, 9}, MaxPieces <- 3, ModuleKeyNames <- {1},
        Elems <- {1, 11, 12, 21}, Ranges <- Intervals, MaxLength <- 2, MaxSteps <- 10,
        auto <- r1, amqueue <- r2, refs <- r3, mine <- r4, pool <- r5, pieces <- r6,
        running <- r7, mdb <- r1, handle <- r2, unsaid <- r3, visited <- r4, callcount <- r5

W == INSTANCE ConfigRewrite WITH CONFIG_MAX_LINE <- 5, Kb <- 2, Files <- ConfigFiles,
        Sizes <- {0, 3, 4}, Texts <- {0, 1, 5}, Saves <- {<<>>, <<2>>, <<1, 2>>}, MaxClock <- 2,
        MaxConfigSets <- 2, MaxConfigLines <- 10, file <- r1, padded <- r2, conf <- r3,
        unwritten <- r4, comments <- r5, split <- r6, configSets <- r7

all == <<part, r1, r2, r3, r4, r5, r6, r7, r8, r9, r10, r11, r12>>

-----------------------------------------------------------------------------
\* A behaviour is one of one component: the registers hold its variables and
\* those it does not need stay at 0.
Begin ==
    \/ /\ part = "clients" /\ CA!Init
       /\ r10 = 0 /\ r11 = 0 /\ r12 = 0
    \/ /\ part = "clients later" /\ CB!Init
       /\ r10 = 0 /\ r11 = 0 /\ r12 = 0
    \/ /\ part = "requests" /\ Q!ParserInit
       /\ r9 = 0 /\ r10 = 0 /\ r11 = 0 /\ r12 = 0
    \/ /\ part = "files" /\ F!FileInit
    \/ /\ part = "timers" /\ F!TimeInit
       /\ r11 = 0 /\ r12 = 0
    \/ /\ part = "three timers" /\ TB!TimeInit
       /\ r11 = 0 /\ r12 = 0
    \/ /\ part = "publish" /\ PA!PubSubInit
       /\ r7 = 0 /\ r8 = 0 /\ r9 = 0 /\ r10 = 0 /\ r11 = 0 /\ r12 = 0
    \/ /\ part = "notify" /\ PB!PubSubInit
       /\ r7 = 0 /\ r8 = 0 /\ r9 = 0 /\ r10 = 0 /\ r11 = 0 /\ r12 = 0
    \/ /\ part = "eviction" /\ EA!Init
       /\ r11 = 0 /\ r12 = 0
    \/ /\ part = "policies" /\ EB!Init
       /\ r11 = 0 /\ r12 = 0
    \/ /\ part = "module calls" /\ MA!CallInit
       /\ r10 = 0 /\ r11 = 0 /\ r12 = 0
    \/ /\ part = "module runs" /\ MB!CallInit
       /\ r10 = 0 /\ r11 = 0 /\ r12 = 0
    \/ /\ part = "module threads" /\ MA!ThreadInit
       /\ r9 = 0 /\ r10 = 0 /\ r11 = 0 /\ r12 = 0
    \/ /\ part = "module objects" /\ YA!MemoryInit
       /\ r8 = 0 /\ r9 = 0 /\ r10 = 0 /\ r11 = 0 /\ r12 = 0
    \/ /\ part = "module pool" /\ YB!MemoryInit
       /\ r8 = 0 /\ r9 = 0 /\ r10 = 0 /\ r11 = 0 /\ r12 = 0
    \/ /\ part = "module keys" /\ YA!KeysInit
       /\ r6 = 0 /\ r7 = 0 /\ r8 = 0 /\ r9 = 0 /\ r10 = 0 /\ r11 = 0 /\ r12 = 0
    \/ /\ part = "config" /\ W!Init
       /\ r8 = 0 /\ r9 = 0 /\ r10 = 0 /\ r11 = 0 /\ r12 = 0
    \/ /\ part = "gate" /\ Q!GateInit
       /\ r5 = 0 /\ r6 = 0 /\ r7 = 0 /\ r8 = 0 /\ r9 = 0 /\ r10 = 0 /\ r11 = 0 /\ r12 = 0
    \/ /\ part = "glob" /\ PA!MatchInit
       /\ r2 = 0 /\ r3 = 0 /\ r4 = 0 /\ r5 = 0 /\ r6 = 0 /\ r7 = 0 /\ r8 = 0 /\ r9 = 0 /\ r10 = 0
       /\ r11 = 0 /\ r12 = 0

Step_Clients == part = "clients" /\ CA!Next /\ UNCHANGED <<part, r10, r11, r12>>

Step_ClientsLater == part = "clients later" /\ CB!Next /\ UNCHANGED <<part, r10, r11, r12>>

Step_Requests == part = "requests" /\ Q!ParserNext /\ UNCHANGED <<part, r9, r10, r11, r12>>

Step_Files == part = "files" /\ F!FileNext /\ UNCHANGED part

Step_Timers == part = "timers" /\ F!TimeNext /\ UNCHANGED <<part, r11, r12>>

Step_ThreeTimers == part = "three timers" /\ TB!TimeNext /\ UNCHANGED <<part, r11, r12>>

Step_Publish == part = "publish" /\ PA!PubSubNext /\ UNCHANGED <<part, r7, r8, r9, r10, r11, r12>>

Step_Notify == part = "notify" /\ PB!PubSubNext /\ UNCHANGED <<part, r7, r8, r9, r10, r11, r12>>

Step_Eviction == part = "eviction" /\ EA!Next /\ UNCHANGED <<part, r11, r12>>

Step_Policies == part = "policies" /\ EB!Next /\ UNCHANGED <<part, r11, r12>>

Step_ModuleCalls == part = "module calls" /\ MA!CallNext /\ UNCHANGED <<part, r10, r11, r12>>

Step_ModuleRuns == part = "module runs" /\ MB!CallNext /\ UNCHANGED <<part, r10, r11, r12>>

Step_ModuleThreads == part = "module threads" /\ MA!ThreadNext /\ UNCHANGED <<part, r9, r10,
        r11, r12>>

Step_ModuleObjects == part = "module objects" /\ YA!MemoryNext /\ UNCHANGED <<part, r8, r9, r10,
        r11, r12>>

Step_ModulePool == part = "module pool" /\ YB!MemoryNext /\ UNCHANGED <<part, r8, r9, r10, r11,
        r12>>

Step_ModuleKeys == part = "module keys" /\ YA!KeysNext /\ UNCHANGED <<part, r6, r7, r8, r9, r10,
        r11, r12>>

Step_Config == part = "config" /\ W!Next /\ UNCHANGED <<part, r8, r9, r10, r11, r12>>

Step_Gate == part = "gate" /\ Q!GateNext /\ UNCHANGED <<part, r5, r6, r7, r8, r9, r10, r11, r12>>

Step_Glob == part = "glob" /\ PA!MatchNext /\ UNCHANGED <<part, r2, r3, r4, r5, r6, r7, r8, r9,
        r10, r11, r12>>

\* The bounds stop these; the others never get stuck.
Stopped == part \in {"clients", "clients later", "requests", "files", "timers", "three timers",
        "publish", "notify", "eviction", "policies", "module calls", "module runs",
        "module threads", "module objects", "module pool", "module keys", "config", "gate",
        "glob"} /\ UNCHANGED all

Steps ==
    \/ Step_Clients
    \/ Step_ClientsLater
    \/ Step_Requests
    \/ Step_Files
    \/ Step_Timers
    \/ Step_ThreeTimers
    \/ Step_Publish
    \/ Step_Notify
    \/ Step_Eviction
    \/ Step_Policies
    \/ Step_ModuleCalls
    \/ Step_ModuleRuns
    \/ Step_ModuleThreads
    \/ Step_ModuleObjects
    \/ Step_ModulePool
    \/ Step_ModuleKeys
    \/ Step_Config
    \/ Step_Gate
    \/ Step_Glob
    \/ Stopped

Runs == Begin /\ [][Steps]_all

-----------------------------------------------------------------------------
(***************************************************************************)
(* The properties. Each is about one question, asked of the components it  *)
(* concerns in the behaviours that are theirs; the modules of the          *)
(* components state in full what each conjunct says.                       *)
(***************************************************************************)

\* Every client gets its replies, complete and in order, and nobody is
\* forgotten: through the buffer, the list and partial writes
\* (networking.c:214), a reply that waits has a writer, input left behind by a
\* block or a pause will be processed (networking.c:2156), each list of the
\* server has exactly the living clients with its flag (freeClient) but for
\* the end of a pause, which queues clients twice; a client blocked by a
\* module is answered once at most, by its thread, its reply callback, its
\* timeout or an error, but for a module that replies from the thread and has
\* a reply callback as well (module.c:4314, 4333); it is known to its handle
\* exactly while it waits, and its thread does not wake the main thread for
\* nothing or in vain (RM_UnblockClient, moduleHandleBlockedClients).
RepliesInOrder ==
    /\ part = "clients" => CA!ListsAgreeWithFlags
    /\ part = "clients later" => CB!ListsAgreeWithFlags
    /\ part = "clients" => CA!RepliesInOrder
    /\ part = "clients later" => CB!RepliesInOrder
    /\ part = "clients" => CA!WaitingRepliesHaveWriter
    /\ part = "clients later" => CB!WaitingRepliesHaveWriter
    /\ part = "clients" => CA!InputNotForgotten
    /\ part = "clients later" => CB!InputNotForgotten
    /\ part = "module threads" => MA!NoLostWakeup
    /\ part = "module threads" => MA!HandleKnowsWaiter
    /\ part = "module threads" => MA!AnsweredOnce

\* The commands executed are the ones the client meant, however the stream was
\* cut into reads (processMultibulkBuffer), but for an inline request that
\* ends with \n alone, which takes a byte of what follows (networking.c:1158);
\* a client that sends well-formed requests is not closed, unless it is read
\* during a pause (networking.c:1496); and an EXEC that runs, runs every
\* command sent since MULTI, for a refused one aborts it (flagTransaction),
\* but for the refusals that do not flag: read-only slave, Pub/Sub context,
\* loading.
RequestsExact ==
    /\ part = "requests" => Q!RequestsExactUnlessEaten
    /\ part = "requests" => Q!KeptUnlessPaused
    /\ part = "gate" => Q!RunsWholeUnlessUnflagged

\* A file handler is called only for a connection that is open and still its
\* own, although earlier handlers of the batch, or a nested loop, close and
\* open connections (aeProcessEvents), but for the second handler of an event
\* whose first one made the table grow and move: it is looked up through the
\* pointer to the entry of before (ae.c:411, 423), and what freed memory says
\* nobody knows; the kernel watches exactly what the
\* table has handlers for, and maxfd is the highest of them
\* (aeDeleteFileEvent). A timer is in the list once until its finalizer runs,
\* fires neither early nor after its deletion, and the loop never sleeps past
\* it, also when the clock is set back (processTimeEvents).
EventsServed ==
    /\ part = "files" => F!CallsLive
    /\ part = "files" => F!KernelAgrees
    /\ part = "files" => F!MaxfdExact
    /\ part = "timers" => F!TimersKept
    /\ part = "three timers" => TB!TimersKept
    /\ part = "timers" => F!FiresInTime
    /\ part = "three timers" => TB!FiresInTime
    /\ part = "timers" => F!SleepBounded
    /\ part = "three timers" => TB!SleepBounded

\* A key event reaches those, and only those, whose subscriptions name its
\* channels, as often as they do, also after the setting went through CONFIG
\* REWRITE and a restart (notifyKeyspaceEvent); the registries hold every
\* subscriber once and none that is gone (pubsubUnsubscribeChannel), a client
\* is shut out of other commands only while it has a subscription, and a
\* pattern matches what it means, whatever its stars, escapes and classes
\* (stringmatchlen).
SubscribersReached ==
    /\ part = "publish" => PA!RegistriesAgree
    /\ part = "notify" => PB!RegistriesAgree
    /\ part = "publish" => PA!EventsReachSubscribers
    /\ part = "notify" => PB!EventsReachSubscribers
    /\ part = "publish" => PA!FlaggedSubscribed
    /\ part = "notify" => PB!FlaggedSubscribed
    /\ part = "glob" => PA!MatchesMeaning

\* Across calls, samples and ghosts the eviction pool has its entries in the
\* first slots in ascending order, each with a buffer of its own that holds
\* the sampled name (evictionPoolPopulate); and keys go only when no database
\* has a tombstone, never inside a command of a peer (freeMemoryIfNeeded).
EvictionSound ==
    /\ part = "eviction" => EA!PoolSound
    /\ part = "policies" => EB!PoolSound
    /\ part = "eviction" => EA!KeysAfterTombstones
    /\ part = "policies" => EB!KeysAfterTombstones

\* What a module does is seen by others, once: no activity leaves a MULTI open
\* or nests one in any of the three logs, and what was handed over has reached
\* every log it is meant for once the activity is over (call, alsoPropagate),
\* except outside of call() and where commands that wrap are nested
\* (module.c:1363, 4327); and when a key is closed, every change made through
\* it was signalled to those who watch it (RM_CloseKey).
ModuleEffects ==
    /\ part = "module calls" => MA!LogsBalancedBelowCall
    /\ part = "module runs" => MB!LogsBalancedBelowCall
    /\ part = "module calls" => MA!AllPropagatedBelowCall
    /\ part = "module runs" => MB!AllPropagatedBelowCall
    /\ part = "module keys" => YA!ChangesSignalled

\* Automatic memory: an object has exactly the references that the module and
\* the queue will give back, pieces of the pool lie apart inside their blocks
\* and aligned (RM_PoolAlloc). Keys: none holds a list or a hash without
\* elements (RM_ListPop, RM_HashSet), and an iteration over a range visits it
\* in order, each element once, to its end (RM_ZsetRangeNext).
ModuleObjects ==
    /\ part = "module objects" => YA!ReferencesExact
    /\ part = "module pool" => YB!ReferencesExact
    /\ part = "module objects" => YA!PiecesApart
    /\ part = "module pool" => YB!PiecesApart
    /\ part = "module keys" => YA!NoEmptyListsOrHashes
    /\ part = "module keys" => YA!IterationsExact

\* Whenever the process may stop, between the write and the truncation of a
\* rewrite too, the configuration file loads and gives every option its
\* running value, but for those changed since they were last written and for a
\* line longer than the read buffer, which is cut in two
\* (rewriteConfigReadOldFile); and rewriting keeps the comments in their order
\* and signs its own lines once (rewriteConfigRewriteLine).
FileHoldsConfig ==
    /\ part = "config" => W!FileHoldsConfig
    /\ part = "config" => W!StructureKept

=============================================================================
