----------------------------- MODULE ClientLoop -----------------------------
(***************************************************************************)
(* The life of client connections in the event loop (networking.c,         *)
(* blocked.c, server.c): commands are read and executed, replies are put   *)
(* into a fixed buffer and then into a list of chunks, they are written    *)
(* before the loop sleeps or when the socket becomes writable again, and a *)
(* client is freed at once, before the next sleep, or after its reply.     *)
(* Clients block, all clients may be paused, and one client may kill       *)
(* another.  Four lists of the server refer to clients and have to agree   *)
(* with the flags of the clients.                                          *)
(*                                                                         *)
(* A reply is a sequence of bytes, all of them the number of the command;  *)
(* what a client ought to receive is kept in the ghost field 'want', and   *)
(* 'mute' that a command to close found its replies switched off.          *)
(***************************************************************************)
EXTENDS Integers, Sequences, FiniteSets, SequencesExt

CONSTANTS
    Conns,         \* connections
    Commands,      \* commands clients send: see Execute
    BufBytes,      \* PROTO_REPLY_CHUNK_BYTES, the fixed buffer and a chunk of the list
    SoftLimit,     \* client_obuf_limits: soft limit, and for how long
    SoftSeconds,
    HardLimit,
    MaxSent,       \* bound: commands
    MaxNow         \* bound: time

VARIABLES
    cl,        \* connection -> client
    writers,   \* clients_pending_write
    unblocked, \* unblocked_clients
    closing,   \* clients_to_close
    pause,     \* clients_pause_end_time, or NoPause
    phase,     \* where the event loop is: "events", "unblocked" or "writes"
    now,
    requeued,  \* ghost: a client was put into unblocked_clients a second time
    sentCmds

clVars == <<cl, writers, unblocked, closing, pause, phase, now, requeued, sentCmds>>

NoPause == -1

\* The part of the state the handlers work on.
State == [cl |-> cl, writers |-> writers, unblocked |-> unblocked, closing |-> closing,
          pause |-> pause, requeued |-> requeued]

Becomes(s) ==
    /\ cl' = s.cl
    /\ writers' = s.writers
    /\ unblocked' = s.unblocked
    /\ closing' = s.closing
    /\ pause' = s.pause
    /\ requeued' = s.requeued

FreshClient ==
    [alive |-> TRUE, flags |-> {}, query |-> <<>>, buf |-> <<>>, list |-> <<>>, sent |-> 0,
     handler |-> FALSE, softsince |-> 0, got |-> <<>>, want |-> <<>>, mute |-> FALSE]

Without(q, c) == LET i == SelectInSeq(q, LAMBDA x : x = c)
                 IN  IF i = 0 THEN q ELSE RemoveAt(q, i)

-----------------------------------------------------------------------------
(***************************************************************************)
(* Freeing.                                                                *)
(***************************************************************************)

\* unlinkClient and freeClient: the flags tell which lists have the client.
freeClient(s, c) ==
    LET flags == s.cl[c].flags
    IN  [s EXCEPT !.cl[c].alive = FALSE,
                  !.writers = IF "pending_write" \in flags THEN Without(@, c) ELSE @,
                  !.unblocked = IF "unblocked" \in flags THEN Without(@, c) ELSE @,
                  !.closing = IF "close_asap" \in flags THEN Without(@, c) ELSE @]

freeClientAsync(s, c) ==
    IF "close_asap" \in s.cl[c].flags THEN s
    ELSE [s EXCEPT !.cl[c].flags = @ \cup {"close_asap"}, !.closing = Append(@, c)]

-----------------------------------------------------------------------------
(***************************************************************************)
(* Replies.                                                                *)
(***************************************************************************)

HasPendingReplies(r) == r.buf # <<>> \/ r.list # <<>>

Muted(r) == r.flags \cap {"reply_off", "reply_skip"} # {}

\* prepareClientToWrite, for a client that is not muted.
prepareClientToWrite(s, c) ==
    IF ~HasPendingReplies(s.cl[c]) /\ "pending_write" \notin s.cl[c].flags
    THEN [s EXCEPT !.cl[c].flags = @ \cup {"pending_write"}, !.writers = <<c>> \o @]
    ELSE s

ListBytes(r) == Len(FlattenSeq(r.list))

\* checkClientOutputBufferLimits: over the hard limit, or over the soft one for a while.
OverSoft(r) == ListBytes(r) >= SoftLimit
checkClientOutputBufferLimits(r) ==
    \/ ListBytes(r) >= HardLimit
    \/ OverSoft(r) /\ r.softsince # 0 /\ now - r.softsince > SoftSeconds

asyncCloseClientOnOutputBufferLimitReached(s, c) ==
    LET r == s.cl[c]
        t == [s EXCEPT !.cl[c].softsince = IF ~OverSoft(r) THEN 0
                                           ELSE IF r.softsince = 0 THEN now ELSE r.softsince]
    IN  IF ListBytes(r) = 0 \/ "close_asap" \in r.flags THEN s
        ELSE IF checkClientOutputBufferLimits(r) THEN freeClientAsync(t, c) ELSE t

_addReplyStringToList(s, c, bytes) ==
    LET l == s.cl[c].list
        glue == l # <<>> /\ Len(Last(l)) + Len(bytes) <= BufBytes
        more == IF glue THEN [l EXCEPT ![Len(l)] = @ \o bytes] ELSE Append(l, bytes)
    IN  asyncCloseClientOnOutputBufferLimitReached([s EXCEPT !.cl[c].list = more], c)

\* Seeded fault: the buffer is used although the list is.
addReply_Buffer(s, c, bytes) ==
    IF Muted(s.cl[c]) THEN s
    ELSE LET t == prepareClientToWrite(s, c)
             r == t.cl[c]
             w == [t EXCEPT !.cl[c].want = @ \o bytes]
         IN  CASE "close_after_reply" \in r.flags -> t
               [] "close_after_reply" \notin r.flags
                     /\ Len(bytes) <= BufBytes - Len(r.buf) -> [w EXCEPT !.cl[c].buf = @ \o bytes]
               [] OTHER -> _addReplyStringToList(w, c, bytes)

\* addReplyString: the buffer first, unless the list is in use.
addReply(s, c, bytes) ==
    IF Muted(s.cl[c]) THEN s
    ELSE LET t == prepareClientToWrite(s, c)
             r == t.cl[c]
             w == [t EXCEPT !.cl[c].want = @ \o bytes]
         IN  CASE "close_after_reply" \in r.flags -> t
               [] "close_after_reply" \notin r.flags /\ r.list = <<>>
                     /\ Len(bytes) <= BufBytes - Len(r.buf) -> [w EXCEPT !.cl[c].buf = @ \o bytes]
               [] OTHER -> _addReplyStringToList(w, c, bytes)

\* addDeferredMultiBulkLength and setDeferredMultiBulkLength: the head of a reply is
\* put into the list after its body, and glued to the chunk behind it.
DeferredReply(s, c, head, body) ==
    IF Muted(s.cl[c]) THEN s
    ELSE LET t == prepareClientToWrite(s, c)
             at == Len(t.cl[c].list) + 1
             \* An empty chunk nobody may append to holds the place.
             l == t.cl[c].list \o <<head, body>>
             glued == SubSeq(l, 1, at - 1) \o <<head \o body>>
         IN  asyncCloseClientOnOutputBufferLimitReached(
                 [t EXCEPT !.cl[c].list = glued, !.cl[c].want = @ \o head \o body], c)

-----------------------------------------------------------------------------
(***************************************************************************)
(* Commands.                                                               *)
(***************************************************************************)

\* clientsArePaused: a pause that is over sends all clients back to their input,
\* whether or not they are in the queue already.
PauseOver(s) == s.pause # NoPause /\ s.pause < now
Resumed(s) == {c \in Conns : s.cl[c].alive /\ "blocked" \notin s.cl[c].flags}

clientsArePaused(s) ==
    IF ~PauseOver(s) THEN s
    ELSE [s EXCEPT !.pause = NoPause,
                   !.requeued = @ \/ \E c \in Resumed(s) : "unblocked" \in s.cl[c].flags,
                   !.unblocked = @ \o SetToSeq(Resumed(s)),
                   !.cl = [c \in Conns |->
                             IF c \in Resumed(s)
                             THEN [s.cl[c] EXCEPT !.flags = @ \cup {"unblocked"}]
                             ELSE s.cl[c]]]

pauseClients(s, end) == IF s.pause = NoPause \/ end > s.pause THEN [s EXCEPT !.pause = end] ELSE s

\* resetClient: CLIENT REPLY SKIP mutes exactly the next command.
resetClient(s, c) ==
    IF ~s.cl[c].alive \/ "blocked" \in s.cl[c].flags THEN s
    ELSE [s EXCEPT !.cl[c].flags =
            (@ \ {"reply_skip", "skip_next"}) \cup
            (IF "skip_next" \in s.cl[c].flags THEN {"reply_skip"} ELSE {})]

\* unblockClient, for a client a module had blocked: reset only now.
Blocked(s) == {c \in Conns : s.cl[c].alive /\ "blocked" \in s.cl[c].flags}
Answer == <<0>>

unblockClient(s, c) ==
    LET t == resetClient([s EXCEPT !.cl[c].flags = (@ \ {"blocked"}) \cup {"unblocked"}], c)
    IN  IF "unblocked" \in s.cl[c].flags THEN t ELSE [t EXCEPT !.unblocked = Append(@, c)]

\* disconnectAllBlockedClients: the server becomes a slave.
disconnectAllBlockedClients(s) ==
    LET one(c, t) ==
            LET u == unblockClient(addReply(t, c, Answer), c)
            IN  [u EXCEPT !.cl[c].flags = @ \cup {"close_after_reply"}, !.cl[c].mute = Muted(t.cl[c])]
    IN  FoldSet(one, s, Blocked(s))

\* The commands of a client: an ordinary one, one with a long or a deferred reply,
\* one that blocks, CLIENT REPLY, CLIENT PAUSE, CLIENT KILL of others and of itself,
\* SLAVEOF.
Execute(s, c, n) ==
    LET cmd == n.cmd
        b == n.no
    IN  CASE cmd = "get" -> addReply(s, c, <<b>>)
          [] cmd = "big" -> addReply(s, c, <<b, b, b>>)
          [] cmd = "array" -> DeferredReply(s, c, <<b>>, <<b, b>>)
          [] cmd = "off" -> [s EXCEPT !.cl[c].flags = @ \cup {"reply_off"}]
          [] cmd = "on" -> addReply([s EXCEPT !.cl[c].flags = @ \ {"reply_off", "reply_skip"}], c, <<b>>)
          [] cmd = "skip" -> IF "reply_off" \in s.cl[c].flags THEN s
                             ELSE [s EXCEPT !.cl[c].flags = @ \cup {"skip_next"}]
          [] cmd = "pause" -> addReply(pauseClients(s, now + 1), c, <<b>>)
          [] cmd = "block" -> [s EXCEPT !.cl[c].flags = @ \cup {"blocked"}]
          [] cmd = "slaveof" -> addReply(disconnectAllBlockedClients(s), c, <<b>>)
          [] cmd = "kill" ->
                LET others == {k \in Conns : k # c /\ s.cl[k].alive}
                IN  addReply(FoldSet(LAMBDA k, t : freeClient(t, k), s, others), c, <<b>>)
          [] cmd = "killme" ->
                LET t == addReply(s, c, <<b>>)
                IN  [t EXCEPT !.cl[c].flags = @ \cup {"close_after_reply"},
                              !.cl[c].mute = Muted(s.cl[c])]

\* processInputBuffer: commands until the input is empty or something stops them.
Stops(s, c) ==
    \/ ~s.cl[c].alive
    \/ s.cl[c].query = <<>>
    \/ s.pause # NoPause
    \/ s.cl[c].flags \cap {"blocked", "close_after_reply", "close_asap"} # {}

OneCommand(s, c) ==
    IF ~s.cl[c].alive \/ s.cl[c].query = <<>> THEN s
    ELSE LET t == clientsArePaused(s)
         IN  IF Stops(t, c) THEN t
             ELSE resetClient(Execute([t EXCEPT !.cl[c].query = Tail(@)], c, Head(t.cl[c].query)), c)

processInputBuffer(s, c) ==
    FoldLeft(LAMBDA t, i : OneCommand(t, c), s, [i \in 1 .. Len(s.cl[c].query) |-> i])

-----------------------------------------------------------------------------
(***************************************************************************)
(* Writing.                                                                *)
(***************************************************************************)

\* The chunk that is written first.
FrontChunk(r) == IF r.buf # <<>> THEN r.buf ELSE Head(r.list)

\* One write of n bytes of the front chunk.
WriteSome(r, n) ==
    LET part == SubSeq(FrontChunk(r), r.sent + 1, r.sent + n)
        s == [r EXCEPT !.got = @ \o part, !.sent = @ + n]
    IN  IF s.sent < Len(FrontChunk(r)) THEN s
        ELSE IF r.buf # <<>> THEN [s EXCEPT !.buf = <<>>, !.sent = 0]
        ELSE [s EXCEPT !.list = Tail(@), !.sent = 0]

WriteAll(r) ==
    LET rest == SubSeq(r.buf \o FlattenSeq(r.list), r.sent + 1, Len(r.buf) + ListBytes(r))
    IN  [r EXCEPT !.got = @ \o rest, !.buf = <<>>, !.list = <<>>, !.sent = 0]

\* writeToClient: the socket takes everything, a part, or fails.
writeToClient(s, c, how) ==
    LET r == s.cl[c]
        w == CASE how = "all" -> WriteAll(r)
               [] how = "some" /\ HasPendingReplies(r) /\ Len(FrontChunk(r)) - r.sent > 0 -> WriteSome(r, 1)
               [] OTHER -> r
        t == [s EXCEPT !.cl[c] = [w EXCEPT !.handler = @ /\ HasPendingReplies(w)]]
    IN  IF how = "error" /\ HasPendingReplies(r) THEN freeClient(s, c)
        ELSE IF ~HasPendingReplies(w) /\ "close_after_reply" \in w.flags THEN freeClient(t, c)
        ELSE t

-----------------------------------------------------------------------------
Init ==
    /\ cl = [c \in Conns |-> FreshClient]
    /\ writers = <<>>
    /\ unblocked = <<>>
    /\ closing = <<>>
    /\ pause = NoPause
    /\ phase = "events"
    /\ now = 1
    /\ requeued = FALSE
    /\ sentCmds = 0

\* readQueryFromClient: commands arrive and are executed, or the client has closed.
readQueryFromClient(c) ==
    /\ phase = "events"
    /\ cl[c].alive
    /\ \/ \E cmds \in UNION {[1 .. n -> Commands] : n \in 1 .. MaxSent - sentCmds} :
             /\ Len(cmds) <= 2
             /\ sentCmds' = sentCmds + Len(cmds)
             /\ LET new == [i \in 1 .. Len(cmds) |-> [cmd |-> cmds[i], no |-> sentCmds + i]]
                IN  Becomes(processInputBuffer([State EXCEPT !.cl[c].query = @ \o new], c))
       \/ /\ sentCmds < MaxSent
          /\ sentCmds' = MaxSent
          /\ Becomes(freeClient(State, c))
    /\ UNCHANGED <<phase, now>>

\* sendReplyToClient: the socket is writable again.
sendReplyToClient(c) ==
    /\ phase = "events"
    /\ cl[c].alive
    /\ cl[c].handler
    /\ \E how \in {"all", "some", "error"} : Becomes(writeToClient(State, c, how))
    /\ UNCHANGED <<phase, now, sentCmds>>

\* serverCron, the last handler of a turn of the loop: clientsCron (the timeout of
\* blocked clients), clients to close, the end of a pause.
serverCron ==
    /\ phase = "events"
    /\ now < MaxNow
    /\ now' = now + 1
    /\ phase' = "unblocked"
    /\ \E late \in SUBSET Blocked(State) :
          LET timedOut(c, s) == unblockClient(addReply(s, c, Answer), c)
              free(s, c) == freeClient([s EXCEPT !.cl[c].flags = @ \ {"close_asap"},
                                                 !.closing = Without(@, c)], c)
              t == FoldSet(timedOut, State, late)
          IN  Becomes(clientsArePaused(FoldLeft(free, t, t.closing)))
    /\ UNCHANGED sentCmds

\* beforeSleep: modules answer clients they had blocked (moduleHandleBlockedClients).
beforeSleep ==
    /\ phase = "events"
    /\ \E answered \in SUBSET Blocked(State) :
          /\ answered # {} \/ unblocked # <<>> \/ writers # <<>>
          /\ Becomes(FoldSet(LAMBDA c, s : unblockClient(addReply(s, c, Answer), c), State, answered))
    /\ phase' = "unblocked"
    /\ UNCHANGED <<now, sentCmds>>

\* Then commands that waited while a client was blocked, one client at a time.
processUnblockedClients ==
    /\ phase = "unblocked"
    /\ \/ /\ unblocked = <<>>
          /\ phase' = "writes"
          /\ UNCHANGED <<cl, writers, unblocked, closing, pause, requeued>>
       \/ /\ unblocked # <<>>
          /\ LET c == Head(unblocked)
                 s == [State EXCEPT !.unblocked = Tail(@), !.cl[c].flags = @ \ {"unblocked"}]
             IN  Becomes(IF cl[c].alive /\ "blocked" \notin cl[c].flags
                         THEN processInputBuffer(s, c) ELSE s)
          /\ UNCHANGED phase
    /\ UNCHANGED <<now, sentCmds>>

\* beforeSleep, second part.
handleClientsWithPendingWrites ==
    /\ phase = "writes"
    /\ \/ /\ writers = <<>>
          /\ phase' = "events"
          /\ UNCHANGED <<cl, writers, unblocked, closing, pause, requeued>>
       \/ /\ writers # <<>>
          /\ \E how \in {"all", "some", "none", "error"} :
                LET c == Head(writers)
                    s == [State EXCEPT !.writers = Tail(@), !.cl[c].flags = @ \ {"pending_write"}]
                    t == writeToClient(s, c, how)
                IN  Becomes(IF t.cl[c].alive /\ HasPendingReplies(t.cl[c])
                            THEN [t EXCEPT !.cl[c].handler = TRUE] ELSE t)
          /\ UNCHANGED phase
    /\ UNCHANGED <<now, sentCmds>>

Next ==
    \/ \E c \in Conns : readQueryFromClient(c) \/ sendReplyToClient(c)
    \/ serverCron \/ beforeSleep \/ processUnblockedClients \/ handleClientsWithPendingWrites

Spec == Init /\ [][Next]_clVars

-----------------------------------------------------------------------------
(***************************************************************************)
(* Properties.                                                             *)
(***************************************************************************)

Flagged(f) == {c \in Conns : cl[c].alive /\ f \in cl[c].flags}
ListOf(q, S) == ToSet(q) = S /\ Len(q) = Cardinality(S)

\* Every list of the server has exactly the living clients with its flag, each of
\* them once: a client that is freed leaves no pointer behind (networking.c:749).
\* But for the end of a pause, which queues clients that are queued already.
ListsAgreeWithFlags ==
    /\ ListOf(writers, Flagged("pending_write"))
    /\ ListOf(closing, Flagged("close_asap"))
    /\ ~requeued => ListOf(unblocked, Flagged("unblocked"))

\* What a client has received and what waits for it are its replies, complete and in
\* their order, through the buffer, the list and partial writes (networking.c:214).
RepliesInOrder ==
    \A c \in Conns :
        cl[c].alive => cl[c].got \o SubSeq(cl[c].buf \o FlattenSeq(cl[c].list), cl[c].sent + 1,
                                           Len(cl[c].buf) + ListBytes(cl[c])) = cl[c].want

\* A reply that waits will be written: the client is queued or has a handler.  A
\* client to be closed after its reply will be, unless CLIENT REPLY kept that reply
\* from being written (networking.c:184).
WaitingRepliesHaveWriter ==
    \A c \in Conns :
        LET waits == HasPendingReplies(cl[c])
            closes == "close_after_reply" \in cl[c].flags /\ ~cl[c].mute
        IN  cl[c].alive /\ (waits \/ closes) => "pending_write" \in cl[c].flags \/ cl[c].handler

\* Input that was left in the buffer because the client was blocked or all clients
\* were paused is not forgotten: someone will process it (networking.c:2156).
InputNotForgotten ==
    \A c \in Conns :
        cl[c].alive /\ cl[c].query # <<>> =>
            \/ "unblocked" \in cl[c].flags
            \/ pause # NoPause
            \/ cl[c].flags \cap {"blocked", "close_after_reply", "close_asap"} # {}
=============================================================================
