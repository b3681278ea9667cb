------------------------------ MODULE Requests ------------------------------
(***************************************************************************)
(* What happens to a request: how the bytes of a client become commands    *)
(* (networking.c), and which of them processCommand (server.c) lets        *)
(* through, queues or refuses.                                             *)
(***************************************************************************)
EXTENDS Integers, Sequences, SequencesExt

-----------------------------------------------------------------------------
(***************************************************************************)
(* How the server cuts the byte stream of a client into commands           *)
(* (networking.c: readQueryFromClient, processInputBuffer and the parsers  *)
(* of inline and of multibulk requests).  The stream arrives in pieces of  *)
(* any size, a request may be half parsed between two reads, a big         *)
(* argument is read with reads of its own, and while clients are paused    *)
(* the stream is read but not parsed.                                      *)
(*                                                                         *)
(* A cell of the stream is one byte: "r" and "n" end a line, "d" is data;  *)
(* "*" and "$" are a count or a length with its digits, "w" a word of an   *)
(* inline request.                                                         *)
(***************************************************************************)

CONSTANTS
    Requests,     \* what the client may send: see Wire
    IoBuf,        \* PROTO_IOBUF_LEN: bytes of a read
    BigArg,       \* PROTO_MBULK_BIG_ARG
    InlineMax,    \* PROTO_INLINE_MAX_SIZE
    MaxRequests   \* bound: requests

VARIABLES
    wire,       \* bytes sent and not read
    requested,  \* the commands the client meant
    parser,     \* querybuf, reqtype, multibulklen, bulklen and argv of the client
    executed,   \* commands executed
    paused,     \* clientsArePaused()
    open,       \* "open", or why the server closes: "error", "eof"
    eaten,      \* ghost: an inline request took a byte of the next request
    grown       \* ghost: requests were read while clients were paused

rpVars == <<wire, requested, parser, executed, paused, open, eaten, grown>>

Cell(t, n) == [t |-> t, n |-> n]
Eol == <<Cell("r", 0), Cell("n", 0)>>
Word(id) == <<Cell("w", id)>>
Data(id, len) == [i \in 1 .. len |-> Cell("d", id)]

\* What a client sends for its id-th request, and the command it means.
Wire(req, id) ==
    CASE req.kind = "multi" ->
            <<Cell("*", Len(req.args))>> \o Eol \o
            FlattenSeq([i \in DOMAIN req.args |->
                          <<Cell("$", req.args[i])>> \o Eol \o Data(id, req.args[i]) \o Eol])
      [] req.kind = "none" -> <<Cell("*", 0)>> \o Eol
      [] req.kind = "inline" -> Word(id) \o Eol
      [] req.kind = "newline" -> <<Cell("n", 0)>>

Meant(req, id) ==
    CASE req.kind = "multi" -> << [i \in DOMAIN req.args |-> Data(id, req.args[i])] >>
      [] req.kind = "inline" -> << <<Word(id)>> >>
      [] OTHER -> <<>>

ResetParser == [qb |-> <<>>, reqtype |-> "none", multibulklen |-> 0, bulklen |-> -1, argv |-> <<>>]

From(q, pos) == SubSeq(q, pos + 1, Len(q))
\* The first cell t behind position pos, or 0.
Find(q, pos, t) ==
    LET i == SelectInSeq(From(q, pos), LAMBDA x : x.t = t) IN IF i = 0 THEN 0 ELSE pos + i

-----------------------------------------------------------------------------
\* Outcomes of a parser: "ok", "more" or "error".
Outcome(how, p, pos) == [how |-> how, p |-> [p EXCEPT !.qb = From(@, pos)], over |-> FALSE]

\* A request line that has no end yet.
Short(p) == IF Len(p.qb) > InlineMax THEN "error" ELSE "more"

\* processInlineBuffer: a line ends with \n, but two bytes are cut off behind it.
processInlineBuffer(p) ==
    LET nl == Find(p.qb, 0, "n")
        withr == nl > 1 /\ p.qb[nl - 1].t = "r"
        querylen == IF withr THEN nl - 2 ELSE nl - 1
        words == SubSeq(p.qb, 1, querylen)
    IN  IF nl = 0 THEN Outcome(Short(p), p, 0)
        ELSE [Outcome("ok", [p EXCEPT !.argv = [i \in DOMAIN words |-> <<words[i]>>]], querylen + 2)
                EXCEPT !.over = ~withr /\ Len(p.qb) > nl]

\* The bulks of a multibulk request, from position pos of the buffer.
RECURSIVE Bulks(_, _)
Bulks(p, pos) ==
    LET nl == Find(p.qb, pos, "r")
        head == p.qb[pos + 1]
    IN  IF p.multibulklen = 0 THEN Outcome("ok", p, pos)
        ELSE IF p.bulklen # -1
        THEN IF Len(p.qb) - pos < p.bulklen + 2 THEN Outcome("more", p, pos)
             ELSE Bulks([p EXCEPT !.argv = Append(@, SubSeq(p.qb, pos + 1, pos + p.bulklen)),
                                  !.bulklen = -1,
                                  !.multibulklen = @ - 1], pos + p.bulklen + 2)
        ELSE IF nl \in {0, Len(p.qb)} THEN Outcome(IF nl = 0 THEN Short(p) ELSE "more", p, pos)
        ELSE IF head.t # "$" THEN Outcome("error", p, pos)
        \* A big argument is made to start the buffer.
        ELSE IF head.n >= BigArg
        THEN Bulks([p EXCEPT !.bulklen = head.n, !.qb = From(@, nl + 1)], 0)
        ELSE Bulks([p EXCEPT !.bulklen = head.n], nl + 1)

processMultibulkBuffer(p) ==
    LET nl == Find(p.qb, 0, "r") IN
    IF p.multibulklen # 0 THEN Bulks(p, 0)
    ELSE IF nl \in {0, Len(p.qb)} THEN Outcome(IF nl = 0 THEN Short(p) ELSE "more", p, 0)
    ELSE IF p.qb[1].n <= 0 THEN Outcome("ok", p, nl + 1)
    ELSE Bulks([p EXCEPT !.multibulklen = p.qb[1].n], nl + 1)

\* Seeded fault: the arguments of the last command stay.
resetClient_Kept(p) == [p EXCEPT !.reqtype = "none"]

resetClient(p) == [ResetParser EXCEPT !.qb = p.qb]

\* What is left and what was executed once a parser has ended, o being its outcome.
RECURSIVE processInputBuffer(_, _)
Goes(o, done) ==
    IF o.how = "ok"
    THEN [processInputBuffer(resetClient(o.p),
                             IF o.p.argv = <<>> THEN done ELSE Append(done, o.p.argv))
            EXCEPT !.over = @ \/ o.over]
    ELSE [p |-> o.p, done |-> done, error |-> o.how = "error", over |-> o.over]

\* processInputBuffer, for a client that is not paused: the commands of the buffer,
\* what is left, and whether the client is to be closed.
processInputBuffer(p, done) ==
    IF p.qb = <<>> THEN [p |-> p, done |-> done, error |-> FALSE, over |-> FALSE]
    ELSE IF p.reqtype = "inline" \/ (p.reqtype = "none" /\ p.qb[1].t # "*")
    THEN Goes(processInlineBuffer([p EXCEPT !.reqtype = "inline"]), done)
    ELSE Goes(processMultibulkBuffer([p EXCEPT !.reqtype = "multi"]), done)

Executes(r) ==
    /\ parser' = r.p
    /\ executed' = executed \o r.done
    /\ open' = IF r.error THEN "error" ELSE open
    /\ eaten' = (eaten \/ r.over)
    /\ UNCHANGED grown

Parsed(p) ==
    IF paused THEN /\ parser' = p
                   /\ grown' = TRUE
                   /\ UNCHANGED <<executed, open, eaten>>
    ELSE Executes(processInputBuffer(p, <<>>))

-----------------------------------------------------------------------------
ParserInit ==
    /\ wire = <<>>
    /\ requested = <<>>
    /\ parser = ResetParser
    /\ executed = <<>>
    /\ paused = FALSE
    /\ open = "open"
    /\ eaten = FALSE
    /\ grown = FALSE

\* How much is asked of read(2): the rest of a big argument, if one is being read.
ReadLen ==
    LET remaining == parser.bulklen + 2 - Len(parser.qb)
        big == parser.reqtype = "multi" /\ parser.multibulklen # 0 /\ parser.bulklen >= BigArg
    IN  IF big /\ remaining < IoBuf THEN remaining ELSE IoBuf

\* A read of no bytes looks like the end of the stream.
readQueryFromClient ==
    /\ open = "open"
    /\ wire # <<>>
    /\ \/ /\ ReadLen > 0
          /\ \E n \in 1 .. ReadLen :
                /\ n <= Len(wire)
                /\ wire' = From(wire, n)
                /\ Parsed([parser EXCEPT !.qb = @ \o SubSeq(wire, 1, n)])
       \/ /\ ReadLen = 0
          /\ open' = "eof"
          /\ UNCHANGED <<wire, parser, executed, eaten, grown>>
    /\ UNCHANGED <<requested, paused>>

\* The client sends a request, behind what has not been read yet.
ClientSends(req) ==
    /\ Len(requested) < MaxRequests
    /\ wire' = wire \o Wire(req, Len(requested) + 1)
    /\ requested' = Append(requested, Meant(req, Len(requested) + 1))
    /\ UNCHANGED <<parser, executed, paused, open, eaten, grown>>

pauseClients ==
    /\ open = "open"
    /\ ~paused
    /\ paused' = TRUE
    /\ UNCHANGED <<wire, requested, parser, executed, open, eaten, grown>>

\* clientsArePaused queues the clients, processUnblockedClients goes on with them.
PauseEnds ==
    /\ open = "open"
    /\ paused
    /\ paused' = FALSE
    /\ Executes(processInputBuffer(parser, <<>>))
    /\ UNCHANGED <<wire, requested>>

ParserNext ==
    \/ readQueryFromClient \/ pauseClients \/ PauseEnds
    \/ \E req \in Requests : ClientSends(req)

ParserSpec == ParserInit /\ [][ParserNext]_rpVars

-----------------------------------------------------------------------------
\* The commands executed are the ones the client meant, in their order, however the
\* stream was cut into reads, and none is left behind when all has been read; but for
\* an inline request that ends with \n alone, which takes a byte of what follows it
\* (networking.c:1158).
RequestsExactUnlessEaten ==
    ~eaten => /\ IsPrefix(executed, FlattenSeq(requested))
              /\ open = "open" /\ ~paused /\ wire = <<>> => executed = FlattenSeq(requested)

\* A client that sends well-formed requests is not closed, as long as it is not read
\* while clients are paused (networking.c:1496).
KeptUnlessPaused == ~eaten /\ ~grown => open = "open"

-----------------------------------------------------------------------------
(***************************************************************************)
(* The gates a command passes before it runs or is queued (processCommand  *)
(* of server.c), and the transactions of multi.c behind them, while the    *)
(* server changes its role, loses its master, runs out of memory, fails to *)
(* save or waits for its peers.  Authentication, CLUSTER redirection and   *)
(* scripts are left out; watched keys are in module Keyspace.              *)
(***************************************************************************)

CONSTANTS Users, Streams,   \* clients, and the connections of peers
          WriteLoads,       \* the module flags its writes as allowed while loading
          repl_serve_stale_data,
          MaxQueued, MaxTurns   \* bounds: commands of a transaction, changes of the server

VARIABLES gate,             \* what the gates look at
          tx,               \* per connection [multi, dirty, queue, pubsub] and the ghosts [due, unflagged]
          torn,             \* ghost: an EXEC ran other commands than were sent since its MULTI
          turns

gateVars == <<gate, tx, torn, turns>>

Everyone == Users \cup Streams

\* The commands told apart, and their flags in redisCommandTable.
CMD_WRITE == {"write"}
CMD_DENYOOM == {"write"}
CMD_LOADING == {"info", "subscribe"} \cup (IF WriteLoads THEN {"write"} ELSE {})
CMD_STALE == {"info", "subscribe", "ping"}
GateCommands == {"write", "read", "info", "ping", "subscribe", "multi", "exec", "discard", "unknown"}

NoTransaction == [multi |-> FALSE, dirty |-> FALSE, queue |-> <<>>, pubsub |-> FALSE,
                  due |-> <<>>, unflagged |-> FALSE]

GateInit ==
    /\ gate = [slaveof |-> FALSE, connected |-> FALSE, oom |-> FALSE, unsaved |-> FALSE,
               fewSlaves |-> FALSE, loading |-> FALSE]
    /\ tx = [c \in Everyone |-> NoTransaction]
    /\ torn = FALSE /\ turns = 0

\* With a master of the same kind.
iAmMaster == ~gate.slaveof

\* The first gate that refuses the command, in the order of processCommand.
Refusal(c, cmd) ==
    IF cmd = "unknown" THEN "unknown"
    ELSE IF gate.oom /\ cmd \in CMD_DENYOOM THEN "oom"
    ELSE IF gate.unsaved /\ iAmMaster /\ cmd \in CMD_WRITE \cup {"ping"} THEN "misconf"
    ELSE IF gate.fewSlaves /\ iAmMaster /\ cmd \in CMD_WRITE THEN "noreplicas"
    ELSE IF ~iAmMaster /\ cmd \in CMD_WRITE THEN "readonly"
    ELSE IF tx[c].pubsub /\ cmd \notin {"ping", "subscribe"} THEN "pubsub"
    ELSE IF ~iAmMaster /\ ~gate.connected /\ ~repl_serve_stale_data /\ cmd \notin CMD_STALE
         THEN "masterdown"
    ELSE IF gate.loading /\ cmd \notin CMD_LOADING THEN "loading"
    ELSE "none"

\* flagTransaction, at the gates that call it.
flagTransaction(t, r) ==
    [t EXCEPT !.dirty = @ \/ (t.multi /\ r \in {"unknown", "oom", "misconf", "noreplicas", "masterdown"}),
              !.unflagged = @ \/ (t.multi /\ r \in {"readonly", "pubsub", "loading"})]

discardTransaction(t) == [NoTransaction EXCEPT !.pubsub = t.pubsub]

\* A queued command runs.
Ran(t, cmd) == [t EXCEPT !.pubsub = @ \/ cmd = "subscribe"]

\* execCommand and crdtExecCommand: abort, or run what is queued.
execCommand(c) ==
    LET t == tx[c]
        runs == t.multi /\ ~t.dirty IN
    /\ tx' = [tx EXCEPT ![c] = IF ~t.multi THEN t
                               ELSE IF t.dirty THEN discardTransaction(t)
                               ELSE discardTransaction(FoldLeft(Ran, t, t.queue))]
    /\ torn' = (torn \/ (runs /\ t.queue # t.due /\ ~t.unflagged))

\* What call does for a command that is not queued.
Call(c, cmd) ==
    IF cmd = "exec" THEN execCommand(c)
    ELSE /\ tx' = [tx EXCEPT ![c] =
                IF cmd = "multi" THEN IF @.multi THEN @ ELSE [@ EXCEPT !.multi = TRUE]
                ELSE IF cmd = "discard" THEN IF @.multi THEN discardTransaction(@) ELSE @
                ELSE Ran(@, cmd)]
         /\ UNCHANGED torn

queueMultiCommand(t, cmd) == [t EXCEPT !.queue = Append(@, cmd)]

\* A peer sends what ran at its site: transactions of writes.
SentBy(c) == IF c \in Streams THEN {"write", "multi", "exec"} ELSE GateCommands

processCommand(c, cmd) ==
    LET r == Refusal(c, cmd)
        t == tx[c]
        sent == IF t.multi /\ cmd \notin {"exec", "discard", "multi"} THEN [t EXCEPT !.due = Append(@, cmd)] ELSE t
    IN /\ cmd \in SentBy(c) /\ (c \in Streams => iAmMaster)
       /\ Len(sent.due) <= MaxQueued
       /\ IF r # "none"
          THEN tx' = [tx EXCEPT ![c] = flagTransaction(sent, r)] /\ UNCHANGED torn
          ELSE IF t.multi /\ cmd \notin {"exec", "discard", "multi"}
          THEN tx' = [tx EXCEPT ![c] = queueMultiCommand(sent, cmd)] /\ UNCHANGED torn
          ELSE Call(c, cmd)
       /\ UNCHANGED <<gate, turns>>

\* SLAVEOF, the link to the master, memory, the last save or AOF write, the
\* count of good slaves, and a peer that owes its backstream.  A slave has no
\* connections to peers (crdtReplicationAllPeersStateReset).
GateTurns ==
    /\ turns < MaxTurns /\ turns' = turns + 1
    /\ \E f \in DOMAIN gate : gate' = [gate EXCEPT ![f] = ~@]
    /\ gate'.connected => gate'.slaveof
    /\ tx' = [c \in Everyone |-> IF c \in Streams /\ gate'.slaveof THEN NoTransaction ELSE tx[c]]
    /\ UNCHANGED torn

GateNext ==
    \/ \E c \in Everyone, cmd \in GateCommands : processCommand(c, cmd)
    \/ GateTurns

GateSpec == GateInit /\ [][GateNext]_gateVars

-----------------------------------------------------------------------------
(* Properties *)

\* An EXEC that runs, runs every command its connection sent since MULTI: one
\* that a gate refused while queueing aborts the transaction (flagTransaction).
\* The gates that do not call it - read-only slave, Pub/Sub context, loading -
\* are exempt.
RunsWholeUnlessUnflagged == ~torn
=============================================================================
