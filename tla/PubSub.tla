------------------------------- MODULE PubSub -------------------------------
(***************************************************************************)
(* Publish and subscribe (pubsub.c) and keyspace events (notify.c), and    *)
(* the matching of glob patterns (util.c) that both KEYS and PSUBSCRIBE    *)
(* use.                                                                    *)
(***************************************************************************)
EXTENDS Integers, Sequences, FiniteSets, SequencesExt

-----------------------------------------------------------------------------
(***************************************************************************)
(* Glob-style matching (stringmatchlen), by which PSUBSCRIBE, KEYS, SCAN   *)
(* and CONFIG GET choose names.  Characters are their ASCII codes; a       *)
(* string, like an sds, is followed by a zero.                             *)
(*                                                                         *)
(* Against an empty string a class that is negated, or a zero in the       *)
(* pattern, takes a character that is not there; names are not empty here. *)
(***************************************************************************)

CONSTANTS Patterns, Strings,\* what is matched with what
          Srvs,             \* the registries: "server", "crdt" or both
          Subs,             \* clients
          Channels,         \* names, sequences of bytes
          PubPatterns,
          EventKeys,        \* keys whose events are published (characters)
          Configs           \* values of notify-keyspace-events: sequences

STAR == 42
DASH == 45
QUESTION == 63
OPEN == 91
BACKSLASH == 92
CLOSE == 93
CARET == 94

At(s, i) == IF i <= Len(s) THEN s[i] ELSE 0
From(s, i) == SubSeq(s, i, Len(s))
tolower(c) == IF c \in 65..90 THEN c + 32 ELSE c

\* The ends are put in order before their case is folded.
InRange(from, to, c, nocase) ==
    LET start == IF from > to THEN to ELSE from
        end == IF from > to THEN from ELSE to
    IN IF nocase THEN tolower(c) >= tolower(start) /\ tolower(c) <= tolower(end)
                 ELSE c >= start /\ c <= end

\* The loop over a class, from its first member on: whether c is a member, and
\* the pattern after the class.  A class that does not end ends with the pattern.
RECURSIVE Class(_, _, _, _)
Class(p, c, nocase, match) ==
    IF At(p, 1) = BACKSLASH /\ Len(p) >= 2 THEN Class(From(p, 3), c, nocase, match \/ p[2] = c)
    ELSE IF At(p, 1) = CLOSE THEN [match |-> match, rest |-> From(p, 2)]
    ELSE IF Len(p) = 0 THEN [match |-> match, rest |-> <<>>]
    ELSE IF At(p, 2) = DASH /\ Len(p) >= 3
    THEN Class(From(p, 4), c, nocase, match \/ InRange(p[1], p[3], c, nocase))
    ELSE Class(From(p, 2), c, nocase,
               match \/ IF nocase THEN tolower(p[1]) = tolower(c) ELSE p[1] = c)

RECURSIVE WithoutStars(_)
WithoutStars(p) == IF At(p, 1) = STAR THEN WithoutStars(From(p, 2)) ELSE p

\* stringmatchlen
RECURSIVE stringmatchlen(_, _, _)
stringmatchlen(p, s, nocase) ==
    LET \* the end of the loop: rest of the pattern, one character of s taken
        Go(rest) == IF Len(s) = 1 THEN WithoutStars(rest) = <<>>
                    ELSE stringmatchlen(rest, From(s, 2), nocase)
        not == At(p, 2) = CARET
        class == Class(From(p, IF not THEN 3 ELSE 2), At(s, 1), nocase, FALSE)
        lit == IF At(p, 1) = BACKSLASH /\ Len(p) >= 2 THEN 2 ELSE 1
        stars == WithoutStars(p)
    IN IF p = <<>> THEN s = <<>>
       ELSE IF p[1] = STAR
       THEN stars = <<>> \/ \E i \in 1..Len(s) : stringmatchlen(stars, From(s, i), nocase)
       ELSE IF p[1] = QUESTION THEN s # <<>> /\ Go(From(p, 2))
       ELSE IF p[1] = OPEN THEN class.match # not /\ Go(class.rest)
       ELSE /\ IF nocase THEN tolower(p[lit]) = tolower(At(s, 1)) ELSE p[lit] = At(s, 1)
            /\ Go(From(p, lit + 1))

-----------------------------------------------------------------------------
VARIABLE asked      \* [p, s, nocase, answer]

globVars == <<asked>>

MatchInit ==
    \E p \in Patterns, s \in Strings, nocase \in BOOLEAN :
        asked = [p |-> p, s |-> s, nocase |-> nocase, answer |-> "none"]

Match ==
    /\ asked.answer = "none"
    /\ asked' = [asked EXCEPT !.answer =
                    IF stringmatchlen(asked.p, asked.s, asked.nocase) THEN "yes" ELSE "no"]

MatchNext == Match

MatchSpec == MatchInit /\ [][MatchNext]_globVars

-----------------------------------------------------------------------------
(* What a pattern means: a sequence of elements, each any number of        *)
(* characters or one character of a set.                                   *)

Alphabet == UNION {{s[i] : i \in 1..Len(s)} : s \in Strings \cup Channels}

\* The members of a class and where it ends.
RECURSIVE Members(_, _)
Members(p, set) ==
    IF p = <<>> THEN [set |-> set, rest |-> <<>>]
    ELSE IF p[1] = CLOSE THEN [set |-> set, rest |-> Tail(p)]
    ELSE IF p[1] = BACKSLASH /\ Len(p) > 1 THEN Members(From(p, 3), set \cup {p[2]})
    ELSE IF Len(p) > 2 /\ p[2] = DASH
    THEN Members(From(p, 4), set \cup {c \in Alphabet : (p[1] <= c /\ c <= p[3]) \/ (p[3] <= c /\ c <= p[1])})
    ELSE Members(Tail(p), set \cup {p[1]})

RECURSIVE Elements(_)
Elements(p) ==
    IF p = <<>> THEN <<>>
    ELSE IF p[1] = STAR THEN <<[any |-> TRUE, of |-> {}]>> \o Elements(Tail(p))
    ELSE IF p[1] = QUESTION THEN <<[any |-> FALSE, of |-> Alphabet]>> \o Elements(Tail(p))
    ELSE IF p[1] = OPEN
    THEN LET not == Len(p) > 1 /\ p[2] = CARET
             m == Members(From(p, IF not THEN 3 ELSE 2), {})
         IN <<[any |-> FALSE, of |-> IF not THEN Alphabet \ m.set ELSE m.set]>> \o Elements(m.rest)
    ELSE IF p[1] = BACKSLASH /\ Len(p) > 1 THEN <<[any |-> FALSE, of |-> {p[2]}]>> \o Elements(From(p, 3))
    ELSE <<[any |-> FALSE, of |-> {p[1]}]>> \o Elements(Tail(p))

\* The places in s at which the first n elements can end.
RECURSIVE Ends(_, _, _)
Ends(e, s, n) ==
    IF n = 0 THEN {0}
    ELSE LET before == Ends(e, s, n - 1)
         IN IF e[n].any THEN {i \in 0..Len(s) : \E j \in before : j <= i}
                        ELSE {i \in 1..Len(s) : i - 1 \in before /\ s[i] \in e[n].of}

Means(p, s) == LET e == Elements(p) IN Len(s) \in Ends(e, s, Len(e))

Folded(s) == [i \in 1..Len(s) |-> tolower(s[i])]

\* stringmatchlen answers as the pattern's meaning says, whatever the stars,
\* escapes, negated, unterminated and backward classes in it; and without
\* regard to case when it is told so (for a pattern without escapes and ranges,
\* of which the code folds the ends only after ordering them).
MatchesMeaning ==
    asked.answer # "none" =>
        IF asked.nocase
        THEN (\A i \in 1..Len(asked.p) : asked.p[i] \notin {DASH, BACKSLASH}) =>
                 (asked.answer = "yes" <=> Means(Folded(asked.p), Folded(asked.s)))
        ELSE asked.answer = "yes" <=> Means(asked.p, asked.s)

-----------------------------------------------------------------------------
(***************************************************************************)
(* Publish/subscribe and keyspace notifications.  There are two registries *)
(* of subscriptions, the server's and the CRDT server's, with commands of  *)
(* their own, and one flag per client for both.  Who gets a message is     *)
(* decided by the server's side (channel -> clients, the list of           *)
(* patterns), what a client may leave by its own side.                     *)
(***************************************************************************)

VARIABLES subs,     \* subs[srv][c]: [chans, pats] the client's side
          regs,     \* regs[srv]: [chans, pats] the server's side
          psconn,   \* psconn[c]: [alive, flag]
          events,   \* server.notify_keyspace_events, a set of classes
          wanted,   \* ghost: the classes the operator asked for
          told      \* what the last command said: a count, or who got what

pubVars == <<subs, regs, psconn, events, wanted, told>>

Classes == {"g", "$", "l", "s", "h", "z", "x", "e"}
None == [kind |-> "none", c |-> 0, n |-> 0, got |-> <<>>]
NoSubs == [chans |-> {}, pats |-> <<>>]

PubSubInit ==
    /\ subs = [srv \in Srvs |-> [c \in Subs |-> NoSubs]]
    /\ regs = [srv \in Srvs |-> [chans |-> <<>>, pats |-> <<>>]]
    /\ psconn = [c \in Subs |-> [alive |-> TRUE, flag |-> FALSE]]
    /\ events = {} /\ wanted = {}
    /\ told = None

\* clientSubscriptionsCount, clientCrdtSubscriptionsCount
Count(s) == Cardinality(s.chans) + Len(s.pats)
Says(c, s) == [None EXCEPT !.kind = "count", !.c = c, !.n = Count(s)]

ClientsOf(reg, ch) == IF ch \in DOMAIN reg.chans THEN reg.chans[ch] ELSE <<>>
Put(f, k, v) == [x \in DOMAIN f \cup {k} |-> IF x = k THEN v ELSE f[x]]
Drop(f, k) == [x \in DOMAIN f \ {k} |-> f[x]]

-----------------------------------------------------------------------------
(* A pair of the two sides, [s, reg], after each operation. *)

pubsubSubscribeChannel(s, reg, c, ch) ==
    IF ch \in s.chans THEN [s |-> s, reg |-> reg]
    ELSE [s |-> [s EXCEPT !.chans = @ \cup {ch}],
          reg |-> [reg EXCEPT !.chans = Put(@, ch, Append(ClientsOf(reg, ch), c))]]

pubsubSubscribePattern(s, reg, c, pat) ==
    IF Contains(s.pats, pat) THEN [s |-> s, reg |-> reg]
    ELSE [s |-> [s EXCEPT !.pats = Append(@, pat)],
          reg |-> [reg EXCEPT !.pats = Append(@, <<c, pat>>)]]

\* Seeded fault: the client stays in the channel's list.
pubsubUnsubscribeChannel_Listed(s, reg, c, ch) ==
    IF ch \notin s.chans THEN [s |-> s, reg |-> reg]
    ELSE [s |-> [s EXCEPT !.chans = @ \ {ch}],
          reg |-> IF Len(ClientsOf(reg, ch)) = 1 THEN [reg EXCEPT !.chans = Drop(@, ch)] ELSE reg]

pubsubUnsubscribeChannel(s, reg, c, ch) ==
    IF ch \notin s.chans THEN [s |-> s, reg |-> reg]
    ELSE LET left == Remove(ClientsOf(reg, ch), c)
         IN [s |-> [s EXCEPT !.chans = @ \ {ch}],
             reg |-> [reg EXCEPT !.chans = IF left = <<>> THEN Drop(@, ch) ELSE Put(@, ch, left)]]

pubsubUnsubscribePattern(s, reg, c, pat) ==
    IF ~Contains(s.pats, pat) THEN [s |-> s, reg |-> reg]
    ELSE [s |-> [s EXCEPT !.pats = Remove(@, pat)],
          reg |-> [reg EXCEPT !.pats = RemoveAt(@, SelectInSeq(@, LAMBDA e : e = <<c, pat>>))]]

\* One after the other, in the order of the client's own side.
pubsubUnsubscribeAllChannels(s, reg, c) ==
    FoldLeft(LAMBDA r, ch : pubsubUnsubscribeChannel(r.s, r.reg, c, ch),
             [s |-> s, reg |-> reg], SetToSeq(s.chans))

pubsubUnsubscribeAllPatterns(s, reg, c) ==
    FoldLeft(LAMBDA r, pat : pubsubUnsubscribePattern(r.s, r.reg, c, pat),
             [s |-> s, reg |-> reg], s.pats)

-----------------------------------------------------------------------------
Becomes(srv, c, r) ==
    /\ subs' = [subs EXCEPT ![srv][c] = r.s]
    /\ regs' = [regs EXCEPT ![srv] = r.reg]
    /\ told' = Says(c, r.s)

\* (CRDT.)SUBSCRIBE and (CRDT.)PSUBSCRIBE.
subscribeCommand(srv, c) ==
    /\ psconn[c].alive
    /\ \/ \E ch \in Channels : Becomes(srv, c, pubsubSubscribeChannel(subs[srv][c], regs[srv], c, ch))
       \/ \E pat \in PubPatterns : Becomes(srv, c, pubsubSubscribePattern(subs[srv][c], regs[srv], c, pat))
    /\ psconn' = [psconn EXCEPT ![c].flag = TRUE]
    /\ UNCHANGED <<events, wanted>>

\* Each command counts the subscriptions of its own registry only.
LeavesContext(s) == Count(s) = 0

\* (CRDT.)UNSUBSCRIBE and (CRDT.)PUNSUBSCRIBE, of one or of all.
unsubscribeCommand(srv, c) ==
    /\ psconn[c].alive
    /\ \E r \in {pubsubUnsubscribeChannel(subs[srv][c], regs[srv], c, ch) : ch \in Channels}
                \cup {pubsubUnsubscribePattern(subs[srv][c], regs[srv], c, pat) : pat \in PubPatterns}
                \cup {pubsubUnsubscribeAllChannels(subs[srv][c], regs[srv], c),
                      pubsubUnsubscribeAllPatterns(subs[srv][c], regs[srv], c)} :
          /\ Becomes(srv, c, r)
          /\ psconn' = [psconn EXCEPT ![c].flag = @ /\ ~LeavesContext(r.s)]
    /\ UNCHANGED <<events, wanted>>

\* freeClient takes the client out of both registries.
freeClient(c) ==
    LET end == [srv \in Srvs |-> LET r == pubsubUnsubscribeAllChannels(subs[srv][c], regs[srv], c)
                                 IN pubsubUnsubscribeAllPatterns(r.s, r.reg, c)]
    IN /\ subs' = [srv \in Srvs |-> [subs[srv] EXCEPT ![c] = end[srv].s]]
       /\ regs' = [srv \in Srvs |-> end[srv].reg]
       /\ psconn' = [psconn EXCEPT ![c] = [alive |-> FALSE, flag |-> FALSE]]
       /\ told' = None

Close(c) == psconn[c].alive /\ freeClient(c) /\ UNCHANGED <<events, wanted>>

\* clientsCronHandleTimeout spares the clients that are flagged.
IdleTimeout(c) ==
    /\ psconn[c].alive /\ ~psconn[c].flag
    /\ freeClient(c)
    /\ UNCHANGED <<events, wanted>>

Connect(c) ==
    /\ ~psconn[c].alive
    /\ psconn' = [psconn EXCEPT ![c].alive = TRUE]
    /\ told' = None
    /\ UNCHANGED <<subs, regs, events, wanted>>

-----------------------------------------------------------------------------
(* Publishing. *)

\* The messages a publication adds to the clients' replies.
pubsubPublishMessage(srv, ch) ==
    [i \in 1..Len(ClientsOf(regs[srv], ch)) |-> <<ClientsOf(regs[srv], ch)[i], ch>>]
    \o SelectSeq([i \in 1..Len(regs[srv].pats) |-> <<regs[srv].pats[i][1], regs[srv].pats[i][2], ch>>],
                 LAMBDA m : stringmatchlen(m[2], ch, FALSE))

Published(srv, ch) == [kind |-> srv, c |-> 0, n |-> Len(pubsubPublishMessage(srv, ch)),
                       got |-> pubsubPublishMessage(srv, ch)]

\* PUBLISH by a client that is not in the context of Pub/Sub, or by a master.
publishCommand(ch) == "server" \in Srvs /\ told' = Published("server", ch)

\* RM_CrdtPubsubPublishMessage
RM_CrdtPubsubPublishMessage(ch) == "crdt" \in Srvs /\ told' = Published("crdt", ch)

Publish ==
    /\ \E ch \in Channels : publishCommand(ch) \/ RM_CrdtPubsubPublishMessage(ch)
    /\ UNCHANGED <<subs, regs, psconn, events, wanted>>

\* keyspaceEventsStringToFlags: "A" is all the classes, an unknown letter an error.
StringToFlags(s) ==
    UNION {IF s[i] = "A" THEN Classes ELSE {s[i]} : i \in 1..Len(s)}

InOrder == <<"g", "$", "l", "s", "h", "z", "x", "e">>
Letters(flags, order) == SelectSeq(order, LAMBDA l : l \in flags)

FlagsToString(flags) ==
    (IF Classes \subseteq flags THEN <<"A">> ELSE Letters(flags, InOrder))
    \o Letters(flags, <<"K", "E">>)

ConfigSet(s) ==
    /\ StringToFlags(s) \subseteq Classes \cup {"K", "E"}
    /\ events' = StringToFlags(s) /\ wanted' = StringToFlags(s)
    /\ told' = None
    /\ UNCHANGED <<subs, regs, psconn>>

\* CONFIG REWRITE, and the file read at the next start: nobody is connected.
RewriteAndRestart ==
    /\ events' = StringToFlags(FlagsToString(events))
    /\ subs' = [srv \in Srvs |-> [c \in Subs |-> NoSubs]]
    /\ regs' = [srv \in Srvs |-> [chans |-> <<>>, pats |-> <<>>]]
    /\ psconn' = [c \in Subs |-> [alive |-> FALSE, flag |-> FALSE]]
    /\ told' = None
    /\ UNCHANGED <<wanted>>

\* The channels __keyspace@0__:k and __keyevent@0__:e.
KeySpace(k) == <<75, 48, k>>
KeyEvent == <<69, 48>>

notifyKeyspaceEvent(type, k) ==
    LET of == IF type \notin events THEN <<>>
              ELSE (IF "K" \in events THEN pubsubPublishMessage("server", KeySpace(k)) ELSE <<>>)
                   \o (IF "E" \in events THEN pubsubPublishMessage("server", KeyEvent) ELSE <<>>)
    IN /\ "server" \in Srvs
       /\ told' = [kind |-> "event", c |-> k, n |-> type, got |-> of]
       /\ UNCHANGED <<subs, regs, psconn, events, wanted>>

PubSubNext ==
    \/ \E srv \in Srvs, c \in Subs : subscribeCommand(srv, c) \/ unsubscribeCommand(srv, c)
    \/ \E c \in Subs : Close(c) \/ IdleTimeout(c) \/ Connect(c)
    \/ Publish \/ RewriteAndRestart
    \/ \E s \in Configs : ConfigSet(s)
    \/ \E type \in {"g", "e"}, k \in EventKeys : notifyKeyspaceEvent(type, k)

PubSubSpec == PubSubInit /\ [][PubSubNext]_pubVars

-----------------------------------------------------------------------------
(* Properties. *)

\* A registry holds no client twice and none that is gone, and leaves out none
\* that subscribed: what pubsubUnsubscribeChannel asserts, and freeClient relies
\* on before the client's memory is reused.
RegistriesAgree ==
    \A srv \in Srvs :
        /\ \A ch \in DOMAIN regs[srv].chans : regs[srv].chans[ch] # <<>>
        /\ \A ch \in Channels, c \in Subs :
               Len(SelectSeq(ClientsOf(regs[srv], ch), LAMBDA x : x = c))
                   = IF psconn[c].alive /\ ch \in subs[srv][c].chans THEN 1 ELSE 0
        /\ \A pat \in PubPatterns, c \in Subs :
               Len(SelectSeq(regs[srv].pats, LAMBDA e : e = <<c, pat>>))
                   = IF psconn[c].alive /\ Contains(subs[srv][c].pats, pat) THEN 1 ELSE 0

\* What client c is due when a message is published to ch.
Due(srv, c, ch) ==
    (IF ch \in subs[srv][c].chans THEN 1 ELSE 0)
    + Cardinality({pat \in ToSet(subs[srv][c].pats) : Means(pat, ch)})

\* A key event reaches those, and only those, whose own subscriptions name its
\* channels, as often as they do, when the operator asked for its class: also
\* after the setting went through CONFIG REWRITE and a restart.
EventsReachSubscribers ==
    told.kind = "event" =>
        \A c \in Subs :
            Len(SelectSeq(told.got, LAMBDA m : m[1] = c)) =
                IF told.n \notin wanted THEN 0
                ELSE (IF "K" \in wanted THEN Due("server", c, KeySpace(told.c)) ELSE 0)
                     + (IF "E" \in wanted THEN Due("server", c, KeyEvent) ELSE 0)

\* The flag that shuts a client out of other commands is set only on a client
\* that has a subscription to leave.
FlaggedSubscribed ==
    \A c \in Subs : psconn[c].flag => \E srv \in Srvs : Count(subs[srv][c]) > 0
=============================================================================
