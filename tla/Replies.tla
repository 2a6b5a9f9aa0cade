------------------------------- MODULE Replies -------------------------------
(***************************************************************************)
(* What Redis sends its clients (networking.c) and its publications        *)
(* (pubsub.c): the static buffer and the list of reply objects, the length *)
(* that is filled in afterwards, partial writes, the limits of the output  *)
(* buffer and the clients that are closed later, and the two sides of      *)
(* every subscription.  A reply is a sequence of bytes; here all bytes of  *)
(* a reply are its number.                                                 *)
(***************************************************************************)
EXTENDS Integers, Sequences, SequencesExt, FiniteSets, FiniteSetsExt

CONSTANTS
    Conns,          \* connections
    Channels,
    Patterns,
    Matches,        \* pairs of a pattern and a channel: stringmatchlen
    BufSize,        \* REDIS_REPLY_CHUNK_BYTES: the static buffer and a chunk
    EmbstrSize,     \* REDIS_ENCODING_EMBSTR_SIZE_LIMIT
    NodeSize,       \* what a list node costs
    HardLimit,      \* client-output-buffer-limit of the pubsub class; other clients have none
    SoftLimit,
    SoftSeconds,
    MaxConns,       \* maxclients
    Lengths,        \* the lengths of replies and messages
    MaxReplies,     \* bound on the number of replies
    MaxSeconds      \* bound on the clock

ASSUME RepliesAssumption == NodeSize > 0 /\ HardLimit > 0 /\ SoftLimit > 0 /\ Matches \subseteq Patterns \X Channels

VARIABLES
    conn,       \* a client: its buffers, flags, subscriptions and what it was sent
    subs,       \* pubsub_channels and pubsub_patterns of the server
    toClose,    \* clients_to_close
    clock,      \* unixtime
    replies     \* the number of replies so far

wvars == <<conn, subs, toClose, clock, replies>>

\* createClient.
NewConn == [open |-> TRUE, buf |-> <<>>, list |-> <<>>, sentlen |-> 0, bytes |-> 0, handler |-> FALSE,
            asap |-> FALSE, closing |-> FALSE, pubsub |-> FALSE, soft |-> 0, channels |-> {}, patterns |-> <<>>,
            got |-> <<>>, added |-> <<>>]
Closed == [NewConn EXCEPT !.open = FALSE]

\* An object of the reply list: its bytes, and whether it is a raw string that can grow.
\* A length that is not known yet has no bytes.
Node(data) == [data |-> data, raw |-> Len(data) > EmbstrSize]
NoData == [data |-> <<>>, raw |-> FALSE]

-----------------------------------------------------------------------------
(* The limits.                                                             *)

\* getClientOutputBufferMemoryUsage.
Usage(c) == c.bytes + NodeSize * Len(c.list)

\* checkClientOutputBufferLimits and asyncCloseClientOnOutputBufferLimitReached: the soft
\* limit counts from the first check that found it reached.
OverLimit(c) ==
    c.pubsub /\ \/ Usage(c) >= HardLimit
                \/ Usage(c) >= SoftLimit /\ c.soft # 0 /\ clock - c.soft > SoftSeconds

CheckLimits(c) ==
    IF c.bytes = 0 \/ c.asap THEN c
    ELSE [c EXCEPT !.asap = OverLimit(c),
                   !.soft = IF ~(c.pubsub /\ Usage(c) >= SoftLimit) THEN 0 ELSE IF @ = 0 THEN clock ELSE @]

-----------------------------------------------------------------------------
(* Adding to the output.                                                   *)

\* prepareClientToWrite: the handler is there already unless nothing was waiting.
PrepareClientToWrite(c) == IF c.buf = <<>> /\ c.list = <<>> THEN [c EXCEPT !.handler = TRUE] ELSE c

\* The list takes the reply though the last object had room; its size is not counted anew.
AddToListUncounted(c, data) ==
    LET tail == c.list[Len(c.list)]
    IN  CheckLimits(
          IF c.list # <<>> /\ tail.raw /\ Len(tail.data) + Len(data) <= BufSize
          THEN [c EXCEPT !.list[Len(c.list)].data = @ \o data]
          ELSE [c EXCEPT !.list = Append(@, Node(data)), !.bytes = @ + Len(data)])

\* _addReplyObjectToList, _addReplySdsToList, _addReplyStringToList: onto the last object
\* if it can grow and has room.
AddToList(c, data) ==
    LET tail == c.list[Len(c.list)]
    IN  CheckLimits(
          IF c.list # <<>> /\ tail.raw /\ Len(tail.data) + Len(data) <= BufSize
          THEN [c EXCEPT !.list[Len(c.list)].data = @ \o data, !.bytes = @ + Len(data)]
          ELSE [c EXCEPT !.list = Append(@, Node(data)), !.bytes = @ + Len(data)])

\* The buffer takes what fits, though earlier replies wait in the list.
AddReplyOvertaking(c, data) ==
    LET p == PrepareClientToWrite(c)
        kept == [p EXCEPT !.added = @ \o data]
    IN  IF p.closing THEN p
        ELSE IF Len(p.buf) + Len(data) <= BufSize THEN [kept EXCEPT !.buf = @ \o data]
        ELSE AddToList(kept, data)

\* addReply: the static buffer, unless the list is in use or there is no room.  A client
\* that is being closed gets no more.
AddReply(c, data) ==
    LET p == PrepareClientToWrite(c)
        kept == [p EXCEPT !.added = @ \o data]
    IN  IF p.closing THEN p
        ELSE IF p.list = <<>> /\ Len(p.buf) + Len(data) <= BufSize THEN [kept EXCEPT !.buf = @ \o data]
        ELSE AddToList(kept, data)

\* addDeferredMultiBulkLength, the elements, and setDeferredMultiBulkLength: the length is
\* an object of its own in the list, filled in at the end and glued to what follows it.
AddDeferred(c, length, elements) ==
    LET p == PrepareClientToWrite(c)
        at == Len(p.list) + 1
        opened == [p EXCEPT !.list = Append(@, NoData), !.added = @ \o length]
        filled == FoldLeft(AddReply, opened, elements)
        glued == [filled EXCEPT !.list = IF at = Len(@) THEN [@ EXCEPT ![at] = [data |-> length, raw |-> TRUE]]
                                         ELSE SubSeq(@, 1, at - 1) \o <<[data |-> length \o @[at + 1].data, raw |-> TRUE]>>
                                                \o SubSeq(@, at + 2, Len(@)),
                                !.bytes = @ + Len(length)]
    IN  CheckLimits(glued)

\* sendReplyToClient: the socket takes n bytes; first the buffer, then the list.
SendOne(c) ==
    IF c.buf # <<>>
    THEN LET sent == [c EXCEPT !.sentlen = @ + 1, !.got = Append(@, c.buf[c.sentlen + 1])]
         IN  IF sent.sentlen = Len(c.buf) THEN [sent EXCEPT !.buf = <<>>, !.sentlen = 0] ELSE sent
    ELSE LET data == Head(c.list).data
             sent == [c EXCEPT !.sentlen = @ + 1, !.got = Append(@, data[c.sentlen + 1])]
         IN  IF sent.sentlen = Len(data) THEN [sent EXCEPT !.list = Tail(@), !.sentlen = 0, !.bytes = @ - Len(data)]
             ELSE sent

\* The handler is removed whenever something was sent.
SentAlways(c) == [c EXCEPT !.handler = FALSE]

\* Without more to send the handler is removed.
Sent(c) == IF c.buf = <<>> /\ c.list = <<>> THEN [c EXCEPT !.sentlen = 0, !.handler = FALSE] ELSE c

Pending(c) == FlattenSeq(<<c.buf>> \o [i \in DOMAIN c.list |-> c.list[i].data])

-----------------------------------------------------------------------------
(* Subscriptions.  s is conn, subs and replies in one record.              *)

State == [conn |-> conn, subs |-> subs, replies |-> replies]
Becomes2(s) == conn' = s.conn /\ subs' = s.subs /\ replies' = s.replies /\ s.replies <= MaxReplies

Numbered(n, k) == [i \in 1 .. n |-> k]

\* The client is told of each of its subscriptions.
Notify(s, w) == [s EXCEPT !.conn[w] = AddReply(@, Numbered(1, s.replies)), !.replies = @ + 1]

\* clientSubscriptionsCount.
SubscriptionsCount(c) == Cardinality(c.channels) + Len(c.patterns)

\* pubsubSubscribeChannel and pubsubSubscribePattern.
SubscribeChannel(s, w, ch) ==
    Notify(IF ch \in s.conn[w].channels THEN s
           ELSE [s EXCEPT !.conn[w].channels = @ \cup {ch}, !.subs.channels[ch] = Append(@, w)], w)
SubscribePattern(s, w, pat) ==
    Notify(IF pat \in ToSet(s.conn[w].patterns) THEN s
           ELSE [s EXCEPT !.conn[w].patterns = Append(@, pat), !.subs.patterns = Append(@, <<w, pat>>)], w)

\* pubsubUnsubscribeChannel and pubsubUnsubscribePattern.
UnsubscribeChannel(s, w, ch) ==
    IF ch \notin s.conn[w].channels THEN s
    ELSE [s EXCEPT !.conn[w].channels = @ \ {ch}, !.subs.channels[ch] = SelectSeq(@, LAMBDA x : x # w)]
UnsubscribePattern(s, w, pat) ==
    IF pat \notin ToSet(s.conn[w].patterns) THEN s
    ELSE [s EXCEPT !.conn[w].patterns = SelectSeq(@, LAMBDA x : x # pat),
                   !.subs.patterns = SelectSeq(@, LAMBDA x : x # <<w, pat>>)]

\* pubsubUnsubscribeAllChannels and pubsubUnsubscribeAllPatterns; one that has none is
\* told so if it is to be told at all.
UnsubscribeAllChannels(s, w, notify) ==
    LET none == s.conn[w].channels = {}
        One(t, ch) == LET u == UnsubscribeChannel(t, w, ch) IN IF notify THEN Notify(u, w) ELSE u
    IN  IF none /\ notify THEN Notify(s, w) ELSE FoldLeft(One, s, SetToSeq(s.conn[w].channels))
UnsubscribeAllPatterns(s, w, notify) ==
    LET none == s.conn[w].patterns = <<>>
        One(t, pat) == LET u == UnsubscribePattern(t, w, pat) IN IF notify THEN Notify(u, w) ELSE u
    IN  IF none /\ notify THEN Notify(s, w) ELSE FoldLeft(One, s, s.conn[w].patterns)

\* The patterns are left behind.
FreeKeepsPatterns(s, w) == [UnsubscribeAllChannels(s, w, FALSE) EXCEPT !.conn[w] = Closed]

\* freeClient.
FreeConn(s, w) ==
    [UnsubscribeAllPatterns(UnsubscribeAllChannels(s, w, FALSE), w, FALSE) EXCEPT !.conn[w] = Closed]

Live == {w \in Conns : conn[w].open}

\* freeClientAsync queues the clients that were found to be over a limit.
Queued == toClose' = toClose \o SetToSeq({w \in Conns : conn'[w].asap /\ w \notin ToSet(toClose)})

-----------------------------------------------------------------------------
RepliesInit ==
    /\ conn = [w \in Conns |-> Closed]
    /\ subs = [channels |-> [ch \in Channels |-> <<>>], patterns |-> <<>>]
    /\ toClose = <<>> /\ clock = 1 /\ replies = 0

\* acceptCommonHandler: one client too many is freed at once.
Accept(w) ==
    /\ ~conn[w].open /\ Cardinality(Live) < MaxConns
    /\ conn' = [conn EXCEPT ![w] = NewConn]
    /\ UNCHANGED <<subs, toClose, clock, replies>>

Serving(w) == conn[w].open /\ ~conn[w].closing

\* A command with an ordinary reply.
Reply(w, n) ==
    /\ Serving(w)
    /\ Becomes2([State EXCEPT !.conn[w] = AddReply(@, Numbered(n, replies)), !.replies = @ + 1])
    /\ Queued /\ UNCHANGED clock

\* A command whose reply begins with the number of its elements, which it counts.
ReplyDeferred(w, n) ==
    /\ Serving(w)
    /\ Becomes2([State EXCEPT !.conn[w] = AddDeferred(@, Numbered(1, replies), <<Numbered(n, replies + 1)>>),
                              !.replies = @ + 2])
    /\ Queued /\ UNCHANGED clock

\* subscribeCommand and psubscribeCommand.
Subscribe(w, ch) ==
    /\ Serving(w)
    /\ Becomes2([SubscribeChannel(State, w, ch) EXCEPT !.conn[w].pubsub = TRUE])
    /\ Queued /\ UNCHANGED clock
Psubscribe(w, pat) ==
    /\ Serving(w)
    /\ Becomes2([SubscribePattern(State, w, pat) EXCEPT !.conn[w].pubsub = TRUE])
    /\ Queued /\ UNCHANGED clock

\* unsubscribeCommand and punsubscribeCommand, of one or of all.
Unsubscribed(s, w) == [s EXCEPT !.conn[w].pubsub = @ /\ SubscriptionsCount(s.conn[w]) > 0]
Unsubscribe(w) ==
    /\ Serving(w)
    /\ \/ \E ch \in Channels : Becomes2(Unsubscribed(Notify(UnsubscribeChannel(State, w, ch), w), w))
       \/ \E pat \in Patterns : Becomes2(Unsubscribed(Notify(UnsubscribePattern(State, w, pat), w), w))
       \/ Becomes2(Unsubscribed(UnsubscribeAllChannels(State, w, TRUE), w))
       \/ Becomes2(Unsubscribed(UnsubscribeAllPatterns(State, w, TRUE), w))
    /\ Queued /\ UNCHANGED clock

\* pubsubPublishMessage: once for the channel, once for every pattern that matches it.
Receivers(ch) ==
    LET matching == SelectSeq(subs.patterns, LAMBDA e : <<e[2], ch>> \in Matches)
    IN  subs.channels[ch] \o [i \in DOMAIN matching |-> matching[i][1]]

\* publishCommand; whoever publishes is not one of these clients.
Publish(ch, n) ==
    /\ Receivers(ch) # <<>>
    /\ LET Deliver(s, w) == [s EXCEPT !.conn[w] = AddReply(@, Numbered(n, replies))]
       IN  Becomes2([FoldLeft(Deliver, State, Receivers(ch)) EXCEPT !.replies = @ + 1])
    /\ Queued /\ UNCHANGED clock

\* QUIT and CLIENT KILL of oneself: closed when all is sent.
CloseAfterReply(w) ==
    /\ conn[w].open /\ ~conn[w].closing /\ conn[w].handler
    /\ conn' = [conn EXCEPT ![w].closing = TRUE]
    /\ UNCHANGED <<subs, toClose, clock, replies>>

\* The socket is writable and takes n bytes.
Write(w, n) ==
    /\ conn[w].open /\ conn[w].handler /\ n <= Len(Pending(conn[w])) - conn[w].sentlen
    /\ LET c == Sent(FoldLeft(LAMBDA acc, i : SendOne(acc), conn[w], Numbered(n, 1)))
           s == [State EXCEPT !.conn[w] = c]
       IN  IF ~c.handler /\ c.closing
           THEN Becomes2(FreeConn(s, w)) /\ toClose' = SelectSeq(toClose, LAMBDA x : x # w)
           ELSE Becomes2(s) /\ UNCHANGED toClose
    /\ UNCHANGED clock

\* The peer is gone, another client kills it, or it was idle for too long, which
\* clientsCronHandleTimeout asks of clients without subscriptions only.
Drop(w) ==
    /\ conn[w].open
    /\ Becomes2(FreeConn(State, w))
    /\ toClose' = SelectSeq(toClose, LAMBDA x : x # w)
    /\ UNCHANGED clock

\* freeClientsInAsyncFreeQueue, by serverCron, and the clock.
FreeQueued ==
    /\ toClose # <<>>
    /\ Becomes2(FoldLeft(FreeConn, State, toClose))
    /\ toClose' = <<>>
    /\ UNCHANGED clock
SecondPasses == /\ clock < MaxSeconds
        /\ clock' = clock + 1
        /\ UNCHANGED <<conn, subs, toClose, replies>>

RepliesNext ==
    \/ \E w \in Conns : Accept(w) \/ CloseAfterReply(w) \/ Drop(w) \/ Unsubscribe(w)
    \/ \E w \in Conns : \E n \in Lengths : Reply(w, n) \/ ReplyDeferred(w, n) \/ Write(w, n)
    \/ \E w \in Conns : \E ch \in Channels : Subscribe(w, ch)
    \/ \E w \in Conns : \E pat \in Patterns : Psubscribe(w, pat)
    \/ \E ch \in Channels : \E n \in Lengths : Publish(ch, n)
    \/ FreeQueued \/ SecondPasses

RepliesSpec == RepliesInit /\ [][RepliesNext]_wvars

-----------------------------------------------------------------------------
\* Types; a client is queued to be closed just when it is marked, once, and the static
\* buffer keeps its size.
RepliesTypeOK ==
    /\ IsInjective(toClose) /\ ToSet(toClose) = {w \in Conns : conn[w].open /\ conn[w].asap}
    /\ clock \in 1 .. MaxSeconds /\ replies \in 0 .. MaxReplies
    /\ \A w \in Conns : Len(conn[w].buf) <= BufSize /\ conn[w].bytes >= 0

\* A client is sent the bytes of its replies in order, none twice and none left out,
\* through the buffer, the list, lengths filled in later and writes that take a part.
RepliesInOrder ==
    \A w \in Conns :
        LET c == conn[w] IN c.added = c.got \o SubSeq(Pending(c), c.sentlen + 1, Len(Pending(c)))

\* reply_bytes is the size of the list, which the limits are held against.
BytesCounted ==
    \A w \in Conns : conn[w].bytes = FoldLeft(LAMBDA n, e : n + Len(e.data), 0, conn[w].list)

\* Whoever has something to be sent has its write handler, or it would never be sent.
HandlerInstalled == \A w \in Conns : Pending(conn[w]) # <<>> => conn[w].handler

\* The server's tables and the clients' own agree: nobody publishes to a client that is
\* gone, and a client that counts as a subscriber is one.
SubscriptionsAgree ==
    /\ \A ch \in Channels : IsInjective(subs.channels[ch])
                            /\ ToSet(subs.channels[ch]) = {w \in Conns : ch \in conn[w].channels}
    /\ IsInjective(subs.patterns)
    /\ ToSet(subs.patterns) = {p \in Conns \X Patterns : p[2] \in ToSet(conn[p[1]].patterns)}
    /\ \A w \in Conns : conn[w].pubsub <=> SubscriptionsCount(conn[w]) > 0

=============================================================================
