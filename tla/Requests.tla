------------------------------ MODULE Requests ------------------------------
(***************************************************************************)
(* How Redis reads the requests of its clients (networking.c, blocked.c):  *)
(* bytes that arrive in pieces, the parser of inline and of multi bulk     *)
(* requests that is resumed with every piece, the clients that are paused  *)
(* or blocked while their bytes pile up, and the list of clients whose     *)
(* buffer is looked at again before the event loop sleeps.                 *)
(***************************************************************************)
EXTENDS Integers, Sequences, SequencesExt, FiniteSets

CONSTANTS
    Peers,          \* the clients
    Sendings,       \* what they send: functions from Peers to [bytes, commands]
    BigArg,         \* REDIS_MBULK_BIG_ARG
    InlineMax,      \* REDIS_INLINE_MAX_SIZE
    MaxQuery,       \* client_max_querybuf_len
    MaxMultibulk,   \* the largest number of arguments: 1024*1024 in the code
    MaxClock        \* bound on the clock

ASSUME RequestsAssumption == BigArg > 0 /\ MaxClock \in Nat

VARIABLES
    peer,       \* a client: its bytes under way, its query buffer, its parser, its flags
    pausing,    \* clients_paused, clients_pause_end_time and the cached clock mstime
    unblocked,  \* unblocked_clients
    round       \* where the event loop is, and the clients read in this iteration

qvars == <<peer, pausing, unblocked, round>>

CR == "\r"
LF == "\n"
Digits == [d \in {"0", "1", "2", "3", "4", "5", "6", "7", "8", "9"} |->
             CHOOSE n \in 0 .. 9 : <<"0", "1", "2", "3", "4", "5", "6", "7", "8", "9">>[n + 1] = d]

\* string2ll, of one digit: all that is sent here.
IsNumber(s) == Len(s) = 1 /\ s[1] \in DOMAIN Digits
Number(s) == Digits[s[1]]

\* strchr from a position on: the index, or 0.
Find1(s, from, ch) ==
    LET at == {i \in from .. Len(s) : s[i] = ch}
    IN  IF at = {} THEN 0 ELSE CHOOSE i \in at : \A j \in at : i <= j

\* sdsrange: what follows the first n bytes.
DropFirst(s, n) == SubSeq(s, n + 1, Len(s))

\* createClient.
NewPeer(s) ==
    [wire |-> s.bytes, qb |-> <<>>, reqtype |-> "none", multi |-> 0, bulk |-> -1, argv |-> <<>>,
     blocked |-> FALSE, unblocked |-> FALSE, closing |-> FALSE, open |-> TRUE, done |-> <<>>, sent |-> s.commands]

\* resetClient, which ends a command.
ResetClient(c) == [c EXCEPT !.argv = <<>>, !.reqtype = "none", !.multi = 0, !.bulk = -1]

\* setProtocolError: the client is closed once the error has been sent.
SetProtocolError(c, pos) == [c EXCEPT !.closing = TRUE, !.qb = DropFirst(@, pos)]

-----------------------------------------------------------------------------
(* The parsers: a client, and whether a request is complete.               *)

Ok(c) == [c |-> c, ok |-> TRUE]
Err(c) == [c |-> c, ok |-> FALSE]

\* sdssplitargs: the words of a line.
Words(line) ==
    LET Step(acc, ch) == IF ch = " " THEN Append(acc, <<>>)
                         ELSE [acc EXCEPT ![Len(acc)] = Append(@, ch)]
    IN  SelectSeq(FoldLeft(Step, <<<<>>>>, line), LAMBDA w : w # <<>>)

\* processInlineBuffer.  Two bytes end a line, whether or not the first is a carriage return.
ProcessInlineBuffer(c) ==
    LET lf == Find1(c.qb, 1, LF)
        end == IF lf > 1 /\ c.qb[lf - 1] = CR THEN lf - 2 ELSE lf - 1
    IN  IF lf = 0
        THEN Err(IF Len(c.qb) > InlineMax THEN SetProtocolError(c, 0) ELSE c)
        ELSE Ok([c EXCEPT !.argv = Words(SubSeq(c.qb, 1, end)), !.qb = DropFirst(@, end + 2)])

\* The count of a multi bulk request.
ReadCount(c) ==
    LET cr == Find1(c.qb, 1, CR)
        count == SubSeq(c.qb, 2, cr - 1)
    IN  IF cr = 0 THEN Err(IF Len(c.qb) > InlineMax THEN SetProtocolError(c, 0) ELSE c)
        ELSE IF cr > Len(c.qb) - 1 THEN Err(c)
        ELSE IF ~IsNumber(count) THEN Err(SetProtocolError(c, 0))
        ELSE IF Number(count) > MaxMultibulk THEN Err(SetProtocolError(c, 0))
        ELSE Ok([c EXCEPT !.multi = Number(count), !.qb = DropFirst(@, cr + 1)])

\* The length of an argument is read before its line is complete.
ReadLengthEarly(c) ==
    LET cr == Find1(c.qb, 1, CR)
        length == SubSeq(c.qb, 2, cr - 1)
    IN  IF cr = 0 THEN Err(IF Len(c.qb) > InlineMax THEN SetProtocolError(c, 0) ELSE c)
        ELSE IF c.qb[1] # "$" \/ ~IsNumber(length) THEN Err(SetProtocolError(c, 0))
        ELSE Ok([c EXCEPT !.bulk = Number(length), !.qb = DropFirst(@, cr + 1)])

\* The length of an argument.  The buffer is trimmed to what has been read so far, which
\* the code does when it leaves the loop.
ReadLength(c) ==
    LET cr == Find1(c.qb, 1, CR)
        length == SubSeq(c.qb, 2, cr - 1)
    IN  IF cr = 0 THEN Err(IF Len(c.qb) > InlineMax THEN SetProtocolError(c, 0) ELSE c)
        ELSE IF cr > Len(c.qb) - 1 THEN Err(c)
        ELSE IF c.qb[1] # "$" \/ ~IsNumber(length) THEN Err(SetProtocolError(c, 0))
        ELSE Ok([c EXCEPT !.bulk = Number(length), !.qb = DropFirst(@, cr + 1)])

\* An argument and the two bytes after it; a large one takes the whole buffer over.
ReadArgument(c) ==
    IF Len(c.qb) < c.bulk + 2 THEN Err(c)
    ELSE Ok([c EXCEPT !.argv = Append(@, IF c.bulk >= BigArg /\ Len(c.qb) = c.bulk + 2
                                         THEN SubSeq(c.qb, 1, Len(c.qb) - 2) ELSE SubSeq(c.qb, 1, c.bulk)),
                      !.qb = DropFirst(@, c.bulk + 2), !.bulk = -1, !.multi = @ - 1])

\* processMultibulkBuffer: what is missing is read, as far as the bytes reach.
ProcessMultibulkBuffer(c) ==
    LET start == IF c.multi = 0 THEN ReadCount(c) ELSE Ok(c)
        One(acc, i) ==
            IF ~acc.ok \/ acc.c.multi = 0 THEN acc
            ELSE LET known == IF acc.c.bulk = -1 THEN ReadLength(acc.c) ELSE acc
                 IN  IF known.ok THEN ReadArgument(known.c) ELSE known
    IN  FoldLeft(One, start, [i \in 1 .. MaxMultibulk |-> i])

-----------------------------------------------------------------------------
(* The server: peer, pausing and unblocked in one record.                  *)

InputState == [peer |-> peer, pausing |-> pausing, unblocked |-> unblocked]

\* Nobody is queued.
RequeueNobody(s) == [s EXCEPT !.pausing.on = FALSE]

\* The end of a pause: who is not blocked is queued, to look at its buffer again.
\* A client that is in the list already is put there again.
Requeue(s) ==
    LET waiting == {p \in Peers : s.peer[p].open /\ ~s.peer[p].blocked}
    IN  [s EXCEPT !.pausing.on = FALSE,
                  !.peer = [p \in Peers |-> IF p \in waiting THEN [@[p] EXCEPT !.unblocked = TRUE] ELSE @[p]],
                  !.unblocked = @ \o SetToSeq(waiting)]

\* clientsArePaused: the test ends a pause whose time has come.
ClientsArePaused(s) == IF s.pausing.on /\ s.pausing.end < s.pausing.mstime THEN Requeue(s) ELSE s

\* pauseClients, by CLIENT PAUSE: no time at all is the time zero.
PauseClients(s, end) ==
    [s EXCEPT !.pausing.end = IF ~s.pausing.on \/ end > @ THEN end ELSE @, !.pausing.on = TRUE]

\* unblockClient.
UnblockClient(s, p) ==
    [s EXCEPT !.peer[p].blocked = FALSE, !.peer[p].unblocked = TRUE, !.unblocked = Append(@, p)]

\* The commands that matter here: QUIT, which leaves the client as it is, a command that
\* blocks, and CLIENT PAUSE; any other command leaves this state alone.
ProcessCommand(s, p) ==
    LET c == s.peer[p]
        ran == [s EXCEPT !.peer[p] = ResetClient([c EXCEPT !.done = Append(@, c.argv)])]
    IN  CASE c.argv[1] = <<"q">> -> [s EXCEPT !.peer[p].done = Append(@, c.argv), !.peer[p].closing = TRUE]
          [] c.argv[1] = <<"b">> -> [ran EXCEPT !.peer[p].blocked = TRUE]
          [] c.argv[1] = <<"p">> -> PauseClients(ran, s.pausing.mstime + 1)
          [] c.argv[1] = <<"z">> -> PauseClients(ran, 0)
          [] OTHER -> ran

\* The parsers by the type of the request, which its first byte gives.
Parsed(c) ==
    IF c.reqtype = "inline" \/ (c.reqtype = "none" /\ c.qb[1] # "*")
    THEN ProcessInlineBuffer([c EXCEPT !.reqtype = "inline"])
    ELSE ProcessMultibulkBuffer([c EXCEPT !.reqtype = "multibulk"])

\* What follows the parser; more tells whether there is another turn.
Dispatched(s, p, parsed) ==
    IF ~parsed.ok \/ parsed.c.multi # 0 THEN [s |-> [s EXCEPT !.peer[p] = parsed.c], more |-> FALSE]
    ELSE IF parsed.c.argv = <<>> THEN [s |-> [s EXCEPT !.peer[p] = ResetClient(parsed.c)], more |-> TRUE]
    ELSE [s |-> ProcessCommand([s EXCEPT !.peer[p] = parsed.c], p), more |-> TRUE]

Turn(s, p) ==
    IF s.pausing.on \/ s.peer[p].blocked \/ s.peer[p].closing THEN [s |-> s, more |-> FALSE]
    ELSE Dispatched(s, p, Parsed(s.peer[p]))

\* One turn of the loop of processInputBuffer.
ProcessOne(r, p) ==
    IF ~r.more \/ r.s.peer[p].qb = <<>> THEN [r EXCEPT !.more = FALSE]
    ELSE Turn(ClientsArePaused(r.s), p)

\* processInputBuffer: a turn takes a byte at least.
ProcessInputBuffer(s, p) ==
    FoldLeft(LAMBDA r, i : ProcessOne(r, p), [s |-> s, more |-> TRUE],
             [i \in 1 .. Len(s.peer[p].qb) + 1 |-> i]).s

\* freeClient: out of the list of unblocked clients once, if it is marked as being there.
FreeClient(s, p) ==
    LET c == s.peer[p]
        t == IF c.blocked THEN UnblockClient(s, p) ELSE s
        at == {i \in DOMAIN t.unblocked : t.unblocked[i] = p}
    IN  [t EXCEPT !.peer[p] = [NewPeer([bytes |-> <<>>, commands |-> c.sent]) EXCEPT !.open = FALSE, !.done = c.done],
                  !.unblocked = IF t.peer[p].unblocked THEN RemoveAt(@, CHOOSE i \in at : \A j \in at : i <= j) ELSE @]

\* A client that is twice in the list is not freed here: freeClient would leave its other
\* entry behind, and what the server then does with the freed memory is not defined.
MayFree(s, p) == Cardinality({i \in DOMAIN s.unblocked : s.unblocked[i] = p}) <= 1

\* readQueryFromClient: how much is read at most.  A large argument is read exactly, so
\* that it can take the buffer over; nothing is left to read of it when it came during a
\* pause, and a read of no bytes is taken for the end of the connection.
ReadLimit(c) ==
    IF c.reqtype = "multibulk" /\ c.multi # 0 /\ c.bulk >= BigArg
    THEN (c.bulk + 2) - Len(c.qb) ELSE Len(c.wire)

Received(s, p, n) ==
    LET t == [s EXCEPT !.peer[p].qb = @ \o SubSeq(s.peer[p].wire, 1, n), !.peer[p].wire = DropFirst(@, n)]
    IN  IF n = 0 \/ Len(t.peer[p].qb) > MaxQuery THEN FreeClient(s, p) ELSE ProcessInputBuffer(t, p)

Becomes(s) == peer' = s.peer /\ pausing' = s.pausing /\ unblocked' = s.unblocked

-----------------------------------------------------------------------------
RequestsInit ==
    /\ \E s \in Sendings : peer = [p \in Peers |-> NewPeer(s[p])]
    /\ pausing = [on |-> FALSE, end |-> 0, mstime |-> 1]
    /\ unblocked = <<>>
    /\ round = [at |-> "before", read |-> {}]

\* A client is readable.
Read(p) ==
    /\ round.at = "events" /\ p \notin round.read /\ peer[p].open /\ peer[p].wire # <<>>
    /\ LET limit == ReadLimit(peer[p])
       IN  \E n \in {m \in 0 .. Len(peer[p].wire) : m <= limit /\ (m = 0 => limit = 0)} :
              /\ (n = 0 \/ Len(peer[p].qb) + n > MaxQuery => MayFree(InputState, p))
              /\ Becomes(Received(InputState, p, n))
    /\ round' = [round EXCEPT !.read = @ \cup {p}]

\* The peer closes the connection, or another client kills it.
Hangup(p) ==
    /\ round.at = "events" /\ peer[p].open /\ p \notin round.read /\ MayFree(InputState, p)
    /\ Becomes(FreeClient(InputState, p))
    /\ UNCHANGED round

\* A push serves a blocked client.
ServeBlocked(p) ==
    /\ round.at = "events" /\ peer[p].open /\ peer[p].blocked
    /\ Becomes(UnblockClient(InputState, p))
    /\ UNCHANGED round

\* serverCron, which ends the iteration: the clock, the blocking commands whose time is
\* over, and the pause.
Cron(timedout) ==
    /\ round.at = "events" /\ pausing.mstime < MaxClock
    /\ \A p \in timedout : peer[p].open /\ peer[p].blocked
    /\ LET ticked == [InputState EXCEPT !.pausing.mstime = @ + 1]
       IN  Becomes(ClientsArePaused(FoldLeft(UnblockClient, ticked, SetToSeq(timedout))))
    /\ round' = [at |-> "before", read |-> {}]

\* An iteration without serverCron.
NextIteration ==
    /\ round.at = "events"
    /\ \/ round.read # {}
       \/ unblocked # <<>>
    /\ round' = [at |-> "before", read |-> {}]
    /\ UNCHANGED <<peer, pausing, unblocked>>

\* processUnblockedClients, a client at a time; it runs by itself before the loop sleeps.
ProcessUnblocked ==
    /\ round.at = "before" /\ unblocked # <<>>
    /\ LET p == Head(unblocked)
           s == [InputState EXCEPT !.unblocked = Tail(@), !.peer[p].unblocked = FALSE]
       IN  Becomes(ProcessInputBuffer(s, p))
    /\ UNCHANGED round

Sleep ==
    /\ round.at = "before" /\ unblocked = <<>>
    /\ round' = [round EXCEPT !.at = "events"]
    /\ UNCHANGED <<peer, pausing, unblocked>>

RequestsNext ==
    \/ \E p \in Peers : Read(p) \/ Hangup(p) \/ ServeBlocked(p)
    \/ \E timedout \in SUBSET Peers : Cron(timedout)
    \/ NextIteration \/ ProcessUnblocked \/ Sleep

RequestsSpec == RequestsInit /\ [][RequestsNext]_qvars

-----------------------------------------------------------------------------
\* Types; a client that waits to be looked at again is marked, and an argument is awaited
\* only within a multi bulk request.
RequestsTypeOK ==
    /\ ToSet(unblocked) \subseteq Peers
    /\ round.at \in {"before", "events"} /\ round.read \subseteq Peers
    /\ \A p \in Peers :
          /\ peer[p].unblocked => p \in ToSet(unblocked)
          /\ peer[p].multi \in 0 .. MaxMultibulk
          /\ peer[p].bulk # -1 => peer[p].reqtype = "multibulk" /\ peer[p].multi > 0

\* However the bytes are cut into pieces, and whatever pauses and blocks the client, the
\* commands that run are the commands sent, in order, with the arguments sent.
CommandsExact == \A p \in Peers : IsPrefix(peer[p].done, peer[p].sent)

\* Commands that came while the client was blocked or all clients were paused are not
\* forgotten: when neither is so and the client is not about to be looked at again, all
\* that has arrived complete has run.
NothingForgotten ==
    \A p \in Peers :
        LET c == peer[p]
        IN  c.open /\ ~c.blocked /\ ~c.closing /\ ~pausing.on /\ p \notin ToSet(unblocked) /\ c.wire = <<>>
            => c.done = c.sent

=============================================================================
