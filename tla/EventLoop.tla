----------------------------- MODULE EventLoop -----------------------------
(***************************************************************************)
(* The event loop that runs the Redis server (ae.c over ae_epoll.c): the   *)
(* table of file events, one round of polling and calling handlers, the    *)
(* list of time events. What the handlers do to the loop is taken from     *)
(* networking.c and replication.c: accept a client, free oneself after a   *)
(* failed read, free another client, install or remove a write handler,    *)
(* connect to the master with one procedure for both directions, resize    *)
(* the loop (CONFIG SET maxclients).                                       *)
(***************************************************************************)
EXTENDS Integers, FiniteSets, SequencesExt

CONSTANTS Fds,            \* 0 is the listening socket
          Sizes,          \* the set sizes CONFIG SET may ask for
          MaxNew,         \* clients accepted and time events added, in all
          SecMs,          \* milliseconds in a second
          Period,         \* what the time procedures return
          MaxNow
VARIABLES events,   \* descriptor -> mask, procedures and client data
          maxfd, setsize,
          timers,   \* the time events, head first
          nextId, lastTime,
          now,      \* the clock, in milliseconds
          at,       \* what the loop is doing
          alive,    \* the clients that are not freed
          accepted, \* number of clients so far
          called,   \* ghost: was what was called last freed, or called before
          due       \* ghost: the time events this pass has to call
lvars == <<events, maxfd, setsize, timers, nextId, lastTime, now, at, alive, accepted, called, due>>

ASSUME EventLoopAssumption ==
    /\ Fds \subseteq Nat /\ IsFiniteSet(Fds) /\ 0 \in Fds
    /\ Sizes \subseteq Nat \ {0}
    /\ SecMs \in Nat /\ SecMs > 1 /\ Period \in Nat \ {0}
    /\ MaxNew \in Nat /\ MaxNow \in Nat /\ 2 * SecMs <= MaxNow
-----------------------------------------------------------------------------
NoEvent == [mask |-> {}, rproc |-> "none", wproc |-> "none", client |-> 0]
Sec(t) == t \div SecMs
Ms(t) == t % SecMs

\* The table after aeCreateFileEvent: the client data is replaced.
WithEvent(ev, fd, mask, proc, client) ==
    [ev EXCEPT ![fd] = [mask |-> @.mask \cup mask, client |-> client,
                        rproc |-> IF "r" \in mask THEN proc ELSE @.rproc,
                        wproc |-> IF "w" \in mask THEN proc ELSE @.wproc]]
WithoutEvent(ev, fd, mask) == [ev EXCEPT ![fd].mask = @ \ mask]

\* The highest descriptor in use, found by the downward scan of
\* aeDeleteFileEvent when the highest goes.
LowerMaxFd(ev, fd, max) ==
    IF fd = max /\ ev[fd].mask = {}
    THEN LET used == {j \in Fds : j < max /\ ev[j].mask # {}} \cup {-1} IN CHOOSE j \in used : \A i \in used : i <= j
    ELSE max

AeCreateFileEvent(fd, mask, proc, client) ==
    /\ events' = WithEvent(events, fd, mask, proc, client)
    /\ maxfd' = IF fd > maxfd THEN fd ELSE maxfd

AeDeleteFileEvent(fd, mask) ==
    /\ events' = WithoutEvent(events, fd, mask)
    /\ maxfd' = LowerMaxFd(WithoutEvent(events, fd, mask), fd, maxfd)

AeAddMillisecondsToNow(ms) == [sec |-> Sec(now + ms), ms |-> Ms(now + ms)]
IsDue(te) == Sec(now) > te.when.sec \/ (Sec(now) = te.when.sec /\ Ms(now) >= te.when.ms)
NewTimer(ms) == [id |-> nextId, when |-> AeAddMillisecondsToNow(ms)]
\* The walk of aeDeleteTimeEvent unlinks the first event with the id.
AeDeleteTimeEvent(ts, id) == RemoveFirstMatch(ts, LAMBDA te : te.id = id)

Sooner(a, b) == a.when.sec < b.when.sec \/ (a.when.sec = b.when.sec /\ a.when.ms < b.when.ms)
AeSearchNearestTimer ==
    FoldLeft(LAMBDA n, te : IF Sooner(te, n) THEN te ELSE n, timers[1], Tail(timers))

\* The timeout of the poll: seconds and milliseconds subtracted separately,
\* each negative part replaced by 0.
PollTimeout ==
    LET te == AeSearchNearestTimer
        borrow == te.when.ms < Ms(now)
        sec == te.when.sec - Sec(now) - (IF borrow THEN 1 ELSE 0)
        ms == te.when.ms + (IF borrow THEN SecMs ELSE 0) - Ms(now)
    IN  ((IF sec < 0 THEN 0 ELSE sec) * SecMs) + ms
-----------------------------------------------------------------------------
FileIdle == [fired |-> <<>>, rfired |-> FALSE, dangling |-> FALSE]

LoopInit ==
    /\ events = WithEvent([fd \in Fds |-> NoEvent], 0, {"r"}, "accept", 0) /\ maxfd = 0
    /\ setsize \in Sizes /\ now = 2 * SecMs /\ lastTime = 2
    /\ timers = <<[id |-> 0, when |-> [sec |-> 2, ms |-> 1]]>> /\ nextId = 1
    /\ at = [step |-> "sleep", files |-> FileIdle, te |-> 0, maxId |-> 0]
    /\ alive = {0} /\ accepted = 0
    /\ called = [dead |-> FALSE, again |-> FALSE] /\ due = {}

\* beforeSleep takes time.
TimePasses ==
    /\ at.step = "sleep" /\ now < MaxNow
    /\ now' = now + 1
    /\ UNCHANGED <<events, maxfd, setsize, timers, nextId, lastTime, at, alive, accepted, called, due>>

\* The clock is set back by a second.
ClockSetBack ==
    /\ at.step = "sleep" /\ now >= 2 * SecMs
    /\ now' = now - SecMs
    /\ UNCHANGED <<events, maxfd, setsize, timers, nextId, lastTime, at, alive, accepted, called, due>>

\* epoll_wait reports descriptors that are ready, in any order; an error or
\* a hangup is reported as writable whatever was asked for.
AeApiPoll ==
    /\ at.step = "sleep"
    /\ \E S \in SUBSET {fd \in Fds : events[fd].mask # {}} :
       \E masks \in [S -> {{"r"}, {"w"}, {"r", "w"}}], order \in SetToSeqs(S), ms \in 0..PollTimeout :
        /\ \A fd \in S : "r" \in masks[fd] => "r" \in events[fd].mask
        /\ \A fd \in S : fd = 0 => masks[fd] = {"r"}
        /\ S = {} => ms = PollTimeout
        /\ now + ms <= MaxNow /\ now' = now + ms
        /\ at' = [at EXCEPT !.step = "fire", !.files = [FileIdle EXCEPT
                     !.fired = [i \in DOMAIN order |-> [fd |-> order[i], mask |-> masks[order[i]]]]]]
        /\ UNCHANGED <<events, maxfd, setsize, timers, nextId, lastTime, alive, accepted, called, due>>
-----------------------------------------------------------------------------
\* What a handler may do, as changes of the loop and of the set of clients.
Handlers == <<events, maxfd, setsize, alive, accepted>>
FreeFd == LET free == {fd \in Fds : events[fd].mask = {}} IN CHOOSE fd \in free : \A g \in free : fd <= g
FdOf(c) == CHOOSE fd \in Fds : events[fd].client = c /\ events[fd].mask # {}
Connected == {c \in alive \ {0} : \E fd \in Fds : events[fd].client = c /\ events[fd].mask # {}}

Nothing == UNCHANGED Handlers
RoomForNew == accepted + nextId <= MaxNew

\* acceptTcpHandler: a new descriptor, the lowest that is free; the event is
\* refused when the loop is too small, and the client freed.
Accept(mask, proc) ==
    /\ RoomForNew /\ \E fd \in Fds : events[fd].mask = {}
    /\ accepted' = accepted + 1 /\ UNCHANGED setsize
    /\ IF FreeFd >= setsize THEN UNCHANGED <<events, maxfd, alive>>
       ELSE /\ AeCreateFileEvent(FreeFd, mask, proc, accepted + 1)
            /\ alive' = alive \cup {accepted + 1}

\* freeClient deletes both events; the descriptor is closed.
Free(c) ==
    /\ AeDeleteFileEvent(FdOf(c), {"r", "w"}) /\ alive' = alive \ {c} /\ UNCHANGED <<setsize, accepted>>

InstallWrite(c) ==
    /\ "w" \notin events[FdOf(c)].mask
    /\ AeCreateFileEvent(FdOf(c), {"w"}, "write", c) /\ UNCHANGED <<setsize, alive, accepted>>
RemoveWrite(c) == AeDeleteFileEvent(FdOf(c), {"w"}) /\ UNCHANGED <<setsize, alive, accepted>>

AeResizeSetSize(n) ==
    /\ n # setsize /\ maxfd < n
    /\ setsize' = n
    /\ events' = [fd \in Fds |-> IF fd > maxfd THEN NoEvent ELSE events[fd]]
    /\ UNCHANGED <<maxfd, alive, accepted>>

\* A procedure called for client c because its descriptor is readable; resized
\* says whether it was CONFIG SET maxclients, which only enlarges the table.
SyncHandler(c) == Nothing \/ RemoveWrite(c) \/ Free(c)
ReadHandler(proc, c, resized) ==
    \/ proc = "accept" /\ ~resized /\ (Accept({"r"}, "read") \/ Nothing)
    \/ proc = "read" /\ ~resized /\ (Nothing \/ \E d \in Connected : Free(d) \/ InstallWrite(d))
    \/ proc = "read" /\ resized /\ \E n \in Sizes : n > setsize /\ AeResizeSetSize(n)
    \/ proc = "sync" /\ ~resized /\ SyncHandler(c)
WriteHandler(proc, c) ==
    \/ proc = "write" /\ (Nothing \/ RemoveWrite(c) \/ Free(c))
    \/ proc = "sync" /\ SyncHandler(c)
-----------------------------------------------------------------------------
Fired == at.files.fired[1]
\* fe points to the entry of the table, or, Dangling, into the memory that the
\* table had before zrealloc moved it.
Fe == events[Fired.fd]
Dangling == at.files.dangling
NextFired == [at EXCEPT !.step = "fire", !.files = [FileIdle EXCEPT !.fired = Tail(at.files.fired)]]
Calling(c, again) == called' = [dead |-> c \notin alive, again |-> again]
LoopOnly == <<timers, nextId, lastTime, now, due>>

\* The two halves of a fired event. The mask of the table is consulted: an
\* earlier handler may have removed the event.
\* Mutant: the fired mask alone decides.
ReadsBlindly == "r" \in Fired.mask
Reads == "r" \in Fired.mask /\ "r" \in Fe.mask
Writes == "w" \in Fired.mask /\ "w" \in Fe.mask

FireRead ==
    /\ at.step = "fire" /\ at.files.fired # <<>>
    /\ \/ /\ ~Reads /\ UNCHANGED <<events, maxfd, setsize, alive, accepted, called>>
          /\ at' = [at EXCEPT !.step = "write"]
       \/ /\ Reads
          /\ Calling(Fe.client, FALSE)
          /\ \E resized, moved \in BOOLEAN :
                /\ moved => resized
                /\ ReadHandler(Fe.rproc, Fe.client, resized)
                /\ at' = [at EXCEPT !.step = "write", !.files.rfired = TRUE, !.files.dangling = moved]
    /\ UNCHANGED LoopOnly

\* Mutant: the same procedure is called for both directions.
WritesAlways == Writes
CallsWrite == Writes /\ (~at.files.rfired \/ Fe.wproc # Fe.rproc)

FireWrite ==
    /\ at.step = "write" /\ ~Dangling
    /\ \/ ~CallsWrite /\ UNCHANGED <<events, maxfd, setsize, alive, accepted, called>>
       \/ /\ CallsWrite
          /\ Calling(Fe.client, at.files.rfired /\ Fe.wproc = Fe.rproc)
          /\ WriteHandler(Fe.wproc, Fe.client)
    /\ at' = NextFired
    /\ UNCHANGED LoopOnly

\* The write half through a dangling fe: the bit read from the freed memory is
\* clear, or the read fails, or whatever is found there is called with whatever
\* is found there. The model does not follow a process further that does that.
FireDangling ==
    /\ at.step = "write" /\ Dangling
    /\ \/ at' = NextFired /\ UNCHANGED called
       \/ at' = [at EXCEPT !.step = "lost"] /\ called' = [dead |-> TRUE, again |-> TRUE]
    /\ UNCHANGED <<Handlers, LoopOnly>>
-----------------------------------------------------------------------------
\* processTimeEvents. A clock that went back makes every event due.
\* Mutant: it does not.
ClockLooksRight == FALSE
ClockWentBack == Sec(now) < lastTime

StartPass ==
    /\ at.step = "fire" /\ at.files.fired = <<>>
    /\ timers' = IF ClockWentBack THEN [i \in DOMAIN timers |-> [timers[i] EXCEPT !.when.sec = 0]] ELSE timers
    /\ due' = {timers[i].id : i \in {j \in DOMAIN timers : Sec(now) < lastTime \/ IsDue(timers[j])}}
    /\ lastTime' = Sec(now)
    /\ at' = [at EXCEPT !.step = "timers", !.te = 1, !.maxId = nextId - 1]
    /\ UNCHANGED <<events, maxfd, setsize, nextId, now, alive, accepted, called>>

OfThisPass(te) == te.id <= at.maxId

PassOver(te) ==
    /\ at.step = "timers" /\ at.te <= Len(timers) /\ te = timers[at.te]
    /\ ~OfThisPass(te) \/ ~IsDue(te)
    /\ at' = [at EXCEPT !.te = @ + 1]
    /\ UNCHANGED <<events, maxfd, setsize, timers, nextId, lastTime, now, alive, accepted, called, due>>

\* A time procedure runs: serverCron reconnects to the master, others may
\* add or delete time events. It is put off by its result or deleted; the
\* list is read again from its head.
CallTimer(te) ==
    /\ at.step = "timers" /\ at.te <= Len(timers) /\ te = timers[at.te]
    /\ OfThisPass(te) /\ IsDue(te)
    /\ \E more \in BOOLEAN, adds \in BOOLEAN, victim \in {-1} \cup ({timers[i].id : i \in DOMAIN timers} \ {0, te.id}) :
         LET added == IF adds THEN <<NewTimer(0)>> \o timers ELSE timers
             kept == AeDeleteTimeEvent(added, victim)
         IN  /\ (te.id = 0 => more) /\ (adds => RoomForNew)
             /\ nextId' = IF adds THEN nextId + 1 ELSE nextId
             /\ timers' = IF more THEN [i \in DOMAIN kept |-> IF kept[i].id = te.id
                                                              THEN [te EXCEPT !.when = AeAddMillisecondsToNow(Period)]
                                                              ELSE kept[i]]
                          ELSE AeDeleteTimeEvent(kept, te.id)
             /\ due' = due \ {te.id, victim}
    /\ \/ Nothing
       \/ te.id = 0 /\ Accept({"r", "w"}, "sync")
    /\ called' = [called EXCEPT !.again = te.id > at.maxId, !.dead = FALSE]
    /\ at' = [at EXCEPT !.te = 1]
    /\ UNCHANGED <<lastTime, now>>

EndPass ==
    /\ at.step = "timers" /\ at.te > Len(timers)
    /\ at' = [at EXCEPT !.step = "sleep", !.te = 0, !.maxId = 0]
    /\ UNCHANGED <<events, maxfd, setsize, timers, nextId, lastTime, now, alive, accepted, called, due>>

LoopNext ==
    \/ TimePasses \/ ClockSetBack \/ AeApiPoll \/ FireRead \/ FireWrite \/ FireDangling \/ StartPass
    \/ \E i \in DOMAIN timers : PassOver(timers[i]) \/ CallTimer(timers[i])
    \/ EndPass

LoopSpec == LoopInit /\ [][LoopNext]_lvars
-----------------------------------------------------------------------------
\* Type invariant; maxfd, which decides whether the loop polls at all and
\* what a resize may cut off, is the highest descriptor with an event.
LoopTypeOK ==
    /\ \A fd \in Fds : events[fd].mask \subseteq {"r", "w"} /\ events[fd].client \in 0..MaxNew
    /\ maxfd \in Fds /\ setsize \in Sizes /\ maxfd < setsize
    /\ events[maxfd].mask # {} /\ \A fd \in Fds : fd > maxfd => events[fd].mask = {}
    /\ now \in 0..MaxNow /\ at.step \in {"sleep", "fire", "write", "timers", "lost"}

\* The process has not acted on what it read from the memory of a table that
\* moved. Nothing is promised of one that has: the two properties below except
\* it (aeProcessEvents does not set fe again after the read handler, and CONFIG
\* SET maxclients may have moved the table).
Followed == at.step # "lost"

\* No handler is called for a client that was freed: not for an event that
\* fired before another handler freed its client, nor for a descriptor that
\* has gone to a new client in the meantime.
LiveHandlersOnly == Followed => ~called.dead

\* A procedure is called at most once for a fired event, and a time event
\* that was registered by a handler of the pass is not run in that pass.
CalledOnce == Followed => ~called.again

\* When a pass over the time events ends, every event that was due at its
\* start, all of them if the clock was seen to go back by a second, has been
\* called or deleted, although handlers added and deleted events meanwhile.
PassComplete == at.step = "sleep" => due = {}

=============================================================================
