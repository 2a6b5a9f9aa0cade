------------------------------ MODULE Blocking ------------------------------
(***************************************************************************)
(* The lists of a Redis server and the clients that wait for them: BLPOP,  *)
(* BRPOP and BRPOPLPUSH, on which Celery's workers wait for WeASe's mail   *)
(* tasks (t_list.c, blocked.c, the STORE part of sort.c).                  *)
(*                                                                         *)
(* An action is a whole processCommand call: the command, or the commands  *)
(* of a transaction, and then handleClientsBlockedOnLists.  Every pushed   *)
(* element has a number of its own, so that each can be followed.          *)
(***************************************************************************)
EXTENDS Integers, Sequences, FiniteSets, SequencesExt

CONSTANTS
    Waiters,     \* clients that use the blocking commands
    Lists,       \* key names
    ListCmds,    \* the commands other clients send
    Blocks,      \* Blocks[c]: the blocking commands client c may send
    MaxPush      \* bound on the elements pushed

VARIABLES
    store,       \* store[k]: the value of a key
    waiting,     \* waiting[c]: what client c is blocked on, or NotBlocked
    blocking,    \* blocking[k]: db->blocking_keys, the clients blocked on k in order
    readyKeys,   \* server.ready_keys, emptied at the end of every command
    pushed,      \* number of elements pushed so far
    served,      \* history: served[c], the elements blocking commands returned to c
    gone,        \* history: elements taken or removed by other commands
    copy         \* the keys of a replica that applied what was propagated

bvars == <<store, waiting, blocking, readyKeys, pushed, served, gone, copy>>

Nothing == [type |-> "none", items |-> <<>>]
Text == [type |-> "string", items |-> <<>>]
List(items) == IF items = <<>> THEN Nothing ELSE [type |-> "list", items |-> items]
NoKey == 0
NotBlocked == [keys |-> <<>>, where |-> "head", target |-> NoKey, timeout |-> FALSE]

\* Commands as their procedures meet them once the arguments have been counted.
ListCommands ==
    {c \in [name : {"LPUSH", "RPUSH", "LPOP", "RPOP", "RPOPLPUSH", "LTRIM", "RENAME", "DEL", "SET"},
            key : Lists, to : Lists \cup {NoKey}, items : Seq(Nat)] :
        /\ c.name \in {"RPOPLPUSH", "RENAME"} => c.to \in Lists
        /\ c.name \in {"LPUSH", "RPUSH"} <=> c.items # <<>>}

\* What blocking commands wait for; BRPOPLPUSH names one key, and takes its last element.
BlockCommands ==
    {b \in [keys : Seq(Lists), where : {"head", "tail"}, target : Lists \cup {NoKey}, timeout : BOOLEAN] :
        /\ b.keys # <<>>
        /\ b.target # NoKey => Len(b.keys) = 1 /\ b.where = "tail"}

ASSUME BlockingAssumption ==
    /\ NoKey \notin Lists /\ MaxPush \in Nat /\ IsFiniteSet(Lists) /\ IsFiniteSet(Waiters)
    /\ ListCmds \subseteq Seq(ListCommands)
    /\ \A c \in Waiters : Blocks[c] \subseteq BlockCommands

-----------------------------------------------------------------------------
(* A command works on a record: keys, blocking_keys, ready_keys, the       *)
(* commands it propagates, who waits for what and what each client got.    *)

ListState(st, bl) ==
    [store |-> st, blocking |-> bl, ready |-> <<>>, out |-> <<>>, taken |-> {}, dirty |-> FALSE,
     waiting |-> waiting, given |-> served]

SignalListWhenIdle(s, k) ==
    IF s.blocking[k] = <<>> \/ s.ready # <<>> THEN s ELSE [s EXCEPT !.ready = Append(@, k)]

SignalListAsReady(s, k) ==
    IF s.blocking[k] = <<>> \/ k \in ToSet(s.ready) THEN s ELSE [s EXCEPT !.ready = Append(@, k)]

DbAdd(s, k, v) ==
    LET t == [s EXCEPT !.store[k] = v, !.dirty = TRUE]
    IN  IF v.type = "list" THEN SignalListAsReady(t, k) ELSE t

\* An existing key is overwritten without a signal.
SetKeyTo(s, k, v) ==
    IF s.store[k].type = "none" THEN DbAdd(s, k, v) ELSE [s EXCEPT !.store[k] = v, !.dirty = TRUE]

\* listTypePush on a list that is created when it is missing.
PushTo(s, k, items, where) ==
    IF s.store[k].type = "none"
    THEN DbAdd(s, k, List(IF where = "head" THEN Reverse(items) ELSE items))
    ELSE [s EXCEPT !.store[k].items = IF where = "head" THEN Reverse(items) \o @ ELSE @ \o items,
                   !.dirty = TRUE]

\* A push to a key of another type is refused, and its elements are not stored.
Push(s, k, items, where) ==
    IF s.store[k].type = "string" THEN [s EXCEPT !.taken = @ \cup ToSet(items)]
    ELSE PushTo(s, k, items, where)

End(items, where) == IF where = "head" THEN Head(items) ELSE Last(items)
Popped(items, where) == IF where = "head" THEN Tail(items) ELSE Front(items)

Pop(s, k, where) ==
    IF s.store[k].type # "list" THEN s
    ELSE [s EXCEPT !.store[k] = List(Popped(@.items, where)),
                   !.taken = @ \cup {End(s.store[k].items, where)}, !.dirty = TRUE]

RPopLPush(s, src, dst) ==
    IF s.store[src].type # "list" \/ s.store[dst].type = "string" THEN s
    ELSE LET e == Last(s.store[src].items)
             t == PushTo(s, dst, <<e>>, "head")
         IN  [t EXCEPT !.store[src] =
                 List(IF src = dst THEN <<e>> \o Front(s.store[src].items) ELSE Front(s.store[src].items))]

\* LTRIM with its indexes already converted: `left' and `right' elements go.
LTrim(s, k, left, right) ==
    LET items == s.store[k].items
        keep == IF left + right >= Len(items) THEN <<>> ELSE SubSeq(items, left + 1, Len(items) - right)
    IN  IF s.store[k].type # "list" THEN s
        ELSE [s EXCEPT !.store[k] = List(keep), !.taken = @ \cup (ToSet(items) \ ToSet(keep)), !.dirty = TRUE]

RenameTo(s, src, dst) ==
    IF src = dst \/ s.store[src].type = "none" THEN s
    ELSE LET freed == [s EXCEPT !.store[dst] = Nothing, !.taken = @ \cup ToSet(s.store[dst].items)]
             t == DbAdd(freed, dst, s.store[src])
         IN  [t EXCEPT !.store[src] = Nothing]

Delete(s, k) ==
    [s EXCEPT !.store[k] = Nothing, !.taken = @ \cup ToSet(s.store[k].items), !.dirty = s.store[k].type # "none"]

SetText(s, k) == SetKeyTo([s EXCEPT !.taken = @ \cup ToSet(s.store[k].items)], k, Text)

ListProc(s, c) ==
    CASE c.name = "LPUSH" -> Push(s, c.key, c.items, "head")
      [] c.name = "RPUSH" -> Push(s, c.key, c.items, "tail")
      [] c.name = "LPOP" -> Pop(s, c.key, "head")
      [] c.name = "RPOP" -> Pop(s, c.key, "tail")
      [] c.name = "RPOPLPUSH" -> RPopLPush(s, c.key, c.to)
      [] c.name = "LTRIM" -> LTrim(s, c.key, 1, 0)
      [] c.name = "RENAME" -> RenameTo(s, c.key, c.to)
      [] c.name = "DEL" -> Delete(s, c.key)
      [] c.name = "SET" -> SetText(s, c.key)

LCmd(name, k, to, items) == [name |-> name, key |-> k, to |-> to, items |-> items]

CallList(s, c) ==
    LET t == ListProc([s EXCEPT !.dirty = FALSE], c)
    IN  [t EXCEPT !.out = IF t.dirty THEN Append(@, c) ELSE @]

-----------------------------------------------------------------------------
(* Serving the clients that wait.                                          *)

UnblockOne(s, c) ==
    LET k == Head(s.waiting[c].keys)
    IN  [s EXCEPT !.waiting[c] = NotBlocked, !.blocking[k] = RemoveFirst(@, c)]

\* unblockClientWaitingData: the first entry of the client in the list of every key.
Unblock(s, c) ==
    [s EXCEPT !.waiting[c] = NotBlocked,
              !.blocking = [k \in Lists |-> RemoveFirst(s.blocking[k], c)]]

PopCommandHead(w, k) == LCmd("LPOP", k, NoKey, <<>>)

\* The pop that is propagated for a client that is served.
PopCommand(w, k) == LCmd(IF w.where = "head" THEN "LPOP" ELSE "RPOP", k, NoKey, <<>>)

PutBackLost(s, t, c) == t

\* BRPOPLPUSH could not be served: the pop is undone, the client is unblocked.
PutBack(s, t, c) == Unblock(s, c)

\* serveClientBlockedOnList: the popped element goes to the client and, for
\* BRPOPLPUSH, to the target, unless that holds another type: then it is put back.
Serve(s, k, c) ==
    LET w == s.waiting[c]
        items == s.store[k].items
        e == End(items, w.where)
        t == [Unblock(s, c) EXCEPT !.store[k].items = Popped(items, w.where)]
        pop == PopCommand(w, k)
    IN  IF w.target = NoKey
        THEN [t EXCEPT !.out = Append(@, pop), !.given[c] = @ \cup {e}]
        ELSE IF s.store[w.target].type = "string" THEN PutBack(s, t, c)
        ELSE LET u == PushTo(t, w.target, <<e>>, "head")
             IN  [u EXCEPT !.out = @ \o <<pop, LCmd("LPUSH", w.target, NoKey, <<e>>)>>]

ServeLast(s, k) == Last(s.blocking[k])

ServeNext(s, k) == Head(s.blocking[k])

ServeWhileElements(s, k) ==
    IF s.store[k].items = <<>> \/ s.blocking[k] = <<>> THEN s ELSE Serve(s, k, ServeNext(s, k))

\* One key of ready_keys: its clients in the order they blocked, while there
\* are elements; a list left empty is deleted.
ServeKey(s, k) ==
    LET t == FoldLeft(LAMBDA r, c : ServeWhileElements(r, k), s, s.blocking[k])
    IN  IF s.store[k].type # "list" THEN s
        ELSE [t EXCEPT !.store[k] = List(t.store[k].items)]

ServeReady(s) ==
    IF s.ready = <<>> THEN s ELSE ServeKey([s EXCEPT !.ready = Tail(@)], Head(s.ready))

\* Serving BRPOPLPUSH may make further keys ready; each of them unblocks a client.
HandleClientsBlockedOnLists(s) ==
    FoldLeft(LAMBDA r, i : ServeReady(r), s, [i \in 1 .. Cardinality(Lists) + Cardinality(Waiters) |-> i])

\* What a replica makes of the propagated commands: it has no blocked clients.
Copied(out) ==
    FoldLeft(ListProc, ListState(copy, [k \in Lists |-> <<>>]), out).store

Finish(s) ==
    LET t == HandleClientsBlockedOnLists(s)
    IN  /\ store' = t.store /\ waiting' = t.waiting /\ blocking' = t.blocking /\ readyKeys' = t.ready
        /\ served' = t.given /\ gone' = gone \cup t.taken /\ copy' = Copied(t.out)

-----------------------------------------------------------------------------
(* Commands of clients that do not block, one by one or in a transaction.  *)

WithValues(c, from) ==
    [c EXCEPT !.items = [i \in DOMAIN c.items |-> from + i]]

Length(cmds) == FoldLeft(LAMBDA n, c : n + Len(c.items), 0, cmds)

NumberedItems(cmds) ==
    [i \in DOMAIN cmds |-> WithValues(cmds[i], pushed + Length(SubSeq(cmds, 1, i - 1)))]

Run(cmds) ==
    /\ pushed + Length(cmds) <= MaxPush
    /\ pushed' = pushed + Length(cmds)
    /\ Finish(FoldLeft(CallList, ListState(store, blocking), NumberedItems(cmds)))

-----------------------------------------------------------------------------
(* The blocking commands and the ends of a wait.                           *)

BlockForKeys(c, b) ==
    /\ waiting' = [waiting EXCEPT ![c] = b]
    /\ blocking' = [k \in Lists |-> IF k \in ToSet(b.keys) THEN Append(blocking[k], c) ELSE blocking[k]]
    /\ UNCHANGED <<store, readyKeys, pushed, served, gone, copy>>

\* BLPOP and BRPOP look at their keys in order: the first that holds a list
\* is popped, another type is an error, and if all are missing they block.
BlockingPop(c, b) ==
    LET there == {i \in DOMAIN b.keys : store[b.keys[i]].type # "none"}
        k == b.keys[CHOOSE i \in there : \A j \in there : i <= j]
    IN  /\ waiting[c] = NotBlocked /\ b.target = NoKey
        /\ IF there = {} THEN BlockForKeys(c, b)
           ELSE /\ store[k].type = "list"
                /\ LET s == CallList(ListState(store, blocking), PopCommand(b, k))
                   IN  /\ store' = s.store /\ copy' = Copied(s.out)
                       /\ served' = [served EXCEPT ![c] = @ \cup s.taken]
                       /\ UNCHANGED <<waiting, blocking, readyKeys, pushed, gone>>

BRPopLPush(c, b) ==
    LET k == Head(b.keys)
    IN  /\ waiting[c] = NotBlocked /\ b.target # NoKey
        /\ \/ store[k].type = "none" /\ BlockForKeys(c, b)
           \/ store[k].type = "list" /\ UNCHANGED <<pushed>>
              /\ Finish(CallList(ListState(store, blocking), LCmd("RPOPLPUSH", k, b.target, <<>>)))

Free(cs) ==
    LET s == FoldLeft(Unblock, ListState(store, blocking), SetToSeq(cs))
    IN  /\ waiting' = s.waiting /\ blocking' = s.blocking
        /\ UNCHANGED <<store, readyKeys, pushed, served, gone, copy>>

\* clientsCronHandleTimeout for a client with a timeout; freeClient for any.
Timeout(c) == waiting[c] # NotBlocked /\ waiting[c].timeout /\ Free({c})
Close(c) == waiting[c] # NotBlocked /\ Free({c})

\* disconnectAllBlockedClients, when the server becomes a replica
DisconnectAll ==
    LET cs == {c \in Waiters : waiting[c] # NotBlocked} IN Cardinality(cs) > 1 /\ Free(cs)

BlockingInit ==
    /\ store = [k \in Lists |-> Nothing] /\ copy = store
    /\ waiting = [c \in Waiters |-> NotBlocked] /\ blocking = [k \in Lists |-> <<>>]
    /\ readyKeys = <<>> /\ pushed = 0 /\ gone = {}
    /\ served = [c \in Waiters |-> {}]

BlockingNext ==
    \/ \E cmds \in ListCmds : Run(cmds)
    \/ \E c \in Waiters : \E b \in Blocks[c] : BlockingPop(c, b) \/ BRPopLPush(c, b)
    \/ \E c \in Waiters : Timeout(c) \/ Close(c)
    \/ DisconnectAll

BlockingSpec == BlockingInit /\ [][BlockingNext]_bvars

-----------------------------------------------------------------------------
\* Type invariant: no empty list is stored, and between two commands no key is
\* left to be served (handleClientsBlockedOnLists runs to the end).
BlockingTypeOK ==
    /\ \A k \in Lists : store[k].type = "list" <=> store[k].items # <<>>
    /\ readyKeys = <<>>
    /\ \A c \in Waiters : waiting[c] = NotBlocked \/ waiting[c] \in Blocks[c]

\* The two sides of a wait agree: a client is in the queue of exactly the keys
\* it waits for, once (blockForKeys, unblockClientWaitingData).
WaitListsAgree ==
    \A c \in Waiters, k \in Lists :
        Cardinality({i \in DOMAIN blocking[k] : blocking[k][i] = c})
            = IF k \in ToSet(waiting[c].keys) THEN 1 ELSE 0

\* Every pushed element is in one place: in one list, with the one client a
\* blocking command gave it to, or removed by another command.
DeliveredOnce ==
    \A e \in 1 .. pushed :
        Cardinality({p \in Lists \X (1 .. MaxPush) : p[2] \in DOMAIN store[p[1]].items /\ store[p[1]].items[p[2]] = e})
        + Cardinality({c \in Waiters : e \in served[c]}) + (IF e \in gone THEN 1 ELSE 0) = 1

\* A replica that applies the propagated commands has the lists of the master,
\* although blocked clients are served without a command of their own.
CopyAgrees == copy = store

\* No client is left waiting for a key that holds a list, whether the list came by a
\* push, a rename or from the pop of another client (signalListAsReady).
NobodyWaitsForElements ==
    \A c \in Waiters : \A k \in ToSet(waiting[c].keys) : store[k].type # "list"

\* Clients that wait for a key with the same command are served in the order
\* they blocked: when one is given an element, no earlier one is left waiting.
Before(c, d, k) == \E i, j \in DOMAIN blocking[k] : i < j /\ blocking[k][i] = c /\ blocking[k][j] = d
ServedInTurn ==
    \A c, d \in Waiters, k \in Lists :
        (Before(c, d, k) /\ waiting[d].keys = <<k>> /\ served'[d] # served[d]) => waiting'[c] # waiting[c]
=============================================================================
