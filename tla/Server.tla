------------------------------- MODULE Server -------------------------------
(***************************************************************************)
(* The command path of the Redis server that carries WeASe's task queue    *)
(* and its push channels: key space, expires, eviction, transactions and   *)
(* what is fed to the replicas and to the append only file (db.c, multi.c, *)
(* redis.c, t_string.c, aof.c).  A server runs one command at a time, so   *)
(* an action is a whole processCommand call or a whole cron cycle.         *)
(*                                                                         *)
(* The same command procedures run on a master, on a replica that is fed   *)
(* by it and on a server that loads the append only file; what differs is  *)
(* the context they run in.  `replica' and `aof' are the data sets these   *)
(* two obtain from what has been fed so far.                               *)
(***************************************************************************)
EXTENDS Integers, Sequences, FiniteSets, SequencesExt

CONSTANTS
    Clients,     \* connected clients
    Db,          \* Db[c]: the database client c has selected
    Keys,        \* key names, numbers
    MaxValue,    \* values are 1..MaxValue; INCR refuses to go beyond it
    Commands,    \* Commands[c]: the commands client c may send
    WatchSets,   \* WatchSets[c]: the sets of keys client c may WATCH
    Evictable,   \* the <<database, key>> pairs the eviction policy may pick
    MaxTime,     \* bound on the clock
    MaxQueue     \* MaxQueue[c]: bound on the commands client c queues after MULTI

Dbs == {0, 1}
Absent == 0
NoExpire == -1
Places == Dbs \X Keys

\* The time at which the append only file is loaded again: later than any
\* time of the run.
LoadTime == 100

\* A command as its procedure meets it once the arguments have been checked.
KnownCommand(cmd) ==
    /\ cmd \in [name : {"GET", "SET", "SETNX", "PSETEX", "INCR", "DEL", "EXPIRE", "PEXPIREAT", "PERSIST",
                        "RENAME", "MOVE", "FLUSHDB", "FLUSHALL"},
                key : Keys, arg : Int]
    /\ cmd.name \in {"SET", "SETNX"} => cmd.arg \in 1 .. MaxValue
    /\ cmd.name = "PSETEX" => cmd.arg > 0
    /\ cmd.name = "RENAME" => cmd.arg \in Keys
    /\ cmd.name = "MOVE" => cmd.arg \in Dbs

ASSUME ServerAssumption ==
    /\ Db \in [Clients -> Dbs] /\ Keys \subseteq Nat /\ IsFiniteSet(Keys)
    /\ MaxValue \in Nat \ {0} /\ MaxTime \in 0 .. LoadTime - 1 /\ MaxQueue \in [Clients -> Nat]
    /\ Evictable \subseteq Places
    /\ \A c \in Clients : \A cmd \in Commands[c] : KnownCommand(cmd)
    /\ \A c \in Clients : WatchSets[c] \subseteq SUBSET Keys

VARIABLES
    val,         \* val[d][k]: the value of key k in database d, or Absent
    exp,         \* exp[d][k]: the time at which it expires, or NoExpire
    now,         \* mstime()
    client,      \* per client: MULTI, DIRTY_CAS and DIRTY_EXEC flags, queue, watched keys
    replica,     \* the data set of a replica that applied all that was fed
    aof,         \* the data set a load of the append only file would give
    seen,        \* history: a key was changed, not by MOVE, while the client watched it
    torn         \* history: a transaction was fed in more than one piece

svars == <<val, exp, now, client, replica, aof, seen, torn>>

NewClient == [multi |-> FALSE, cas |-> FALSE, exec |-> FALSE, queue |-> <<>>, watched |-> {}]

-----------------------------------------------------------------------------
(* The data set a command works on, with what the command has fed, which   *)
(* keys it touched, found expired or moved, and whether it is dirty.       *)

Data(v, e) == [val |-> v, exp |-> e, out |-> <<>>, touched |-> {}, expired |-> {}, moved |-> {},
               dirty |-> FALSE]

Op(name, d, key, arg) == [name |-> name, db |-> d, key |-> key, arg |-> arg]

DbDelete(s, d, k) == [s EXCEPT !.val[d][k] = Absent, !.exp[d][k] = NoExpire]

\* signalModifiedKey and server.dirty++
Modified(s, places) == [s EXCEPT !.touched = @ \cup places, !.dirty = TRUE]

Expire(s, d, k) ==
    [DbDelete(s, d, k) EXCEPT !.out = Append(@, Op("DEL", d, k, 0)), !.expired = @ \cup {<<d, k>>}]

ExpireSilent(x, s, d, k) ==
    IF x.role = "master" /\ s.exp[d][k] # NoExpire /\ x.time > s.exp[d][k]
    THEN [DbDelete(s, d, k) EXCEPT !.expired = @ \cup {<<d, k>>}] ELSE s

\* Only a master deletes a key whose time is over, and feeds a DEL for it.
ExpireIfNeeded(x, s, d, k) ==
    IF x.role = "master" /\ s.exp[d][k] # NoExpire /\ x.time > s.exp[d][k]
    THEN Expire(s, d, k) ELSE s

(* The commands, on the data set t that the look-up of their key leaves:   *)
(* a command looks its key up before anything else, and that expires it.   *)

SetKey(t, d, k, v) ==
    Modified([t EXCEPT !.val[d][k] = v, !.exp[d][k] = NoExpire], {<<d, k>>})

SetNX(t, c) ==
    IF t.val[c.db][c.key] # Absent THEN t ELSE SetKey(t, c.db, c.key, c.arg)

\* PSETEX: the argument is the time to live.
SetEx(x, t, c) == [SetKey(t, c.db, c.key, 1) EXCEPT !.exp[c.db][c.key] = x.time + c.arg]

Incr(t, c) ==
    IF t.val[c.db][c.key] = MaxValue THEN t
    ELSE Modified([t EXCEPT !.val[c.db][c.key] = @ + 1], {<<c.db, c.key>>})

DelCommand(t, c) ==
    IF t.val[c.db][c.key] = Absent THEN t
    ELSE Modified(DbDelete(t, c.db, c.key), {<<c.db, c.key>>})

\* EXPIRE and PEXPIREAT; a time in the past is a deletion, on a master only.
ExpireGeneric(x, t, c, when) ==
    IF t.val[c.db][c.key] = Absent THEN t
    ELSE Modified(IF when <= x.time /\ x.role = "master"
                  THEN DbDelete(t, c.db, c.key)
                  ELSE [t EXCEPT !.exp[c.db][c.key] = when], {<<c.db, c.key>>})

\* PERSIST neither expires the key nor touches the clients that watch it.
Persist(s, c) ==
    IF s.val[c.db][c.key] = Absent \/ s.exp[c.db][c.key] = NoExpire THEN s
    ELSE [s EXCEPT !.exp[c.db][c.key] = NoExpire, !.dirty = TRUE]

\* u is t with the destination looked up, too.
Rename(t, u, c) ==
    IF t.val[c.db][c.key] = Absent THEN t
    ELSE Modified([DbDelete(u, c.db, c.key) EXCEPT
                      !.val[c.db][c.arg] = t.val[c.db][c.key],
                      !.exp[c.db][c.arg] = t.exp[c.db][c.key]],
                  {<<c.db, c.key>>, <<c.db, c.arg>>})

RenameCommand(x, t, c) == Rename(t, ExpireIfNeeded(x, t, c.db, c.arg), c)

\* MOVE takes the value without its expire, and touches no watching client.
Move(t, u, c) ==
    IF t.val[c.db][c.key] = Absent THEN t
    ELSE IF u.val[c.arg][c.key] # Absent THEN u
    ELSE [DbDelete(u, c.db, c.key) EXCEPT
             !.val[c.arg][c.key] = t.val[c.db][c.key],
             !.moved = @ \cup {<<c.db, c.key>>, <<c.arg, c.key>>}, !.dirty = TRUE]

MoveCommand(x, t, c) == Move(t, ExpireIfNeeded(x, t, c.arg, c.key), c)

PlacesIn(s, ds) == {p \in Places : p[1] \in ds /\ s.val[p[1]][p[2]] # Absent}

Emptied(old, ds, empty) == [d \in Dbs |-> IF d \in ds THEN [k \in Keys |-> empty] ELSE old[d]]

FlushFirst(s, ds) ==
    [s EXCEPT !.val = Emptied(@, ds, Absent), !.exp = Emptied(@, ds, NoExpire),
              !.dirty = @ \/ PlacesIn(s, ds) # {} \/ ds = Dbs]

\* The watched keys that exist are touched before the databases are emptied.
Flush(s, ds) ==
    [s EXCEPT !.val = Emptied(@, ds, Absent), !.exp = Emptied(@, ds, NoExpire),
              !.touched = @ \cup PlacesIn(s, ds),
              !.dirty = @ \/ PlacesIn(s, ds) # {} \/ ds = Dbs]

LookedUp(x, t, c) ==
    CASE c.name = "GET" -> t
      [] c.name = "SET" -> SetKey(t, c.db, c.key, c.arg)
      [] c.name = "SETNX" -> SetNX(t, c)
      [] c.name = "PSETEX" -> SetEx(x, t, c)
      [] c.name = "INCR" -> Incr(t, c)
      [] c.name = "DEL" -> DelCommand(t, c)
      [] c.name = "EXPIRE" -> ExpireGeneric(x, t, c, x.time + c.arg)
      [] c.name = "PEXPIREAT" -> ExpireGeneric(x, t, c, c.arg)
      [] c.name = "RENAME" -> RenameCommand(x, t, c)
      [] c.name = "MOVE" -> MoveCommand(x, t, c)

\* RENAME to the same name and MOVE to the same database are refused before
\* the key is looked up.  MULTI and EXEC, as a replica or a load meets them,
\* change no key.
Proc(x, s, c) ==
    CASE c.name = "PERSIST" -> Persist(s, c)
      [] c.name = "FLUSHDB" -> Flush(s, {c.db})
      [] c.name = "FLUSHALL" -> Flush(s, Dbs)
      [] \/ c.name \in {"MULTI", "EXEC"}
         \/ c.name = "RENAME" /\ c.key = c.arg
         \/ c.name = "MOVE" /\ c.db = c.arg -> s
      [] OTHER -> LookedUp(x, ExpireIfNeeded(x, s, c.db, c.key), c)

ReadOnly(c) == c.name = "GET"

\* An EXPIRE that deleted the key is fed as a DEL.
Rewritten(x, c) ==
    IF (c.name = "EXPIRE" /\ c.arg <= 0) \/ (c.name = "PEXPIREAT" /\ c.arg <= x.time)
    THEN [c EXCEPT !.name = "DEL"] ELSE c

Fed(x, t, c, before) ==
    IF t.dirty THEN [t EXCEPT !.out = Append(@, Rewritten(x, c))]
    ELSE [t EXCEPT !.dirty = before]

\* call(): run the procedure, feed the command if it was dirty.
Call(x, s, c) == Fed(x, Proc(x, [s EXCEPT !.dirty = FALSE], c), c, s.dirty)

-----------------------------------------------------------------------------
(* What the replicas and the append only file make of what is fed.         *)

AofFormVerbatim(t, c) == <<c>>

\* feedAppendOnlyFile: relative expires become absolute.
AofForm(t, c) ==
    CASE c.name = "EXPIRE" -> <<[c EXCEPT !.name = "PEXPIREAT", !.arg = t + @]>>
      [] c.name = "PSETEX" -> <<Op("SET", c.db, c.key, 1), Op("PEXPIREAT", c.db, c.key, t + c.arg)>>
      [] OTHER -> <<c>>

DataSet(s) == [val |-> s.val, exp |-> s.exp]

Replay(x, data, ops) ==
    DataSet(FoldLeft(LAMBDA s, c : Proc(x, s, c), Data(data.val, data.exp), ops))

\* What the append only file holds after the commands ops, each in its form.
LoadedAof(data, ops) ==
    FoldLeft(LAMBDA d, c : Replay([role |-> "loading", time |-> LoadTime], d, AofForm(now, c)), data, ops)

\* A transaction is fed whole: what it writes, apart from the DELs of keys that
\* were expired, stands between MULTI and EXEC.
Written(out, expired) ==
    {i \in DOMAIN out : ~(out[i].name = "DEL" /\ <<out[i].db, out[i].key>> \in expired)}

Framed(out, w) ==
    \/ \A i, j \in w : i = j
    \/ \A i \in w : /\ out[i].name = "MULTI" <=> \A j \in w : i <= j
                    /\ out[i].name = "EXEC" <=> \A j \in w : j <= i

Whole(out, expired) == Framed(out, Written(out, expired))

\* The step ends with data set s: clients that watch a touched key are dirty,
\* and the commands are delivered.
Ended(s, cl, changed) ==
    /\ val' = s.val /\ exp' = s.exp
    /\ client' = [c \in Clients |->
                     [cl[c] EXCEPT !.cas = @ \/ cl[c].watched \cap s.touched # {}]]
    /\ seen' = [c \in Clients |->
                   cl[c].watched # {} /\ (seen[c] \/ cl[c].watched \cap changed # {})]
    /\ replica' = Replay([role |-> "slave", time |-> now], replica, s.out)
    /\ aof' = LoadedAof(aof, s.out)
    /\ torn' = (torn \/ ~Whole(s.out, s.expired))
    /\ UNCHANGED now

Commit(s, cl) ==
    \E t \in {s} :
       Ended(t, cl, {p \in Places : t.val[p[1]][p[2]] # val[p[1]][p[2]]} \ (t.expired \cup t.moved))

Here == [role |-> "master", time |-> now]

-----------------------------------------------------------------------------
(* A command that arrives.  freeMemoryIfNeeded may first delete a key.     *)

ExpireAll(s, ps) == FoldLeft(LAMBDA t, p : Expire(t, p[1], p[2]), s, SetToSeq(ps))

Evictions == {ps \in SUBSET Evictable : \A p \in ps : val[p[1]][p[2]] # Absent}

\* processCommand refuses the command: unknown, wrong arity, no memory, no
\* authentication, a failed save, too few replicas, a busy script.
Refuse(c) ==
    /\ client[c].multi /\ ~client[c].exec
    /\ \E ps \in Evictions :
          Commit(ExpireAll(Data(val, exp), ps), [client EXCEPT ![c].exec = TRUE])

Request(c, cmd) == Op(cmd.name, Db[c], cmd.key, cmd.arg)

Queue(c, cmd) ==
    /\ client[c].multi /\ Len(client[c].queue) < MaxQueue[c]
    /\ \E ps \in Evictions :
          Commit(ExpireAll(Data(val, exp), ps), [client EXCEPT ![c].queue = Append(@, cmd)])

Execute(c, cmd) ==
    /\ ~client[c].multi
    /\ \E ps \in Evictions :
          Commit(Call(Here, ExpireAll(Data(val, exp), ps), Request(c, cmd)), client)

Multi(c) ==
    /\ ~client[c].multi /\ MaxQueue[c] > 0
    /\ Commit(Data(val, exp), [client EXCEPT ![c].multi = TRUE])

\* discardTransaction, with unwatchAllKeys
Discarded(cl, c) == [cl EXCEPT ![c] = NewClient]

Discard(c) ==
    /\ client[c].multi
    /\ Commit(Data(val, exp), Discarded(client, c))

RunQueuedBare(c, s, cmd) == Call(Here, s, Request(c, cmd))

\* MULTI is fed before the first queued command that is not read only.
RunQueued(c, s, cmd) ==
    IF ReadOnly(cmd) \/ \E i \in DOMAIN s.out : s.out[i].name = "MULTI"
    THEN Call(Here, s, Request(c, cmd))
    ELSE Call(Here, [s EXCEPT !.out = Append(@, Op("MULTI", Db[c], 0, 0))], Request(c, cmd))

\* EXEC is fed after them, when MULTI was.
ExecFed(c, t) ==
    IF \E i \in DOMAIN t.out : t.out[i].name = "MULTI"
    THEN [t EXCEPT !.out = Append(@, Op("EXEC", Db[c], 0, 0))] ELSE t

ExecAll(c, s) ==
    ExecFed(c, FoldLeft(LAMBDA u, cmd : RunQueued(c, u, cmd), s, client[c].queue))

\* A dirty transaction is dropped; any other runs, its client watching no more.
Exec(c) ==
    /\ client[c].multi
    /\ \E ps \in Evictions :
          Commit(IF client[c].cas \/ client[c].exec THEN ExpireAll(Data(val, exp), ps)
                 ELSE ExecAll(c, ExpireAll(Data(val, exp), ps)),
                 Discarded(client, c))

Watch(c, keys) ==
    /\ ~client[c].multi
    /\ ~({Db[c]} \X keys \subseteq client[c].watched)
    /\ Commit(Data(val, exp), [client EXCEPT ![c].watched = @ \cup ({Db[c]} \X keys)])

UnwatchedKeepsFlag(cl, c) == [cl EXCEPT ![c].watched = {}]

Unwatched(cl, c) == [cl EXCEPT ![c].watched = {}, ![c].cas = FALSE]

\* UNWATCH is queued like any command when it comes after MULTI.
Unwatch(c) ==
    /\ ~client[c].multi /\ client[c].watched # {}
    /\ Commit(Data(val, exp), Unwatched(client, c))

\* freeClient
Disconnect(c) ==
    /\ client[c] # NewClient
    /\ Commit(Data(val, exp), [client EXCEPT ![c] = NewClient])

-----------------------------------------------------------------------------
(* serverCron: the active expire cycle samples any of the expired keys.    *)

Overdue == {p \in Places : exp[p[1]][p[2]] # NoExpire /\ now > exp[p[1]][p[2]]}

ActiveExpireCycle ==
    \E ps \in SUBSET Overdue \ {{}} :
       Commit(ExpireAll(Data(val, exp), ps), client)

Tick == now < MaxTime /\ now' = now + 1 /\ UNCHANGED <<val, exp, client, replica, aof, seen, torn>>

ServerInit ==
    /\ val = [d \in Dbs |-> [k \in Keys |-> Absent]]
    /\ exp = [d \in Dbs |-> [k \in Keys |-> NoExpire]]
    /\ now = 0
    /\ client = [c \in Clients |-> NewClient]
    /\ replica = [val |-> val, exp |-> exp] /\ aof = replica
    /\ seen = [c \in Clients |-> FALSE] /\ torn = FALSE

ServerNext ==
    \/ \E c \in Clients : Refuse(c) \/ Multi(c) \/ Discard(c) \/ Exec(c) \/ Unwatch(c) \/ Disconnect(c)
    \/ \E c \in Clients : \E cmd \in Commands[c] : Queue(c, cmd) \/ Execute(c, cmd)
    \/ \E c \in Clients : \E keys \in WatchSets[c] : Watch(c, keys)
    \/ ActiveExpireCycle
    \/ Tick

ServerSpec == ServerInit /\ [][ServerNext]_svars

-----------------------------------------------------------------------------
\* Type invariant of the server: clients, clock and data sets are as declared.
ServerTypeOK ==
    /\ val \in [Dbs -> [Keys -> 0 .. MaxValue]]
    /\ exp \in [Dbs -> [Keys -> Int]]
    /\ \A d \in Dbs, k \in Keys : val[d][k] = Absent => exp[d][k] = NoExpire
    /\ now \in 0 .. MaxTime
    /\ \A c \in Clients : client[c].watched \subseteq {Db[c]} \X Keys

\* A replica that has applied what it was fed holds the keys and values of its
\* master, although it deletes nothing by itself (expireIfNeeded, propagate).
ReplicaFollows == replica.val = val

\* Loading the append only file, at any later time, gives the data set of the
\* server with the same expire times (feedAppendOnlyFile, call).
AofExact == aof = [val |-> val, exp |-> exp]

\* A command that changes a watched key, MOVE apart, leaves the client that
\* watches it unable to run its transaction (touchWatchedKey, execCommand).
WatchSeesWrites == \A c \in Clients : seen[c] => client[c].cas

\* A client whose transaction would be dropped for a touched key watches a key:
\* no flag outlives the WATCH that raised it (discardTransaction, UNWATCH).
DirtyOnlyWatching == \A c \in Clients : client[c].cas => client[c].watched # {}

\* Replicas and append only file receive a transaction's writes between one
\* MULTI and one EXEC (execCommandPropagateMulti).
TransactionsWhole == ~torn

=============================================================================
