---------------------------- MODULE MCServerParts ----------------------------
(***************************************************************************)
(* Four parts of one Redis server: the key space with transactions,        *)
(* blocking list commands, what is read from clients and what is written   *)
(* to them. The parts share no state here: the first state of a behaviour  *)
(* picks one, its actions follow, and the variables of the other parts     *)
(* stay Unused.                                                            *)
(***************************************************************************)
EXTENDS Server, Blocking, MCRequests, Replies

(* The key space: client c1 runs transactions, c2 single commands. *)
ClientsMC == {"c1", "c2"}
KeysMC == {1, 2}
DbMC == [c \in ClientsMC |-> 0]
Cmd(name, key, arg) == [name |-> name, key |-> key, arg |-> arg]
CommandsMC ==
    [c \in ClientsMC |->
        IF c = "c1" THEN {Cmd("GET", 1, 0), Cmd("INCR", 1, 0), Cmd("RENAME", 2, 1)}
        ELSE {Cmd("SET", 1, 1), Cmd("PSETEX", 2, 1), Cmd("SETNX", 2, 2), Cmd("INCR", 1, 0), Cmd("DEL", 1, 0),
              Cmd("EXPIRE", 1, 1), Cmd("EXPIRE", 1, 0), Cmd("PERSIST", 1, 0),
              Cmd("RENAME", 1, 2), Cmd("MOVE", 1, 1), Cmd("FLUSHDB", 1, 0), Cmd("FLUSHALL", 1, 0)}]
WatchSetsMC == [c \in ClientsMC |-> IF c = "c1" THEN {{1}} ELSE {}]
MaxQueueMC == [c \in ClientsMC |-> IF c = "c1" THEN 2 ELSE 0]
EvictableMC == {<<0, 2>>}

(* Three clients that block on two lists, and the commands of others. *)
WaitersMC == {"w1", "w2", "w3"}
ListsMC == {1, 2}
C(name, k, to, n) == LCmd(name, k, to, [i \in 1 .. n |-> 0])
B(keys, where, target, timeout) == [keys |-> keys, where |-> where, target |-> target, timeout |-> timeout]
ListCmdsMC ==
    {<<C("LPUSH", 1, 0, 2)>>, <<C("RPUSH", 1, 0, 1)>>, <<C("RPUSH", 2, 0, 1)>>, <<C("LPOP", 2, 0, 0)>>, <<C("RPOP", 1, 0, 0)>>,
     <<C("RENAME", 1, 2, 0)>>, <<C("DEL", 1, 0, 0)>>, <<C("SET", 2, 0, 0)>>, <<C("LTRIM", 1, 0, 0)>>, <<C("RPOPLPUSH", 1, 2, 0)>>,
     <<C("RPUSH", 1, 0, 1), C("RPUSH", 2, 0, 1)>>, <<C("RPUSH", 1, 0, 1), C("DEL", 1, 0, 0)>>}
BlocksMC ==
    [c \in WaitersMC |-> CASE c = "w1" -> {B(<<1>>, "head", 0, FALSE), B(<<1, 2>>, "head", 0, TRUE)}
                           [] c = "w2" -> {B(<<1>>, "tail", 2, FALSE), B(<<2, 1>>, "tail", 0, FALSE)}
                           [] OTHER -> {B(<<2>>, "tail", 0, FALSE), B(<<2>>, "tail", 2, FALSE)}]

(* Two connections, one channel and one pattern that matches it. *)
CONSTANTS w1, w2, ch1, pat1
MCMatches == {<<pat1, ch1>>}

-----------------------------------------------------------------------------

VARIABLE part

Unused == "unused"

NoServer ==
    /\ val = Unused /\ exp = Unused /\ now = Unused /\ client = Unused
    /\ replica = Unused /\ aof = Unused /\ seen = Unused /\ torn = Unused
NoBlocking ==
    /\ store = Unused /\ waiting = Unused /\ blocking = Unused /\ readyKeys = Unused
    /\ pushed = Unused /\ served = Unused /\ gone = Unused /\ copy = Unused
NoRequests ==
    /\ peer = Unused /\ pausing = Unused /\ unblocked = Unused /\ round = Unused
NoReplies ==
    /\ conn = Unused /\ subs = Unused /\ toClose = Unused /\ clock = Unused
    /\ replies = Unused

PartsInit ==
    \/ part = "server" /\ ServerInit /\ NoBlocking /\ NoRequests /\ NoReplies
    \/ part = "blocking" /\ BlockingInit /\ NoServer /\ NoRequests /\ NoReplies
    \/ part = "requests" /\ RequestsInit /\ NoServer /\ NoBlocking /\ NoReplies
    \/ part = "replies" /\ RepliesInit /\ NoServer /\ NoBlocking /\ NoRequests

PartsNext ==
    \/ part = "server" /\ ServerNext /\ UNCHANGED <<part, bvars, qvars, wvars>>
    \/ part = "blocking" /\ BlockingNext /\ UNCHANGED <<part, svars, qvars, wvars>>
    \/ part = "requests" /\ RequestsNext /\ UNCHANGED <<part, svars, bvars, wvars>>
    \/ part = "replies" /\ RepliesNext /\ UNCHANGED <<part, svars, bvars, qvars>>

PartsSpec == PartsInit /\ [][PartsNext]_<<part, svars, bvars, qvars, wvars>>
-----------------------------------------------------------------------------
\* A replica that applied all it was fed has the keys and values of its
\* master, although it expires nothing itself. Loading the append only file
\* at a later time gives the data set and the expire times of the server. The
\* variables of Server have their types.
ServerFollowed == part = "server" =>
    ServerTypeOK /\ ReplicaFollows /\ AofExact

\* A command that changes a watched key, MOVE apart, makes the EXEC of the
\* watching client fail. No flag that drops a transaction outlives the WATCH
\* it came from. Replicas and append only file get the writes of a
\* transaction between one MULTI and one EXEC.
TransactionsSafe == part = "server" =>
    WatchSeesWrites /\ DirtyOnlyWatching /\ TransactionsWhole

\* A client is in the queue of exactly the keys it waits for, once. Every
\* pushed element is in one list, with one served client, or removed. A
\* replica has the lists of its master though clients are served without a
\* command of their own. No client is left waiting for a key that holds a
\* list. The variables of Blocking have their types.
BlockingSound == part = "blocking" =>
    BlockingTypeOK /\ WaitListsAgree /\ DeliveredOnce /\ CopyAgrees /\ NobodyWaitsForElements

\* Of two clients waiting for a key the one that blocked first is served
\* first. (handleClientsBlockedOnLists)
InTurn == [][part = "blocking" => ServedInTurn]_bvars

\* The commands that run are the commands sent, in order, however their bytes
\* are cut and whatever blocks or pauses the client. Commands that arrived
\* while their client was blocked or paused run when it no longer is. The
\* variables of Requests have their types.
RequestsSound == part = "requests" =>
    RequestsTypeOK /\ CommandsExact /\ NothingForgotten

\* A client is sent its replies in order, none twice and none left out.
\* reply_bytes is the size of the reply list. A client with something to be
\* sent has a write handler. The server's tables of subscribers agree with
\* what each client says it is subscribed to. The variables of Replies have
\* their types.
RepliesSound == part = "replies" =>
    RepliesTypeOK /\ RepliesInOrder /\ BytesCounted /\ HandlerInstalled /\ SubscriptionsAgree
=============================================================================
