# WeASe and its Redis server: a TLA+ verification project

WeASe is a procurement application. A company's users put together a *request*
(an order with request items), a manager of the company submits it to Optiz,
Optiz users make *offers*, the company approves or refuses them, and Optiz
moves the order on to completion, invoicing or cancellation. The server is
Django 1.8 with Django REST framework 3.0 under gunicorn, PostgreSQL in
autocommit mode, Celery 3.1 for mail and SwampDragon for pushes, both over
Redis. The client is an AngularJS application. The repository carries the
source of that Redis server (`redis-stable`, version 3.0), which is most of its
code: the mail queue is a Redis list, a push is a Redis publication.

This directory models the application's own logic and the parts of Redis that
have a protocol, a file or a data structure to get wrong. TLC checks the models
on small instances; TLAPS proves the main safety properties for every value of
the constants.

## 1. Inventory

### WeASe

| Component | State it keeps | Operations | Interacts with |
|---|---|---|---|
| Order core: `orders/models.py`, `serializers.py`, `views.py` | tables Order, ReqItem, Offer, OfferItem | new request, add / edit / remove item, delivery address, reference, comment, submit, offer, blank offer, decision, status, delete | event log, mail tasks; called by the client pages |
| Order pages: `scripts/orders/**`, `views/orders/order.html` | the row as it was when the page was loaded | send one of the requests above | order core |
| Event log: `eventlog/models.py` | Log rows with `viewed_by` | `log()`, mark as viewed | pushes, dashboard |
| Mail tasks: `messaging/tasks.py`, `wease/printing.py` | queue in Redis, running tasks | `mail_item`, `user_email`, `build_pdf` | reads orders, offers and preferences |
| Push notifications: `messaging/routers.py`, `app.controller.js`, `header.controller.js` | lists shown in each page | push, fetch again, viewed | event log, order core |
| Chat: `messaging/views.py`, `chat.controller.js` | tables Chat and ChatMessage, list of chats in each page | open page, send, push | pushes |
| Internal mail: `messaging/views.py`, `serializers.py`, `mail-compose.controller.js` | tables Mail, MailReply | draft, send, reply, trash | pushes |
| Accounts and companies: `authentication/**` | tables Account, Company, Address | register, update, assign Optiz users, addresses | mail tasks, everything that tests a level |
| Offer forms: `offer.controller.js`, `offer-blank.controller.js` | lines and totals of the form | add / remove line, totals | order core |

### Redis

| Component | State it keeps | Operations | Interacts with |
|---|---|---|---|
| Sentinel: `sentinel.c` | what each sentinel knows of the master, its replicas and its peers; its configuration file | timer, INFO and hello callbacks, votes, failover states, RESET, FAILOVER | the instances it reconfigures, other sentinels |
| Cluster: `cluster.c` | the table of nodes and slots, `nodes.conf` | packets, cron, elections, manual failover, takeover, SETSLOT | other nodes over the bus |
| Resharding: `cluster.c`, `redis-trib.rb` | slot tables, keys, the progress of the tool, a MIGRATE | `move_slot`, SETSLOT, MIGRATE, RESTORE-ASKING, redirections | clients that follow MOVED and ASK |
| Replication: `replication.c` | backlog, offsets, master and slave links, cached master | PSYNC, BGSAVE for slaves, SLAVEOF, WAIT, cron | other servers, persistence |
| Persistence: `aof.c`, `rdb.c`, `bio.c` | append only file, RDB file, their buffers and children | write, fsync, rewrite, save, SHUTDOWN, restart | disk, child processes |
| Commands: `redis.c`, `db.c`, `multi.c`, `t_string.c` | key space, expires, watched keys, queued commands | commands, WATCH / MULTI / EXEC, expiry, eviction | replicas, append only file |
| Blocking: `t_list.c`, `blocked.c` | lists, the clients waiting for each | BLPOP, BRPOP, BRPOPLPUSH, what wakes them | clients, replica |
| Requests and replies: `networking.c`, `pubsub.c` | query buffers, reply buffers, subscriptions | read, parse, pause, reply, publish, limits, close | clients |
| Event loop: `ae.c`, `ae_epoll.c` | file events, timers | poll, call handlers, resize | every handler |
| Data structures: `t_zset.c`, `dict.c`, `intset.c`, `t_set.c`, `ziplist.c`, `t_hash.c`, `hyperloglog.c` | the objects stored at keys | their commands and conversions | iterators, SCAN, replicas |

### What is hard here, and hard to test

* A handler is a series of statements that commit one by one. It reads a row,
  changes it in memory, logs, mails, saves other rows and at last saves *all*
  columns of the row it read. Two handlers on one order overwrite each other,
  and a handler that raises leaves what it has written.
* `Model.save` inserts a row that is gone: a deleted order can come back.
* The log entry and the mail precede the save they announce.
* Pages are stale: the client decides what may be sent, the server tests almost
  nothing again.
* Celery runs beside the web worker and reads the database at its own time; a
  task is acknowledged before it runs and is never retried.
* A page's list is read once and then completed by pushes.
* Redis is one thread, but its protocols are not: votes, hellos and packets are
  late, repeated or lost, a reply is read by a process that has gone on, an old
  socket outlives the attempt it belonged to, a node restarts from a file older than its memory, a MIGRATE
  times out when the target has stored the key or before.
* Replies of the disk and of children come later than what they answer: a write
  goes on while it is synced, rewritten or sent to a slave.
* A handler of the event loop frees another client, whose handler is due in the
  same round, or moves the table the loop is reading; a command arrives in pieces, and the client blocks in between.
* Representations change under their users: a hash table while it is iterated, a
  ziplist whose length fields cascade, an integer array widened in place.

### What makes each component correct

* Order core: a row never mixes the columns of two handlers; no offer without a
  manager's submission; offers numbered without gap or repetition; a decision is
  on the offer as well as on the order; what users are told is what the row
  says; a deleted order stays deleted; no update is lost - the last five where
  no overlap or failure hit the order, and the model says exactly which.
* Mail: everybody who asked for it is mailed, once; the PDF can be built and
  lists the offer the message is about; every task ends.
* Chat: each message is shown once; one chat for a group of users.
* Sentinel and Cluster: one vote and one winner per epoch; sentinels with the
  same configuration epoch publish the same master; two masters of a cluster
  claim a slot with the same epoch only if one gave itself that epoch, and the
  next packet between them settles it. Each with the exceptions section 2 names.
* Resharding: no value is lost, a client reads the last one, one node serves.
* Replication and persistence: a replica holds what its offset says, the file
  holds what was acknowledged.
* Commands: replica and file follow the key space; a transaction is fed whole
  and fails if a watched key changed. Blocking: each element goes to one client,
  in turn. Requests, replies: commands and replies are those sent, in order.
* Data structures: every command answers and stores what its reference
  definition says, in every representation.
* Planned: push notifications (a settled page shows the entries not viewed yet),
  internal mail and companies (what is stored is what was picked).

`PROJECT.json` lists every hazard at its line with the properties that cover it.

## 2. Modules

| Module | Models | State |
|---|---|---|
| `OrderRows` | a row of table Order and what each handler assigns to it | pure operators |
| `WebWorkers` | how many processes serve the handlers: used by `Orders` and `Chat` | a constant |
| `Orders` | the order core with its client pages, log and mail queue | see below |
| `OrderTable` | abstract specification: a table whose rows are created, changed by one operation at a time, deleted | refined by `Orders` with one worker |
| `OrderMail` | `Orders` composed with the Celery processes and the preferences | see below |
| `Chat` | chat tables, handler and pages | see below |
| `Sentinel` | `sentinel.c` | `snt` memory, `disk` configuration file, `inst` instances, `requests`, `replies`, `hellos` and `slaveof` in flight |
| `Cluster` | `cluster.c`: bus and failover | `cl` tables, `disk` files, `net` vote requests and votes |
| `Resharding` | the move of one slot | `slotView`, `data`, `mover` (redis-trib), `mig` (MIGRATE), `restores`, `request` (a client) |
| `Server` | processCommand, expires, eviction, transactions | `val`, `exp`, `client`; `replica` and `aof`: what was fed, executed by the same operators |
| `Blocking` | blocking list commands | `store`, `waiting`, `blocking`, `readyKeys`, `copy` of a replica |
| `Requests` | bytes to commands | `peer` (buffers, parser, flags), `pausing`, `unblocked`, `round` |
| `Replies` | replies to bytes, publications, limits | `conn`, `subs`, `toClose`, `clock` |
| `Replication` | replication between servers | `srv`, `link`, `wire`, `waiters` |
| `Persistence` | the two files | `mem`, `log`, `disk`, `jobs` (bio), `rw` (rewrite), `rdb` |
| `EventLoop` | `ae.c` | `events`, `timers`, `at` (where a round is) |
| `SortedSets`, `Dict`, `Sets`, `Hashes`, `HyperLogLog` | the data structures | the object, and a ghost it is compared with |
| `ZiplistBytes`, `Ziplist` | a ziplist byte by byte (operators), and under any insertions and deletions; `Hashes` uses the operators | `zl`, ghost `want` |
| `OrdersProofs`, `OrderMailProofs`, `ChatProofs`, `SentinelProofs`, `ClusterProofs` | theorems about the module of that name | |
| `ServerProofs`, `BlockingProofs`, `SystemPartsProofs` | theorems about modules of `MCServerParts` (the first two) and of `MCSystemParts`, and about their runs' specifications | |
| `MCOrders`, `MCOrderScenarios`, `MCOrderMail`, `MCSentinel`, `MCCluster`, `MCRequests`, `MCZiplist` | instances for TLC | |
| `MCServerParts`, `MCSystemParts`, `MCDataParts` | several Redis modules in one run | the first state picks one, the variables of the others stay `Unused` |

### OrderRows and Orders

A row keeps the columns that some handler reads: `order_draft` (`draft`), the
three status columns (`status`, `comp`, `optiz`), `order_version` (`ov`, null
until the first save: `Null`), `offer_version` (`fv`), `order_offer`,
`company_approval_by` (`approver`), and whether there is a delivery address and
a reference. Number, totals, dates and `modified_by` are written and never read.

A slot `r \in Requests` is an HTTP request from click to answer. What it
contains is fixed when it is sent, from the rows as they are then, so a slow
request and a click on a page loaded long ago are the same behaviour. `pc` is
the statement a handler is about to execute:

| Code | Actions |
|---|---|
| pages (`order.controller.js`, `request*.controller.js`, `offer*.controller.js`, `comment.controller.js`) | `SendNew`, `SendAdd`, `SendEdit`, `SendRemove`, `SendDelete`, `SendSubmit`, `SendAddress`, `SendReference`, `SendComment`, `SendStatus`, `SendDecide`, `SendOffer`, `SendBlank` |
| `ReqItemViewSet.perform_create`, `ReqItemSerializer.create` | `ReceiveNew` or `Load`, `SaveNew`, `SaveDraft`, `SaveItem`, `Announce` |
| `ReqItemSerializer.update` | `Load`, `SaveDraft`, `SaveItem`, `Announce` |
| `OrderSerializer.update` | `Load`, then as the branch has it `Announce`, `Mail`, `Decide`, and `Save` |
| `OfferSerializer.create` | `Load` or `ReceiveBlank`, `Save`, `CreateOffer`, `CreateOfferItems`, `Announce`, `Mail` |
| DELETE | `DeleteOrder`, `RemoveItem` |
| missing row, null version | `Refuse` |
| exception between two statements, killed worker | `Abort` |

`OneWorker` is TRUE for the deployment of the `Procfile` (gunicorn's default,
one synchronous worker) and FALSE for several. `marks` is a history variable:
it records for each order whether handlers overlapped on it, one stopped half
way, an item request changed its draft flag, it was deleted, or it started as a
blank offer. Properties that hold only for orders spared some of these say so.

Offer items are all or nothing (`complete`): no handler looks at a single one.
A decision reads and saves the offer in one step, because no other column of an
offer changes after its creation.

### OrderMail

`tasks` is the queue `Orders` fills; a task has the columns the pickled row had
at `mail_item.delay`. A Celery process takes the next task (`Take`), sends one
message per step to the team (`Deliver`), turns to the Optiz users
(`TurnToStaff`) and ends (`Finish`). The recipients of a loop are fixed when its
query runs; the preferences may be saved meanwhile (`SavePrefs`). `PdfRaises`
collects the conditions on the order under which `build_pdf` raises; `Raise`
then ends the task. `Lose` stands for everything else that ends it: an SMTP
error, a null column of an address, a killed process. `mails` is a bag, so that
a message sent twice counts twice. The order in which a loop meets the accounts
is arbitrary (the query has none).

### Chat

A page is opened (`Open`), subscribes (`Subscribe`), its list is read by the
server (`Read`) and shown when the answer arrives (`Show`), in any order with
the subscription. `SendToUsers` chooses between an existing chat and a new one
by comparing users with the chats shown, `SendToChat` uses the open
conversation. The handler is `CreateChat`/`FindChat`, `AddMember` for each
user, `Insert`, `Publish`. `Push` is the page's handler of a message, which is
dropped while the list is undefined. `SendFn` is the click on the send
button. `raced`, `early` and `excused` are history:
pages opened during a POST, chats written to before they had all their users,
and posts whose page could not know an existing chat. A read of the list is one
step; the order of messages in a chat is not modelled. When several chats shown
have the same users any of them may be chosen; the code takes the first.

### Sentinel

`sentinelTimer` is one action (`Timer`) and every callback another. What
sentinels tell each other is in flight between two actions:

* A request for a vote is sent (`AskMasterState`) with the epoch its sender has
  then, executed at the peer (`IsMasterDown`) whatever either became since, and
  its reply is read (`ReceiveIsMasterDownReply`) by a sentinel that may be in
  another epoch, another failover, or none. A link that breaks (`Disconnect`), a
  peer that is replaced, a RESET and a restart drop the replies on the link; a
  request on it is then executed for nobody, or lost. The model lets replies
  overtake each other, which TCP does not: that only adds behaviours.
* A hello is what its sender knew when it published it (`Publish`, `HelloOf`).
  It is received (`ProcessHello`) any time later, out of order, again, or never;
  the bound `limit.hellos` says how many published hellos can still be received.
  Hellos a sentinel published before a restart are among them. One sent to a
  peer and passed on can reach the sentinel itself, which then knows its earlier
  run as another sentinel.

`InfoOfMaster` and `InfoOfSlave` are the INFO replies, `ResetCommand` and
`FailoverCommand` the commands, `SlaveOf` executes a SLAVEOF transaction at an
instance or loses it, and `Restart` loads the configuration file. Times are
choices where the code tests them: a period that has elapsed, a link that is up,
a replica that is good enough, an answer that is too old, a tick in TILT.

`votes` and `wins` are history; `touched` collects the epochs in which the
protocol's promise is not kept, and `ElectionSafe` (one leader; one vote has no
exception) and `ConfigAgreement` leave out:

* a failover forced with SENTINEL FAILOVER, which nobody voted for, and one that
  RESET undoes after the replica was promoted;
* an election whose winner counted in another epoch than that of its failover:
  `sentinelGetLeader` takes the votes peers gave in `current_epoch` and its own of
  `failover_epoch`; or whose winner did not know exactly the other sentinels
  (after a RESET a majority of one is enough);
* a configuration received in the middle of a failover: a hello with a newer
  configuration epoch that names the old address leaves a failover in
  RECONF_SLAVES going, and its promotion is then published under that epoch.

### Cluster

An event (a packet, the cron, a command) together with the `clusterBeforeSleep`
that follows is one action, `Becomes` writes the node's table and, when the
event asked for it, its file. PING, PONG, FAIL and UPDATE are received when they
are sent or are lost (`Ping`, `MarkFailing`); vote requests and votes travel for
any time in `net` (`Vote`, `Count`). Timeouts, replication offsets and whether a
slot has keys are choices. Three history variables say what the properties
leave out, and nothing else does:

* `forgotten`: the epochs whose vote a restart lost. `lastVoteEpoch` is assigned
  after the vote was sent and nothing asks for a save, so the file may be older.
  `OneVotePerEpoch` and `OneWinnerPerEpoch` leave these epochs out.
* `early`: the epochs of elections that began with votes already counted, which
  is the violation `cluster_late_vote` shows. `OneWinnerPerEpoch` leaves them
  out as well.
* `assigned`: the epochs a node gave itself - a takeover, the end of an import,
  a collision. They do not weaken `ElectionSafe`. `ClaimsOrdered` says of two
  masters that begin to dispute a slot with equal config epochs that one of them
  gave itself that epoch (or was elected in a forgotten or early one), and that
  the dispute, however it came about, is over when the one with the smaller ID
  has processed a PING or PONG of the other.

### Server and its connections

The command procedures of `Server` run in a *context*: as a master, as a replica
that is fed, as a server that loads the append only file. What is fed changes
`replica` and `aof` by the same operators, so that the comparison with the key
space is about propagation: expired keys become DELs, EXPIRE becomes PEXPIREAT,
MULTI and EXEC surround a transaction. `seen` and `torn` are history. In
`Blocking` an action is a command or transaction with the
`handleClientsBlockedOnLists` that follows; pushed elements are numbered so that
each can be followed. `Requests` delivers the bytes of `Sendings` in pieces of
any size and resumes the parser where it stopped. In `Replies` all bytes of a
reply are its number, so a byte that is lost, repeated or out of turn shows.

### Replication, Persistence, Resharding, EventLoop

The dataset of a server is the sequence of writes it holds; the formats of RDB
and AOF are abstracted to the writes in them, with a torn tail. One command of
the stream is one unit of the offset. A master may learn late that a slave is
gone.

SLAVEOF is accepted in every state. `cancelReplicationHandshake` undoes an
attempt that is connecting, waits for PONG or transfers; between SEND_AUTH and
RECEIVE_PSYNC it does nothing, and the socket to the old master stays open with
`syncWithMaster` as its handler. `leftover` counts such sockets. A server whose
handshake is in the model's state "connect" may be before or after PONG, so
there both outcomes are possible (`HandshakesLeft`). `LeftoverReply` calls the
handler for such a socket: a master closes it, and so does a slave that has no
other attempt under way. In every other state the reply is taken for one of the
new attempt (`Tangle`): the state of the server is then "tangled", what it knows
of its master is not followed any further, and the properties except it until
it restarts. `slaveof_in_handshake` shows that this happens; `system_parts`
checks what holds of all other servers meanwhile. Not modelled: when the handler
closes the socket of a master (`replication.c:1374`) the event of its descriptor
stays registered.

In `Persistence` a write is acknowledged after `beforeSleep`; write and
fsync may fail or come short, a power loss keeps what was synced and any part of
the rest. `Resharding` follows `move_slot` step by step; `MIGRATE` may time out
before or after its RESTORE is delivered and retries once, the user may start
the tool again with `fix`. `ghosts.gaveUp` are the keys whose MIGRATE was given
up: their copies may be on both nodes, and the properties say what still holds.
`EventLoop` has the loop's own statements as actions and, for the handlers, what
`networking.c` and `replication.c` do to the loop. CONFIG SET maxclients may move
the table (`aeResizeSetSize`), and `fe` in `aeProcessEvents` still points to the
old one when the write half of the event is decided: `Dangling`. `FireDangling`
then does nothing, or anything at all; after the latter the model's step is
"lost", and `LiveHandlersOnly` and `CalledOnce` except it (`Followed`). No claim
is made about a process that used what it read from the freed table.

### Data structures

Pointers are numbers or paths, strings are numbers with their order; the
structure itself is kept: levels and spans of the skiplist, both tables and the
chains of a dict, cells of an intset, bytes of a ziplist and of HyperLogLog
registers. Constants that are large in the code (`ZIP_BIGLEN`, limits of
encodings, register counts) are CONSTANTS, so that small instances meet them.

## 3. Runs

Bounds are named constants. Deadlock is not checked: users and clients may stop,
and behaviours end when a bound on requests, epochs or events is used up.

| Run | Instance | Checks |
|---|---|---|
| `orders_scenarios` | one of seven scenarios. Six with 1 order, 2 slots, 3 to 6 requests: offers, decisions and status by 2 workers; the same with comments; a request up to its first offer, with deletion, by 2 workers (two lengths); a request edited and submitted while its status changes, 1 worker; blank, offer, decision, status, 1 worker; and a seventh without orders: 2 users, 2 chat messages, 4 page loads | `TypeOK`, `RowsConsistent`, `OffersNumbered`, `DecisionOnOffer`, `StatusAnnounced`, `DeletedStaysDeleted`, `ApprovedBeforeOffer`, `NoLostUpdate`, `ChatTypeOK`, `PageExact`, `OneChat` |
| `table_one_worker` | 1 worker, all kinds, 2 orders, 4 requests | `TableRefined` |
| `mail_two_processes` | 2 Celery processes, blank offer, offer and decision, 1 saved preference, fair | `MailTypeOK`, `OfferMailed`, `MailedExactly`, `TasksEnd` |
| `sentinel_failover` | 2 sentinels, a master and a replica, quorum 2, 2 epochs, and one of seven kinds of behaviours (`Scenarios`): a master that comes and goes; 2 requests or replies in flight; 2 epochs with messages left over from the first and a restart or command; 1 epoch with a restart or command; 2 hellos that can still be received; a restart or command beside a hello published before or after it; a hello of the first failover received in the second | `TypeOK`, `ElectionSafe`, `ConfigAgreement`, `PromotedKnown` |
| `cluster_small` | six clusters of 2 to 4 nodes: takeovers and moving slots, a takeover that collides with the end of an import, competing manual failovers, a restart, an election tried again while votes of the first are on their way, a failing master | `ClusterTypeOK`, `ElectionSafe`, `ClaimsOrdered`, `SlaveOwnsNothing` |
| `server_parts` | 2 clients, 2 keys, time to 2; 3 waiters, 2 lists, 3 pushes; 2 peers with five pairs of sendings; 2 connections, 3 replies | `ServerFollowed`, `TransactionsSafe`, `BlockingSound`, `RequestsSound`, `RepliesSound`, `InTurn` |
| `system_parts` | 3 servers, backlog 1 or 2, 2 writes, seven sets of events; 2 keys, 2 values, 2 MIGRATEs given up; 3 writes, eight sets of events; 3 descriptors, 2 clients | `ReplicationSound`, `ReshardingSound`, `PersistenceSound`, `EventLoopSound` |
| `data_parts` | sorted sets of 3 elements, 2 levels, ziplist limit 1; 3 keys in tables up to 4; 4 integers and a word; ziplists of 5 elements; 3 fields; 16 registers | `SortedSetsSound`, `DictSound`, `SetsSound`, `ZiplistSound`, `HashesSound`, `HyperLogLogSound` |

The properties of the last three runs are conjunctions of named parts:

| Property | Parts |
|---|---|
| `ServerFollowed` | types; `ReplicaFollows`, `AofExact`: replica and file are the key space |
| `TransactionsSafe` | `WatchSeesWrites`, `DirtyOnlyWatching`, `TransactionsWhole` |
| `BlockingSound`, `InTurn` | `WaitListsAgree`, `DeliveredOnce`, `CopyAgrees`, `NobodyWaitsForElements`; clients are served in the order they blocked |
| `RequestsSound` | `CommandsExact`, `NothingForgotten` |
| `RepliesSound` | `RepliesInOrder`, `BytesCounted`, `HandlerInstalled`, `SubscriptionsAgree` |
| `ReplicationSound` | `ReplicaExact`, `OffsetsAgree`, `BacklogWithSlaves`, `WaitHonest` |
| `ReshardingSound` | `NothingLost`, `ReadsCurrent`, `OneServer` |
| `PersistenceSound` | `AofHoldsAll`, `RewriteHoldsAll`, `AlwaysDurable`, `DirtyCovers` |
| `EventLoopSound` | `LiveHandlersOnly`, `CalledOnce`, `PassComplete` |
| `SortedSetsSound` | `SkiplistSound`, `ReadsExact`, `WritesExact` |
| `DictSound` | `EntriesFound`, `IterationExact`, `ScanComplete` |
| `SetsSound` | `IntsetSound`, `SetReadsExact`, `SetWritesExact` |
| `ZiplistSound` | `ListExact`, `WalksBack`, `LookupsExact` |
| `HashesSound` | `HashExact`, `HashRepliesExact` |
| `HyperLogLogSound` | `RegistersExact`, `CountExact`, `ReplicaHolds` |

Why the bounds are enough:

* Orders: an overlap needs two handlers on one order, so two slots; a stale page
  needs one request sent before another is answered, which two slots give as
  well, with or without overlap. A second offer needs an offer and a refusal
  before it, then one more request to race with: four requests. Two orders
  matter only to the table as a whole. `table_one_worker` has no employee
  account; `orders_scenarios` has one.
* Chat: a second chat of the same users takes two first messages, a message
  shown twice or missed takes one and a page load beside it; a page load before
  each message and a reload after it are four.
* Sentinel: one epoch suffices for two sentinels to compete for it and for a
  restart between vote and answer; a message left over from an earlier epoch and
  a second configuration take two. All bounds at their highest together are
  beyond TLC; each kind of behaviour combines those that meet, and the proof
  covers any number of epochs, sentinels and messages. Cluster: four nodes give a majority that is not all; four epochs give
  a collision and an election after it.
* Server: two values tell an old one from a new one; time 2 has a key not yet
  expired and one expired. Three waiters on two lists give an element a choice
  and a chain through BRPOPLPUSH. A sending is cut at every byte.
* Replication: a backlog of one command forces full resynchronisation, of two
  allows the partial one; three servers give a chain and a promotion. A sync
  or a save that fails, a crash and a rewrite are combined in sets of events,
  because all of them at once exceed what TLC visits in minutes.
* Data: limits are lowered until the conversions, cascades and rehashings happen
  with three or four elements.

Fairness is assumed in one run only, `mail_two_processes`: weak fairness of
each Celery process going on with its task and taking the next
(`FairMailSpec`). Rendering a PDF ends, and an SMTP connection answers or
breaks; `Lose` itself is not fair. Users, requests, packets and failures are
never assumed to happen.

The runs expected to find a violation:

| Run | What the code does, and what the repository says |
|---|---|
| `current_offer` | `offerApvl` (`order.controller.js:160`) decides on the *last* element of a list ordered newest first; the page says "Approve Current Offer". After a refusal and a second offer the decision is written on the first. |
| `cluster_late_vote` | A FAILOVER_AUTH_ACK counts whatever election it answers (`cluster.c:1922`), and the count is cleared when an attempt is scheduled, not when its election starts: a late vote of the first election counts for the second. The comment at `cluster.c:998` relies on each winner having a majority in its epoch. |
| `slaveof_in_handshake` | `cancelReplicationHandshake` "aborts a non blocking replication attempt if there is one in progress" (`replication.c:1637`), but passes over the states SEND_AUTH to RECEIVE_PSYNC: after a SLAVEOF given then, the old socket is still handled, and a reply on it is taken for one of the new attempt. When the new link is up already, `repl_state` goes back to CONNECT and a second link is made. |
| `ziplist_short_insert` | When the length field of the next entry shrinks by more than the new entry needs, `ziplist.c:622` shrinks the list before its tail is moved, and the last entries are lost; the comment at line 613 speaks of making sure the next entry can hold the length. `data_parts` leaves such insertions out (`ShortInserts`). |

Facts the conditions in the properties bring out, each seen as a counterexample
before the condition was added:

* two handlers on one order lose an update, repeat an offer version, or bring a
  deleted order back (`NoLostUpdate`, `OffersNumbered`, `DeletedStaysDeleted`);
* adding an item from a page loaded before the submission makes the order a
  draft again, and later status changes are then neither logged nor mailed
  (`redraft` in `StatusAnnounced`);
* a mail task that runs between the insertion of an offer and of its items dies
  and mails nobody else, with one web worker too (`OfferMailed`);
* a page that reads a chat before all its users are added and answers at once
  spreads the incomplete list of users to other pages (`early`);
* SET with PX goes to the append only file as a relative time; MOVE drops the
  expire, and neither MOVE nor PERSIST touches a WATCH (`seen`); keys that
  expire or are evicted do not fail an EXEC;
* SORT with STORE does not wake the clients blocked on its list;
* a WAIT of a client that has not written counts slaves that never acknowledged;
* a SCAN misses keys when the table begins to shrink (`ScanComplete` follows it
  up to there);
* after an inline request that ends in LF alone the next byte is dropped; a
  large argument that arrived while clients were paused is read with length 0;
* seconds and milliseconds of the poll's timeout are clipped separately, so an
  overdue timer can wait most of a second (`ae.c:369`-398, against the comment
  at 244); a descriptor can be reused within a round, and the table of events can
  be freed between the two halves of an event (`ae.c:414`);
* a master may forget its vote in a restart, and takeovers, imports and
  collisions make config epochs equal, until the next packet (`ClaimsOrdered`);
* SHUTDOWN without saving leaves what is in the append only buffer unwritten;
* a MIGRATE given up leaves a key on both nodes, and redis-trib's `fix` may
  replace the newer copy (`NothingLost` excuses exactly that).

## 4. Proofs

TLAPS proves the following for *all* values of the constants that satisfy the
named assumptions: any number of workers, users, processes, sentinels, nodes,
slots, keys and epochs, any bounds on requests and faults.

| Module | Theorem | States |
|---|---|---|
| `OrdersProofs` | `TypeCorrect` | `Spec => []TypeOK` |
| | `RowsStayConsistent` | `Spec => []RowsConsistent` |
| | `OffersApproved` | `Spec => []ApprovedBeforeOffer` |
| | `DeletedStays` | `Spec => []DeletedStaysDeleted` |
| | `NumbersKept` | `Spec => []OffersNumbered` |
| | `DecisionsOnOffers` | `Spec => []DecisionOnOffer` |
| | `StatusTold` | `Spec => []StatusAnnounced` |
| | `NoUpdateLost` | `Spec => NoLostUpdate` (an action property) |
| | `OneWorkerTable` | `OneWorker => (Spec => TableRefined)`: the refinement of `OrderTable` |
| `OrderMailProofs` | `MailTypeCorrect`, `MailsExact`, `OffersMailed` | `MailSpec => []MailTypeOK`, `[]MailedExactly`, `[]OfferMailed` |
| `ChatProofs` | `TypeCorrect`, `PagesExact`, `SecondChatExcused` | `ChatSpec => []ChatTypeOK`, `[]PageExact`, `[]OneChat` |
| `SentinelProofs` | `TypeCorrect`, `ElectionsSafe`, `ConfigurationsAgree`, `PromotedIsKnown` | `Spec => []TypeOK`, `[]ElectionSafe`, `[]ConfigAgreement`, `[]PromotedKnown` |
| `ClusterProofs` | `TypeCorrect`, `VotesOnce`, `SlavesOwnNothing` | `Spec => []ClusterTypeOK`, `[]OneVotePerEpoch`, `[]SlaveOwnsNothing` |
| `ServerProofs` | `ReplicaCorrect`, `AofCorrect` | `ServerSpec => []ReplicaFollows`, `[]AofExact` |
| | `WatchCorrect`, `FeedCorrect` | `ServerSpec => [](WatchSeesWrites /\ DirtyOnlyWatching)`, `[]TransactionsWhole` |
| | `ServerFollowedPart`, `TransactionsPart` | `PartsSpec => []ServerFollowed`, `[]TransactionsSafe`: these four and the types, under the specification of the run |
| `BlockingProofs` | `BlockingPart`, `InTurnPart` | `PartsSpec => []BlockingSound`, `PartsSpec => InTurn` (an action property) |
| `SystemPartsProofs` | `ReshardingTypeCorrect`, `ValuesKept`, `RedirectedReads`, `OneServes` | `ReshardingSpec => []ReshardingTypeOK`, `[]NothingLost`, `[]ReadsCurrent`, `[]OneServer` |
| | `ReshardingPart` | `PartsSpec => []ReshardingSound`: these four together |
| | `PersistenceTypeCorrect`, `FileAndBufferHoldAll`, `RewriteLosesNothing`, `AcknowledgedIsSynced`, `ChangesAreCounted` | `PersistenceSpec => []PersistenceTypeOK`, `[]AofHoldsAll`, `[]RewriteHoldsAll`, `[]AlwaysDurable`, `[]DirtyCovers` |
| | `PersistencePart` | `PartsSpec => []PersistenceSound`: these five together |
| | `HandlersLive`, `PassesComplete` | `LoopSpec => []LiveHandlersOnly`, `[]PassComplete` |
| | `EventLoopPart` | `PartsSpec => []EventLoopSound`: these two, `CalledOnce` and the types |

Each follows one pattern: an inductive invariant `Inv`, a lemma for the initial
states, lemmas for every action (or for each conjunct, with a case for each
action), `Spec => []Inv` by PTL, and the theorem from `Inv`. TLC checked each
`Inv` on the small instances before it was proved.

### Orders

* **Types.** `TypeInv` adds `WellFormed` to `TypeOK`: an active request has an
  order and a user of the right kind, a decision carries a decision code and a
  status change a code of the menu, and only a decision reaches the statement
  that writes on the offer. Without it the order a handler saves need not be an
  id, nor the approval it writes one of an offer's.
* **Consistency.** The rows in the table are consistent because the rows in the
  handlers' *memory* are: a handler saves a row that was consistent when it was
  read and to which it applied one operation. `AllConsistent` speaks of both,
  and of every id and not of the live ones only, since a save can bring a row
  back. `EffectConsistent` shows it for each operation.
* **Approval.** An offer appears long after the click that asks for it, so
  `WarrantInv(o)` follows the warrant backwards: an order is warranted (by its
  log entry, or as a blank offer) if it has offers, if its row has a status that
  only a submitted order can have, if such a row is in some handler's memory
  (except a manager's submission that is about to be logged), or if an offer or
  a decision on it is in flight.
* **History** (`HistoryInv`). `Structure` holds of every state: a request is at
  a statement of its kind (`OnPath`), ids not given are nowhere (`Fresh`),
  offers refer to live orders (`Keys`), a decision names an offer of its order
  (`Aimed`), one worker handles one request (`OneAtATime`). Of an order that
  `marks` says was spared overlaps, `Undisturbed(o)`: one handler at most works
  on it and holds the row of the table or that row after its operation. If no
  handler stopped half way either, `Numbered(o)` and `Decided(o)` say how far
  offers and decisions have come at each statement; if no item request made it
  a draft again, `Announced(o)` says what has been logged and mailed. The lost
  update and the refinement follow from `Undisturbed`: a save writes the row of
  the table after one operation.

### OrderMail

Every step of `MailSpec` is a step of the core or leaves it alone
(`CoreChanges`); `CoreInv` carries the invariants of
the core and adds `Unfinished` (an offer without its items has a handler about
to insert them, or was aborted) and `Listed` (a task that speaks of an offer was
queued after the offer was written). `MailInv` says that a task runs once and in
one process (`Jobs`), that nobody has two messages of a task (`Sent`), that the
messages left to a process are for accounts it has not mailed (`Queued`), and
that an account whose preferences were not saved meanwhile has its message or
is among those left (`Served`).

### Chat

Ids in memory, pages and pushes are ids of rows (`Rows`, `Bounded`), a POST is
as far as its `pc` says (`Stages`). A push on its way was published after its
message was inserted, once (`OnTheWay`). A page that was not disturbed while
loading is `Faithful`: every published message of its chats is on it, or in its
queue, and not both. `Complete` - the users of a chat do not change after its
first publication unless it was spoiled early - makes the users a page shows
right. For `OneChat`, `Created` gives every chat the first post that used it and
`Justified` says that an unexcused post found no earlier chat of its users.

### Sentinel

`Local` relates the memory of a sentinel with its file: the vote is never ahead
of the file, because `sentinelFlushConfig` precedes the answer. `Mailed`: a reply in
flight that names a leader names a vote that was cast, however late it is read;
this is all the proof needs of requests and replies. A hello counts as a place
where a configuration is (`Configs`), like a memory or a file, so `Agreed` holds
of it however old it is. `Voted`: votes
remembered were cast, none later than the last one, one per epoch. `Elected`: the winner
of an untouched epoch had the votes of a majority of *all* sentinels and has its
epoch on disk; two majorities intersect, so winners of an
untouched epoch are equal. `Agreed`: a configuration of an untouched epoch comes
from the one promotion of that epoch, which is over. The assumption is
`SentinelAssumption` only: finite sets, a first master, and a quorum that may be
any positive number.

### Cluster

`Members` says of every table and every file that no config epoch in it exceeds
its current epoch, the last vote and the last election neither, and that a node
that owns a slot is a master in its own table; `Post` says it of packets;
`Remembered` that `lastVoteEpoch` is at least every vote that was not forgotten.
Each packet handler is shown to keep a table `Good` and its epochs growing
(`Follows`) by a lemma of its own, and the actions compose them. A vote is
refused unless `lastVoteEpoch` differs from the current epoch, hence is below
it; so a second vote in an epoch needs a restart.
`TopologiesAssumption` describes the cluster a behaviour starts from, as
redis-trib leaves it: slaves own nothing, no epoch exceeds the current one.

### Resharding

Without a MIGRATE given up a key is at one node (`Sure`), except while the
answer of the target is on its way, when its copy is the one that counts. Once
given up, the last value is at one of the two (`Kept`), unless `fix` overwrote
it. `Views` and `Phases` tie the slot tables to the progress of redis-trib,
`Deliveries` the RESTOREs on their way to the MIGRATE that sent them: a RESTORE
of a MIGRATE given up may arrive much later.

### Persistence

`Inv` has a part for each pair of things that must agree. `Logged` (log and
file): a log that is in use has an open file, only a log that is on has a
buffer, and with `always` all that is in the file is synced; so a file that
`backgroundRewriteDoneHandler` puts in place of one *not* in use need not be
synced, and one in use must. `Holds` (file and memory): file and buffer make up
the dataset. `Rewriting` (child and memory) adds to `RewriteHoldsAll` that a
child that is done has an empty pipe, hence that the file it wrote and the rest
the parent appends are the whole dataset, which is what the switch of the files
needs. `Counted` (RDB file and counters) looks at a running child's snapshot
too: the changes since the snapshot are those counted since the fork, so that
subtracting the child's share from `dirty` still covers what its file lacks; a
child that FLUSHALL killed promises nothing. `Flushed` says what a flush with
any outcome leaves, once for the three actions that flush. No assumption on the
constants is needed.

### EventLoop

`LoopInv` has five parts. `Served` ties descriptors to clients: one in use has
one live client, who has no other (`Table`), and `maxfd` is the highest of them
(`Highest`), whatever is resized or freed. `Firing` says that the loop points
into a table that moved only until it is done with the event it is at, and
`CalledWell` that what was called is right in every state but "lost". The time
events need the order of their list: what was due when the pass began lies at
the pass's position or behind it (`PassGoesOn`), what the procedures add gets an
id above `maxId`, and `Timed` keeps the clock at least `SecMs`, so that a time
set to zero by a clock that went back is due. No assumption but the finite table
of `EventLoopAssumption` is needed.

### Server

`Commit` folds the commands that a request fed over the replica and over the
append only file. The provers have no induction, but a set of naturals that is
not empty has a least element (`LeastOf`); `SubsetsOf`, `FoldExists` and
`FoldLast` get from it that a fold exists and what its last step does, whatever
the length, and the lemmas on `ReplicaAfter` and `LoadedAof` follow. `Effect`
states for every command what it leaves of keys and expires as a master, as a
replica that is fed and as a server that loads the file, and `FollowerEffect`
that a follower that executes what the command feeds - the DEL of a key that was
expired, an absolute time instead of a relative one - ends with the same.
`Follows` (the data set of the request so far is that of the replica and of the
file after what was fed so far) is then kept by an expire, by a command, and by
MULTI and EXEC around several. `ServerInv` adds to it the types, `Marked` (a
client whose watched key was changed by another one is dirty, and only a client
that watches is) and that no transaction was torn: during EXEC what is fed is
first in `Quiet` (nothing but DELs of expired keys), then in `Open` (one MULTI
before all writes and no EXEC yet), and is closed by one EXEC.
`ServerAssumption` says what a client may send: commands the server knows, with
arguments of their kind.

### Blocking

The state between two commands says little: `BlockInv` has the types (a list is
not empty, no key is left ready, the replica's lists are the master's), `Agree`
(a client is once in the queue of each key it waits for and in no other),
`OnePlace` (the elements 1 .. `pushed` are divided among lists, clients and what
was removed) and `NobodyWaitsForElements`. The work is inside a command, which
computes a record step by step. `Sound` says of the record what holds after
*every* step: the elements are divided, a replica that runs the commands
propagated so far has the lists of the record but for lists that are empty and
not yet deleted (`Norm`), and the queues hold, in their order, the clients that
wait still (`Queues`). `TidyBut(s, K)` and `SignalledBut(s, K)` say that outside
the keys `K` no list is empty and a key with clients and a list is among the
ready keys. Every command procedure keeps them with `K` empty (`Settled`) when
it is called by `call`; serving a key keeps them for all keys but that one, and
when the key has no clients or no elements left, and its empty list is deleted,
they hold of it too (`KeyDone`). `Serve` has three cases, one lemma each: the
element goes to the client, it moves to the target (which may be the same list,
or make another key ready), or the target has another type and it is put back.

`HandleClientsBlockedOnLists` is a loop without a bound in the code. `Measure`,
the ready keys and the blocked clients counted together, becomes smaller with
each key that is served: a key leaves `ready_keys`, and one that is added costs
a blocked client. It starts at most at the number of lists and clients, so the
fold's rounds are enough and the loop ends with no key ready; then no key has
both clients and elements, which is `NobodyWaitsForElements`.

As for `Server`, folds have no induction: `TraceOf` turns one into the sequence
of its states (`Traced`), and `UpTo`, from the least element of a set of
naturals, carries an invariant along it; there is a trace lemma for each of the
six folds. `FairTo` is the part of `Queues` that gives `InTurn`: whoever was
given an element in this command no longer waits, and neither does anybody who
stood before it in the queue of its only key, because the head is served.

### Assumptions on the constants

`StaffCodesAssumption` (Optiz users pick among the codes of the status menu),
`UsersAssumption` (employees, managers and the null user are distinct),
`KindsAssumption`, `OneWorkerAssumption`, `BoundsAssumption`,
`AccountsAssumption`, `PrefSetsAssumption`, `MaxPrefSavesAssumption`,
`ChatConstants`, `ChatBounds`, `SentinelAssumption`, `ClusterAssumption`,
`TopologiesAssumption`, `ReshardingAssumption` (finitely many keys),
`ServerAssumption`, `BlockingAssumption` (finitely many clients and lists; what
is sent are commands and blocking commands). TLC evaluates all of them in the
runs.

### Only model-checked

* `OneWinnerPerEpoch` (the other half of the cluster's `ElectionSafe`) and
  `ClaimsOrdered` are not true of every value of the constants. The majority a
  slave counts is of the number of masters with slots in *its own* table, and
  that number changes when slots move, when a slave with another view takes
  over, or when a master loses its last slot; two slaves may then both have a
  majority. They hold of the clusters and the commands of the run, which TLC
  explores in full.
* `RequestsSound`: the commands a client sends are the parse of its bytes for
  the messages of the run, which are well formed; of arbitrary messages it is
  not true. `RepliesSound` and `ReplicationSound`: what arrives is compared with
  a buffer that is built by folds over filtered sequences, which the provers
  cannot unfold.
* The data structures (`SortedSetsSound`, `DictSound`, `SetsSound`,
  `ZiplistSound`, `HashesSound`, `HyperLogLogSound`): what their functions
  compute for every input is an induction over data, and bytes, powers of two
  and bit-reversed cursors are beyond the arithmetic of the provers.
* `TasksEnd`: liveness under fairness is outside the prover's reach.

## 5. Not modelled

* WeASe: file uploads (a row nothing else reads); queries, list pages, filters,
  statistics, templates, the layout of the PDF; login, sessions and passwords
  (Django's own); loss of a web socket (the client does not handle it);
  settings, urls, admin, migrations; push notifications, internal mail,
  companies and the arithmetic of the offer form (see the plan).
* Redis, within the modules: TILT as a mode, notification scripts and their
  retries, SENTINEL SET; cluster handshakes, FORGET, RESET, replica migration;
  SELECT inside a session or in the stream, SET PX, INCRBYFLOAT, the save inside
  FLUSHALL; SORT; blocked clients that are redirected, READONLY replicas, the
  socket cache of MIGRATE; timers that delete themselves; SSCAN, HSCAN, ZSCAN,
  HINCRBYFLOAT; corrupted HyperLogLog strings; `SRANDMEMBER` with counts beyond
  32 bits.
* Redis, whole parts: Lua scripting (a script runs as one command), `config.c`
  (its parameters are constants), latency and slow logs, the tools
  (`redis-cli`, benchmark, check-dump), `sds`, allocation, checksums.
* Third-party client libraries and the admin theme.

## 6. Plan

1. Done: all modules of section 2, their runs, and the proofs of section 4.
2. Proofs next: `EntriesFound` of `Dict` and the replies of `Replies`.
3. `Notifications`, on top of `Orders`: pushes of log entries,
   `getNotifications` and `getAllApv` with answers out of order,
   `notificationViewed`. A settled page shows what is not viewed; the orders
   that wait for approval are those of the table.
4. `InternalMail`: drafts and recipients added after the publication, replies,
   folders. Abstract specification: a message is in the inbox of its recipients
   once it is sent.
5. `Company`: assignment of Optiz users and addresses by difference with a list
   read earlier, with two editors. `OfferForm`: totals and removal of lines.
