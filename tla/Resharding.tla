----------------------------- MODULE Resharding -----------------------------
(***************************************************************************)
(* A hash slot moves from one node of a Redis cluster to another while     *)
(* clients use its keys: redis-trib's move_slot, CLUSTER SETSLOT, MIGRATE  *)
(* with its timeouts and its retry, RESTORE-ASKING at the target, and the  *)
(* redirections of getNodeByQuery (cluster.c).                             *)
(***************************************************************************)
EXTENDS Integers, FiniteSets

CONSTANTS
    SlotKeys,       \* the keys of the slot
    Source, Target, \* the nodes
    NoNode,
    MaxValues,      \* bound on the writes of the client: every write has a new value
    MaxGiveUps      \* bound on the MIGRATEs that are given up

ASSUME ReshardingAssumption ==
    /\ IsFiniteSet(SlotKeys)
    /\ Source # Target /\ NoNode \notin {Source, Target} /\ MaxValues \in Nat

VARIABLES
    slotView,   \* of every node: slots, importing_slots_from and migrating_slots_to of the slot
    data,       \* of every node: the value of every key, 0 for none
    mover,      \* redis-trib: how far move_slot has come, and whether it fixes
    mig,        \* the MIGRATE that the source is busy with
    restores,   \* the RESTOREs that the target has not run yet
    request,    \* the client: its request and the node it is sent to
    truth,      \* the value of every key by the writes acknowledged so far
    ghosts      \* keys whose MIGRATE was given up, whether a reply was stale, counters

xvars == <<slotView, data, mover, mig, restores, request, truth, ghosts>>

Owners == {Source, Target}
NoMig == [state |-> "none", key |-> CHOOSE k \in SlotKeys : TRUE, value |-> 0, retried |-> FALSE, replace |-> FALSE, id |-> 0, answer |-> "none"]
NoRequest == [op |-> "none", keys |-> {}, value |-> 0, at |-> NoNode, asking |-> FALSE]

-----------------------------------------------------------------------------
\* A node that imports a slot serves it without being asked to.
ImportingServes(n, keys, asking) ==
    LET v == slotView[n]
        missing == {k \in keys : data[n][k] = 0}
    IN  IF v.owner = NoNode THEN [to |-> NoNode, how |-> "down"]
        ELSE IF v.owner = n /\ v.migrating # NoNode /\ missing # {} THEN [to |-> v.migrating, how |-> "ask"]
        ELSE IF v.importing # NoNode THEN [to |-> n, how |-> "serve"]
        ELSE IF v.owner = n THEN [to |-> n, how |-> "serve"]
        ELSE [to |-> v.owner, how |-> "moved"]

\* Several keys are served though some are still at the source.
ImportingServesMissing(n, keys, asking) ==
    LET v == slotView[n]
        missing == {k \in keys : data[n][k] = 0}
    IN  IF v.owner = NoNode THEN [to |-> NoNode, how |-> "down"]
        ELSE IF v.owner = n /\ v.migrating # NoNode /\ missing # {} THEN [to |-> v.migrating, how |-> "ask"]
        ELSE IF v.owner = n \/ (v.importing # NoNode /\ asking) THEN [to |-> n, how |-> "serve"]
        ELSE [to |-> v.owner, how |-> "moved"]

\* getNodeByQuery, for keys of this slot; a transaction counts as the keys of all its
\* commands.  Read-only clients of replicas are left out.
GetNodeByQuery(n, keys, asking) ==
    LET v == slotView[n]
        missing == {k \in keys : data[n][k] = 0}
        migrating == v.owner = n /\ v.migrating # NoNode
        importing == ~migrating /\ v.importing # NoNode
    IN  IF v.owner = NoNode THEN [to |-> NoNode, how |-> "down"]
        ELSE IF migrating /\ missing # {} THEN [to |-> v.migrating, how |-> "ask"]
        ELSE IF importing /\ asking
             THEN IF Cardinality(keys) > 1 /\ missing # {} THEN [to |-> NoNode, how |-> "tryagain"]
                  ELSE [to |-> n, how |-> "serve"]
        ELSE IF v.owner = n THEN [to |-> n, how |-> "serve"]
        ELSE [to |-> v.owner, how |-> "moved"]

\* createDumpPayload and verifyDumpPayload: the payload ends with the version of its
\* writer, which must be the reader's.
VerifyDumpPayload == mover.sameVersion

\* The outcome of RESTORE-ASKING at the target: a redirection is an error, and so are a
\* key that is there already and a payload of another version.
RestoreOutcome(m) ==
    IF GetNodeByQuery(Target, {m.key}, TRUE).how # "serve" THEN "error"
    ELSE IF ~m.replace /\ data[Target][m.key] # 0 THEN "busykey"
    ELSE IF ~VerifyDumpPayload THEN "error" ELSE "ok"

-----------------------------------------------------------------------------
ReshardingInit ==
    /\ slotView = [n \in Owners |-> [owner |-> Source, importing |-> NoNode, migrating |-> NoNode]]
    /\ data = [n \in Owners |-> [k \in SlotKeys |-> 0]]
    /\ mover \in [step : {"start"}, told : {{}}, fix : BOOLEAN, sameVersion : BOOLEAN]
    /\ mig = NoMig /\ restores = {} /\ request = NoRequest
    /\ truth = [k \in SlotKeys |-> 0]
    /\ ghosts = [gaveUp |-> {}, staleReply |-> FALSE, writes |-> 0, giveUps |-> 0]

Quiet == mig.state = "none"

(* redis-trib: move_slot.                                                  *)

\* CLUSTER SETSLOT IMPORTING and MIGRATING, in this order.
SetImporting ==
    /\ mover.step = "start"
    /\ slotView' = [slotView EXCEPT ![Target].importing = Source]
    /\ mover' = [mover EXCEPT !.step = "importing"]
    /\ UNCHANGED <<data, mig, restores, request, truth, ghosts>>
SetMigrating ==
    /\ mover.step = "importing" /\ Quiet /\ slotView[Source].owner = Source
    /\ slotView' = [slotView EXCEPT ![Source].migrating = Target]
    /\ mover' = [mover EXCEPT !.step = "moving"]
    /\ UNCHANGED <<data, mig, restores, request, truth, ghosts>>

\* CLUSTER GETKEYSINSLOT gives a key, and MIGRATE is called for it; without keys the new
\* owner is announced.
StartMigrate(k, replace) ==
    /\ mover.step = "moving" /\ Quiet /\ data[Source][k] # 0
    /\ replace => mover.fix /\ data[Target][k] # 0
    /\ mig' = [NoMig EXCEPT !.state = "connecting", !.key = k, !.value = data[Source][k], !.replace = replace]
    /\ UNCHANGED <<slotView, data, mover, restores, request, truth, ghosts>>
AllMoved ==
    /\ mover.step = "moving" /\ Quiet /\ \A k \in SlotKeys : data[Source][k] = 0
    /\ mover' = [mover EXCEPT !.step = "owners"]
    /\ UNCHANGED <<slotView, data, mig, restores, request, truth, ghosts>>

\* CLUSTER SETSLOT NODE, to every node in any order: refused by the old owner while it has
\* keys; the new owner is no longer importing.
SetOwner(n) ==
    /\ mover.step = "owners" /\ n \notin mover.told
    /\ n = Source => Quiet /\ (slotView[n].owner = Source => \A k \in SlotKeys : data[n][k] = 0)
    /\ slotView' = [slotView EXCEPT ![n].owner = Target,
                                    ![n].migrating = IF \A k \in SlotKeys : data[n][k] = 0 THEN NoNode ELSE @,
                                    ![n].importing = IF n = Target THEN NoNode ELSE @]
    /\ mover' = [mover EXCEPT !.told = @ \cup {n}]
    /\ UNCHANGED <<data, mig, restores, request, truth, ghosts>>

\* The source hears of the new owner from the target (clusterUpdateSlotsConfigWith): keys
\* that it still has in the slot are deleted.
Hears ==
    /\ slotView[Target].owner = Target /\ slotView[Source].owner = Source /\ Quiet
    /\ slotView' = [slotView EXCEPT ![Source].owner = Target]
    /\ data' = [data EXCEPT ![Source] = [k \in SlotKeys |-> 0]]
    /\ UNCHANGED <<mover, mig, restores, request, truth, ghosts>>

-----------------------------------------------------------------------------
(* MIGRATE.  The source waits for it and does nothing else.                *)

\* migrateGetSocket fails: an error, and the key stays.
ConnectFails ==
    /\ mig.state = "connecting"
    /\ mig' = NoMig
    /\ UNCHANGED <<slotView, data, mover, restores, request, truth, ghosts>>

\* The RESTORE is written; it gets nowhere when the cached socket was closed by the target.
SendRestore(delivered) ==
    /\ mig.state = "connecting"
    /\ LET id == ghosts.giveUps + 1
       IN  /\ mig' = [mig EXCEPT !.state = "waiting", !.id = id]
           /\ restores' = IF delivered THEN restores \cup {[key |-> mig.key, value |-> mig.value, replace |-> mig.replace, id |-> id]}
                          ELSE restores
    /\ UNCHANGED <<slotView, data, mover, request, truth, ghosts>>

\* The reply is read; only then the key is deleted here.
ReadReply ==
    /\ mig.state = "waiting" /\ mig.answer # "none"
    /\ data' = IF mig.answer = "ok" THEN [data EXCEPT ![Source][mig.key] = 0] ELSE data
    /\ mig' = NoMig
    /\ UNCHANGED <<slotView, mover, restores, request, truth, ghosts>>

\* The key is deleted when the time is over.
GiveUpDeletes(timeout) ==
    /\ mig.state = "waiting" /\ ghosts.giveUps < MaxGiveUps
    /\ data' = [data EXCEPT ![Source][mig.key] = 0]
    /\ mig' = NoMig
    /\ ghosts' = [ghosts EXCEPT !.giveUps = @ + 1]
    /\ UNCHANGED <<slotView, mover, restores, request, truth>>

\* An error of the socket (socket_wr_err, socket_rd_err) closes it; MIGRATE tries once
\* more unless the time was over.  The RESTORE may have run, or may yet run.
GiveUp(timeout) ==
    /\ mig.state = "waiting" /\ ghosts.giveUps < MaxGiveUps
    /\ mig' = IF timeout \/ mig.retried THEN NoMig
              ELSE [mig EXCEPT !.state = "connecting", !.retried = TRUE, !.answer = "none"]
    /\ ghosts' = [ghosts EXCEPT !.gaveUp = @ \cup {mig.key}, !.giveUps = @ + 1]
    /\ UNCHANGED <<slotView, data, mover, restores, request, truth>>

\* The target runs a RESTORE; nobody reads the reply when the socket was given up.
Restore(m) ==
    /\ m \in restores
    /\ data' = IF RestoreOutcome(m) = "ok" THEN [data EXCEPT ![Target][m.key] = m.value] ELSE data
    /\ restores' = restores \ {m}
    /\ mig' = IF mig.state = "waiting" /\ mig.id = m.id THEN [mig EXCEPT !.answer = RestoreOutcome(m)] ELSE mig
    /\ UNCHANGED <<slotView, mover, request, truth, ghosts>>

-----------------------------------------------------------------------------
(* A client, which follows redirections.                                   *)

Issue(op, keys, n) ==
    /\ request.op = "none" /\ keys # {}
    /\ op # "get" => ghosts.writes < MaxValues
    /\ request' = [op |-> op, keys |-> keys, value |-> ghosts.writes + 1, at |-> n, asking |-> FALSE]
    /\ ghosts' = IF op = "get" THEN ghosts ELSE [ghosts EXCEPT !.writes = @ + 1]
    /\ UNCHANGED <<slotView, data, mover, mig, restores, truth>>

\* A node runs the request, or redirects the client, which sends ASKING first if it is
\* told so, or refuses it.
Process ==
    /\ request.op # "none" /\ (request.at = Source => Quiet)
    /\ LET n == request.at
           r == GetNodeByQuery(n, request.keys, request.asking)
           written == IF request.op = "set" THEN request.value ELSE 0
       IN  CASE r.how = "serve" ->
                  /\ request' = NoRequest
                  /\ IF request.op = "get"
                     THEN /\ ghosts' = [ghosts EXCEPT !.staleReply =
                                          @ \/ \E k \in request.keys \ ghosts.gaveUp : data[n][k] # truth[k]]
                          /\ UNCHANGED <<data, truth>>
                     ELSE /\ data' = [data EXCEPT ![n] = [k \in SlotKeys |-> IF k \in request.keys THEN written ELSE @[k]]]
                          /\ truth' = [k \in SlotKeys |-> IF k \in request.keys THEN written ELSE truth[k]]
                          /\ UNCHANGED ghosts
             [] r.how \in {"moved", "ask"} ->
                  /\ request' = [request EXCEPT !.at = r.to, !.asking = r.how = "ask"]
                  /\ UNCHANGED <<data, truth, ghosts>>
             [] OTHER -> request' = NoRequest /\ UNCHANGED <<data, truth, ghosts>>
    /\ UNCHANGED <<slotView, mover, mig, restores>>

ReshardingNext ==
    \/ SetImporting \/ SetMigrating \/ AllMoved \/ Hears
    \/ \E k \in SlotKeys : \E replace \in BOOLEAN : StartMigrate(k, replace)
    \/ \E n \in Owners : SetOwner(n)
    \/ ConnectFails \/ ReadReply \/ (\E delivered \in BOOLEAN : SendRestore(delivered))
    \/ (\E timeout \in BOOLEAN : GiveUp(timeout)) \/ (\E m \in restores : Restore(m))
    \/ (\E op \in {"get", "set", "del"} : \E keys \in SUBSET SlotKeys : \E n \in Owners : Issue(op, keys, n))
    \/ Process

ReshardingSpec == ReshardingInit /\ [][ReshardingNext]_xvars

-----------------------------------------------------------------------------
\* Types; the source migrates what it owns, and while a MIGRATE waits its key is there.
ReshardingTypeOK ==
    /\ \A n \in Owners : slotView[n].owner \in Owners /\ slotView[n].importing \in {NoNode, Source}
                         /\ slotView[n].migrating \in {NoNode, Target}
    /\ data \in [Owners -> [SlotKeys -> 0 .. MaxValues]]
    /\ mig.state \in {"none", "connecting", "waiting"}
    /\ ~Quiet => data[Source][mig.key] = mig.value

\* Whatever fails and however late a RESTORE runs, the last value acknowledged to the
\* client is at one of the nodes.  Excepted are keys whose MIGRATE was given up when the
\* slot is being fixed: their copy at the target, which MIGRATE REPLACE overwrites, may
\* have been written by a client that was told to ask there.
NothingLost ==
    \A k \in SlotKeys \ (IF mover.fix THEN ghosts.gaveUp ELSE {}) : truth[k] # 0 => \E n \in Owners : data[n][k] = truth[k]

\* A client that follows the redirections reads what was last written, at every moment of
\* the move; keys are excepted for which a MIGRATE was given up and which are on both nodes.
ReadsCurrent == ~ghosts.staleReply

\* A key is served by one node at a time to clients that do not ask, and a client that is
\* told to ask is told so of keys that the source does not have.
OneServer ==
    \A k \in SlotKeys :
        /\ ~(GetNodeByQuery(Source, {k}, FALSE).how = "serve" /\ GetNodeByQuery(Target, {k}, FALSE).how = "serve")
        /\ GetNodeByQuery(Source, {k}, FALSE).how = "ask" => GetNodeByQuery(Target, {k}, TRUE).how = "serve"
=============================================================================
