-------------------------------- MODULE Chat --------------------------------
(***************************************************************************)
(* The chat: table Chat with its users, table ChatMessage, the handler of  *)
(* messaging/views.py that writes them, and the ChatController that runs   *)
(* in the page of each user.  A page asks for the user's chats once, when  *)
(* it is opened; from then on it lives on the messages SwampDragon pushes  *)
(* to every subscribed page.  Whether a first message starts a chat or     *)
(* goes on with one is decided by the page, from the chats it shows.       *)
(***************************************************************************)
EXTENDS WebWorkers, Naturals, Sequences

CONSTANTS
    Users,
    MaxClicks,     \* bound on the messages sent
    MaxOpens       \* bound on the pages opened

ASSUME ChatBounds == MaxClicks \in Nat /\ MaxOpens \in Nat

VARIABLES
    members,      \* the users of each chat, by id
    stored,       \* the chat of each ChatMessage row, by id
    post,         \* the POST that each click on "send" causes
    page,         \* what the page of each user shows
    subscribed,   \* pages that have subscribed to channel chat-message
    pushes,       \* messages on their way to each page, oldest first
    clicks, opens,
    raced,        \* pages opened while a POST was at work (history only)
    early         \* chats with a message published before they had all
                  \* their users (history only)

chatVars == <<members, stored, post, page, subscribed, pushes, clicks, opens,
              raced, early>>

Clicks == 1 .. MaxClicks
NoChat == 0

\* A chat in a page: how often each message is shown in it.
Shown == [users : SUBSET Users, group : [Clicks -> Nat]]
Empty == [c \in {} |-> {}]

Closed == [phase |-> "closed", chats |-> Empty]

\* excused: the page had no way to know of a chat with the same users.
Unsent == [pc |-> "unsent", target |-> {}, chat |-> NoChat, todo |-> {},
           msg |-> 0, excused |-> FALSE]

Working == {"sent", "members", "message", "publish"}
AtWork(n) == post[n].pc \in Working

ChatTypeOK ==
    /\ members \in Seq(SUBSET Users) /\ Len(members) <= MaxClicks
    /\ stored \in Seq(1 .. Len(members)) /\ Len(stored) <= MaxClicks
    /\ post \in [Clicks -> [pc : Working \cup {"unsent", "done", "failed"},
                            target : SUBSET Users, chat : 0 .. MaxClicks,
                            todo : SUBSET Users, msg : 0 .. MaxClicks,
                            excused : BOOLEAN]]
    /\ \A u \in Users :
         /\ page[u].phase \in {"closed", "asked", "answered", "shown"}
         /\ DOMAIN page[u].chats \subseteq 1 .. Len(members)
         /\ \A c \in DOMAIN page[u].chats : page[u].chats[c] \in Shown
    /\ subscribed \subseteq Users /\ raced \subseteq Users
    /\ early \subseteq Clicks
    /\ pushes \in [Users -> Seq([msg : Clicks, chat : Clicks,
                                 users : SUBSET Users])]
    /\ clicks \in 0 .. MaxClicks /\ opens \in 0 .. MaxOpens

ChatInit ==
    /\ members = <<>> /\ stored = <<>>
    /\ post = [n \in Clicks |-> Unsent]
    /\ page = [u \in Users |-> Closed]
    /\ subscribed = {} /\ raced = {} /\ early = {}
    /\ pushes = [u \in Users |-> <<>>]
    /\ clicks = 0 /\ opens = 0

-----------------------------------------------------------------------------
(* Opening a page *)

Loading(u) == \/ page[u].phase \in {"asked", "answered"}
              \/ page[u].phase = "shown" /\ u \notin subscribed

Open(u) ==
    /\ opens < MaxOpens
    /\ opens' = opens + 1
    /\ page' = [page EXCEPT ![u] = [phase |-> "asked", chats |-> Empty]]
    /\ subscribed' = subscribed \ {u}
    /\ pushes' = [pushes EXCEPT ![u] = <<>>]
    /\ raced' = IF \E n \in Clicks : AtWork(n) THEN raced \cup {u}
                ELSE raced \ {u}
    /\ UNCHANGED <<members, stored, post, clicks, early>>

Subscribe(u) ==
    /\ page[u].phase # "closed" /\ u \notin subscribed
    /\ subscribed' = subscribed \cup {u}
    /\ UNCHANGED <<members, stored, post, page, pushes, clicks, opens, raced,
                   early>>

\* ChatViewSet.list: the user's chats, each with its messages.
Stored(c) == [m \in Clicks |->
    IF m \in DOMAIN stored /\ stored[m] = c THEN 1 ELSE 0]

Read(u) ==
    /\ page[u].phase = "asked"
    /\ page' = [page EXCEPT ![u] =
         [phase |-> "answered",
          chats |-> [c \in {d \in DOMAIN members : u \in members[d]} |->
                       [users |-> members[c], group |-> Stored(c)]]]]
    /\ UNCHANGED <<members, stored, post, subscribed, pushes, clicks, opens,
                   raced, early>>

\* getChatsSuccess: until then vm.chats is undefined.
Show(u) ==
    /\ page[u].phase = "answered"
    /\ page' = [page EXCEPT ![u].phase = "shown"]
    /\ UNCHANGED <<members, stored, post, subscribed, pushes, clicks, opens,
                   raced, early>>

\* vm.chats as the handlers of the page find it.
ChatsOf(u) == IF page[u].phase = "shown" THEN page[u].chats ELSE Empty

-----------------------------------------------------------------------------
(* Sending *)

SendFn(u, target, chat, excused) ==
    /\ clicks < MaxClicks
    /\ clicks' = clicks + 1
    /\ post' = [post EXCEPT ![clicks + 1] =
                  [pc |-> "sent", target |-> target, chat |-> chat,
                   todo |-> {}, msg |-> 0, excused |-> excused]]
    /\ raced' = raced \cup {v \in Users : Loading(v)}
    /\ UNCHANGED <<members, stored, page, subscribed, pushes, opens, early>>

\* Mutant: the sender is not counted among the users of the chat.
MatchingOthers(u, target) ==
    {c \in DOMAIN ChatsOf(u) : ChatsOf(u)[c].users = target \ {u}}

\* The chats shown whose chat_user are the users picked and the sender.  The
\* iteration after the first match raises (updChat.users has been omitted),
\* so that there is one POST.
Matching(u, target) ==
    {c \in DOMAIN ChatsOf(u) : ChatsOf(u)[c].users = target}

\* sendChat without a conversation: the users have been picked from the list.
SendToUsers(u) == \E others \in (SUBSET (Users \ {u})) \ {{}} :
    LET target == others \cup {u} IN
    /\ page[u].phase # "closed"
    /\ IF Matching(u, target) # {}
         THEN \E c \in Matching(u, target) : SendFn(u, target, c, TRUE)
         ELSE SendFn(u, target, NoChat,
                \/ u \in raced \/ Loading(u) \/ pushes[u] # <<>>
                \/ \E n \in Clicks :
                     post[n].target = target /\ (AtWork(n) \/ post[n].pc = "failed"))

\* sendChat with the conversation that is open in the page.
SendToChat(u) == \E c \in DOMAIN ChatsOf(u) :
    SendFn(u, ChatsOf(u)[c].users, c, TRUE)

-----------------------------------------------------------------------------
(* ChatMessageViewSet.perform_create *)

Received(n) ==
    /\ post[n].pc = "sent"
    /\ OneWorker => \A k \in Clicks : AtWork(k) => post[k].pc = "sent"

\* Mutant: the id of the chat is taken before the row is inserted.
CreateChatStaleId(n) ==
    /\ Received(n) /\ post[n].chat = NoChat
    /\ members' = Append(members, {})
    /\ post' = [post EXCEPT ![n].pc = "message", ![n].chat = Len(members)]
    /\ UNCHANGED <<stored, page, subscribed, pushes, clicks, opens, raced,
                   early>>

CreateChat(n) ==
    /\ Received(n) /\ post[n].chat = NoChat
    /\ members' = Append(members, {})
    /\ post' = [post EXCEPT ![n].pc = "members",
                            ![n].chat = Len(members) + 1,
                            ![n].todo = post[n].target]
    /\ UNCHANGED <<stored, page, subscribed, pushes, clicks, opens, raced,
                   early>>

FindChat(n) ==
    /\ Received(n) /\ post[n].chat # NoChat
    /\ post' = [post EXCEPT ![n].pc = "message"]
    /\ UNCHANGED <<members, stored, page, subscribed, pushes, clicks, opens,
                   raced, early>>

\* chat.users.add, one statement for each user.
AddMember(n) == \E u \in post[n].todo :
    /\ post[n].pc = "members"
    /\ members' = [members EXCEPT ![post[n].chat] = @ \cup {u}]
    /\ post' = [post EXCEPT ![n].todo = @ \ {u},
                            ![n].pc = IF post[n].todo = {u} THEN "message"
                                      ELSE "members"]
    /\ UNCHANGED <<stored, page, subscribed, pushes, clicks, opens, raced,
                   early>>

\* ChatMessage.objects.create; SelfPublishModel.save publishes it afterwards.
Insert(n) ==
    /\ post[n].pc = "message"
    /\ stored' = Append(stored, post[n].chat)
    /\ post' = [post EXCEPT ![n].pc = "publish", ![n].msg = Len(stored) + 1]
    /\ UNCHANGED <<members, page, subscribed, pushes, clicks, opens, raced,
                   early>>

\* Every subscribed page gets the message, with the chat and its users.
Publish(n) ==
    /\ post[n].pc = "publish"
    /\ pushes' = [u \in Users |->
         IF u \in subscribed
           THEN Append(pushes[u], [msg |-> post[n].msg, chat |-> post[n].chat,
                                   users |-> members[post[n].chat]])
           ELSE pushes[u]]
    /\ post' = [post EXCEPT ![n].pc = "done"]
    /\ early' = IF \E k \in Clicks :
                     post[k].chat = post[n].chat /\ post[k].todo # {}
                  THEN early \cup {post[n].chat} ELSE early
    /\ UNCHANGED <<members, stored, page, subscribed, clicks, opens, raced>>

\* An exception (an account that has been deleted, Redis out of reach) or a
\* killed worker: what is written stays written.
Fail(n) ==
    /\ AtWork(n)
    /\ post' = [post EXCEPT ![n].pc = "failed"]
    /\ UNCHANGED <<members, stored, page, subscribed, pushes, clicks, opens,
                   raced, early>>

-----------------------------------------------------------------------------
(* $dragon.onChannelMessage *)

OneMore(group, m) == [group EXCEPT ![m] = @ + 1]
NoMessage == [m \in Clicks |-> 0]

\* Mutant: a chat the page does not know is added without its first message.
WithPushNewEmpty(chats, p) ==
    IF p.chat \in DOMAIN chats
      THEN [chats EXCEPT ![p.chat].group = OneMore(@, p.msg)]
      ELSE [c \in DOMAIN chats \cup {p.chat} |->
              IF c = p.chat THEN [users |-> p.users, group |-> NoMessage]
              ELSE chats[c]]

\* The message joins the chat the page shows, or the chat is added with it.
WithPush(chats, p) ==
    IF p.chat \in DOMAIN chats
      THEN [chats EXCEPT ![p.chat].group = OneMore(@, p.msg)]
      ELSE [c \in DOMAIN chats \cup {p.chat} |->
              IF c = p.chat
                THEN [users |-> p.users, group |-> OneMore(NoMessage, p.msg)]
                ELSE chats[c]]

\* With vm.chats undefined the handler raises and the message is dropped.
Push(u) ==
    /\ pushes[u] # <<>>
    /\ pushes' = [pushes EXCEPT ![u] = Tail(@)]
    /\ page' = IF page[u].phase = "shown"
                 THEN [page EXCEPT ![u].chats = WithPush(@, Head(pushes[u]))]
                 ELSE page
    /\ UNCHANGED <<members, stored, post, subscribed, clicks, opens, raced,
                   early>>

PageNext(u) == Open(u) \/ Subscribe(u) \/ Read(u) \/ Show(u) \/ Push(u)
               \/ SendToUsers(u) \/ SendToChat(u)

PostNext(n) == CreateChat(n) \/ FindChat(n) \/ AddMember(n) \/ Insert(n)
               \/ Publish(n) \/ Fail(n)

ChatNext == (\E u \in Users : PageNext(u)) \/ (\E n \in Clicks : PostNext(n))

ChatSpec == ChatInit /\ [][ChatNext]_chatVars

-----------------------------------------------------------------------------
(* Properties *)

Settled(u) == /\ page[u].phase = "shown" /\ u \in subscribed
              /\ u \notin raced /\ pushes[u] = <<>>

\* A page that was opened while no message was being sent, and has received
\* its pushes, shows each message of its user's chats exactly once, in a chat
\* with all its users: the list read at the start and the pushes that follow
\* neither overlap nor leave a gap.  Only a message whose handler stopped
\* before it published it may be missing, and a message sent to a chat that
\* did not have all its users yet spoils the chat.
PageExact == \A u \in Users : Settled(u) =>
    \A n \in Clicks :
        LET c == post[n].chat IN
        post[n].pc = "done" /\ u \in members[c] /\ c \notin early =>
            /\ c \in DOMAIN page[u].chats
            /\ page[u].chats[c].users = members[c]
            /\ page[u].chats[c].group[post[n].msg] = 1

\* Nothing in the database keeps two chats of the same users apart.  Still, a
\* first message starts a second chat only from a page that could not know
\* the first: one opened while messages were being sent, one with pushes on
\* their way, or one whose user wrote while the other's first message was at
\* work or had failed.
OneChat == \A n, k \in Clicks :
    /\ n < k /\ post[n].pc = "done" /\ post[k].pc = "done"
    /\ post[n].chat # post[k].chat
    /\ members[post[n].chat] = members[post[k].chat]
    /\ post[n].chat \notin early
    => post[k].excused

=============================================================================
