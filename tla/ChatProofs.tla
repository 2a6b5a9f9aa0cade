----------------------------- MODULE ChatProofs -----------------------------
(***************************************************************************)
(* What the chat promises, proved for any number of users, messages, pages *)
(* and workers.                                                            *)
(***************************************************************************)
EXTENDS Chat, FiniteSetTheorems, SequenceTheorems, TLAPS

Posts == [pc : Working \cup {"unsent", "done", "failed"}, target : SUBSET Users,
          chat : 0 .. MaxClicks, todo : SUBSET Users, msg : 0 .. MaxClicks,
          excused : BOOLEAN]

Phases == {"closed", "asked", "answered", "shown"}

ChatLists == UNION {[S -> Shown] : S \in SUBSET Clicks}

Pages == [phase : Phases, chats : ChatLists]

Messages == [msg : Clicks, chat : Clicks, users : SUBSET Users]

\* The types of all the variables.
Types ==
    /\ members \in Seq(SUBSET Users)
    /\ stored \in Seq(Clicks)
    /\ post \in [Clicks -> Posts]
    /\ page \in [Users -> Pages]
    /\ subscribed \subseteq Users /\ raced \subseteq Users
    /\ early \subseteq Clicks
    /\ pushes \in [Users -> Seq(Messages)]
    /\ clicks \in 0 .. MaxClicks /\ opens \in 0 .. MaxOpens

\* No table outgrows the clicks: a click that has a chat may have inserted it,
\* one that has a message has inserted it.
ChatLess == {n \in Clicks : post[n].chat = NoChat}
MessageLess == {n \in Clicks : post[n].msg = 0}

Bounded ==
    /\ Len(members) + Cardinality(ChatLess) <= MaxClicks
    /\ Len(stored) + Cardinality(MessageLess) <= MaxClicks

\* Every id in memory, in a page or in a push is the id of a row.
Rows ==
    /\ \A i \in DOMAIN stored : stored[i] <= Len(members)
    /\ \A n \in Clicks : post[n].chat <= Len(members)
                         /\ post[n].msg <= Len(stored)
    /\ \A u \in Users : DOMAIN page[u].chats \subseteq DOMAIN members

\* How far a POST has come, by its pc.
Stage(n) ==
    LET p == post[n] IN
    /\ p.pc = "unsent" <=> n > clicks
    /\ p.pc = "unsent" => p = Unsent
    /\ p.pc \in {"members", "message", "publish", "done"} => p.chat # NoChat
    /\ p.pc = "sent" /\ p.chat = NoChat => p.target # {}
    /\ p.pc = "members" => p.todo # {}
    /\ p.pc \notin {"members", "failed"} => p.todo = {}
    /\ p.pc \in {"unsent", "sent", "members", "message"} => p.msg = 0
    /\ p.pc \in {"publish", "done"} => p.msg # 0
    /\ p.msg # 0 => stored[p.msg] = p.chat

Stages == /\ \A n \in Clicks : Stage(n)
          /\ \A n, k \in Clicks : post[n].msg = post[k].msg /\ n # k
                                    => post[n].msg = 0

\* No handler is adding users to chat c.
Frozen(c) == \A k \in Clicks : post[k].chat = c => post[k].pc # "members"

\* What is on its way to a page.
Carried(p) ==
    /\ p.msg \in DOMAIN stored /\ p.chat = stored[p.msg]
    /\ \E n \in Clicks : post[n].pc = "done" /\ post[n].msg = p.msg
    /\ p.chat \notin early => p.users = members[p.chat] /\ Frozen(p.chat)

OnTheWay == \A u \in Users : 
    /\ \A i \in DOMAIN pushes[u] : Carried(pushes[u][i])
    /\ \A i, j \in DOMAIN pushes[u] :
         pushes[u][i].msg = pushes[u][j].msg => i = j

\* A page that is not open yet.
Blank == \A u \in Users :
    /\ page[u].phase = "closed" => u \notin subscribed /\ pushes[u] = <<>>
    /\ page[u].phase \in {"closed", "asked"} => page[u].chats = Empty

\* A page not disturbed while it was loading: nobody is at work until it has
\* loaded, and then it shows each message of a chat, or is about to get it.
Idle == \A n \in Clicks : ~AtWork(n)

OnPage(u, n) == /\ post[n].chat \in DOMAIN page[u].chats
                /\ page[u].chats[post[n].chat].group[post[n].msg] = 1

Pending(u, n) == \E i \in DOMAIN pushes[u] : pushes[u][i].msg = post[n].msg

Faithful(u) ==
    /\ Loading(u) => Idle /\ pushes[u] = <<>>
    /\ \A c \in DOMAIN page[u].chats : 
         /\ c \notin early => page[u].chats[c].users = members[c] /\ Frozen(c)
         /\ \A m \in Clicks : page[u].chats[c].group[m] # 0 => m <= Len(stored)
         /\ \A n \in Clicks : post[n].pc = "publish"
              => page[u].chats[c].group[post[n].msg] = 0
         /\ \A i \in DOMAIN pushes[u] :
              page[u].chats[c].group[pushes[u][i].msg] = 0
    /\ page[u].phase \in {"answered", "shown"} =>
         \A n \in Clicks : 
            post[n].pc = "done" /\ u \in members[post[n].chat]
            /\ post[n].chat \notin early
              => OnPage(u, n) \/ Pending(u, n)

Undisturbed == \A u \in Users \ raced : Faithful(u)

\* The users of a chat do not change any more once a message that does not
\* spoil it has been published.
Complete == \A n, k \in Clicks :
    post[n].pc = "done" /\ post[n].chat \notin early
    /\ post[k].chat = post[n].chat => post[k].todo = {}

\* Post j has inserted chat c: its target are the users the chat has or is
\* going to have, and all others that use the chat came later.
Creator(c, j) ==
    /\ post[j].chat = c /\ members[c] \cup post[j].todo = post[j].target
    /\ \A n \in Clicks : post[n].chat = c => j <= n /\ (n # j => post[n].todo = {})

Created == \A c \in DOMAIN members : \E j \in Clicks : Creator(c, j)

\* A post from a page that could have known: it inserts its own chat, and no
\* earlier one is for the same users.
Justified(k) ==
    post[k].pc # "unsent" /\ ~post[k].excused =>
      /\ post[k].chat # NoChat => Creator(post[k].chat, k)
      /\ \A j \in Clicks : j < k /\ post[j].target = post[k].target =>
           /\ post[j].pc = "done"
           /\ post[j].chat \in early \/ members[post[j].chat] # post[j].target

Inv == /\ Types /\ Bounded /\ Rows /\ Stages
       /\ OnTheWay /\ Blank /\ Undisturbed /\ Complete /\ Created
       /\ \A k \in Clicks : Justified(k)

-----------------------------------------------------------------------------
(* Types *)

\* A list of chats by its domain and its values.
LEMMA ListType ==
    ASSUME NEW f
    PROVE  f \in ChatLists <=>
             /\ f = [c \in DOMAIN f |-> f[c]] /\ DOMAIN f \subseteq Clicks
             /\ \A c \in DOMAIN f : f[c] \in Shown
<1>1. ASSUME f \in ChatLists
      PROVE  /\ f = [c \in DOMAIN f |-> f[c]] /\ DOMAIN f \subseteq Clicks
             /\ \A c \in DOMAIN f : f[c] \in Shown
  <2>1. PICK S \in SUBSET Clicks : f \in [S -> Shown]  BY <1>1 DEF ChatLists
  <2>. QED  BY <2>1
<1>2. ASSUME f = [c \in DOMAIN f |-> f[c]], DOMAIN f \subseteq Clicks,
             \A c \in DOMAIN f : f[c] \in Shown
      PROVE  f \in ChatLists
  <2>1. f \in [DOMAIN f -> Shown]  BY <1>2
  <2>. QED  BY <1>2, <2>1 DEF ChatLists
<1>. QED  BY <1>1, <1>2

LEMMA EmptyType == Empty \in ChatLists /\ DOMAIN Empty = {}
BY DEF Empty, ChatLists

\* Pushing a message into a list of chats.
LEMMA PushType ==
    ASSUME NEW chats \in ChatLists, NEW p \in Messages
    PROVE  /\ WithPush(chats, p) \in ChatLists
           /\ DOMAIN WithPush(chats, p) = DOMAIN chats \cup {p.chat}
           /\ \A c \in DOMAIN chats :
                /\ WithPush(chats, p)[c].users = chats[c].users
                /\ \A m \in Clicks : ~(c = p.chat /\ m = p.msg) =>
                     WithPush(chats, p)[c].group[m] = chats[c].group[m]
           /\ p.chat \in DOMAIN chats =>
                WithPush(chats, p)[p.chat].group[p.msg]
                  = chats[p.chat].group[p.msg] + 1
           /\ p.chat \notin DOMAIN chats =>
                /\ WithPush(chats, p)[p.chat].users = p.users
                /\ \A m \in Clicks : WithPush(chats, p)[p.chat].group[m]
                     = IF m = p.msg THEN 1 ELSE 0
<1>. DEFINE w == WithPush(chats, p)
<1>1. /\ DOMAIN chats \subseteq Clicks
      /\ chats = [c \in DOMAIN chats |-> chats[c]]
      /\ \A c \in DOMAIN chats : chats[c] \in Shown
  BY ListType
<1>2. p.chat \in Clicks /\ p.msg \in Clicks /\ p.users \in SUBSET Users
  BY DEF Messages
<1>3. CASE p.chat \in DOMAIN chats
  <2>. DEFINE g == chats[p.chat].group
  <2>1. g \in [Clicks -> Nat] /\ chats[p.chat] \in Shown  BY <1>1, <1>3 DEF Shown
  <2>2. OneMore(g, p.msg) \in [Clicks -> Nat]
        /\ \A m \in Clicks : OneMore(g, p.msg)[m] = IF m = p.msg THEN g[m] + 1 ELSE g[m]
    BY <1>2, <2>1 DEF OneMore
  <2>3. w = [chats EXCEPT ![p.chat].group = OneMore(@, p.msg)]  BY <1>3 DEF WithPush
  <2>4. DOMAIN w = DOMAIN chats /\ w = [c \in DOMAIN w |-> w[c]]  BY <2>3, <1>1
  <2>5. \A c \in DOMAIN chats : c # p.chat => w[c] = chats[c]
    BY <2>3, <1>1, <1>3
  <2>5a. w[p.chat] = [chats[p.chat] EXCEPT !.group = OneMore(g, p.msg)]
    BY <2>3, <1>1, <1>3
  <2>6. w[p.chat].group = OneMore(g, p.msg) /\ w[p.chat].users = chats[p.chat].users
        /\ w[p.chat] \in Shown
    BY <2>5a, <2>1, <2>2 DEF Shown
  <2>. HIDE DEF w
  <2>7. w \in ChatLists  BY <2>4, <2>5, <2>6, <1>1, ListType
  <2>8. \A c \in DOMAIN chats :
          /\ w[c].users = chats[c].users
          /\ \A m \in Clicks : ~(c = p.chat /\ m = p.msg) =>
               w[c].group[m] = chats[c].group[m]
    BY <2>2, <2>5, <2>6
  <2>. QED  BY <2>2, <2>4, <2>6, <2>7, <2>8, <1>2, <1>3 DEF w
<1>4. CASE p.chat \notin DOMAIN chats
  <2>. DEFINE e == [users |-> p.users, group |-> OneMore(NoMessage, p.msg)]
  <2>1. OneMore(NoMessage, p.msg) \in [Clicks -> Nat]
        /\ \A m \in Clicks : OneMore(NoMessage, p.msg)[m] = IF m = p.msg THEN 1 ELSE 0
    BY <1>2 DEF OneMore, NoMessage
  <2>2. e \in Shown  BY <2>1, <1>2 DEF Shown
  <2>3. w = [c \in DOMAIN chats \cup {p.chat} |-> IF c = p.chat THEN e ELSE chats[c]]
    BY <1>4 DEF WithPush
  <2>4. DOMAIN w = DOMAIN chats \cup {p.chat} /\ w = [c \in DOMAIN w |-> w[c]]
        /\ w[p.chat] = e /\ \A c \in DOMAIN chats : w[c] = chats[c]
    BY <2>3, <1>4
  <2>. HIDE DEF w
  <2>5. w \in ChatLists  BY <2>2, <2>4, <1>1, <1>2, ListType
  <2>. QED  BY <2>1, <2>4, <2>5, <1>4 DEF w
<1>. QED  BY <1>3, <1>4

\* What a click on "send" asks for, and when it is not excused.
Asked(u, target, chat, excused) ==
    /\ target \in SUBSET Users /\ excused \in BOOLEAN
    /\ chat # NoChat => chat \in DOMAIN members /\ excused
    /\ chat = NoChat => target # {}
    /\ ~excused =>
         /\ u \in target /\ chat = NoChat
         /\ u \notin raced /\ ~Loading(u) /\ page[u].phase # "closed"
         /\ pushes[u] = <<>> /\ Matching(u, target) = {}
         /\ \A n \in Clicks : post[n].target = target =>
              ~AtWork(n) /\ post[n].pc # "failed"

LEMMA ClickAsks ==
    ASSUME Types, Rows, NEW u \in Users, SendToUsers(u) \/ SendToChat(u)
    PROVE  \E target \in SUBSET Users, chat \in 0 .. MaxClicks, excused \in BOOLEAN :
             Asked(u, target, chat, excused) /\ SendFn(u, target, chat, excused)
<1>1. /\ page[u].chats \in ChatLists /\ DOMAIN page[u].chats \subseteq DOMAIN members
      /\ DOMAIN page[u].chats \subseteq Clicks
      /\ \A c \in DOMAIN page[u].chats : page[u].chats[c].users \in SUBSET Users
  BY ListType DEF Types, Rows, Pages, Shown
<1>2. /\ DOMAIN ChatsOf(u) \subseteq DOMAIN members /\ DOMAIN ChatsOf(u) \subseteq Clicks
      /\ \A c \in DOMAIN ChatsOf(u) : ChatsOf(u)[c].users \in SUBSET Users
  BY <1>1, EmptyType DEF ChatsOf
<1>3. \A c \in DOMAIN ChatsOf(u) : c \in 0 .. MaxClicks /\ c # NoChat
  BY <1>2, ChatBounds DEF Clicks, NoChat
<1>4. CASE SendToChat(u)
  <2>1. PICK c \in DOMAIN ChatsOf(u) : SendFn(u, ChatsOf(u)[c].users, c, TRUE)
    BY <1>4 DEF SendToChat
  <2>2. Asked(u, ChatsOf(u)[c].users, c, TRUE)  BY <1>2, <1>3 DEF Asked
  <2>. QED  BY <2>1, <2>2, <1>2, <1>3
<1>5. CASE SendToUsers(u)
  <2>1. PICK others \in (SUBSET (Users \ {u})) \ {{}} :
          LET target == others \cup {u} IN
          /\ page[u].phase # "closed"
          /\ IF Matching(u, target) # {}
               THEN \E c \in Matching(u, target) : SendFn(u, target, c, TRUE)
               ELSE SendFn(u, target, NoChat,
                      \/ u \in raced \/ Loading(u) \/ pushes[u] # <<>>
                      \/ \E n \in Clicks : post[n].target = target
                           /\ (AtWork(n) \/ post[n].pc = "failed"))
    BY <1>5 DEF SendToUsers
  <2>. DEFINE target == others \cup {u}
  <2>2. target \in SUBSET Users /\ u \in target  OBVIOUS
  <2>3. CASE Matching(u, target) # {}
    <3>1. PICK c \in Matching(u, target) : SendFn(u, target, c, TRUE)  BY <2>1, <2>3
    <3>2. c \in DOMAIN ChatsOf(u)  BY DEF Matching
    <3>3. Asked(u, target, c, TRUE)  BY <1>2, <1>3, <2>2, <3>2 DEF Asked
    <3>. QED  BY <2>2, <3>1, <3>2, <3>3, <1>3
  <2>4. CASE Matching(u, target) = {}
    <3>. DEFINE ex == \/ u \in raced \/ Loading(u) \/ pushes[u] # <<>>
                      \/ \E n \in Clicks : post[n].target = target
                           /\ (AtWork(n) \/ post[n].pc = "failed")
    <3>1. SendFn(u, target, NoChat, ex)  BY <2>1, <2>4
    <3>2. ex \in BOOLEAN  OBVIOUS
    <3>3. Asked(u, target, NoChat, ex)  BY <2>1, <2>2, <2>4, <3>2 DEF Asked
    <3>4. NoChat \in 0 .. MaxClicks  BY ChatBounds DEF NoChat
    <3>. QED  BY <2>2, <3>1, <3>2, <3>3, <3>4
  <2>. QED  BY <2>3, <2>4
<1>. QED  BY <1>4, <1>5

\* What every proof about a step starts from.
LEMMA TypeFacts ==
    ASSUME Types, Rows, Stages, Bounded
    PROVE  /\ Len(members) \in Nat /\ DOMAIN members = 1 .. Len(members)
           /\ Len(stored) \in Nat /\ DOMAIN stored = 1 .. Len(stored)
           /\ Len(members) <= MaxClicks /\ Len(stored) <= MaxClicks
           /\ IsFiniteSet(ChatLess) /\ IsFiniteSet(MessageLess)
           /\ ChatLess # {} => Len(members) < MaxClicks
           /\ MessageLess # {} => Len(stored) < MaxClicks
           /\ \A u \in Users : /\ Len(pushes[u]) \in Nat
                               /\ DOMAIN pushes[u] = 1 .. Len(pushes[u])
           /\ \A n \in Clicks : post[n].chat # NoChat => post[n].chat \in DOMAIN members
           /\ \A n \in Clicks : post[n].msg # 0 => post[n].msg \in DOMAIN stored
<1>1. /\ Len(members) \in Nat /\ DOMAIN members = 1 .. Len(members)
      /\ Len(stored) \in Nat /\ DOMAIN stored = 1 .. Len(stored)
  BY LenProperties DEF Types
<1>2. IsFiniteSet(Clicks)  BY FS_Interval, ChatBounds DEF Clicks
<1>3. ChatLess \in SUBSET Clicks /\ MessageLess \in SUBSET Clicks
  BY DEF ChatLess, MessageLess
<1>4. IsFiniteSet(ChatLess) /\ IsFiniteSet(MessageLess)  BY <1>2, <1>3, FS_Subset
<1>5. /\ Cardinality(ChatLess) \in Nat /\ Cardinality(MessageLess) \in Nat
      /\ ChatLess # {} => Cardinality(ChatLess) # 0
      /\ MessageLess # {} => Cardinality(MessageLess) # 0
  BY <1>4, FS_CardinalityType, FS_EmptySet
<1>6. /\ Len(members) <= MaxClicks /\ Len(stored) <= MaxClicks
      /\ ChatLess # {} => Len(members) < MaxClicks
      /\ MessageLess # {} => Len(stored) < MaxClicks
  BY <1>1, <1>5, ChatBounds DEF Bounded
<1>7. \A u \in Users : Len(pushes[u]) \in Nat /\ DOMAIN pushes[u] = 1 .. Len(pushes[u])
  <2>. SUFFICES ASSUME NEW u \in Users
                PROVE  Len(pushes[u]) \in Nat /\ DOMAIN pushes[u] = 1 .. Len(pushes[u])
    OBVIOUS
  <2>1. pushes[u] \in Seq(Messages)  BY DEF Types
  <2>. QED  BY <2>1, LenProperties
<1>8. ASSUME NEW n \in Clicks
      PROVE  /\ post[n].chat # NoChat => post[n].chat \in DOMAIN members
             /\ post[n].msg # 0 => post[n].msg \in DOMAIN stored
  BY <1>1 DEF Rows, Types, Posts, NoChat
<1>. QED  BY <1>1, <1>4, <1>6, <1>7, <1>8

\* Inserting a chat leaves the others, and adding a user the number of chats.
LEMMA TableFacts ==
    ASSUME Types
    PROVE  /\ Append(members, {}) \in Seq(SUBSET Users)
           /\ Len(Append(members, {})) = Len(members) + 1
           /\ \A c \in DOMAIN members : Append(members, {})[c] = members[c]
           /\ Append(members, {})[Len(members) + 1] = {}
           /\ \A c \in Clicks :
                /\ Append(stored, c) \in Seq(Clicks)
                /\ Len(Append(stored, c)) = Len(stored) + 1
                /\ \A m \in DOMAIN stored : Append(stored, c)[m] = stored[m]
                /\ Append(stored, c)[Len(stored) + 1] = c
           /\ \A c \in DOMAIN members, u \in Users :
                LET with == [members EXCEPT ![c] = @ \cup {u}] IN
                /\ with \in Seq(SUBSET Users) /\ Len(with) = Len(members)
                /\ with[c] = members[c] \cup {u}
                /\ \A d \in DOMAIN members : d # c => with[d] = members[d]
<1>1. /\ members \in Seq(SUBSET Users) /\ stored \in Seq(Clicks)
      /\ Len(members) \in Nat /\ DOMAIN members = 1 .. Len(members)
      /\ Len(stored) \in Nat /\ DOMAIN stored = 1 .. Len(stored)
  BY LenProperties DEF Types
<1>2. {} \in SUBSET Users  OBVIOUS
<1>3. /\ Append(members, {}) \in Seq(SUBSET Users)
      /\ Len(Append(members, {})) = Len(members) + 1
      /\ \A c \in DOMAIN members : Append(members, {})[c] = members[c]
      /\ Append(members, {})[Len(members) + 1] = {}
  BY <1>1, <1>2, AppendProperties
<1>4. ASSUME NEW c \in Clicks
      PROVE  /\ Append(stored, c) \in Seq(Clicks)
             /\ Len(Append(stored, c)) = Len(stored) + 1
             /\ \A m \in DOMAIN stored : Append(stored, c)[m] = stored[m]
             /\ Append(stored, c)[Len(stored) + 1] = c
  BY <1>1, AppendProperties
<1>5. ASSUME NEW c \in DOMAIN members, NEW u \in Users
      PROVE  LET with == [members EXCEPT ![c] = @ \cup {u}] IN
             /\ with \in Seq(SUBSET Users) /\ Len(with) = Len(members)
             /\ with[c] = members[c] \cup {u}
             /\ \A d \in DOMAIN members : d # c => with[d] = members[d]
  <2>1. members[c] \cup {u} \in SUBSET Users  BY <1>1, ElementOfSeq
  <2>. QED  BY <1>1, <2>1, ExceptSeq
<1>. QED  BY <1>3, <1>4, <1>5

\* The messages a page has before it.
LEMMA QueueFacts ==
    ASSUME Types, NEW u \in Users
    PROVE  /\ pushes[u] \in Seq(Messages)
           /\ pushes[u] # <<>> =>
                /\ Head(pushes[u]) \in Messages /\ Head(pushes[u]) = pushes[u][1]
                /\ Len(pushes[u]) \in Nat \ {0}
                /\ Tail(pushes[u]) \in Seq(Messages)
                /\ Len(Tail(pushes[u])) = Len(pushes[u]) - 1
                /\ \A i \in 1 .. Len(Tail(pushes[u])) :
                     Tail(pushes[u])[i] = pushes[u][i + 1]
           /\ \A p \in Messages :
                /\ Append(pushes[u], p) \in Seq(Messages)
                /\ Len(Append(pushes[u], p)) = Len(pushes[u]) + 1
                /\ \A i \in 1 .. Len(pushes[u]) : Append(pushes[u], p)[i] = pushes[u][i]
                /\ Append(pushes[u], p)[Len(pushes[u]) + 1] = p
<1>1. pushes[u] \in Seq(Messages)  BY DEF Types
<1>2. Len(pushes[u]) \in Nat  BY <1>1, LenProperties
<1>3. ASSUME pushes[u] # <<>>
      PROVE  /\ Head(pushes[u]) \in Messages /\ Head(pushes[u]) = pushes[u][1]
             /\ Len(pushes[u]) \in Nat \ {0}
             /\ Tail(pushes[u]) \in Seq(Messages)
             /\ Len(Tail(pushes[u])) = Len(pushes[u]) - 1
             /\ \A i \in 1 .. Len(Tail(pushes[u])) :
                  Tail(pushes[u])[i] = pushes[u][i + 1]
  BY <1>1, <1>3, HeadTailProperties, EmptySeq
<1>4. ASSUME NEW p \in Messages
      PROVE  /\ Append(pushes[u], p) \in Seq(Messages)
             /\ Len(Append(pushes[u], p)) = Len(pushes[u]) + 1
             /\ \A i \in 1 .. Len(pushes[u]) : Append(pushes[u], p)[i] = pushes[u][i]
             /\ Append(pushes[u], p)[Len(pushes[u]) + 1] = p
  BY <1>1, <1>2, AppendProperties
<1>. QED  BY <1>1, <1>3, <1>4

Basics == Types /\ Bounded /\ Rows /\ Stages

\* The page actions change no table and no POST.
LEMMA PageBasics ==
    ASSUME Basics, OnTheWay, NEW u \in Users, 
           Open(u) \/ Subscribe(u) \/ Read(u) \/ Show(u) \/ Push(u)
    PROVE  Basics'
<1>. USE DEF Basics
<1>1. members' = members /\ stored' = stored /\ post' = post /\ clicks' = clicks
  BY DEF Open, Subscribe, Read, Show, Push
<1>2. Bounded'  BY <1>1 DEF Bounded, ChatLess, MessageLess
<1>3. Stages'  BY <1>1 DEF Stages, Stage
<1>4. DOMAIN members = 1 .. Len(members) /\ Len(members) \in Nat
      /\ Len(members) <= MaxClicks /\ DOMAIN members \subseteq Clicks
  BY TypeFacts, ChatBounds DEF Clicks
<1>5. page \in [Users -> Pages] /\ pushes \in [Users -> Seq(Messages)]
      /\ page[u].phase \in Phases /\ page[u].chats \in ChatLists
      /\ DOMAIN page[u].chats \subseteq DOMAIN members
  BY DEF Types, Pages, Rows
<1>6. CASE Open(u)
  <2>1. page'= [page EXCEPT ![u] = [phase |-> "asked", chats |-> Empty]]
        /\ pushes' = [pushes EXCEPT ![u] = <<>>] /\ subscribed' = subscribed \ {u}
        /\ raced' \subseteq Users /\ early' = early /\ opens' = opens + 1 /\ opens < MaxOpens
    BY <1>6 DEF Open, Types
  <2>2. [phase |-> "asked", chats |-> Empty] \in Pages  BY EmptyType DEF Pages, Phases
  <2>3. <<>> \in Seq(Messages)  BY EmptySeq
  <2>4. page' \in [Users -> Pages] /\ pushes' \in [Users -> Seq(Messages)]
    BY <1>5, <2>1, <2>2, <2>3
  <2>5. opens' \in 0 .. MaxOpens  BY <2>1, ChatBounds DEF Types
  <2>6. \A v \in Users : DOMAIN page'[v].chats \subseteq DOMAIN members
    <3>. SUFFICES ASSUME NEW v \in Users PROVE DOMAIN page'[v].chats \subseteq DOMAIN members
      OBVIOUS
    <3>1. CASE v = u
      <4>1. page'[v] = [phase |-> "asked", chats |-> Empty]  BY <3>1, <2>1, <1>5
      <4>. QED  BY <4>1, EmptyType
    <3>2. CASE v # u  BY <3>2, <2>1, <1>5 DEF Rows
    <3>. QED  BY <3>1, <3>2
  <2>. QED  BY <1>1, <1>2, <1>3, <2>1, <2>4, <2>5, <2>6 DEF Types, Rows
<1>7. CASE Subscribe(u)
  BY <1>1, <1>2, <1>3, <1>7 DEF Types, Rows, Subscribe
<1>8. ASSUME NEW phase \in Phases, NEW chats \in ChatLists, DOMAIN chats \subseteq DOMAIN members,
             page' = [page EXCEPT ![u] = [phase |-> phase, chats |-> chats]],
             pushes' \in [Users -> Seq(Messages)],
             UNCHANGED <<subscribed, opens, raced, early>>
      PROVE  Types' /\ Rows'
  <2>1. [phase |-> phase, chats |-> chats] \in Pages  BY DEF Pages
  <2>2. page' \in [Users -> Pages]  BY <1>5, <1>8, <2>1
  <2>3. \A v \in Users : DOMAIN page'[v].chats \subseteq DOMAIN members
    <3>. SUFFICES ASSUME NEW v \in Users PROVE DOMAIN page'[v].chats \subseteq DOMAIN members
      OBVIOUS
    <3>1. CASE v = u
      <4>1. page'[v] = [phase |-> phase, chats |-> chats]  BY <3>1, <1>8, <1>5
      <4>. QED  BY <4>1, <1>8
    <3>2. CASE v # u  BY <3>2, <1>8, <1>5 DEF Rows
    <3>. QED  BY <3>1, <3>2
  <2>. QED  BY <1>1, <1>8, <2>2, <2>3 DEF Types, Rows
<1>9. CASE Read(u)
  <2>. DEFINE mine == {d \in DOMAIN members : u \in members[d]}
              list == [c \in mine |-> [users |-> members[c], group |-> Stored(c)]]
  <2>1. \A c \in mine : members[c] \in SUBSET Users  BY <1>4, ElementOfSeq DEF Types
  <2>2. \A c \in mine : Stored(c) \in [Clicks -> Nat]  BY DEF Stored
  <2>3. \A c \in mine : list[c] \in Shown  BY <2>1, <2>2 DEF Shown
  <2>4. list \in ChatLists /\ DOMAIN list \subseteq DOMAIN members
    <3>1. DOMAIN list = mine /\ list = [c \in DOMAIN list |-> list[c]]  OBVIOUS
    <3>. HIDE DEF list
    <3>. QED  BY <3>1, <2>3, <1>4, ListType
  <2>5. page' = [page EXCEPT ![u] = [phase |-> "answered", chats |-> list]]
        /\ UNCHANGED <<pushes, subscribed, opens, raced, early>>
    BY <1>9 DEF Read
  <2>. HIDE DEF list
  <2>6. "answered" \in Phases  BY DEF Phases
  <2>. QED  BY <1>2, <1>3, <1>5, <1>8, <2>4, <2>5, <2>6
<1>10. CASE Show(u)
  <2>1. page' = [page EXCEPT ![u].phase = "shown"]
        /\ UNCHANGED <<pushes, subscribed, opens, raced, early>>
    BY <1>10 DEF Show
  <2>2. [page[u] EXCEPT !.phase = "shown"] = [phase |-> "shown", chats |-> page[u].chats]
    BY <1>5 DEF Pages
  <2>3. page' = [page EXCEPT ![u] = [phase |-> "shown", chats |-> page[u].chats]]
    BY <2>1, <2>2, <1>5
  <2>4. "shown" \in Phases  BY DEF Phases
  <2>. QED  BY <1>2, <1>3, <1>5, <1>8, <2>1, <2>3, <2>4
<1>11. CASE Push(u)
  <2>. DEFINE p == Head(pushes[u])
  <2>1. /\ pushes[u] # <<>> /\ pushes' = [pushes EXCEPT ![u] = Tail(@)]
        /\ UNCHANGED <<subscribed, opens, raced, early>>
    BY <1>11 DEF Push
  <2>2. pushes' \in [Users -> Seq(Messages)] /\ p \in Messages
    BY <2>1, <1>5, QueueFacts
  <2>3. CASE page[u].phase # "shown"
    <3>1. page' = page  BY <1>11, <2>3 DEF Push
    <3>. QED  BY <1>1, <1>2, <1>3, <2>1, <2>2, <3>1 DEF Types, Rows
  <2>4. CASE page[u].phase = "shown"
    <3>. DEFINE list == WithPush(page[u].chats, p)
    <3>1. page' = [page EXCEPT ![u].chats = list]  BY <1>11, <2>4 DEF Push
    <3>2. list \in ChatLists /\ DOMAIN list = DOMAIN page[u].chats \cup {p.chat}
      BY <1>5, <2>2, PushType
    <3>3. p.chat \in DOMAIN members
      <4>1. p = pushes[u][1] /\ 1 \in DOMAIN pushes[u]  BY <2>1, QueueFacts, TypeFacts
      <4>2. p.msg \in DOMAIN stored /\ p.chat = stored[p.msg]
        BY <4>1 DEF OnTheWay, Carried
      <4>3. stored[p.msg] \in Clicks /\ stored[p.msg] <= Len(members)
        BY <4>2, TypeFacts, ElementOfSeq DEF Types, Rows
      <4>. QED  BY <4>2, <4>3, <1>4 DEF Clicks
    <3>. HIDE DEF list
    <3>4. [page[u] EXCEPT !.chats = list] = [phase |-> "shown", chats |-> list]
      BY <1>5, <2>4 DEF Pages
    <3>5. page' = [page EXCEPT ![u] = [phase |-> "shown", chats |-> list]]
      BY <3>1, <3>4, <1>5
    <3>6. "shown" \in Phases  BY DEF Phases
    <3>. QED  BY <1>2, <1>3, <1>5, <1>8, <2>1, <2>2, <3>2, <3>3, <3>5, <3>6
  <2>. QED  BY <2>3, <2>4
<1>. QED  BY <1>6, <1>7, <1>9, <1>10, <1>11

\* A step of a POST: the record of n becomes r, and the tables grow by at most
\* the row r is given.
Moves(n, r) ==
    /\ post' = [post EXCEPT ![n] = r]
    /\ clicks' \in 0 .. MaxClicks /\ opens' = opens /\ page' = page
    /\ subscribed' = subscribed /\ raced' \subseteq Users /\ early' \subseteq Clicks
    /\ pushes' \in [Users -> Seq(Messages)]

Grows(n, r) ==
    /\ members' \in Seq(SUBSET Users) /\ stored' \in Seq(Clicks)
    /\ \/ Len(members') = Len(members)
       \/ /\ Len(members') = Len(members) + 1
          /\ post[n].chat = NoChat /\ r.chat # NoChat
    /\ \/ Len(stored') = Len(stored)
       \/ /\ Len(stored') = Len(stored) + 1
          /\ post[n].msg = 0 /\ r.msg # 0
    /\ post[n].chat # NoChat => r.chat # NoChat
    /\ post[n].msg # 0 => r.msg # 0

Refers(n, r) ==
    /\ \A m \in DOMAIN stored : stored'[m] = stored[m]
    /\ \A m \in DOMAIN stored' \ DOMAIN stored : stored'[m] <= Len(members')
    /\ r.chat <= Len(members') /\ r.msg <= Len(stored')
    /\ r.msg = post[n].msg \/ r.msg \notin DOMAIN stored

Staged(n, r) ==
    /\ r.pc # "unsent" /\ n <= clicks'
    /\ \A k \in Clicks : k # n => (k > clicks <=> k > clicks')
    /\ r.pc \in {"members", "message", "publish", "done"} => r.chat # NoChat
    /\ r.pc = "sent" /\ r.chat = NoChat => r.target # {}
    /\ r.pc = "members" => r.todo # {}
    /\ r.pc \notin {"members", "failed"} => r.todo = {}
    /\ r.pc \in {"unsent", "sent", "members", "message"} => r.msg = 0
    /\ r.pc \in {"publish", "done"} => r.msg # 0
    /\ r.msg # 0 => stored'[r.msg] = r.chat

\* A POST that leaves pages alone and changes the record of n to one that fits.
LEMMA PostBasics ==
    ASSUME Basics, NEW n \in Clicks, NEW r \in Posts,
           Moves(n, r), Grows(n, r), Refers(n, r), Staged(n, r)
    PROVE  Basics'
<1>. USE DEF Basics
<1>1. post \in [Clicks -> Posts] /\ post' \in [Clicks -> Posts]
      /\ post'[n] = r /\ \A k \in Clicks : k # n => post'[k] = post[k]
  BY DEF Types, Moves
<1>2. Types'  BY <1>1 DEF Types, Moves, Grows
<1>3. /\ Len(members) \in Nat /\ DOMAIN members = 1 .. Len(members)
      /\ Len(stored) \in Nat /\ DOMAIN stored = 1 .. Len(stored)
      /\ Len(members') \in Nat /\ DOMAIN members' = 1 .. Len(members')
      /\ Len(stored') \in Nat /\ DOMAIN stored' = 1 .. Len(stored')
      /\ \A i \in DOMAIN stored : stored[i] \in Clicks
      /\ \A i \in DOMAIN stored' : stored'[i] \in Clicks
  BY LenProperties, ElementOfSeq DEF Types, Grows
<1>4. \A k \in Clicks : post[k].chat \in Nat /\ post[k].msg \in Nat /\ r.chat \in Nat /\ r.msg \in Nat
  BY <1>1 DEF Posts
<1>4a. /\ Len(members') = Len(members) \/ Len(members') = Len(members) + 1
       /\ Len(stored') = Len(stored) \/ Len(stored') = Len(stored) + 1
  BY DEF Grows
<1>4b. DOMAIN members \subseteq DOMAIN members' /\ DOMAIN stored \subseteq DOMAIN stored'
       /\ Len(members) <= Len(members') /\ Len(stored) <= Len(stored')
  <2>1. Len(members) \in Nat /\ Len(stored) \in Nat  BY <1>3
  <2>2. Len(members) <= Len(members') /\ Len(stored) <= Len(stored')
    BY <2>1, <1>4a
  <2>3. Len(members') \in Nat /\ Len(stored') \in Nat  BY <1>3
  <2>4. 1 .. Len(members) \subseteq 1 .. Len(members')
        /\ 1 .. Len(stored) \subseteq 1 .. Len(stored')
    BY <2>1, <2>2, <2>3
  <2>. QED  BY <1>3, <2>2, <2>4
<1>4c. /\ Len(members') # Len(members) =>
            Len(members') = Len(members) + 1 /\ post[n].chat = NoChat /\ r.chat # NoChat
       /\ Len(stored') # Len(stored) =>
            Len(stored') = Len(stored) + 1 /\ post[n].msg = 0 /\ r.msg # 0
       /\ post[n].chat # NoChat => r.chat # NoChat
       /\ post[n].msg # 0 => r.msg # 0
  BY DEF Grows
<1>5. Rows'
  <2>1. \A i \in DOMAIN stored' : stored'[i] <= Len(members')
    <3>1. \A i \in DOMAIN stored : stored[i] <= Len(members)  BY DEF Rows
    <3>2. \A i \in DOMAIN stored : stored'[i] <= Len(members')
      BY <1>3, <1>4b, <3>1 DEF Refers, Clicks
    <3>. QED  BY <3>2 DEF Refers
  <2>2. \A k \in Clicks : post'[k].chat <= Len(members') /\ post'[k].msg <= Len(stored')
    <3>1. \A k \in Clicks : post[k].chat <= Len(members) /\ post[k].msg <= Len(stored)
      BY DEF Rows
    <3>2. r.chat <= Len(members') /\ r.msg <= Len(stored')  BY DEF Refers
    <3>. QED  BY <1>1, <1>3, <1>4, <1>4b, <3>1, <3>2
  <2>3. \A u \in Users : DOMAIN page'[u].chats \subseteq DOMAIN members'
    BY <1>4b DEF Rows, Moves
  <2>. QED  BY <2>1, <2>2, <2>3 DEF Rows
<1>6. Stages'
  <2>1. Stage(n)'
    <3>1. clicks' \in Nat /\ n \in Nat  BY DEF Moves, Clicks
    <3>2. r.pc # "unsent" /\ n <= clicks'  BY DEF Staged
    <3>. QED  BY <1>1, <3>1, <3>2 DEF Stage, Staged
  <2>2. ASSUME NEW k \in Clicks, k # n  PROVE Stage(k)'
    <3>1. post'[k] = post[k] /\ Stage(k)  BY <1>1, <2>2 DEF Stages
    <3>2. post[k].msg # 0 => post[k].msg \in DOMAIN stored  BY TypeFacts
    <3>3. k > clicks <=> k > clicks'  BY <2>2 DEF Staged
    <3>4. \A m \in DOMAIN stored : stored'[m] = stored[m]  BY DEF Refers
    <3>. QED  BY <3>1, <3>2, <3>3, <3>4 DEF Stage
  <2>3. \A j, k \in Clicks : post'[j].msg = post'[k].msg /\ j # k => post'[j].msg = 0
    <3>1. \A k \in Clicks : post[k].msg # 0 => post[k].msg \in DOMAIN stored  BY TypeFacts
    <3>2. \A j, k \in Clicks : post[j].msg = post[k].msg /\ j # k => post[j].msg = 0
      BY DEF Stages
    <3>3. ASSUME NEW k \in Clicks, r.msg = post[k].msg, k # n  PROVE r.msg = 0
      <4>1. r.msg = post[n].msg \/ r.msg \notin DOMAIN stored  BY DEF Refers
      <4>. QED  BY <3>1, <3>2, <3>3, <4>1
    <3>. QED  BY <1>1, <3>2, <3>3
  <2>. QED  BY <2>1, <2>2, <2>3 DEF Stages
<1>7. Bounded'
  <2>1. IsFiniteSet(ChatLess) /\ IsFiniteSet(MessageLess)  BY TypeFacts
  <2>2. /\ ChatLess' = IF r.chat = NoChat THEN ChatLess ELSE ChatLess \ {n}
        /\ MessageLess' = IF r.msg = 0 THEN MessageLess ELSE MessageLess \ {n}
    BY <1>1, <1>4c DEF ChatLess, MessageLess
  <2>3. /\ Cardinality(ChatLess \ {n}) = IF n \in ChatLess THEN Cardinality(ChatLess) - 1
                                         ELSE Cardinality(ChatLess)
        /\ Cardinality(MessageLess \ {n}) = IF n \in MessageLess THEN Cardinality(MessageLess) - 1
                                            ELSE Cardinality(MessageLess)
        /\ Cardinality(ChatLess) \in Nat /\ Cardinality(MessageLess) \in Nat
    BY <2>1, FS_RemoveElement, FS_CardinalityType
  <2>4. /\ n \in ChatLess <=> post[n].chat = NoChat
        /\ n \in MessageLess <=> post[n].msg = 0
    BY DEF ChatLess, MessageLess
  <2>4a. /\ Len(members) + Cardinality(ChatLess) <= MaxClicks
         /\ Len(stored) + Cardinality(MessageLess) <= MaxClicks
         /\ Len(members) \in Nat /\ Len(stored) \in Nat /\ MaxClicks \in Nat
    BY <1>3, ChatBounds DEF Bounded
  <2>5. Len(members') + Cardinality(ChatLess') <= MaxClicks
    BY <2>2, <2>3, <2>4, <2>4a, <1>4c
  <2>6. Len(stored') + Cardinality(MessageLess') <= MaxClicks
    BY <2>2, <2>3, <2>4, <2>4a, <1>4c
  <2>. QED  BY <2>5, <2>6 DEF Bounded
<1>. QED  BY <1>2, <1>5, <1>6, <1>7

\* The record a POST has after each of its steps.
LEMMA Records ==
    ASSUME Basics, NEW n \in Clicks
    PROVE  /\ post[n] \in Posts /\ Stage(n)
           /\ \A r : post' = [post EXCEPT ![n] = r] =>
                post'[n] = r /\ \A k \in Clicks : k # n => post'[k] = post[k]
           /\ post[n].chat \in 0 .. MaxClicks /\ post[n].msg \in 0 .. MaxClicks
           /\ post[n].todo \in SUBSET Users /\ post[n].target \in SUBSET Users
           /\ post[n].excused \in BOOLEAN
           /\ \A r : post' = [post EXCEPT ![n] = r] => post \in [Clicks -> Posts]
BY DEF Basics, Types, Stages, Posts

LEMMA ClickBasics ==
    ASSUME Basics, NEW u \in Users, NEW target, NEW chat, NEW excused,
           Asked(u, target, chat, excused), SendFn(u, target, chat, excused)
    PROVE  Basics'
<1>. DEFINE n == clicks + 1
            r == [pc |-> "sent", target |-> target, chat |-> chat,
                  todo |-> {}, msg |-> 0, excused |-> excused]
<1>0. Types /\ Rows /\ Bounded /\ Stages  BY DEF Basics
<1>1. clicks < MaxClicks /\ clicks' = clicks + 1 /\ post' = [post EXCEPT ![n] = r]
      /\ UNCHANGED <<members, stored, page, subscribed, pushes, opens, early>>
      /\ raced' = raced \cup {v \in Users : Loading(v)}
  BY DEF SendFn
<1>2. n \in Clicks /\ clicks \in Nat /\ clicks' \in 0 .. MaxClicks
  BY <1>0, <1>1, ChatBounds DEF Types, Clicks
<1>3. /\ Len(members) \in Nat /\ DOMAIN members = 1 .. Len(members)
      /\ Len(members) <= MaxClicks
      /\ Len(stored) \in Nat /\ DOMAIN stored = 1 .. Len(stored)
  BY <1>0, TypeFacts
<1>4. chat \in 0 .. MaxClicks /\ chat <= Len(members)
  BY <1>3, ChatBounds DEF Asked, NoChat
<1>5. r \in Posts
  <2>1. {} \in SUBSET Users /\ target \in SUBSET Users /\ excused \in BOOLEAN  BY DEF Asked
  <2>2. "sent" \in Working \cup {"unsent", "done", "failed"} /\ 0 \in 0 .. MaxClicks
    BY ChatBounds DEF Working
  <2>. QED  BY <2>1, <2>2, <1>4 DEF Posts
<1>6. post[n] = Unsent  
  <2>1. Stage(n) /\ n > clicks  BY <1>0, <1>2 DEF Stages
  <2>. QED  BY <2>1 DEF Stage
<1>7. post[n].chat = NoChat /\ post[n].msg = 0  BY <1>6 DEF Unsent
<1>8. /\ r.pc = "sent" /\ r.chat = chat /\ r.msg = 0 /\ r.todo = {}
      /\ r.chat = NoChat => r.target # {}
  BY DEF Asked
<1>. HIDE DEF r
<1>9. Moves(n, r)  BY <1>0, <1>1, <1>2 DEF Moves, Types
<1>10. Grows(n, r)  BY <1>0, <1>1, <1>7 DEF Grows, Types
<1>11. Refers(n, r)  BY <1>1, <1>3, <1>4, <1>7, <1>8 DEF Refers
<1>12. Staged(n, r)
  <2>1. \A k \in Clicks : k # n => (k > clicks <=> k > clicks')
    BY <1>1, <1>2 DEF Clicks
  <2>2. n <= clicks'  BY <1>1, <1>2
  <2>. QED  BY <1>8, <2>1, <2>2 DEF Staged
<1>. QED  BY <1>2, <1>5, <1>9, <1>10, <1>11, <1>12, PostBasics

LEMMA HandlerBasics ==
    ASSUME Basics, NEW n \in Clicks, PostNext(n)
    PROVE  Basics'
<1>0. Types /\ Rows /\ Bounded /\ Stages  BY DEF Basics
<1>. DEFINE q == post[n]
<1>1. q \in Posts /\ Stage(n) /\ q.chat \in 0 .. MaxClicks /\ q.msg \in 0 .. MaxClicks
      /\ q.todo \in SUBSET Users /\ q.target \in SUBSET Users /\ q.excused \in BOOLEAN
      /\ post \in [Clicks -> Posts]
  BY <1>0, Records DEF Types
<1>2. /\ Len(members) \in Nat /\ DOMAIN members = 1 .. Len(members)
      /\ Len(members) <= MaxClicks /\ Len(stored) <= MaxClicks
      /\ Len(stored) \in Nat /\ DOMAIN stored = 1 .. Len(stored)
      /\ q.chat # NoChat => q.chat \in DOMAIN members
      /\ q.msg # 0 => q.msg \in DOMAIN stored
      /\ ChatLess # {} => Len(members) < MaxClicks
      /\ MessageLess # {} => Len(stored) < MaxClicks
  BY <1>0, TypeFacts
<1>3. clicks' = clicks /\ opens' = opens /\ page' = page
      /\ subscribed' = subscribed /\ raced' = raced
  BY DEF PostNext, CreateChat, FindChat, AddMember, Insert, Publish, Fail
<1>4. q.pc # "unsent" /\ n <= clicks
  <2>1. q.pc # "unsent"
    BY DEF PostNext, CreateChat, FindChat, AddMember, Insert, Publish, Fail, Received,
           AtWork, Working
  <2>2. clicks \in Nat /\ n \in Nat  BY <1>0 DEF Types, Clicks
  <2>. QED  BY <1>1, <2>1, <2>2 DEF Stage
<1>5. clicks \in 0 .. MaxClicks /\ raced \subseteq Users /\ early \subseteq Clicks
      /\ pushes \in [Users -> Seq(Messages)] /\ members \in Seq(SUBSET Users)
      /\ stored \in Seq(Clicks)
  BY <1>0 DEF Types
<1>6. /\ q.pc \in {"members", "message", "publish", "done"} => q.chat # NoChat
      /\ q.pc \notin {"members", "failed"} => q.todo = {}
      /\ q.pc \in {"sent", "members", "message"} => q.msg = 0
      /\ q.pc \in {"publish", "done"} => q.msg # 0
      /\ q.msg # 0 => stored[q.msg] = q.chat
      /\ q.pc = "sent" /\ q.chat = NoChat => q.target # {}
  BY <1>1 DEF Stage
<1>7. \A pc : pc \in Working \cup {"unsent", "done", "failed"} =>
        /\ [q EXCEPT !.pc = pc] \in Posts
        /\ [q EXCEPT !.pc = pc].pc = pc
        /\ [q EXCEPT !.pc = pc].chat = q.chat /\ [q EXCEPT !.pc = pc].msg = q.msg
        /\ [q EXCEPT !.pc = pc].todo = q.todo
  BY <1>1 DEF Posts
<1>8. ASSUME NEW pc \in {"message", "done", "failed"},
             post' = [post EXCEPT ![n].pc = pc],
             members' = members, stored' = stored,
             early' \subseteq Clicks, pushes' \in [Users -> Seq(Messages)],
             pc = "message" => q.pc = "sent" /\ q.chat # NoChat,
             pc = "done" => q.pc = "publish"
      PROVE  Basics'
  <2>. DEFINE r == [q EXCEPT !.pc = pc]
  <2>1. r \in Posts /\ r.pc = pc /\ r.chat = q.chat /\ r.msg = q.msg /\ r.todo = q.todo
    BY <1>7, <1>8 DEF Working
  <2>2. post' = [post EXCEPT ![n] = r]  BY <1>1, <1>8
  <2>. HIDE DEF r, q
  <2>3. Moves(n, r)  BY <1>3, <1>5, <1>8, <2>2 DEF Moves
  <2>4. Grows(n, r)  BY <1>5, <1>8, <2>1 DEF Grows, q
  <2>5. Refers(n, r)
    <3>1. q.chat <= Len(members) /\ q.msg <= Len(stored)
      BY <1>0 DEF Rows, q
    <3>. QED  BY <1>2, <1>8, <2>1, <3>1 DEF Refers, q
  <2>6. Staged(n, r)  BY <1>3, <1>4, <1>6, <1>8, <2>1 DEF Staged
  <2>. QED  BY <2>1, <2>3, <2>4, <2>5, <2>6, PostBasics
<1>9. CASE CreateChat(n)
  <2>. DEFINE r == [q EXCEPT !.pc = "members", !.chat = Len(members) + 1,
                             !.todo = q.target]
  <2>1. q.pc = "sent" /\ q.chat = NoChat /\ members' = Append(members, {})
        /\ post' = [post EXCEPT ![n].pc = "members", ![n].chat = Len(members) + 1,
                                ![n].todo = post[n].target]
        /\ UNCHANGED <<stored, pushes, early>>
    BY <1>9 DEF CreateChat, Received
  <2>2. n \in ChatLess  BY <2>1 DEF ChatLess
  <2>3. Len(members) + 1 \in 0 .. MaxClicks  BY <1>2, <2>2, ChatBounds
  <2>4. r \in Posts /\ r.pc = "members" /\ r.chat = Len(members) + 1
        /\ r.todo = q.target /\ r.msg = q.msg
    BY <1>1, <2>3 DEF Posts, Working
  <2>5. post' = [post EXCEPT ![n] = r]  BY <1>1, <2>1
  <2>6. q.target # {} /\ q.msg = 0  BY <1>6, <2>1
  <2>7. /\ members' \in Seq(SUBSET Users) /\ Len(members') = Len(members) + 1
    BY <1>0, <2>1, TableFacts
  <2>. HIDE DEF r, q
  <2>8. Moves(n, r)  BY <1>3, <1>5, <2>1, <2>5 DEF Moves
  <2>9. Grows(n, r)
    <3>1. r.chat # NoChat  BY <1>2, <2>4 DEF NoChat
    <3>. QED  BY <1>5, <2>1, <2>4, <2>6, <2>7, <3>1 DEF Grows, q
  <2>10. Refers(n, r)
    <3>1. r.chat <= Len(members')  BY <1>2, <2>4, <2>7
    <3>2. r.msg <= Len(stored')  BY <1>2, <2>1, <2>4, <2>6
    <3>. QED  BY <2>1, <2>4, <3>1, <3>2 DEF Refers, q
  <2>11. Staged(n, r)
    <3>1. r.chat # NoChat  BY <1>2, <2>4 DEF NoChat
    <3>. QED  BY <1>3, <1>4, <2>4, <2>6, <3>1 DEF Staged
  <2>. QED  BY <2>4, <2>8, <2>9, <2>10, <2>11, PostBasics
<1>10. CASE FindChat(n)
  BY <1>10, <1>5, <1>8 DEF FindChat, Received
<1>11. CASE AddMember(n)
  <2>1. PICK u \in q.todo :
          /\ q.pc = "members"
          /\ members' = [members EXCEPT ![q.chat] = @ \cup {u}]
          /\ post' = [post EXCEPT ![n].todo = @ \ {u},
                       ![n].pc = IF post[n].todo = {u} THEN "message" ELSE "members"]
          /\ UNCHANGED <<stored, pushes, early>>
    BY <1>11 DEF AddMember
  <2>. DEFINE pc == IF q.todo = {u} THEN "message" ELSE "members"
              r == [q EXCEPT !.todo = q.todo \ {u}, !.pc = pc]
  <2>2. u \in Users /\ q.chat \in DOMAIN members /\ q.chat # NoChat /\ q.msg = 0
    BY <1>1, <1>2, <1>6, <2>1
  <2>3. members' \in Seq(SUBSET Users) /\ Len(members') = Len(members)
    BY <1>0, <2>1, <2>2, TableFacts
  <2>4. /\ r \in Posts /\ r.pc = pc /\ r.chat = q.chat
        /\ r.todo = q.todo \ {u} /\ r.msg = q.msg
    <3>1. pc \in Working  BY DEF Working
    <3>2. q.todo \ {u} \in SUBSET Users  BY <1>1
    <3>. QED  BY <1>1, <3>1, <3>2 DEF Posts
  <2>5. post' = [post EXCEPT ![n] = r]  BY <1>1, <2>1
  <2>6. /\ pc \in {"message", "members"}
        /\ pc = "members" => q.todo \ {u} # {}
        /\ pc = "message" => q.todo \ {u} = {}
    BY <2>1
  <2>. HIDE DEF r, q, pc
  <2>7. Moves(n, r)  BY <1>3, <1>5, <2>1, <2>5 DEF Moves
  <2>8. Grows(n, r)  BY <1>5, <2>1, <2>2, <2>3, <2>4 DEF Grows, q
  <2>9. Refers(n, r)
    <3>1. q.chat <= Len(members) /\ q.msg <= Len(stored)
      BY <1>0 DEF Rows, q
    <3>. QED  BY <2>1, <2>3, <2>4, <3>1 DEF Refers, q
  <2>10. Staged(n, r)  BY <1>3, <1>4, <2>2, <2>4, <2>6 DEF Staged
  <2>. QED  BY <2>4, <2>7, <2>8, <2>9, <2>10, PostBasics
<1>12. CASE Insert(n)
  <2>1. /\ q.pc = "message" /\ stored' = Append(stored, q.chat)
        /\ post' = [post EXCEPT ![n].pc = "publish", ![n].msg = Len(stored) + 1]
        /\ UNCHANGED <<members, pushes, early>>
    BY <1>12 DEF Insert
  <2>. DEFINE r == [q EXCEPT !.pc = "publish", !.msg = Len(stored) + 1]
  <2>2. /\ q.chat \in DOMAIN members /\ q.chat # NoChat /\ q.msg = 0 /\ q.todo = {}
        /\ q.chat \in Clicks
    BY <1>2, <1>6, <2>1, ChatBounds DEF Clicks
  <2>3. n \in MessageLess  BY <2>2 DEF MessageLess
  <2>4. Len(stored) + 1 \in 0 .. MaxClicks  BY <1>2, <2>3, ChatBounds
  <2>5. /\ r \in Posts /\ r.pc = "publish" /\ r.chat = q.chat
        /\ r.todo = q.todo /\ r.msg = Len(stored) + 1
    BY <1>1, <2>4 DEF Posts, Working
  <2>6. post' = [post EXCEPT ![n] = r]  BY <1>1, <2>1
  <2>7. /\ stored' \in Seq(Clicks) /\ Len(stored') = Len(stored) + 1
        /\ \A m \in DOMAIN stored : stored'[m] = stored[m]
        /\ stored'[Len(stored) + 1] = q.chat
    BY <1>0, <2>1, <2>2, TableFacts
  <2>8. DOMAIN stored' = 1 .. Len(stored) + 1  BY <2>7, LenProperties
  <2>. HIDE DEF r, q
  <2>9. Moves(n, r)  BY <1>3, <1>5, <2>1, <2>6 DEF Moves
  <2>10. Grows(n, r)
    <3>1. r.msg # 0  BY <1>2, <2>5
    <3>. QED  BY <1>5, <2>1, <2>2, <2>5, <2>7, <3>1 DEF Grows, q
  <2>11. Refers(n, r)
    <3>1. q.chat <= Len(members)  BY <1>0 DEF Rows, q
    <3>2. \A m \in DOMAIN stored' \ DOMAIN stored : stored'[m] <= Len(members)
      BY <1>2, <2>7, <2>8, <3>1
    <3>3. r.msg <= Len(stored') /\ r.msg \notin DOMAIN stored  BY <1>2, <2>5, <2>7
    <3>. QED  BY <2>1, <2>5, <2>7, <3>1, <3>2, <3>3 DEF Refers, q
  <2>12. Staged(n, r)
    <3>1. r.msg # 0  BY <1>2, <2>5
    <3>. QED  BY <1>3, <1>4, <2>2, <2>5, <2>7, <3>1 DEF Staged
  <2>. QED  BY <2>5, <2>9, <2>10, <2>11, <2>12, PostBasics
<1>13. CASE Publish(n)
  <2>. DEFINE p == [msg |-> q.msg, chat |-> q.chat, users |-> members[q.chat]]
  <2>1. /\ q.pc = "publish" /\ post' = [post EXCEPT ![n].pc = "done"]
        /\ pushes' = [u \in Users |-> IF u \in subscribed THEN Append(pushes[u], p)
                                      ELSE pushes[u]]
        /\ early' = IF \E k \in Clicks : post[k].chat = post[n].chat /\ post[k].todo # {}
                      THEN early \cup {post[n].chat} ELSE early
        /\ UNCHANGED <<members, stored>>
    BY <1>13 DEF Publish
  <2>2. q.chat \in DOMAIN members /\ q.msg \in DOMAIN stored
    BY <1>2, <1>6, <2>1
  <2>3. q.chat \in Clicks /\ q.msg \in Clicks  BY <1>2, <2>2, ChatBounds DEF Clicks
  <2>4. members[q.chat] \in SUBSET Users  BY <1>2, <1>5, <2>2, ElementOfSeq
  <2>5. p \in Messages  BY <2>3, <2>4 DEF Messages
  <2>. HIDE DEF p
  <2>6. pushes' \in [Users -> Seq(Messages)]
    <3>1. \A u \in Users : Append(pushes[u], p) \in Seq(Messages) /\ pushes[u] \in Seq(Messages)
      BY <1>0, <2>5, QueueFacts
    <3>. QED  BY <2>1, <3>1
  <2>7. early' \subseteq Clicks  BY <1>5, <2>1, <2>3
  <2>. QED  BY <1>8, <2>1, <2>6, <2>7
<1>14. CASE Fail(n)
  BY <1>14, <1>5, <1>8 DEF Fail
<1>. QED  BY <1>9, <1>10, <1>11, <1>12, <1>13, <1>14 DEF PostNext

-----------------------------------------------------------------------------
(* What no step takes back *)

Lasts ==
    /\ \A c \in DOMAIN members : Frozen(c) => Frozen(c)' /\ members'[c] = members[c]
    /\ \A k \in Clicks : post[k].pc = "done" => post'[k] = post[k]
    /\ \A k \in Clicks : post[k].pc # "unsent" =>
         /\ post'[k].pc # "unsent" /\ post'[k].target = post[k].target
         /\ post'[k].excused = post[k].excused
         /\ post[k].chat # NoChat => post'[k].chat = post[k].chat
    /\ early \subseteq early' /\ DOMAIN members \subseteq DOMAIN members'
    /\ \A m \in DOMAIN stored : m \in DOMAIN stored' /\ stored'[m] = stored[m]

\* The step of a POST by what it does to its record.
Step(n) ==
    /\ \A k \in Clicks : k # n => post'[k] = post[k]
    /\ post'[n].target = post[n].target /\ post'[n].excused = post[n].excused
    /\ AtWork(n) /\ post'[n].pc # "unsent"
    /\ \/ /\ post'[n].chat = post[n].chat /\ post'[n].todo = post[n].todo
          /\ post'[n].pc # "members" /\ members' = members
       \/ /\ post[n].chat = NoChat /\ post'[n].chat = Len(members) + 1
          /\ post'[n].todo = post[n].target
          /\ DOMAIN members' = 1 .. Len(members) + 1 /\ members'[Len(members) + 1] = {}
          /\ \A c \in DOMAIN members : members'[c] = members[c]
       \/ \E u \in post[n].todo :
            /\ post[n].pc = "members" /\ post'[n].chat = post[n].chat
            /\ post'[n].todo = post[n].todo \ {u}
            /\ DOMAIN members' = DOMAIN members
            /\ members'[post[n].chat] = members[post[n].chat] \cup {u}
            /\ \A c \in DOMAIN members : c # post[n].chat => members'[c] = members[c]
    /\ early \subseteq early'
    /\ \A m \in DOMAIN stored : m \in DOMAIN stored' /\ stored'[m] = stored[m]
    /\ UNCHANGED <<page, subscribed, raced, clicks>>

LEMMA HandlerSteps ==
    ASSUME Basics, NEW n \in Clicks, PostNext(n)
    PROVE  Step(n)
<1>0. Types /\ Rows /\ Bounded /\ Stages  BY DEF Basics
<1>. DEFINE q == post[n]
<1>1. q \in Posts /\ Stage(n) /\ post \in [Clicks -> Posts]  BY <1>0, Records DEF Types
<1>2. /\ Len(members) \in Nat /\ DOMAIN members = 1 .. Len(members)
      /\ Len(stored) \in Nat /\ DOMAIN stored = 1 .. Len(stored)
      /\ q.chat # NoChat => q.chat \in DOMAIN members
  BY <1>0, TypeFacts
<1>3. /\ UNCHANGED <<page, subscribed, raced, clicks>>
      /\ AtWork(n) /\ early \subseteq early'
  BY DEF PostNext, CreateChat, FindChat, AddMember, Insert, Publish, Fail, Received,
         AtWork, Working
<1>4. q.pc \in {"members", "message", "publish", "done"} => q.chat # NoChat
  BY <1>1 DEF Stage
<1>5. ASSUME stored' = stored
      PROVE  \A m \in DOMAIN stored : m \in DOMAIN stored' /\ stored'[m] = stored[m]
  BY <1>5
<1>6. ASSUME NEW pc, pc # "unsent", pc # "members", post' = [post EXCEPT ![n].pc = pc],
             members' = members, stored' = stored
      PROVE  Step(n)
  <2>1. /\ \A k \in Clicks : k # n => post'[k] = post[k]
        /\ post'[n].target = post[n].target /\ post'[n].excused = post[n].excused
        /\ post'[n].chat = post[n].chat /\ post'[n].todo = post[n].todo
        /\ post'[n].pc = pc
    BY <1>1, <1>6 DEF Posts
  <2>. QED  BY <1>3, <1>5, <1>6, <2>1 DEF Step
<1>7. CASE CreateChat(n)
  <2>1. q.chat = NoChat /\ members' = Append(members, {}) /\ stored' = stored
        /\ post' = [post EXCEPT ![n].pc = "members", ![n].chat = Len(members) + 1,
                                ![n].todo = post[n].target]
    BY <1>7 DEF CreateChat
  <2>2. /\ \A k \in Clicks : k # n => post'[k] = post[k]
        /\ post'[n].target = post[n].target /\ post'[n].excused = post[n].excused
        /\ post'[n].chat = Len(members) + 1 /\ post'[n].todo = post[n].target
        /\ post'[n].pc = "members"
    BY <1>1, <2>1 DEF Posts
  <2>3. /\ members' \in Seq(SUBSET Users) /\ Len(members') = Len(members) + 1
        /\ members'[Len(members) + 1] = {}
        /\ \A c \in DOMAIN members : members'[c] = members[c]
    BY <1>0, <2>1, TableFacts
  <2>4. DOMAIN members' = 1 .. Len(members) + 1  BY <2>3, LenProperties
  <2>. QED  BY <1>3, <1>5, <2>1, <2>2, <2>3, <2>4 DEF Step
<1>8. CASE AddMember(n)
  <2>1. PICK u \in q.todo :
          /\ q.pc = "members" /\ stored' = stored
          /\ members' = [members EXCEPT ![q.chat] = @ \cup {u}]
          /\ post' = [post EXCEPT ![n].todo = @ \ {u},
                       ![n].pc = IF post[n].todo = {u} THEN "message" ELSE "members"]
    BY <1>8 DEF AddMember
  <2>2. /\ \A k \in Clicks : k # n => post'[k] = post[k]
        /\ post'[n].target = post[n].target /\ post'[n].excused = post[n].excused
        /\ post'[n].chat = post[n].chat /\ post'[n].todo = post[n].todo \ {u}
        /\ post'[n].pc # "unsent"
    BY <1>1, <2>1 DEF Posts
  <2>3. u \in Users /\ q.chat \in DOMAIN members  BY <1>1, <1>2, <1>4, <2>1 DEF Posts
  <2>4. /\ members' \in Seq(SUBSET Users) /\ Len(members') = Len(members)
        /\ members'[q.chat] = members[q.chat] \cup {u}
        /\ \A c \in DOMAIN members : c # q.chat => members'[c] = members[c]
    BY <1>0, <2>1, <2>3, TableFacts
  <2>5. DOMAIN members' = DOMAIN members  BY <1>2, <2>4, LenProperties
  <2>. QED  BY <1>3, <1>5, <2>1, <2>2, <2>4, <2>5 DEF Step
<1>9. CASE Insert(n)
  <2>1. /\ q.pc = "message" /\ stored' = Append(stored, q.chat) /\ members' = members
        /\ post' = [post EXCEPT ![n].pc = "publish", ![n].msg = Len(stored) + 1]
    BY <1>9 DEF Insert
  <2>2. /\ \A k \in Clicks : k # n => post'[k] = post[k]
        /\ post'[n].target = post[n].target /\ post'[n].excused = post[n].excused
        /\ post'[n].chat = post[n].chat /\ post'[n].todo = post[n].todo
        /\ post'[n].pc = "publish"
    BY <1>1, <2>1 DEF Posts
  <2>3. q.chat \in Clicks  BY <1>1, <1>4, <2>1 DEF Posts, Clicks, NoChat
  <2>4. /\ stored' \in Seq(Clicks) /\ Len(stored') = Len(stored) + 1
        /\ \A m \in DOMAIN stored : stored'[m] = stored[m]
    BY <1>0, <2>1, <2>3, TableFacts
  <2>5. DOMAIN stored' = 1 .. Len(stored) + 1  BY <2>4, LenProperties
  <2>6. \A m \in DOMAIN stored : m \in DOMAIN stored' /\ stored'[m] = stored[m]
    BY <1>2, <2>4, <2>5
  <2>. QED  BY <1>3, <2>1, <2>2, <2>6 DEF Step
<1>10. CASE FindChat(n)  BY <1>6, <1>10 DEF FindChat
<1>11. CASE Publish(n)  BY <1>6, <1>11 DEF Publish
<1>12. CASE Fail(n)  BY <1>6, <1>12 DEF Fail
<1>. QED  BY <1>7, <1>8, <1>9, <1>10, <1>11, <1>12 DEF PostNext

\* A click takes the first POST that has not been sent.
LEMMA ClickStep ==
    ASSUME Basics, NEW u, NEW target, NEW chat, NEW excused,
           Asked(u, target, chat, excused), SendFn(u, target, chat, excused)
    PROVE  /\ clicks + 1 \in Clicks /\ post[clicks + 1] = Unsent
           /\ clicks \in Nat /\ clicks' = clicks + 1
           /\ \A k \in Clicks : k # clicks + 1 => post'[k] = post[k]
           /\ post'[clicks + 1] = [pc |-> "sent", target |-> target, chat |-> chat,
                                   todo |-> {}, msg |-> 0, excused |-> excused]
           /\ UNCHANGED <<members, stored, page, subscribed, pushes, opens, early>>
           /\ raced' = raced \cup {v \in Users : Loading(v)}
<1>0. Types /\ Rows /\ Bounded /\ Stages  BY DEF Basics
<1>1. clicks + 1 \in Clicks /\ clicks \in Nat
  BY <1>0, ChatBounds DEF Types, Clicks, SendFn
<1>2. post[clicks + 1] = Unsent
  <2>1. Stage(clicks + 1) /\ clicks + 1 > clicks  BY <1>0, <1>1 DEF Stages
  <2>. QED  BY <2>1 DEF Stage
<1>. QED  BY <1>0, <1>1, <1>2 DEF SendFn, Types

LEMMA HandlerLasts ==
    ASSUME Basics, NEW n \in Clicks, Step(n)
    PROVE  Lasts
<1>0. Types /\ Rows /\ Bounded /\ Stages  BY DEF Basics
<1>1. /\ Len(members) \in Nat /\ DOMAIN members = 1 .. Len(members)
      /\ post[n].chat # NoChat => post[n].chat \in DOMAIN members
      /\ post[n].pc = "members" => post[n].chat # NoChat
  BY <1>0, TypeFacts DEF Stages, Stage
<1>2. DOMAIN members \subseteq DOMAIN members'
  BY <1>1 DEF Step
<1>3. ASSUME NEW c \in DOMAIN members, Frozen(c)
      PROVE  Frozen(c)' /\ members'[c] = members[c]
  <2>1. \A k \in Clicks : post[k].chat = c => post[k].pc # "members"
    BY <1>3 DEF Frozen
  <2>2. c # Len(members) + 1  BY <1>1
  <2>3. members'[c] = members[c]  BY <2>1 DEF Step
  <2>4. post'[n].chat = c => post'[n].pc # "members"  BY <2>1, <2>2 DEF Step
  <2>5. \A k \in Clicks : k # n => post'[k] = post[k]  BY DEF Step
  <2>. QED  BY <2>1, <2>3, <2>4, <2>5 DEF Frozen
<1>4. \A k \in Clicks : post[k].pc = "done" => post'[k] = post[k]
  BY DEF Step, AtWork, Working
<1>5. ASSUME NEW k \in Clicks, post[k].pc # "unsent"
      PROVE  /\ post'[k].pc # "unsent" /\ post'[k].target = post[k].target
             /\ post'[k].excused = post[k].excused
             /\ post[k].chat # NoChat => post'[k].chat = post[k].chat
  BY <1>5 DEF Step
<1>. QED  BY <1>2, <1>3, <1>4, <1>5 DEF Lasts, Step

LEMMA ClickLasts ==
    ASSUME Basics, NEW u, NEW target, NEW chat, NEW excused,
           Asked(u, target, chat, excused), SendFn(u, target, chat, excused)
    PROVE  Lasts
<1>. DEFINE n == clicks + 1
<1>0. /\ n \in Clicks /\ post[n] = Unsent
      /\ post'[n] = [pc |-> "sent", target |-> target, chat |-> chat,
                     todo |-> {}, msg |-> 0, excused |-> excused]
      /\ \A k \in Clicks : k # n => post'[k] = post[k]
      /\ UNCHANGED <<members, stored, early>>
  BY ClickStep
<1>1. /\ n \in Clicks /\ post[n].pc = "unsent" /\ post'[n].pc = "sent"
      /\ \A k \in Clicks : k # n => post'[k] = post[k]
      /\ UNCHANGED <<members, stored, early>>
  BY <1>0 DEF Unsent
<1>. HIDE DEF n
<1>2. \A c \in DOMAIN members : Frozen(c) => Frozen(c)'
  BY <1>1 DEF Frozen
<1>. QED  BY <1>1, <1>2 DEF Lasts

LEMMA PageLasts ==
    ASSUME UNCHANGED <<members, stored, post, early>>
    PROVE  Lasts
<1>1. \A c \in DOMAIN members : Frozen(c) => Frozen(c)'  BY DEF Frozen
<1>. QED  BY <1>1 DEF Lasts

\* A message on its way stays what it is.
LEMMA CarriedStays ==
    ASSUME Basics, Lasts, NEW p \in Messages, Carried(p)
    PROVE  Carried(p)'
<1>0. Types /\ Rows /\ Bounded /\ Stages  BY DEF Basics
<1>1. p.msg \in DOMAIN stored /\ p.chat = stored[p.msg]  BY DEF Carried
<1>2. p.chat \in DOMAIN members
  <2>1. p.chat \in Nat /\ p.chat >= 1 /\ p.chat <= Len(members)
    BY <1>0, <1>1 DEF Messages, Rows, Clicks
  <2>. QED  BY <1>0, <2>1, TypeFacts
<1>3. PICK n \in Clicks : post[n].pc = "done" /\ post[n].msg = p.msg  BY DEF Carried
<1>4. post'[n].pc = "done" /\ post'[n].msg = p.msg  BY <1>3 DEF Lasts
<1>5. p.chat \notin early' => p.users = members'[p.chat] /\ Frozen(p.chat)'
  BY <1>2 DEF Lasts, Carried
<1>6. p.msg \in DOMAIN stored' /\ p.chat = stored'[p.msg]  BY <1>1 DEF Lasts
<1>. QED  BY <1>4, <1>5, <1>6 DEF Carried

\* A chat that a published message did not spoil has all its users.
LEMMA CompleteFrozen ==
    ASSUME Basics, Complete, NEW n \in Clicks, post[n].pc = "done",
           post[n].chat \notin early
    PROVE  Frozen(post[n].chat) /\ post[n].chat \in DOMAIN members
<1>0. Types /\ Rows /\ Bounded /\ Stages  BY DEF Basics
<1>1. post[n].chat # NoChat  BY <1>0 DEF Stages, Stage
<1>2. \A k \in Clicks : post[k].chat = post[n].chat => post[k].todo = {}
  BY DEF Complete
<1>3. \A k \in Clicks : post[k].pc = "members" => post[k].todo # {}
  BY <1>0 DEF Stages, Stage
<1>. QED  BY <1>0, <1>1, <1>2, <1>3, TypeFacts DEF Frozen

-----------------------------------------------------------------------------
(* Messages on their way *)

\* What a publication adds.
Published(n) ==
    LET p == [msg |-> post[n].msg, chat |-> post[n].chat, users |-> members[post[n].chat]] IN
    /\ post[n].pc = "publish" /\ post'[n].pc = "done"
    /\ post'[n].msg = post[n].msg /\ post'[n].chat = post[n].chat
    /\ \A k \in Clicks : k # n => post'[k] = post[k]
    /\ p \in Messages /\ p.msg \in DOMAIN stored /\ p.chat = stored[p.msg]
    /\ \A u \in Users : pushes'[u] = IF u \in subscribed THEN Append(pushes[u], p)
                                     ELSE pushes[u]
    /\ post[n].chat \notin early' => \A k \in Clicks :
         post[k].chat = post[n].chat => post[k].todo = {}
    /\ UNCHANGED <<members, stored>>

LEMMA PublishStep ==
    ASSUME Basics, NEW n \in Clicks, Publish(n)
    PROVE  Published(n)
<1>0. Types /\ Rows /\ Bounded /\ Stages  BY DEF Basics
<1>. DEFINE q == post[n]
            p == [msg |-> q.msg, chat |-> q.chat, users |-> members[q.chat]]
<1>1. /\ q.pc = "publish" /\ post' = [post EXCEPT ![n].pc = "done"]
      /\ pushes' = [u \in Users |-> IF u \in subscribed THEN Append(pushes[u], p)
                                    ELSE pushes[u]]
      /\ early' = IF \E k \in Clicks : post[k].chat = q.chat /\ post[k].todo # {}
                    THEN early \cup {q.chat} ELSE early
      /\ UNCHANGED <<members, stored>>
  BY DEF Publish
<1>2. q \in Posts /\ post \in [Clicks -> Posts] /\ Stage(n)  BY <1>0, Records DEF Types
<1>3. /\ post'[n].pc = "done" /\ post'[n].msg = q.msg /\ post'[n].chat = q.chat
      /\ \A k \in Clicks : k # n => post'[k] = post[k]
  BY <1>1, <1>2 DEF Posts
<1>4. q.msg # 0 /\ q.chat # NoChat /\ stored[q.msg] = q.chat  BY <1>1, <1>2 DEF Stage
<1>5. /\ Len(members) \in Nat /\ DOMAIN members = 1 .. Len(members)
      /\ Len(members) <= MaxClicks /\ Len(stored) <= MaxClicks
      /\ Len(stored) \in Nat /\ DOMAIN stored = 1 .. Len(stored)
      /\ q.chat \in DOMAIN members /\ q.msg \in DOMAIN stored
  BY <1>0, <1>4, TypeFacts
<1>6. q.chat \in Clicks /\ q.msg \in Clicks  BY <1>5, ChatBounds DEF Clicks
<1>7. members[q.chat] \in SUBSET Users  BY <1>0, <1>5, ElementOfSeq DEF Types
<1>8. p \in Messages /\ p.msg = q.msg /\ p.chat = q.chat  BY <1>6, <1>7 DEF Messages
<1>9. q.chat \notin early' => \A k \in Clicks : post[k].chat = q.chat => post[k].todo = {}
  BY <1>1
<1>10. \A u \in Users : pushes'[u] = IF u \in subscribed THEN Append(pushes[u], p)
                                     ELSE pushes[u]
  BY <1>1
<1>. HIDE DEF p
<1>11. p.msg \in DOMAIN stored /\ p.chat = stored[p.msg]  BY <1>4, <1>5, <1>8
<1>. QED  BY <1>1, <1>3, <1>8, <1>9, <1>10, <1>11 DEF Published, p

\* Which actions leave the queues of the pages alone.
LEMMA QueuesLeft ==
    ASSUME NEW n, CreateChat(n) \/ FindChat(n) \/ AddMember(n) \/ Insert(n) \/ Fail(n)
    PROVE  pushes' = pushes /\ early' = early
BY DEF CreateChat, FindChat, AddMember, Insert, Fail

Distinct(s) == \A i, j \in DOMAIN s : s[i].msg = s[j].msg => i = j

LEMMA OnTheWayStep ==
    ASSUME Inv, ChatNext, Lasts
    PROVE  OnTheWay'
<1>0. Basics /\ Types /\ Rows /\ Bounded /\ Stages  BY DEF Inv, Basics
<1>1. \A u \in Users : Distinct(pushes[u]) /\ \A i \in DOMAIN pushes[u] : Carried(pushes[u][i])
  BY DEF Inv, OnTheWay, Distinct
<1>2. SUFFICES ASSUME NEW u \in Users
               PROVE  Distinct(pushes'[u]) /\ \A i \in DOMAIN pushes'[u] : Carried(pushes[u][i])'
  BY DEF OnTheWay, Distinct
<1>3. /\ pushes[u] \in Seq(Messages) /\ Len(pushes[u]) \in Nat
      /\ DOMAIN pushes[u] = 1 .. Len(pushes[u])
      /\ \A i \in DOMAIN pushes[u] : pushes[u][i] \in Messages
  BY <1>0, LenProperties, ElementOfSeq, QueueFacts
<1>4. \A i \in DOMAIN pushes[u] : Carried(pushes[u][i])
  BY <1>1
<1>5. ASSUME NEW i \in DOMAIN pushes[u], NEW p, p = pushes[u][i] PROVE Carried(p)'
  <2>1. p \in Messages /\ Carried(p)  BY <1>3, <1>4, <1>5
  <2>. QED  BY <1>0, <2>1, CarriedStays
<1>6. ASSUME NEW i \in DOMAIN pushes'[u], NEW p, p = pushes'[u][i], Carried(p)'
      PROVE  Carried(pushes[u][i])'
  BY <1>6 DEF Carried, Frozen
<1>7. CASE pushes'[u] = pushes[u]
  BY <1>1, <1>5, <1>6, <1>7
<1>8. CASE pushes'[u] = <<>>
  BY <1>8 DEF Distinct
<1>9. CASE Push(u)
  <2>. DEFINE t == Tail(pushes[u])
  <2>1. pushes[u] # <<>> /\ pushes'[u] = t
    BY <1>0, <1>9 DEF Push, Types
  <2>2. /\ t \in Seq(Messages) /\ Len(t) = Len(pushes[u]) - 1
        /\ Len(pushes[u]) \in Nat \ {0}
        /\ \A i \in 1 .. Len(t) : t[i] = pushes[u][i + 1]
    BY <1>0, <2>1, QueueFacts
  <2>3. DOMAIN t = 1 .. Len(t)  BY <2>2, LenProperties
  <2>. HIDE DEF t
  <2>4. \A i \in DOMAIN t : i + 1 \in DOMAIN pushes[u] /\ t[i] = pushes[u][i + 1]
    BY <1>3, <2>2, <2>3
  <2>5. Distinct(t)
    <3>. SUFFICES ASSUME NEW i \in DOMAIN t, NEW j \in DOMAIN t, t[i].msg = t[j].msg
                  PROVE  i = j
      BY DEF Distinct
    <3>1. i + 1 = j + 1  BY <1>1, <2>4 DEF Distinct
    <3>. QED  BY <3>1, <2>2, <2>3
  <2>6. ASSUME NEW i \in DOMAIN pushes'[u]  PROVE Carried(pushes[u][i])'
    <3>1. PICK p : p = pushes'[u][i]  OBVIOUS
    <3>2. p = pushes[u][i + 1] /\ i + 1 \in DOMAIN pushes[u]  BY <2>1, <2>4, <3>1
    <3>3. Carried(p)'  BY <1>5, <3>2
    <3>. QED  BY <1>6, <3>1, <3>3
  <2>. QED  BY <2>1, <2>5, <2>6
<1>10. ASSUME NEW n \in Clicks, Publish(n), u \in subscribed
       PROVE  Distinct(pushes'[u]) /\ \A i \in DOMAIN pushes'[u] : Carried(pushes[u][i])'
  <2>1. Published(n)  BY <1>0, <1>10, PublishStep
  <2>2. PICK m : m = [msg |-> post[n].msg, chat |-> post[n].chat,
                      users |-> members[post[n].chat]]
    OBVIOUS
  <2>3. /\ m \in Messages /\ m.msg \in DOMAIN stored /\ m.chat = stored[m.msg]
        /\ pushes'[u] = Append(pushes[u], m)
        /\ m.msg = post[n].msg /\ m.chat = post[n].chat /\ m.users = members[m.chat]
    BY <1>10, <2>1, <2>2 DEF Published
  <2>4. /\ pushes'[u] \in Seq(Messages) /\ Len(pushes'[u]) = Len(pushes[u]) + 1
        /\ \A i \in 1 .. Len(pushes[u]) : pushes'[u][i] = pushes[u][i]
        /\ pushes'[u][Len(pushes[u]) + 1] = m
    BY <1>0, <2>3, QueueFacts
  <2>5. DOMAIN pushes'[u] = 1 .. Len(pushes[u]) + 1  BY <2>4, LenProperties
  <2>6. \A i \in DOMAIN pushes[u] : pushes[u][i].msg # m.msg
    <3>. SUFFICES ASSUME NEW i \in DOMAIN pushes[u], pushes[u][i].msg = m.msg
                  PROVE  FALSE
      OBVIOUS
    <3>1. PICK k \in Clicks : post[k].pc = "done" /\ post[k].msg = m.msg
      BY <1>4 DEF Carried
    <3>2. k # n /\ post[n].msg # 0  BY <1>0, <2>1, <3>1 DEF Published, Stages, Stage
    <3>. QED  BY <1>0, <2>3, <3>1, <3>2 DEF Stages
  <2>7. Distinct(pushes'[u])
    <3>. SUFFICES ASSUME NEW i \in DOMAIN pushes'[u], NEW j \in DOMAIN pushes'[u],
                         pushes'[u][i].msg = pushes'[u][j].msg
                  PROVE  i = j
      BY DEF Distinct
    <3>1. \A k \in DOMAIN pushes'[u] :
             \/ k \in DOMAIN pushes[u] /\ pushes'[u][k] = pushes[u][k]
             \/ k = Len(pushes[u]) + 1 /\ pushes'[u][k] = m
      BY <1>3, <2>4, <2>5
    <3>2. \A k, l \in DOMAIN pushes[u] : pushes[u][k].msg = pushes[u][l].msg => k = l
      BY <1>1 DEF Distinct
    <3>. QED  BY <2>6, <3>1, <3>2
  <2>8. Carried(m)'
    <3>1. post'[n].pc = "done" /\ post'[n].msg = m.msg  BY <2>1, <2>3 DEF Published
    <3>2. m.chat \notin early' => Frozen(m.chat)'
      <4>. SUFFICES ASSUME m.chat \notin early', NEW k \in Clicks, post'[k].chat = m.chat
                    PROVE  post'[k].pc # "members"
        BY DEF Frozen
      <4>1. \A l \in Clicks : post[l].chat = m.chat => post[l].todo = {}
        BY <2>1, <2>3 DEF Published
      <4>2. \A l \in Clicks : post[l].pc = "members" => post[l].todo # {}
        BY <1>0 DEF Stages, Stage
      <4>. QED  BY <2>1, <3>1, <4>1, <4>2 DEF Published
    <3>3. members' = members /\ stored' = stored  BY <2>1 DEF Published
    <3>. QED  BY <2>3, <3>1, <3>2, <3>3 DEF Carried
  <2>9. ASSUME NEW i \in DOMAIN pushes'[u]  PROVE Carried(pushes[u][i])'
    <3>1. PICK p : p = pushes'[u][i]  OBVIOUS
    <3>2. CASE i \in DOMAIN pushes[u]
      <4>1. p = pushes[u][i]  BY <1>3, <2>4, <3>1, <3>2
      <4>. QED  BY <1>5, <1>6, <3>1, <3>2, <4>1
    <3>3. CASE i \notin DOMAIN pushes[u]
      <4>1. i = Len(pushes[u]) + 1  BY <1>3, <2>5, <3>3
      <4>2. p = m  BY <2>4, <3>1, <4>1
      <4>. QED  BY <1>6, <2>8, <3>1, <4>2
    <3>. QED  BY <3>2, <3>3
  <2>. QED  BY <2>7, <2>9
<1>11. CASE \E v \in Users : PageNext(v)
  <2>1. PICK v \in Users : PageNext(v)  BY <1>11
  <2>2. CASE Open(v)
    <3>1. pushes'[u] = IF u = v THEN <<>> ELSE pushes[u]  BY <1>0, <2>2 DEF Open, Types
    <3>. QED  BY <1>7, <1>8, <3>1
  <2>3. CASE Push(v)
    <3>1. u # v => pushes'[u] = pushes[u]  BY <1>0, <2>3 DEF Push, Types
    <3>. QED  BY <1>7, <1>9, <2>3, <3>1
  <2>4. CASE Subscribe(v) \/ Read(v) \/ Show(v)
    <3>1. pushes' = pushes  BY <2>4 DEF Subscribe, Read, Show
    <3>. QED  BY <1>7, <3>1
  <2>5. CASE SendToUsers(v) \/ SendToChat(v)
    <3>1. pushes' = pushes  BY <2>5 DEF SendToUsers, SendToChat, SendFn
    <3>. QED  BY <1>7, <3>1
  <2>. QED  BY <2>1, <2>2, <2>3, <2>4, <2>5 DEF PageNext
<1>12. CASE \E n \in Clicks : PostNext(n)
  <2>1. PICK n \in Clicks : PostNext(n)  BY <1>12
  <2>2. CASE Publish(n)
    <3>1. u \notin subscribed => pushes'[u] = pushes[u]  BY <1>0, <2>2 DEF Publish
    <3>. QED  BY <1>7, <1>10, <2>2, <3>1
  <2>. QED  BY <1>7, <2>1, <2>2, QueuesLeft DEF PostNext
<1>. QED  BY <1>11, <1>12 DEF ChatNext

-----------------------------------------------------------------------------
(* Who inserts a chat *)

\* Only a publication ends a POST well.
LEMMA EndsPublished ==
    ASSUME Basics, NEW n \in Clicks, PostNext(n), post'[n].pc = "done"
    PROVE  Publish(n)
<1>1. post[n] \in Posts /\ post \in [Clicks -> Posts]  BY Records DEF Basics, Types
<1>2. ~CreateChat(n) /\ ~FindChat(n) /\ ~Insert(n) /\ ~Fail(n)
  BY <1>1 DEF CreateChat, FindChat, Insert, Fail, Posts
<1>3. ~AddMember(n)
  <2>. SUFFICES ASSUME AddMember(n) PROVE FALSE  OBVIOUS
  <2>1. PICK u \in post[n].todo : post' = [post EXCEPT ![n].todo = @ \ {u},
             ![n].pc = IF post[n].todo = {u} THEN "message" ELSE "members"]
    BY DEF AddMember
  <2>. QED  BY <1>1, <2>1 DEF Posts
<1>. QED  BY <1>2, <1>3 DEF PostNext

LEMMA CompleteStep ==
    ASSUME Inv, Lasts, NEW n \in Clicks, PostNext(n)
    PROVE  Complete'
<1>0. Basics /\ Types /\ Rows /\ Bounded /\ Stages /\ Complete  BY DEF Inv, Basics
<1>1. Step(n)  BY <1>0, HandlerSteps
<1>2. SUFFICES ASSUME NEW i \in Clicks, NEW k \in Clicks, post'[i].pc = "done",
                      post'[i].chat \notin early', post'[k].chat = post'[i].chat
               PROVE  post'[k].todo = {}
  BY DEF Complete
<1>3. CASE post[i].pc = "done"
  <2>1. post'[i] = post[i] /\ post[i].chat \notin early  BY <1>2, <1>3 DEF Lasts
  <2>2. \A j \in Clicks : post[j].chat = post[i].chat => post[j].todo = {}
    BY <1>0, <1>3, <2>1 DEF Complete
  <2>3. post[i].chat # Len(members) + 1
    <3>1. post[i].chat \in Nat /\ post[i].chat <= Len(members) /\ Len(members) \in Nat
      BY <1>0, TypeFacts DEF Types, Posts, Rows
    <3>. QED  BY <3>1
  <2>4. CASE k # n  BY <1>1, <1>2, <2>1, <2>2, <2>4 DEF Step
  <2>5. CASE k = n  BY <1>1, <1>2, <2>1, <2>2, <2>3, <2>5 DEF Step
  <2>. QED  BY <2>4, <2>5
<1>4. CASE post[i].pc # "done"
  <2>1. i = n  BY <1>1, <1>2, <1>4 DEF Step
  <2>2. Publish(n)  BY <1>0, <1>2, <2>1, EndsPublished
  <2>3. Published(n)  BY <1>0, <2>2, PublishStep
  <2>4. \A j \in Clicks : post[j].chat = post[n].chat => post[j].todo = {}
    BY <1>2, <2>1, <2>3 DEF Published
  <2>5. post'[n].todo = post[n].todo
    <3>1. post[n] \in Posts /\ post \in [Clicks -> Posts]  BY <1>0, Records DEF Types
    <3>. QED  BY <2>2, <3>1 DEF Publish, Posts
  <2>. QED  BY <1>2, <2>1, <2>3, <2>4, <2>5 DEF Published
<1>. QED  BY <1>3, <1>4

\* The POST that inserted a chat stays the one that inserted it.
LEMMA CreatorStays ==
    ASSUME Basics, NEW c \in DOMAIN members, NEW j \in Clicks, Creator(c, j),
           NEW n \in Clicks, Step(n)
    PROVE  Creator(c, j)'
<1>0. Types /\ Rows /\ Bounded /\ Stages  BY DEF Basics
<1>1. Len(members) \in Nat /\ DOMAIN members = 1 .. Len(members)  BY <1>0, TypeFacts
<1>2. c # NoChat /\ c # Len(members) + 1  BY <1>1 DEF NoChat
<1>3. /\ post[j].chat = c /\ members[c] \cup post[j].todo = post[j].target
      /\ \A k \in Clicks : post[k].chat = c => j <= k /\ (k # j => post[k].todo = {})
  BY DEF Creator
<1>4. \A k \in Clicks : k # n => post'[k] = post[k]  BY DEF Step
<1>5. CASE post[n].chat # c
  <2>1. post'[n].chat # c /\ members'[c] = members[c]  BY <1>2, <1>5 DEF Step
  <2>2. n # j  BY <1>3, <1>5
  <2>. QED  BY <1>3, <1>4, <2>1, <2>2 DEF Creator
<1>6. CASE post[n].chat = c /\ post'[n].todo = post[n].todo /\ members' = members
  <2>1. post'[n].chat = c /\ post'[n].target = post[n].target  BY <1>2, <1>6 DEF Step
  <2>. QED  BY <1>3, <1>4, <1>6, <2>1 DEF Creator
<1>7. ASSUME post[n].chat = c, NEW u \in post[n].todo, post'[n].chat = c,
             post'[n].todo = post[n].todo \ {u}, members'[c] = members[c] \cup {u}
      PROVE  Creator(c, j)'
  <2>1. n = j  BY <1>3, <1>7
  <2>2. post'[j].target = post[j].target  BY <2>1 DEF Step
  <2>3. members'[c] \cup post'[j].todo = post'[j].target  BY <1>3, <1>7, <2>1, <2>2
  <2>. QED  BY <1>3, <1>4, <1>7, <2>1, <2>3 DEF Creator
<1>. QED  BY <1>2, <1>5, <1>6, <1>7 DEF Step

LEMMA CreatorClick ==
    ASSUME Basics, NEW c \in DOMAIN members, NEW j \in Clicks, Creator(c, j),
           NEW u, NEW target, NEW chat, NEW excused,
           Asked(u, target, chat, excused), SendFn(u, target, chat, excused)
    PROVE  Creator(c, j)'
<1>0. Types /\ Rows /\ Bounded /\ Stages  BY DEF Basics
<1>. DEFINE n == clicks + 1
<1>1. /\ n \in Clicks /\ post[n] = Unsent /\ clicks \in Nat
      /\ post'[n] = [pc |-> "sent", target |-> target, chat |-> chat,
                     todo |-> {}, msg |-> 0, excused |-> excused]
      /\ \A k \in Clicks : k # n => post'[k] = post[k]
      /\ members' = members
  BY ClickStep
<1>2. post[n].chat = NoChat /\ post'[n].todo = {}  BY <1>1 DEF Unsent
<1>3. c # NoChat  BY <1>0, TypeFacts DEF NoChat
<1>4. /\ post[j].chat = c /\ members[c] \cup post[j].todo = post[j].target
      /\ \A k \in Clicks : post[k].chat = c => j <= k /\ (k # j => post[k].todo = {})
  BY DEF Creator
<1>5. j # n /\ post[j].pc # "unsent"
  <2>1. Stage(j)  BY <1>0 DEF Stages
  <2>. QED  BY <1>2, <1>3, <1>4, <2>1 DEF Stage, Unsent
<1>6. j <= n
  <2>1. Stage(j)  BY <1>0 DEF Stages
  <2>2. ~(j > clicks) /\ j \in Nat  BY <1>5, <2>1 DEF Stage, Clicks
  <2>. QED  BY <1>1, <2>2
<1>. HIDE DEF n
<1>7. post'[j].chat = c /\ members'[c] \cup post'[j].todo = post'[j].target
  BY <1>1, <1>4, <1>5
<1>8. \A k \in Clicks : post'[k].chat = c => j <= k /\ (k # j => post'[k].todo = {})
  BY <1>1, <1>2, <1>4, <1>6
<1>. QED  BY <1>7, <1>8 DEF Creator

LEMMA CreatedStep ==
    ASSUME Basics, Created, NEW n \in Clicks, Step(n), Basics'
    PROVE  Created' /\ (post[n].chat = NoChat /\ post'[n].chat # NoChat
                          => Creator(post[n].chat, n)')
<1>0. Types /\ Rows /\ Bounded /\ Stages  BY DEF Basics
<1>1. Len(members) \in Nat /\ DOMAIN members = 1 .. Len(members)  BY <1>0, TypeFacts
<1>2. ASSUME NEW c \in DOMAIN members  PROVE \E j \in Clicks : Creator(c, j)'
  BY <1>2, CreatorStays DEF Created
<1>3. ASSUME post[n].chat = NoChat, post'[n].chat # NoChat, NEW c, c = post'[n].chat
      PROVE  c = Len(members) + 1 /\ Creator(c, n)'
  <2>1. /\ post'[n].chat = Len(members) + 1 /\ post'[n].todo = post[n].target
        /\ members'[Len(members) + 1] = {}
    <3>1. Stage(n)  BY <1>0 DEF Stages
    <3>2. post[n].pc # "members"  BY <1>3, <3>1 DEF Stage
    <3>. QED  BY <1>3, <3>2 DEF Step
  <2>2. \A k \in Clicks : k # n => post'[k] = post[k]  BY DEF Step
  <2>3. ASSUME NEW k \in Clicks, k # n  PROVE post'[k].chat # c
    <3>1. post[k].chat \in Nat /\ post[k].chat <= Len(members)
      BY <1>0 DEF Types, Posts, Rows
    <3>. QED  BY <1>1, <1>3, <2>1, <2>2, <2>3, <3>1
  <2>4. post'[n].target = post[n].target  BY DEF Step
  <2>5. members'[c] \cup post'[n].todo = post'[n].target  BY <1>3, <2>1, <2>4
  <2>6. n <= n  BY DEF Clicks
  <2>. QED  BY <1>3, <2>1, <2>3, <2>5, <2>6 DEF Creator
<1>4. ASSUME NEW c \in DOMAIN members', c \notin DOMAIN members
      PROVE  \E j \in Clicks : Creator(c, j)'
  <2>1. post[n].chat = NoChat /\ post'[n].chat = Len(members) + 1 /\ c = Len(members) + 1
    BY <1>1, <1>4 DEF Step
  <2>2. post'[n].chat # NoChat  BY <1>1, <2>1 DEF NoChat
  <2>. QED  BY <1>3, <2>1, <2>2
<1>5. Created'  BY <1>2, <1>4 DEF Created
<1>6. ASSUME post[n].chat = NoChat, post'[n].chat # NoChat
      PROVE  Creator(post[n].chat, n)'
  <2>1. PICK c : c = post'[n].chat  OBVIOUS
  <2>2. Creator(c, n)'  BY <1>3, <1>6, <2>1
  <2>. QED  BY <2>1, <2>2 DEF Creator
<1>. QED  BY <1>5, <1>6

LEMMA CompleteClick ==
    ASSUME Basics, Complete, NEW u, NEW target, NEW chat, NEW excused,
           Asked(u, target, chat, excused), SendFn(u, target, chat, excused)
    PROVE  Complete'
<1>. DEFINE n == clicks + 1
<1>1. /\ n \in Clicks
      /\ post'[n] = [pc |-> "sent", target |-> target, chat |-> chat,
                     todo |-> {}, msg |-> 0, excused |-> excused]
      /\ \A k \in Clicks : k # n => post'[k] = post[k]
      /\ early' = early
  BY ClickStep
<1>. HIDE DEF n
<1>2. post'[n].todo = {} /\ post'[n].pc = "sent"  BY <1>1
<1>. QED  BY <1>1, <1>2 DEF Complete

LEMMA CreatedClick ==
    ASSUME Basics, Created, NEW u, NEW target, NEW chat, NEW excused,
           Asked(u, target, chat, excused), SendFn(u, target, chat, excused)
    PROVE  Created'
<1>1. members' = members  BY DEF SendFn
<1>2. ASSUME NEW c \in DOMAIN members  PROVE \E j \in Clicks : Creator(c, j)'
  BY <1>2, CreatorClick DEF Created
<1>. QED  BY <1>1, <1>2 DEF Created

\* A POST that has been sent stays justified.
LEMMA JustifiedStays ==
    ASSUME Inv, Lasts, NEW k \in Clicks, post[k].pc # "unsent",
           post'[k].chat # NoChat => Creator(post[k].chat, k)'
           \/ post[k].excused
    PROVE  Justified(k)'
<1>0. Basics /\ Types /\ Rows /\ Bounded /\ Stages /\ Complete /\ Justified(k)
  BY DEF Inv, Basics
<1>1. post'[k].target = post[k].target /\ post'[k].excused = post[k].excused
  BY DEF Lasts
<1>2. CASE post[k].excused  BY <1>1, <1>2 DEF Justified
<1>3. CASE ~post[k].excused
  <2>1. ASSUME NEW j \in Clicks, j < k, post'[j].target = post'[k].target
        PROVE  /\ post'[j].pc = "done"
               /\ post'[j].chat \in early' \/ members'[post'[j].chat] # post'[j].target
    <3>1. post[j].pc # "unsent"
      <4>1. Stage(j) /\ Stage(k)  BY <1>0 DEF Stages
      <4>2. ~(k > clicks) /\ clicks \in Nat /\ j \in Nat /\ k \in Nat
        BY <1>0, <4>1 DEF Stage, Types, Clicks
      <4>. QED  BY <2>1, <4>1, <4>2 DEF Stage
    <3>2. post[j].target = post[k].target  BY <1>1, <2>1, <3>1 DEF Lasts
    <3>3. /\ post[j].pc = "done"
          /\ post[j].chat \in early \/ members[post[j].chat] # post[j].target
      BY <1>0, <1>3, <2>1, <3>2 DEF Justified
    <3>4. post'[j] = post[j]  BY <3>3 DEF Lasts
    <3>5. CASE post[j].chat \in early  BY <3>3, <3>4, <3>5 DEF Lasts
    <3>6. CASE post[j].chat \notin early
      <4>1. Frozen(post[j].chat) /\ post[j].chat \in DOMAIN members
        BY <1>0, <3>3, <3>6, CompleteFrozen
      <4>2. members'[post[j].chat] = members[post[j].chat]  BY <4>1 DEF Lasts
      <4>. QED  BY <3>3, <3>4, <3>6, <4>2
    <3>. QED  BY <3>5, <3>6
  <2>. QED  BY <1>3, <2>1 DEF Justified
<1>. QED  BY <1>2, <1>3

LEMMA JustifiedStep ==
    ASSUME Inv, Lasts, Basics', NEW n \in Clicks, Step(n), NEW k \in Clicks
    PROVE  Justified(k)'
<1>0. Basics /\ Types /\ Rows /\ Bounded /\ Stages /\ Created /\ Justified(k)
  BY DEF Inv, Basics
<1>1. CASE post[k].pc = "unsent"
  <2>1. k # n  BY <1>1 DEF Step, AtWork, Working
  <2>2. post'[k].pc = "unsent"  BY <1>1, <2>1 DEF Step
  <2>. QED  BY <2>2 DEF Justified
<1>2. CASE post[k].pc # "unsent"
  <2>1. ASSUME post'[k].chat # NoChat, ~post[k].excused
        PROVE  Creator(post[k].chat, k)'
    <3>1. CASE post[k].chat # NoChat
      <4>1. PICK c : c = post[k].chat  OBVIOUS
      <4>2. c \in DOMAIN members /\ Creator(c, k)
        BY <1>0, <1>2, <2>1, <3>1, <4>1, TypeFacts DEF Justified
      <4>3. Creator(c, k)'  BY <1>0, <4>2, CreatorStays
      <4>4. post'[k].chat = c  BY <1>2, <3>1, <4>1 DEF Lasts
      <4>. QED  BY <4>3, <4>4 DEF Creator
    <3>2. CASE post[k].chat = NoChat
      <4>1. k = n  BY <2>1, <3>2 DEF Step
      <4>. QED  BY <1>0, <2>1, <3>2, <4>1, CreatedStep
    <3>. QED  BY <3>1, <3>2
  <2>. QED  BY <1>2, <2>1, JustifiedStays
<1>. QED  BY <1>1, <1>2

LEMMA JustifiedClick ==
    ASSUME Inv, Lasts, NEW u \in Users, NEW target, NEW chat, NEW excused,
           Asked(u, target, chat, excused), SendFn(u, target, chat, excused),
           NEW k \in Clicks
    PROVE  Justified(k)'
<1>0. /\ Basics /\ Types /\ Rows /\ Bounded /\ Stages /\ Created /\ Complete
      /\ Justified(k) /\ Undisturbed
  BY DEF Inv, Basics
<1>. DEFINE n == clicks + 1
<1>1. /\ n \in Clicks /\ post[n] = Unsent /\ clicks \in Nat
      /\ post'[n] = [pc |-> "sent", target |-> target, chat |-> chat,
                     todo |-> {}, msg |-> 0, excused |-> excused]
      /\ \A i \in Clicks : i # n => post'[i] = post[i]
      /\ UNCHANGED <<members, early>>
  BY <1>0, ClickStep
<1>2. CASE k # n /\ post[k].pc = "unsent"  BY <1>1, <1>2 DEF Justified
<1>3. CASE k # n /\ post[k].pc # "unsent"
  <2>1. ASSUME post'[k].chat # NoChat, ~post[k].excused
        PROVE  Creator(post[k].chat, k)'
    <3>1. PICK c : c = post[k].chat  OBVIOUS
    <3>2. post'[k].chat = c  BY <1>1, <1>3, <3>1
    <3>3. c \in DOMAIN members /\ Creator(c, k)
      BY <1>0, <1>3, <2>1, <3>1, <3>2, TypeFacts DEF Justified
    <3>4. Creator(c, k)'  BY <1>0, <3>3, CreatorClick
    <3>. QED  BY <3>2, <3>4 DEF Creator
  <2>. QED  BY <1>3, <2>1, JustifiedStays
<1>4. CASE k = n /\ excused
  <2>1. post'[n].excused  BY <1>1, <1>4
  <2>. QED  BY <1>4, <2>1 DEF Justified
<1>5. CASE k = n /\ ~excused
  <2>1. /\ u \in target /\ chat = NoChat
        /\ u \notin raced /\ ~Loading(u) /\ page[u].phase # "closed"
        /\ pushes[u] = <<>> /\ Matching(u, target) = {}
        /\ \A i \in Clicks : post[i].target = target =>
             ~AtWork(i) /\ post[i].pc # "failed"
    BY <1>5 DEF Asked
  <2>2. post'[n].chat = NoChat /\ post'[n].target = target  BY <1>1, <2>1
  <2>3. page[u].phase = "shown"
    BY <1>0, <2>1 DEF Loading, Types, Pages, Phases
  <2>4. Faithful(u)  BY <1>0, <2>1 DEF Undisturbed
  <2>5. ASSUME NEW j \in Clicks, j < n, post'[j].target = target
        PROVE  /\ post'[j].pc = "done"
               /\ post'[j].chat \in early' \/ members'[post'[j].chat] # post'[j].target
    <3>1. post'[j] = post[j] /\ post[j].target = target
      BY <1>1, <2>5 DEF Clicks
    <3>2. post[j].pc # "unsent"
      <4>1. Stage(j)  BY <1>0 DEF Stages
      <4>2. ~(j > clicks)  BY <1>1, <2>5 DEF Clicks
      <4>. QED  BY <4>1, <4>2 DEF Stage
    <3>3. post[j].pc = "done"
      <4>1. post[j].pc \in Working \cup {"unsent", "done", "failed"}
        BY <1>0 DEF Types, Posts
      <4>. QED  BY <2>1, <3>1, <3>2, <4>1 DEF AtWork
    <3>4. ASSUME post[j].chat \notin early, members[post[j].chat] = target
          PROVE  FALSE
      <4>1. OnPage(u, j) \/ Pending(u, j)
        BY <2>1, <2>3, <2>4, <3>3, <3>4 DEF Faithful
      <4>2. ~Pending(u, j)  BY <2>1 DEF Pending
      <4>3. post[j].chat \in DOMAIN page[u].chats  BY <4>1, <4>2 DEF OnPage
      <4>4. page[u].chats[post[j].chat].users = target  BY <2>4, <3>4, <4>3 DEF Faithful
      <4>5. post[j].chat \in Matching(u, target)
        BY <2>3, <4>3, <4>4 DEF Matching, ChatsOf
      <4>. QED  BY <2>1, <4>5
    <3>. QED  BY <1>1, <3>1, <3>3, <3>4
  <2>. QED  BY <1>5, <2>2, <2>5 DEF Justified
<1>. QED  BY <1>2, <1>3, <1>4, <1>5

-----------------------------------------------------------------------------
(* Pages *)

\* A page is as before: no table, POST or queue of its own has changed.
LEMMA FaithfulSame ==
    ASSUME NEW u, Faithful(u), UNCHANGED <<members, stored, post, early>>,
           page'[u] = page[u], pushes'[u] = pushes[u],
           u \in subscribed' <=> u \in subscribed
    PROVE  Faithful(u)'
<1>1. Loading(u)' <=> Loading(u)  BY DEF Loading
<1>2. Idle' <=> Idle  BY DEF Idle, AtWork
<1>3. \A c : Frozen(c)' <=> Frozen(c)  BY DEF Frozen
<1>4. \A n : (OnPage(u, n)' <=> OnPage(u, n)) /\ (Pending(u, n)' <=> Pending(u, n))
  BY DEF OnPage, Pending
<1>. QED  BY <1>1, <1>2, <1>3, <1>4 DEF Faithful

\* The steps of another page.
LEMMA OtherPages ==
    ASSUME Inv, NEW u \in Users, NEW v \in Users, u # v,
           Open(v) \/ Subscribe(v) \/ Read(v) \/ Show(v) \/ Push(v), u \notin raced'
    PROVE  Faithful(u)'
<1>1. Types /\ Undisturbed  BY DEF Inv
<1>2. page'[u] = page[u] /\ pushes'[u] = pushes[u] /\ (u \in subscribed' <=> u \in subscribed)
  BY <1>1 DEF Types, Open, Subscribe, Read, Show, Push
<1>3. UNCHANGED <<members, stored, post, early>>
  BY DEF Open, Subscribe, Read, Show, Push
<1>4. u \notin raced  BY DEF Open, Subscribe, Read, Show, Push
<1>5. Faithful(u)  BY <1>1, <1>4 DEF Undisturbed
<1>. QED  BY <1>2, <1>3, <1>5, FaithfulSame

LEMMA OwnOpen ==
    ASSUME Inv, NEW u \in Users, Open(u), u \notin raced'
    PROVE  Faithful(u)'
<1>1. Types /\ UNCHANGED <<members, stored, post, early>>  BY DEF Inv, Open
<1>2. page'[u] = [phase |-> "asked", chats |-> Empty] /\ pushes'[u] = <<>>
  BY <1>1 DEF Open, Types
<1>3. page'[u].phase = "asked" /\ DOMAIN page'[u].chats = {}
  BY <1>2, EmptyType
<1>4. Idle  BY DEF Open, Idle
<1>5. Idle'  BY <1>1, <1>4 DEF Idle, AtWork
<1>. QED  BY <1>2, <1>3, <1>5 DEF Faithful

LEMMA OwnSubscribe ==
    ASSUME Inv, NEW u \in Users, Subscribe(u), u \notin raced'
    PROVE  Faithful(u)'
<1>1. UNCHANGED <<members, stored, post, early, page, pushes, raced>>
      /\ u \notin subscribed
  BY DEF Subscribe
<1>2. Faithful(u)  BY <1>1 DEF Inv, Undisturbed
<1>3. Loading(u)' => Loading(u)  BY <1>1 DEF Loading
<1>4. Idle' <=> Idle  BY <1>1 DEF Idle, AtWork
<1>5. \A c : Frozen(c)' <=> Frozen(c)  BY <1>1 DEF Frozen
<1>6. \A n : (OnPage(u, n)' <=> OnPage(u, n)) /\ (Pending(u, n)' <=> Pending(u, n))
  BY <1>1 DEF OnPage, Pending
<1>. QED  BY <1>1, <1>2, <1>3, <1>4, <1>5, <1>6 DEF Faithful

LEMMA OwnShow ==
    ASSUME Inv, NEW u \in Users, Show(u), u \notin raced'
    PROVE  Faithful(u)'
<1>0. UNCHANGED <<members, stored, post, early, subscribed, pushes, raced>>
  BY DEF Show
<1>1. page[u].phase = "answered" /\ page'[u].phase = "shown"
      /\ page'[u].chats = page[u].chats
  BY DEF Inv, Types, Pages, Show
<1>2. Faithful(u)  BY <1>0 DEF Inv, Undisturbed
<1>3. Loading(u)  BY <1>1 DEF Loading
<1>4. Idle' <=> Idle  BY <1>0 DEF Idle, AtWork
<1>5. \A c : Frozen(c)' <=> Frozen(c)  BY <1>0 DEF Frozen
<1>6. \A n : (OnPage(u, n)' <=> OnPage(u, n)) /\ (Pending(u, n)' <=> Pending(u, n))
  BY <1>0, <1>1 DEF OnPage, Pending
<1>. QED  BY <1>0, <1>1, <1>2, <1>3, <1>4, <1>5, <1>6 DEF Faithful

LEMMA OwnRead ==
    ASSUME Inv, NEW u \in Users, Read(u), u \notin raced'
    PROVE  Faithful(u)'
<1>0. UNCHANGED <<members, stored, post, early, subscribed, pushes, raced>>
  BY DEF Read
<1>1. Basics /\ Types /\ Rows /\ Bounded /\ Stages  BY DEF Inv, Basics
<1>2. Faithful(u)  BY <1>0 DEF Inv, Undisturbed
<1>3. Loading(u)  BY DEF Loading, Read
<1>4. Idle /\ pushes[u] = <<>>  BY <1>2, <1>3 DEF Faithful
<1>. DEFINE mine == {d \in DOMAIN members : u \in members[d]}
            list == [c \in mine |-> [users |-> members[c], group |-> Stored(c)]]
<1>5. page'[u].phase = "answered" /\ page'[u].chats = list
  BY <1>1 DEF Types, Read
<1>6. /\ DOMAIN list = mine
      /\ \A c \in mine : list[c].users = members[c] /\ list[c].group = Stored(c)
  OBVIOUS
<1>. HIDE DEF list
<1>7. \A c \in mine, m \in Clicks : Stored(c)[m] =
        IF m \in DOMAIN stored /\ stored[m] = c THEN 1 ELSE 0
  BY DEF Stored
<1>8. \A n \in Clicks : post[n].pc \notin Working  BY <1>4 DEF Idle, AtWork
<1>9. Idle' /\ pushes'[u] = <<>>  BY <1>0, <1>4 DEF Idle, AtWork
<1>10. ASSUME NEW c \in DOMAIN page'[u].chats
       PROVE  /\ page'[u].chats[c].users = members'[c] /\ Frozen(c)'
              /\ \A m \in Clicks : page'[u].chats[c].group[m] # 0 => m <= Len(stored')
              /\ \A n \in Clicks : post'[n].pc # "publish"
              /\ DOMAIN pushes'[u] = {}
  <2>1. c \in mine  BY <1>5, <1>6, <1>10
  <2>2. Frozen(c)' /\ \A n \in Clicks : post'[n].pc # "publish"
    BY <1>0, <1>8 DEF Frozen, Working
  <2>3. DOMAIN stored = 1 .. Len(stored) /\ Len(stored) \in Nat  BY <1>1, TypeFacts
  <2>4. \A m \in Clicks : page'[u].chats[c].group[m] # 0 => m <= Len(stored')
    BY <1>0, <1>5, <1>6, <1>7, <2>1, <2>3
  <2>. QED  BY <1>0, <1>5, <1>6, <1>9, <2>1, <2>2, <2>4
<1>11. ASSUME NEW n \in Clicks, post'[n].pc = "done", u \in members'[post'[n].chat]
       PROVE  OnPage(u, n)'
  <2>1. Stage(n) /\ post[n].pc = "done" /\ post[n].chat # NoChat /\ post[n].msg # 0
    BY <1>0, <1>1, <1>11 DEF Stages, Stage
  <2>2. /\ stored[post[n].msg] = post[n].chat /\ post[n].msg \in DOMAIN stored
        /\ post[n].chat \in DOMAIN members
    BY <1>1, <2>1, TypeFacts DEF Stage
  <2>3. post[n].msg \in Clicks  BY <1>1, <2>1 DEF Types, Posts, Clicks
  <2>4. post[n].chat \in mine  BY <1>0, <1>11, <2>2
  <2>5. Stored(post[n].chat)[post[n].msg] = 1  BY <1>7, <2>2, <2>3, <2>4
  <2>. QED  BY <1>0, <1>5, <1>6, <2>4, <2>5 DEF OnPage
<1>. QED  BY <1>9, <1>10, <1>11 DEF Faithful

LEMMA OwnPush ==
    ASSUME Inv, NEW u \in Users, Push(u), u \notin raced'
    PROVE  Faithful(u)'
<1>0. UNCHANGED <<members, stored, post, early, subscribed, raced>>
  BY DEF Push
<1>1. Basics /\ Types /\ Rows /\ Bounded /\ Stages /\ OnTheWay /\ Blank
  BY DEF Inv, Basics
<1>2. Faithful(u)  BY <1>0 DEF Inv, Undisturbed
<1>3. pushes[u] # <<>>  BY DEF Push
<1>4. ~Loading(u)  BY <1>2, <1>3 DEF Faithful
<1>5. page[u].phase = "shown"
  BY <1>1, <1>3, <1>4 DEF Loading, Blank, Types, Pages, Phases
<1>. DEFINE s == pushes[u]  t == Tail(s)  p == Head(s)  old == page[u].chats
            new == WithPush(old, p)
<1>6. /\ p \in Messages /\ p = s[1] /\ Len(s) \in Nat \ {0} /\ DOMAIN s = 1 .. Len(s)
      /\ t \in Seq(Messages) /\ Len(t) = Len(s) - 1
      /\ \A i \in 1 .. Len(t) : t[i] = s[i + 1]
  BY <1>1, <1>3, QueueFacts, TypeFacts
<1>7. pushes'[u] = t /\ page'[u].phase = "shown" /\ page'[u].chats = new
  BY <1>1, <1>5 DEF Push, Types, Pages
<1>8. old \in ChatLists  BY <1>1 DEF Types, Pages
<1>9. /\ DOMAIN new = DOMAIN old \cup {p.chat}
      /\ \A c \in DOMAIN old :
           /\ new[c].users = old[c].users
           /\ \A m \in Clicks : ~(c = p.chat /\ m = p.msg) => new[c].group[m] = old[c].group[m]
      /\ p.chat \in DOMAIN old => new[p.chat].group[p.msg] = old[p.chat].group[p.msg] + 1
      /\ p.chat \notin DOMAIN old =>
           /\ new[p.chat].users = p.users
           /\ \A m \in Clicks : new[p.chat].group[m] = IF m = p.msg THEN 1 ELSE 0
  BY <1>6, <1>8, PushType
<1>10. DOMAIN t = 1 .. Len(t)  BY <1>6, LenProperties
<1>. HIDE DEF new, t, p
<1>11. \A i \in DOMAIN t : i + 1 \in DOMAIN s /\ t[i] = s[i + 1] /\ i + 1 # 1
  BY <1>6, <1>10
<1>12. 1 \in DOMAIN s  BY <1>6
<1>13. /\ p.msg \in DOMAIN stored /\ p.chat = stored[p.msg]
       /\ \E n \in Clicks : post[n].pc = "done" /\ post[n].msg = p.msg
       /\ p.chat \notin early => p.users = members[p.chat] /\ Frozen(p.chat)
       /\ p.msg \in Clicks
  BY <1>1, <1>6, <1>12 DEF OnTheWay, Carried, Messages
<1>14. \A i \in DOMAIN t : t[i].msg # p.msg
  <2>1. \A i, j \in DOMAIN s : s[i].msg = s[j].msg => i = j  BY <1>1 DEF OnTheWay
  <2>. QED  BY <1>6, <1>11, <1>12, <2>1
<1>15. \A i \in DOMAIN s : s[i] \in Messages /\ s[i].msg \in Clicks
  <2>1. s \in Seq(Messages)  BY <1>1 DEF Types
  <2>2. \A i \in DOMAIN s : s[i] \in Messages  BY <1>6, <2>1, ElementOfSeq
  <2>. QED  BY <2>2 DEF Messages
<1>16. /\ \A c \in DOMAIN old :
            /\ c \notin early => old[c].users = members[c] /\ Frozen(c)
            /\ \A m \in Clicks : old[c].group[m] # 0 => m <= Len(stored)
            /\ \A n \in Clicks : post[n].pc = "publish" => old[c].group[post[n].msg] = 0
            /\ \A i \in DOMAIN s : old[c].group[s[i].msg] = 0
       /\ \A n \in Clicks :
            post[n].pc = "done" /\ u \in members[post[n].chat]
            /\ post[n].chat \notin early => OnPage(u, n) \/ Pending(u, n)
  BY <1>2, <1>5 DEF Faithful
<1>17. \A n \in Clicks : post[n].pc \in {"publish", "done"} =>
         post[n].msg \in Clicks /\ post[n].msg # 0 /\ post[n].chat = stored[post[n].msg]
  <2>. SUFFICES ASSUME NEW n \in Clicks, post[n].pc \in {"publish", "done"}
                PROVE  post[n].msg \in Clicks /\ post[n].msg # 0
                       /\ post[n].chat = stored[post[n].msg]
    OBVIOUS
  <2>1. Stage(n) /\ post[n].msg \in 0 .. MaxClicks  BY <1>1 DEF Stages, Types, Posts
  <2>2. post[n].msg # 0 /\ post[n].chat = stored[post[n].msg]  BY <2>1 DEF Stage
  <2>. QED  BY <2>1, <2>2 DEF Clicks
<1>18. \A n \in Clicks : post[n].pc = "publish" => post[n].msg # p.msg
  BY <1>1, <1>13, <1>17 DEF Stages
<1>19. ASSUME NEW c \in DOMAIN new
       PROVE  /\ c \notin early => new[c].users = members[c] /\ Frozen(c)
              /\ \A m \in Clicks : new[c].group[m] # 0 => m <= Len(stored)
              /\ \A n \in Clicks : post[n].pc = "publish" => new[c].group[post[n].msg] = 0
              /\ \A i \in DOMAIN t : new[c].group[t[i].msg] = 0
  <2>1. p.msg <= Len(stored)  BY <1>1, <1>13, TypeFacts
  <2>2. c \notin early => new[c].users = members[c] /\ Frozen(c)
    BY <1>9, <1>13, <1>16, <1>19
  <2>3. \A m \in Clicks : m # p.msg /\ new[c].group[m] # 0 =>
          c \in DOMAIN old /\ old[c].group[m] # 0
    BY <1>9, <1>19
  <2>4. \A m \in Clicks : new[c].group[m] # 0 => m <= Len(stored)
    BY <1>16, <2>1, <2>3
  <2>5. \A n \in Clicks : post[n].pc = "publish" => new[c].group[post[n].msg] = 0
    BY <1>16, <1>17, <1>18, <2>3
  <2>6. ASSUME NEW i \in DOMAIN t  PROVE new[c].group[t[i].msg] = 0
    <3>1. t[i] = s[i + 1] /\ i + 1 \in DOMAIN s /\ t[i].msg # p.msg  BY <1>11, <1>14
    <3>2. t[i].msg \in Clicks  BY <1>15, <3>1
    <3>3. c \in DOMAIN old => old[c].group[t[i].msg] = 0  BY <1>16, <3>1
    <3>. QED  BY <2>3, <3>1, <3>2, <3>3
  <2>. QED  BY <2>2, <2>4, <2>5, <2>6
<1>20. ASSUME NEW n \in Clicks, post[n].pc = "done", u \in members[post[n].chat],
              post[n].chat \notin early
       PROVE  OnPage(u, n)' \/ Pending(u, n)'
  <2>. DEFINE c == post[n].chat  m == post[n].msg
  <2>1. m \in Clicks /\ c = stored[m]  BY <1>17, <1>20
  <2>2. CASE OnPage(u, n)
    <3>1. c \in DOMAIN old /\ old[c].group[m] = 1  BY <2>2 DEF OnPage
    <3>2. m # p.msg
      <4>1. old[c].group[s[1].msg] = 0  BY <1>12, <1>16, <3>1
      <4>. QED  BY <1>6, <3>1, <4>1
    <3>3. c \in DOMAIN new /\ new[c].group[m] = 1  BY <1>9, <2>1, <3>1, <3>2
    <3>. QED  BY <1>0, <1>7, <3>3 DEF OnPage
  <2>3. CASE Pending(u, n)
    <3>1. PICK i \in DOMAIN s : s[i].msg = m  BY <2>3 DEF Pending
    <3>2. CASE i = 1
      <4>1. m = p.msg /\ c = p.chat  BY <1>6, <1>13, <2>1, <3>1, <3>2
      <4>2. c \in DOMAIN old => old[c].group[m] = 0  BY <1>16, <3>1
      <4>3. c \in DOMAIN new /\ new[c].group[m] = 1  BY <1>9, <2>1, <4>1, <4>2
      <4>. QED  BY <1>0, <1>7, <4>3 DEF OnPage
    <3>3. CASE i # 1
      <4>1. i - 1 \in DOMAIN t /\ t[i - 1] = s[i]  BY <1>6, <1>10, <3>1, <3>3
      <4>. QED  BY <1>0, <1>7, <3>1, <4>1 DEF Pending
    <3>. QED  BY <3>2, <3>3
  <2>. QED  BY <1>16, <1>20, <2>2, <2>3
<1>21. ~Loading(u)'  BY <1>0, <1>4, <1>5, <1>7 DEF Loading
<1>22. \A c : Frozen(c)' <=> Frozen(c)  BY <1>0 DEF Frozen
<1>. QED  BY <1>0, <1>7, <1>19, <1>20, <1>21, <1>22 DEF Faithful

\* A handler at work does not disturb a page that has loaded.
LEMMA FaithfulHandler ==
    ASSUME Inv, Lasts, Basics', NEW n \in Clicks, PostNext(n),
           NEW u \in Users, u \notin raced'
    PROVE  Faithful(u)'
<1>1. Basics /\ Types /\ Rows /\ Bounded /\ Stages /\ Complete
  BY DEF Inv, Basics
<1>2. Step(n)  BY <1>1, HandlerSteps
<1>3. UNCHANGED <<page, subscribed, raced>> /\ AtWork(n)  BY <1>2 DEF Step
<1>4. Faithful(u)  BY <1>3 DEF Inv, Undisturbed
<1>5. ~Loading(u)  BY <1>3, <1>4 DEF Faithful, Idle
<1>6. ~Loading(u)'  BY <1>3, <1>5 DEF Loading
<1>7. /\ pushes[u] \in Seq(Messages) /\ Len(pushes[u]) \in Nat
      /\ DOMAIN pushes[u] = 1 .. Len(pushes[u])
      /\ Len(stored) \in Nat /\ DOMAIN stored = 1 .. Len(stored)
      /\ DOMAIN page[u].chats \subseteq DOMAIN members
  BY <1>1, TypeFacts, QueueFacts DEF Rows
<1>8. \A k \in Clicks : k # n => post'[k] = post[k]  BY <1>2 DEF Step
<1>9. ASSUME NEW i \in DOMAIN pushes'[u]
      PROVE  \/ i \in DOMAIN pushes[u] /\ pushes'[u][i] = pushes[u][i]
             \/ post[n].pc = "publish" /\ pushes'[u][i].msg = post[n].msg
  <2>1. CASE Publish(n)
    <3>1. PICK m : m = [msg |-> post[n].msg, chat |-> post[n].chat,
                        users |-> members[post[n].chat]]
      OBVIOUS
    <3>2. /\ pushes'[u] = IF u \in subscribed THEN Append(pushes[u], m) ELSE pushes[u]
          /\ m \in Messages /\ m.msg = post[n].msg /\ post[n].pc = "publish"
      BY <1>1, <2>1, <3>1, PublishStep DEF Published
    <3>3. /\ Append(pushes[u], m) \in Seq(Messages)
          /\ Len(Append(pushes[u], m)) = Len(pushes[u]) + 1
          /\ \A j \in 1 .. Len(pushes[u]) : Append(pushes[u], m)[j] = pushes[u][j]
          /\ Append(pushes[u], m)[Len(pushes[u]) + 1] = m
      BY <1>1, <3>2, QueueFacts
    <3>4. DOMAIN Append(pushes[u], m) = 1 .. Len(pushes[u]) + 1  BY <3>3, LenProperties
    <3>5. CASE u \notin subscribed  BY <1>9, <3>2, <3>5
    <3>6. CASE u \in subscribed
      <4>1. i \in 1 .. Len(pushes[u]) + 1 /\ pushes'[u] = Append(pushes[u], m)
        BY <1>9, <3>2, <3>4, <3>6
      <4>2. i \in 1 .. Len(pushes[u]) \/ i = Len(pushes[u]) + 1  BY <1>7, <4>1
      <4>. QED  BY <1>7, <3>2, <3>3, <4>1, <4>2
    <3>. QED  BY <3>5, <3>6
  <2>2. CASE ~Publish(n)
    <3>1. pushes' = pushes  BY <2>2, QueuesLeft DEF PostNext
    <3>. QED  BY <1>9, <3>1
  <2>. QED  BY <2>1, <2>2
<1>10. \A i \in DOMAIN pushes[u] : i \in DOMAIN pushes'[u] /\ pushes'[u][i] = pushes[u][i]
  <2>1. CASE Publish(n)
    <3>1. PICK m : m = [msg |-> post[n].msg, chat |-> post[n].chat,
                        users |-> members[post[n].chat]]
      OBVIOUS
    <3>2. /\ pushes'[u] = IF u \in subscribed THEN Append(pushes[u], m) ELSE pushes[u]
          /\ m \in Messages
      BY <1>1, <2>1, <3>1, PublishStep DEF Published
    <3>3. /\ Append(pushes[u], m) \in Seq(Messages)
          /\ Len(Append(pushes[u], m)) = Len(pushes[u]) + 1
          /\ \A j \in 1 .. Len(pushes[u]) : Append(pushes[u], m)[j] = pushes[u][j]
      BY <1>1, <3>2, QueueFacts
    <3>4. DOMAIN Append(pushes[u], m) = 1 .. Len(pushes[u]) + 1  BY <3>3, LenProperties
    <3>. QED  BY <1>7, <3>2, <3>3, <3>4
  <2>2. CASE ~Publish(n)  BY <2>2, QueuesLeft DEF PostNext
  <2>. QED  BY <2>1, <2>2
<1>11. ASSUME NEW k \in Clicks, post'[k].pc = "publish"
       PROVE  \/ post[k].pc = "publish" /\ post'[k].msg = post[k].msg
              \/ post'[k].msg = Len(stored) + 1 /\ post'[k].msg \in Clicks
  <2>1. CASE k # n  BY <1>8, <1>11, <2>1
  <2>2. CASE k = n
    <3>1. post[n] \in Posts /\ post \in [Clicks -> Posts]  BY <1>1, Records DEF Types
    <3>2. ~CreateChat(n) /\ ~FindChat(n) /\ ~Publish(n) /\ ~Fail(n)
      BY <1>11, <2>2, <3>1 DEF CreateChat, FindChat, Publish, Fail, Posts
    <3>3. ~AddMember(n)
      <4>. SUFFICES ASSUME AddMember(n) PROVE FALSE  OBVIOUS
      <4>1. PICK v \in post[n].todo : post' = [post EXCEPT ![n].todo = @ \ {v},
                 ![n].pc = IF post[n].todo = {v} THEN "message" ELSE "members"]
        BY DEF AddMember
      <4>. QED  BY <1>11, <2>2, <3>1, <4>1 DEF Posts
    <3>4. Insert(n)  BY <3>2, <3>3 DEF PostNext
    <3>5. post'[n].msg = Len(stored) + 1  BY <3>1, <3>4 DEF Insert, Posts
    <3>6. post'[n].msg \in 0 .. MaxClicks  BY DEF Basics, Types, Posts
    <3>. QED  BY <1>7, <2>2, <3>5, <3>6 DEF Clicks
  <2>. QED  BY <2>1, <2>2
<1>12. Len(stored) <= Len(stored')
  <2>1. Len(stored') \in Nat /\ DOMAIN stored' = 1 .. Len(stored')
    BY LenProperties DEF Basics, Types
  <2>2. \A m \in DOMAIN stored : m \in DOMAIN stored'  BY DEF Lasts
  <2>. QED  BY <1>7, <2>1, <2>2
<1>13. ASSUME NEW c \in DOMAIN page[u].chats
       PROVE  /\ c \notin early' => page[u].chats[c].users = members'[c] /\ Frozen(c)'
              /\ \A m \in Clicks : page[u].chats[c].group[m] # 0 => m <= Len(stored')
              /\ \A k \in Clicks : post'[k].pc = "publish"
                   => page[u].chats[c].group[post'[k].msg] = 0
              /\ \A i \in DOMAIN pushes'[u] :
                   page[u].chats[c].group[pushes'[u][i].msg] = 0
  <2>. DEFINE g == page[u].chats[c].group
  <2>1. /\ c \notin early => page[u].chats[c].users = members[c] /\ Frozen(c)
        /\ \A m \in Clicks : g[m] # 0 => m <= Len(stored)
        /\ \A k \in Clicks : post[k].pc = "publish" => g[post[k].msg] = 0
        /\ \A i \in DOMAIN pushes[u] : g[pushes[u][i].msg] = 0
    BY <1>4, <1>13 DEF Faithful
  <2>2. c \notin early' => page[u].chats[c].users = members'[c] /\ Frozen(c)'
    BY <1>7, <1>13, <2>1 DEF Lasts
  <2>. HIDE DEF g
  <2>3. \A m \in Clicks : g[m] # 0 => m <= Len(stored')
    <3>1. Len(stored') \in Nat  BY LenProperties DEF Basics, Types
    <3>. QED  BY <1>7, <1>12, <2>1, <3>1 DEF Clicks
  <2>4. \A k \in Clicks : post'[k].pc = "publish" => g[post'[k].msg] = 0
    <3>. SUFFICES ASSUME NEW k \in Clicks, post'[k].pc = "publish"
                  PROVE  g[post'[k].msg] = 0
      OBVIOUS
    <3>1. CASE post[k].pc = "publish" /\ post'[k].msg = post[k].msg  BY <2>1, <3>1
    <3>2. CASE post'[k].msg = Len(stored) + 1 /\ post'[k].msg \in Clicks
      BY <1>7, <2>1, <3>2
    <3>. QED  BY <1>11, <3>1, <3>2
  <2>5. \A i \in DOMAIN pushes'[u] : g[pushes'[u][i].msg] = 0  BY <1>9, <2>1
  <2>. QED  BY <2>2, <2>3, <2>4, <2>5 DEF g
<1>14. ASSUME page[u].phase \in {"answered", "shown"},
              NEW k \in Clicks, post'[k].pc = "done", post'[k].chat \notin early',
              u \in members'[post'[k].chat]
       PROVE  OnPage(u, k)' \/ Pending(u, k)'
  <2>1. CASE post[k].pc = "done"
    <3>1. post'[k] = post[k] /\ post[k].chat \notin early  BY <1>14, <2>1 DEF Lasts
    <3>2. Frozen(post[k].chat) /\ post[k].chat \in DOMAIN members
      BY <1>1, <2>1, <3>1, CompleteFrozen
    <3>3. members'[post[k].chat] = members[post[k].chat]  BY <3>2 DEF Lasts
    <3>4. OnPage(u, k) \/ Pending(u, k)  BY <1>4, <1>14, <2>1, <3>1, <3>3 DEF Faithful
    <3>5. OnPage(u, k) => OnPage(u, k)'  BY <1>3, <3>1 DEF OnPage
    <3>6. Pending(u, k) => Pending(u, k)'  BY <1>10, <3>1 DEF Pending
    <3>. QED  BY <3>4, <3>5, <3>6
  <2>2. CASE post[k].pc # "done"
    <3>1. k = n  BY <1>8, <1>14, <2>2
    <3>2. Publish(n)  BY <1>1, <1>14, <3>1, EndsPublished
    <3>3. u \in subscribed  BY <1>5, <1>14 DEF Loading
    <3>4. PICK m : m = [msg |-> post[n].msg, chat |-> post[n].chat,
                        users |-> members[post[n].chat]]
      OBVIOUS
    <3>5. /\ pushes'[u] = Append(pushes[u], m) /\ m.msg = post'[n].msg /\ m \in Messages
      BY <1>1, <3>2, <3>3, <3>4, PublishStep DEF Published
    <3>6. /\ pushes'[u] \in Seq(Messages) /\ Len(pushes'[u]) = Len(pushes[u]) + 1
          /\ pushes'[u][Len(pushes[u]) + 1] = m
      BY <1>1, <3>5, QueueFacts
    <3>7. Len(pushes[u]) + 1 \in DOMAIN pushes'[u]
      BY <1>7, <3>6, LenProperties
    <3>. QED  BY <3>1, <3>5, <3>6, <3>7 DEF Pending
  <2>. QED  BY <2>1, <2>2
<1>. QED  BY <1>3, <1>6, <1>13, <1>14 DEF Faithful

\* A click disturbs the pages that are loading, and only those.
LEMMA FaithfulClick ==
    ASSUME Inv, Lasts, NEW v, NEW target, NEW chat, NEW excused,
           Asked(v, target, chat, excused), SendFn(v, target, chat, excused),
           NEW u \in Users, u \notin raced'
    PROVE  Faithful(u)'
<1>1. Basics /\ Rows  BY DEF Inv, Basics
<1>. DEFINE n == clicks + 1
<1>2. /\ n \in Clicks /\ post[n] = Unsent
      /\ post'[n] = [pc |-> "sent", target |-> target, chat |-> chat,
                     todo |-> {}, msg |-> 0, excused |-> excused]
      /\ \A i \in Clicks : i # n => post'[i] = post[i]
      /\ UNCHANGED <<members, stored, page, subscribed, pushes, early>>
      /\ raced' = raced \cup {w \in Users : Loading(w)}
  BY <1>1, ClickStep
<1>3. post'[n].pc = "sent"  BY <1>2
<1>4. ~Loading(u) /\ Faithful(u)  BY <1>2 DEF Inv, Undisturbed
<1>5. ~Loading(u)'  BY <1>2, <1>4 DEF Loading
<1>. HIDE DEF n
<1>6. \A k \in Clicks : post'[k].pc \in {"publish", "done"} => post'[k] = post[k]
  BY <1>2, <1>3
<1>7. \A c \in DOMAIN page[u].chats : Frozen(c) => Frozen(c)'
  BY <1>1 DEF Rows, Lasts
<1>8. ASSUME NEW k \in Clicks, post'[k].pc = "done", OnPage(u, k) \/ Pending(u, k)
      PROVE  OnPage(u, k)' \/ Pending(u, k)'
  BY <1>2, <1>6, <1>8 DEF OnPage, Pending
<1>. QED  BY <1>2, <1>4, <1>5, <1>6, <1>7, <1>8 DEF Faithful

LEMMA BlankStep ==
    ASSUME Inv, ChatNext
    PROVE  Blank'
<1>1. Types /\ Blank  BY DEF Inv
<1>2. SUFFICES ASSUME NEW u \in Users
               PROVE  /\ page'[u].phase = "closed" => u \notin subscribed' /\ pushes'[u] = <<>>
                      /\ page'[u].phase \in {"closed", "asked"} => page'[u].chats = Empty
  BY DEF Blank
<1>3. ASSUME page'[u] = page[u], pushes'[u] = pushes[u], u \in subscribed' => u \in subscribed
      PROVE  /\ page'[u].phase = "closed" => u \notin subscribed' /\ pushes'[u] = <<>>
             /\ page'[u].phase \in {"closed", "asked"} => page'[u].chats = Empty
  BY <1>1, <1>3 DEF Blank
<1>4. CASE \E v \in Users : PageNext(v)
  <2>1. PICK v \in Users : PageNext(v)  BY <1>4
  <2>2. CASE Open(v)
    <3>1. CASE u = v
      <4>1. page'[u] = [phase |-> "asked", chats |-> Empty]  BY <1>1, <2>2, <3>1 DEF Open, Types
      <4>. QED  BY <4>1
    <3>2. CASE u # v
      <4>1. page'[u] = page[u] /\ pushes'[u] = pushes[u] /\ subscribed' \subseteq subscribed
        BY <1>1, <2>2, <3>2 DEF Open, Types
      <4>. QED  BY <1>3, <4>1
    <3>. QED  BY <3>1, <3>2
  <2>3. CASE Subscribe(v)
    <3>1. CASE u = v
      <4>1. page' = page /\ page[u].phase # "closed"  BY <2>3, <3>1 DEF Subscribe
      <4>. QED  BY <1>1, <4>1 DEF Blank
    <3>2. CASE u # v  BY <1>3, <2>3, <3>2 DEF Subscribe
    <3>. QED  BY <3>1, <3>2
  <2>4. CASE Read(v) \/ Show(v)
    <3>1. pushes' = pushes /\ subscribed' = subscribed  BY <2>4 DEF Read, Show
    <3>2. CASE u = v
      <4>1. page'[u].phase \in {"answered", "shown"}
        BY <1>1, <2>4, <3>2 DEF Read, Show, Types, Pages
      <4>. QED  BY <4>1
    <3>3. CASE u # v
      <4>1. page'[u] = page[u]  BY <1>1, <2>4, <3>3 DEF Read, Show, Types
      <4>. QED  BY <1>3, <3>1, <4>1
    <3>. QED  BY <3>2, <3>3
  <2>5. CASE Push(v)
    <3>1. CASE u = v
      <4>1. subscribed' = subscribed /\ pushes[u] # <<>>  BY <2>5, <3>1 DEF Push
      <4>2. page[u].phase # "closed"  BY <1>1, <4>1 DEF Blank
      <4>3. CASE page[u].phase = "shown"
        <5>1. page'[u].phase = "shown"  BY <1>1, <2>5, <3>1, <4>3 DEF Push, Types, Pages
        <5>. QED  BY <5>1
      <4>4. CASE page[u].phase # "shown"
        <5>1. page' = page  BY <2>5, <3>1, <4>4 DEF Push
        <5>. QED  BY <1>1, <4>2, <5>1 DEF Blank
      <4>. QED  BY <4>3, <4>4
    <3>2. CASE u # v
      <4>1. page'[u] = page[u] /\ pushes'[u] = pushes[u] /\ subscribed' = subscribed
        BY <1>1, <2>5, <3>2 DEF Push, Types
      <4>. QED  BY <1>3, <4>1
    <3>. QED  BY <3>1, <3>2
  <2>6. CASE SendToUsers(v) \/ SendToChat(v)
    <3>1. UNCHANGED <<page, pushes, subscribed>>
      BY <2>6 DEF SendToUsers, SendToChat, SendFn
    <3>. QED  BY <1>3, <3>1
  <2>. QED  BY <2>1, <2>2, <2>3, <2>4, <2>5, <2>6 DEF PageNext
<1>5. CASE \E n \in Clicks : PostNext(n)
  <2>1. PICK n \in Clicks : PostNext(n)  BY <1>5
  <2>2. page' = page /\ subscribed' = subscribed
    BY <2>1 DEF PostNext, CreateChat, FindChat, AddMember, Insert, Publish, Fail
  <2>3. CASE Publish(n)
    <3>1. u \notin subscribed => pushes'[u] = pushes[u]  BY <2>3 DEF Publish
    <3>2. page[u].phase = "closed" => u \notin subscribed  BY <1>1 DEF Blank
    <3>. QED  BY <1>1, <2>2, <3>1, <3>2 DEF Blank
  <2>. QED  BY <1>3, <2>1, <2>2, <2>3, QueuesLeft DEF PostNext
<1>. QED  BY <1>4, <1>5 DEF ChatNext

-----------------------------------------------------------------------------
(* The invariant *)

LEMMA InvInit == ChatInit => Inv
<1>. SUFFICES ASSUME ChatInit PROVE Inv  OBVIOUS
<1>1. members = <<>> /\ stored = <<>> /\ DOMAIN members = {} /\ DOMAIN stored = {}
      /\ Len(members) = 0 /\ Len(stored) = 0
  BY DEF ChatInit
<1>2. post = [n \in Clicks |-> Unsent] /\ page = [u \in Users |-> Closed]
      /\ pushes = [u \in Users |-> <<>>] /\ subscribed = {} /\ raced = {} /\ early = {}
      /\ clicks = 0 /\ opens = 0
  BY DEF ChatInit
<1>3. \A n \in Clicks : post[n] = Unsent  BY <1>2
<1>4. \A u \in Users : page[u].phase = "closed" /\ page[u].chats = Empty /\ pushes[u] = <<>>
  BY <1>2 DEF Closed
<1>5. /\ Unsent \in Posts /\ Unsent.pc = "unsent" /\ Unsent.chat = NoChat
      /\ Unsent.msg = 0 /\ Unsent.todo = {}
  <2>1. 0 \in 0 .. MaxClicks  BY ChatBounds
  <2>. QED  BY <2>1 DEF Unsent, Posts, NoChat
<1>6. Closed \in Pages  BY EmptyType DEF Closed, Pages, Phases
<1>7. Types
  <2>1. members \in Seq(SUBSET Users) /\ stored \in Seq(Clicks) /\ <<>> \in Seq(Messages)
    BY <1>1, EmptySeq
  <2>2. clicks \in 0 .. MaxClicks /\ opens \in 0 .. MaxOpens  BY <1>2, ChatBounds
  <2>3. post \in [Clicks -> Posts] /\ page \in [Users -> Pages]
    BY <1>2, <1>5, <1>6
  <2>. QED  BY <1>2, <2>1, <2>2, <2>3 DEF Types
<1>8. Bounded
  <2>1. ChatLess = Clicks /\ MessageLess = Clicks
    BY <1>3, <1>5 DEF ChatLess, MessageLess
  <2>2. Cardinality(Clicks) = MaxClicks
    <3>1. 1 \in Int /\ MaxClicks \in Int  BY ChatBounds
    <3>2. Cardinality(1 .. MaxClicks) = IF 1 > MaxClicks THEN 0 ELSE MaxClicks - 1 + 1
      BY <3>1, FS_Interval
    <3>. QED  BY <3>2, ChatBounds DEF Clicks
  <2>. QED  BY <1>1, <2>1, <2>2, ChatBounds DEF Bounded
<1>9. Rows  BY <1>1, <1>3, <1>4, <1>5, EmptyType DEF Rows, NoChat
<1>10. Stages
  <2>1. \A n \in Clicks : n > clicks  BY <1>2 DEF Clicks
  <2>. QED  BY <1>3, <1>5, <2>1 DEF Stages, Stage
<1>11. OnTheWay /\ Blank  BY <1>2, <1>4 DEF OnTheWay, Blank
<1>12. Undisturbed
  <2>. SUFFICES ASSUME NEW u \in Users PROVE Faithful(u)  BY DEF Undisturbed
  <2>1. Idle  BY <1>3, <1>5 DEF Idle, AtWork, Working
  <2>. QED  BY <1>4, <2>1, EmptyType DEF Faithful
<1>13. Complete /\ Created /\ \A k \in Clicks : Justified(k)
  BY <1>1, <1>3, <1>5 DEF Complete, Created, Justified
<1>. QED  BY <1>7, <1>8, <1>9, <1>10, <1>11, <1>12, <1>13 DEF Inv

LEMMA InvPage ==
    ASSUME Inv, NEW u \in Users, 
           Open(u) \/ Subscribe(u) \/ Read(u) \/ Show(u) \/ Push(u)
    PROVE  Inv'
<1>1. Basics /\ OnTheWay  BY DEF Inv, Basics
<1>2. Basics'  BY <1>1, PageBasics
<1>3. UNCHANGED <<members, stored, post, early>>
  BY DEF Open, Subscribe, Read, Show, Push
<1>4. ChatNext  BY DEF ChatNext, PageNext
<1>5. OnTheWay' /\ Blank'  BY <1>3, <1>4, PageLasts, OnTheWayStep, BlankStep
<1>6. ASSUME NEW v \in Users, v \notin raced'  PROVE Faithful(v)'
  BY <1>6, OtherPages, OwnOpen, OwnSubscribe, OwnRead, OwnShow, OwnPush
<1>7. Undisturbed'  BY <1>6 DEF Undisturbed
<1>8. Complete' /\ Created'  BY <1>3 DEF Inv, Complete, Created, Creator
<1>9. \A k \in Clicks : Justified(k)'  BY <1>3 DEF Inv, Justified, Creator
<1>. QED  BY <1>2, <1>5, <1>7, <1>8, <1>9 DEF Inv, Basics

LEMMA InvClick ==
    ASSUME Inv, NEW u \in Users, SendToUsers(u) \/ SendToChat(u)
    PROVE  Inv'
<1>1. Basics /\ Types /\ Rows /\ Complete /\ Created  BY DEF Inv, Basics
<1>2. PICK target \in SUBSET Users, chat \in 0 .. MaxClicks, excused \in BOOLEAN :
        Asked(u, target, chat, excused) /\ SendFn(u, target, chat, excused)
  BY <1>1, ClickAsks
<1>3. Basics' /\ Lasts  BY <1>1, <1>2, ClickBasics, ClickLasts
<1>4. ChatNext  BY DEF ChatNext, PageNext
<1>5. OnTheWay' /\ Blank'  BY <1>3, <1>4, OnTheWayStep, BlankStep
<1>6. ASSUME NEW v \in Users, v \notin raced'  PROVE Faithful(v)'
  BY <1>2, <1>3, <1>6, FaithfulClick
<1>7. Undisturbed'  BY <1>6 DEF Undisturbed
<1>8. Complete' /\ Created'  BY <1>1, <1>2, CompleteClick, CreatedClick
<1>9. \A k \in Clicks : Justified(k)'  BY <1>2, <1>3, JustifiedClick
<1>. QED  BY <1>3, <1>5, <1>7, <1>8, <1>9 DEF Inv, Basics

LEMMA InvHandler ==
    ASSUME Inv, NEW n \in Clicks, PostNext(n)
    PROVE  Inv'
<1>1. Basics /\ Created  BY DEF Inv, Basics
<1>2. Basics' /\ Step(n)  BY <1>1, HandlerBasics, HandlerSteps
<1>3. Lasts  BY <1>1, <1>2, HandlerLasts
<1>4. ChatNext  BY DEF ChatNext
<1>5. OnTheWay' /\ Blank'  BY <1>3, <1>4, OnTheWayStep, BlankStep
<1>6. ASSUME NEW v \in Users, v \notin raced'  PROVE Faithful(v)'
  BY <1>2, <1>3, <1>6, FaithfulHandler
<1>7. Undisturbed'  BY <1>6 DEF Undisturbed
<1>8. Complete' /\ Created'  BY <1>1, <1>2, <1>3, CompleteStep, CreatedStep
<1>9. \A k \in Clicks : Justified(k)'  BY <1>2, <1>3, JustifiedStep
<1>. QED  BY <1>2, <1>5, <1>7, <1>8, <1>9 DEF Inv, Basics

LEMMA InvNext == Inv /\ [ChatNext]_chatVars => Inv'
<1>. SUFFICES ASSUME Inv, [ChatNext]_chatVars PROVE Inv'  OBVIOUS
<1>1. CASE UNCHANGED chatVars
  <2>1. UNCHANGED <<members, stored, post, page, subscribed, pushes, clicks, opens,
                    raced, early>>
    BY <1>1 DEF chatVars
  <2>2. Types' /\ Rows' /\ Bounded' /\ Stages'
    BY <2>1 DEF Inv, Types, Rows, Bounded, ChatLess, MessageLess, Stages, Stage
  <2>3. OnTheWay' /\ Blank'
    BY <2>1 DEF Inv, OnTheWay, Carried, Frozen, Blank
  <2>4. Undisturbed'
    <3>. SUFFICES ASSUME NEW u \in Users, u \notin raced' PROVE Faithful(u)'
      BY DEF Undisturbed
    <3>1. Faithful(u)  BY <2>1 DEF Inv, Undisturbed
    <3>. QED  BY <2>1, <3>1, FaithfulSame
  <2>5. Complete' /\ Created'  BY <2>1 DEF Inv, Complete, Created, Creator
  <2>6. \A k \in Clicks : Justified(k)'  BY <2>1 DEF Inv, Justified, Creator
  <2>. QED  BY <2>2, <2>3, <2>4, <2>5, <2>6 DEF Inv
<1>2. CASE \E u \in Users : PageNext(u)
  BY <1>2, InvPage, InvClick DEF PageNext
<1>3. CASE \E n \in Clicks : PostNext(n)
  BY <1>3, InvHandler
<1>. QED  BY <1>1, <1>2, <1>3 DEF ChatNext

LEMMA InvAlways == ChatSpec => []Inv
BY InvInit, InvNext, PTL DEF ChatSpec

\* Chats, messages, POSTs, pages and queues keep their types, and no table
\* outgrows the clicks on "send", however the handlers interleave or fail.
\* (ChatMessageViewSet.perform_create, ChatController)
THEOREM TypeCorrect == ChatSpec => []ChatTypeOK
<1>1. Inv => ChatTypeOK
  <2>. SUFFICES ASSUME Inv PROVE ChatTypeOK  OBVIOUS
  <2>1. Types /\ Rows /\ Bounded /\ Stages  BY DEF Inv
  <2>2. /\ Len(members) \in Nat /\ DOMAIN members = 1 .. Len(members)
        /\ Len(stored) \in Nat /\ DOMAIN stored = 1 .. Len(stored)
        /\ Len(members) <= MaxClicks /\ Len(stored) <= MaxClicks
    BY <2>1, TypeFacts
  <2>3. stored \in Seq(1 .. Len(members))
    <3>1. \A i \in 1 .. Len(stored) : stored[i] \in 1 .. Len(members)
      BY <2>1, <2>2, ElementOfSeq DEF Types, Rows, Clicks
    <3>2. stored \in [1 .. Len(stored) -> Clicks]  BY <2>1, LenProperties DEF Types
    <3>. QED  BY <2>2, <3>1, <3>2
  <2>4. ASSUME NEW u \in Users
        PROVE  /\ page[u].phase \in Phases
               /\ DOMAIN page[u].chats \subseteq 1 .. Len(members)
               /\ \A c \in DOMAIN page[u].chats : page[u].chats[c] \in Shown
    BY <2>1, <2>2, ListType DEF Types, Rows, Pages
  <2>. QED  BY <2>1, <2>2, <2>3, <2>4 DEF ChatTypeOK, Types, Posts, Phases, Messages
<1>. QED  BY <1>1, InvAlways, PTL

\* A page opened at rest that has received its pushes shows each message of its
\* user's chats exactly once, in a chat with all its users, whatever other
\* pages and handlers do. (getChatsSuccess, $dragon.onChannelMessage)
THEOREM PagesExact == ChatSpec => []PageExact
<1>1. Inv => PageExact
  <2>. SUFFICES ASSUME Inv, NEW u \in Users, Settled(u), NEW n \in Clicks,
                       post[n].pc = "done", u \in members[post[n].chat],
                       post[n].chat \notin early
                PROVE  /\ post[n].chat \in DOMAIN page[u].chats
                       /\ page[u].chats[post[n].chat].users = members[post[n].chat]
                       /\ page[u].chats[post[n].chat].group[post[n].msg] = 1
    BY DEF PageExact
  <2>1. Faithful(u) /\ page[u].phase = "shown" /\ pushes[u] = <<>>
    BY DEF Inv, Undisturbed, Settled
  <2>2. OnPage(u, n) \/ Pending(u, n)  BY <2>1 DEF Faithful
  <2>3. OnPage(u, n)  BY <2>1, <2>2 DEF Pending
  <2>. QED  BY <2>1, <2>3 DEF OnPage, Faithful
<1>. QED  BY <1>1, InvAlways, PTL

\* Two chats with the same users exist only where the page that started the
\* second could not know the first: nothing but what the page shows keeps a
\* second chat from being inserted. (sendChat, perform_create)
THEOREM SecondChatExcused == ChatSpec => []OneChat
<1>1. Inv => OneChat
  <2>. SUFFICES ASSUME Inv, NEW n \in Clicks, NEW k \in Clicks, n < k,
                       post[n].pc = "done", post[k].pc = "done",
                       post[n].chat # post[k].chat,
                       members[post[n].chat] = members[post[k].chat],
                       post[n].chat \notin early, ~post[k].excused
                PROVE  FALSE
    BY DEF OneChat
  <2>1. /\ Basics /\ Types /\ Rows /\ Bounded /\ Stages /\ Complete /\ Created
        /\ Justified(k)
    BY DEF Inv, Basics
  <2>2. /\ post[n].chat \in DOMAIN members /\ post[k].chat # NoChat /\ post[k].todo = {}
        /\ n \in Nat /\ k \in Nat
    BY <2>1, CompleteFrozen DEF Stages, Stage, Clicks
  <2>3. PICK j \in Clicks : Creator(post[n].chat, j)  BY <2>1, <2>2 DEF Created
  <2>4. /\ post[j].chat = post[n].chat /\ post[j].todo = {} /\ j <= n
        /\ members[post[n].chat] = post[j].target
    <3>1. post[j].chat = post[n].chat /\ j <= n  BY <2>3 DEF Creator
    <3>2. post[j].todo = {}  BY <2>1, <3>1 DEF Complete
    <3>. QED  BY <2>3, <3>1, <3>2 DEF Creator
  <2>5. Creator(post[k].chat, k)  BY <2>1, <2>2 DEF Justified
  <2>6. post[k].target = members[post[k].chat]  BY <2>2, <2>5 DEF Creator
  <2>7. j < k  BY <2>2, <2>4 DEF Clicks
  <2>8. post[j].chat \in early \/ members[post[j].chat] # post[j].target
    BY <2>1, <2>4, <2>6, <2>7 DEF Justified
  <2>. QED  BY <2>4, <2>8
<1>. QED  BY <1>1, InvAlways, PTL
=============================================================================
