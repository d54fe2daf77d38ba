---------------------------- MODULE ChatMessages ----------------------------
(***************************************************************************)
(* The messages of one conversation: chat.service.ts and its controller,   *)
(* the events they emit to the conversation's room, and the thread that    *)
(* Chat.tsx shows from a cache fed by those events, by the responses to    *)
(* the user's own requests and by a poll.  A request reads, writes, emits  *)
(* and answers in four steps that other requests come between; an event is *)
(* lost for a user whose socket is not in the room: it was not connected,  *)
(* its join was lost or refused, or it dropped and does not join again.    *)
(***************************************************************************)
EXTENDS Integers, Sequences, FiniteSets

CONSTANTS
    Member,     \* the members of the conversation
    Viewer,     \* those whose browser is modelled, with the thread open; the
                \* others act on any message, as from a screen of any content
    Admin,      \* those with the role ADMIN
    Msg,        \* message ids, taken in the order of the creations
    First,      \* the user who sent message 1, which everyone has read
    Req,        \* slots for requests in flight, taken in order
    PlanLimit,  \* maxChatMessages of the tenant's plan
    MaxOps,     \* bound: requests
    MaxSends,   \* bound: requests when all of them are sends
    NoMsg,      \* no message
    NoPoll      \* no list response on its way

ASSUME MessagesAssumption ==
    /\ Admin \subseteq Member /\ Viewer \subseteq Member
    /\ Msg \subseteq Nat /\ 1 \in Msg /\ NoMsg \notin Msg
    /\ First \in Member /\ NoMsg \notin Member
    /\ Req \subseteq Nat /\ IsFiniteSet(Req)
    /\ PlanLimit \in Nat \ {0}     \* message 1 was within it
    /\ MaxOps \in Nat /\ MaxSends \in Nat

VARIABLES
    row,        \* the Message rows with their reactions (of one emoji) and reads
    recent,     \* recentSends: the message a user sent in the last 1.5 s, or NoMsg
    req,        \* the requests in flight
    inbox,      \* events on the way to each user's socket
    room,       \* how far the socket of the user is on its way into conv:<id>
    cache,      \* ['messages', conversationId] of each user's browser
    poll,       \* a list response on its way to the user, or NoPoll
    marking,    \* the user's browser has called markRead
    ops,
    missed,     \* history: messages of others of whose creation no event reached the user
    overlapped  \* history: two requests were in flight together

server  == <<row, recent>>
browser == <<inbox, room, cache, poll, marking, missed>>
messageVars == <<row, recent, req, inbox, room, cache, poll, marking, ops, missed, overlapped>>

Stage == {"off", "on", "joining", "joined"}

Body == {"none", "text", "edited"}
NoRow  == [sender |-> NoMsg, body |-> "none", deleted |-> FALSE, hidden |-> FALSE, by |-> {}, reads |-> {}]
NoView == [body |-> "absent", deleted |-> FALSE, by |-> {}, mine |-> FALSE]
Free   == [at |-> "free", op |-> "none", user |-> NoMsg, m |-> NoMsg, view |-> NoView]

View == {NoView} \cup [body : Body, deleted : BOOLEAN, by : SUBSET Member, mine : BOOLEAN]
Row  == [sender : Member \cup {NoMsg}, body : Body, deleted : BOOLEAN, hidden : BOOLEAN,
         by : SUBSET Member, reads : SUBSET Member]
Op   == {"send", "edit", "delete_all", "delete_me", "toggle", "unreact"}
Posted  == [op : Op, m : Msg, view : View]
Request == {Free}
           \cup [at : {"write"}, op : {"send"}, user : Member, m : {NoMsg}, view : {NoView}]
           \cup [at : {"write", "add", "drop"}, op : Op \ {"send"}, user : Member, m : Msg, view : {NoView}]
           \cup [at : {"emit"}, op : Op, user : Member, m : Msg, view : View]
           \cup [at : {"reply"}, op : Op \ {"send"}, user : Viewer, m : Msg, view : View]

MessagesTypeOK ==
    /\ row \in [Msg -> Row]
    /\ recent \in [Member -> Msg \cup {NoMsg}]
    /\ req \in [Req -> Request]
    /\ inbox \in [Viewer -> Seq(Posted)]
    /\ cache \in [Viewer -> [Msg -> View]]
    /\ poll \in [Viewer -> {NoPoll} \cup [Msg -> View]]
    /\ room \in [Viewer -> Stage] /\ marking \in [Viewer -> BOOLEAN]
    /\ missed \in [Viewer -> SUBSET Msg]
    /\ ops \in [{"send", "other"} -> Nat] /\ overlapped \in BOOLEAN

Created == {m \in Msg : row[m] # NoRow}

\* messagePayload for u: a deleted message has no body, and reactedByMe is
\* relative to the user whose request builds the payload.
Payload(rows, m, u) ==
    [body |-> IF rows[m].deleted THEN "none" ELSE rows[m].body, deleted |-> rows[m].deleted,
     by |-> rows[m].by, mine |-> u \in rows[m].by]

\* messageHistory for u: without the messages u deleted for itself.
History(u) ==
    [m \in Msg |-> IF row[m] = NoRow \/ (row[m].sender = u /\ row[m].hidden)
                   THEN NoView ELSE Payload(row, m, u)]

\* Every screen has the thread open; its socket may be at any stage.
MessagesInit ==
    /\ row = [m \in Msg |-> IF m # 1 THEN NoRow ELSE
                [NoRow EXCEPT !.sender = First, !.body = "text", !.reads = Member \ {First}]]
    /\ recent = [u \in Member |-> NoMsg]
    /\ req = [r \in Req |-> Free]
    /\ inbox = [u \in Viewer |-> <<>>]
    /\ room \in [Viewer -> Stage]
    /\ cache = [u \in Viewer |-> History(u)]
    /\ poll = [u \in Viewer |-> NoPoll]
    /\ marking = [u \in Viewer |-> FALSE]
    /\ missed = [u \in Viewer |-> {}]
    /\ ops = [send |-> 0, other |-> 0] /\ overlapped = FALSE

-----------------------------------------------------------------------------

\* The users to whom an event of each kind goes: emitToConversation, or for
\* deleted_for_me emitToUser, whose room every socket that connects does join.
HasSocket(u) == room[u] # "off"
Audience(op, u) == IF op = "delete_me" THEN {v \in {u} \cap Viewer : HasSocket(v)}
                   ELSE {v \in Viewer : room[v] = "joined"}

Event(q) == [op |-> q.op, m |-> q.m, view |-> q.view]

\* The messages of others that the events in es tell of.
News(es, u) == {e.m : e \in {d \in es : d.op = "send" /\ row[d.m].sender # u}}

Arrives(r, kind) ==
    /\ req[r].at = "free" /\ \A o \in Req : o < r => req[o].at # "free"
    /\ ops' = [ops EXCEPT ![kind] = @ + 1]
    /\ ops'.send + ops'.other <= MaxOps \/ (ops'.other = 0 /\ ops'.send <= MaxSends)
    /\ overlapped' = (overlapped \/ \E o \in Req : req[o].at # "free")

Enter(r, at, op, u, m, view) ==
    req' = [req EXCEPT ![r] = [at |-> at, op |-> op, user |-> u, m |-> m, view |-> view]]

\* (Mutant of WithinPlan: the limit is compared after the create it guards.)
WithinPlanLate == Cardinality(Created) <= PlanLimit

\* enforceChatMessagesLimit.
WithinPlan == Cardinality(Created) < PlanLimit

\* sendMessage up to the create: a repetition within the window returns the
\* payload of the first; otherwise the plan's limit is counted.
SendMessage(r, u) ==
    /\ Arrives(r, "send")
    /\ \/ /\ recent[u] # NoMsg
          /\ Enter(r, "emit", "send", u, recent[u],
                   [body |-> "text", deleted |-> FALSE, by |-> {}, mine |-> FALSE])
       \/ /\ recent[u] = NoMsg
          /\ WithinPlan
          /\ Enter(r, "write", "send", u, NoMsg, NoView)
    /\ UNCHANGED <<server, browser>>

\* 1.5 s after the create.
WindowEnds(u) ==
    /\ recent[u] # NoMsg
    /\ recent' = [recent EXCEPT ![u] = NoMsg]
    /\ UNCHANGED <<row, req, ops, overlapped, browser>>

\* What a bubble offers for a message that is shown and not deleted, and findMessage
\* finds.
Offered(u, m) == m \in Created /\ (u \in Viewer => cache[u][m] # NoView /\ ~cache[u][m].deleted)

\* editMessage and deleteMessage up to the update.
Edit(r, u, m) ==
    /\ Arrives(r, "other") /\ Offered(u, m)
    /\ row[m].sender = u /\ ~row[m].deleted
    /\ Enter(r, "write", "edit", u, m, NoView)
    /\ UNCHANGED <<server, browser>>

Delete(r, u, m, scope) ==
    /\ Arrives(r, "other") /\ Offered(u, m)
    /\ row[m].sender = u \/ (scope = "delete_all" /\ u \in Admin)
    /\ Enter(r, "write", scope, u, m, NoView)
    /\ UNCHANGED <<server, browser>>

\* A click on the emoji asks for the opposite of what this screen shows;
\* toggleReaction reads whether the row exists.
React(r, u, m) ==
    /\ Arrives(r, "other") /\ Offered(u, m)
    /\ \/ /\ u \in Viewer => cache[u][m].mine
          /\ Enter(r, "write", "unreact", u, m, NoView)
       \/ /\ u \in Viewer => ~cache[u][m].mine
          /\ Enter(r, IF u \in row[m].by THEN "drop" ELSE "add", "toggle", u, m, NoView)
    /\ UNCHANGED <<server, browser>>

\* (Mutant of Updated: the body is kept when a message is deleted for everyone.)
UpdatedKeepsBody(old, op) ==
    CASE op = "edit"       -> [old EXCEPT !.body = "edited"]
      [] op = "delete_all" -> [old EXCEPT !.deleted = TRUE]
      [] op = "delete_me"  -> [old EXCEPT !.hidden = TRUE]

\* The data of the update statement.
Updated(old, op) ==
    CASE op = "edit"       -> [old EXCEPT !.body = "edited"]
      [] op = "delete_all" -> [old EXCEPT !.deleted = TRUE, !.body = "none"]
      [] op = "delete_me"  -> [old EXCEPT !.hidden = TRUE]

\* The statement that changes a message, and the payload read back with it.
Write(r) ==
    /\ req[r].at = "write" /\ req[r].op \in {"edit", "delete_all", "delete_me"}
    /\ LET m == req[r].m IN
          /\ row' = [row EXCEPT ![m] = Updated(@, req[r].op)]
          /\ req' = [req EXCEPT ![r].at = "emit", ![r].view = Payload(row', m, req[r].user)]
    /\ UNCHANGED <<recent, ops, overlapped, browser>>

\* The create, and recentSends.set after it.
Create(r) ==
    /\ req[r].at = "write" /\ req[r].op = "send"
    /\ \E m \in Msg \ Created :
          LET u == req[r].user IN
          /\ \A o \in Msg \ Created : m <= o
          /\ row' = [row EXCEPT ![m] = [NoRow EXCEPT !.sender = u, !.body = "text"]]
          /\ recent' = [recent EXCEPT ![u] = m]
          /\ req' = [req EXCEPT ![r].at = "emit", ![r].m = m, ![r].view = Payload(row', m, u)]
    /\ UNCHANGED <<ops, overlapped, browser>>

\* The reaction row is created or deleted by what was read; when another request
\* of the user came first, the unique index or the missing row throws.
WriteReaction(r) ==
    /\ req[r].at \in {"add", "drop"} \/ (req[r].at = "write" /\ req[r].op = "unreact")
    /\ LET m == req[r].m
           u == req[r].user
           fails == (req[r].at = "add" /\ u \in row[m].by) \/ (req[r].at = "drop" /\ u \notin row[m].by)
       IN  IF fails THEN req' = [req EXCEPT ![r] = Free] /\ UNCHANGED row
           ELSE /\ row' = [row EXCEPT ![m].by = IF req[r].at = "add" THEN @ \cup {u} ELSE @ \ {u}]
                /\ req' = [req EXCEPT ![r].at = "emit", ![r].view = Payload(row', m, u)]
    /\ UNCHANGED <<recent, ops, overlapped, browser>>

\* The controller emits what the service returned.
EmitEvent(r) ==
    /\ req[r].at = "emit"
    /\ inbox' = [u \in Viewer |-> IF u \in Audience(req[r].op, req[r].user)
                                THEN Append(inbox[u], Event(req[r])) ELSE inbox[u]]
    /\ missed' = [u \in Viewer |-> IF u \in Audience(req[r].op, req[r].user)
                                 THEN missed[u] ELSE missed[u] \cup News({Event(req[r])}, u)]
    /\ req' = [req EXCEPT ![r] = IF @.user \in Viewer /\ @.op # "send" THEN [@ EXCEPT !.at = "reply"] ELSE Free]
    /\ UNCHANGED <<server, ops, overlapped, room, cache, poll, marking>>

-----------------------------------------------------------------------------
\* The browser.

\* A cached item after an event, or after the response to an own edit, deletion
\* or reaction; an item that is not cached stays so, except a new message.
Applied(old, op, view) ==
    IF op = "send" THEN IF old = NoView THEN view ELSE old
    ELSE IF old = NoView THEN NoView
    ELSE CASE op = "edit" -> view
           [] op = "delete_all" -> [old EXCEPT !.deleted = TRUE, !.body = "none"]
           [] op = "delete_me" -> NoView
           [] op \in {"toggle", "unreact"} -> [old EXCEPT !.by = view.by, !.mine = view.mine]

\* The response: an edit or a deletion puts the returned message in place of the
\* item.  (A send only asks for the list again, which Poll may do at any time.)
Reply(r) ==
    /\ req[r].at = "reply"
    /\ LET q   == req[r]
           old == cache[q.user][q.m]
       IN  cache' = [cache EXCEPT ![q.user][q.m] =
                IF old # NoView /\ q.op \in {"edit", "delete_all", "delete_me"}
                THEN q.view ELSE Applied(old, q.op, q.view)]
    /\ req' = [req EXCEPT ![r] = Free]
    /\ UNCHANGED <<server, ops, overlapped, inbox, room, poll, marking, missed>>

\* (Mutant of MarksRead: an open thread marks nothing.)
MarksReadNever(u, e) == FALSE

\* The thread marks the conversation read when a message of another arrives.
MarksRead(u, e) == e.op = "send" /\ row[e.m].sender # u

\* The next event reaches the thread.
OnEvent(u) ==
    /\ inbox[u] # <<>>
    /\ LET e == Head(inbox[u]) IN
          /\ cache' = [cache EXCEPT ![u][e.m] = Applied(@, e.op, e.view)]
          /\ marking' = [marking EXCEPT ![u] = @ \/ MarksRead(u, e)]
    /\ inbox' = [inbox EXCEPT ![u] = Tail(@)]
    /\ UNCHANGED <<server, req, ops, overlapped, room, poll, missed>>

\* POST read and chat:read: every unread message of others, in one pass.
MarkRead(u) ==
    /\ marking[u]
    /\ marking' = [marking EXCEPT ![u] = FALSE]
    /\ row' = [m \in Msg |-> IF row[m] # NoRow /\ row[m].sender # u
                             THEN [row[m] EXCEPT !.reads = @ \cup {u}] ELSE row[m]]
    /\ UNCHANGED <<recent, req, ops, overlapped, inbox, room, cache, poll, missed>>

\* The list request, every 15 s or when it was invalidated.
Poll(u) ==
    /\ poll[u] = NoPoll
    /\ poll' = [poll EXCEPT ![u] = History(u)]
    /\ UNCHANGED <<server, req, ops, overlapped, inbox, room, cache, marking, missed>>

\* (Mutant of Fetched: the list is merged into what is cached.)
FetchedMerged(u) == [m \in Msg |-> IF cache[u][m] = NoView THEN poll[u][m] ELSE cache[u][m]]

\* What the list response makes of the cache.
Fetched(u) == poll[u]

\* It replaces the cache, whatever events have changed meanwhile.
PollDone(u) ==
    /\ poll[u] # NoPoll
    /\ cache' = [cache EXCEPT ![u] = Fetched(u)]
    /\ poll' = [poll EXCEPT ![u] = NoPoll]
    /\ UNCHANGED <<server, req, ops, overlapped, inbox, room, marking, missed>>

\* The socket connects, or again, by itself; it is in user:<id> then.
Connects(u) ==
    /\ ~HasSocket(u)
    /\ room' = [room EXCEPT ![u] = "on"]
    /\ UNCHANGED <<server, req, ops, overlapped, inbox, cache, poll, marking, missed>>

\* selectConversation: markRead, chat:join, chat:read, and a new Thread.  Without a
\* socket, as when there was no access token, the join is lost; one that a socket holds
\* until it connects is one made then.  (In the room already, it changes nothing here.)
Select(u) ==
    /\ room[u] \in {"off", "on"}
    /\ marking' = [marking EXCEPT ![u] = TRUE]
    /\ room' = [room EXCEPT ![u] = IF @ = "on" THEN "joining" ELSE "off"]
    /\ UNCHANGED <<server, req, ops, overlapped, inbox, cache, poll, missed>>

\* chat:join: refused when the check fails, as it does until handleConnection has set
\* the user of the socket.
JoinConversation(u) ==
    /\ room[u] = "joining"
    /\ \E to \in {"on", "joined"} : room' = [room EXCEPT ![u] = to]
    /\ UNCHANGED <<server, req, ops, overlapped, inbox, cache, poll, marking, missed>>

\* The socket drops, with what was on its way.
SocketDrops(u) ==
    /\ HasSocket(u)
    /\ room' = [room EXCEPT ![u] = "off"]
    /\ missed' = [missed EXCEPT ![u] = @ \cup News({inbox[u][i] : i \in DOMAIN inbox[u]}, u)]
    /\ inbox' = [inbox EXCEPT ![u] = <<>>]
    /\ UNCHANGED <<server, req, ops, overlapped, cache, poll, marking>>

-----------------------------------------------------------------------------

Act(r) ==
    \E u \in Member :
        \/ SendMessage(r, u)
        \/ \E m \in Msg : \/ Edit(r, u, m) \/ React(r, u, m)
                          \/ \E scope \in {"delete_all", "delete_me"} : Delete(r, u, m, scope)

Progress(r) == Write(r) \/ Create(r) \/ WriteReaction(r) \/ EmitEvent(r) \/ Reply(r)

MessagesNext ==
    \/ \E r \in Req : Act(r) \/ Progress(r)
    \/ \E u \in Member : WindowEnds(u)
    \/ \E u \in Viewer :
          \/ OnEvent(u) \/ MarkRead(u) \/ Poll(u) \/ PollDone(u)
          \/ Connects(u) \/ Select(u) \/ JoinConversation(u) \/ SocketDrops(u)

MessagesSpec == MessagesInit /\ [][MessagesNext]_messageVars

\* Requests are answered, events of a live socket arrive, and the interval polls.
FairMessages ==
    /\ MessagesSpec
    /\ \A r \in Req : WF_messageVars(Progress(r))
    /\ \A u \in Viewer : WF_messageVars(OnEvent(u)) /\ WF_messageVars(MarkRead(u)) /\ WF_messageVars(Poll(u) \/ PollDone(u))

-----------------------------------------------------------------------------

\* "Best-effort: polling is the fallback": whatever events were lost, came late or
\* carried another user's view, once requests stop every screen comes to show what
\* the server would answer, reactedByMe included.
ScreensConverge == <>[](\A u \in Viewer : cache[u] = History(u))

\* A message on an open thread gets marked read if an event told the thread of it:
\* one that only the poll brings, to a socket that is not in the room, is shown and
\* may stay unread.
ShownIsRead ==
    \A u \in Viewer, m \in Msg :
        (cache[u][m] # NoView /\ row[m].sender # u) ~> (u \in row[m].reads \/ m \in missed[u])

\* A message deleted for everyone keeps no body for a reply's preview to show;
\* until requests overlap: an edit that was checked before writes one again.
DeletedHasNoBody ==
    overlapped \/ \A m \in Created : row[m].deleted => row[m].body = "none"

\* The plan's limit is kept until sends overlap, and exceeded then by no more than
\* the sends that were counted before the last of them was created.
OvershootIsBounded ==
    Cardinality(Created) <= PlanLimit + (IF overlapped THEN Cardinality(Req) - 1 ELSE 0)

=============================================================================
