------------------------------ MODULE ChatCalls ------------------------------
(***************************************************************************)
(* Calls end to end: the gateway's registry (ChatGateway), the call        *)
(* overlay of every user's browser (components/chat/CallOverlay.tsx) and   *)
(* the ordered socket between the two.  A browser has one connection at a  *)
(* time; when it is cut, what is under way is lost, what the overlay sends *)
(* meanwhile waits in the browser, and the gateway learns of it later,     *)
(* maybe after the browser has come back with a new connection.            *)
(***************************************************************************)
EXTENDS ChatGateway, Sequences

CONSTANT
    Faults      \* what may go wrong: a ring given up before its acknowledgement, the
                \* microphone of a call refused, its media lost, a connection cut:
                \* "given_up", "mic", "media", "cut"

ASSUME CallsAssumption ==
    /\ Faults \subseteq {"given_up", "mic", "media", "cut"}
    /\ \A u \in User : \E s \in Socket : UserOf[s] = u
    /\ None \notin CallId \cup Socket

VARIABLES
    screen,     \* the overlay's status and session; a session outlives its call
    timers,     \* the overlay's running ring timeouts
    resets,     \* how many teardowns' resets are still to come
    toServer, toClient,   \* messages under way, in order
    link,       \* the connection of a browser, or None
    placed,     \* ring requests sent so far
    untimed,    \* the rings that a cut left without a timeout: see Cut and RungOver
    failed      \* history: what has gone wrong, "wiped" a ring or call that a late reset took

client == <<screen, timers, resets, toServer, toClient, link, placed, untimed, failed>>
all    == <<vars, client>>

NoSession == [status |-> "idle", id |-> None, mode |-> "none", acked |-> FALSE, reason |-> "none"]
Screen == {NoSession} \cup
          [status : {"idle", "ringing", "connecting", "active", "ended"},
           id : CallId, mode : {"out", "in"},
           acked : BOOLEAN,     \* callId is known: the ring was acknowledged
           reason : {"none", "failed", "declined", "cancelled", "ended", "no_answer"}]
Timer  == [mode : {"out", "in"}, left : 0 .. RingTimeout,
           held : BOOLEAN]      \* ringTimeoutRef points at it
Signal == [type : {"ring"}, id : CallId, to : User]
          \cup [type : {"accept", "decline", "cancel", "end"}, id : CallId]
Notice == [type : {"ring", "ack", "nack", "accepted", "declined", "cancelled", "ended"}, id : CallId]

Mishap == Faults \cup {"given_up", "wiped"}

CallsTypeOK ==
    /\ TypeOK
    /\ screen \in [User -> Screen] /\ timers \in [User -> SUBSET Timer]
    /\ toServer \in [User -> Seq(Signal)] /\ toClient \in [User -> Seq(Notice)]
    /\ link \in [User -> Socket \cup {None}]
    /\ placed \subseteq CallId /\ untimed \subseteq CallId
    /\ resets \in [User -> Nat] /\ failed \subseteq Mishap

CallsInit ==
    /\ link = [u \in User |-> CHOOSE s \in Socket : UserOf[s] = u]
    /\ sock = [s \in Socket |-> IF link[UserOf[s]] = s THEN "on" ELSE "new"]
    /\ entry = [u \in User |-> [tenant |-> TenantOf[link[u]], sockets |-> {link[u]}]]
    /\ shown = [t \in Tenant |-> {u \in User : TenantOf[link[u]] = t}]
    /\ call = [i \in CallId |-> Fresh]
    /\ accepted = {} /\ mixed = FALSE
    /\ screen = [u \in User |-> NoSession]
    /\ timers = [u \in User |-> {}] /\ resets = [u \in User |-> 0]
    /\ toServer = [u \in User |-> <<>>] /\ toClient = [u \in User |-> <<>>]
    /\ placed = {} /\ untimed = {} /\ failed = {}

-----------------------------------------------------------------------------
\* The overlay.

Send(u, type, i) == toServer' = [toServer EXCEPT ![u] = Append(@, [type |-> type, id |-> i])]
\* A session whose ring was not acknowledged has no call id; the gateway refuses
\* the empty one.
SendIfKnown(u, type) ==
    IF screen[u].acked THEN Send(u, type, screen[u].id) ELSE UNCHANGED toServer

Show(u, new)    == screen' = [screen EXCEPT ![u] = new]
Unheld(u)       == {t \in timers[u] : ~t.held}
ClearHeld(u)    == timers' = [timers EXCEPT ![u] = Unheld(u)]

Idle(u)         == [screen[u] EXCEPT !.status = "idle", !.reason = "none"]
LastFrame(u, r) == [screen[u] EXCEPT !.status = "ended", !.reason = r]
LaterReset(u)   == resets' = [resets EXCEPT ![u] = @ + 1]

\* reset keeps sessionRef; cancel and decline drop it; every teardown sets a reset
\* of its own for 2.6 s later, which nothing takes back.
Reset(u)        == Show(u, Idle(u)) /\ ClearHeld(u) /\ UNCHANGED resets
Forget(u)       == Show(u, NoSession) /\ ClearHeld(u) /\ UNCHANGED resets
Teardown(u, r)  == Show(u, LastFrame(u, r)) /\ ClearHeld(u) /\ LaterReset(u)

\* Bound on faults: after a cut nothing else goes wrong.
Fails(what)     == what \in Faults /\ "cut" \notin failed /\ failed' = failed \cup {what}

\* A browser gets what is sent to its user while its connection is admitted.
Reachable(u)    == link[u] # None /\ sock[link[u]] = "on"

Place(u, v, i) ==
    /\ screen[u].status = "idle"
    /\ \E s \in Socket : UserOf[s] = u /\ <<TenantOf[s], {u, v}>> \in Direct
    /\ v # u /\ i \notin placed
    /\ Show(u, [status |-> "ringing", id |-> i, mode |-> "out", acked |-> FALSE, reason |-> "none"])
    /\ toServer' = [toServer EXCEPT ![u] = Append(@, [type |-> "ring", id |-> i, to |-> v])]
    /\ placed' = placed \cup {i}
    /\ UNCHANGED <<vars, timers, resets, toClient, link, untimed, failed>>

Press(u) ==
    /\ \/ /\ screen[u].status = "ringing" /\ screen[u].mode = "out"
          /\ IF screen[u].acked \/ screen[u].id \in untimed THEN UNCHANGED failed ELSE Fails("given_up")
          /\ SendIfKnown(u, "cancel") /\ Forget(u)
       \/ /\ screen[u].status = "ringing" /\ screen[u].mode = "in"
          /\ Send(u, "decline", screen[u].id) /\ Forget(u)
          /\ UNCHANGED failed
       \/ /\ screen[u].status = "ringing" /\ screen[u].mode = "in"
          /\ Send(u, "accept", screen[u].id)
          /\ Show(u, [screen[u] EXCEPT !.status = "connecting"])
          /\ UNCHANGED <<timers, resets, failed>>
       \/ /\ screen[u].status = "active"
          /\ Send(u, "end", screen[u].id) /\ Teardown(u, "ended")
          /\ UNCHANGED failed
    /\ UNCHANGED <<vars, toClient, link, placed, untimed>>

\* getUserMedia is refused: while a ring is not acknowledged yet, when a callee
\* accepts, and when a caller is told that the call was accepted.
MicFails(u) ==
    /\ \/ /\ screen[u].status = "ringing" /\ screen[u].mode = "out" /\ ~screen[u].acked
          /\ Reset(u) /\ Fails("given_up") /\ UNCHANGED toServer
       \/ /\ screen[u].status = "connecting" /\ screen[u].mode = "in"
          /\ Send(u, "decline", screen[u].id) /\ Reset(u) /\ Fails("mic")
       \/ /\ screen[u].status = "connecting" /\ screen[u].mode = "out"
          /\ Teardown(u, "failed") /\ Fails("mic") /\ UNCHANGED toServer
    /\ UNCHANGED <<vars, toClient, link, placed, untimed>>

OnScreen(u) == screen[u].status \in {"ringing", "connecting", "active"}

\* What a reset takes away besides the last frame: a ring given up before its
\* acknowledgement, or any other ring or call.
Wipes(u) ==
    IF ~OnScreen(u) THEN failed
    ELSE failed \cup {IF screen[u].acked \/ screen[u].id \in untimed THEN "wiped" ELSE "given_up"}

\* The reset of a teardown, 2.6 s later and whatever is on the screen by then: the
\* last frame of the call, or a ring or a call that followed it.
EndedOver(u) ==
    /\ resets[u] > 0 /\ resets' = [resets EXCEPT ![u] = @ - 1]
    /\ Show(u, Idle(u)) /\ ClearHeld(u) /\ failed' = Wipes(u)
    /\ UNCHANGED <<vars, toServer, toClient, link, placed, untimed>>

OnCall(u, i) == screen[u].id = i /\ screen[u].status \in {"connecting", "active"}

\* Offer, answer and candidates are relayed for a registered call and the media
\* flows.
MediaUp(u, v) ==
    /\ screen[u].status = "connecting" /\ screen[u].mode = "out"
    /\ screen[v].status = "connecting" /\ screen[v].mode = "in"
    /\ screen[u].id = screen[v].id /\ screen[u].id \in Up
    /\ Reachable(u) /\ Reachable(v)
    /\ screen' = [screen EXCEPT ![u].status = "active", ![v].status = "active"]
    /\ UNCHANGED <<vars, timers, resets, toServer, toClient, link, placed, untimed, failed>>

\* The peer connection is lost: the other side closed it, or the network did.
MediaLost(u) ==
    /\ screen[u].status = "active"
    /\ IF \A v \in User \ {u} : ~OnCall(v, screen[u].id) THEN UNCHANGED failed ELSE Fails("media")
    /\ Reset(u)
    /\ UNCHANGED <<vars, toServer, toClient, link, placed, untimed>>

\* (Mutant of Expired: the timeouts never run.)
NeverExpired(t) == FALSE

Expired(t) == t.left = 0

\* outgoingTimedOut and incomingTimedOut look at the session's mode only: neither
\* at its status nor at which call the timer was set for.
TimerFires(u, t) ==
    /\ t \in timers[u] /\ Expired(t)
    /\ IF screen[u].mode = t.mode
       THEN /\ IF t.mode = "out" THEN SendIfKnown(u, "cancel") ELSE Send(u, "decline", screen[u].id)
            /\ Show(u, LastFrame(u, "no_answer")) /\ LaterReset(u)
            /\ timers' = [timers EXCEPT ![u] = Unheld(u) \ {t}]
       ELSE timers' = [timers EXCEPT ![u] = @ \ {t}] /\ UNCHANGED <<screen, resets, toServer>>
    /\ UNCHANGED <<vars, toClient, link, placed, untimed, failed>>

Start(mode) == [mode |-> mode, left |-> RingTimeout, held |-> TRUE]

WhenBusy(u, i) == Send(u, "decline", i)

\* The ring on the screen, whose call the gateway ended with the connection, loses
\* its timeout to a later one.
RungOver(u) ==
    IF "cut" \in failed /\ screen[u].status = "ringing" /\ screen[u].mode = "in"
    THEN untimed \cup {screen[u].id} ELSE untimed

\* An incoming ring.  It makes the timeouts of earlier incoming rings void, also
\* when it is declined because the overlay is busy.
OnRing(u, i) ==
    LET rest == {t \in timers[u] : t.mode = "out"} IN
    IF screen[u].status # "idle"
    THEN /\ WhenBusy(u, i)
         /\ timers' = [timers EXCEPT ![u] = rest]
         /\ untimed' = RungOver(u)
         /\ UNCHANGED screen
    ELSE /\ Show(u, [status |-> "ringing", id |-> i, mode |-> "in", acked |-> TRUE, reason |-> "none"])
         /\ timers' = [timers EXCEPT ![u] = {[t EXCEPT !.held = FALSE] : t \in rest} \cup {Start("in")}]
         /\ UNCHANGED <<toServer, untimed>>

\* The acknowledgement of one's own ring arms the timeout, whatever the session.
OnAck(u, i) ==
    /\ screen' = IF screen[u].id = i THEN [screen EXCEPT ![u].acked = TRUE] ELSE screen
    /\ timers' = [timers EXCEPT ![u] = Unheld(u) \cup {Start("out")}]
    /\ UNCHANGED toServer

\* (Mutant of Concerns: an event is taken for the call on the screen.)
ConcernsAny(u, m) == TRUE

\* Events count only for the call of the session.
Concerns(u, m) == screen[u].acked /\ screen[u].id = m.id

IgnoreEvent == UNCHANGED <<screen, timers, resets, toServer>>

OnOver(u, m) ==
    IF Concerns(u, m) /\ screen[u].status # "idle"
    THEN Teardown(u, m.type) /\ UNCHANGED toServer
    ELSE IgnoreEvent

Deliver(u) ==
    /\ toClient[u] # <<>>
    /\ LET m == Head(toClient[u]) IN
       \/ m.type = "ring" /\ OnRing(u, m.id) /\ UNCHANGED resets
       \/ m.type = "ack" /\ OnAck(u, m.id) /\ UNCHANGED <<resets, untimed>>
       \/ /\ m.type = "nack" /\ UNCHANGED untimed
          /\ IF screen[u].id = m.id /\ screen[u].status = "ringing"
             THEN Teardown(u, "failed") /\ UNCHANGED toServer ELSE IgnoreEvent
       \/ /\ m.type = "accepted" /\ UNCHANGED untimed
          /\ IF Concerns(u, m) /\ screen[u].status = "ringing"
             THEN Show(u, [screen[u] EXCEPT !.status = "connecting"]) /\ UNCHANGED <<timers, resets, toServer>>
             ELSE IgnoreEvent
       \/ m.type \in {"declined", "cancelled", "ended"} /\ OnOver(u, m) /\ UNCHANGED untimed
    /\ toClient' = [toClient EXCEPT ![u] = Tail(@)]
    /\ UNCHANGED <<vars, link, placed, failed>>

-----------------------------------------------------------------------------
\* The gateway's side of the messages: ChatGateway's actions and what they emit.

Told(u, type, i) == IF Reachable(u) THEN Append(toClient[u], [type |-> type, id |-> i]) ELSE toClient[u]
Emit(u, type, i) == toClient' = [toClient EXCEPT ![u] = Told(u, type, i)]

\* (Mutant of PeerFor: the event goes back to its sender.)
Echo(i, u) == u

PeerFor(i, u) == IF call[i].caller = u THEN call[i].callee ELSE call[i].caller

\* The acknowledgement goes to the connection that asked, not to its user.
Heard(i, type) ==
    LET u == call[i].caller IN
    IF i \in untimed THEN toClient[u] ELSE Append(toClient[u], [type |-> type, id |-> i])

Receive(u) ==
    /\ Reachable(u) /\ toServer[u] # <<>>
    /\ LET m == Head(toServer[u]) IN
       \/ m.type = "ring" /\ RingAsk(link[u], m.to, m.id) /\ UNCHANGED toClient
       \/ m.type = "accept" /\ Accept(u, m.id) /\ Emit(PeerFor(m.id, u), "accepted", m.id)
       \/ m.type = "decline" /\ Decline(u, m.id) /\ Emit(PeerFor(m.id, u), "declined", m.id)
       \/ m.type = "cancel" /\ Cancel(u, m.id) /\ Emit(PeerFor(m.id, u), "cancelled", m.id)
       \/ m.type = "end" /\ EndCall(u, m.id) /\ Emit(PeerFor(m.id, u), "ended", m.id)
       \/ m.type # "ring" /\ m.id \notin Up /\ UNCHANGED <<vars, toClient>>
    /\ toServer' = [toServer EXCEPT ![u] = Tail(@)]
    /\ UNCHANGED <<screen, timers, resets, link, placed, untimed, failed>>

CheckRing(i) ==
    /\ RingCheck(i)
    /\ IF call'[i].phase = "over"
       THEN toClient' = [toClient EXCEPT ![call[i].caller] = Heard(i, "nack")] ELSE UNCHANGED toClient
    /\ UNCHANGED <<screen, timers, resets, toServer, link, placed, untimed, failed>>

PutRing(i) ==
    /\ RingPut(i)
    /\ LET from == call[i].caller  to == call[i].callee IN
       IF call'[i].phase = "up"
       THEN toClient' = [toClient EXCEPT ![to] = Told(to, "ring", i), ![from] = Heard(i, "ack")]
       ELSE toClient' = [toClient EXCEPT ![from] = Heard(i, "nack")]
    /\ UNCHANGED <<screen, timers, resets, toServer, link, placed, untimed, failed>>

\* The connection of a browser is cut, while a ring of its own may be waiting for
\* the acknowledgement.  Bound: once, and before anything else fails.
Cut(u) ==
    /\ failed = {} /\ Fails("cut")
    /\ \E s \in Socket : UserOf[s] = u /\ sock[s] = "new"
    /\ link' = [link EXCEPT ![u] = None]
    /\ toServer' = [toServer EXCEPT ![u] = <<>>] /\ toClient' = [toClient EXCEPT ![u] = <<>>]
    /\ untimed' = IF screen[u].status = "ringing" /\ ~screen[u].acked THEN {screen[u].id} ELSE {}
    /\ UNCHANGED <<vars, screen, timers, resets, placed>>

\* The gateway learns of it: a call of the user ends, and the peers of all of them
\* are told its id.
DropNoticed(s) ==
    LET u == UserOf[s] IN
    /\ link[u] # s /\ sock[s] = "on" /\ Drop(s)
    /\ LET gone == {i \in Up : call'[i].phase = "over"}
           peers == {PeerFor(i, u) : i \in CallsOf(u)}
       IN  toClient' = [v \in User |-> IF v \in peers THEN Told(v, "ended", CHOOSE i \in gone : TRUE)
                                       ELSE toClient[v]]
    /\ UNCHANGED <<screen, timers, resets, toServer, link, placed, untimed, failed>>

\* The browser comes back by itself, with a connection that is checked first.
Reconnect(u) ==
    /\ link[u] = None
    /\ \E s \in Socket : UserOf[s] = u /\ Connect(s) /\ link' = [link EXCEPT ![u] = s]
    /\ UNCHANGED <<screen, timers, resets, toServer, toClient, placed, untimed, failed>>

Checked(u) ==
    /\ link[u] # None /\ sock[link[u]] = "checking" /\ Admit(link[u])
    /\ UNCHANGED client

\* What waited in the browser may come before the check is over: the sender is not
\* known yet, so that a ring is refused and anything else is no call of the sender's.
TooEarly(u) ==
    /\ link[u] # None /\ sock[link[u]] = "checking" /\ toServer[u] # <<>>
    /\ LET m == Head(toServer[u]) IN
       toClient' = IF m.type = "ring"
                   THEN [toClient EXCEPT ![u] = Append(@, [type |-> "nack", id |-> m.id])] ELSE toClient
    /\ toServer' = [toServer EXCEPT ![u] = Tail(@)]
    /\ UNCHANGED <<vars, screen, timers, resets, link, placed, untimed, failed>>

\* No message is under way and no ring handler is waiting.
Quiet ==
    /\ InFlight = {}
    /\ \A u \in User : toClient[u] = <<>> /\ (toServer[u] = <<>> \/ link[u] = None)

Countdown == [u \in User |-> {[t EXCEPT !.left = IF @ = 0 THEN 0 ELSE @ - 1] : t \in timers[u]}]

\* Bound on time: a message and a reset take less than a tick, a timeout fires in its
\* tick.
Wait ==
    /\ Quiet /\ \A u \in User : resets[u] = 0 /\ \A t \in timers[u] : ~Expired(t)
    /\ Tick \/ (Up = Stale /\ (\E u \in User : timers[u] # {}) /\ UNCHANGED vars)
    /\ timers' = Countdown
    /\ UNCHANGED <<screen, resets, toServer, toClient, link, placed, untimed, failed>>

Move(u) == Receive(u) \/ Deliver(u) \/ Checked(u) \/ EndedOver(u) \/ \E t \in timers[u] : TimerFires(u, t)
Handle(i) == CheckRing(i) \/ PutRing(i)

CallsNext ==
    \/ \E u, v \in User, i \in CallId : Place(u, v, i)
    \/ \E u \in User : Press(u) \/ MicFails(u) \/ MediaLost(u) \/ Move(u)
    \/ \E u, v \in User : MediaUp(u, v)
    \/ \E i \in CallId : Handle(i)
    \/ \E u \in User : Cut(u) \/ Reconnect(u) \/ TooEarly(u)
    \/ \E s \in Socket : DropNoticed(s)
    \/ Wait

CallsSpec == CallsInit /\ [][CallsNext]_all

\* Messages arrive, handlers and timers run, a browser tries until it is connected
\* again; nobody has to press anything.
FairCalls ==
    /\ CallsSpec
    /\ \A u \in User : WF_all(Move(u)) /\ WF_all(Reconnect(u))
    /\ \A i \in CallId : WF_all(Handle(i))
    /\ WF_all(Wait)

-----------------------------------------------------------------------------

\* Whatever was pressed and whichever rings crossed, as long as nothing has failed and
\* no teardown's reset came so late that it took the next ring or call off a screen:
\* once the messages are through, the calls of the registry are those on exactly
\* two screens, the caller's and the callee's, and both show the same stage.
QuietScreensAgree ==
    failed = {} /\ Quiet =>
      /\ Up = {screen[u].id : u \in {v \in User : OnScreen(v)}}
      /\ \A i \in Up : {u \in User : OnScreen(u) /\ screen[u].id = i} = {call[i].caller, call[i].callee}
      /\ \A u, v \in User : OnScreen(u) /\ OnScreen(v) /\ screen[u].id = screen[v].id
           => screen[u].status = screen[v].status

\* No caller's microphone goes to a call that its callee did not accept, whatever
\* was given up, placed again and answered late.
TalkingWasAccepted ==
    \A u \in User : screen[u].mode = "out" /\ screen[u].status \in {"connecting", "active"}
                      => screen[u].id \in accepted

\* "a timed-out ring does not linger": the overlay's ring stops by itself, also when
\* media, microphones or connections fail, unless a ring was given up before its
\* acknowledgement, lost it together with the connection, or, its call having ended
\* with the connection, was followed by another ring.
RingingEnds ==
    \A u \in User : screen[u].status = "ringing"
                      ~> \/ screen[u].status # "ringing"
                         \/ "given_up" \in failed \/ screen[u].id \in untimed
=============================================================================
