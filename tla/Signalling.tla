----------------------------- MODULE Signalling -----------------------------
(***************************************************************************)
(* The pages of the users (ui/src/useRoom.ts) around the main loop of the  *)
(* server (module Rooms).  A page and the loop talk over a WebSocket, a    *)
(* queue each way; a page shares its screen with another over a peer       *)
(* connection per session, which the two ends set up with an offer and an  *)
(* answer that the loop relays.                                            *)
(*                                                                         *)
(* JavaScript runs one callback at a time, so one action is what the page  *)
(* does between two awaits.  Candidates (hostice, clientice) and the data  *)
(* of offers and answers are left out: an offer that is answered connects. *)
(* The write loop that drops messages is module Connections; here the      *)
(* queues are reliable until the connection breaks.  What one loop over a  *)
(* map wrote to a page is a set, as in Rooms, which the page may find in   *)
(* any order.                                                              *)
(***************************************************************************)
EXTENDS Rooms

CONSTANTS OwnerActions, \* what owners ask for in the member dialog
          MaxActs       \* bound: what the users and the network do in all

VARIABLES uplink,       \* page -> messages on their way to the loop
          downlink,     \* page -> sets of messages on their way to the page
          page,         \* page -> its state
          acts          \* how often a user or the network did something

loop  == <<connected, rooms, lookup, outbox, gauge, panicked>>
rest  == <<loop, acts>>
wires == <<uplink, downlink>>
pagesVars == <<loop, uplink, downlink, page, acts>>

(* Peer connections that were closed are left out of host and client: what *)
(* is called on them is rejected and changes nothing.                      *)
Page == [ws        : {"closed", "connecting", "open", "in"},
         room      : PartialFn(Clients, User),  \* state.users
         stream    : BOOLEAN,           \* stream.current
         shown     : BOOLEAN,           \* state.hostStream
         picking   : BOOLEAN,           \* share awaits getDisplayMedia
         offering  : SUBSET SessionIds, \* hostSession awaits createOffer
         answering : SUBSET SessionIds, \* a hostoffer is being answered
         host      : PartialFn(SessionIds, {"offered", "connected"}),
         client    : PartialFn(SessionIds, {"new", "answered"}),
         shows     : SUBSET SessionIds, \* state.clientStreams
         mute      : SUBSET SessionIds, \* awaiting with the send of a closed ws
         lost      : SUBSET SessionIds] \* observed: peers that the network took

NewPage == [ws |-> "closed", room |-> EmptyMap, stream |-> FALSE, shown |-> FALSE,
            picking |-> FALSE, offering |-> {}, answering |-> {}, host |-> EmptyMap,
            client |-> EmptyMap, shows |-> {}, mute |-> {}, lost |-> {}]

Msg(type)         == [type |-> type]
SessionMsg(t, s)  == [type |-> t, id |-> s]
TargetMsg(t, d)   == [type |-> t, target |-> d]

Up == {Msg(t) : t \in {"connected", "create", "join", "name", "share", "stopshare",
                       "enable_all", "disable_all", "dissolve", "gone"}}
        \cup {SessionMsg(t, s) : t \in {"hostoffer", "clientanswer"}, s \in SessionIds}
        \cup {TargetMsg(t, d) : t \in OwnerActions, d \in Clients}

PagesTypeOK ==
    /\ TypeOK
    /\ uplink \in [Clients -> Seq(Up)]
    /\ downlink \in [Clients -> Seq(SUBSET Message)]
    /\ page \in [Clients -> Page]
    /\ acts \in 0..MaxActs
-----------------------------------------------------------------------------
(* The server *)

(* What an authenticated or an anonymous page asks for (useConfig.ts).     *)
authModeToRoomMode(c) ==
    IF c \notin LoggedIn /\ AuthMode = "turn" THEN "stun" ELSE "turn"

ASSUME PagesAssumption ==
    /\ \A c \in Clients : authModeToRoomMode(c) \in Modes
    /\ OwnerActions \subseteq {"enable_all", "disable_all", "stop_share",
                               "toggle_share_permission", "kick", "ban"}
    /\ MaxActs \in Nat

Handle(c, m) ==
    \/ /\ m.type = "create"
       /\ \E id \in RoomIds, leave \in OwnerLeaveChoices :
             Create(c, id, authModeToRoomMode(c), leave, TRUE)
    \/ m.type = "join" /\ \E id \in RoomIds : Join(c, id)
    \/ m.type = "name" /\ Name(c)
    \/ m.type = "share" /\ StartShare(c)
    \/ m.type = "stopshare" /\ StopShare(c)
    \/ m.type = "hostoffer" /\ HostRelay(c, m.id)
    \/ m.type = "clientanswer" /\ ClientRelay(c, m.id)
    \/ m.type = "enable_all" /\ EnableAll(c)
    \/ m.type = "disable_all" /\ DisableAll(c)
    \/ m.type = "stop_share" /\ OwnerStopShare(c, m.target)
    \/ m.type = "toggle_share_permission" /\ ToggleSharePermission(c, m.target)
    \/ m.type = "kick" /\ Kick(c, m.target)
    \/ m.type = "ban" /\ Ban(c, m.target)
    \/ m.type = "dissolve" /\ Dissolve(c)
    \/ m.type = "gone" /\ Disconnected(c)

Ignore ==
    /\ outbox' = Quiet
    /\ UNCHANGED <<connected, rooms, lookup, gauge, panicked>>

(* Session ids that a page or a message still mentions; those of xid.New   *)
(* are never used again.                                                   *)
Mentioned ==
    LET on(msgs) == {m.id : m \in {n \in msgs : "id" \in DOMAIN n}}
        of(p)    == DOMAIN p.host \cup DOMAIN p.client \cup p.offering \cup p.answering
                       \cup p.shows \cup p.lost
    IN  UNION {on(Range(uplink[c])) \cup on(UNION Range(downlink[c])) \cup of(page[c]) :
                    c \in Clients}

(* What the loop writes reaches the pages that have not closed.            *)
Arrive ==
    downlink' = [d \in Clients |-> IF page[d].ws = "closed" THEN << >>
                                                            ELSE downlink[d] \o outbox'[d]]

(* The loop takes one message of page c.                                   *)
Serve(c) ==
    /\ uplink[c] # << >>
    /\ LET m == Head(uplink[c]) IN
       \/ m.type = "connected" /\ Connected(c)
       \/ m.type # "connected" /\ c \notin DOMAIN connected /\ Ignore
       \/ m.type # "connected" /\ c \in DOMAIN connected /\ Handle(c, m)
    /\ (UsedIds(rooms') \ UsedIds(rooms)) \cap Mentioned = {}
    /\ uplink' = [uplink EXCEPT ![c] = Tail(@)]
    /\ Arrive
    /\ UNCHANGED <<page, acts>>
-----------------------------------------------------------------------------
(* The connection of a page *)

IsOpen(c)    == page[c].ws \in {"open", "in"}
Act          == acts < MaxActs /\ acts' = acts + 1

(* send and conn.current.send: nothing leaves through a closed WebSocket,  *)
(* and one that is still connecting throws.                                *)
Send(c, msgs) == uplink' = IF IsOpen(c) THEN [uplink EXCEPT ![c] = @ \o msgs] ELSE uplink

(* onclose: the room is left, the screen and the peers stay.               *)
onclose(p) == [p EXCEPT !.ws = "closed", !.room = EmptyMap, !.shown = FALSE,
                        !.shows = {}, !.mute = p.offering \cup p.answering]

(* room(create): the server has let go of the connection before.           *)
Enter(c) ==
    /\ page[c].ws = "closed" /\ uplink[c] = << >> /\ downlink[c] = << >> /\ ~InUse(c)
    /\ Act
    /\ page' = [page EXCEPT ![c].ws = "connecting"]
    /\ UNCHANGED <<loop, wires>>

(* With a room in its URL the page joins it, or creates it if the URL says *)
(* so; the forms of the lobby ask for the same two.                        *)
Requests == {Msg("create"), Msg("join")}

(* The server has upgraded the connection and onopen sends the request.    *)
onopen(c) ==
    /\ page[c].ws = "connecting"
    /\ page' = [page EXCEPT ![c].ws = "open"]
    /\ \E request \in Requests :
          uplink' = [uplink EXCEPT ![c] = <<Msg("connected"), request>>]
    /\ UNCHANGED <<rest, downlink>>

(* Hang up: the loop hears of it after what was sent, or after part of it. *)
HangUp(c, sent) ==
    /\ uplink' = [uplink EXCEPT ![c] = IF IsOpen(c) THEN Append(sent, Msg("gone")) ELSE @]
    /\ downlink' = [downlink EXCEPT ![c] = << >>]

(* The connection breaks and both ends notice.                             *)
Break(c) ==
    /\ Act
    /\ page[c].ws # "closed"
    /\ \E n \in 0..Len(uplink[c]) : HangUp(c, SubSeq(uplink[c], 1, n))
    /\ page' = [page EXCEPT ![c] = onclose(@)]
    /\ UNCHANGED loop

(* The user closes or reloads the page: everything it had is gone.         *)
Reload(c) ==
    /\ Act
    /\ page[c] # NewPage
    /\ \E n \in 0..Len(uplink[c]) : HangUp(c, SubSeq(uplink[c], 1, n))
    /\ page' = [page EXCEPT ![c] = NewPage]
    /\ UNCHANGED loop
-----------------------------------------------------------------------------
(* What the user does *)

(* Faulty: the server is asked before there is a screen.                   *)
ShareAtOnce(c) ==
    /\ Act
    /\ page[c].ws = "in" /\ ~page[c].shown /\ ~page[c].picking
    /\ page' = [page EXCEPT ![c].picking = TRUE]
    /\ Send(c, <<Msg("share")>>)
    /\ UNCHANGED <<loop, downlink>>

(* The hotkey s starts to share whenever the page shows no screen of its   *)
(* own, also when the button is hidden.                                    *)
share(c) ==
    /\ Act
    /\ page[c].ws = "in" /\ ~page[c].shown /\ ~page[c].picking
    /\ page' = [page EXCEPT ![c].picking = TRUE]
    /\ UNCHANGED <<loop, wires>>

Captured(c) ==
    /\ page[c].picking
    /\ page' = [page EXCEPT ![c].picking = FALSE, ![c].stream = TRUE,
                            ![c].shown = page[c].ws = "in"]
    /\ Send(c, <<Msg("share")>>)
    /\ UNCHANGED <<rest, downlink>>

PickCancelled(c) ==
    /\ page[c].picking
    /\ page' = [page EXCEPT ![c].picking = FALSE]
    /\ UNCHANGED <<rest, wires>>

StopStream(p) == [p EXCEPT !.host = EmptyMap, !.stream = FALSE, !.shown = FALSE]

(* The button, the hotkey, or the end of the captured screen.              *)
stopShare(c) ==
    /\ page[c].stream /\ Act
    /\ page' = [page EXCEPT ![c] = StopStream(@)]
    /\ Send(c, <<Msg("stopshare")>>)
    /\ UNCHANGED <<loop, downlink>>

(* exitRoom, after what was said before; dissolveRoom ends in it.          *)
Quit(c, said) ==
    LET stop == IF page[c].stream THEN <<Msg("stopshare")>> ELSE << >> IN
    /\ page[c].ws = "in" /\ Act
    /\ page' = [page EXCEPT ![c] = onclose([StopStream(@) EXCEPT !.client = EmptyMap])]
    /\ HangUp(c, uplink[c] \o said \o stop)
    /\ UNCHANGED loop

IsOwner(c)      == c \in DOMAIN page[c].room /\ page[c].room[c].Owner
exitRoom(c)     == Quit(c, << >>)
dissolveRoom(c) == IsOwner(c) /\ Quit(c, <<Msg("dissolve")>>)

setName(c) ==
    /\ page[c].ws = "in" /\ Act
    /\ Send(c, <<Msg("name")>>)
    /\ UNCHANGED <<loop, downlink, page>>

(* The member dialog has buttons for everyone and for one other user, whom *)
(* it may stop if it takes it for the presenter.                           *)
ForEveryone == {Msg(a) : a \in OwnerActions \cap {"enable_all", "disable_all"}}
ForUser(c, d) ==
    {TargetMsg(a, d) : a \in {b \in OwnerActions \ {"enable_all", "disable_all"} :
                                b = "stop_share" => page[c].room[d].Streaming}}

ownerAction(c) ==
    /\ Act
    /\ page[c].ws = "in" /\ IsOwner(c)
    /\ \E m \in ForEveryone \cup UNION {ForUser(c, d) : d \in DOMAIN page[c].room \ {c}} :
          Send(c, <<m>>)
    /\ UNCHANGED <<loop, downlink, page>>
-----------------------------------------------------------------------------
(* Sessions: what goes on after an await, and peers that lose each other   *)

(* hostSession has its offer: only now is the peer put where stopShare and *)
(* endshare would find it.                                                 *)
OfferReady(c, s) ==
    LET p == page[c] IN
    /\ s \in p.offering
    /\ page' = [page EXCEPT ![c] = [p EXCEPT !.offering = @ \ {s}, !.mute = @ \ {s},
                                             !.host = Assign(@, s, "offered")]]
    /\ IF s \in p.mute THEN UNCHANGED uplink ELSE Send(c, <<SessionMsg("hostoffer", s)>>)
    /\ UNCHANGED <<rest, downlink>>

(* onTrack: the stream is shown in whatever room the page is in by now.    *)
onTrack(p, s) == IF p.ws = "in" THEN [p EXCEPT !.shows = @ \cup {s}] ELSE p

(* A hostoffer is answered, unless its peer was closed meanwhile.          *)
AnswerReady(c, s) ==
    LET p    == page[c]
        done == [p EXCEPT !.answering = @ \ {s}, !.mute = @ \ {s}]
    IN  /\ s \in p.answering
        /\ IF s \in DOMAIN p.client
             THEN /\ page' = [page EXCEPT ![c] = onTrack([done EXCEPT !.client[s] = "answered"], s)]
                  /\ IF s \in p.mute THEN UNCHANGED uplink
                                     ELSE Send(c, <<SessionMsg("clientanswer", s)>>)
             ELSE page' = [page EXCEPT ![c] = done] /\ UNCHANGED uplink
        /\ UNCHANGED <<rest, downlink>>

(* The other end of a peer connection is closed, or has never had and will *)
(* not get the answer: the page is bound to notice.                        *)
AnswerOnItsWay(s) ==
    \E d \in Clients : \/ SessionMsg("clientanswer", s) \in Range(uplink[d])
                       \/ ClientMsg(s) \in UNION Range(downlink[d])
HostLost(c, s) ==
    /\ s \in DOMAIN page[c].host /\ page[c].host[s] = "connected"
    /\ \A d \in Clients : s \notin DOMAIN page[d].client
ClientLost(c, s) ==
    /\ s \in DOMAIN page[c].client /\ page[c].client[s] = "answered"
    /\ \A d \in Clients : s \in DOMAIN page[d].host => page[d].host[s] = "offered"
    /\ ~AnswerOnItsWay(s)

(* Faulty: the stream of the other end is not taken off the page.          *)
EndStillShown(p, s) ==
    [p EXCEPT !.host = Without(@, {s}), !.client = Without(@, {s})]

(* endshare and the done of both kinds of session: no peer, no stream.     *)
End(p, s) ==
    [p EXCEPT !.host = Without(@, {s}), !.client = Without(@, {s}), !.shows = @ \ {s}]

(* onconnectionstatechange, for want of the other end ...                  *)
PeerLost(c, s) ==
    /\ HostLost(c, s) \/ ClientLost(c, s)
    /\ page' = [page EXCEPT ![c] = End(@, s)]
    /\ UNCHANGED <<rest, wires>>

(* ... or for want of the network, which may disconnect any peers that     *)
(* have an offer and an answer.  Neither end tells the server or tries     *)
(* again.                                                                  *)
Fail(p, s) == [End(p, s) EXCEPT !.lost = p.lost \cup {s}]
PeerFails(c, s) ==
    /\ Act
    /\ \/ s \in DOMAIN page[c].host /\ page[c].host[s] = "connected"
       \/ s \in DOMAIN page[c].client /\ page[c].client[s] = "answered"
    /\ page' = [page EXCEPT ![c] = Fail(@, s)]
    /\ UNCHANGED <<loop, wires>>
-----------------------------------------------------------------------------
(* onmessage *)

(* The page takes m, any of the messages that are first in its queue.      *)
Take(c, m) ==
    downlink' = [downlink EXCEPT ![c] =
                    IF Head(@) = {m} THEN Tail(@) ELSE <<Head(@) \ {m}>> \o Tail(@)]

(* The first message must be the room; any other makes the page hang up.   *)
FirstMessage(c) ==
    /\ page[c].ws = "open" /\ downlink[c] # << >>
    /\ \E m \in Head(downlink[c]) :
          \/ /\ m.type = "room"
             /\ page' = [page EXCEPT ![c].ws = "in", ![c].room = m.users]
             /\ Take(c, m)
             /\ UNCHANGED <<rest, uplink>>
          \/ /\ m.type \notin {"room", "closewriter"}
             /\ page' = [page EXCEPT ![c] = onclose(@)]
             /\ HangUp(c, uplink[c])
             /\ UNCHANGED rest

(* Faulty: users that left are kept; sessions are kept by peer; a session  *)
(* that comes during an await is passed over.                              *)
RoomMerged(p, m) == [p EXCEPT !.room = Merge(@, m.users)]
ByPeer(p, m) == IF p.stream THEN [p EXCEPT !.offering = @ \cup {m.peer}] ELSE p
OneAtATime(p, m) ==
    IF p.stream /\ p.offering = {} THEN [p EXCEPT !.offering = {m.id}] ELSE p

onRoom(p, m) == [p EXCEPT !.room = m.users]
onHostSession(p, m) ==
    IF p.stream THEN [p EXCEPT !.offering = @ \cup {m.id}] ELSE p
onClientSession(p, m) == [p EXCEPT !.client = Assign(@, m.id, "new")]
onHostOffer(p, m) == [p EXCEPT !.answering = @ \cup {m.id}]
onClientAnswer(p, m) ==
    IF m.id \in DOMAIN p.host THEN [p EXCEPT !.host[m.id] = "connected"] ELSE p

onmessage(c) ==
    LET become(p) == page' = [page EXCEPT ![c] = p] IN
    /\ page[c].ws = "in" /\ downlink[c] # << >>
    /\ \E m \in Head(downlink[c]) :
          /\ \/ m.type = "room" /\ become(onRoom(page[c], m))
             \/ m.type = "hostsession" /\ become(onHostSession(page[c], m))
             \/ m.type = "clientsession" /\ become(onClientSession(page[c], m))
             \/ m.type = "host" /\ become(onHostOffer(page[c], m))
             \/ m.type = "client" /\ become(onClientAnswer(page[c], m))
             \/ m.type = "endshare" /\ become(End(page[c], m.id))
          /\ Take(c, m)
    /\ UNCHANGED <<rest, uplink>>

(* The server has closed the connection; what the page sent after that is  *)
(* read by nobody.                                                         *)
Closed(c) ==
    /\ IsOpen(c) /\ downlink[c] # << >>
    /\ \E m \in Head(downlink[c]) : m.type = "closewriter"
    /\ page' = [page EXCEPT ![c] = onclose(@)]
    /\ downlink' = [downlink EXCEPT ![c] = << >>]
    /\ uplink' = [uplink EXCEPT ![c] = << >>]
    /\ UNCHANGED rest
-----------------------------------------------------------------------------
PagesInit ==
    /\ Init
    /\ uplink = [c \in Clients |-> << >>]
    /\ downlink = [c \in Clients |-> << >>]
    /\ page = [c \in Clients |-> NewPage]
    /\ acts = 0

PagesNext ==
    \E c \in Clients :
       \/ Serve(c)
       \/ Enter(c)
       \/ onopen(c)
       \/ Break(c)
       \/ Reload(c)
       \/ share(c)
       \/ Captured(c)
       \/ PickCancelled(c)
       \/ stopShare(c)
       \/ exitRoom(c)
       \/ dissolveRoom(c)
       \/ setName(c)
       \/ ownerAction(c)
       \/ \E s \in SessionIds : OfferReady(c, s)
       \/ \E s \in SessionIds : AnswerReady(c, s)
       \/ \E s \in SessionIds : PeerLost(c, s)
       \/ \E s \in SessionIds : PeerFails(c, s)
       \/ FirstMessage(c)
       \/ onmessage(c)
       \/ Closed(c)

PagesSpec == PagesInit /\ [][PagesNext]_pagesVars
-----------------------------------------------------------------------------
(* Nothing is on its way and nobody awaits anything.                       *)
Settled ==
    \A c \in Clients :
       /\ uplink[c] = << >> /\ downlink[c] = << >>
       /\ page[c].offering = {} /\ page[c].answering = {}
       /\ \A s \in SessionIds : ~HostLost(c, s) /\ ~ClientLost(c, s)

(* A page that waits for its first message never meets the branch that     *)
(* takes it for unknown: the room comes first, or the refusal.             *)
FirstIsRoom ==
    \A c \in Clients : page[c].ws = "open" /\ downlink[c] # << >> =>
        \A m \in Head(downlink[c]) : m.type \in {"room", "closewriter"}

(* A page that has read everything shows the users of the room as the      *)
(* server has them, and is in a room only if the server has it there.      *)
ViewIsCurrent ==
    \A c \in Clients :
        page[c].ws = "in" /\ downlink[c] = << >> =>
            /\ c \in DOMAIN connected /\ connected[c] \in DOMAIN rooms
            /\ page[c].room = rooms[connected[c]].users

(* Whom the server takes for the presenter of a room has a screen to show: *)
(* nobody keeps a room from sharing without presenting itself.  (The page  *)
(* forgets its screen and says so in the same callback.)                   *)
PresentersCapture ==
    \A c \in Clients : uplink[c] = << >> => \A r \in DOMAIN rooms :
        c \in Presenters(rooms[r].users) => page[c].stream

(* When all is said, each session of a room is a connection between two    *)
(* pages, and the viewer shows it, unless the network broke it: neither a  *)
(* session that opens while the presenter starts, stops or starts again    *)
(* nor one that opens while the viewer is joining stays dark.  One that    *)
(* the network broke does: the page that notices drops its peer and stream *)
(* (useRoom.ts:67-77, 139-149), and the server keeps the session.          *)
SessionsAreConnected ==
    Settled => \A r \in DOMAIN rooms : \A s \in DOMAIN rooms[r].sessions :
        LET ends == rooms[r].sessions[s] IN
        \/ /\ s \in DOMAIN page[ends.host].host /\ page[ends.host].host[s] = "connected"
           /\ s \in page[ends.client].shows
        \/ s \in page[ends.host].lost \cup page[ends.client].lost

(* Nobody watches a page that has stopped to share or has gone: a viewer   *)
(* shows only what some page still captures and sends.                     *)
StoppedIsNotWatched ==
    Settled => \A c \in Clients : \A s \in page[c].shows :
        \E d \in Clients : page[d].stream /\ s \in DOMAIN page[d].host

(* A stream is watched only while the server has a session for it:         *)
(* stop_share is commented "stops the share of the target user".           *)
StreamsEndWithSessions ==
    Settled => \A c \in Clients : page[c].shows \subseteq UsedIds(rooms)
=============================================================================
