------------------------------- MODULE Lobby -------------------------------
(***************************************************************************)
(* How one page gets into a room and out again: Router.tsx, RoomManage.tsx,*)
(* useRoomID.ts and the WebSockets of useRoom.ts.  Nothing in the lobby is *)
(* disabled while a WebSocket connects or closes, so a page may have       *)
(* several.  The server is what module Rooms says, one connection at a     *)
(* time: it lets a socket in or refuses, and may drop it later.            *)
(***************************************************************************)
EXTENDS Naturals, Sequences

CONSTANTS Sockets,      \* how many sockets a page has at once, at most
          RoomIds, Names,
          ReadBack,     \* room id -> the id its URL is read as
          None,         \* no room, no socket, no name
          MaxMail       \* bound: messages under way to a socket

ASSUME NoneAssumption == None \notin RoomIds \cup Names \cup Sockets
ASSUME RoomAssumption == {"absent", "dropped"} \cap RoomIds = {}

(* An id is written into the URL as it is.  The browser ends it at a "#"   *)
(* and escapes spaces and letters that are not ASCII; getFromURL ends it   *)
(* at "&" and "=" and unescapes nothing.  So an id may be read as another  *)
(* one or as none, and what was read from a URL is read as itself.         *)
ASSUME ReadBackAssumption ==
    /\ ReadBack \in [RoomIds -> RoomIds \cup {None}]
    /\ \A id \in RoomIds : ReadBack[id] # None => ReadBack[ReadBack[id]] = ReadBack[id]

VARIABLES config,       \* Router: "loading", "failed" or "loaded"
          roomID,       \* the state of useRoomID
          url,          \* the room that the URL names, as getFromURL reads it
          conn,         \* conn.current
          state,        \* the socket and the room shown; the lobby if none
          socket,       \* socket -> its ends at the page and at the server
          field,        \* the name in the form of the lobby
          stored,       \* the name in the settings
          raced,        \* the page asked while an older socket lived (observed)
          wentBack      \* the URL is from the history (observed)

address  == <<roomID, url>>
names    == <<field, stored>>
observed == <<raced, wentBack>>
vars     == <<config, roomID, url, conn, state, socket, field, stored, raced, wentBack>>

InLobby == [ws |-> None, id |-> None]

(* Ids that a URL can name, and what the URL of a room names.              *)
Readable == {id \in RoomIds : ReadBack[id] = id}
Link(id) == IF id = None THEN None ELSE ReadBack[id]

Closing == {"absent", "dropped"}    \* close reasons; the first names no room

Socket == [phase  : {"closed", "connecting", "open", "closing"},
           first  : BOOLEAN,
           asks   : RoomIds \cup {None},    \* the request until it is served
           name   : Names \cup {None},      \* the name it carries
           blank  : BOOLEAN,                \* the form was sent without a name
           member : RoomIds \cup {None},    \* the room it is in, at the server
           mail   : Seq(RoomIds \cup Closing)]  \* a room message has the room's id

Free == [phase |-> "closed", first |-> TRUE, asks |-> None, name |-> None,
         blank |-> FALSE, member |-> None, mail |-> << >>]

TypeOK ==
    /\ config \in {"loading", "failed", "loaded"}
    /\ roomID \in RoomIds \cup {None} /\ url \in Readable \cup {None} /\ conn \in Sockets \cup {None}
    /\ state \in [ws : Sockets, id : RoomIds] \cup {InLobby}
    /\ socket \in [Sockets -> Socket]
    /\ field \in Names \cup {None} /\ stored \in Names \cup {None}
    /\ raced \in BOOLEAN /\ wentBack \in BOOLEAN

Init ==
    /\ config = "loading"
    /\ url \in Readable \cup {None} /\ roomID = url
    /\ conn = None /\ state = InLobby /\ socket = [i \in Sockets |-> Free]
    /\ stored \in Names \cup {None} /\ field = stored
    /\ raced = FALSE /\ wentBack = FALSE
-----------------------------------------------------------------------------
(* Of the settings in the local storage, only the name matters here.       *)
loadSettings       == stored
saveSettings(name) == stored' = name

(* Faulty: the URL is left as it was.                                      *)
setStateOnly(id) == roomID' = id /\ UNCHANGED url

(* The URL follows: pushState, unless the id is the one of before.         *)
setRoomID(id) ==
    /\ roomID' = id
    /\ url' = IF id = roomID THEN url ELSE Link(id)

(* Entering: what room() does, and its callers                             *)

(* new WebSocket; a name of None is left out of the request.               *)
room(i, id, name, blank) ==
    /\ socket[i] = Free
    /\ socket' = [socket EXCEPT ![i] = [Free EXCEPT !.phase = "connecting", !.asks = id,
                                                    !.name = name, !.blank = blank]]
    /\ conn' = i
    /\ raced' = (\E j \in Sockets : socket[j].phase # "closed")

(* The configuration comes, and a room in the URL is entered at once.      *)
Load(i) ==
    /\ config = "loading"
    /\ config' = "loaded"
    /\ IF roomID = None THEN UNCHANGED <<socket, conn, raced>> ELSE room(i, roomID, None, FALSE)
    /\ UNCHANGED <<address, state, names, wentBack>>

(* Nobody catches a failure of fetch: the page stays blank.                *)
LoadFails ==
    /\ config = "loading"
    /\ config' = "failed"
    /\ UNCHANGED <<address, conn, state, socket, names, observed>>

LobbyShown == config = "loaded" /\ state = InLobby

(* The form: a name is kept, a room id is typed or suggested.              *)
submit(i, id) ==
    /\ LobbyShown
    /\ IF field = None THEN UNCHANGED stored ELSE saveSettings(field)
    /\ room(i, id, field, field = None)
    /\ UNCHANGED <<config, address, state, field, wentBack>>

(* A room of the list                                                      *)
handleJoinRoom(i, id) ==
    /\ LobbyShown
    /\ room(i, id, None, FALSE)
    /\ UNCHANGED <<config, address, state, names, wentBack>>

setUsername(name) ==
    /\ LobbyShown
    /\ field' = name
    /\ UNCHANGED <<config, address, conn, state, socket, stored, observed>>

(* A request without a name gets the one in the settings.                  *)
onopen(i) ==
    /\ socket[i].phase = "connecting"
    /\ socket' = [socket EXCEPT ![i].phase = "open",
                                ![i].name = IF @ = None THEN loadSettings ELSE @]
    /\ UNCHANGED <<config, address, conn, state, names, observed>>
-----------------------------------------------------------------------------
(* The server *)

Push(i, m) == [socket EXCEPT ![i].mail = IF socket[i].phase = "open" THEN Append(@, m) ELSE @]

Serve(i) ==
    /\ socket[i].asks # None /\ socket[i].phase # "connecting"
    /\ \E answer \in {socket[i].asks} \cup Closing :
          socket' = [Push(i, answer) EXCEPT ![i].member = IF answer \in Closing THEN None ELSE answer,
                                            ![i].asks = None, ![i].name = None, ![i].blank = FALSE]
    /\ UNCHANGED <<config, address, conn, state, names, observed>>

(* The room changes, and its users hear of it.                             *)
Inform(i) ==
    /\ socket[i].member # None /\ socket[i].phase = "open" /\ Len(socket[i].mail) < MaxMail
    /\ socket' = Push(i, socket[i].member)
    /\ UNCHANGED <<config, address, conn, state, names, observed>>

(* Kicked, dissolved, timed out; or the other end is found to be gone.     *)
Drop(i) ==
    /\ socket[i].member # None \/ (socket[i].asks # None /\ socket[i].phase \in {"closing", "closed"})
    /\ socket' = [Push(i, "dropped") EXCEPT ![i].member = None, ![i].asks = None,
                                            ![i].name = None, ![i].blank = FALSE]
    /\ UNCHANGED <<config, address, conn, state, names, observed>>
-----------------------------------------------------------------------------
(* The page *)

Shut(i) == [socket EXCEPT ![i].phase = "closed", ![i].first = TRUE, ![i].mail = << >>]

(* setState(false): the form is mounted anew.                              *)
ShowLobby ==
    /\ state' = InLobby
    /\ field' = IF state = InLobby THEN field ELSE loadSettings

(* Faulty: a socket that was closed leaves the page as it is.              *)
leavesPage(i, reason) ==
    /\ socket' = Shut(i)
    /\ IF reason = "absent" THEN setRoomID(None) ELSE UNCHANGED address
    /\ UNCHANGED <<state, field>>

(* Whichever socket it was, the page leaves the room it shows.             *)
onclose(i, reason) ==
    /\ socket' = Shut(i)
    /\ IF reason = "absent" THEN setRoomID(None) ELSE UNCHANGED address
    /\ ShowLobby

(* The first message opens the room; a later one updates what is shown,    *)
(* whichever socket that is of.                                            *)
onroom(i, id) ==
    /\ state' = IF socket[i].first THEN [ws |-> i, id |-> id]
                ELSE IF state = InLobby THEN state ELSE [state EXCEPT !.id = id]
    /\ IF socket[i].first THEN setRoomID(id) /\ wentBack' = FALSE
                          ELSE UNCHANGED <<address, wentBack>>

onmessage(i) ==
    /\ socket[i].phase = "open" /\ socket[i].mail # << >>
    /\ LET m == Head(socket[i].mail) IN
       IF m \in RoomIds
       THEN /\ socket' = [socket EXCEPT ![i].first = FALSE, ![i].mail = Tail(@)]
            /\ onroom(i, m)
            /\ UNCHANGED field
       ELSE onclose(i, m) /\ UNCHANGED wentBack
    /\ UNCHANGED <<config, conn, stored, raced>>

(* A connection fails or breaks, or the close of exitRoom is done, however *)
(* late; the server may learn of it before or after.                       *)
Close(i) ==
    /\ socket[i].phase # "closed"
    /\ IF socket[i].phase = "connecting"
       THEN socket' = [socket EXCEPT ![i] = Free] /\ ShowLobby /\ UNCHANGED address
       ELSE onclose(i, "dropped")
    /\ UNCHANGED <<config, conn, stored, observed>>

(* Faulty: the connection is left to itself.                               *)
keepsSocket ==
    /\ state # InLobby
    /\ UNCHANGED socket
    /\ conn' = None /\ setRoomID(None)
    /\ ShowLobby
    /\ UNCHANGED <<config, stored, observed>>

(* conn.current is closed, which need not be the socket shown.             *)
exitRoom ==
    /\ state # InLobby
    /\ socket' = IF conn = None \/ socket[conn].phase = "closed" THEN socket
                 ELSE [socket EXCEPT ![conn].phase = "closing", ![conn].mail = << >>,
                            ![conn].asks = IF socket[conn].phase = "connecting" THEN None ELSE @]
    /\ conn' = None /\ setRoomID(None)
    /\ ShowLobby
    /\ UNCHANGED <<config, stored, observed>>

(* The settings in a room                                                  *)
doSubmit(name) ==
    /\ state # InLobby
    /\ saveSettings(name)
    /\ UNCHANGED <<config, address, conn, state, socket, field, observed>>

(* Back or forward in the history of the browser: only the URL changes.    *)
popstate(id) ==
    /\ url' = id /\ roomID' = id /\ wentBack' = TRUE
    /\ UNCHANGED <<config, conn, state, socket, names, raced>>
-----------------------------------------------------------------------------
Next ==
    \/ LoadFails \/ exitRoom
    \/ \E i \in Sockets :
          \/ Load(i) \/ onopen(i) \/ onmessage(i) \/ Close(i)
          \/ Serve(i) \/ Inform(i) \/ Drop(i)
          \/ \E id \in RoomIds : submit(i, id) \/ handleJoinRoom(i, id)
    \/ \E name \in Names \cup {None} : setUsername(name) \/ doSubmit(name)
    \/ \E id \in Readable \cup {None} : popstate(id)

Spec == Init /\ [][Next]_vars
-----------------------------------------------------------------------------
(* Nothing is under way, and the server knows of every socket that closed. *)
Settled ==
    \A i \in Sockets :
        /\ socket[i].phase \in {"closed", "open"}
        /\ socket[i].asks = None /\ socket[i].mail = << >>
        /\ socket[i].phase = "closed" => socket[i].member = None

(* A page that shows a room is in a room: no order of closing, refusing    *)
(* and entering, over however many sockets, leaves a page on the stage of  *)
(* a room whose socket the server has given up.                            *)
ShownIsMember ==
    Settled /\ state # InLobby => socket[state.ws].phase = "open" /\ socket[state.ws].member # None

(* A page that never asked for a room while an older socket still lived is *)
(* exactly where it shows: it has no member in a room it does not show.    *)
PageAgrees ==
    Settled /\ ~raced =>
        \A i \in Sockets : socket[i].member = IF state.ws = i THEN state.id ELSE None

(* The link that the page copies leads to the room it shows, if its id     *)
(* survives the URL, unless the user went through the history or two       *)
(* sockets were in use at once.                                            *)
LinkLeadsHere ==
    state # InLobby /\ ~raced /\ ~wentBack /\ state.id \in Readable => url = state.id

(* What the page promises over the name of a room ("Copy Link"), whatever  *)
(* its id: the link it copies is the one of this room.                     *)
EveryLinkLeadsHere ==
    state # InLobby /\ ~raced /\ ~wentBack => url = state.id

(* What the form promises ("leave blank for auto-generation"): a request   *)
(* sent with a blank name asks the server for a random one.                *)
BlankIsRandom ==
    \A i \in Sockets : socket[i].phase = "open" /\ socket[i].blank => socket[i].name = None
=============================================================================
