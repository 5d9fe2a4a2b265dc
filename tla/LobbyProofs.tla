---------------------------- MODULE LobbyProofs ----------------------------
(***************************************************************************)
(* A page, its WebSockets and the rooms they are in, for any number of     *)
(* sockets and rooms and any number of messages under way.                 *)
(***************************************************************************)
EXTENDS Lobby, TLAPS

(* All that a socket still has to do with is the room r.                   *)
Of(s, r) ==
    /\ s.member \in {None, r}
    /\ \A j \in DOMAIN s.mail : s.mail[j] \in Closing \cup {r}

(* One socket: an open one that is in no room will close, and one that     *)
(* opened no room yet has a message under way.                             *)
Sound(s) ==
    /\ s \in Socket
    /\ s.asks # None => s.member = None /\ s.mail = << >>
    /\ s.phase = "connecting" => s.asks # None /\ s.first
    /\ s.phase = "open" /\ s.asks = None /\ s.first => s.mail # << >>
    /\ s.phase = "open" /\ s.asks = None /\ s.member = None =>
         s.mail # << >> /\ s.mail[Len(s.mail)] \in Closing
    /\ \E r \in RoomIds \cup {None} : Of(s, r)

SocketsInv == socket \in [Sockets -> Socket] /\ \A i \in Sockets : Sound(socket[i])

(* The room that is shown belongs to a socket in use.                      *)
ShownInv ==
    /\ conn \in Sockets \cup {None}
    /\ state # InLobby =>
         /\ state \in [ws : Sockets, id : RoomIds]
         /\ socket[state.ws].phase = "open" /\ ~socket[state.ws].first
         /\ socket[state.ws].asks = None

(* Unless the page raced with itself, it has one socket, and that is the   *)
(* current one and the one it shows.                                       *)
AloneInv ==
    ~raced =>
        /\ \A i, j \in Sockets : socket[i].phase # "closed" /\ socket[j].phase # "closed" => i = j
        /\ \A i \in Sockets :
             /\ socket[i].phase \in {"connecting", "open"} => conn = i
             /\ socket[i].phase = "open" /\ ~socket[i].first => state # InLobby /\ state.ws = i
        /\ state # InLobby => Of(socket[state.ws], state.id)

(* The room of useRoomID is the one that is shown.                         *)
HereInv == state # InLobby /\ ~raced /\ ~wentBack => roomID = state.id

LobbyInv == SocketsInv /\ ShownInv /\ AloneInv /\ HereInv

NamesInv ==
    /\ field \in Names \cup {None} /\ stored \in Names \cup {None}
    /\ roomID \in RoomIds \cup {None} /\ url = Link(roomID)
-----------------------------------------------------------------------------
(* One socket *)

(* What a message does to the end of a list of messages.                   *)
LEMMA MailAppended ==
    ASSUME NEW S, NEW q \in Seq(S), NEW m \in S
    PROVE  /\ Append(q, m) \in Seq(S) /\ Append(q, m) # << >>
           /\ Append(q, m)[Len(Append(q, m))] = m
           /\ \A j \in DOMAIN Append(q, m) : Append(q, m)[j] \in {q[k] : k \in DOMAIN q} \cup {m}
OBVIOUS

(* What is left of a list of messages after the first.                     *)
LEMMA MailRead ==
    ASSUME NEW S, NEW q \in Seq(S), q # << >>
    PROVE  /\ Head(q) = q[1] /\ 1 \in DOMAIN q /\ Head(q) \in S
           /\ Tail(q) \in Seq(S)
           /\ Tail(q) # << >> => Tail(q)[Len(Tail(q))] = q[Len(q)]
           /\ Tail(q) = << >> => q[Len(q)] = Head(q)
           /\ \A j \in DOMAIN Tail(q) : j + 1 \in DOMAIN q /\ Tail(q)[j] = q[j + 1]
OBVIOUS

(* A socket without messages has no room's.                                *)
LEMMA NoMail ==
    ASSUME NEW s, s.mail = << >>
    PROVE  s.mail \in Seq(RoomIds \cup Closing) /\ \A r : s.member \in {None, r} => Of(s, r)
BY DEF Of

(* A socket that is asked to join a room.                                  *)
LEMMA AskedSound ==
    ASSUME NEW id \in RoomIds, NEW name \in Names \cup {None}, NEW blank \in BOOLEAN
    PROVE  Sound([Free EXCEPT !.phase = "connecting", !.asks = id, !.name = name, !.blank = blank])
<1> DEFINE t == [Free EXCEPT !.phase = "connecting", !.asks = id, !.name = name, !.blank = blank]
<1>1. t.phase = "connecting" /\ t.asks = id /\ t.name = name /\ t.blank = blank /\ t.first = TRUE
      /\ t.member = None /\ t.mail = << >>
  BY DEF Free
<1>2. t \in Socket
  BY <1>1, NoMail DEF Free, Socket
<1>3. Of(t, None)
  BY <1>1, NoMail
<1>4. id # None
  BY NoneAssumption
<1> QED BY <1>1, <1>2, <1>3, <1>4 DEF Sound

(* A socket that is not in use.                                            *)
LEMMA FreeSound == Sound(Free)
BY NoneAssumption DEF Sound, Of, Free, Socket

(* A socket that opens.                                                    *)
LEMMA OpenedSound ==
    ASSUME NEW s, Sound(s), s.phase = "connecting", NEW name \in Names \cup {None}
    PROVE  Sound([s EXCEPT !.phase = "open", !.name = name])
BY DEF Sound, Of, Socket

(* A socket that closes.                                                   *)
LEMMA ShutSound ==
    ASSUME NEW s, Sound(s)
    PROVE  Sound([s EXCEPT !.phase = "closed", !.first = TRUE, !.mail = << >>])
<1> DEFINE t == [s EXCEPT !.phase = "closed", !.first = TRUE, !.mail = << >>]
<1>1. s \in Socket /\ s.member \in RoomIds \cup {None}
  BY DEF Sound, Socket
<1>2. t.phase = "closed" /\ t.mail = << >> /\ t.asks = s.asks /\ t.member = s.member
  BY <1>1 DEF Socket
<1>3. t \in Socket
  BY <1>1, <1>2, NoMail DEF Socket
<1>4. Of(t, s.member)
  BY <1>2 DEF Of
<1> QED BY <1>1, <1>2, <1>3, <1>4 DEF Sound

(* A socket that the page closes.                                          *)
LEMMA LeftSound ==
    ASSUME NEW s, Sound(s), NEW asks \in {s.asks, None}
    PROVE  Sound([s EXCEPT !.phase = "closing", !.mail = << >>, !.asks = asks])
<1> DEFINE t == [s EXCEPT !.phase = "closing", !.mail = << >>, !.asks = asks]
<1>1. s \in Socket /\ s.member \in RoomIds \cup {None} /\ asks \in RoomIds \cup {None}
  BY DEF Sound, Socket
<1>2. t.phase = "closing" /\ t.mail = << >> /\ t.asks = asks /\ t.member = s.member
  BY <1>1 DEF Socket
<1>3. t \in Socket
  BY <1>1, <1>2, NoMail DEF Socket
<1>4. Of(t, s.member)
  BY <1>2 DEF Of
<1>5. asks # None => s.member = None
  BY DEF Sound
<1> QED BY <1>1, <1>2, <1>3, <1>4, <1>5 DEF Sound

(* A message to a socket about its room, or that it is to close.           *)
LEMMA InformedSound ==
    ASSUME NEW s, Sound(s), s.member # None, s.phase = "open"
    PROVE  /\ Sound([s EXCEPT !.mail = Append(s.mail, s.member)])
           /\ \A r : Of(s, r) => Of([s EXCEPT !.mail = Append(s.mail, s.member)], r)
<1> DEFINE t == [s EXCEPT !.mail = Append(s.mail, s.member)]
<1>1. s.member \in RoomIds /\ s.mail \in Seq(RoomIds \cup Closing) /\ s \in Socket
  BY DEF Sound, Socket
<1>2. t \in Socket /\ t.mail = Append(s.mail, s.member) /\ t.mail # << >>
  BY <1>1, MailAppended DEF Socket
<1>3. \A j \in DOMAIN t.mail : t.mail[j] \in {s.mail[k] : k \in DOMAIN s.mail} \cup {s.member}
  BY <1>1, <1>2, MailAppended
<1>4. t.member = s.member /\ t.asks = s.asks /\ t.phase = s.phase /\ t.first = s.first
  BY <1>1 DEF Socket
<1>5. ASSUME NEW r, Of(s, r) PROVE Of(t, r)
  BY <1>3, <1>4, <1>5 DEF Of
<1>6. s.asks = None
  BY DEF Sound
<1>7. \E r \in RoomIds \cup {None} : Of(t, r)
  BY <1>5 DEF Sound
<1>8. Sound(t)
  BY <1>2, <1>4, <1>6, <1>7 DEF Sound
<1> QED BY <1>5, <1>8

(* A request that is served.                                               *)
LEMMA ServedSound ==
    ASSUME NEW s, Sound(s), s.asks # None, s.phase # "connecting",
           NEW answer \in {s.asks} \cup Closing, NEW mail,
           mail = (IF s.phase = "open" THEN Append(s.mail, answer) ELSE s.mail)
    PROVE  Sound([s EXCEPT !.mail = mail, !.member = IF answer \in Closing THEN None ELSE answer,
                           !.asks = None, !.name = None, !.blank = FALSE])
<1> DEFINE t == [s EXCEPT !.mail = mail, !.member = IF answer \in Closing THEN None ELSE answer,
                          !.asks = None, !.name = None, !.blank = FALSE]
<1>1. s \in Socket /\ s.asks \in RoomIds /\ s.mail = << >> /\ s.member = None /\ answer \in RoomIds \cup Closing
  BY DEF Sound, Socket
<1>2. mail \in Seq(RoomIds \cup Closing) /\ (s.phase = "open" => mail = <<answer>>)
      /\ (s.phase # "open" => mail = << >>)
  <2>1. s.mail \in Seq(RoomIds \cup Closing)
    BY <1>1 DEF Socket
  <2>2. Append(s.mail, answer) \in Seq(RoomIds \cup Closing) /\ Append(s.mail, answer) = <<answer>>
    BY <1>1
  <2> QED BY <1>1, <2>1, <2>2
<1>3. t \in Socket
  BY <1>1, <1>2, ZenonT(60) DEF Socket
<1>4. t.phase = s.phase /\ t.mail = mail /\ t.asks = None /\ t.first = s.first
      /\ t.member = (IF answer \in Closing THEN None ELSE answer)
  BY <1>1 DEF Socket
<1>5. Of(t, s.asks)
  BY <1>2, <1>4 DEF Of
<1> QED BY <1>1, <1>2, <1>3, <1>4, <1>5 DEF Sound

(* A member that is dropped, or a request nobody waits for.                *)
LEMMA DroppedSound ==
    ASSUME NEW s, Sound(s), NEW mail,
           mail = (IF s.phase = "open" THEN Append(s.mail, "dropped") ELSE s.mail),
           s.phase # "connecting"
    PROVE  LET t == [s EXCEPT !.mail = mail, !.member = None, !.asks = None,
                              !.name = None, !.blank = FALSE]
           IN  Sound(t) /\ \A r : Of(s, r) => Of(t, r)
<1> DEFINE t == [s EXCEPT !.mail = mail, !.member = None, !.asks = None,
                          !.name = None, !.blank = FALSE]
<1>1. s \in Socket /\ s.mail \in Seq(RoomIds \cup Closing) /\ "dropped" \in Closing
  BY DEF Sound, Socket, Closing
<1>2. mail \in Seq(RoomIds \cup Closing)
      /\ (s.phase = "open" => mail # << >> /\ mail[Len(mail)] = "dropped")
  BY <1>1, MailAppended
<1>3. \A j \in DOMAIN mail : mail[j] \in {s.mail[k] : k \in DOMAIN s.mail} \cup {"dropped"}
  BY <1>1, MailAppended
<1>4. t \in Socket
  BY <1>1, <1>2 DEF Socket
<1>5. t.phase = s.phase /\ t.mail = mail /\ t.asks = None /\ t.first = s.first /\ t.member = None
  BY <1>1 DEF Socket
<1>6. ASSUME NEW r, Of(s, r) PROVE Of(t, r)
  BY <1>1, <1>3, <1>5, <1>6 DEF Of
<1>7. \E r \in RoomIds \cup {None} : Of(t, r)
  BY <1>6 DEF Sound
<1>8. Sound(t)
  BY <1>1, <1>2, <1>4, <1>5, <1>7 DEF Sound
<1> QED BY <1>6, <1>8

(* A socket whose message about its room is read.                          *)
LEMMA ReadSound ==
    ASSUME NEW s, Sound(s), s.phase = "open", s.mail # << >>, Head(s.mail) \in RoomIds
    PROVE  LET t == [s EXCEPT !.first = FALSE, !.mail = Tail(s.mail)]
           IN  Sound(t) /\ Of(t, Head(s.mail)) /\ s.asks = None
               /\ \A r : Of(s, r) => Head(s.mail) = r
<1> DEFINE t == [s EXCEPT !.first = FALSE, !.mail = Tail(s.mail)]
           q == s.mail
<1>1. s \in Socket /\ q \in Seq(RoomIds \cup Closing) /\ q # << >> /\ Head(q) \in RoomIds
  BY DEF Sound, Socket
<1>2. Head(q) = q[1] /\ 1 \in DOMAIN q
  BY <1>1, MailRead
<1>3. \A j \in DOMAIN Tail(q) : j + 1 \in DOMAIN q /\ Tail(q)[j] = q[j + 1]
  BY <1>1, MailRead
<1>4. Head(q) \notin Closing
  BY <1>1, RoomAssumption DEF Closing
<1>5. ASSUME NEW r, Of(s, r) PROVE Head(q) = r
  BY <1>2, <1>4, <1>5 DEF Of
<1>6. Of(s, Head(q))
  BY <1>5 DEF Sound
<1>7. t \in Socket /\ Tail(q) \in Seq(RoomIds \cup Closing)
  BY <1>1, MailRead DEF Socket
<1>8. t.phase = s.phase /\ t.mail = Tail(q) /\ t.asks = s.asks /\ t.first = FALSE /\ t.member = s.member
  BY <1>1 DEF Socket
<1>9. Of(t, Head(q))
  BY <1>3, <1>6, <1>8 DEF Of
<1>10. s.asks = None
  BY <1>1 DEF Sound
<1>11. ASSUME s.member = None PROVE Tail(q) # << >> /\ Tail(q)[Len(Tail(q))] \in Closing
  <2>1. q[Len(q)] \in Closing
    BY <1>10, <1>11 DEF Sound
  <2> QED BY <1>1, <1>4, <2>1, MailRead
<1>12. Sound(t)
  BY <1>1, <1>7, <1>8, <1>9, <1>10, <1>11 DEF Sound
<1> QED BY <1>5, <1>9, <1>10, <1>12
-----------------------------------------------------------------------------
(* The sockets of a page *)

(* A step changes one socket and leaves the others as they are.            *)
LEMMA OneSocket ==
    ASSUME SocketsInv, NEW i \in Sockets, NEW s, Sound(s), socket' = [socket EXCEPT ![i] = s]
    PROVE  SocketsInv' /\ socket'[i] = s /\ \A j \in Sockets : j # i => socket'[j] = socket[j]
BY DEF SocketsInv, Sound

(* Every socket that was asked for is in use.                              *)
LEMMA RoomKeeps ==
    ASSUME LobbyInv, NEW i \in Sockets, NEW id \in RoomIds, NEW name \in Names \cup {None},
           NEW blank \in BOOLEAN, room(i, id, name, blank), UNCHANGED <<roomID, state, wentBack>>
    PROVE  LobbyInv'
<1> DEFINE s == [Free EXCEPT !.phase = "connecting", !.asks = id, !.name = name, !.blank = blank]
<1>1. Sound(s) /\ s.phase = "connecting"
  BY AskedSound DEF Free
<1>2. socket' = [socket EXCEPT ![i] = s] /\ socket[i].phase = "closed" /\ conn' = i
      /\ raced' = (\E j \in Sockets : socket[j].phase # "closed")
  BY DEF room, Free
<1> HIDE DEF s
<1>3. SocketsInv' /\ socket'[i] = s /\ \A j \in Sockets : j # i => socket'[j] = socket[j]
  BY <1>1, <1>2, OneSocket DEF LobbyInv
<1>4. ShownInv'
  BY <1>2, <1>3 DEF LobbyInv, ShownInv
<1>5. ~raced' => state = InLobby
  BY <1>2 DEF LobbyInv, ShownInv
<1>6. AloneInv'
  BY <1>1, <1>2, <1>3, <1>5 DEF AloneInv
<1>7. HereInv'
  BY <1>5 DEF HereInv
<1> QED BY <1>3, <1>4, <1>6, <1>7 DEF LobbyInv

(* A step of the server, or of a socket that opens, changes nothing that   *)
(* the page knows of its sockets.                                          *)
LEMMA BehindThePage ==
    ASSUME LobbyInv, NEW i \in Sockets, NEW s, Sound(s), socket' = [socket EXCEPT ![i] = s],
           s.first = socket[i].first,
           \/ s.phase = socket[i].phase
           \/ socket[i].phase = "connecting" /\ s.phase = "open" /\ s.first,
           socket[i].asks = None => s.asks = None /\ \A r : Of(socket[i], r) => Of(s, r),
           UNCHANGED <<conn, state, roomID, observed>>
    PROVE  LobbyInv'
<1>1. SocketsInv' /\ socket'[i] = s /\ \A j \in Sockets : j # i => socket'[j] = socket[j]
  BY OneSocket DEF LobbyInv
<1>2. ShownInv'
  BY <1>1 DEF LobbyInv, ShownInv, observed
<1>3. AloneInv'
  <2> SUFFICES ASSUME ~raced PROVE AloneInv!2'
    BY DEF AloneInv, observed
  <2>1. AloneInv!2
    BY DEF LobbyInv, AloneInv
  <2>2. \A j \in Sockets :
          /\ socket'[j].phase # "closed" => socket[j].phase # "closed"
          /\ socket'[j].phase \in {"connecting", "open"} => socket[j].phase \in {"connecting", "open"}
          /\ socket'[j].phase = "open" /\ ~socket'[j].first => socket[j].phase = "open" /\ ~socket[j].first
    BY <1>1
  <2>3. state # InLobby => Of(socket'[state.ws], state.id)
    BY <1>1, <2>1 DEF LobbyInv, ShownInv
  <2> QED BY <2>1, <2>2, <2>3
<1>4. HereInv'
  BY DEF LobbyInv, HereInv, observed
<1> QED BY <1>1, <1>2, <1>3, <1>4 DEF LobbyInv

(* A socket closes, and the page shows the lobby.                          *)
LEMMA ClosingKeeps ==
    ASSUME LobbyInv, NEW i \in Sockets, NEW s, Sound(s), socket' = [socket EXCEPT ![i] = s],
           s.phase \in {"closed", "closing"}, socket[i].phase # "closed",
           conn' \in Sockets \cup {None}, ~raced => conn' = conn \/ conn = i,
           state' = InLobby, UNCHANGED raced
    PROVE  LobbyInv'
<1>1. SocketsInv' /\ socket'[i] = s /\ \A j \in Sockets : j # i => socket'[j] = socket[j]
  BY OneSocket DEF LobbyInv
<1>2. ShownInv' /\ HereInv'
  BY DEF LobbyInv, ShownInv, HereInv
<1>3. AloneInv'
  BY <1>1 DEF LobbyInv, AloneInv
<1> QED BY <1>1, <1>2, <1>3 DEF LobbyInv

(* The page reads a message about a room.                                  *)
LEMMA ReadingKeeps ==
    ASSUME LobbyInv, NEW i \in Sockets, onmessage(i), Head(socket[i].mail) \in RoomIds
    PROVE  LobbyInv'
<1> DEFINE s  == socket[i]
           t  == [s EXCEPT !.first = FALSE, !.mail = Tail(s.mail)]
           id == Head(s.mail)
<1>1. Sound(s) /\ s.phase = "open" /\ s.mail # << >> /\ id \in RoomIds
  BY DEF LobbyInv, SocketsInv, onmessage
<1>2. Sound(t) /\ Of(t, id) /\ s.asks = None /\ \A r : Of(s, r) => id = r
  BY <1>1, ReadSound
<1>3. t.phase = "open" /\ t.first = FALSE /\ t.asks = None
  BY <1>1, <1>2 DEF Sound, Socket
<1>4. socket' = [socket EXCEPT ![i] = t] /\ onroom(i, id) /\ UNCHANGED <<conn, raced>>
  <2>1. socket' = [socket EXCEPT ![i].first = FALSE, ![i].mail = Tail(@)]
    BY DEF onmessage
  <2> QED BY <2>1 DEF onmessage, LobbyInv, SocketsInv
<1>5. state' = (IF s.first THEN [ws |-> i, id |-> id]
                ELSE IF state = InLobby THEN state ELSE [state EXCEPT !.id = id])
      /\ (s.first => roomID' = id)
      /\ (~s.first => UNCHANGED <<roomID, wentBack>>)
  BY <1>4 DEF onroom, setRoomID, address
<1> HIDE DEF s, t, id
<1>6. s = socket[i]
  BY DEF s
<1>7. SocketsInv' /\ socket'[i] = t /\ \A j \in Sockets : j # i => socket'[j] = socket[j]
  BY <1>2, <1>4, OneSocket DEF LobbyInv
<1>8. CASE s.first
  <2>1. state' = [ws |-> i, id |-> id] /\ roomID' = id /\ state' # InLobby
    BY <1>5, <1>8, NoneAssumption DEF InLobby
  <2>2. ShownInv'
    BY <2>1, <1>1, <1>3, <1>4, <1>7 DEF LobbyInv, ShownInv
  <2>3. AloneInv'
    <3> SUFFICES ASSUME ~raced PROVE AloneInv!2'
      BY <1>4 DEF AloneInv
    <3>1. AloneInv!2
      BY DEF LobbyInv, AloneInv
    <3> QED BY <3>1, <2>1, <1>1, <1>2, <1>3, <1>4, <1>6, <1>7
  <2> QED BY <2>1, <2>2, <2>3, <1>7 DEF LobbyInv, HereInv
<1>9. CASE ~s.first
  <2>1. UNCHANGED <<roomID, wentBack>> /\ (state = InLobby => state' = state)
        /\ (state # InLobby => state' = [state EXCEPT !.id = id])
    BY <1>5, <1>9
  <2>2. state # InLobby => state' = [ws |-> state.ws, id |-> id] /\ state' # InLobby /\ state.ws \in Sockets
    BY <2>1, NoneAssumption DEF LobbyInv, ShownInv, InLobby
  <2>3. ShownInv'
    BY <2>1, <2>2, <1>1, <1>3, <1>4, <1>7 DEF LobbyInv, ShownInv
  <2>4. ~raced => state # InLobby /\ state.ws = i /\ id = state.id
    <3> SUFFICES ASSUME ~raced PROVE state # InLobby /\ state.ws = i /\ id = state.id
      OBVIOUS
    <3>1. state # InLobby /\ state.ws = i
      BY <1>1, <1>6, <1>9 DEF LobbyInv, AloneInv
    <3>2. Of(s, state.id)
      BY <3>1, <1>6 DEF LobbyInv, AloneInv
    <3> QED BY <3>1, <3>2, <1>2
  <2>5. ~raced => state' = state
    BY <2>2, <2>4 DEF LobbyInv, ShownInv
  <2>6. AloneInv'
    <3> SUFFICES ASSUME ~raced PROVE AloneInv!2'
      BY <1>4 DEF AloneInv
    <3>1. AloneInv!2
      BY DEF LobbyInv, AloneInv
    <3> QED BY <3>1, <2>4, <2>5, <1>1, <1>2, <1>3, <1>4, <1>6, <1>7
  <2>7. HereInv'
    BY <2>1, <2>5, <1>4 DEF LobbyInv, HereInv
  <2> QED BY <2>3, <2>6, <2>7, <1>7 DEF LobbyInv
<1> QED BY <1>8, <1>9

(* A socket closes, because the server says so or by itself.               *)
LEMMA CloseKeeps ==
    ASSUME LobbyInv, NEW i \in Sockets,
           Close(i) \/ (onmessage(i) /\ Head(socket[i].mail) \notin RoomIds)
    PROVE  LobbyInv'
<1> DEFINE s == [socket[i] EXCEPT !.phase = "closed", !.first = TRUE, !.mail = << >>]
<1>0. Sound(socket[i]) /\ socket[i] \in Socket
  BY DEF LobbyInv, SocketsInv, Sound
<1>1. Sound(s) /\ s.phase = "closed"
  BY <1>0, ShutSound DEF Socket
<1>2. Sound(Free) /\ Free.phase = "closed"
  BY FreeSound DEF Free
<1>3. Shut(i) = [socket EXCEPT ![i] = s]
  BY DEF Shut, LobbyInv, SocketsInv
<1>4. state' = InLobby /\ socket[i].phase # "closed" /\ UNCHANGED <<conn, raced>>
  BY DEF Close, onmessage, onclose, ShowLobby, observed
<1>5. socket' = [socket EXCEPT ![i] = s] \/ socket' = [socket EXCEPT ![i] = Free]
  BY <1>3 DEF Close, onmessage, onclose
<1>6. conn' \in Sockets \cup {None} /\ (~raced => conn' = conn \/ conn = i)
      /\ state' = InLobby /\ UNCHANGED raced
  BY <1>4 DEF LobbyInv, ShownInv
<1> HIDE DEF s
<1>7. CASE socket' = [socket EXCEPT ![i] = s]
  BY <1>1, <1>4, <1>6, <1>7, ClosingKeeps
<1>8. CASE socket' = [socket EXCEPT ![i] = Free]
  BY <1>2, <1>4, <1>6, <1>8, ClosingKeeps
<1> QED BY <1>5, <1>7, <1>8

(* The user leaves the room.                                               *)
LEMMA ExitKeeps ==
    ASSUME LobbyInv, exitRoom
    PROVE  LobbyInv'
<1>1. state # InLobby /\ state' = InLobby /\ conn' = None /\ UNCHANGED raced
  BY DEF exitRoom, ShowLobby, observed
<1>2. ~raced => conn = state.ws /\ conn \in Sockets /\ socket[conn].phase = "open" /\ conn # None
  BY <1>1, NoneAssumption DEF LobbyInv, ShownInv, AloneInv
<1>3. CASE conn = None \/ socket[conn].phase = "closed"
  <2>1. UNCHANGED socket /\ raced
    BY <1>2, <1>3 DEF exitRoom
  <2> QED BY <1>1, <2>1 DEF LobbyInv, SocketsInv, ShownInv, AloneInv, HereInv
<1>4. CASE ~(conn = None \/ socket[conn].phase = "closed")
  <2> DEFINE asks == IF socket[conn].phase = "connecting" THEN None ELSE socket[conn].asks
             s == [socket[conn] EXCEPT !.phase = "closing", !.mail = << >>, !.asks = asks]
  <2>1. conn \in Sockets /\ Sound(socket[conn])
    BY <1>4 DEF LobbyInv, ShownInv, SocketsInv
  <2>2. Sound(s) /\ s.phase = "closing"
    BY <2>1, LeftSound, ZenonT(60) DEF Sound, Socket
  <2>3. socket' = [socket EXCEPT ![conn] = s]
    BY <1>4, <2>1 DEF exitRoom, LobbyInv, SocketsInv
  <2> HIDE DEF s
  <2> QED BY <1>1, <1>4, <2>1, <2>2, <2>3, ClosingKeeps
<1> QED BY <1>3, <1>4

(* The server answers, informs and drops.                                  *)
LEMMA ServerKeeps ==
    ASSUME LobbyInv, NamesInv, NEW i \in Sockets, Serve(i) \/ Inform(i) \/ Drop(i) \/ onopen(i)
    PROVE  LobbyInv'
<1> DEFINE s == socket[i]
<1>1. Sound(s) /\ s \in Socket /\ socket \in [Sockets -> Socket]
  BY DEF LobbyInv, SocketsInv, Sound
<1>2. UNCHANGED <<conn, state, roomID, observed>>
  BY DEF Serve, Inform, Drop, onopen, address
<1>3. CASE Serve(i)
  <2>1. PICK answer \in {s.asks} \cup Closing :
          socket' = [Push(i, answer) EXCEPT ![i].member = IF answer \in Closing THEN None ELSE answer,
                                            ![i].asks = None, ![i].name = None, ![i].blank = FALSE]
    BY <1>3 DEF Serve
  <2> DEFINE mail == IF s.phase = "open" THEN Append(s.mail, answer) ELSE s.mail
             t == [s EXCEPT !.mail = mail, !.member = IF answer \in Closing THEN None ELSE answer,
                            !.asks = None, !.name = None, !.blank = FALSE]
  <2>2. s.asks # None /\ s.phase # "connecting"
    BY <1>3 DEF Serve
  <2>3. Sound(t) /\ t.first = s.first /\ t.phase = s.phase
    BY <1>1, <2>2, ServedSound DEF Socket
  <2>4. socket' = [socket EXCEPT ![i] = t]
    BY <1>1, <2>1 DEF Push
  <2> HIDE DEF t
  <2> QED BY <1>2, <2>2, <2>3, <2>4, BehindThePage
<1>4. CASE Inform(i)
  <2> DEFINE t == [s EXCEPT !.mail = Append(s.mail, s.member)]
  <2>1. s.member # None /\ s.phase = "open"
    BY <1>4 DEF Inform
  <2>2. Sound(t) /\ t.first = s.first /\ t.phase = s.phase /\ t.asks = s.asks
        /\ \A r : Of(s, r) => Of(t, r)
    BY <1>1, <2>1, InformedSound DEF Socket
  <2>3. socket' = [socket EXCEPT ![i] = t]
    BY <1>1, <1>4, <2>1 DEF Inform, Push
  <2> HIDE DEF t
  <2> QED BY <1>2, <2>2, <2>3, BehindThePage
<1>5. CASE Drop(i)
  <2> DEFINE mail == IF s.phase = "open" THEN Append(s.mail, "dropped") ELSE s.mail
             t == [s EXCEPT !.mail = mail, !.member = None, !.asks = None, !.name = None, !.blank = FALSE]
  <2>1. s.phase # "connecting"
    BY <1>1, <1>5 DEF Drop, Sound
  <2>2. Sound(t) /\ \A r : Of(s, r) => Of(t, r)
    BY <1>1, <2>1, DroppedSound
  <2>3. t.first = s.first /\ t.phase = s.phase /\ t.asks = None
    BY <1>1 DEF Socket
  <2>4. socket' = [socket EXCEPT ![i] = t]
    BY <1>1, <1>5 DEF Drop, Push
  <2> HIDE DEF t
  <2> QED BY <1>2, <2>2, <2>3, <2>4, BehindThePage
<1>6. CASE onopen(i)
  <2> DEFINE name == IF s.name = None THEN loadSettings ELSE s.name
             t == [s EXCEPT !.phase = "open", !.name = name]
  <2>1. s.phase = "connecting" /\ s.asks # None
    BY <1>1, <1>6 DEF onopen, Sound
  <2>2. name \in Names \cup {None}
    BY <1>1 DEF Socket, NamesInv, loadSettings
  <2>3. Sound(t)
    BY <1>1, <2>1, <2>2, OpenedSound
  <2>4. t.first = s.first /\ t.first /\ t.phase = "open" /\ t.asks = s.asks
    BY <1>1, <2>1 DEF Socket, Sound
  <2>5. socket' = [socket EXCEPT ![i] = t]
    BY <1>1, <1>6 DEF onopen
  <2> HIDE DEF t
  <2> QED BY <1>2, <2>1, <2>3, <2>4, <2>5, BehindThePage
<1> QED BY <1>3, <1>4, <1>5, <1>6

(* Names are names, and the URL names a room or none.                      *)
LEMMA NextNames == NamesInv /\ [Next]_vars => NamesInv'
<1> SUFFICES ASSUME NamesInv, [Next]_vars PROVE NamesInv'
  OBVIOUS
<1> USE DEF NamesInv, names, address, loadSettings, saveSettings, setRoomID, Link
<1>1. CASE LoadFails \/ exitRoom
  BY <1>1 DEF LoadFails, exitRoom, ShowLobby
<1>2. ASSUME NEW i \in Sockets, Load(i) \/ onopen(i) \/ Serve(i) \/ Inform(i) \/ Drop(i)
      PROVE  NamesInv'
  BY <1>2 DEF Load, onopen, Serve, Inform, Drop
<1>3. ASSUME NEW i \in Sockets, onmessage(i) \/ Close(i) PROVE NamesInv'
  BY <1>3 DEF onmessage, Close, onclose, onroom, ShowLobby
<1>4. ASSUME NEW i \in Sockets, NEW id \in RoomIds, submit(i, id) \/ handleJoinRoom(i, id)
      PROVE  NamesInv'
  BY <1>4 DEF submit, handleJoinRoom
<1>5. ASSUME NEW name \in Names \cup {None}, setUsername(name) \/ doSubmit(name)
      PROVE  NamesInv'
  BY <1>5 DEF setUsername, doSubmit
<1>6. CASE \E id \in Readable \cup {None} : popstate(id)
  BY <1>6, ReadBackAssumption, NoneAssumption DEF popstate, Readable
<1>7. CASE UNCHANGED vars
  BY <1>7 DEF vars
<1> QED BY <1>1, <1>2, <1>3, <1>4, <1>5, <1>6, <1>7 DEF Next

(* A step that touches neither the sockets nor the room shown.             *)
LEMMA ElsewhereKeeps ==
    ASSUME LobbyInv, UNCHANGED <<conn, state, socket, raced>>,
           wentBack' \/ UNCHANGED <<roomID, wentBack>>
    PROVE  LobbyInv'
<1>1. SocketsInv' /\ ShownInv' /\ AloneInv'
  BY DEF LobbyInv, SocketsInv, ShownInv, AloneInv
<1>2. HereInv'
  BY DEF LobbyInv, HereInv
<1> QED BY <1>1, <1>2 DEF LobbyInv

(* The invariants hold in the beginning.                                   *)
LEMMA InitLobby == Init => LobbyInv /\ NamesInv
<1> SUFFICES ASSUME Init PROVE LobbyInv /\ NamesInv
  OBVIOUS
<1>1. Free \in Socket /\ Free.phase = "closed"
  BY FreeSound DEF Sound, Free
<1>2. socket \in [Sockets -> Socket] /\ \A i \in Sockets : socket[i] = Free
  BY <1>1 DEF Init
<1>3. SocketsInv
  BY <1>2, FreeSound DEF SocketsInv
<1>4. ShownInv /\ AloneInv /\ HereInv
  BY <1>1, <1>2 DEF Init, ShownInv, AloneInv, HereInv
<1>5. NamesInv
  BY DEF Init, NamesInv, Link, Readable
<1> QED BY <1>3, <1>4, <1>5 DEF LobbyInv

(* Every step keeps the invariant.                                         *)
LEMMA NextLobby == LobbyInv /\ NamesInv /\ [Next]_vars => LobbyInv'
<1> SUFFICES ASSUME LobbyInv, NamesInv, [Next]_vars PROVE LobbyInv'
  OBVIOUS
<1>1. CASE LoadFails
  BY <1>1, ElsewhereKeeps DEF LoadFails, observed, address
<1>2. CASE exitRoom
  BY <1>2, ExitKeeps
<1>3. ASSUME NEW i \in Sockets, Load(i) PROVE LobbyInv'
  <2>1. CASE roomID = None
    BY <1>3, <2>1, ElsewhereKeeps DEF Load, address
  <2>2. CASE roomID # None
    <3>1. room(i, roomID, None, FALSE) /\ UNCHANGED <<roomID, state, wentBack>>
      BY <1>3, <2>2 DEF Load, address
    <3>2. roomID \in RoomIds
      BY <2>2 DEF NamesInv
    <3> QED BY <3>1, <3>2, RoomKeeps
  <2> QED BY <2>1, <2>2
<1>4. ASSUME NEW i \in Sockets, onopen(i) \/ Serve(i) \/ Inform(i) \/ Drop(i) PROVE LobbyInv'
  BY <1>4, ServerKeeps
<1>5. ASSUME NEW i \in Sockets, onmessage(i) \/ Close(i) PROVE LobbyInv'
  <2>1. CASE onmessage(i) /\ Head(socket[i].mail) \in RoomIds
    BY <2>1, ReadingKeeps
  <2>2. CASE Close(i) \/ (onmessage(i) /\ Head(socket[i].mail) \notin RoomIds)
    BY <2>2, CloseKeeps
  <2> QED BY <1>5, <2>1, <2>2
<1>6. ASSUME NEW i \in Sockets, NEW id \in RoomIds, submit(i, id) \/ handleJoinRoom(i, id)
      PROVE  LobbyInv'
  <2>1. PICK name \in Names \cup {None}, blank \in BOOLEAN : room(i, id, name, blank)
    BY <1>6 DEF submit, handleJoinRoom, NamesInv
  <2>2. UNCHANGED <<roomID, state, wentBack>>
    BY <1>6 DEF submit, handleJoinRoom, address
  <2> QED BY <2>1, <2>2, RoomKeeps
<1>7. ASSUME NEW name \in Names \cup {None}, setUsername(name) \/ doSubmit(name) PROVE LobbyInv'
  BY <1>7, ElsewhereKeeps DEF setUsername, doSubmit, observed, address
<1>8. CASE \E id \in Readable \cup {None} : popstate(id)
  BY <1>8, ElsewhereKeeps DEF popstate
<1>9. CASE UNCHANGED vars
  BY <1>9, ElsewhereKeeps DEF vars
<1> QED BY <1>1, <1>2, <1>3, <1>4, <1>5, <1>6, <1>7, <1>8, <1>9 DEF Next

(* The invariants hold in every state.                                     *)
LEMMA AlwaysLobby == Spec => [](LobbyInv /\ NamesInv)
BY InitLobby, NextLobby, NextNames, PTL DEF Spec

(* A page that shows a room has a socket in a room, whatever closed,       *)
(* opened and was refused in the meantime, for any number of sockets.      *)
THEOREM ShownIsMemberAlways == Spec => []ShownIsMember
<1>1. LobbyInv => ShownIsMember
  BY DEF LobbyInv, ShownIsMember, Settled, SocketsInv, ShownInv, Sound
<1> QED BY <1>1, AlwaysLobby, PTL

(* A page that never raced with itself is in the room it shows and in no   *)
(* other.                                                                  *)
THEOREM PageAgreesAlways == Spec => []PageAgrees
<1>1. ASSUME LobbyInv, Settled, ~raced, NEW i \in Sockets
      PROVE  socket[i].member = IF state.ws = i THEN state.id ELSE None
  <2>1. Sound(socket[i]) /\ socket[i].asks = None /\ socket[i].mail = << >>
        /\ (socket[i].phase = "closed" => socket[i].member = None)
    BY <1>1 DEF LobbyInv, SocketsInv, Settled
  <2>2. socket[i].phase = "open" => ~socket[i].first /\ socket[i].member # None
    BY <2>1 DEF Sound
  <2>3. CASE socket[i].phase = "open"
    <3>1. state # InLobby /\ state.ws = i
      BY <1>1, <2>2, <2>3 DEF LobbyInv, AloneInv
    <3>2. Of(socket[i], state.id)
      BY <1>1, <3>1 DEF LobbyInv, AloneInv
    <3> QED BY <2>2, <2>3, <3>1, <3>2 DEF Of
  <2>4. CASE socket[i].phase = "closed"
    <3>1. state.ws # i
      BY <1>1, <2>4, NoneAssumption DEF LobbyInv, ShownInv, InLobby
    <3> QED BY <2>1, <2>4, <3>1
  <2> QED BY <1>1, <2>3, <2>4 DEF Settled
<1>2. LobbyInv => PageAgrees
  BY <1>1 DEF PageAgrees
<1> QED BY <1>2, AlwaysLobby, PTL

(* The link a page copies leads to the room it shows, whatever URLs make   *)
(* of ids, as long as they leave this one as it is and the user neither    *)
(* raced nor went through the history.                                     *)
THEOREM LinkLeadsHereAlways == Spec => []LinkLeadsHere
<1>1. LobbyInv /\ NamesInv => LinkLeadsHere
  <2> SUFFICES ASSUME LobbyInv, NamesInv, state # InLobby, ~raced, ~wentBack, state.id \in Readable
               PROVE  url = state.id
    BY DEF LinkLeadsHere
  <2>1. roomID = state.id /\ url = Link(roomID)
    BY DEF LobbyInv, HereInv, NamesInv
  <2>2. state.id # None /\ ReadBack[state.id] = state.id
    BY NoneAssumption DEF Readable
  <2> QED BY <2>1, <2>2 DEF Link
<1> QED BY <1>1, AlwaysLobby, PTL
=============================================================================
