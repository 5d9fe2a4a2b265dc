-------------------------- MODULE SignallingProofs --------------------------
(***************************************************************************)
(* Proofs about the pages and their connections, for every number of       *)
(* clients, rooms, sessions and messages on their way.                     *)
(*                                                                         *)
(* What a page believes of its room holds once it has read everything, so  *)
(* the invariants say what is still on its way while the page is behind.   *)
(***************************************************************************)
EXTENDS Signalling, RoomsProofs

(* What is on its way to the loop and to a page *)

Asks(q, type)  == {i \in DOMAIN q : q[i].type = type}
Hears(q, type) == {i \in DOMAIN q : \E m \in q[i] : m.type = type}

(* The queues of a page are what its connection says.                      *)
Parted(c) ==
    /\ downlink[c] = << >>
    /\ \/ uplink[c] = << >> /\ c \notin DOMAIN connected
       \/ uplink[c] # << >> /\ uplink[c][Len(uplink[c])].type = "gone"
Dialling(c) == uplink[c] = << >> /\ downlink[c] = << >> /\ c \notin DOMAIN connected

(* The loop has not met c yet.                                             *)
Unmet(c) == c \notin DOMAIN connected /\ downlink[c] = << >> /\ page[c].ws # "in"
Refused(c) == Hears(downlink[c], "closewriter") # {}

Linked(c) ==
    /\ Asks(uplink[c], "gone") = {}
    /\ c \notin DOMAIN connected => Refused(c) \/ 1 \in Asks(uplink[c], "connected")
    /\ c \in DOMAIN connected =>
          (connected[c] = NoRoom <=> page[c].ws = "open" /\ downlink[c] = << >>)
    /\ page[c].ws = "open" /\ downlink[c] # << >> =>
          \A m \in Head(downlink[c]) : m.type \in {"room", "closewriter"}

Link(c) ==
    /\ Asks(uplink[c], "connected") \subseteq {1}
    /\ Asks(uplink[c], "connected") # {} => Unmet(c)
    /\ Refused(c) => c \notin DOMAIN connected
    /\ page[c].ws = "closed" => Parted(c)
    /\ page[c].ws = "connecting" => Dialling(c)
    /\ IsOpen(c) => Linked(c)

(* The page shows the users of its room, or is about to hear of them last. *)
Speaks(q, users) ==
    \E i \in Hears(q, "room") : q[i] = {RoomMsg(users)} /\ \A j \in Hears(q, "room") : j <= i
Shows(c, users) ==
    \/ Speaks(downlink[c], users)
    \/ Hears(downlink[c], "room") = {} /\ page[c].ws = "in" /\ page[c].room = users
View(c) ==
    IsOpen(c) => \A r \in DOMAIN rooms : c \in DOMAIN rooms[r].users => Shows(c, rooms[r].users)

(* Whoever presents, or has asked to, captures or has said that it stops.  *)
Performs(c) == \E r \in DOMAIN rooms : c \in Presenters(rooms[r].users)
Capture(c) ==
    IsOpen(c) =>
        /\ Performs(c) => page[c].stream \/ Asks(uplink[c], "stopshare") # {}
        /\ \A i \in Asks(uplink[c], "share") :
              page[c].stream \/ \E j \in Asks(uplink[c], "stopshare") : i < j

PagesInv ==
    /\ PagesTypeOK /\ Safe
    /\ \A c \in Clients : Link(c)
    /\ \A c \in Clients : View(c)
    /\ \A c \in Clients : Capture(c)
-----------------------------------------------------------------------------
(* Types *)

LEMMA UpIs ==
    ASSUME NEW m \in Up
    PROVE  /\ m.type \in {"hostoffer", "clientanswer"} => m.id \in SessionIds
           /\ m.type \in {"stop_share", "toggle_share_permission", "kick", "ban"} =>
                 m.target \in Clients
  <1>1. CASE m \in {Msg(t) : t \in {"connected", "create", "join", "name", "share", "stopshare",
                                    "enable_all", "disable_all", "dissolve", "gone"}}
    BY <1>1 DEF Msg
  <1>2. CASE m \in {SessionMsg(t, s) : t \in {"hostoffer", "clientanswer"}, s \in SessionIds}
    BY <1>2 DEF SessionMsg
  <1>3. CASE m \in {TargetMsg(t, d) : t \in OwnerActions, d \in Clients}
    <2>1. PICK t \in OwnerActions, d \in Clients : m = TargetMsg(t, d)
      BY <1>3
    <2>2. m.type = t /\ m.target = d /\ t \notin {"hostoffer", "clientanswer"}
      BY <2>1, PagesAssumption DEF TargetMsg
    <2> QED
      BY <2>2
  <1> QED
    BY <1>1, <1>2, <1>3 DEF Up

LEMMA PageIs ==
    ASSUME NEW p \in Page
    PROVE  /\ p.ws \in {"closed", "connecting", "open", "in"} /\ p.room \in Users
           /\ p.stream \in BOOLEAN /\ p.shown \in BOOLEAN /\ p.picking \in BOOLEAN
           /\ p.offering \in SUBSET SessionIds /\ p.answering \in SUBSET SessionIds
           /\ p.host \in PartialFn(SessionIds, {"offered", "connected"})
           /\ p.client \in PartialFn(SessionIds, {"new", "answered"})
           /\ p.shows \in SUBSET SessionIds /\ p.mute \in SUBSET SessionIds
           /\ p.lost \in SUBSET SessionIds
  BY DEF Page, Users

LEMMA NewPageType == NewPage \in Page
  <1>1. \A X, Y : EmptyMap \in PartialFn(X, Y)
    BY EmptyType
  <1> QED
    BY <1>1 DEF NewPage, Page

LEMMA UpdatesType ==
    ASSUME NEW p \in Page
    PROVE  /\ \A x \in {"closed", "connecting", "open", "in"} : [p EXCEPT !.ws = x] \in Page
           /\ \A x \in Users : [p EXCEPT !.room = x] \in Page
           /\ \A x \in BOOLEAN : [p EXCEPT !.stream = x] \in Page
           /\ \A x \in BOOLEAN : [p EXCEPT !.shown = x] \in Page
           /\ \A x \in BOOLEAN : [p EXCEPT !.picking = x] \in Page
           /\ \A x \in SUBSET SessionIds : [p EXCEPT !.offering = x] \in Page
           /\ \A x \in SUBSET SessionIds : [p EXCEPT !.answering = x] \in Page
           /\ \A x \in PartialFn(SessionIds, {"offered", "connected"}) :
                 [p EXCEPT !.host = x] \in Page
           /\ \A x \in PartialFn(SessionIds, {"new", "answered"}) :
                 [p EXCEPT !.client = x] \in Page
           /\ \A x \in SUBSET SessionIds : [p EXCEPT !.shows = x] \in Page
           /\ \A x \in SUBSET SessionIds : [p EXCEPT !.mute = x] \in Page
           /\ \A x \in SUBSET SessionIds : [p EXCEPT !.lost = x] \in Page
  BY DEF Page, Users

LEMMA CallbacksType ==
    ASSUME NEW p \in Page
    PROVE  /\ onclose(p) \in Page /\ StopStream(p) \in Page
           /\ onclose([StopStream(p) EXCEPT !.client = EmptyMap]) \in Page
           /\ \A s \in SessionIds : onTrack(p, s) \in Page /\ End(p, s) \in Page
  <1>1. \A X, Y : EmptyMap \in PartialFn(X, Y)
    BY EmptyType
  <1>2. \A q \in Page : onclose(q) \in Page
    BY <1>1, PageIs, UpdatesType DEF onclose, Users
  <1>3. StopStream(p) \in Page
    BY <1>1, UpdatesType DEF StopStream
  <1>4. [StopStream(p) EXCEPT !.client = EmptyMap] \in Page
    BY <1>1, <1>3, UpdatesType
  <1>5. ASSUME NEW s \in SessionIds PROVE onTrack(p, s) \in Page
    BY PageIs, UpdatesType DEF onTrack
  <1>6. ASSUME NEW s \in SessionIds PROVE End(p, s) \in Page
    <2>1. /\ Without(p.host, {s}) \in PartialFn(SessionIds, {"offered", "connected"})
          /\ Without(p.client, {s}) \in PartialFn(SessionIds, {"new", "answered"})
      BY PageIs, WithoutType
    <2> QED
      BY <2>1, PageIs, UpdatesType DEF End
  <1> QED
    BY <1>2, <1>3, <1>4, <1>5, <1>6
-----------------------------------------------------------------------------
(* What a page does *)

(* Nothing else changes.                                                   *)
Alone(c) ==
    /\ UNCHANGED loop
    /\ \A d \in Clients \ {c} :
          uplink'[d] = uplink[d] /\ downlink'[d] = downlink[d] /\ page'[d] = page[d]

Dials(c) ==
    /\ page[c].ws = "closed" /\ page'[c].ws = "connecting"
    /\ Dialling(c) /\ uplink'[c] = uplink[c] /\ downlink'[c] = downlink[c]

Greets(c) ==
    /\ page[c].ws = "connecting" /\ page'[c].ws = "open"
    /\ downlink'[c] = downlink[c]
    /\ \E request \in Requests : uplink'[c] = <<Msg("connected"), request>>

Parts(c) ==
    /\ page'[c].ws = "closed" /\ downlink'[c] = << >>
    /\ ~IsOpen(c) => uplink'[c] = uplink[c]
    /\ IsOpen(c) => \E sent \in Seq(Up) :
                       /\ uplink'[c] = Append(sent, Msg("gone"))
                       /\ Asks(sent, "connected") \subseteq Asks(uplink[c], "connected")

Drops(c) ==
    /\ IsOpen(c) /\ Refused(c) /\ page'[c].ws = "closed"
    /\ uplink'[c] = << >> /\ downlink'[c] = << >>

(* The page sends m, or nothing.                                           *)
SaysNothing(c) == uplink'[c] = uplink[c] /\ (IsOpen(c) => page'[c].stream = page[c].stream)
SaysOne(c, m) ==
    /\ IsOpen(c) /\ uplink'[c] = Append(uplink[c], m)
    /\ m.type \notin {"connected", "gone"}
    /\ m.type = "share" => page'[c].stream
    /\ m.type \notin {"share", "stopshare"} => page'[c].stream = page[c].stream
Says(c) ==
    /\ page'[c].ws = page[c].ws /\ page'[c].room = page[c].room
    /\ downlink'[c] = downlink[c]
    /\ SaysNothing(c) \/ \E m \in Up : SaysOne(c, m)

(* Taking a message from a set of them.                                    *)
Rest(q, m) == IF Head(q) = {m} THEN Tail(q) ELSE <<Head(q) \ {m}>> \o Tail(q)
TakesOne(c, m) ==
    /\ m \in Head(downlink[c])
    /\ downlink'[c] = Rest(downlink[c], m) /\ m.type # "closewriter"
    /\ m.type = "room" => page'[c].room = m.users
    /\ m.type # "room" => page[c].ws = "in" /\ page'[c].room = page[c].room
Takes(c) ==
    /\ IsOpen(c) /\ downlink[c] # << >> /\ page'[c].ws = "in"
    /\ uplink'[c] = uplink[c] /\ page'[c].stream = page[c].stream
    /\ \E m \in Message : TakesOne(c, m)

Acts(c) == Dials(c) \/ Greets(c) \/ Parts(c) \/ Drops(c) \/ Says(c) \/ Takes(c)

LEMMA Typed ==
    ASSUME PagesTypeOK, NEW c \in Clients
    PROVE  /\ uplink[c] \in Seq(Up) /\ downlink[c] \in Seq(SUBSET Message) /\ page[c] \in Page
           /\ acts \in 0..MaxActs /\ MaxActs \in Nat /\ TypeOK
  BY PagesAssumption DEF PagesTypeOK

LEMMA Steady ==
    ASSUME PagesTypeOK, UNCHANGED loop, uplink' \in [Clients -> Seq(Up)],
           downlink' \in [Clients -> Seq(SUBSET Message)], page' \in [Clients -> Page],
           acts' = acts \/ Act
    PROVE  PagesTypeOK'
  <1>1. TypeOK'
    BY DEF PagesTypeOK, TypeOK, loop, IsRoomMap
  <1>2. acts' \in 0..MaxActs
    BY PagesAssumption DEF PagesTypeOK, Act
  <1> QED
    BY <1>1, <1>2 DEF PagesTypeOK

LEMMA PageSet ==
    ASSUME PagesTypeOK, NEW c \in Clients, NEW p \in Page, page' = [page EXCEPT ![c] = p]
    PROVE  /\ page' \in [Clients -> Page] /\ page'[c] = p
           /\ \A d \in Clients \ {c} : page'[d] = page[d]
  BY DEF PagesTypeOK

LEMMA Same ==
    ASSUME PagesTypeOK
    PROVE  /\ uplink' = uplink => uplink' \in [Clients -> Seq(Up)]
           /\ downlink' = downlink => downlink' \in [Clients -> Seq(SUBSET Message)]
           /\ page' = page => page' \in [Clients -> Page]
  BY DEF PagesTypeOK

LEMMA SendIs ==
    ASSUME PagesTypeOK, NEW c \in Clients, NEW m \in Up, Send(c, <<m>>)
    PROVE  /\ uplink' \in [Clients -> Seq(Up)]
           /\ \A d \in Clients \ {c} : uplink'[d] = uplink[d]
           /\ IsOpen(c) => uplink'[c] = Append(uplink[c], m)
           /\ ~IsOpen(c) => uplink'[c] = uplink[c]
  <1>1. uplink \in [Clients -> Seq(Up)]
    BY DEF PagesTypeOK
  <1>2. CASE ~IsOpen(c)
    BY <1>1, <1>2 DEF Send
  <1>3. CASE IsOpen(c)
    <2>1. uplink[c] \in Seq(Up)
      BY <1>1
    <2>2. uplink[c] \o <<m>> = Append(uplink[c], m)
      BY <2>1
    <2>3. uplink' = [uplink EXCEPT ![c] = uplink[c] \o <<m>>]
      BY <1>3 DEF Send
    <2>6. Append(uplink[c], m) \in Seq(Up)
      BY <2>1
    <2>4. PICK q \in Seq(Up) : q = Append(uplink[c], m)
      BY <2>6
    <2>5. uplink' = [uplink EXCEPT ![c] = q]
      BY <2>2, <2>3, <2>4
    <2> QED
      BY <1>1, <1>3, <2>4, <2>5
  <1> QED
    BY <1>2, <1>3

LEMMA UpType ==
    /\ \A t \in {"connected", "create", "join", "name", "share", "stopshare",
                 "enable_all", "disable_all", "dissolve", "gone"} :
          Msg(t) \in Up /\ Msg(t).type = t
    /\ \A t \in {"hostoffer", "clientanswer"}, s \in SessionIds :
          SessionMsg(t, s) \in Up /\ SessionMsg(t, s).type = t
    /\ \A t \in OwnerActions, d \in Clients :
          TargetMsg(t, d) \in Up /\ TargetMsg(t, d).type = t
  <1>1. \A t : Msg(t).type = t
    BY DEF Msg
  <1>2. \A t, s : SessionMsg(t, s).type = t
    BY DEF SessionMsg
  <1>3. \A t, d : TargetMsg(t, d).type = t
    BY DEF TargetMsg
  <1> QED
    BY <1>1, <1>2, <1>3 DEF Up

LEMMA HangUpIs ==
    ASSUME PagesTypeOK, NEW c \in Clients, NEW sent \in Seq(Up), HangUp(c, sent),
           Asks(sent, "connected") \subseteq Asks(uplink[c], "connected"),
           page' \in [Clients -> Page], page'[c].ws = "closed",
           \A d \in Clients \ {c} : page'[d] = page[d],
           UNCHANGED loop, acts' = acts \/ Act
    PROVE  PagesTypeOK' /\ Alone(c) /\ Parts(c)
  <1>1. uplink \in [Clients -> Seq(Up)] /\ downlink \in [Clients -> Seq(SUBSET Message)]
    BY DEF PagesTypeOK
  <1>2. PICK q \in Seq(Up) : q = IF IsOpen(c) THEN Append(sent, Msg("gone")) ELSE uplink[c]
    <2>1. Append(sent, Msg("gone")) \in Seq(Up)
      BY UpType
    <2> QED
      BY <1>1, <2>1
  <1>3. uplink' = [uplink EXCEPT ![c] = q] /\ downlink' = [downlink EXCEPT ![c] = << >>]
    BY <1>2 DEF HangUp
  <1>4. /\ uplink' \in [Clients -> Seq(Up)] /\ downlink' \in [Clients -> Seq(SUBSET Message)]
        /\ uplink'[c] = q /\ downlink'[c] = << >>
        /\ \A d \in Clients \ {c} : uplink'[d] = uplink[d] /\ downlink'[d] = downlink[d]
    BY <1>1, <1>3
  <1>5. Alone(c) /\ Parts(c)
    BY <1>2, <1>4 DEF Alone, Parts
  <1> QED
    BY <1>4, <1>5, Steady

LEMMA EnterActs ==
    ASSUME PagesTypeOK, NEW c \in Clients, Enter(c)
    PROVE  PagesTypeOK' /\ Alone(c) /\ Acts(c)
  <1>1. PICK p : p = [page[c] EXCEPT !.ws = "connecting"]
    OBVIOUS
  <1>2. p \in Page /\ p.ws = "connecting" /\ page' = [page EXCEPT ![c] = p]
    <2>1. p \in Page
      BY <1>1, Typed, UpdatesType
    <2>2. p.ws = "connecting"
      BY <1>1, Typed DEF Page
    <2>3. page' = [page EXCEPT ![c] = p]
      BY <1>1 DEF Enter
    <2> QED
      BY <2>1, <2>2, <2>3
  <1>3. /\ page' \in [Clients -> Page] /\ page'[c] = p
        /\ \A d \in Clients \ {c} : page'[d] = page[d]
    BY <1>2, PageSet
  <1>4. /\ page[c].ws = "closed" /\ uplink[c] = << >> /\ downlink[c] = << >>
        /\ c \notin DOMAIN connected /\ UNCHANGED <<loop, wires>> /\ Act
    BY DEF Enter, InUse
  <1>5. Dials(c) /\ Alone(c)
    BY <1>2, <1>3, <1>4 DEF Dials, Dialling, Alone, wires, loop
  <1> QED
    BY <1>3, <1>4, <1>5, Steady, Same DEF Acts, wires

LEMMA onopenActs ==
    ASSUME PagesTypeOK, NEW c \in Clients, onopen(c)
    PROVE  PagesTypeOK' /\ Alone(c) /\ Acts(c)
  <1>1. PICK p : p = [page[c] EXCEPT !.ws = "open"]
    OBVIOUS
  <1>2. p \in Page /\ p.ws = "open" /\ page' = [page EXCEPT ![c] = p]
    <2>1. p \in Page
      BY <1>1, Typed, UpdatesType
    <2>2. p.ws = "open"
      BY <1>1, Typed DEF Page
    <2>3. page' = [page EXCEPT ![c] = p]
      BY <1>1 DEF onopen
    <2> QED
      BY <2>1, <2>2, <2>3
  <1>3. /\ page' \in [Clients -> Page] /\ page'[c] = p
        /\ \A d \in Clients \ {c} : page'[d] = page[d]
    BY <1>2, PageSet
  <1>4. PICK request \in Requests :
           uplink' = [uplink EXCEPT ![c] = <<Msg("connected"), request>>]
    BY DEF onopen
  <1>5. <<Msg("connected"), request>> \in Seq(Up)
    BY UpType DEF Requests
  <1>6. /\ uplink' \in [Clients -> Seq(Up)] /\ uplink'[c] = <<Msg("connected"), request>>
        /\ \A d \in Clients \ {c} : uplink'[d] = uplink[d]
    <2>1. PICK q \in Seq(Up) : q = <<Msg("connected"), request>>
      BY <1>5
    <2>2. uplink' = [uplink EXCEPT ![c] = q] /\ uplink \in [Clients -> Seq(Up)]
      BY <1>4, <2>1 DEF PagesTypeOK
    <2> QED
      BY <2>1, <2>2
  <1>7. page[c].ws = "connecting" /\ UNCHANGED <<rest, downlink>>
    BY DEF onopen
  <1>8. Greets(c) /\ Alone(c)
    BY <1>2, <1>3, <1>6, <1>7 DEF Greets, Alone, rest, loop
  <1> QED
    BY <1>3, <1>6, <1>7, <1>8, Steady, Same DEF Acts, rest

LEMMA Truncated ==
    ASSUME NEW q \in Seq(Up), NEW n \in 0..Len(q), NEW t
    PROVE  SubSeq(q, 1, n) \in Seq(Up) /\ Asks(SubSeq(q, 1, n), t) \subseteq Asks(q, t)
  <1>1. /\ SubSeq(q, 1, n) \in Seq(Up) /\ DOMAIN SubSeq(q, 1, n) = 1..n
        /\ \A i \in 1..n : SubSeq(q, 1, n)[i] = q[i]
    OBVIOUS
  <1>2. DOMAIN q = 1..Len(q) /\ 1..n \subseteq 1..Len(q)
    OBVIOUS
  <1> QED
    BY <1>1, <1>2 DEF Asks

LEMMA BreakActs ==
    ASSUME PagesTypeOK, NEW c \in Clients, Break(c) \/ Reload(c)
    PROVE  PagesTypeOK' /\ Alone(c) /\ Acts(c)
  <1>1. onclose(page[c]).ws = "closed" /\ NewPage.ws = "closed"
    BY Typed DEF onclose, NewPage, Page
  <1>2. PICK p \in Page : page' = [page EXCEPT ![c] = p] /\ p.ws = "closed"
    BY <1>1, Typed, CallbacksType, NewPageType DEF Break, Reload
  <1>3. /\ page' \in [Clients -> Page] /\ page'[c] = p
        /\ \A d \in Clients \ {c} : page'[d] = page[d]
    BY <1>2, PageSet
  <1>4. PICK n \in 0..Len(uplink[c]) : HangUp(c, SubSeq(uplink[c], 1, n))
    BY DEF Break, Reload
  <1>5. PICK sent \in Seq(Up) : /\ sent = SubSeq(uplink[c], 1, n)
                                /\ Asks(sent, "connected") \subseteq Asks(uplink[c], "connected")
    BY Typed, Truncated
  <1>6. HangUp(c, sent) /\ UNCHANGED loop /\ Act
    BY <1>4, <1>5 DEF Break, Reload
  <1> QED
    BY <1>2, <1>3, <1>5, <1>6, HangUpIs DEF Acts

LEMMA Said ==
    ASSUME NEW p \in Seq(Up), NEW m \in Up, NEW t, m.type # t
    PROVE  p \o <<m>> \in Seq(Up) /\ Asks(p \o <<m>>, t) = Asks(p, t)
  <1>1. p \o <<m>> = Append(p, m)
    OBVIOUS
  <1>2. /\ Append(p, m) \in Seq(Up) /\ DOMAIN Append(p, m) = DOMAIN p \cup {Len(p) + 1}
        /\ \A i \in DOMAIN p : Append(p, m)[i] = p[i]
        /\ Append(p, m)[Len(p) + 1] = m
    OBVIOUS
  <1> QED
    BY <1>1, <1>2 DEF Asks

LEMMA QuitActs ==
    ASSUME PagesTypeOK, NEW c \in Clients, exitRoom(c) \/ dissolveRoom(c)
    PROVE  PagesTypeOK' /\ Alone(c) /\ Acts(c)
  <1>1. PICK said \in {<< >>, <<Msg("dissolve")>>} : Quit(c, said)
    BY DEF exitRoom, dissolveRoom
  <1>2. PICK stop \in {<< >>, <<Msg("stopshare")>>} : HangUp(c, uplink[c] \o said \o stop)
    BY <1>1 DEF Quit
  <1>3. \A q \in Seq(Up) : q \o << >> = q
    OBVIOUS
  <1>4. ASSUME NEW q \in Seq(Up), NEW more \in {<< >>, <<Msg("dissolve")>>, <<Msg("stopshare")>>}
        PROVE  q \o more \in Seq(Up) /\ Asks(q \o more, "connected") = Asks(q, "connected")
    <2>1. CASE more = << >>
      BY <1>3, <2>1
    <2>2. ASSUME NEW t \in {"dissolve", "stopshare"}, more = <<Msg(t)>>
          PROVE  q \o more \in Seq(Up) /\ Asks(q \o more, "connected") = Asks(q, "connected")
      <3>1. Msg(t) \in Up /\ Msg(t).type # "connected"
        BY UpType
      <3> QED
        BY <2>2, <3>1, Said
    <2> QED
      BY <2>1, <2>2
  <1>5. PICK sent \in Seq(Up) : /\ sent = uplink[c] \o said \o stop
                                /\ Asks(sent, "connected") = Asks(uplink[c], "connected")
    <2>1. uplink[c] \in Seq(Up)
      BY Typed
    <2>2. PICK q \in Seq(Up) : /\ q = uplink[c] \o said
                               /\ Asks(q, "connected") = Asks(uplink[c], "connected")
      BY <1>4, <2>1
    <2>3. q \o stop \in Seq(Up) /\ Asks(q \o stop, "connected") = Asks(q, "connected")
      BY <1>4
    <2> QED
      BY <2>2, <2>3
  <1>6. PICK p : p = onclose([StopStream(page[c]) EXCEPT !.client = EmptyMap])
    OBVIOUS
  <1>7. p \in Page /\ p.ws = "closed"
    <2>1. p \in Page
      BY <1>6, Typed, CallbacksType
    <2>2. StopStream(page[c]) \in Page
      BY Typed, CallbacksType
    <2>3. [StopStream(page[c]) EXCEPT !.client = EmptyMap] \in Page
      BY <2>2, EmptyType, UpdatesType
    <2>4. \A q \in Page : onclose(q).ws = "closed"
      BY DEF onclose, Page
    <2> QED
      BY <1>6, <2>1, <2>3, <2>4
  <1>8. page' = [page EXCEPT ![c] = p]
    BY <1>1, <1>6 DEF Quit
  <1>9. /\ page' \in [Clients -> Page] /\ page'[c] = p
        /\ \A d \in Clients \ {c} : page'[d] = page[d]
    BY <1>7, <1>8, PageSet
  <1>10. HangUp(c, sent) /\ UNCHANGED loop /\ Act
    BY <1>1, <1>2, <1>5 DEF Quit
  <1> QED
    BY <1>5, <1>7, <1>9, <1>10, HangUpIs DEF Acts

(* A callback that sends m, or nothing.                                    *)
Callback(c, p) ==
    /\ page' = [page EXCEPT ![c] = p] \/ (page' = page /\ p = page[c])
    /\ p.ws = page[c].ws /\ p.room = page[c].room
    /\ UNCHANGED <<loop, downlink>> /\ (acts' = acts \/ Act)

LEMMA Silent ==
    ASSUME PagesTypeOK, NEW c \in Clients, NEW p \in Page, Callback(c, p),
           uplink' = uplink, p.stream = page[c].stream
    PROVE  PagesTypeOK' /\ Alone(c) /\ Acts(c)
  <1>1. /\ page' \in [Clients -> Page] /\ page'[c] = p
        /\ \A d \in Clients \ {c} : page'[d] = page[d]
    BY PageSet, Same DEF Callback
  <1>2. UNCHANGED <<loop, downlink>> /\ (acts' = acts \/ Act)
    BY DEF Callback
  <1>3. Says(c) /\ Alone(c)
    BY <1>1, <1>2 DEF Says, SaysNothing, Alone, Callback
  <1> QED
    BY <1>1, <1>2, <1>3, Steady, Same DEF Acts

LEMMA Speaking ==
    ASSUME PagesTypeOK, NEW c \in Clients, NEW p \in Page, Callback(c, p),
           NEW m \in Up, Send(c, <<m>>), m.type \notin {"connected", "gone"},
           m.type = "share" => p.stream,
           m.type \notin {"share", "stopshare"} => p.stream = page[c].stream
    PROVE  PagesTypeOK' /\ Alone(c) /\ Acts(c)
  <1>1. /\ page' \in [Clients -> Page] /\ page'[c] = p
        /\ \A d \in Clients \ {c} : page'[d] = page[d]
    BY PageSet, Same DEF Callback
  <1>2. UNCHANGED <<loop, downlink>> /\ (acts' = acts \/ Act)
    BY DEF Callback
  <1>3. /\ uplink' \in [Clients -> Seq(Up)]
        /\ \A d \in Clients \ {c} : uplink'[d] = uplink[d]
        /\ SaysNothing(c) \/ SaysOne(c, m)
    BY <1>1, SendIs DEF SaysNothing, SaysOne
  <1>4. Says(c) /\ Alone(c)
    BY <1>1, <1>2, <1>3 DEF Says, Alone, Callback
  <1> QED
    BY <1>1, <1>2, <1>3, <1>4, Steady, Same DEF Acts

(* A page with one field changed differs in no other.                      *)
LEMMA UpdatesKeep ==
    ASSUME NEW p \in Page
    PROVE  /\ \A x : LET q == [p EXCEPT !.stream = x] IN
                     q.ws = p.ws /\ q.room = p.room /\ q.stream = x
           /\ \A x : LET q == [p EXCEPT !.shown = x] IN
                     q.ws = p.ws /\ q.room = p.room /\ q.stream = p.stream
           /\ \A x : LET q == [p EXCEPT !.picking = x] IN
                     q.ws = p.ws /\ q.room = p.room /\ q.stream = p.stream
           /\ \A x : LET q == [p EXCEPT !.offering = x] IN
                     q.ws = p.ws /\ q.room = p.room /\ q.stream = p.stream
           /\ \A x : LET q == [p EXCEPT !.answering = x] IN
                     q.ws = p.ws /\ q.room = p.room /\ q.stream = p.stream
           /\ \A x : LET q == [p EXCEPT !.host = x] IN
                     q.ws = p.ws /\ q.room = p.room /\ q.stream = p.stream
           /\ \A x : LET q == [p EXCEPT !.client = x] IN
                     q.ws = p.ws /\ q.room = p.room /\ q.stream = p.stream
           /\ \A x : LET q == [p EXCEPT !.shows = x] IN
                     q.ws = p.ws /\ q.room = p.room /\ q.stream = p.stream
           /\ \A x : LET q == [p EXCEPT !.mute = x] IN
                     q.ws = p.ws /\ q.room = p.room /\ q.stream = p.stream
           /\ \A x : LET q == [p EXCEPT !.lost = x] IN
                     q.ws = p.ws /\ q.room = p.room /\ q.stream = p.stream
  BY DEF Page

LEMMA CallbacksKeep ==
    ASSUME NEW p \in Page, NEW s \in SessionIds
    PROVE  /\ End(p, s).ws = p.ws /\ End(p, s).room = p.room /\ End(p, s).stream = p.stream
           /\ onTrack(p, s).ws = p.ws /\ onTrack(p, s).room = p.room
           /\ onTrack(p, s).stream = p.stream
           /\ StopStream(p).ws = p.ws /\ StopStream(p).room = p.room
  BY DEF Page, End, onTrack, StopStream

LEMMA shareActs ==
    ASSUME PagesTypeOK, NEW c \in Clients, share(c) \/ PickCancelled(c)
    PROVE  PagesTypeOK' /\ Alone(c) /\ Acts(c)
  <1>1. PICK b \in BOOLEAN : page' = [page EXCEPT ![c].picking = b]
    BY DEF share, PickCancelled
  <1>2. PICK p : p = [page[c] EXCEPT !.picking = b]
    OBVIOUS
  <1>3. p \in Page /\ page' = [page EXCEPT ![c] = p]
    <2>1. p \in Page
      BY <1>2, Typed, UpdatesType
    <2> QED
      BY <1>1, <1>2, <2>1
  <1>4. p.ws = page[c].ws /\ p.room = page[c].room /\ p.stream = page[c].stream
    BY <1>2, Typed, UpdatesKeep
  <1>5. UNCHANGED <<loop, wires>> /\ (acts' = acts \/ Act)
    BY DEF share, PickCancelled, rest
  <1>6. Callback(c, p) /\ uplink' = uplink
    BY <1>3, <1>4, <1>5 DEF Callback, wires
  <1> QED
    BY <1>3, <1>4, <1>6, Silent

LEMMA CapturedActs ==
    ASSUME PagesTypeOK, NEW c \in Clients, Captured(c)
    PROVE  PagesTypeOK' /\ Alone(c) /\ Acts(c)
  <1>1. PICK q \in Page : q = [page[c] EXCEPT !.picking = FALSE]
    BY Typed, UpdatesType
  <1>2. PICK r \in Page : r = [q EXCEPT !.stream = TRUE]
    BY UpdatesType
  <1>3. PICK p \in Page : p = [r EXCEPT !.shown = page[c].ws = "in"]
    BY UpdatesType
  <1>4. page' = [page EXCEPT ![c] = p]
    <2>1. p = [page[c] EXCEPT !.picking = FALSE, !.stream = TRUE, !.shown = page[c].ws = "in"]
      BY <1>1, <1>2, <1>3
    <2> QED
      BY <2>1 DEF Captured
  <1>5. p.ws = page[c].ws /\ p.room = page[c].room /\ p.stream
    <2>1. q.ws = page[c].ws /\ q.room = page[c].room
      BY <1>1, Typed, UpdatesKeep
    <2>2. r.ws = page[c].ws /\ r.room = page[c].room /\ r.stream
      BY <1>2, <2>1, UpdatesKeep
    <2> QED
      BY <1>3, <2>2, UpdatesKeep
  <1>6. Msg("share") \in Up /\ Msg("share").type = "share"
    BY UpType
  <1>7. Send(c, <<Msg("share")>>) /\ UNCHANGED <<loop, downlink>> /\ acts' = acts
    BY DEF Captured, rest
  <1>8. Callback(c, p)
    BY <1>4, <1>5, <1>7 DEF Callback
  <1> QED
    BY <1>5, <1>6, <1>7, <1>8, Speaking

LEMMA stopShareActs ==
    ASSUME PagesTypeOK, NEW c \in Clients, stopShare(c)
    PROVE  PagesTypeOK' /\ Alone(c) /\ Acts(c)
  <1>1. PICK p \in Page : p = StopStream(page[c])
    BY Typed, CallbacksType
  <1>2. p.ws = page[c].ws /\ p.room = page[c].room
    BY <1>1, Typed DEF StopStream, Page
  <1>3. Msg("stopshare") \in Up /\ Msg("stopshare").type = "stopshare"
    BY UpType
  <1>4. /\ page' = [page EXCEPT ![c] = p] /\ Send(c, <<Msg("stopshare")>>)
        /\ UNCHANGED <<loop, downlink>> /\ Act
    BY <1>1 DEF stopShare
  <1>5. Callback(c, p)
    BY <1>2, <1>4 DEF Callback
  <1> QED
    BY <1>3, <1>4, <1>5, Speaking

LEMMA AskingActs ==
    ASSUME PagesTypeOK, NEW c \in Clients, setName(c) \/ ownerAction(c)
    PROVE  PagesTypeOK' /\ Alone(c) /\ Acts(c)
  <1>1. PICK m \in Up : Send(c, <<m>>) /\ m.type \notin {"connected", "gone", "share", "stopshare"}
    <2>1. CASE setName(c)
      BY <2>1, UpType DEF setName
    <2>2. CASE ownerAction(c)
      <3>1. PICK m \in ForEveryone \cup UNION {ForUser(c, d) : d \in DOMAIN page[c].room \ {c}} :
               Send(c, <<m>>)
        BY <2>2 DEF ownerAction
      <3>2. CASE m \in ForEveryone
        <4>1. PICK a \in {"enable_all", "disable_all"} : m = Msg(a)
          BY <3>2 DEF ForEveryone
        <4> QED
          BY <3>1, <4>1, UpType
      <3>3. ASSUME NEW d \in DOMAIN page[c].room, m \in ForUser(c, d)
            PROVE  m \in Up /\ m.type \notin {"connected", "gone", "share", "stopshare"}
        <4>1. PICK a \in OwnerActions : m = TargetMsg(a, d)
          BY <3>3 DEF ForUser
        <4>2. d \in Clients
          BY Typed, PageIs, PartialFnIs DEF Users
        <4> QED
          BY <4>1, <4>2, UpType, PagesAssumption
      <3> QED
        BY <3>1, <3>2, <3>3
    <2> QED
      BY <2>1, <2>2
  <1>2. page' = page /\ UNCHANGED <<loop, downlink>> /\ Act
    BY DEF setName, ownerAction
  <1>3. page[c] \in Page /\ Callback(c, page[c])
    BY <1>2, Typed DEF Callback
  <1> QED
    BY <1>1, <1>3, Speaking

LEMMA OfferReadyActs ==
    ASSUME PagesTypeOK, NEW c \in Clients, NEW s \in SessionIds, OfferReady(c, s)
    PROVE  PagesTypeOK' /\ Alone(c) /\ Acts(c)
  <1>1. PICK q \in Page : q = [page[c] EXCEPT !.offering = @ \ {s}]
    BY Typed, PageIs, UpdatesType
  <1>2. PICK r \in Page : r = [q EXCEPT !.mute = @ \ {s}]
    BY PageIs, UpdatesType
  <1>3. PICK p \in Page : p = [r EXCEPT !.host = Assign(@, s, "offered")]
    <2>1. Assign(r.host, s, "offered") \in PartialFn(SessionIds, {"offered", "connected"})
      BY PageIs, AssignType
    <2> QED
      BY <2>1, UpdatesType
  <1>4. page' = [page EXCEPT ![c] = p]
    <2>1. p = [page[c] EXCEPT !.offering = @ \ {s}, !.mute = @ \ {s},
                              !.host = Assign(@, s, "offered")]
      BY <1>1, <1>2, <1>3, Typed DEF Page
    <2> QED
      BY <2>1 DEF OfferReady
  <1>5. p.ws = page[c].ws /\ p.room = page[c].room /\ p.stream = page[c].stream
    <2>1. q.ws = page[c].ws /\ q.room = page[c].room /\ q.stream = page[c].stream
      BY <1>1, Typed, UpdatesKeep
    <2>2. r.ws = page[c].ws /\ r.room = page[c].room /\ r.stream = page[c].stream
      BY <1>2, <2>1, UpdatesKeep
    <2> QED
      BY <1>3, <2>2, UpdatesKeep
  <1>6. SessionMsg("hostoffer", s) \in Up /\ SessionMsg("hostoffer", s).type = "hostoffer"
    BY UpType
  <1>7. /\ uplink' = uplink \/ Send(c, <<SessionMsg("hostoffer", s)>>)
        /\ UNCHANGED <<loop, downlink>> /\ acts' = acts
    BY DEF OfferReady, rest
  <1>8. Callback(c, p)
    BY <1>4, <1>5, <1>7 DEF Callback
  <1>9. CASE uplink' = uplink
    BY <1>5, <1>8, <1>9, Silent
  <1>10. CASE Send(c, <<SessionMsg("hostoffer", s)>>)
    BY <1>5, <1>6, <1>8, <1>10, Speaking
  <1> QED
    BY <1>7, <1>9, <1>10

LEMMA AnswerReadyActs ==
    ASSUME PagesTypeOK, NEW c \in Clients, NEW s \in SessionIds, AnswerReady(c, s)
    PROVE  PagesTypeOK' /\ Alone(c) /\ Acts(c)
  <1>1. PICK q \in Page : q = [page[c] EXCEPT !.answering = @ \ {s}]
    BY Typed, PageIs, UpdatesType
  <1>2. PICK r \in Page : r = [q EXCEPT !.mute = @ \ {s}]
    BY PageIs, UpdatesType
  <1>3. r.ws = page[c].ws /\ r.room = page[c].room /\ r.stream = page[c].stream
    <2>1. q.ws = page[c].ws /\ q.room = page[c].room /\ q.stream = page[c].stream
      BY <1>1, Typed, UpdatesKeep
    <2> QED
      BY <1>2, <2>1, UpdatesKeep
  <1>4. r = [page[c] EXCEPT !.answering = @ \ {s}, !.mute = @ \ {s}]
    BY <1>1, <1>2, Typed DEF Page
  <1>5. CASE s \in DOMAIN page[c].client
    <2>1. r.client = page[c].client
      BY <1>4, Typed DEF Page
    <2>2. PICK t \in Page : t = [r EXCEPT !.client[s] = "answered"]
      <3>1. [r.client EXCEPT ![s] = "answered"] \in PartialFn(SessionIds, {"new", "answered"})
        BY <1>5, <2>1, PageIs, UpdateType
      <3> QED
        BY <3>1, UpdatesType
    <2>3. t.ws = r.ws /\ t.room = r.room /\ t.stream = r.stream
      BY <2>2, UpdatesKeep
    <2>4. PICK p \in Page : p = onTrack(t, s)
      BY CallbacksType
    <2>5. p.ws = r.ws /\ p.room = r.room /\ p.stream = r.stream
      BY <2>3, <2>4, CallbacksKeep
    <2>6. page' = [page EXCEPT ![c] = p]
      BY <1>4, <1>5, <2>2, <2>4 DEF AnswerReady
    <2>7. SessionMsg("clientanswer", s) \in Up /\ SessionMsg("clientanswer", s).type = "clientanswer"
      BY UpType
    <2>8. /\ uplink' = uplink \/ Send(c, <<SessionMsg("clientanswer", s)>>)
          /\ UNCHANGED <<loop, downlink>> /\ acts' = acts
      BY <1>5 DEF AnswerReady, rest
    <2>9. Callback(c, p) /\ p.stream = page[c].stream
      BY <1>3, <2>5, <2>6, <2>8 DEF Callback
    <2>10. CASE uplink' = uplink
      BY <2>9, <2>10, Silent
    <2>11. CASE Send(c, <<SessionMsg("clientanswer", s)>>)
      BY <2>7, <2>9, <2>11, Speaking
    <2> QED
      BY <2>8, <2>10, <2>11
  <1>6. CASE s \notin DOMAIN page[c].client
    <2>1. page' = [page EXCEPT ![c] = r] /\ uplink' = uplink
      BY <1>4, <1>6 DEF AnswerReady
    <2>2. UNCHANGED <<loop, downlink>> /\ acts' = acts
      BY DEF AnswerReady, rest
    <2>3. Callback(c, r)
      BY <1>3, <2>1, <2>2 DEF Callback
    <2> QED
      BY <1>3, <2>1, <2>3, Silent
  <1> QED
    BY <1>5, <1>6

LEMMA PeerLostActs ==
    ASSUME PagesTypeOK, NEW c \in Clients, NEW s \in SessionIds, PeerLost(c, s)
    PROVE  PagesTypeOK' /\ Alone(c) /\ Acts(c)
  <1>1. PICK p \in Page : p = End(page[c], s)
    BY Typed, CallbacksType
  <1>2. p.ws = page[c].ws /\ p.room = page[c].room /\ p.stream = page[c].stream
    BY <1>1, Typed, CallbacksKeep
  <1>3. page' = [page EXCEPT ![c] = p] /\ UNCHANGED <<loop, wires, acts>>
    BY <1>1 DEF PeerLost, rest
  <1>4. Callback(c, p) /\ uplink' = uplink
    BY <1>2, <1>3 DEF Callback, wires
  <1> QED
    BY <1>2, <1>4, Silent

LEMMA PeerFailsActs ==
    ASSUME PagesTypeOK, NEW c \in Clients, NEW s \in SessionIds, PeerFails(c, s)
    PROVE  PagesTypeOK' /\ Alone(c) /\ Acts(c)
  <1>1. PICK q \in Page : q = End(page[c], s)
    BY Typed, CallbacksType
  <1>2. PICK x \in SUBSET SessionIds : x = page[c].lost \cup {s}
    BY Typed, PageIs
  <1>3. PICK p \in Page : p = [q EXCEPT !.lost = x]
    BY UpdatesType
  <1>4. p.ws = page[c].ws /\ p.room = page[c].room /\ p.stream = page[c].stream
    <2>1. q.ws = page[c].ws /\ q.room = page[c].room /\ q.stream = page[c].stream
      BY <1>1, Typed, CallbacksKeep
    <2> QED
      BY <1>3, <2>1, UpdatesKeep
  <1>5. page' = [page EXCEPT ![c] = p] /\ UNCHANGED <<loop, wires>> /\ Act
    BY <1>1, <1>2, <1>3 DEF PeerFails, Fail
  <1>6. Callback(c, p) /\ uplink' = uplink
    BY <1>4, <1>5 DEF Callback, wires
  <1> QED
    BY <1>4, <1>6, Silent

LEMMA MessageIs ==
    ASSUME NEW m \in Message
    PROVE  /\ m.type = "room" => m.users \in Users /\ m = RoomMsg(m.users)
           /\ m.type \in {"hostsession", "clientsession", "endshare", "host", "client"} =>
                 m.id \in SessionIds
  <1>1. CASE m \in {RoomMsg(users) : users \in Users}
    BY <1>1 DEF RoomMsg
  <1>2. CASE m \in {HostSession(s, p) : s \in SessionIds, p \in Clients}
    BY <1>2 DEF HostSession
  <1>3. CASE m \in {ClientSession(s, p) : s \in SessionIds, p \in Clients}
    BY <1>3 DEF ClientSession
  <1>4. CASE m \in {EndShare(s) : s \in SessionIds} \cup {HostMsg(s) : s \in SessionIds}
                     \cup {ClientMsg(s) : s \in SessionIds}
    BY <1>4 DEF EndShare, HostMsg, ClientMsg
  <1>5. CASE m \in {CloseWriter(reason) : reason \in Reasons}
    BY <1>5 DEF CloseWriter
  <1> QED
    BY <1>1, <1>2, <1>3, <1>4, <1>5 DEF Message, Users

LEMMA RestType ==
    ASSUME NEW q \in Seq(SUBSET Message), q # << >>, NEW m
    PROVE  /\ Rest(q, m) \in Seq(SUBSET Message)
           /\ Head(q) = {m} => /\ DOMAIN Rest(q, m) = 1..Len(q) - 1
                               /\ \A i \in DOMAIN Rest(q, m) : Rest(q, m)[i] = q[i + 1]
           /\ Head(q) # {m} => /\ DOMAIN Rest(q, m) = DOMAIN q
                               /\ Rest(q, m)[1] = q[1] \ {m}
                               /\ \A i \in DOMAIN q \ {1} : Rest(q, m)[i] = q[i]
  <1>1. CASE Head(q) = {m}
    BY <1>1 DEF Rest
  <1>2. CASE Head(q) # {m}
    <2>9. Head(q) \in SUBSET Message /\ Tail(q) \in Seq(SUBSET Message)
      OBVIOUS
    <2>1. PICK b \in SUBSET Message : b = Head(q) \ {m}
      BY <2>9
    <2>2. PICK t \in Seq(SUBSET Message) : t = Tail(q)
      BY <2>9
    <2>3. /\ <<b>> \o t \in Seq(SUBSET Message) /\ DOMAIN (<<b>> \o t) = 1..Len(t) + 1
          /\ (<<b>> \o t)[1] = b
          /\ \A i \in 1..Len(t) + 1 : i # 1 => (<<b>> \o t)[i] = t[i - 1]
      OBVIOUS
    <2>4. /\ Len(t) + 1 = Len(q) /\ \A i \in 1..Len(q) : i # 1 => t[i - 1] = q[i]
          /\ DOMAIN q = 1..Len(q) /\ Head(q) = q[1]
      BY <2>2
    <2>5. Rest(q, m) = <<b>> \o t
      BY <1>2, <2>1, <2>2 DEF Rest
    <2>6. PICK r : r = <<b>> \o t
      OBVIOUS
    <2>7. \A i \in DOMAIN q \ {1} : r[i] = q[i]
      BY <2>3, <2>4, <2>6
    <2>8. r[1] = q[1] \ {m} /\ DOMAIN r = DOMAIN q /\ r \in Seq(SUBSET Message)
      BY <2>1, <2>3, <2>4, <2>6
    <2> QED
      BY <1>2, <2>5, <2>6, <2>7, <2>8
  <1> QED
    BY <1>1, <1>2

LEMMA TakeIs ==
    ASSUME PagesTypeOK, NEW c \in Clients, downlink[c] # << >>, NEW m, Take(c, m)
    PROVE  /\ downlink' \in [Clients -> Seq(SUBSET Message)]
           /\ downlink'[c] = Rest(downlink[c], m)
           /\ \A d \in Clients \ {c} : downlink'[d] = downlink[d]
  <1>1. downlink \in [Clients -> Seq(SUBSET Message)]
    BY DEF PagesTypeOK
  <1>2. PICK q \in Seq(SUBSET Message) : q = Rest(downlink[c], m)
    BY <1>1, RestType
  <1>3. downlink' = [downlink EXCEPT ![c] = q]
    BY <1>2 DEF Take, Rest
  <1> QED
    BY <1>1, <1>2, <1>3

(* A page takes a message and becomes p.                                   *)
LEMMA Taking ==
    ASSUME PagesTypeOK, NEW c \in Clients, IsOpen(c), downlink[c] # << >>,
           NEW m \in Head(downlink[c]), m.type # "closewriter", Take(c, m),
           UNCHANGED <<rest, uplink>>,
           NEW p \in Page, page' = [page EXCEPT ![c] = p], p.ws = "in",
           p.stream = page[c].stream,
           m.type = "room" => p.room = m.users,
           m.type # "room" => page[c].ws = "in" /\ p.room = page[c].room
    PROVE  PagesTypeOK' /\ Alone(c) /\ Acts(c)
  <1>1. /\ page' \in [Clients -> Page] /\ page'[c] = p
        /\ \A d \in Clients \ {c} : page'[d] = page[d]
    BY PageSet
  <1>2. /\ downlink' \in [Clients -> Seq(SUBSET Message)]
        /\ downlink'[c] = Rest(downlink[c], m)
        /\ \A d \in Clients \ {c} : downlink'[d] = downlink[d]
    BY TakeIs
  <1>3. uplink' = uplink /\ UNCHANGED <<loop, acts>>
    BY DEF rest
  <1>4. m \in Message
    <2>1. Head(downlink[c]) \in SUBSET Message
      BY Typed
    <2> QED
      BY <2>1
  <1>5. TakesOne(c, m)
    BY <1>1, <1>2 DEF TakesOne
  <1>6. Takes(c) /\ Alone(c)
    BY <1>1, <1>2, <1>3, <1>4, <1>5 DEF Takes, Alone
  <1> QED
    BY <1>1, <1>2, <1>3, <1>6, Steady, Same DEF Acts

LEMMA InHead ==
    ASSUME PagesTypeOK, NEW c \in Clients, downlink[c] # << >>, NEW m \in Head(downlink[c])
    PROVE  m \in Message
  <1>1. Head(downlink[c]) \in SUBSET Message
    BY Typed
  <1> QED
    BY <1>1

LEMMA FirstMessageActs ==
    ASSUME PagesTypeOK, NEW c \in Clients, FirstMessage(c)
    PROVE  PagesTypeOK' /\ Alone(c) /\ Acts(c)
  <1>1. page[c].ws = "open" /\ downlink[c] # << >> /\ IsOpen(c)
    BY DEF FirstMessage, IsOpen
  <1>2. PICK m \in Head(downlink[c]) :
          \/ /\ m.type = "room"
             /\ page' = [page EXCEPT ![c].ws = "in", ![c].room = m.users]
             /\ Take(c, m)
             /\ UNCHANGED <<rest, uplink>>
          \/ /\ m.type \notin {"room", "closewriter"}
             /\ page' = [page EXCEPT ![c] = onclose(@)]
             /\ HangUp(c, uplink[c])
             /\ UNCHANGED rest
    BY DEF FirstMessage
  <1>3. CASE /\ m.type = "room"
             /\ page' = [page EXCEPT ![c].ws = "in", ![c].room = m.users]
             /\ Take(c, m)
             /\ UNCHANGED <<rest, uplink>>
    <2>1. m.users \in Users
      BY <1>1, <1>3, InHead, MessageIs
    <2>2. PICK q \in Page : q = [page[c] EXCEPT !.ws = "in"]
      BY Typed, UpdatesType
    <2>3. PICK p \in Page : p = [q EXCEPT !.room = m.users]
      BY <2>1, UpdatesType
    <2>4. p = [page[c] EXCEPT !.ws = "in", !.room = m.users]
      BY <2>2, <2>3, Typed DEF Page
    <2>5. page' = [page EXCEPT ![c] = p]
      BY <1>3, <2>4
    <2>6. p.ws = "in" /\ p.room = m.users /\ p.stream = page[c].stream
      BY <2>4, Typed DEF Page
    <2> QED
      BY <1>1, <1>3, <2>5, <2>6, Taking
  <1>4. CASE page' = [page EXCEPT ![c] = onclose(@)] /\ HangUp(c, uplink[c]) /\ UNCHANGED rest
    <2>1. PICK p \in Page : p = onclose(page[c]) /\ p.ws = "closed"
      <3>1. onclose(page[c]) \in Page
        BY Typed, CallbacksType
      <3>2. onclose(page[c]).ws = "closed"
        BY Typed DEF onclose, Page
      <3> QED
        BY <3>1, <3>2
    <2>2. /\ page' \in [Clients -> Page] /\ page'[c] = p
          /\ \A d \in Clients \ {c} : page'[d] = page[d]
      BY <1>4, <2>1, PageSet
    <2>3. UNCHANGED loop /\ acts' = acts /\ uplink[c] \in Seq(Up)
      BY <1>4, Typed DEF rest
    <2> QED
      BY <1>4, <2>1, <2>2, <2>3, HangUpIs DEF Acts
  <1> QED
    BY <1>2, <1>3, <1>4

LEMMA ClosedActs ==
    ASSUME PagesTypeOK, NEW c \in Clients, Closed(c)
    PROVE  PagesTypeOK' /\ Alone(c) /\ Acts(c)
  <1>1. PICK p \in Page : p = onclose(page[c]) /\ p.ws = "closed"
    <2>1. onclose(page[c]) \in Page
      BY Typed, CallbacksType
    <2>2. onclose(page[c]).ws = "closed"
      BY Typed DEF onclose, Page
    <2> QED
      BY <2>1, <2>2
  <1>2. /\ page' = [page EXCEPT ![c] = p] /\ UNCHANGED <<loop, acts>>
        /\ downlink' = [downlink EXCEPT ![c] = << >>] /\ uplink' = [uplink EXCEPT ![c] = << >>]
    BY <1>1 DEF Closed, rest
  <1>3. /\ page' \in [Clients -> Page] /\ page'[c] = p
        /\ \A d \in Clients \ {c} : page'[d] = page[d]
    BY <1>1, <1>2, PageSet
  <1>4. /\ uplink' \in [Clients -> Seq(Up)] /\ downlink' \in [Clients -> Seq(SUBSET Message)]
        /\ uplink'[c] = << >> /\ downlink'[c] = << >>
        /\ \A d \in Clients \ {c} : uplink'[d] = uplink[d] /\ downlink'[d] = downlink[d]
    BY <1>2 DEF PagesTypeOK
  <1>5. Refused(c)
    <2>1. 1 \in DOMAIN downlink[c] /\ Head(downlink[c]) = downlink[c][1]
      BY Typed DEF Closed
    <2> QED
      BY <2>1 DEF Closed, Refused, Hears
  <1>6. Drops(c) /\ Alone(c)
    BY <1>1, <1>2, <1>3, <1>4, <1>5 DEF Drops, Alone, Closed
  <1> QED
    BY <1>2, <1>3, <1>4, <1>6, Steady DEF Acts

LEMMA onmessageActs ==
    ASSUME PagesTypeOK, NEW c \in Clients, onmessage(c)
    PROVE  PagesTypeOK' /\ Alone(c) /\ Acts(c)
  <1>1. page[c].ws = "in" /\ downlink[c] # << >> /\ IsOpen(c) /\ UNCHANGED <<rest, uplink>>
    BY DEF onmessage, IsOpen
  <1> DEFINE Becomes(m, p) ==
                \/ m.type = "room" /\ p = onRoom(page[c], m)
                \/ m.type = "hostsession" /\ p = onHostSession(page[c], m)
                \/ m.type = "clientsession" /\ p = onClientSession(page[c], m)
                \/ m.type = "host" /\ p = onHostOffer(page[c], m)
                \/ m.type = "client" /\ p = onClientAnswer(page[c], m)
                \/ m.type = "endshare" /\ p = End(page[c], m.id)
  <1>2. PICK m \in Head(downlink[c]) :
           Take(c, m) /\ \E p : page' = [page EXCEPT ![c] = p] /\ Becomes(m, p)
    BY DEF onmessage
  <1>3. PICK p : page' = [page EXCEPT ![c] = p] /\ Becomes(m, p)
    BY <1>2
  <1>4. m \in Message /\ page[c] \in Page
    BY <1>1, InHead, Typed
  <1>5. /\ p \in Page /\ p.ws = "in" /\ p.stream = page[c].stream
        /\ m.type = "room" => p.room = m.users
        /\ m.type # "room" => p.room = page[c].room
        /\ m.type # "closewriter"
    <2>1. CASE m.type = "room" /\ p = onRoom(page[c], m)
      <3>1. m.users \in Users
        BY <1>4, <2>1, MessageIs
      <3>2. p = [page[c] EXCEPT !.room = m.users]
        BY <2>1 DEF onRoom
      <3>3. p \in Page
        BY <1>4, <3>1, <3>2, UpdatesType
      <3>4. p.ws = page[c].ws /\ p.room = m.users /\ p.stream = page[c].stream
        BY <1>4, <3>2 DEF Page
      <3> QED
        BY <1>1, <2>1, <3>3, <3>4
    <2>2. CASE m.type = "hostsession" /\ p = onHostSession(page[c], m)
      <3>1. m.id \in SessionIds
        BY <1>4, <2>2, MessageIs
      <3>2. CASE page[c].stream
        <4>1. p = [page[c] EXCEPT !.offering = @ \cup {m.id}]
          BY <2>2, <3>2 DEF onHostSession
        <4>2. page[c].offering \cup {m.id} \in SUBSET SessionIds
          BY <1>4, <3>1, PageIs
        <4>8. p \in Page
          BY <1>4, <4>1, <4>2, UpdatesType
        <4>9. p.ws = page[c].ws /\ p.room = page[c].room /\ p.stream = page[c].stream
          BY <1>4, <4>1, UpdatesKeep
        <4> QED
          BY <1>1, <2>2, <4>8, <4>9
      <3>3. CASE ~page[c].stream
        BY <1>1, <1>4, <2>2, <3>3 DEF onHostSession
      <3> QED
        BY <3>2, <3>3
    <2>3. CASE m.type = "clientsession" /\ p = onClientSession(page[c], m)
      <3>1. m.id \in SessionIds
        BY <1>4, <2>3, MessageIs
      <3>2. Assign(page[c].client, m.id, "new") \in PartialFn(SessionIds, {"new", "answered"})
        BY <1>4, <3>1, PageIs, AssignType
      <3>3. p = [page[c] EXCEPT !.client = Assign(page[c].client, m.id, "new")]
        BY <2>3 DEF onClientSession
      <3>8. p \in Page
        BY <1>4, <3>2, <3>3, UpdatesType
      <3>9. p.ws = page[c].ws /\ p.room = page[c].room /\ p.stream = page[c].stream
        BY <1>4, <3>3, UpdatesKeep
      <3> QED
        BY <1>1, <2>3, <3>8, <3>9
    <2>4. CASE m.type = "host" /\ p = onHostOffer(page[c], m)
      <3>1. m.id \in SessionIds
        BY <1>4, <2>4, MessageIs
      <3>2. p = [page[c] EXCEPT !.answering = @ \cup {m.id}]
        BY <2>4 DEF onHostOffer
      <3>3. page[c].answering \cup {m.id} \in SUBSET SessionIds
        BY <1>4, <3>1, PageIs
      <3>8. p \in Page
        BY <1>4, <3>2, <3>3, UpdatesType
      <3>9. p.ws = page[c].ws /\ p.room = page[c].room /\ p.stream = page[c].stream
        BY <1>4, <3>2, UpdatesKeep
      <3> QED
        BY <1>1, <2>4, <3>8, <3>9
    <2>5. CASE m.type = "client" /\ p = onClientAnswer(page[c], m)
      <3>1. CASE m.id \in DOMAIN page[c].host
        <4>1. [page[c].host EXCEPT ![m.id] = "connected"]
                 \in PartialFn(SessionIds, {"offered", "connected"})
          BY <1>4, <3>1, PageIs, UpdateType
        <4>2. p = [page[c] EXCEPT !.host = [page[c].host EXCEPT ![m.id] = "connected"]]
          BY <2>5, <3>1 DEF onClientAnswer
        <4>8. p \in Page
          BY <1>4, <4>1, <4>2, UpdatesType
        <4>9. p.ws = page[c].ws /\ p.room = page[c].room /\ p.stream = page[c].stream
          BY <1>4, <4>2, UpdatesKeep
        <4> QED
          BY <1>1, <2>5, <4>8, <4>9
      <3>2. CASE m.id \notin DOMAIN page[c].host
        BY <1>1, <1>4, <2>5, <3>2 DEF onClientAnswer
      <3> QED
        BY <3>1, <3>2
    <2>6. CASE m.type = "endshare" /\ p = End(page[c], m.id)
      <3>1. m.id \in SessionIds
        BY <1>4, <2>6, MessageIs
      <3> QED
        BY <1>1, <1>4, <2>6, <3>1, CallbacksType, CallbacksKeep
    <2> QED
      BY <1>3, <2>1, <2>2, <2>3, <2>4, <2>5, <2>6
  <1> QED
    BY <1>1, <1>2, <1>3, <1>5, Taking

(* Whatever happens to a page is one of the six.                           *)
Moves(c) ==
    \/ Enter(c) \/ onopen(c) \/ Break(c) \/ Reload(c)
    \/ share(c) \/ Captured(c) \/ PickCancelled(c) \/ stopShare(c)
    \/ exitRoom(c) \/ dissolveRoom(c) \/ setName(c) \/ ownerAction(c)
    \/ \E s \in SessionIds : OfferReady(c, s) \/ AnswerReady(c, s)
    \/ \E s \in SessionIds : PeerLost(c, s) \/ PeerFails(c, s)
    \/ FirstMessage(c) \/ onmessage(c) \/ Closed(c)

LEMMA MovesAct ==
    ASSUME PagesTypeOK, NEW c \in Clients, Moves(c)
    PROVE  PagesTypeOK' /\ Alone(c) /\ Acts(c)
  BY EnterActs, onopenActs, BreakActs, shareActs, CapturedActs, stopShareActs, QuitActs,
     AskingActs, OfferReadyActs, AnswerReadyActs, PeerLostActs, PeerFailsActs, FirstMessageActs,
     onmessageActs, ClosedActs DEF Moves
-----------------------------------------------------------------------------
(* What the loop does *)

(* Who is connected after a step, and in which room.                       *)
LEMMA KindConnects ==
    ASSUME NEW c \in Clients, NEW S, Kind(c, S), NEW d \in DOMAIN connected'
    PROVE  \/ d \in DOMAIN connected /\ connected'[d] = connected[d]
           \/ d = c /\ d \in DOMAIN connected /\ connected[d] = NoRoom
           \/ d = c /\ Arrives(c)
  <1>1. CASE connected' = connected
    BY <1>1
  <1>2. ASSUME NEW T, connected' = Without(connected, T)
        PROVE  d \in DOMAIN connected /\ connected'[d] = connected[d]
    <2>1. PICK left : left = Without(connected, T)
      OBVIOUS
    <2>2. \A x \in DOMAIN left : x \in DOMAIN connected /\ left[x] = connected[x]
      BY <2>1 DEF Without, Restrict
    <2> QED
      BY <1>2, <2>1, <2>2
  <1>3. CASE Arrives(c)
    BY <1>3 DEF Arrives, Assign
  <1>4. ASSUME NEW id, c \in DOMAIN connected, connected[c] = NoRoom,
               connected' = [connected EXCEPT ![c] = id]
        PROVE  \/ d \in DOMAIN connected /\ connected'[d] = connected[d]
               \/ d = c /\ d \in DOMAIN connected /\ connected[d] = NoRoom
    BY <1>4
  <1>5. ASSUME NEW id, Idles \/ Resets(id) \/ Starts(c, id) PROVE connected' = connected
    BY <1>5 DEF Idles, Resets, Starts
  <1>6. ASSUME NEW e, NEW id, HangsUp(c) \/ Departs(c, id) \/ Dissolves(c, id) \/ Expels(c, e, id)
        PROVE  \E T : connected' = Without(connected, T)
    BY <1>6 DEF HangsUp, Departs, Dissolves, Expels
  <1>7. ASSUME NEW id, Opens(c, id) \/ Joins(c, id)
        PROVE  /\ c \in DOMAIN connected /\ connected[c] = NoRoom
               /\ connected' = [connected EXCEPT ![c] = id]
    BY <1>7 DEF Opens, Joins
  <1> QED
    BY <1>1, <1>2, <1>3, <1>4, <1>5, <1>6, <1>7 DEF Kind

(* Nobody starts to present but those of S.                                *)
LEMMA RoomPerforms ==
    ASSUME NEW id, NEW d,
           \A r \in DOMAIN rooms' \ {id} : r \in DOMAIN rooms /\ rooms'[r] = rooms[r],
           id \in DOMAIN rooms' /\ d \in Presenters(rooms'[id].users) =>
              id \in DOMAIN rooms /\ d \in Presenters(rooms[id].users),
           Performs(d)'
    PROVE  Performs(d)
  <1>1. PICK r \in DOMAIN rooms' : d \in Presenters(rooms'[r].users)
    BY DEF Performs
  <1>2. CASE r = id
    BY <1>1, <1>2 DEF Performs
  <1>3. CASE r # id
    BY <1>1, <1>3 DEF Performs
  <1> QED
    BY <1>2, <1>3

LEMMA KindPerforms ==
    ASSUME TypeOK, NEW c \in Clients, NEW S, Kind(c, S), NEW d \in Clients \ S, Performs(d)'
    PROVE  Performs(d)
  <1>1. CASE rooms' = rooms
    BY <1>1 DEF Performs
  <1>2. ASSUME NEW id, rooms' = Without(rooms, {id}) PROVE Performs(d)
    <2>1. DOMAIN rooms' = DOMAIN rooms \ {id} /\ \A r \in DOMAIN rooms' : rooms'[r] = rooms[r]
      BY <1>2 DEF Without, Restrict
    <2> QED
      BY <2>1 DEF Performs
  <1>3. ASSUME NEW id, NEW room, id \in DOMAIN rooms, rooms' = [rooms EXCEPT ![id] = room],
               d \in Presenters(room.users) => d \in Presenters(rooms[id].users)
        PROVE  Performs(d)
    <2>1. DOMAIN rooms' = DOMAIN rooms /\ rooms'[id] = room
            /\ \A r \in DOMAIN rooms \ {id} : rooms'[r] = rooms[r]
      BY <1>3
    <2> QED
      BY <1>3, <2>1, RoomPerforms
  <1>4. ASSUME NEW id, id \in DOMAIN rooms
        PROVE  /\ rooms[id].users \in Users
               /\ \A u \in DOMAIN rooms[id].users : rooms[id].users[u] \in User
    <2>1. rooms[id].users \in Users
      BY <1>4, RoomMapType, RoomType DEF TypeOK
    <2> QED
      BY <2>1, PartialFnIs DEF Users
  <1>5. ASSUME NEW id, Departs(c, id) PROVE Performs(d)
    <2>1. CASE LastLeaves(c, id, rooms, gauge)
      BY <1>2, <2>1 DEF LastLeaves
    <2>2. CASE OneLeaves(c, id, rooms, gauge)
      <3>1. PICK room \in Room : /\ rooms' = [rooms EXCEPT ![id] = room]
                                 /\ room.users \in Successions(rooms[id].users, c)
        BY <2>2 DEF OneLeaves
      <3>2. /\ DOMAIN room.users = DOMAIN rooms[id].users \ {c}
            /\ \A u \in DOMAIN room.users : room.users[u].Streaming = rooms[id].users[u].Streaming
        <4>1. rooms[id].users \in Users /\ c \in DOMAIN rooms[id].users
          BY <1>4, <1>5 DEF Departs
        <4>2. PICK users \in Users : users = rooms[id].users
          BY <4>1
        <4>3. PICK heirs \in Successions(users, c) : heirs = room.users
          BY <3>1, <4>2
        <4>4. c \in DOMAIN users
          BY <4>1, <4>2
        <4>5. /\ DOMAIN heirs = DOMAIN users \ {c}
              /\ \A u \in DOMAIN heirs : /\ users[u].Owner => heirs[u].Owner
                                         /\ heirs[u].Streaming = users[u].Streaming
          BY <4>4, SuccessionKeeps, Zenon
        <4> QED
          BY <4>2, <4>3, <4>5
      <3>3. d \in Presenters(room.users) => d \in Presenters(rooms[id].users)
        BY <3>2 DEF Presenters
      <3> QED
        BY <1>3, <1>5, <3>1, <3>3 DEF Departs
    <2> QED
      BY <1>5, <2>1, <2>2 DEF Departs, Leaves
  <1>6. ASSUME NEW id, Opens(c, id) PROVE Performs(d)
    <2>1. PICK room : /\ rooms' = Assign(rooms, id, room)
                      /\ room.users = Assign(EmptyMap, c, NewUser(TRUE))
      BY <1>6 DEF Opens
    <2>2. rooms'[id] = room /\ \A r \in DOMAIN rooms' \ {id} : r \in DOMAIN rooms /\ rooms'[r] = rooms[r]
      BY <2>1 DEF Assign
    <2>3. d \notin Presenters(room.users)
      <3>1. Assign(EmptyMap, c, NewUser(TRUE)) = [y \in {c} |-> NewUser(TRUE)]
        BY DEF Assign, EmptyMap
      <3>2. ~NewUser(TRUE).Streaming
        BY DEF NewUser
      <3> QED
        BY <2>1, <3>1, <3>2 DEF Presenters
    <2> QED
      BY <2>2, <2>3, RoomPerforms
  <1>7. ASSUME NEW id, Joins(c, id) PROVE Performs(d)
    <2>1. PICK room, new : /\ Extends(id, room, new)
                           /\ room.users = Assign(rooms[id].users, c, NewUser(FALSE))
      BY <1>7 DEF Joins
    <2>2. id \in DOMAIN rooms /\ rooms' = [rooms EXCEPT ![id] = room]
      BY <2>1 DEF Extends, Changes
    <2>3. d \in Presenters(room.users) => d \in Presenters(rooms[id].users)
      BY <2>1 DEF Presenters, Assign, NewUser
    <2> QED
      BY <1>3, <2>2, <2>3
  <1>8. ASSUME NEW id, c \in S, Starts(c, id) PROVE Performs(d)
    <2>1. PICK room, new : /\ Extends(id, room, new)
                           /\ room.users = [rooms[id].users EXCEPT ![c].Streaming = TRUE]
      BY <1>8 DEF Starts
    <2>2. id \in DOMAIN rooms /\ rooms' = [rooms EXCEPT ![id] = room] /\ d # c
      BY <1>8, <2>1 DEF Extends, Changes
    <2>3. d \in Presenters(room.users) => d \in Presenters(rooms[id].users)
      BY <2>1, <2>2 DEF Presenters
    <2> QED
      BY <1>3, <2>2, <2>3
  <1>9. ASSUME NEW id, Resets(id) PROVE Performs(d)
    <2>1. PICK room, ended : /\ Shrinks(id, room, {}, ended)
                             /\ Presenters(room.users) \subseteq Presenters(rooms[id].users)
      BY <1>9 DEF Resets
    <2> QED
      BY <1>3, <2>1 DEF Shrinks, Changes
  <1>10. ASSUME NEW e, NEW id, Expels(c, e, id) PROVE Performs(d)
    <2>1. PICK room : /\ Shrinks(id, room, {e}, Involving(rooms[id], e))
                      /\ room.users = Without(rooms[id].users, {e})
      BY <1>10 DEF Expels
    <2>2. d \in Presenters(room.users) => d \in Presenters(rooms[id].users)
      BY <2>1 DEF Presenters, Without, Restrict
    <2> QED
      BY <1>3, <2>1, <2>2 DEF Shrinks, Changes
  <1>11. ASSUME NEW id, Dissolves(c, id) PROVE Performs(d)
    BY <1>2, <1>11 DEF Dissolves
  <1>12. CASE Idles \/ Arrives(c) \/ HangsUp(c)
    BY <1>1, <1>12 DEF Idles, Arrives, HangsUp
  <1> QED
    BY <1>5, <1>6, <1>7, <1>8, <1>9, <1>10, <1>11, <1>12 DEF Kind

(* Whoever is not connected is in no room, and presents nowhere.           *)
LEMMA AbsentPerforms ==
    ASSUME Safe, NEW c, c \notin DOMAIN connected
    PROVE  ~Performs(c) /\ \A r \in DOMAIN rooms : c \notin DOMAIN rooms[r].users
  BY DEF Safe, SafeMaps, Agree, Performs, Presenters

(* Who has said that it stops presents no more.                            *)
LEMMA StopSharePerforms ==
    ASSUME TypeOK, Safe, Safe', NEW c \in DOMAIN connected, StopShare(c)
    PROVE  ~Performs(c)'
  <1>1. CASE Refuse(c)
    <2>1. connected' = Without(connected, {c})
      BY <1>1 DEF Refuse, Leave, executeNoError
    <2>2. c \notin DOMAIN connected'
      <3>1. DOMAIN Without(connected, {c}) = DOMAIN connected \ {c}
        BY GoneIs
      <3> QED
        BY <2>1, <3>1
    <2>3. \A r \in DOMAIN rooms' : c \notin DOMAIN rooms'[r].users
      BY <2>2 DEF Safe, SafeMaps, Agree
    <2> QED
      BY <2>3 DEF Performs, Presenters
  <1>2. ASSUME HasRoom(c), connected' = connected, NEW out,
               CloseAndNotify(connected[c], StopStreaming(CurrentRoom(c), c),
                              HostedBy(CurrentRoom(c), c), 0, out)
        PROVE  ~Performs(c)'
    <2>1. CurrentRoom(c) \in Room /\ c \in DOMAIN CurrentRoom(c).users /\ connected[c] \in DOMAIN rooms
      BY <1>2, InCurrentRoom
    <2>2. \E users \in Users :
              /\ StopStreaming(CurrentRoom(c), c) = [CurrentRoom(c) EXCEPT !.users = users]
              /\ DOMAIN users = DOMAIN CurrentRoom(c).users
              /\ \A u \in DOMAIN users : /\ users[u].Owner = CurrentRoom(c).users[u].Owner
                                         /\ users[u].CanShare = CurrentRoom(c).users[u].CanShare
              /\ Presenters(users) = Presenters(CurrentRoom(c).users) \ {c}
      BY <2>1, StopStreamingIs, Zenon
    <2>3. PICK users \in Users :
              /\ StopStreaming(CurrentRoom(c), c) = [CurrentRoom(c) EXCEPT !.users = users]
              /\ Presenters(users) = Presenters(CurrentRoom(c).users) \ {c}
      BY <2>2, ZenonT(60)
    <2>4. PICK room \in Room : room = [CurrentRoom(c) EXCEPT !.users = users]
      BY <2>1, RoomType
    <2>5. room.users = users
      BY <2>1, <2>4 DEF Room
    <2>6. PICK after : after = [room EXCEPT !.sessions = Without(@, HostedBy(CurrentRoom(c), c))]
      OBVIOUS
    <2>7. after.users = users
      BY <2>5, <2>6 DEF Room
    <2>8. rooms' = [rooms EXCEPT ![connected[c]] = after]
      BY <1>2, <2>3, <2>4, <2>6 DEF CloseAndNotify
    <2>9. rooms'[connected[c]].users = users
      BY <2>1, <2>7, <2>8
    <2>10. ASSUME NEW r \in DOMAIN rooms', c \in DOMAIN rooms'[r].users
           PROVE  r = connected[c]
      BY <1>2, <2>10 DEF Safe, SafeMaps, Agree
    <2> QED
      BY <2>3, <2>9, <2>10 DEF Performs, Presenters
  <1> QED
    BY <1>1, <1>2 DEF StopShare

LEMMA IgnoreStep ==
    ASSUME TypeOK, Safe, NEW c, c \notin DOMAIN connected, Ignore
    PROVE  TypeOK' /\ Safe' /\ Orderly(c, {}) /\ connected' = connected
  <1>1. outbox' = Quiet /\ UNCHANGED <<connected, rooms, lookup, gauge, panicked>>
    BY DEF Ignore
  <1>2. TypeOK'
    BY <1>1, QuietType DEF TypeOK, IsRoomMap
  <1>3. Safe'
    BY <1>1 DEF Safe, NoPanic, SafeMaps, Agree, IdsDisjoint, NamesOf
  <1>4. Kind(c, {}) /\ AnswersFirst(c)
    BY <1>1 DEF Kind, Idles, AnswersFirst
  <1>5. DOMAIN connected \ DOMAIN connected' = {} /\ {} \subseteq Hearers(c)
    BY <1>1
  <1>6. Closes /\ Roomless(outbox') /\ Reaches(outbox', {})
    BY <1>1, <1>5, QuietIs, QuietRoomless DEF Closes
  <1>7. \A r \in DOMAIN rooms' : r \in DOMAIN rooms /\ rooms'[r].users = rooms[r].users
    BY <1>1
  <1>8. Orderly(c, {})
    BY <1>4, <1>5, <1>6, <1>7, Unannounced
  <1> QED
    BY <1>1, <1>2, <1>3, <1>8

(* What a page asks for is a message of its connection to the loop.        *)
LEMMA HandleIs ==
    ASSUME NEW c \in Clients, NEW m \in Up, Handle(c, m)
    PROVE  /\ m.type = "share" => StartShare(c)
           /\ m.type # "share" => Chore(c)
           /\ m.type = "stopshare" => StopShare(c)
           /\ m.type = "gone" => Disconnected(c)
           /\ m.type = "hostoffer" => HostRelay(c, m.id)
           /\ m.type = "clientanswer" => ClientRelay(c, m.id)
  <1>1. /\ m.type \in {"hostoffer", "clientanswer"} => m.id \in SessionIds
        /\ m.type \in {"stop_share", "toggle_share_permission", "kick", "ban"} =>
              m.target \in Clients
    BY UpIs
  <1>2. authModeToRoomMode(c) \in Modes /\ TRUE \in BOOLEAN
    BY PagesAssumption
  <1>3. CASE m.type = "create" /\ \E id \in RoomIds, leave \in OwnerLeaveChoices :
                                     Create(c, id, authModeToRoomMode(c), leave, TRUE)
    BY <1>2, <1>3 DEF Chore
  <1>4. CASE m.type # "create"
    BY <1>1, <1>4 DEF Handle, Chore
  <1> QED
    BY <1>3, <1>4 DEF Handle

(* The wires when the loop takes a message of c.                           *)
Serves(c) ==
    /\ uplink[c] # << >> /\ uplink'[c] = Tail(uplink[c]) /\ page' = page
    /\ \A d \in Clients \ {c} : uplink'[d] = uplink[d]
    /\ \A d \in Clients : /\ page[d].ws = "closed" => downlink'[d] = << >>
                          /\ page[d].ws # "closed" => downlink'[d] = downlink[d] \o outbox'[d]
    /\ (UsedIds(rooms') \ UsedIds(rooms)) \cap Mentioned = {}

LEMMA ServeStep ==
    ASSUME RoomIdsAreNames, PagesTypeOK, Safe, NEW c \in Clients, Serve(c),
           NEW m \in Up, m = Head(uplink[c])
    PROVE  /\ TypeOK' /\ Safe' /\ Orderly(c, {c})
           /\ m.type # "share" => Orderly(c, {})
           /\ m.type = "connected" => Connected(c)
           /\ m.type # "connected" => DOMAIN connected' \subseteq DOMAIN connected
           /\ m.type = "stopshare" => ~Performs(c)'
           /\ m.type = "gone" => c \notin DOMAIN connected'
           /\ m.type # "connected" /\ c \notin DOMAIN connected => Ignore
           /\ m.type # "connected" /\ c \in DOMAIN connected => Handle(c, m)
  <1>1. TypeOK
    BY Typed
  <1>2. ASSUME m.type = "connected", Connected(c)
        PROVE  TypeOK' /\ Safe' /\ Orderly(c, {c}) /\ Orderly(c, {})
    BY <1>1, <1>2, ConnectedType, ConnectedSafe, ConnectedStep, MoreKinds
  <1>3. ASSUME c \notin DOMAIN connected, Ignore
        PROVE  /\ TypeOK' /\ Safe' /\ Orderly(c, {c}) /\ Orderly(c, {})
               /\ connected' = connected /\ ~Performs(c)'
    <2>1. TypeOK' /\ Safe' /\ Orderly(c, {}) /\ connected' = connected
      BY <1>1, <1>3, IgnoreStep
    <2>2. ~Performs(c)'
      BY <1>3, AbsentPerforms DEF Ignore, Performs
    <2> QED
      BY <2>1, <2>2, MoreKinds
  <1>4. ASSUME c \in DOMAIN connected, Handle(c, m), m.type # "connected"
        PROVE  /\ TypeOK' /\ Safe' /\ Orderly(c, {c})
               /\ m.type # "share" => Orderly(c, {})
               /\ DOMAIN connected' \subseteq DOMAIN connected
               /\ m.type = "stopshare" => ~Performs(c)'
               /\ m.type = "gone" => c \notin DOMAIN connected'
    <2>1. /\ m.type = "share" => StartShare(c)
          /\ m.type # "share" => Chore(c)
          /\ m.type = "stopshare" => StopShare(c)
          /\ m.type = "gone" => Disconnected(c)
      BY <1>4, HandleIs
    <2>2. Execute(c)
      BY <2>1, ExecuteIs
    <2>3. TypeOK' /\ Safe' /\ Orderly(c, {c})
      BY <1>1, <1>4, <2>2, ExecuteType, ExecuteSafe, ExecuteStep
    <2>4. m.type # "share" => Orderly(c, {})
      BY <1>1, <1>4, <2>1, ChoreStep
    <2>5. DOMAIN connected' \subseteq DOMAIN connected
      BY <1>4, <2>3, KindConnects DEF Orderly, Arrives
    <2>6. m.type = "stopshare" => ~Performs(c)'
      BY <1>1, <1>4, <2>1, <2>3, StopSharePerforms
    <2>7. ASSUME Disconnected(c) PROVE c \notin DOMAIN connected'
      <3>1. connected' = Without(connected, {c})
        BY <2>7 DEF Disconnected, Leave, executeNoError
      <3>2. DOMAIN Without(connected, {c}) = DOMAIN connected \ {c}
        BY GoneIs
      <3> QED
        BY <3>1, <3>2
    <2> QED
      BY <2>1, <2>3, <2>4, <2>5, <2>6, <2>7
  <1>5. \/ m.type = "connected" /\ Connected(c)
        \/ m.type # "connected" /\ c \notin DOMAIN connected /\ Ignore
        \/ m.type # "connected" /\ c \in DOMAIN connected /\ Handle(c, m)
    BY DEF Serve
  <1>6. CASE m.type = "connected" /\ Connected(c)
    BY <1>2, <1>6
  <1>7. CASE m.type # "connected" /\ c \notin DOMAIN connected /\ Ignore
    BY <1>3, <1>7 
  <1>8. CASE m.type # "connected" /\ c \in DOMAIN connected /\ Handle(c, m)
    BY <1>4, <1>8
  <1> QED
    BY <1>5, <1>6, <1>7, <1>8

LEMMA ServeWires ==
    ASSUME PagesTypeOK, TypeOK', NEW c \in Clients, Serve(c)
    PROVE  /\ PagesTypeOK' /\ Serves(c)
           /\ \E m \in Up : m = Head(uplink[c])
  <1>1. /\ uplink \in [Clients -> Seq(Up)] /\ downlink \in [Clients -> Seq(SUBSET Message)]
        /\ outbox' \in [Clients -> Seq(SUBSET Message)]
    BY DEF PagesTypeOK, TypeOK, Outbox
  <1>2. /\ uplink[c] # << >> /\ uplink' = [uplink EXCEPT ![c] = Tail(@)]
        /\ Arrive /\ UNCHANGED <<page, acts>>
        /\ (UsedIds(rooms') \ UsedIds(rooms)) \cap Mentioned = {}
    BY DEF Serve
  <1>3. Tail(uplink[c]) \in Seq(Up) /\ Head(uplink[c]) \in Up
    BY <1>1, <1>2
  <1>4. /\ uplink' \in [Clients -> Seq(Up)] /\ uplink'[c] = Tail(uplink[c])
        /\ \A d \in Clients \ {c} : uplink'[d] = uplink[d]
    <2>1. PICK q \in Seq(Up) : q = Tail(uplink[c])
      BY <1>3
    <2>2. uplink' = [uplink EXCEPT ![c] = q]
      BY <1>2, <2>1
    <2> QED
      BY <1>1, <2>1, <2>2
  <1>5. /\ \A d \in Clients : /\ page[d].ws = "closed" => downlink'[d] = << >>
                              /\ page[d].ws # "closed" => downlink'[d] = downlink[d] \o outbox'[d]
        /\ downlink' \in [Clients -> Seq(SUBSET Message)]
    <2>1. \A d \in Clients : downlink[d] \o outbox'[d] \in Seq(SUBSET Message)
      BY <1>1
    <2>2. << >> \in Seq(SUBSET Message)
      OBVIOUS
    <2> DEFINE Gets(d) == IF page[d].ws = "closed" THEN << >> ELSE downlink[d] \o outbox'[d]
    <2>3. downlink' = [d \in Clients |-> Gets(d)]
      BY <1>2 DEF Arrive
    <2>4. \A d \in Clients : Gets(d) \in Seq(SUBSET Message)
      BY <2>1, <2>2
    <2>5. \A d \in Clients : /\ page[d].ws = "closed" => Gets(d) = << >>
                             /\ page[d].ws # "closed" => Gets(d) = downlink[d] \o outbox'[d]
      OBVIOUS
    <2> HIDE DEF Gets
    <2> QED
      BY <2>3, <2>4, <2>5
  <1>6. Serves(c)
    BY <1>2, <1>4, <1>5 DEF Serves
  <1>7. PagesTypeOK'
    BY <1>2, <1>4, <1>5 DEF PagesTypeOK
  <1> QED
    BY <1>3, <1>6, <1>7
-----------------------------------------------------------------------------
(* Queues *)

LEMMA AsksNothing == \A t : Asks(<< >>, t) = {} /\ Hears(<< >>, t) = {}
  BY DEF Asks, Hears

LEMMA AsksAppend ==
    ASSUME NEW q \in Seq(Up), NEW m, NEW t
    PROVE  /\ m.type # t => Asks(Append(q, m), t) = Asks(q, t)
           /\ m.type = t => Asks(Append(q, m), t) = Asks(q, t) \cup {Len(q) + 1}
           /\ \A i \in Asks(q, t) : i \in 1..Len(q)
  <1>1. /\ DOMAIN Append(q, m) = DOMAIN q \cup {Len(q) + 1}
        /\ \A i \in DOMAIN q : Append(q, m)[i] = q[i]
        /\ Append(q, m)[Len(q) + 1] = m
        /\ DOMAIN q = 1..Len(q) /\ Len(q) + 1 \notin DOMAIN q
    OBVIOUS
  <1>2. PICK new, n : new = Append(q, m) /\ n = Len(q) + 1
    OBVIOUS
  <1>3. /\ m.type # t => Asks(new, t) = Asks(q, t)
        /\ m.type = t => Asks(new, t) = Asks(q, t) \cup {n}
    BY <1>1, <1>2 DEF Asks
  <1>4. \A i \in Asks(q, t) : i \in 1..Len(q)
    BY <1>1 DEF Asks
  <1> QED
    BY <1>2, <1>3, <1>4

LEMMA AsksTail ==
    ASSUME NEW q \in Seq(Up), q # << >>, NEW t
    PROVE  /\ \A i : i \in Asks(Tail(q), t) <=> (i \in Nat \ {0} /\ i + 1 \in Asks(q, t))
           /\ \A i \in Asks(q, t) : i = 1 \/ (i - 1 \in Nat \ {0} /\ i - 1 \in Asks(Tail(q), t))
           /\ 1 \in Asks(q, t) <=> Head(q).type = t
           /\ Asks(q, t) \subseteq Nat \ {0}
  <1>1. /\ DOMAIN Tail(q) = 1..Len(q) - 1 /\ DOMAIN q = 1..Len(q)
        /\ \A i \in DOMAIN Tail(q) : Tail(q)[i] = q[i + 1]
        /\ Head(q) = q[1] /\ Len(q) \in Nat \ {0}
    OBVIOUS
  <1>2. PICK n \in Nat \ {0} : n = Len(q)
    BY <1>1
  <1>3. PICK h, left : h = Head(q) /\ left = Tail(q)
    OBVIOUS
  <1>4. /\ DOMAIN left = 1..n - 1 /\ DOMAIN q = 1..n /\ h = q[1]
        /\ \A i \in 1..n - 1 : left[i] = q[i + 1]
    BY <1>1, <1>2, <1>3
  <1>5. \A i : i \in Asks(left, t) <=> (i \in 1..n - 1 /\ q[i + 1].type = t)
    BY <1>4 DEF Asks
  <1>6. \A i : i \in Asks(q, t) <=> (i \in 1..n /\ q[i].type = t)
    BY <1>4 DEF Asks
  <1>7. \A i : i \in Asks(left, t) <=> (i \in Nat \ {0} /\ i + 1 \in Asks(q, t))
    BY <1>5, <1>6
  <1>8. ASSUME NEW i \in Asks(q, t), i # 1 PROVE i - 1 \in Nat \ {0} /\ i - 1 \in Asks(left, t)
    <2>1. i \in 1..n /\ q[i].type = t
      BY <1>6, <1>8
    <2>2. i - 1 \in 1..n - 1 /\ (i - 1) + 1 = i
      BY <1>8, <2>1
    <2> QED
      BY <1>5, <2>1, <2>2
  <1> QED
    BY <1>3, <1>4, <1>6, <1>7, <1>8

(* The first part of what is on its way is as before, the second is new.   *)
LEMMA HearsMore ==
    ASSUME NEW q \in Seq(SUBSET Message), NEW o \in Seq(SUBSET Message), NEW t
    PROVE  /\ \A i \in Hears(q, t) : i \in Hears(q \o o, t) /\ i <= Len(q) /\ (q \o o)[i] = q[i]
           /\ \A i \in Hears(o, t) : i + Len(q) \in Hears(q \o o, t)
                                       /\ (q \o o)[i + Len(q)] = o[i]
           /\ \A i \in Hears(q \o o, t) : i \in Hears(q, t) \/ i - Len(q) \in Hears(o, t)
           /\ Hears(q, t) \subseteq Nat \ {0} /\ Hears(o, t) \subseteq Nat \ {0}
           /\ Len(q) \in Nat
  <1>1. PICK n \in Nat, k \in Nat : n = Len(q) /\ k = Len(o)
    OBVIOUS
  <1>2. PICK both : both = q \o o
    OBVIOUS
  <1>3. /\ DOMAIN both = 1..n + k /\ DOMAIN q = 1..n /\ DOMAIN o = 1..k
        /\ \A i \in 1..n : both[i] = q[i]
        /\ \A i \in 1..k : both[i + n] = o[i]
    BY <1>1, <1>2
  <1>4. \A i \in 1..n + k : i \in 1..n \/ i - n \in 1..k
    BY <1>1
  <1>5. /\ \A i \in Hears(q, t) : i \in Hears(both, t) /\ i <= n /\ both[i] = q[i]
        /\ \A i \in Hears(o, t) : i + n \in Hears(both, t) /\ both[i + n] = o[i]
    <2>1. ASSUME NEW i \in Hears(q, t)
          PROVE  i \in Hears(both, t) /\ i <= n /\ both[i] = q[i]
      BY <1>1, <1>3 DEF Hears
    <2>2. ASSUME NEW i \in Hears(o, t)
          PROVE  i + n \in Hears(both, t) /\ both[i + n] = o[i]
      <3>1. i \in 1..k /\ \E m \in o[i] : m.type = t
        BY <1>3 DEF Hears
      <3>2. PICK j \in 1..n + k : j = i + n
        BY <1>1, <3>1
      <3>3. both[j] = o[i]
        BY <1>3, <3>1, <3>2
      <3>4. j \in Hears(both, t)
        BY <1>3, <3>1, <3>3 DEF Hears
      <3> QED
        BY <3>2, <3>3, <3>4
    <2> QED
      BY <2>1, <2>2
  <1>6. ASSUME NEW i \in Hears(both, t) PROVE i \in Hears(q, t) \/ i - n \in Hears(o, t)
    <2>1. i \in 1..n + k /\ \E m \in both[i] : m.type = t
      BY <1>3 DEF Hears
    <2>2. CASE i \in 1..n
      BY <1>3, <2>1, <2>2 DEF Hears
    <2>3. CASE i - n \in 1..k
      <3>4. PICK j \in 1..k : j = i - n
        BY <2>3
      <3>1. j = i - n /\ i = j + n
        BY <1>1, <2>1, <3>4
      <3>2. \E m \in o[j] : m.type = t
        BY <1>3, <2>1, <3>1
      <3> QED
        BY <1>3, <3>1, <3>2 DEF Hears
    <2> QED
      BY <1>4, <2>1, <2>2, <2>3
  <1>7. Hears(q, t) \subseteq Nat \ {0} /\ Hears(o, t) \subseteq Nat \ {0}
    BY <1>3 DEF Hears
  <1> QED
    BY <1>1, <1>2, <1>5, <1>6, <1>7

(* What is left when m has been taken.                                     *)
LEMMA HearsRest ==
    ASSUME NEW q \in Seq(SUBSET Message), q # << >>, NEW m \in Head(q), NEW t
    PROVE  /\ m.type # t /\ Hears(q, t) # {} => Hears(Rest(q, m), t) # {}
           /\ Hears(q, t) = {} => Hears(Rest(q, m), t) = {}
  <1>1. PICK r \in Seq(SUBSET Message) : r = Rest(q, m)
    BY RestType
  <1>2. /\ Head(q) = {m} => /\ DOMAIN r = 1..Len(q) - 1
                            /\ \A i \in DOMAIN r : r[i] = q[i + 1]
        /\ Head(q) # {m} => /\ DOMAIN r = DOMAIN q /\ r[1] = q[1] \ {m}
                            /\ \A i \in DOMAIN q \ {1} : r[i] = q[i]
    BY <1>1, RestType
  <1>3. DOMAIN q = 1..Len(q) /\ Len(q) \in Nat \ {0} /\ Head(q) = q[1]
    OBVIOUS
  <1>4. CASE Head(q) = {m}
    <2>1. ASSUME NEW i \in Hears(q, t), m.type # t PROVE i - 1 \in Hears(r, t)
      <3>1. i \in 1..Len(q) /\ \E x \in q[i] : x.type = t
        BY <1>3 DEF Hears
      <3>2. i # 1
        BY <1>3, <1>4, <2>1, <3>1
      <3>3. i - 1 \in DOMAIN r /\ r[i - 1] = q[i]
        BY <1>2, <1>3, <1>4, <3>1, <3>2
      <3> QED
        BY <3>1, <3>3 DEF Hears
    <2>2. ASSUME NEW i \in Hears(r, t) PROVE i + 1 \in Hears(q, t)
      BY <1>2, <1>3, <1>4 DEF Hears
    <2> QED
      BY <1>1, <2>1, <2>2
  <1>5. CASE Head(q) # {m}
    <2>1. ASSUME NEW i \in Hears(q, t), m.type # t PROVE i \in Hears(r, t)
      BY <1>2, <1>3, <1>5, <2>1 DEF Hears
    <2>2. ASSUME NEW i \in Hears(r, t) PROVE i \in Hears(q, t)
      BY <1>2, <1>3, <1>5 DEF Hears
    <2> QED
      BY <1>1, <2>1, <2>2
  <1> QED
    BY <1>4, <1>5

LEMMA SpeaksRest ==
    ASSUME NEW q \in Seq(SUBSET Message), q # << >>, NEW m \in Head(q), NEW users,
           Speaks(q, users)
    PROVE  \/ Speaks(Rest(q, m), users)
           \/ m = RoomMsg(users) /\ Hears(Rest(q, m), "room") = {}
  <1>1. PICK r \in Seq(SUBSET Message) : r = Rest(q, m)
    BY RestType
  <1>2. /\ Head(q) = {m} => /\ DOMAIN r = 1..Len(q) - 1
                            /\ \A i \in DOMAIN r : r[i] = q[i + 1]
        /\ Head(q) # {m} => /\ DOMAIN r = DOMAIN q /\ r[1] = q[1] \ {m}
                            /\ \A i \in DOMAIN q \ {1} : r[i] = q[i]
    BY <1>1, RestType
  <1>3. DOMAIN q = 1..Len(q) /\ Len(q) \in Nat \ {0} /\ Head(q) = q[1]
    OBVIOUS
  <1>4. PICK i \in Hears(q, "room") :
           q[i] = {RoomMsg(users)} /\ \A j \in Hears(q, "room") : j <= i
    BY DEF Speaks
  <1>5. i \in 1..Len(q)
    BY <1>3, <1>4 DEF Hears
  <1>6. RoomMsg(users).type = "room"
    BY DEF RoomMsg
  <1>7. CASE Head(q) = {m}
    <2>1. ASSUME NEW j \in Hears(r, "room") PROVE j + 1 \in Hears(q, "room") /\ j \in Nat \ {0}
      BY <1>2, <1>3, <1>7 DEF Hears
    <2>2. CASE i = 1
      <3>1. m = RoomMsg(users)
        BY <1>3, <1>4, <1>7, <2>2
      <3>2. Hears(r, "room") = {}
        <4>1. ASSUME NEW j \in Hears(r, "room") PROVE FALSE
          <5>1. j \in Nat \ {0} /\ j + 1 <= 1
            BY <1>4, <2>1, <2>2
          <5> QED
            BY <5>1
        <4> QED
          BY <4>1
      <3> QED
        BY <1>1, <3>1, <3>2
    <2>3. CASE i # 1
      <3>1. PICK k \in Nat \ {0} : k = i - 1
        BY <1>5, <2>3
      <3>2. k \in DOMAIN r /\ r[k] = {RoomMsg(users)}
        BY <1>2, <1>3, <1>4, <1>5, <1>7, <2>3, <3>1
      <3>3. k \in Hears(r, "room")
        BY <1>6, <3>2 DEF Hears
      <3>4. \A j \in Hears(r, "room") : j <= k
        BY <1>4, <1>5, <2>1, <3>1
      <3> QED
        BY <1>1, <3>2, <3>3, <3>4 DEF Speaks
    <2> QED
      BY <2>2, <2>3
  <1>8. CASE Head(q) # {m}
    <2>1. i # 1
      BY <1>3, <1>4, <1>8
    <2>2. i \in DOMAIN r /\ r[i] = {RoomMsg(users)}
      BY <1>2, <1>3, <1>4, <1>5, <1>8, <2>1
    <2>3. i \in Hears(r, "room")
      BY <1>6, <2>2 DEF Hears
    <2>4. Hears(r, "room") \subseteq Hears(q, "room")
      BY <1>2, <1>3, <1>8 DEF Hears
    <2> QED
      BY <1>1, <1>4, <2>2, <2>3, <2>4 DEF Speaks
  <1> QED
    BY <1>7, <1>8

LEMMA SpeaksMore ==
    ASSUME NEW q \in Seq(SUBSET Message), NEW o \in Seq(SUBSET Message), NEW users
    PROVE  /\ Speaks(o, users) => Speaks(q \o o, users)
           /\ Hears(o, "room") = {} /\ Speaks(q, users) => Speaks(q \o o, users)
           /\ Hears(o, "room") = {} /\ Hears(q, "room") = {} => Hears(q \o o, "room") = {}
  <1> DEFINE t == "room"
  <1>1. /\ \A i \in Hears(q, t) : i \in Hears(q \o o, t) /\ i <= Len(q) /\ (q \o o)[i] = q[i]
        /\ \A i \in Hears(o, t) : i + Len(q) \in Hears(q \o o, t)
                                    /\ (q \o o)[i + Len(q)] = o[i]
        /\ \A i \in Hears(q \o o, t) : i \in Hears(q, t) \/ i - Len(q) \in Hears(o, t)
        /\ Hears(q, t) \subseteq Nat \ {0} /\ Hears(o, t) \subseteq Nat \ {0}
        /\ Len(q) \in Nat
    BY HearsMore
  <1>2. PICK both : both = q \o o
    OBVIOUS
  <1>3. Hears(both, t) \subseteq Nat
    BY <1>1, <1>2 DEF Hears
  <1>4. ASSUME Speaks(o, users) PROVE Speaks(both, users)
    <2>1. PICK i \in Hears(o, t) : o[i] = {RoomMsg(users)} /\ \A j \in Hears(o, t) : j <= i
      BY <1>4 DEF Speaks
    <2>2. PICK k \in Nat : k = i + Len(q)
      BY <1>1
    <2>3. k \in Hears(both, t) /\ both[k] = {RoomMsg(users)}
      BY <1>1, <1>2, <2>1, <2>2
    <2>4. \A j \in Hears(both, t) : j <= k
      BY <1>1, <1>2, <1>3, <2>1, <2>2
    <2> QED
      BY <2>3, <2>4 DEF Speaks
  <1>5. ASSUME Hears(o, t) = {} PROVE Hears(both, t) = Hears(q, t)
    BY <1>1, <1>2, <1>5
  <1>6. ASSUME Hears(o, t) = {}, Speaks(q, users) PROVE Speaks(both, users)
    BY <1>1, <1>2, <1>5, <1>6 DEF Speaks
  <1> QED
    BY <1>2, <1>4, <1>5, <1>6
-----------------------------------------------------------------------------
(* What a page does keeps what is said of it and of the others             *)

LEMMA OthersKeep ==
    ASSUME NEW c \in Clients, Alone(c), NEW d \in Clients \ {c}
    PROVE  /\ Link(d) => Link(d)'
           /\ View(d) => View(d)'
           /\ Capture(d) => Capture(d)'
  <1>1. /\ uplink'[d] = uplink[d] /\ downlink'[d] = downlink[d] /\ page'[d] = page[d]
        /\ connected' = connected /\ rooms' = rooms
    BY DEF Alone, loop
  <1>2. IsOpen(d)' = IsOpen(d) /\ Refused(d)' = Refused(d)
    BY <1>1 DEF IsOpen, Refused, Hears
  <1>3. Parted(d)' = Parted(d) /\ Dialling(d)' = Dialling(d) /\ Unmet(d)' = Unmet(d)
    BY <1>1 DEF Parted, Dialling, Unmet
  <1>4. Linked(d)' = Linked(d)
    BY <1>1, <1>2 DEF Linked, Asks
  <1>5. Link(d) => Link(d)'
    BY <1>1, <1>2, <1>3, <1>4 DEF Link, Asks
  <1>6. View(d) => View(d)'
    BY <1>1, <1>2 DEF View, Shows
  <1>7. Capture(d) => Capture(d)'
    BY <1>1, <1>2 DEF Capture, Performs, Asks
  <1> QED
    BY <1>5, <1>6, <1>7

LEMMA DialsKeep ==
    ASSUME NEW c \in Clients, Alone(c), Dials(c)
    PROVE  Link(c)' /\ View(c)' /\ Capture(c)'
  <1>1. /\ uplink'[c] = << >> /\ downlink'[c] = << >> /\ page'[c].ws = "connecting"
        /\ c \notin DOMAIN connected'
    BY DEF Dials, Dialling, Alone, loop
  <1>2. ~IsOpen(c)' /\ ~Refused(c)' /\ Dialling(c)'
    BY <1>1, AsksNothing DEF IsOpen, Refused, Dialling
  <1>3. Asks(uplink'[c], "connected") = {}
    BY <1>1, AsksNothing
  <1> QED
    BY <1>1, <1>2, <1>3 DEF Link, View, Capture

LEMMA GreetsKeep ==
    ASSUME Safe, NEW c \in Clients, Alone(c), Greets(c), Link(c)
    PROVE  Link(c)' /\ View(c)' /\ Capture(c)'
  <1>1. downlink'[c] = << >> /\ c \notin DOMAIN connected /\ page'[c].ws = "open"
    BY DEF Greets, Link, Dialling
  <1>2. connected' = connected /\ rooms' = rooms
    BY DEF Alone, loop
  <1>3. PICK request \in Requests : uplink'[c] = <<Msg("connected"), request>>
    BY DEF Greets
  <1>4. /\ request.type \in {"create", "join"} /\ Msg("connected").type = "connected"
    BY DEF Requests, Msg
  <1>5. /\ Asks(uplink'[c], "connected") = {1} /\ Asks(uplink'[c], "gone") = {}
        /\ Asks(uplink'[c], "share") = {}
    BY <1>3, <1>4 DEF Asks
  <1>6. IsOpen(c)' /\ ~Refused(c)' /\ Unmet(c)'
    BY <1>1, <1>2, AsksNothing DEF IsOpen, Refused, Unmet
  <1>7. Linked(c)'
    BY <1>1, <1>2, <1>5 DEF Linked
  <1>8. Link(c)'
    BY <1>1, <1>5, <1>6, <1>7 DEF Link
  <1>9. ~Performs(c)' /\ \A r \in DOMAIN rooms' : c \notin DOMAIN rooms'[r].users
    BY <1>1, <1>2, AbsentPerforms DEF Performs
  <1> QED
    BY <1>5, <1>8, <1>9 DEF View, Capture

LEMMA PartsKeep ==
    ASSUME PagesTypeOK, NEW c \in Clients, Alone(c), Parts(c), Link(c)
    PROVE  Link(c)' /\ View(c)' /\ Capture(c)'
  <1>1. downlink'[c] = << >> /\ page'[c].ws = "closed" /\ connected' = connected
    BY DEF Parts, Alone, loop
  <1>2. ~IsOpen(c)' /\ ~Refused(c)'
    BY <1>1, AsksNothing DEF IsOpen, Refused
  <1>3. CASE IsOpen(c)
    <2>1. PICK sent \in Seq(Up) : /\ uplink'[c] = Append(sent, Msg("gone"))
                                  /\ Asks(sent, "connected") \subseteq Asks(uplink[c], "connected")
      BY <1>3 DEF Parts
    <2>2. /\ Append(sent, Msg("gone")) # << >>
          /\ Append(sent, Msg("gone"))[Len(Append(sent, Msg("gone")))] = Msg("gone")
      OBVIOUS
    <2>3. Msg("gone").type = "gone"
      BY DEF Msg
    <2>4. Parted(c)'
      BY <1>1, <2>1, <2>2, <2>3 DEF Parted
    <2>5. Asks(uplink'[c], "connected") \subseteq Asks(uplink[c], "connected")
      BY <2>1, <2>3, AsksAppend
    <2> QED
      BY <1>1, <1>2, <2>4, <2>5 DEF Link, View, Capture, Unmet
  <1>4. CASE ~IsOpen(c)
    <2>1. uplink'[c] = uplink[c] /\ page[c].ws \in {"closed", "connecting"}
      BY <1>4, Typed, PageIs DEF Parts, IsOpen
    <2>2. Parted(c)'
      BY <1>1, <2>1 DEF Link, Parted, Dialling
    <2> QED
      BY <1>1, <1>2, <2>1, <2>2 DEF Link, View, Capture, Unmet
  <1> QED
    BY <1>3, <1>4

LEMMA DropsKeep ==
    ASSUME NEW c \in Clients, Alone(c), Drops(c), Link(c)
    PROVE  Link(c)' /\ View(c)' /\ Capture(c)'
  <1>1. /\ uplink'[c] = << >> /\ downlink'[c] = << >> /\ page'[c].ws = "closed"
        /\ c \notin DOMAIN connected'
    BY DEF Drops, Link, Alone, loop
  <1>2. ~IsOpen(c)' /\ ~Refused(c)' /\ Parted(c)'
    BY <1>1, AsksNothing DEF IsOpen, Refused, Parted
  <1>3. Asks(uplink'[c], "connected") = {}
    BY <1>1, AsksNothing
  <1> QED
    BY <1>1, <1>2, <1>3 DEF Link, View, Capture

LEMMA SaysKeep ==
    ASSUME PagesTypeOK, NEW c \in Clients, Alone(c), Says(c), Link(c), View(c), Capture(c)
    PROVE  Link(c)' /\ View(c)' /\ Capture(c)'
  <1>1. /\ page'[c].ws = page[c].ws /\ page'[c].room = page[c].room
        /\ downlink'[c] = downlink[c] /\ connected' = connected /\ rooms' = rooms
    BY DEF Says, Alone, loop
  <1>2. IsOpen(c)' = IsOpen(c) /\ Refused(c)' = Refused(c) /\ Unmet(c)' = Unmet(c)
    BY <1>1 DEF IsOpen, Refused, Unmet
  <1>3. Performs(c)' = Performs(c)
    BY <1>1 DEF Performs
  <1>4. View(c)'
    BY <1>1, <1>2 DEF View, Shows
  <1>5. CASE SaysNothing(c)
    <2>1. uplink'[c] = uplink[c] /\ (IsOpen(c) => page'[c].stream = page[c].stream)
      BY <1>5 DEF SaysNothing
    <2>2. Parted(c)' = Parted(c) /\ Dialling(c)' = Dialling(c)
      BY <1>1, <2>1 DEF Parted, Dialling
    <2>3. Linked(c)' = Linked(c)
      BY <1>1, <1>2, <2>1 DEF Linked, Asks
    <2>4. Link(c)'
      BY <1>1, <1>2, <2>1, <2>2, <2>3 DEF Link, Asks
    <2>5. Capture(c)'
      BY <1>2, <1>3, <2>1 DEF Capture, Asks
    <2> QED
      BY <1>4, <2>4, <2>5
  <1>6. ASSUME NEW m \in Up, SaysOne(c, m) PROVE Link(c)' /\ Capture(c)'
    <2>1. /\ IsOpen(c) /\ uplink'[c] = Append(uplink[c], m)
          /\ m.type \notin {"connected", "gone"}
          /\ m.type = "share" => page'[c].stream
          /\ m.type \notin {"share", "stopshare"} => page'[c].stream = page[c].stream
      BY <1>6 DEF SaysOne
    <2>2. uplink[c] \in Seq(Up) /\ Len(uplink[c]) \in Nat
      BY Typed
    <2>3. /\ Asks(uplink'[c], "connected") = Asks(uplink[c], "connected")
          /\ Asks(uplink'[c], "gone") = Asks(uplink[c], "gone")
      BY <2>1, <2>2, AsksAppend
    <2>4. Linked(c)'
      BY <1>1, <1>2, <2>1, <2>3 DEF Linked, Link
    <2>5. Link(c)'
      BY <1>1, <1>2, <2>1, <2>3, <2>4 DEF Link, IsOpen
    <2>6. /\ Performs(c) => page[c].stream \/ Asks(uplink[c], "stopshare") # {}
          /\ \A i \in Asks(uplink[c], "share") :
                page[c].stream \/ \E j \in Asks(uplink[c], "stopshare") : i < j
      BY <2>1 DEF Capture
    <2>7. CASE m.type = "share"
      BY <2>1, <2>5, <2>7 DEF Capture
    <2>8. CASE m.type = "stopshare"
      <3>1. Asks(uplink'[c], "stopshare") = Asks(uplink[c], "stopshare") \cup {Len(uplink[c]) + 1}
        <4>1. PICK q \in Seq(Up) : q = uplink[c]
          BY <2>2
        <4>2. PICK t : t = "stopshare"
          OBVIOUS
        <4>3. Asks(Append(q, m), t) = Asks(q, t) \cup {Len(q) + 1}
          BY <2>8, <4>2, AsksAppend
        <4> QED
          BY <2>1, <4>1, <4>2, <4>3
      <3>2. /\ Asks(uplink'[c], "share") = Asks(uplink[c], "share")
            /\ \A i \in Asks(uplink[c], "share") : i < Len(uplink[c]) + 1
        <4>1. m.type # "share"
          BY <2>8
        <4>2. \A i \in Asks(uplink[c], "share") : i \in 1..Len(uplink[c])
          BY <2>2, AsksAppend
        <4>3. Asks(uplink'[c], "share") = Asks(uplink[c], "share")
          BY <2>1, <2>2, <4>1, AsksAppend
        <4> QED
          BY <2>2, <4>2, <4>3
      <3>3. /\ Asks(uplink'[c], "stopshare") # {}
            /\ \A i \in Asks(uplink'[c], "share") : \E j \in Asks(uplink'[c], "stopshare") : i < j
        BY <3>1, <3>2
      <3> QED
        BY <2>5, <3>3 DEF Capture
    <2>9. CASE m.type \notin {"share", "stopshare"}
      <3>1. /\ Asks(uplink'[c], "stopshare") = Asks(uplink[c], "stopshare")
            /\ Asks(uplink'[c], "share") = Asks(uplink[c], "share")
            /\ page'[c].stream = page[c].stream
        BY <2>1, <2>2, <2>9, AsksAppend
      <3> QED
        BY <1>3, <2>5, <2>6, <3>1 DEF Capture
    <2> QED
      BY <2>5, <2>7, <2>8, <2>9
  <1> QED
    BY <1>4, <1>5, <1>6 DEF Says

LEMMA TakesKeep ==
    ASSUME PagesTypeOK, NEW c \in Clients, Alone(c), Takes(c), Link(c), View(c), Capture(c)
    PROVE  Link(c)' /\ View(c)' /\ Capture(c)'
  <1>1. /\ IsOpen(c) /\ downlink[c] # << >> /\ page'[c].ws = "in"
        /\ uplink'[c] = uplink[c] /\ page'[c].stream = page[c].stream
        /\ connected' = connected /\ rooms' = rooms
    BY DEF Takes, Alone, loop
  <1>2. PICK m \in Message : TakesOne(c, m)
    BY DEF Takes
  <1>3. PICK q \in Seq(SUBSET Message) : q = downlink[c]
    BY Typed
  <1>4. /\ q # << >> /\ m \in Head(q) /\ downlink'[c] = Rest(q, m) /\ m.type # "closewriter"
        /\ m.type = "room" => page'[c].room = m.users
        /\ m.type # "room" => page[c].ws = "in" /\ page'[c].room = page[c].room
    BY <1>1, <1>2, <1>3 DEF TakesOne
  <1>5. IsOpen(c)' /\ Performs(c)' = Performs(c)
    BY <1>1 DEF IsOpen, Performs
  <1>6. Refused(c)' = Refused(c)
    BY <1>3, <1>4, HearsRest DEF Refused
  <1>7. Asks(uplink[c], "connected") = {}
    BY <1>1 DEF Link, Unmet
  <1>8. Linked(c)
    BY <1>1 DEF Link
  <1>9. Linked(c)'
    <2>1. Asks(uplink'[c], "gone") = {}
      BY <1>1, <1>8 DEF Linked
    <2>2. c \notin DOMAIN connected' => Refused(c)'
      BY <1>1, <1>6, <1>7, <1>8 DEF Linked
    <2>3. c \in DOMAIN connected => connected[c] # NoRoom
      BY <1>1, <1>8 DEF Linked
    <2> QED
      BY <1>1, <2>1, <2>2, <2>3 DEF Linked
  <1>10. Link(c)'
    <2>1. Refused(c)' => c \notin DOMAIN connected'
      BY <1>1, <1>6 DEF Link
    <2> QED
      BY <1>1, <1>7, <1>9, <2>1 DEF Link
  <1>11. Capture(c)'
    BY <1>1, <1>5 DEF Capture
  <1>12. ASSUME NEW users, Shows(c, users) PROVE Shows(c, users)'
    <2>1. CASE Speaks(q, users)
      <3>1. \/ Speaks(Rest(q, m), users)
            \/ m = RoomMsg(users) /\ Hears(Rest(q, m), "room") = {}
        BY <1>4, <2>1, SpeaksRest
      <3>2. CASE m = RoomMsg(users) /\ Hears(Rest(q, m), "room") = {}
        <4>1. m.type = "room" /\ m.users = users
          BY <3>2 DEF RoomMsg
        <4> QED
          BY <1>1, <1>4, <3>2, <4>1 DEF Shows
      <3> QED
        BY <1>4, <3>1, <3>2 DEF Shows
    <2>2. CASE Hears(q, "room") = {} /\ page[c].ws = "in" /\ page[c].room = users
      <3>1. Hears(Rest(q, m), "room") = {}
        BY <1>4, <2>2, HearsRest
      <3>2. m.type # "room"
        <4>1. 1 \in DOMAIN q /\ Head(q) = q[1]
          BY <1>4
        <4> QED
          BY <1>4, <2>2, <4>1 DEF Hears
      <3> QED
        BY <1>1, <1>4, <2>2, <3>1, <3>2 DEF Shows
    <2> QED
      BY <1>3, <1>12, <2>1, <2>2 DEF Shows
  <1>13. View(c)'
    BY <1>1, <1>12 DEF View
  <1> QED
    BY <1>10, <1>11, <1>13

LEMMA MoveKeeps ==
    ASSUME PagesInv, NEW c \in Clients, Moves(c)
    PROVE  PagesInv'
  <1>1. PagesTypeOK /\ Safe /\ \A d \in Clients : Link(d) /\ View(d) /\ Capture(d)
    BY DEF PagesInv
  <1>2. PagesTypeOK' /\ Alone(c) /\ Acts(c)
    BY <1>1, MovesAct
  <1>3. Safe'
    BY <1>1, <1>2 DEF Alone, loop, Safe, SafeMaps, NoPanic
  <1>4. Link(c)' /\ View(c)' /\ Capture(c)'
    BY <1>1, <1>2, DialsKeep, GreetsKeep, PartsKeep, DropsKeep, SaysKeep, TakesKeep DEF Acts
  <1>5. \A d \in Clients \ {c} : Link(d)' /\ View(d)' /\ Capture(d)'
    BY <1>1, <1>2, OthersKeep
  <1> QED
    BY <1>2, <1>3, <1>4, <1>5 DEF PagesInv
-----------------------------------------------------------------------------
(* What the loop does keeps what is said of each page                      *)

(* Who is in a room is not NoRoom, so it is only the client that asks who  *)
(* hears of anything while it is in none.                                  *)
LEMMA ReachedIs ==
    ASSUME RoomIdsAreNames, TypeOK, Safe, NEW c, Channels(c),
           NEW d \in Clients, outbox'[d] # << >>
    PROVE  d \in DOMAIN connected /\ (d # c => connected[d] # NoRoom)
  <1>1. d \in Hearers(c)
    BY DEF Channels, Reaches
  <1>2. ASSUME d # c PROVE connected[d] # NoRoom
    <2>1. PICK r \in DOMAIN rooms : d \in DOMAIN rooms[r].users
      BY <1>1, <1>2 DEF Hearers
    <2>2. connected[d] = r /\ r \in RoomIds
      BY <2>1, UsersConnected
    <2> QED
      BY <2>2 DEF RoomIdsAreNames
  <1> QED
    BY <1>1, <1>2 DEF Hearers

(* The batches written last are in the queue of the page as well.          *)
LEMMA QueueAfter ==
    ASSUME PagesTypeOK, TypeOK', NEW c, Serves(c), NEW d \in Clients
    PROVE  /\ downlink[d] \in Seq(SUBSET Message) /\ outbox'[d] \in Seq(SUBSET Message)
           /\ page[d].ws = "closed" => downlink'[d] = << >>
           /\ page[d].ws # "closed" => downlink'[d] = downlink[d] \o outbox'[d]
           /\ page'[d] = page[d] /\ IsOpen(d)' = IsOpen(d)
           /\ IsOpen(d) => page[d].ws # "closed"
  <1>1. page' = page
    BY DEF Serves
  <1>2. IsOpen(d)' = IsOpen(d)
    BY <1>1 DEF IsOpen
  <1>3. outbox'[d] \in Seq(SUBSET Message)
    BY DEF TypeOK, Outbox
  <1> QED
    BY <1>1, <1>2, <1>3, Typed DEF Serves, IsOpen

LEMMA RefusedAfter ==
    ASSUME PagesTypeOK, TypeOK', NEW c, Serves(c), Channels(c), NEW d \in Clients
    PROVE  /\ Refused(d)' => Refused(d) \/ d \in DOMAIN connected \ DOMAIN connected'
           /\ IsOpen(d) /\ Refused(d) => Refused(d)'
           /\ IsOpen(d) /\ d \in DOMAIN connected \ DOMAIN connected' => Refused(d)'
  <1>1. PICK q \in Seq(SUBSET Message), o \in Seq(SUBSET Message) :
           q = downlink[d] /\ o = outbox'[d]
    BY QueueAfter
  <1>2. /\ page[d].ws = "closed" => downlink'[d] = << >>
        /\ page[d].ws # "closed" => downlink'[d] = q \o o
        /\ IsOpen(d) => page[d].ws # "closed"
    BY <1>1, QueueAfter
  <1>3. Hears(o, "closewriter") # {} <=> d \in DOMAIN connected \ DOMAIN connected'
    <2>1. Closing(o) = IF d \in DOMAIN connected \ DOMAIN connected' THEN {Len(o)} ELSE {}
      BY <1>1 DEF Channels, ClosesOnly
    <2>2. Closing(o) = Hears(o, "closewriter")
      BY DEF Closing, Hears
    <2> QED
      BY <2>1, <2>2
  <1>4. Hears(q \o o, "closewriter") # {} <=>
           Hears(q, "closewriter") # {} \/ Hears(o, "closewriter") # {}
    <2> DEFINE t == "closewriter"
    <2>1. /\ \A i \in Hears(q, t) : i \in Hears(q \o o, t)
          /\ \A i \in Hears(o, t) : i + Len(q) \in Hears(q \o o, t)
          /\ \A i \in Hears(q \o o, t) : i \in Hears(q, t) \/ i - Len(q) \in Hears(o, t)
      BY HearsMore
    <2> QED
      BY <2>1
  <1>5. Refused(d) <=> Hears(q, "closewriter") # {}
    BY <1>1 DEF Refused
  <1>6. CASE page[d].ws = "closed"
    BY <1>2, <1>6, AsksNothing DEF Refused
  <1>7. CASE page[d].ws # "closed"
    <2>1. Refused(d)' <=> Hears(q \o o, "closewriter") # {}
      BY <1>2, <1>7 DEF Refused
    <2> QED
      BY <1>3, <1>4, <1>5, <2>1
  <1> QED
    BY <1>6, <1>7

Served(c, m) ==
    /\ Safe' /\ Orderly(c, {c})
    /\ m.type # "share" => Orderly(c, {})
    /\ m.type = "connected" => Connected(c)
    /\ m.type # "connected" => DOMAIN connected' \subseteq DOMAIN connected
    /\ m.type = "stopshare" => ~Performs(c)'
    /\ m.type = "gone" => c \notin DOMAIN connected'

(* Only c may come, when the loop meets it.                                *)
LEMMA ComesIs ==
    ASSUME NEW c \in Clients, NEW m, Served(c, m), NEW d \in DOMAIN connected' \ DOMAIN connected
    PROVE  d = c /\ m.type = "connected" /\ connected'[d] = NoRoom
  <1>1. m.type = "connected" /\ Connected(c)
    BY DEF Served
  <1>2. connected' = Assign(connected, c, NoRoom)
    BY <1>1 DEF Connected
  <1>3. d = c /\ connected'[d] = NoRoom
    BY <1>2 DEF Assign
  <1> QED
    BY <1>1, <1>3

LEMMA ServeLinked ==
    ASSUME RoomIdsAreNames, PagesTypeOK, Safe, TypeOK', NEW c \in Clients, Serves(c),
           NEW m \in Up, m = Head(uplink[c]), Served(c, m),
           NEW d \in Clients, Link(d), IsOpen(d)
    PROVE  Linked(d)'
  <1>1. TypeOK /\ Orderly(c, {c}) /\ Channels(c) /\ AnswersFirst(c) /\ Kind(c, {c})
    BY Typed DEF Served, Orderly
  <1>2. PICK q \in Seq(SUBSET Message), o \in Seq(SUBSET Message) :
           q = downlink[d] /\ o = outbox'[d] /\ downlink'[d] = q \o o
    BY QueueAfter
  <1>3. page'[d] = page[d] /\ page[d].ws \in {"open", "in"}
    BY QueueAfter DEF IsOpen
  <1>4. uplink[d] \in Seq(Up) /\ uplink[c] \in Seq(Up) /\ uplink[c] # << >>
    BY Typed DEF Serves
  <1>5. IF d = c THEN uplink'[d] = Tail(uplink[d]) ELSE uplink'[d] = uplink[d]
    BY DEF Serves
  <1>6. o # << >> => d \in DOMAIN connected /\ (d # c => connected[d] # NoRoom)
    BY <1>1, <1>2, ReachedIs
  <1>7. Linked(d)
    BY DEF Link
  <1>8. /\ q \o o = << >> <=> q = << >> /\ o = << >>
        /\ q # << >> => Head(q \o o) = Head(q)
        /\ q = << >> => q \o o = o
        /\ o # << >> => Head(o) = o[1]
    OBVIOUS
  <1>9. Asks(uplink'[d], "gone") = {}
    <2>1. Asks(uplink[d], "gone") = {}
      BY <1>7 DEF Linked
    <2>2. CASE d = c
      BY <1>4, <1>5, <2>1, <2>2, AsksTail
    <2> QED
      BY <1>5, <2>1, <2>2
  <1>10. ASSUME d \notin DOMAIN connected'
         PROVE  Refused(d)' \/ 1 \in Asks(uplink'[d], "connected")
    <2>1. CASE d \in DOMAIN connected
      BY <1>1, <1>10, <2>1, RefusedAfter
    <2>2. CASE Refused(d)
      BY <1>1, <2>2, RefusedAfter
    <2>3. CASE d \notin DOMAIN connected /\ 1 \in Asks(uplink[d], "connected")
      <3>1. d # c
        <4>1. ASSUME d = c PROVE FALSE
          <5>1. m.type = "connected"
            BY <1>4, <2>3, <4>1, AsksTail
          <5>2. connected' = Assign(connected, c, NoRoom)
            BY <5>1 DEF Served, Connected
          <5> QED
            BY <1>10, <4>1, <5>2 DEF Assign
        <4> QED
          BY <4>1
      <3> QED
        BY <1>5, <2>3, <3>1
    <2> QED
      BY <1>7, <2>1, <2>2, <2>3 DEF Linked
  <1>11. ASSUME d \in DOMAIN connected'
         PROVE  connected'[d] = NoRoom <=> page[d].ws = "open" /\ q \o o = << >>
    <2>1. CASE d \in DOMAIN connected /\ connected'[d] = connected[d]
      <3>1. connected[d] = NoRoom <=> page[d].ws = "open" /\ q = << >>
        BY <1>2, <1>7, <2>1 DEF Linked
      <3>2. ASSUME connected[d] = NoRoom PROVE o = << >>
        <4>1. d # c
          BY <1>1, <1>11, <2>1, <3>2 DEF AnswersFirst
        <4> QED
          BY <1>6, <3>2, <4>1
      <3> QED
        BY <1>8, <2>1, <3>1, <3>2
    <2>2. CASE d = c /\ d \in DOMAIN connected /\ connected[d] = NoRoom
      <3>1. o # << >> /\ connected'[d] # NoRoom
        BY <1>1, <1>2, <1>11, <2>2 DEF AnswersFirst, Answer
      <3> QED
        BY <1>8, <3>1
    <2>3. CASE d \notin DOMAIN connected
      <3>1. d = c /\ m.type = "connected" /\ connected'[d] = NoRoom
        BY <1>11, <2>3, ComesIs
      <3>2. Asks(uplink[d], "connected") # {}
        BY <1>4, <3>1, AsksTail
      <3>3. q = << >> /\ page[d].ws = "open"
        BY <1>2, <1>3, <3>2 DEF Link, Unmet
      <3>4. o = << >>
        BY <1>6, <2>3
      <3> QED
        BY <1>8, <3>1, <3>3, <3>4
    <2>4. ASSUME d \in DOMAIN connected
          PROVE  connected'[d] = connected[d] \/ (d = c /\ connected[d] = NoRoom)
      BY <1>1, <1>11, <2>4, KindConnects DEF Arrives
    <2> QED
      BY <2>1, <2>2, <2>3, <2>4
  <1>12. ASSUME page[d].ws = "open", q \o o # << >>, NEW x \in Head(q \o o)
         PROVE  x.type \in {"room", "closewriter"}
    <2>1. CASE q # << >>
      BY <1>2, <1>7, <1>8, <1>12, <2>1 DEF Linked
    <2>2. CASE q = << >>
      <3>1. o # << >> /\ x \in o[1]
        BY <1>8, <1>12, <2>2
      <3>2. d \in DOMAIN connected /\ (d # c => connected[d] # NoRoom)
        BY <1>6, <3>1
      <3>3. connected[d] = NoRoom
        BY <1>2, <1>7, <1>12, <2>2, <3>2 DEF Linked
      <3>4. d = c /\ Answer(outbox', c)
        BY <1>1, <3>2, <3>3 DEF AnswersFirst
      <3> QED
        BY <1>2, <3>1, <3>4 DEF Answer
    <2> QED
      BY <2>1, <2>2
  <1> QED
    BY <1>2, <1>3, <1>9, <1>10, <1>11, <1>12 DEF Linked

LEMMA ServeLink ==
    ASSUME RoomIdsAreNames, PagesTypeOK, Safe, TypeOK', NEW c \in Clients, Serves(c),
           NEW m \in Up, m = Head(uplink[c]), Served(c, m), NEW d \in Clients, Link(d)
    PROVE  Link(d)'
  <1>1. TypeOK /\ Channels(c)
    BY Typed DEF Served, Orderly
  <1>2. PICK q \in Seq(SUBSET Message), o \in Seq(SUBSET Message) :
           q = downlink[d] /\ o = outbox'[d]
    BY QueueAfter
  <1>3. /\ page[d].ws = "closed" => downlink'[d] = << >>
        /\ page[d].ws # "closed" => downlink'[d] = q \o o
        /\ page'[d] = page[d] /\ IsOpen(d)' = IsOpen(d)
    BY <1>2, QueueAfter
  <1>4. uplink[d] \in Seq(Up) /\ uplink[c] \in Seq(Up) /\ uplink[c] # << >>
    BY Typed DEF Serves
  <1>5. IF d = c THEN uplink'[d] = Tail(uplink[d]) ELSE uplink'[d] = uplink[d]
    BY DEF Serves
  <1>6. o # << >> => d \in DOMAIN connected
    BY <1>1, <1>2, ReachedIs
  <1>7. << >> \o << >> = << >> /\ (q = << >> /\ o = << >> => q \o o = << >>)
    OBVIOUS
  <1>8. Asks(uplink'[d], "connected") \subseteq {1}
    <2>1. CASE d = c
      <3>1. \A i \in Asks(Tail(uplink[d]), "connected") :
                i \in Nat \ {0} /\ i + 1 \in Asks(uplink[d], "connected")
        BY <1>4, <2>1, AsksTail
      <3>2. Asks(Tail(uplink[d]), "connected") = {}
        BY <3>1 DEF Link
      <3> QED
        BY <1>5, <2>1, <3>2
    <2> QED
      BY <1>5, <2>1 DEF Link
  <1>9. ASSUME Asks(uplink'[d], "connected") # {} PROVE Unmet(d)'
    <2>1. d # c
      <3>1. ASSUME d = c PROVE FALSE
        <4>1. \A i \in Asks(Tail(uplink[d]), "connected") :
                  i \in Nat \ {0} /\ i + 1 \in Asks(uplink[d], "connected")
          BY <1>4, <3>1, AsksTail
        <4>2. Asks(Tail(uplink[d]), "connected") = {}
          BY <4>1 DEF Link
        <4> QED
          BY <1>5, <1>9, <3>1, <4>2
      <3> QED
        BY <3>1
    <2>2. d \notin DOMAIN connected /\ q = << >> /\ page[d].ws # "in"
      BY <1>2, <1>5, <1>9, <2>1 DEF Link, Unmet
    <2>3. d \notin DOMAIN connected'
      BY <2>1, <2>2, ComesIs
    <2>4. downlink'[d] = << >>
      BY <1>3, <1>6, <1>7, <2>2
    <2> QED
      BY <1>3, <2>2, <2>3, <2>4 DEF Unmet
  <1>10. ASSUME Refused(d)' PROVE d \notin DOMAIN connected'
    <2>1. CASE Refused(d)
      <3>1. d \notin DOMAIN connected
        BY <2>1 DEF Link
      <3>2. ASSUME d \in DOMAIN connected' PROVE FALSE
        <4>1. d = c /\ m.type = "connected"
          BY <3>1, <3>2, ComesIs
        <4>2. Asks(uplink[d], "connected") # {}
          BY <1>4, <4>1, AsksTail
        <4>3. downlink[d] = << >>
          BY <4>2 DEF Link, Unmet
        <4> QED
          BY <2>1, <4>3, AsksNothing DEF Refused
      <3> QED
        BY <3>2
    <2> QED
      BY <1>1, <1>10, <2>1, RefusedAfter
  <1>11. ASSUME page[d].ws = "closed" PROVE Parted(d)'
    <2>1. downlink'[d] = << >> /\ Parted(d)
      BY <1>3, <1>11 DEF Link
    <2>2. CASE d # c
      <3>1. uplink[d] = << >> /\ d \notin DOMAIN connected => d \notin DOMAIN connected'
        BY <2>2, ComesIs
      <3> QED
        BY <1>5, <2>1, <2>2, <3>1 DEF Parted
    <2>3. CASE d = c
      <3>1. uplink[c][Len(uplink[c])].type = "gone"
        BY <1>4, <2>1, <2>3 DEF Parted
      <3>2. CASE Len(uplink[c]) = 1
        <4>3. PICK q1 \in Seq(Up) : q1 = uplink[c] /\ Len(q1) = 1
          BY <1>4, <3>2
        <4>4. Head(q1) = q1[Len(q1)] /\ Tail(q1) = << >>
          <5>1. Head(q1) = q1[1] /\ Tail(q1) \in Seq(Up) /\ Len(Tail(q1)) = 0
            BY <4>3
          <5>2. \A q2 \in Seq(Up) : Len(q2) = 0 => q2 = << >>
            OBVIOUS
          <5> QED
            BY <4>3, <5>1, <5>2
        <4>1. Head(uplink[c]) = uplink[c][Len(uplink[c])] /\ Tail(uplink[c]) = << >>
          BY <4>3, <4>4
        <4>2. c \notin DOMAIN connected'
          BY <3>1, <4>1 DEF Served
        <4> QED
          BY <1>5, <2>1, <2>3, <4>1, <4>2 DEF Parted
      <3>3. CASE Len(uplink[c]) # 1
        <4>3. PICK q1 \in Seq(Up) : q1 = uplink[c] /\ Len(q1) # 1 /\ q1 # << >>
          BY <1>4, <3>3
        <4>4. Tail(q1) # << >> /\ Tail(q1)[Len(Tail(q1))] = q1[Len(q1)]
          <5>6. Len(q1) # 0 /\ Len(<< >>) = 0
            <6>1. \A q2 \in Seq(Up) : Len(q2) = 0 => q2 = << >>
              OBVIOUS
            <6> QED
              BY <4>3, <6>1
          <5>7. PICK n \in Nat : n = Len(q1)
            BY <4>3
          <5>1. n = Len(q1) /\ n > 1
            <6>1. n # 0 /\ n # 1
              BY <4>3, <5>6, <5>7
            <6> QED
              BY <5>7, <6>1
          <5>2. /\ Tail(q1) \in Seq(Up) /\ Len(Tail(q1)) = n - 1
                /\ \A i \in 1..n - 1 : Tail(q1)[i] = q1[i + 1]
            BY <4>3, <5>1
          <5>3. n - 1 \in 1..n - 1 /\ (n - 1) + 1 = n
            BY <5>1
          <5>4. Tail(q1)[n - 1] = q1[n]
            BY <5>2, <5>3
          <5>5. Tail(q1) # << >>
            <6>1. ASSUME Tail(q1) = << >> PROVE FALSE
              <7>1. Len(Tail(q1)) = 0
                BY <5>6, <6>1
              <7>2. Len(Tail(q1)) = n - 1
                BY <5>2
              <7>3. n - 1 = 0
                BY <7>1, <7>2
              <7>4. n > 1
                BY <5>1
              <7> QED
                BY <7>3, <7>4
            <6> QED
              BY <6>1
          <5> QED
            BY <5>1, <5>2, <5>4, <5>5
        <4>1. /\ Tail(uplink[c]) # << >>
              /\ Tail(uplink[c])[Len(Tail(uplink[c]))] = uplink[c][Len(uplink[c])]
          BY <4>3, <4>4
        <4> QED
          BY <1>5, <2>1, <2>3, <3>1, <4>1 DEF Parted
      <3> QED
        BY <3>2, <3>3
    <2> QED
      BY <2>2, <2>3
  <1>12. ASSUME page[d].ws = "connecting" PROVE Dialling(d)'
    <2>1. Dialling(d)
      BY <1>12 DEF Link
    <2>2. uplink[d] = << >> /\ q = << >> /\ d \notin DOMAIN connected /\ d # c
      BY <1>2, <1>4, <2>1 DEF Dialling
    <2>3. d \notin DOMAIN connected' /\ o = << >>
      BY <1>6, <2>2, ComesIs
    <2>4. downlink'[d] = << >>
      BY <1>3, <1>7, <1>12, <2>2, <2>3
    <2> QED
      BY <1>5, <2>2, <2>3, <2>4 DEF Dialling
  <1>13. IsOpen(d) => Linked(d)'
    BY ServeLinked
  <1> QED
    BY <1>3, <1>8, <1>9, <1>10, <1>11, <1>12, <1>13 DEF Link

LEMMA ServeView ==
    ASSUME PagesTypeOK, TypeOK', NEW c \in Clients, Serves(c), Told, NEW d \in Clients, View(d)
    PROVE  View(d)'
  <1> SUFFICES ASSUME IsOpen(d), NEW r \in DOMAIN rooms', d \in DOMAIN rooms'[r].users
               PROVE  Shows(d, rooms[r].users)'
    BY QueueAfter DEF View
  <1>1. PICK q \in Seq(SUBSET Message), o \in Seq(SUBSET Message) :
           q = downlink[d] /\ o = outbox'[d] /\ downlink'[d] = q \o o
    BY QueueAfter
  <1>2. page'[d] = page[d]
    BY QueueAfter
  <1>3. RoomMsgs(outbox', d) = Hears(o, "room")
    BY <1>1 DEF RoomMsgs, Hears
  <1>4. PICK users : users = rooms'[r].users
    OBVIOUS
  <1>5. CASE AllHear(outbox', users)
    <2>1. HearsLast(outbox', d, users)
      BY <1>4, <1>5 DEF AllHear
    <2>2. Speaks(o, users)
      BY <1>1, <1>3, <2>1 DEF HearsLast, Speaks
    <2>4. Speaks(q \o o, users)
      BY <2>2, SpeaksMore
    <2>3. Speaks(downlink'[d], users)
      BY <1>1, <2>4
    <2> QED
      BY <1>4, <2>3 DEF Shows
  <1>6. CASE r \in DOMAIN rooms /\ users = rooms[r].users /\ Unheard(outbox', users)
    <2>1. Hears(o, "room") = {}
      BY <1>3, <1>4, <1>6 DEF Unheard
    <2>2. Shows(d, users)
      BY <1>4, <1>6 DEF View
    <2>3. CASE Speaks(q, users)
      <3>2. Speaks(q \o o, users)
        BY <2>1, <2>3, SpeaksMore
      <3>1. Speaks(downlink'[d], users)
        BY <1>1, <3>2
      <3> QED
        BY <1>4, <3>1 DEF Shows
    <2>4. CASE Hears(q, "room") = {} /\ page[d].ws = "in" /\ page[d].room = users
      <3>1. Hears(downlink'[d], "room") = {}
        BY <1>1, <2>1, <2>4, SpeaksMore
      <3> QED
        BY <1>2, <1>4, <2>4, <3>1 DEF Shows
    <2> QED
      BY <1>1, <2>2, <2>3, <2>4 DEF Shows
  <1> QED
    BY <1>4, <1>5, <1>6 DEF Told

LEMMA ServeCapture ==
    ASSUME PagesTypeOK, TypeOK', NEW c \in Clients, Serves(c),
           NEW m \in Up, m = Head(uplink[c]), Served(c, m), NEW d \in Clients, Capture(d)
    PROVE  Capture(d)'
  <1> SUFFICES ASSUME IsOpen(d)
               PROVE  /\ Performs(d)' => page[d].stream \/ Asks(uplink'[d], "stopshare") # {}
                      /\ \A i \in Asks(uplink'[d], "share") :
                            page[d].stream \/ \E j \in Asks(uplink'[d], "stopshare") : i < j
    BY QueueAfter DEF Capture
  <1>1. TypeOK /\ Kind(c, {c}) /\ (m.type # "share" => Kind(c, {}))
    BY Typed DEF Served, Orderly
  <1>2. /\ Performs(d) => page[d].stream \/ Asks(uplink[d], "stopshare") # {}
        /\ \A i \in Asks(uplink[d], "share") :
              page[d].stream \/ \E j \in Asks(uplink[d], "stopshare") : i < j
    BY DEF Capture
  <1>3. CASE d # c
    <2>1. uplink'[d] = uplink[d]
      BY <1>3 DEF Serves
    <2>2. Performs(d)' => Performs(d)
      BY <1>1, <1>3, KindPerforms
    <2> QED
      BY <1>2, <2>1, <2>2
  <1>4. CASE d = c
    <2>1. uplink[d] \in Seq(Up) /\ uplink[d] # << >> /\ uplink'[d] = Tail(uplink[d])
      BY <1>4, Typed DEF Serves
    <2>2. PICK q \in Seq(Up) : q = uplink[d]
      BY <2>1
    <2>3. /\ q # << >> /\ uplink'[d] = Tail(q) /\ m = Head(q)
      BY <1>4, <2>1, <2>2
    <2>4. \A t : /\ \A i : i \in Asks(Tail(q), t) <=> (i \in Nat \ {0} /\ i + 1 \in Asks(q, t))
                 /\ \A i \in Asks(q, t) :
                       i = 1 \/ (i - 1 \in Nat \ {0} /\ i - 1 \in Asks(Tail(q), t))
                 /\ 1 \in Asks(q, t) <=> m.type = t
                 /\ Asks(q, t) \subseteq Nat \ {0}
      BY <2>3, AsksTail
    <2>5. ASSUME NEW i \in Asks(q, "share"), i \in Nat, NEW j \in Asks(q, "stopshare"), i < j
          PROVE  /\ j - 1 \in Asks(Tail(q), "stopshare") /\ i - 1 < j - 1
      BY <2>4, <2>5
    <2>6. ASSUME NEW i \in Asks(Tail(q), "share"), ~page[d].stream
          PROVE  \E j \in Asks(Tail(q), "stopshare") : i < j
      <3>1. i \in Nat \ {0} /\ i + 1 \in Asks(q, "share")
        BY <2>4
      <3>2. PICK j \in Asks(q, "stopshare") : i + 1 < j
        BY <1>2, <2>2, <2>6, <3>1
      <3>3. j - 1 \in Asks(Tail(q), "stopshare") /\ i < j - 1
        BY <2>4, <3>1, <3>2
      <3> QED
        BY <3>3
    <2>7. ASSUME Performs(d)', ~page[d].stream PROVE Asks(Tail(q), "stopshare") # {}
      <3>1. CASE m.type = "share"
        <4>1. 1 \in Asks(q, "share")
          BY <2>4, <3>1
        <4>2. PICK j \in Asks(q, "stopshare") : 1 < j
          BY <1>2, <2>2, <2>7, <4>1
        <4> QED
          BY <2>4, <4>2
      <3>2. CASE m.type # "share"
        <4>1. Performs(d)
          BY <1>1, <2>7, <3>2, KindPerforms
        <4>2. PICK j \in Asks(q, "stopshare") : TRUE
          BY <1>2, <2>2, <2>7, <4>1
        <4>3. m.type # "stopshare"
          BY <1>4, <2>7 DEF Served
        <4>4. j # 1
          BY <2>4, <4>2, <4>3
        <4> QED
          BY <2>4, <4>2, <4>4
      <3> QED
        BY <3>1, <3>2
    <2> QED
      BY <2>3, <2>6, <2>7
  <1> QED
    BY <1>3, <1>4

LEMMA ServeKeeps ==
    ASSUME RoomIdsAreNames, PagesInv, NEW c \in Clients, Serve(c)
    PROVE  PagesInv'
  <1>1. PagesTypeOK /\ Safe /\ \A d \in Clients : Link(d) /\ View(d) /\ Capture(d)
    BY DEF PagesInv
  <1>2. PICK m \in Up : m = Head(uplink[c])
    <2>1. uplink[c] \in Seq(Up) /\ uplink[c] # << >>
      BY <1>1, Typed DEF Serve
    <2> QED
      BY <2>1
  <1>3. TypeOK' /\ Served(c, m)
    BY <1>1, <1>2, ServeStep DEF Served
  <1>4. PagesTypeOK' /\ Serves(c)
    BY <1>1, <1>3, ServeWires
  <1>5. Told
    BY <1>3 DEF Served, Orderly
  <1>6. \A d \in Clients : Link(d)' /\ View(d)' /\ Capture(d)'
    BY <1>1, <1>2, <1>3, <1>4, <1>5, ServeLink, ServeView, ServeCapture
  <1> QED
    BY <1>3, <1>4, <1>6 DEF PagesInv, Served
-----------------------------------------------------------------------------
LEMMA PagesNextIs == PagesNext <=> \E c \in Clients : Serve(c) \/ Moves(c)
  BY DEF PagesNext, Moves

LEMMA PagesInitInv == PagesInit => PagesInv
  <1> SUFFICES ASSUME PagesInit PROVE PagesInv
    OBVIOUS
  <1>1. Init /\ page = [c \in Clients |-> NewPage] /\ acts = 0
        /\ uplink = [c \in Clients |-> << >>] /\ downlink = [c \in Clients |-> << >>]
    BY DEF PagesInit
  <1>2. TypeOK /\ Safe
    BY <1>1, InitType, InitSafe
  <1>3. connected = EmptyMap /\ DOMAIN EmptyMap = {}
    BY <1>1 DEF Init, EmptyMap
  <1>4. \A c \in Clients : page[c].ws = "closed" /\ uplink[c] = << >> /\ downlink[c] = << >>
    BY <1>1 DEF NewPage
  <1>5. PagesTypeOK
    <2>1. /\ uplink \in [Clients -> Seq(Up)] /\ downlink \in [Clients -> Seq(SUBSET Message)]
      BY <1>1
    <2>2. page \in [Clients -> Page] /\ acts \in 0..MaxActs
      BY <1>1, NewPageType, PagesAssumption
    <2> QED
      BY <1>2, <2>1, <2>2 DEF PagesTypeOK
  <1>6. \A c \in Clients : Link(c) /\ View(c) /\ Capture(c)
    BY <1>3, <1>4, AsksNothing DEF Link, View, Capture, IsOpen, Refused, Parted
  <1> QED
    BY <1>2, <1>5, <1>6 DEF PagesInv

LEMMA PagesNextInv ==
    ASSUME RoomIdsAreNames, PagesInv, [PagesNext]_pagesVars
    PROVE  PagesInv'
  <1>1. CASE PagesNext
    BY <1>1, PagesNextIs, MoveKeeps, ServeKeeps
  <1>2. CASE UNCHANGED pagesVars
    <2>1. /\ connected' = connected /\ rooms' = rooms /\ lookup' = lookup /\ outbox' = outbox
          /\ gauge' = gauge /\ panicked' = panicked
          /\ uplink' = uplink /\ downlink' = downlink /\ page' = page /\ acts' = acts
      BY <1>2 DEF pagesVars, loop
    <2>2. PagesTypeOK' /\ Safe'
      BY <2>1 DEF PagesInv, PagesTypeOK, TypeOK, IsRoomMap, Safe, SafeMaps, NoPanic
    <2>3. ASSUME NEW c \in Clients PROVE Link(c)' /\ View(c)' /\ Capture(c)'
      <3>1. Link(c) /\ View(c) /\ Capture(c)
        BY DEF PagesInv
      <3> QED
        BY <2>1, <3>1 DEF Link, Linked, View, Shows, Capture, Performs, Refused, IsOpen, Unmet,
                          Parted, Dialling
    <2> QED
      BY <2>2, <2>3 DEF PagesInv
  <1> QED
    BY <1>1, <1>2

LEMMA PagesInvHolds == RoomIdsAreNames => (PagesSpec => []PagesInv)
  <1> SUFFICES ASSUME RoomIdsAreNames PROVE PagesSpec => []PagesInv
    OBVIOUS
  <1>1. PagesInv /\ [PagesNext]_pagesVars => PagesInv'
    BY PagesNextInv
  <1> QED
    BY <1>1, PagesInitInv, PTL DEF PagesSpec

(* The state of the pages and their queues has its type.                   *)
THEOREM PagesTypeCorrect == RoomIdsAreNames => (PagesSpec => []PagesTypeOK)
  <1>1. PagesInv => PagesTypeOK
    BY DEF PagesInv
  <1> QED
    BY <1>1, PagesInvHolds, PTL

(* A page that waits for its first message gets the room or the refusal    *)
(* (useRoom.ts takes anything else for an error): what the loop writes to  *)
(* a client in no room is an answer to what the client has asked for.      *)
THEOREM RoomIsFirst == RoomIdsAreNames => (PagesSpec => []FirstIsRoom)
  <1>1. PagesInv => FirstIsRoom
    BY DEF PagesInv, FirstIsRoom, Link, Linked, IsOpen
  <1> QED
    BY <1>1, PagesInvHolds, PTL

(* A page that has read everything shows its room as the server has it:    *)
(* the last that is on its way to it of the room is who its users are.     *)
THEOREM ViewsAreCurrent == RoomIdsAreNames => (PagesSpec => []ViewIsCurrent)
  <1>1. PagesInv => ViewIsCurrent
    <2> SUFFICES ASSUME PagesInv, NEW c \in Clients, page[c].ws = "in", downlink[c] = << >>
                 PROVE  /\ c \in DOMAIN connected /\ connected[c] \in DOMAIN rooms
                        /\ page[c].room = rooms[connected[c]].users
      BY DEF ViewIsCurrent
    <2>1. Link(c) /\ View(c) /\ Safe /\ IsOpen(c)
      BY DEF PagesInv, IsOpen
    <2>2. Linked(c) /\ ~Refused(c)
      BY <2>1, AsksNothing DEF Link, Refused
    <2>3. 1 \notin Asks(uplink[c], "connected")
      BY <2>1 DEF Link, Unmet
    <2>4. c \in DOMAIN connected /\ connected[c] # NoRoom
      BY <2>2, <2>3 DEF Linked
    <2>5. connected[c] \in DOMAIN rooms /\ c \in DOMAIN rooms[connected[c]].users
      BY <2>1, <2>4 DEF Safe, SafeMaps, Agree
    <2>6. Shows(c, rooms[connected[c]].users)
      BY <2>1, <2>5 DEF View
    <2> QED
      BY <2>4, <2>5, <2>6, AsksNothing DEF Shows, Speaks
  <1> QED
    BY <1>1, PagesInvHolds, PTL

(* Whom the server takes for the presenter of a room captures a screen:    *)
(* a page asks to present only once it has one, and a page that stops says *)
(* so before it could be asked again.                                      *)
THEOREM PresentersDoCapture == RoomIdsAreNames => (PagesSpec => []PresentersCapture)
  <1>1. PagesInv => PresentersCapture
    <2> SUFFICES ASSUME PagesInv, NEW c \in Clients, uplink[c] = << >>,
                        NEW r \in DOMAIN rooms, c \in Presenters(rooms[r].users)
                 PROVE  page[c].stream
      BY DEF PresentersCapture
    <2>1. Link(c) /\ Capture(c) /\ Safe /\ PagesTypeOK
      BY DEF PagesInv
    <2>2. Performs(c) /\ c \in DOMAIN connected
      BY <2>1, AbsentPerforms DEF Performs
    <2>3. IsOpen(c)
      <3>1. page[c].ws \in {"closed", "connecting", "open", "in"}
        BY <2>1, Typed, PageIs
      <3> QED
        BY <2>1, <2>2, <3>1 DEF Link, Parted, Dialling, IsOpen
    <2> QED
      BY <2>1, <2>2, <2>3, AsksNothing DEF Capture
  <1> QED
    BY <1>1, PagesInvHolds, PTL
=============================================================================
