--------------------------- MODULE SessionsProofs ---------------------------
(***************************************************************************)
(* Proofs about the sessions between the pages, for every number of        *)
(* clients, rooms, sessions and messages on their way.                     *)
(*                                                                         *)
(* A session is offered and answered over two connections that the loop    *)
(* joins, while either end may stop, leave or be thrown out. The invariant *)
(* SessionsInv says for each live session how far its two ends have come,  *)
(* and of each page what its queues still owe it.                          *)
(***************************************************************************)
EXTENDS SignallingProofs

(* Messages of a type about session s that a page will find (w is what it  *)
(* has still to read), and that it has sent (q).                           *)
Brings(w, t, s) == \E i \in DOMAIN w : \E m \in w[i] : m.type = t /\ m.id = s
Begs(q, t, s)   == {i \in DOMAIN q : q[i].type = t /\ q[i].id = s}

(* A session is announced once, and before its offer.                      *)
Once(w, t) ==
    \A i, j \in DOMAIN w : \A m \in w[i], n \in w[j] :
        m.type = t /\ n.type = t /\ m.id = n.id => i = j /\ m = n
InTurn(w) ==
    \A i, j \in DOMAIN w : \A m \in w[i], n \in w[j] :
        m.type = "clientsession" /\ n.type = "host" /\ m.id = n.id => i < j

(* What a page p has and does agrees with its queues.                      *)
Unoffered(p, q, s) == s \notin DOMAIN p.host /\ Begs(q, "hostoffer", s) = {}
Tidy(p, q, w) ==
    /\ Once(w, "hostsession") /\ Once(w, "clientsession") /\ InTurn(w)
    /\ \A s \in SessionIds :
          Brings(w, "hostsession", s) => s \notin p.offering /\ Unoffered(p, q, s)
    /\ \A s \in p.offering : Unoffered(p, q, s)
    /\ \A s \in SessionIds : Brings(w, "clientsession", s) => s \notin DOMAIN p.client
    /\ \A s \in p.shows : s \in DOMAIN p.client /\ p.client[s] = "answered"
    /\ p.ws # "in" => p.offering \cup p.answering \subseteq p.mute
    /\ p.mute \subseteq p.offering \cup p.answering
    /\ \A s \in DOMAIN p.host : p.host[s] = "connected" => p.stream

(* Page c is, for the loop, the host or the client of a live session.      *)
Hosts(s, c) ==
    \E r \in DOMAIN rooms : s \in DOMAIN rooms[r].sessions /\ rooms[r].sessions[s].host = c
Watches(s, c) ==
    \E r \in DOMAIN rooms : s \in DOMAIN rooms[r].sessions /\ rooms[r].sessions[s].client = c

(* Page p takes itself for the host, or the client, of session s.          *)
AtHost(p, w, s) == Brings(w, "hostsession", s) \/ s \in p.offering \/ s \in DOMAIN p.host
AtClient(p, w, s) ==
    \/ Brings(w, "clientsession", s) \/ s \in DOMAIN p.client
    \/ Brings(w, "host", s) \/ s \in p.answering

(* So does the loop, or it has ended the session.                          *)
Shared(c) ==
    \A s \in UsedIds(rooms) :
       /\ AtHost(page[c], downlink[c], s) => Hosts(s, c)
       /\ AtClient(page[c], downlink[c], s) => Watches(s, c)
       /\ ~Brings(downlink[c], "endshare", s)
       /\ IsOpen(c) => s \notin page[c].mute

(* A session whose offer the page has not sent, or not since it stopped to *)
(* share, is one that nobody answers.                                      *)
Holds(p, w, s) ==
    Brings(w, "hostsession", s) \/ s \in p.offering \/ (~p.stream /\ s \in DOMAIN p.host)
Answers(p, q, w, s) ==
    \/ Brings(w, "host", s) \/ s \in p.answering
    \/ Begs(q, "clientanswer", s) # {} \/ Brings(w, "client", s)
Apart(c, d) ==
    \A s \in SessionIds :
        ~(Holds(page[c], downlink[c], s) /\ Answers(page[d], uplink[d], downlink[d], s))

(* A page that stopped to share has said so before its last offers.        *)
Stopped(c) ==
    \A s \in DOMAIN page[c].host \cap UsedIds(rooms) : ~page[c].stream =>
        \A j \in Begs(uplink[c], "hostoffer", s) :
            \E i \in Asks(uplink[c], "stopshare") : i < j

(* How far session s of host h and client k has come, unless it is about   *)
(* to end.                                                                 *)
Doomed(h, k) ==
    Asks(uplink[h], "stopshare") \cup Asks(uplink[h], "gone") \cup Asks(uplink[k], "gone") # {}
Unanswered(s, h, k) ==
    /\ Begs(uplink[k], "clientanswer", s) = {} /\ ~Brings(downlink[h], "client", s)
    /\ s \in DOMAIN page[h].host => page[h].host[s] = "offered"
    /\ s \in DOMAIN page[k].client => page[k].client[s] = "new"
    /\ Brings(downlink[k], "clientsession", s) \/ s \in DOMAIN page[k].client
Foretold(s, h) == Brings(downlink[h], "hostsession", s) \/ s \in page[h].offering
Offered(s, h, k) ==
    /\ s \in DOMAIN page[h].host
    /\ \/ Begs(uplink[h], "hostoffer", s) # {} \/ Brings(downlink[k], "host", s)
       \/ s \in page[k].answering /\ s \in DOMAIN page[k].client
Answered(s, h, k) ==
    /\ s \in DOMAIN page[h].host /\ s \in page[k].shows
    /\ \/ Begs(uplink[k], "clientanswer", s) # {} \/ Brings(downlink[h], "client", s)
       \/ page[h].host[s] = "connected"
Linking(s, h, k) ==
    \/ Doomed(h, k)
    \/ Unanswered(s, h, k) /\ (Foretold(s, h) \/ Offered(s, h, k))
    \/ Answered(s, h, k)

(* The network has broken the peer connection of session s.                *)
Broken(s, h, k) == s \in page[h].lost \cup page[k].lost

SessionsInv ==
    /\ \A c \in Clients : Tidy(page[c], uplink[c], downlink[c])
    /\ \A c \in Clients : Shared(c)
    /\ \A c, d \in Clients : Apart(c, d)
    /\ \A c \in Clients : Stopped(c)
    /\ \A s \in SessionIds, h, k \in Clients :
          Hosts(s, h) /\ Watches(s, k) => Linking(s, h, k) \/ Broken(s, h, k)

(* Messages of a queue that are there after one was taken, or more came.   *)
LEMMA BringsNothing ==
    /\ \A t, s : ~Brings(<< >>, t, s) /\ Begs(<< >>, t, s) = {}
    /\ \A t : Once(<< >>, t)
    /\ InTurn(<< >>)
  BY DEF Brings, Begs, Once, InTurn

LEMMA RestPlaces ==
    ASSUME NEW w \in Seq(SUBSET Message), w # << >>, NEW m \in Head(w)
    PROVE  \E k \in {0, 1} :
              /\ \A i \in DOMAIN Rest(w, m) :
                    /\ i \in Nat /\ i + k \in DOMAIN w /\ Rest(w, m)[i] \subseteq w[i + k]
                    /\ m \in Rest(w, m)[i] => i + k # 1
              /\ \A i \in DOMAIN w : \A x \in w[i] :
                    (x = m /\ i = 1) \/ (i - k \in DOMAIN Rest(w, m) /\ x \in Rest(w, m)[i - k])
              /\ 1 \in DOMAIN w /\ m \in w[1] /\ \A i \in DOMAIN w : i \in Nat /\ i >= 1
  <1>1. PICK r \in Seq(SUBSET Message) : r = Rest(w, m)
    BY RestType
  <1>2. /\ Head(w) = {m} => /\ DOMAIN r = 1..Len(w) - 1
                            /\ \A i \in DOMAIN r : r[i] = w[i + 1]
        /\ Head(w) # {m} => /\ DOMAIN r = DOMAIN w /\ r[1] = w[1] \ {m}
                            /\ \A i \in DOMAIN w \ {1} : r[i] = w[i]
    BY <1>1, RestType
  <1>3. PICK n \in Nat \ {0} : n = Len(w)
    OBVIOUS
  <1>4. DOMAIN w = 1..n /\ Head(w) = w[1]
    BY <1>3
  <1>5. CASE Head(w) = {m}
    <2>1. DOMAIN r = 1..n - 1 /\ \A i \in 1..n - 1 : r[i] = w[i + 1]
      BY <1>2, <1>3, <1>5
    <2>2. \A i \in 1..n - 1 : i \in Nat /\ i + 1 \in 1..n /\ i + 1 # 1
      OBVIOUS
    <2>3. ASSUME NEW i \in 1..n, NEW x \in w[i]
          PROVE  (x = m /\ i = 1) \/ (i - 1 \in DOMAIN r /\ x \in r[i - 1])
      <3>1. CASE i = 1
        BY <1>4, <1>5, <2>3, <3>1
      <3>2. CASE i # 1
        <4>1. i - 1 \in 1..n - 1 /\ (i - 1) + 1 = i
          BY <3>2
        <4>2. r[i - 1] = w[i]
          BY <2>1, <4>1
        <4> QED
          BY <2>1, <4>1, <4>2
      <3> QED
        BY <3>1, <3>2
    <2> QED
      BY <1>1, <1>4, <2>1, <2>2, <2>3
  <1>6. CASE Head(w) # {m}
    <2>1. DOMAIN r = 1..n /\ r[1] = w[1] \ {m} /\ \A i \in 1..n \ {1} : r[i] = w[i]
      BY <1>2, <1>4, <1>6
    <2>2. \A i \in 1..n : i + 0 = i /\ i - 0 = i /\ i \in Nat
      OBVIOUS
    <2>3. \A i \in 1..n : r[i] \subseteq w[i] /\ (m \in r[i] => i # 1)
      BY <2>1
    <2>4. \A i \in 1..n : \A x \in w[i] : (x = m /\ i = 1) \/ x \in r[i]
      BY <2>1
    <2> QED
      BY <1>1, <1>4, <2>1, <2>2, <2>3, <2>4
  <1> QED
    BY <1>5, <1>6

LEMMA BringsRest ==
    ASSUME NEW w \in Seq(SUBSET Message), w # << >>, NEW m \in Head(w)
    PROVE  /\ \A t, s : Brings(Rest(w, m), t, s) => Brings(w, t, s)
           /\ \A t, s : Brings(w, t, s) => Brings(Rest(w, m), t, s) \/ (m.type = t /\ m.id = s)
           /\ \A t : Once(w, t) => Once(Rest(w, m), t)
           /\ \A t : Once(w, t) /\ m.type = t => ~Brings(Rest(w, m), t, m.id)
           /\ InTurn(w) => InTurn(Rest(w, m))
           /\ InTurn(w) /\ m.type = "host" => ~Brings(w, "clientsession", m.id)
           /\ Brings(w, m.type, m.id)
  <1>1. PICK r : r = Rest(w, m)
    OBVIOUS
  <1>2. PICK k \in {0, 1} :
              /\ \A i \in DOMAIN r :
                    /\ i \in Nat /\ i + k \in DOMAIN w /\ r[i] \subseteq w[i + k]
                    /\ m \in r[i] => i + k # 1
              /\ \A i \in DOMAIN w : \A x \in w[i] :
                    (x = m /\ i = 1) \/ (i - k \in DOMAIN r /\ x \in r[i - k])
              /\ 1 \in DOMAIN w /\ m \in w[1] /\ \A i \in DOMAIN w : i \in Nat /\ i >= 1
    BY <1>1, RestPlaces
  <1>3. \A t, s : Brings(r, t, s) => Brings(w, t, s)
    BY <1>2 DEF Brings
  <1>4. \A t, s : Brings(w, t, s) => Brings(r, t, s) \/ (m.type = t /\ m.id = s)
    BY <1>2 DEF Brings
  <1>5. ASSUME NEW t, Once(w, t) PROVE Once(r, t)
    BY <1>2, <1>5 DEF Once
  <1>6. ASSUME NEW t, Once(w, t), m.type = t PROVE ~Brings(r, t, m.id)
    <2>1. ASSUME NEW i \in DOMAIN r, NEW x \in r[i], x.type = t, x.id = m.id PROVE FALSE
      <3>1. i + k \in DOMAIN w /\ x \in w[i + k] /\ 1 \in DOMAIN w /\ m \in w[1]
        BY <1>2, <2>1
      <3>2. i + k = 1 /\ x = m
        BY <1>6, <2>1, <3>1 DEF Once
      <3> QED
        BY <1>2, <2>1, <3>2
    <2> QED
      BY <2>1 DEF Brings
  <1>7. ASSUME InTurn(w) PROVE InTurn(r)
    <2>1. ASSUME NEW i \in DOMAIN r, NEW j \in DOMAIN r, NEW x \in r[i], NEW y \in r[j],
                 x.type = "clientsession", y.type = "host", x.id = y.id
          PROVE  i < j
      <3>1. i + k \in DOMAIN w /\ x \in w[i + k] /\ j + k \in DOMAIN w /\ y \in w[j + k]
        BY <1>2
      <3>2. i + k < j + k
        BY <1>7, <2>1, <3>1 DEF InTurn
      <3> QED
        BY <1>2, <3>2
    <2> QED
      BY <2>1 DEF InTurn
  <1>8. ASSUME InTurn(w), m.type = "host" PROVE ~Brings(w, "clientsession", m.id)
    <2>1. ASSUME NEW i \in DOMAIN w, NEW x \in w[i], x.type = "clientsession", x.id = m.id
          PROVE  FALSE
      <3>1. i < 1
        BY <1>2, <1>8, <2>1 DEF InTurn
      <3> QED
        BY <1>2, <3>1
    <2> QED
      BY <2>1 DEF Brings
  <1>9. Brings(w, m.type, m.id)
    BY <1>2 DEF Brings
  <1> QED
    BY <1>1, <1>3, <1>4, <1>5, <1>6, <1>7, <1>8, <1>9

LEMMA BringsMore ==
    ASSUME NEW w \in Seq(SUBSET Message), NEW o \in Seq(SUBSET Message)
    PROVE  /\ \A t, s : Brings(w \o o, t, s) <=> Brings(w, t, s) \/ Brings(o, t, s)
           /\ \A t : /\ Once(w, t) /\ Once(o, t)
                     /\ \A s : ~(Brings(w, t, s) /\ Brings(o, t, s))
                     => Once(w \o o, t)
           /\ /\ InTurn(w) /\ InTurn(o)
              /\ \A s : ~(Brings(w, "host", s) /\ Brings(o, "clientsession", s))
              => InTurn(w \o o)
  <1>1. PICK n \in Nat, k \in Nat : n = Len(w) /\ k = Len(o)
    OBVIOUS
  <1>2. PICK b : b = w \o o
    OBVIOUS
  <1>3. /\ DOMAIN b = 1..n + k /\ DOMAIN w = 1..n /\ DOMAIN o = 1..k
        /\ \A i \in 1..n : b[i] = w[i]
        /\ \A i \in 1..k : b[i + n] = o[i]
    BY <1>1, <1>2
  <1>4. ASSUME NEW i \in DOMAIN b, NEW x \in b[i]
        PROVE  \/ i \in DOMAIN w /\ x \in w[i]
               \/ i > n /\ i - n \in DOMAIN o /\ x \in o[i - n]
    <2>1. CASE i \in 1..n
      BY <1>3, <1>4, <2>1
    <2>2. CASE i \notin 1..n
      <3>1. i \in Int /\ i > n /\ i - n \in 1..k /\ (i - n) + n = i
        BY <1>3, <2>2
      <3>2. b[i] = o[i - n]
        BY <1>3, <3>1
      <3> QED
        BY <1>3, <1>4, <3>1, <3>2
    <2> QED
      BY <2>1, <2>2
  <1>5. ASSUME NEW i \in DOMAIN w PROVE i \in DOMAIN b /\ b[i] = w[i] /\ i \in Int /\ i <= n
    BY <1>3
  <1>6. ASSUME NEW i \in DOMAIN o PROVE i + n \in DOMAIN b /\ b[i + n] = o[i]
    BY <1>3
  <1>7. \A t, s : Brings(b, t, s) <=> Brings(w, t, s) \/ Brings(o, t, s)
    <2>1. ASSUME NEW t, NEW s, Brings(b, t, s) PROVE Brings(w, t, s) \/ Brings(o, t, s)
      BY <1>4, <2>1 DEF Brings
    <2>2. ASSUME NEW t, NEW s, Brings(w, t, s) PROVE Brings(b, t, s)
      BY <1>5, <2>2 DEF Brings
    <2>3. ASSUME NEW t, NEW s, Brings(o, t, s) PROVE Brings(b, t, s)
      BY <1>6, <2>3 DEF Brings
    <2> QED
      BY <2>1, <2>2, <2>3
  <1>8. ASSUME NEW t, Once(w, t), Once(o, t), \A s : ~(Brings(w, t, s) /\ Brings(o, t, s))
        PROVE  Once(b, t)
    <2>1. ASSUME NEW i \in DOMAIN b, NEW j \in DOMAIN b, NEW x \in b[i], NEW y \in b[j],
                 x.type = t, y.type = t, x.id = y.id
          PROVE  i = j /\ x = y
      <3>1. CASE i \in DOMAIN w /\ x \in w[i] /\ j \in DOMAIN w /\ y \in w[j]
        BY <1>8, <2>1, <3>1 DEF Once
      <3>2. CASE i - n \in DOMAIN o /\ x \in o[i - n] /\ j - n \in DOMAIN o /\ y \in o[j - n]
        <4>1. i - n = j - n /\ x = y
          BY <1>8, <2>1, <3>2 DEF Once
        <4> QED
          BY <1>3, <4>1
      <3>3. CASE i \in DOMAIN w /\ x \in w[i] /\ j - n \in DOMAIN o /\ y \in o[j - n]
        BY <1>8, <2>1, <3>3 DEF Brings
      <3>4. CASE i - n \in DOMAIN o /\ x \in o[i - n] /\ j \in DOMAIN w /\ y \in w[j]
        BY <1>8, <2>1, <3>4 DEF Brings
      <3> QED
        BY <1>4, <3>1, <3>2, <3>3, <3>4
    <2> QED
      BY <2>1 DEF Once
  <1>9. ASSUME InTurn(w), InTurn(o), \A s : ~(Brings(w, "host", s) /\ Brings(o, "clientsession", s))
        PROVE  InTurn(b)
    <2>1. ASSUME NEW i \in DOMAIN b, NEW j \in DOMAIN b, NEW x \in b[i], NEW y \in b[j],
                 x.type = "clientsession", y.type = "host", x.id = y.id
          PROVE  i < j
      <3>1. CASE i \in DOMAIN w /\ x \in w[i] /\ j \in DOMAIN w /\ y \in w[j]
        BY <1>9, <2>1, <3>1 DEF InTurn
      <3>2. CASE i - n \in DOMAIN o /\ x \in o[i - n] /\ j - n \in DOMAIN o /\ y \in o[j - n]
        <4>1. i - n < j - n
          BY <1>9, <2>1, <3>2 DEF InTurn
        <4> QED
          BY <1>3, <4>1
      <3>3. CASE i \in DOMAIN w /\ j > n
        BY <1>3, <1>5, <3>3
      <3>4. CASE i - n \in DOMAIN o /\ x \in o[i - n] /\ j \in DOMAIN w /\ y \in w[j]
        BY <1>9, <2>1, <3>4 DEF Brings
      <3> QED
        BY <1>4, <3>1, <3>2, <3>3, <3>4
    <2> QED
      BY <2>1 DEF InTurn
  <1> QED
    BY <1>2, <1>7, <1>8, <1>9

LEMMA BegsAppend ==
    ASSUME NEW q \in Seq(Up), NEW m
    PROVE  /\ \A t, s : /\ Begs(q, t, s) \subseteq Begs(Append(q, m), t, s)
                        /\ ~(m.type = t /\ m.id = s) => Begs(Append(q, m), t, s) = Begs(q, t, s)
                        /\ m.type = t /\ m.id = s =>
                              Begs(Append(q, m), t, s) = Begs(q, t, s) \cup {Len(q) + 1}
           /\ \A t : \A i \in Asks(q, t) : i < Len(q) + 1
  <1>1. /\ DOMAIN Append(q, m) = DOMAIN q \cup {Len(q) + 1}
        /\ \A i \in DOMAIN q : Append(q, m)[i] = q[i]
        /\ Append(q, m)[Len(q) + 1] = m
        /\ DOMAIN q = 1..Len(q) /\ Len(q) + 1 \notin DOMAIN q
    OBVIOUS
  <1>2. PICK new, n : new = Append(q, m) /\ n = Len(q) + 1
    OBVIOUS
  <1>3. \A t, s : /\ Begs(q, t, s) \subseteq Begs(new, t, s)
                  /\ ~(m.type = t /\ m.id = s) => Begs(new, t, s) = Begs(q, t, s)
                  /\ m.type = t /\ m.id = s => Begs(new, t, s) = Begs(q, t, s) \cup {n}
    BY <1>1, <1>2 DEF Begs
  <1>4. \A t : \A i \in Asks(q, t) : i < Len(q) + 1
    BY <1>1 DEF Asks
  <1> QED
    BY <1>2, <1>3, <1>4

LEMMA BegsTail ==
    ASSUME NEW q \in Seq(Up), q # << >>
    PROVE  \A t, s : /\ \A i \in Begs(Tail(q), t, s) : i \in Nat \ {0} /\ i + 1 \in Begs(q, t, s)
                     /\ \A i \in Begs(q, t, s) :
                           \/ i = 1 /\ Head(q).type = t /\ Head(q).id = s
                           \/ i - 1 \in Nat \ {0} /\ i - 1 \in Begs(Tail(q), t, s)
                     /\ 1 \in Begs(q, t, s) <=> (Head(q).type = t /\ Head(q).id = s)
  <1>1. /\ DOMAIN Tail(q) = 1..Len(q) - 1 /\ DOMAIN q = 1..Len(q)
        /\ \A i \in DOMAIN Tail(q) : Tail(q)[i] = q[i + 1]
        /\ Head(q) = q[1] /\ Len(q) \in Nat \ {0}
    OBVIOUS
  <1>2. PICK n \in Nat \ {0} : n = Len(q)
    BY <1>1
  <1>3. PICK h, left : h = Head(q) /\ left = Tail(q)
    OBVIOUS
  <1>4. /\ DOMAIN left = 1..n - 1 /\ DOMAIN q = 1..n /\ h = q[1]
        /\ \A i \in 1..n - 1 : left[i] = q[i + 1]
    BY <1>1, <1>2, <1>3
  <1> TAKE t, s
  <1>5. \A i : i \in Begs(left, t, s) <=> (i \in 1..n - 1 /\ q[i + 1].type = t /\ q[i + 1].id = s)
    BY <1>4 DEF Begs
  <1>6. \A i : i \in Begs(q, t, s) <=> (i \in 1..n /\ q[i].type = t /\ q[i].id = s)
    BY <1>4 DEF Begs
  <1>7. ASSUME NEW i \in Begs(left, t, s) PROVE i \in Nat \ {0} /\ i + 1 \in Begs(q, t, s)
    <2>1. i \in 1..n - 1 /\ i + 1 \in 1..n
      BY <1>5
    <2> QED
      BY <1>5, <1>6, <2>1
  <1>8. ASSUME NEW i \in Begs(q, t, s), i # 1
        PROVE  i - 1 \in Nat \ {0} /\ i - 1 \in Begs(left, t, s)
    <2>1. i \in 1..n /\ q[i].type = t /\ q[i].id = s
      BY <1>6
    <2>2. i - 1 \in 1..n - 1 /\ (i - 1) + 1 = i
      BY <1>8, <2>1
    <2> QED
      BY <1>5, <2>1, <2>2
  <1>9. 1 \in Begs(q, t, s) <=> (h.type = t /\ h.id = s)
    BY <1>4, <1>6
  <1> QED
    BY <1>3, <1>7, <1>8, <1>9

(* The offers and answers that are still on their way are where they were. *)
Sheds(q2, q) ==
    \A j \in DOMAIN q2 : q2[j].type \in {"hostoffer", "clientanswer"} =>
        j \in DOMAIN q /\ \A i \in 1..j : q2[i] = q[i]

LEMMA ShedsBegs ==
    ASSUME NEW q \in Seq(Up), NEW q2 \in Seq(Up), Sheds(q2, q),
           NEW t \in {"hostoffer", "clientanswer"}, NEW s
    PROVE  /\ Begs(q2, t, s) \subseteq Begs(q, t, s)
           /\ \A j \in Begs(q2, t, s) : \A i \in Asks(q, "stopshare") :
                 i < j => i \in Asks(q2, "stopshare")
  <1>1. DOMAIN q = 1..Len(q) /\ DOMAIN q2 = 1..Len(q2) /\ Len(q) \in Nat /\ Len(q2) \in Nat
    OBVIOUS
  <1>2. ASSUME NEW j \in Begs(q2, t, s)
        PROVE  /\ j \in DOMAIN q2 /\ j \in DOMAIN q /\ \A i \in 1..j : q2[i] = q[i]
               /\ j \in 1..j
    BY <1>1 DEF Begs, Sheds
  <1>3. Begs(q2, t, s) \subseteq Begs(q, t, s)
    BY <1>2 DEF Begs
  <1>4. ASSUME NEW j \in Begs(q2, t, s), NEW i \in Asks(q, "stopshare"), i < j
        PROVE  i \in Asks(q2, "stopshare")
    <2>1. i \in 1..j /\ i \in DOMAIN q2 /\ q[i].type = "stopshare"
      BY <1>1, <1>2, <1>4 DEF Asks
    <2> QED
      BY <1>2, <2>1 DEF Asks
  <1> QED
    BY <1>3, <1>4

LEMMA ShedsSome ==
    ASSUME NEW q \in Seq(Up)
    PROVE  /\ Sheds(q, q) /\ Sheds(<< >>, q)
           /\ \A m : m.type \notin {"hostoffer", "clientanswer"} => Sheds(Append(q, m), q)
           /\ \A n \in 0..Len(q) : Sheds(SubSeq(q, 1, n), q)
           /\ \A q2 \in Seq(Up) : Sheds(q2, q) =>
                 \A m : m.type \notin {"hostoffer", "clientanswer"} => Sheds(Append(q2, m), q)
  <1>1. DOMAIN q = 1..Len(q) /\ Len(q) \in Nat
    OBVIOUS
  <1>2. Sheds(q, q) /\ Sheds(<< >>, q)
    BY DEF Sheds
  <1>3. ASSUME NEW q2 \in Seq(Up), Sheds(q2, q), NEW m, m.type \notin {"hostoffer", "clientanswer"}
        PROVE  Sheds(Append(q2, m), q)
    <2>4. PICK n \in Nat : n = Len(q2)
      OBVIOUS
    <2>1. PICK new : new = Append(q2, m)
      OBVIOUS
    <2>2. /\ DOMAIN new = 1..n + 1 /\ DOMAIN q2 = 1..n /\ \A i \in 1..n : new[i] = q2[i]
          /\ new[n + 1] = m
      BY <2>1, <2>4
    <2>3. ASSUME NEW j \in DOMAIN new, new[j].type \in {"hostoffer", "clientanswer"}
          PROVE  j \in DOMAIN q /\ \A i \in 1..j : new[i] = q[i]
      <3>1. j \in 1..n
        BY <1>3, <2>2, <2>3
      <3>2. j \in DOMAIN q /\ \A i \in 1..j : q2[i] = q[i]
        BY <1>3, <2>2, <2>3, <3>1 DEF Sheds
      <3>3. \A i \in 1..j : i \in 1..n
        BY <3>1
      <3> QED
        BY <2>2, <3>2, <3>3
    <2> QED
      BY <2>1, <2>3 DEF Sheds
  <1>4. ASSUME NEW n \in 0..Len(q) PROVE Sheds(SubSeq(q, 1, n), q)
    <2>1. PICK new : new = SubSeq(q, 1, n)
      OBVIOUS
    <2>2. DOMAIN new = 1..n /\ \A i \in 1..n : new[i] = q[i]
      BY <2>1
    <2>3. \A j \in 1..n : j \in DOMAIN q /\ \A i \in 1..j : i \in 1..n
      BY <1>1
    <2> QED
      BY <2>1, <2>2, <2>3 DEF Sheds
  <1> QED
    BY <1>2, <1>3, <1>4
-----------------------------------------------------------------------------
(* What a step of the loop does to the sessions, and writes about them *)

(* No session of a is missing in b, or different there.                    *)
Fades(a, b) ==
    \A r \in DOMAIN a : \A s \in DOMAIN a[r].sessions :
        r \in DOMAIN b /\ s \in DOMAIN b[r].sessions /\ a[r].sessions[s] = b[r].sessions[s]

(* What is written is about users, ends the writer or a session of E.      *)
Tells(out, E) ==
    \A d \in Clients : \A i \in DOMAIN out[d] : \A m \in out[d][i] :
        m.type \in {"room", "closewriter"} \/ (m.type = "endshare" /\ m.id \in E)
TellsBatch(msgs, E) ==
    \A d \in Clients : \A m \in msgs[d] :
        m.type \in {"room", "closewriter"} \/ (m.type = "endshare" /\ m.id \in E)

(* Sessions end, or nothing happens to them.                               *)
Plainly ==
    /\ Fades(rooms', rooms)
    /\ \E E : Tells(outbox', E) /\ E \cap UsedIds(rooms') = {}

LEMMA WritesIn ==
    ASSUME NEW out \in Outbox, NEW msgs \in Batch, NEW d \in Clients,
           NEW i \in DOMAIN Write(out, msgs)[d]
    PROVE  \/ i \in DOMAIN out[d] /\ Write(out, msgs)[d][i] = out[d][i]
           \/ i \notin DOMAIN out[d] /\ Write(out, msgs)[d][i] = msgs[d]
  <1>1. out[d] \in Seq(SUBSET Message) /\ msgs[d] \in SUBSET Message
    BY DEF Outbox, Batch
  <1>2. CASE msgs[d] = {}
    <2>1. Write(out, msgs)[d] = out[d]
      BY <1>2, WriteAt
    <2> QED
      BY <2>1
  <1>3. CASE msgs[d] # {}
    <2>1. Write(out, msgs)[d] = Append(out[d], msgs[d])
      BY <1>3, WriteAt
    <2>2. PICK n : n = Len(out[d]) + 1
      OBVIOUS
    <2>3. PICK q : q = Write(out, msgs)[d]
      OBVIOUS
    <2>4. /\ DOMAIN q = DOMAIN out[d] \cup {n} /\ n \notin DOMAIN out[d]
          /\ \A j \in DOMAIN out[d] : q[j] = out[d][j]
          /\ q[n] = msgs[d]
      BY <1>1, <2>1, <2>2, <2>3, ClosingAppend
    <2> QED
      BY <2>3, <2>4
  <1> QED
    BY <1>2, <1>3

LEMMA WriteTells ==
    ASSUME NEW out \in Outbox, NEW msgs \in Batch, NEW E, Tells(out, E), TellsBatch(msgs, E)
    PROVE  Tells(Write(out, msgs), E)
  BY WritesIn DEF Tells, TellsBatch

LEMMA TellsSome ==
    /\ \A E : Tells(Quiet, E)
    /\ \A E, users : TellsBatch(notifyInfoChanged(users), E)
    /\ \A E, c, reason : TellsBatch(To(c, CloseWriter(reason)), E)
    /\ \A room, c, stay, E : Involving(room, c) \subseteq E => TellsBatch(EndShares(room, c, stay), E)
  <1>1. \A E : Tells(Quiet, E)
    BY DEF Tells, Quiet
  <1>2. \A E, users : TellsBatch(notifyInfoChanged(users), E)
    BY DEF TellsBatch, notifyInfoChanged, RoomMsg
  <1>3. \A E, c, reason : TellsBatch(To(c, CloseWriter(reason)), E)
    BY DEF TellsBatch, To, CloseWriter
  <1>4. \A room, c, stay, E : Involving(room, c) \subseteq E => TellsBatch(EndShares(room, c, stay), E)
    BY DEF TellsBatch, EndShares, EndShare
  <1> QED
    BY <1>1, <1>2, <1>3, <1>4

LEMMA TellsMore ==
    ASSUME NEW out, NEW E, NEW F, Tells(out, E), E \subseteq F
    PROVE  Tells(out, F)
  BY DEF Tells

(* The sessions of room id are those it had, but for ended; the others'    *)
(* are what they were.                                                     *)
LEMMA EndedFade ==
    ASSUME TypeOK, IdsDisjoint(rooms), NEW id \in DOMAIN rooms, NEW ended,
           ended \subseteq DOMAIN rooms[id].sessions,
           \A r \in DOMAIN rooms' : r \in DOMAIN rooms,
           \A r \in DOMAIN rooms' \ {id} : rooms'[r].sessions = rooms[r].sessions,
           id \in DOMAIN rooms' => rooms'[id].sessions = Without(rooms[id].sessions, ended),
           NEW out, outbox' = out, Tells(out, ended)
    PROVE  Plainly
  <1>1. \A s \in DOMAIN Without(rooms[id].sessions, ended) :
            s \in DOMAIN rooms[id].sessions \ ended
              /\ Without(rooms[id].sessions, ended)[s] = rooms[id].sessions[s]
    <2>1. PICK old : old = rooms[id].sessions
      OBVIOUS
    <2>2. /\ DOMAIN Without(old, ended) = DOMAIN old \ ended
          /\ \A x \in DOMAIN Without(old, ended) : Without(old, ended)[x] = old[x]
      BY GoneIs
    <2> QED
      BY <2>1, <2>2
  <1>2. Fades(rooms', rooms)
    BY <1>1 DEF Fades
  <1>3. ended \cap UsedIds(rooms') = {}
    <2>1. ASSUME NEW s \in ended, NEW r \in DOMAIN rooms', s \in DOMAIN rooms'[r].sessions
          PROVE  FALSE
      <3>1. CASE r = id
        BY <1>1, <2>1, <3>1
      <3>2. CASE r # id
        BY <2>1, <3>2 DEF IdsDisjoint
      <3> QED
        BY <3>1, <3>2
    <2> QED
      BY <2>1 DEF UsedIds
  <1> QED
    BY <1>2, <1>3 DEF Plainly

LEMMA CloseTells ==
    ASSUME TypeOK, Safe, NEW id \in DOMAIN rooms, NEW room \in Room, NEW gone,
           room.sessions = rooms[id].sessions, NEW ended \in SUBSET DOMAIN rooms[id].sessions,
           NEW out \in Outbox, Tells(out, ended), CloseAndNotify(id, room, ended, gone, out)
    PROVE  Plainly
  <1>1. room.users \in Users /\ Without(room.sessions, ended) \in Sessions
    BY RoomType, WithoutType DEF Sessions
  <1>2. PICK after \in Room : after = [room EXCEPT !.sessions = Without(@, ended)]
    BY <1>1, RoomType
  <1>3. after.sessions = Without(rooms[id].sessions, ended)
    BY <1>2 DEF Room
  <1>4. /\ rooms' = [rooms EXCEPT ![id] = after]
        /\ outbox' = Write(out, notifyInfoChanged(room.users))
    BY <1>2 DEF CloseAndNotify
  <1>5. Tells(outbox', ended)
    BY <1>1, <1>4, BatchType, TellsSome, WriteTells
  <1>6. /\ DOMAIN rooms' = DOMAIN rooms /\ rooms'[id] = after
        /\ \A r \in DOMAIN rooms \ {id} : rooms'[r] = rooms[r]
    BY <1>4
  <1> QED
    BY <1>3, <1>5, <1>6, EndedFade DEF Safe, SafeMaps

(* A map whose rooms have the sessions of rooms.                           *)
SessionsOfRooms(rms) ==
    /\ IsRoomMap(rms) /\ DOMAIN rms = DOMAIN rooms
    /\ \A r \in DOMAIN rooms : rms[r].sessions = rooms[r].sessions

LEMMA LeaveTells ==
    ASSUME TypeOK, Safe, NEW rms, SessionsOfRooms(rms), NEW id \in DOMAIN rooms,
           NEW c \in DOMAIN rms[id].users, NEW names, NEW out \in Outbox, Tells(out, {}), NEW g,
           LeaveRoom(c, id, rms, names, out, g)
    PROVE  Plainly
  <1> DEFINE room  == rms[id]
             stay  == DOMAIN room.users \ {c}
             ended == Involving(room, c)
             told  == Write(out, EndShares(room, c, stay))
  <1>1. /\ room \in Room /\ room.users \in Users /\ room.sessions = rooms[id].sessions
        /\ id \in DOMAIN rms
    BY RoomMapType, RoomType DEF SessionsOfRooms
  <1>2. told \in Outbox /\ EndShares(room, c, stay) \in Batch
    BY <1>1, EndSharesType, WriteType
  <1>3. Tells(told, ended)
    <2>1. Tells(out, ended) /\ TellsBatch(EndShares(room, c, stay), ended)
      BY TellsMore, TellsSome
    <2> QED
      BY <1>2, <2>1, WriteTells
  <1>4. ended \subseteq DOMAIN rooms[id].sessions
    BY <1>1 DEF Involving
  <1>5. CASE stay = {}
    <2>1. rooms' = Without(rms, {id}) /\ outbox' = told
      BY <1>5 DEF LeaveRoom
    <2>2. DOMAIN rooms' = DOMAIN rms \ {id} /\ \A r \in DOMAIN rooms' : rooms'[r] = rms[r]
      BY <2>1 DEF Without, Restrict
    <2> HIDE DEF told, ended, stay, room
    <2> QED
      BY <1>3, <1>4, <2>1, <2>2, EndedFade DEF Safe, SafeMaps, SessionsOfRooms
  <1>6. CASE stay # {}
    <2>1. PICK users \in Successions(room.users, c) :
             /\ rooms' = [rms EXCEPT ![id] = [room EXCEPT !.users = users,
                                                          !.sessions = Without(@, ended)]]
             /\ outbox' = Write(told, notifyInfoChanged(users))
      BY <1>6 DEF LeaveRoom
    <2>2. users \in Users
      BY <1>1, SuccessionsType
    <2>3. Without(room.sessions, ended) \in Sessions
      BY <1>1, RoomType, WithoutType DEF Sessions
    <2>4. PICK new \in Room : new = [room EXCEPT !.users = users, !.sessions = Without(@, ended)]
      BY <1>1, <2>2, <2>3, RoomType
    <2>5. new.sessions = Without(room.sessions, ended)
      BY <1>1, <2>4 DEF Room
    <2>6. rooms' = [rms EXCEPT ![id] = new]
      BY <2>1, <2>4
    <2> HIDE DEF told, ended, stay
    <2>7. /\ DOMAIN rooms' = DOMAIN rooms /\ rooms'[id].sessions = Without(rooms[id].sessions, ended)
          /\ \A r \in DOMAIN rooms \ {id} : rooms'[r].sessions = rooms[r].sessions
      BY <1>1, <2>5, <2>6 DEF SessionsOfRooms
    <2>8. Tells(outbox', ended)
      BY <1>2, <1>3, <2>1, <2>2, BatchType, TellsSome, WriteTells
    <2> QED
      BY <1>4, <2>7, <2>8, EndedFade DEF Safe, SafeMaps
  <1> QED
    BY <1>5, <1>6


LEMMA SameSessionsPlain ==
    ASSUME NEW rms, SessionsOfRooms(rms), rooms' = rms, NEW out, outbox' = out, Tells(out, {})
    PROVE  Plainly
  <1>1. Fades(rooms', rooms)
    BY DEF Fades, SessionsOfRooms
  <1>2. Tells(outbox', {}) /\ {} \cap UsedIds(rooms') = {}
    OBVIOUS
  <1> QED
    BY <1>1, <1>2 DEF Plainly

LEMMA NoErrorPlain ==
    ASSUME TypeOK, Safe, NEW rms, SessionsOfRooms(rms), NEW c \in Clients,
           NEW reason \in Reasons, NEW conn, NEW names, NEW out \in Outbox, Tells(out, {}),
           NEW g, executeNoError(c, reason, conn, rms, names, out, g)
    PROVE  Plainly
  <1> DEFINE bye == Write(out, To(c, CloseWriter(reason)))
  <1>1. To(c, CloseWriter(reason)) \in Batch
    BY MessageType, BatchType
  <1>2. TellsBatch(To(c, CloseWriter(reason)), {})
    BY TellsSome
  <1>3. bye \in Outbox /\ Tells(bye, {})
    BY <1>1, <1>2, WriteType, WriteTells
  <1>4. CASE conn[c] # NoRoom /\ conn[c] \in DOMAIN rms /\ c \in DOMAIN rms[conn[c]].users
    <2>1. LeaveRoom(c, conn[c], rms, names, bye, g)
      BY <1>4 DEF executeNoError
    <2>2. PICK id : id = conn[c]
      OBVIOUS
    <2>3. id \in DOMAIN rooms /\ c \in DOMAIN rms[id].users
      BY <1>4, <2>2 DEF SessionsOfRooms
    <2>4. LeaveRoom(c, id, rms, names, bye, g)
      BY <2>1, <2>2
    <2> HIDE DEF bye
    <2> QED
      BY <1>3, <2>3, <2>4, LeaveTells
  <1>5. CASE ~(conn[c] # NoRoom /\ conn[c] \in DOMAIN rms /\ c \in DOMAIN rms[conn[c]].users)
    <2>1. rooms' = rms /\ outbox' = bye
      BY <1>5 DEF executeNoError
    <2> HIDE DEF bye
    <2> QED
      BY <1>3, <2>1, SameSessionsPlain
  <1> QED
    BY <1>4, <1>5

LEMMA LeavePlain ==
    ASSUME TypeOK, Safe, NEW c \in Clients, NEW reason \in Reasons, Leave(c, reason)
    PROVE  Plainly
  <1>1. SessionsOfRooms(rooms)
    BY DEF SessionsOfRooms, TypeOK
  <1>2. Quiet \in Outbox /\ Tells(Quiet, {})
    BY QuietType, TellsSome
  <1> QED
    BY <1>1, <1>2, NoErrorPlain DEF Leave

LEMMA RefusePlain ==
    ASSUME TypeOK, Safe, NEW c \in Clients, Refuse(c)
    PROVE  Plainly
  BY LeavePlain DEF Refuse, Reasons

LEMMA QuietPlain ==
    ASSUME TypeOK, outbox' = Quiet, rooms' = rooms
    PROVE  Plainly
  <1>1. SessionsOfRooms(rooms) /\ Tells(Quiet, {})
    BY TellsSome DEF SessionsOfRooms, TypeOK
  <1> QED
    BY <1>1, SameSessionsPlain

(* Handlers that change the users of the current room.                     *)
LEMMA UsersPlain ==
    ASSUME TypeOK, Safe, NEW c \in DOMAIN connected, HasRoom(c), NEW users \in Users,
           NEW ended \in SUBSET DOMAIN CurrentRoom(c).sessions,
           NEW out \in Outbox, Tells(out, ended),
           CloseAndNotify(connected[c], [CurrentRoom(c) EXCEPT !.users = users], ended, 0, out)
    PROVE  Plainly
  <1>1. PICK id \in DOMAIN rooms : id = connected[c] /\ CurrentRoom(c) = rooms[id]
    BY InCurrentRoom
  <1>2. rooms[id] \in Room
    BY UsersConnected
  <1>3. PICK room \in Room : room = [rooms[id] EXCEPT !.users = users]
    BY <1>2, RoomType
  <1>4. room.sessions = rooms[id].sessions
    BY <1>2, <1>3 DEF Room
  <1>5. CloseAndNotify(id, room, ended, 0, out)
    BY <1>1, <1>3
  <1>6. ended \in SUBSET DOMAIN rooms[id].sessions
    BY <1>1
  <1> QED
    BY <1>4, <1>5, <1>6, CloseTells

LEMMA NamePlain ==
    ASSUME TypeOK, Safe, NEW c \in DOMAIN connected, c \in Clients, Name(c)
    PROVE  Plainly
  <1>1. CASE ~HasRoom(c) /\ Refuse(c)
    BY <1>1, RefusePlain
  <1>2. CASE HasRoom(c) /\ CloseAndNotify(connected[c], CurrentRoom(c), {}, 0, Quiet)
    <2> DEFINE users == CurrentRoom(c).users
    <2>1. CurrentRoom(c) \in Room
      BY <1>2, InCurrentRoom
    <2>2. users \in Users /\ CurrentRoom(c) = [CurrentRoom(c) EXCEPT !.users = users]
      BY <2>1, RoomType DEF Room
    <2>3. CloseAndNotify(connected[c], [CurrentRoom(c) EXCEPT !.users = users], {}, 0, Quiet)
      BY <1>2, <2>2
    <2>4. {} \in SUBSET DOMAIN CurrentRoom(c).sessions /\ Quiet \in Outbox /\ Tells(Quiet, {})
      BY QuietType, TellsSome
    <2> QED
      BY <1>2, <2>2, <2>3, <2>4, UsersPlain
  <1> QED
    BY <1>1, <1>2 DEF Name

LEMMA StopPlain ==
    ASSUME TypeOK, Safe, NEW c \in DOMAIN connected, HasRoom(c),
           NEW target \in DOMAIN CurrentRoom(c).users,
           NEW out \in Outbox, Tells(out, HostedBy(CurrentRoom(c), target)),
           CloseAndNotify(connected[c], StopStreaming(CurrentRoom(c), target),
                          HostedBy(CurrentRoom(c), target), 0, out)
    PROVE  Plainly
  <1>1. CurrentRoom(c) \in Room
    BY InCurrentRoom
  <1>2. \E users \in Users :
              /\ StopStreaming(CurrentRoom(c), target) = [CurrentRoom(c) EXCEPT !.users = users]
              /\ DOMAIN users = DOMAIN CurrentRoom(c).users
              /\ \A u \in DOMAIN users : /\ users[u].Owner = CurrentRoom(c).users[u].Owner
                                         /\ users[u].CanShare = CurrentRoom(c).users[u].CanShare
              /\ Presenters(users) = Presenters(CurrentRoom(c).users) \ {target}
    BY <1>1, StopStreamingIs, Zenon
  <1>3. PICK users \in Users :
              StopStreaming(CurrentRoom(c), target) = [CurrentRoom(c) EXCEPT !.users = users]
    BY <1>2, ZenonT(60)
  <1>4. HostedBy(CurrentRoom(c), target) \in SUBSET DOMAIN CurrentRoom(c).sessions
    BY DEF HostedBy
  <1>5. CloseAndNotify(connected[c], [CurrentRoom(c) EXCEPT !.users = users],
                       HostedBy(CurrentRoom(c), target), 0, out)
    BY <1>3
  <1> QED
    BY <1>4, <1>5, UsersPlain

LEMMA StopSharePlain ==
    ASSUME TypeOK, Safe, NEW c \in DOMAIN connected, c \in Clients, StopShare(c)
    PROVE  Plainly
  <1> DEFINE room  == CurrentRoom(c)
             ended == HostedBy(room, c)
             told  == [p \in Clients |->
                        IF p \in DOMAIN room.users
                          THEN {EndShare(s) : s \in {t \in ended : room.sessions[t].client = p}}
                          ELSE {}]
  <1>1. CASE ~HasRoom(c) /\ Refuse(c)
    BY <1>1, RefusePlain
  <1>2. CASE /\ HasRoom(c)
             /\ CloseAndNotify(connected[c], StopStreaming(room, c), ended, 0,
                               Write(Quiet, told))
    <2>1. room \in Room /\ c \in DOMAIN room.users
      BY <1>2, InCurrentRoom
    <2>2. ended \subseteq SessionIds
      BY <2>1, RoomType DEF HostedBy
    <2>3. told \in Batch
      BY <2>2, MessageType DEF Batch
    <2>4. TellsBatch(told, ended)
      BY DEF TellsBatch, EndShare
    <2> HIDE DEF told
    <2>5. Tells(Quiet, ended)
      BY TellsSome
    <2> HIDE DEF ended
    <2>6. Write(Quiet, told) \in Outbox /\ Tells(Write(Quiet, told), ended)
      BY <2>3, <2>4, <2>5, QuietType, WriteType, WriteTells
    <2> HIDE DEF room
    <2> QED
      BY <1>2, <2>1, <2>6, StopPlain DEF room, ended
  <1> QED
    BY <1>1, <1>2 DEF StopShare

LEMMA OwnerStopSharePlain ==
    ASSUME TypeOK, Safe, NEW c \in DOMAIN connected, c \in Clients, NEW target,
           OwnerStopShare(c, target)
    PROVE  Plainly
  <1>1. CASE ~MayTarget(c, target) /\ Refuse(c)
    BY <1>1, RefusePlain
  <1>2. CASE /\ MayTarget(c, target)
             /\ CloseAndNotify(connected[c], StopStreaming(CurrentRoom(c), target),
                               HostedBy(CurrentRoom(c), target), 0, Quiet)
    <2>1. HasRoom(c) /\ target \in DOMAIN CurrentRoom(c).users
      BY <1>2, OwnerRoom DEF MayTarget
    <2>2. Tells(Quiet, HostedBy(CurrentRoom(c), target))
      BY TellsSome
    <2> QED
      BY <1>2, <2>1, <2>2, QuietType, StopPlain
  <1>3. CASE outbox' = Quiet /\ rooms' = rooms
    BY <1>3, QuietPlain
  <1> QED
    BY <1>1, <1>2, <1>3 DEF OwnerStopShare

LEMMA QuietsPlain ==
    ASSUME TypeOK, Safe, NEW c \in DOMAIN connected, c \in Clients, Refuse(c) \/ Quiets(c)
    PROVE  Plainly
  <1>1. CASE Quiets(c)
    <2>1. PICK T, users, ended :
            /\ Silences(CurrentRoom(c), users, T, ended)
            /\ CloseAndNotify(connected[c], [CurrentRoom(c) EXCEPT !.users = users],
                              ended, 0, Quiet)
      BY <1>1 DEF Quiets
    <2>2. users \in Users /\ ended \in SUBSET DOMAIN CurrentRoom(c).sessions
      BY <2>1 DEF Silences
    <2>3. HasRoom(c) /\ Quiet \in Outbox /\ Tells(Quiet, ended)
      BY <1>1, QuietType, TellsSome DEF Quiets
    <2> QED
      BY <2>1, <2>2, <2>3, UsersPlain
  <1> QED
    BY <1>1, RefusePlain

LEMMA EvictPlain ==
    ASSUME TypeOK, Safe, NEW c \in DOMAIN connected, NEW target, MayTarget(c, target),
           NEW reason \in Reasons, NEW room \in Room,
           room.users = CurrentRoom(c).users, room.sessions = CurrentRoom(c).sessions,
           Evict(target, connected[c], room, reason)
    PROVE  Plainly
  <1> DEFINE ended == Involving(room, target)
             bye   == Write(Quiet, To(target, CloseWriter(reason)))
  <1>1. PICK id \in DOMAIN rooms : /\ id = connected[c] /\ CurrentRoom(c) = rooms[id]
                                   /\ target \in DOMAIN rooms[id].users
    BY OwnerRoom, InCurrentRoom DEF MayTarget
  <1>2. target \in Clients /\ room.users \in Users
    BY <1>1, UsersConnected, ConnectedClient, RoomType
  <1>3. PICK after \in Room : after = [room EXCEPT !.users = Without(@, {target})]
    <2>1. Without(room.users, {target}) \in Users
      BY <1>2, UsersWithout
    <2> QED
      BY <2>1, RoomType
  <1>4. after.sessions = rooms[id].sessions
    BY <1>1, <1>3 DEF Room
  <1>5. CloseAndNotify(id, after, ended, 1, bye)
    BY <1>1, <1>3 DEF Evict
  <1>6. ended \in SUBSET DOMAIN rooms[id].sessions
    BY <1>1 DEF Involving
  <1>7. bye \in Outbox /\ Tells(bye, ended)
    <2>1. To(target, CloseWriter(reason)) \in Batch
      BY <1>2, MessageType, BatchType
    <2>2. TellsBatch(To(target, CloseWriter(reason)), ended) /\ Tells(Quiet, ended)
      BY TellsSome
    <2> QED
      BY <2>1, <2>2, QuietType, WriteType, WriteTells
  <1> HIDE DEF bye, ended
  <1> QED
    BY <1>4, <1>5, <1>6, <1>7, CloseTells

LEMMA KickPlain ==
    ASSUME TypeOK, Safe, NEW c \in DOMAIN connected, c \in Clients, NEW target,
           Kick(c, target) \/ Ban(c, target)
    PROVE  Plainly
  <1>1. CASE ~MayTarget(c, target) /\ Refuse(c)
    BY <1>1, RefusePlain
  <1>2. CASE MayTarget(c, target)
    <2>1. CurrentRoom(c) \in Room /\ target \in Clients
      BY <1>2, OwnerRoom, CurrentRoomType, RoomType DEF MayTarget
    <2>2. CurrentRoom(c).banned \cup {Addr[target]} \in SUBSET Addrs
      BY <2>1, ConfigAssumption DEF Room
    <2>3. PICK room \in Room : room = [CurrentRoom(c) EXCEPT !.banned = @ \cup {Addr[target]}]
      BY <2>1, <2>2, RoomType
    <2>4. room.users = CurrentRoom(c).users /\ room.sessions = CurrentRoom(c).sessions
      BY <2>1, <2>3 DEF Room
    <2>5. "kicked" \in Reasons /\ "banned" \in Reasons
      BY DEF Reasons
    <2>6. \/ Evict(target, connected[c], CurrentRoom(c), "kicked")
          \/ Evict(target, connected[c], room, "banned")
      BY <1>2, <2>3 DEF Kick, Ban
    <2> QED
      BY <1>2, <2>1, <2>4, <2>5, <2>6, EvictPlain
  <1> QED
    BY <1>1, <1>2 DEF Kick, Ban

LEMMA DissolvePlain ==
    ASSUME TypeOK, Safe, NEW c \in DOMAIN connected, c \in Clients, Dissolve(c)
    PROVE  Plainly
  <1> DEFINE members == DOMAIN CurrentRoom(c).users
             byes    == [p \in Clients |->
                            IF p \in members THEN {CloseWriter("dissolved")} ELSE {}]
  <1>1. CASE ~OwnsRoom(c) /\ Refuse(c)
    BY <1>1, RefusePlain
  <1>2. CASE rooms' = Without(rooms, {connected[c]}) /\ outbox' = Write(Quiet, byes)
    <2>1. /\ DOMAIN rooms' = DOMAIN rooms \ {connected[c]}
          /\ \A r \in DOMAIN rooms' : rooms'[r] = rooms[r]
      BY <1>2 DEF Without, Restrict
    <2>2. byes \in Batch
      BY MessageType DEF Batch, Reasons
    <2>3. TellsBatch(byes, {})
      BY DEF TellsBatch, CloseWriter
    <2> HIDE DEF byes
    <2>4. Tells(outbox', {})
      BY <1>2, <2>2, <2>3, QuietType, TellsSome, WriteTells
    <2>5. Fades(rooms', rooms)
      BY <2>1 DEF Fades
    <2>6. {} \cap UsedIds(rooms') = {}
      OBVIOUS
    <2> QED
      BY <2>4, <2>5, <2>6 DEF Plainly
  <1> QED
    BY <1>1, <1>2 DEF Dissolve

LEMMA OpenRoomPlain ==
    ASSUME TypeOK, NEW c \in Clients, NEW id, NEW mode, NEW leave, id \notin DOMAIN rooms,
           OpenRoom(c, id, mode, leave)
    PROVE  Plainly
  <1>1. PICK users : users = Assign(EmptyMap, c, NewUser(TRUE))
    OBVIOUS
  <1>2. PICK room : room = [mode |-> mode, closeOnOwnerLeave |-> leave, users |-> users,
                            sessions |-> EmptyMap, banned |-> {}]
    OBVIOUS
  <1>3. rooms' = Assign(rooms, id, room) /\ outbox' = Write(Quiet, notifyInfoChanged(users))
    BY <1>1, <1>2 DEF OpenRoom
  <1>4. users \in Users
    <2>1. EmptyMap \in PartialFn(Clients, User)
      BY EmptyType
    <2> QED
      BY <1>1, <2>1, NewUserType, AssignType DEF Users
  <1>5. Tells(outbox', {}) /\ {} \cap UsedIds(rooms') = {}
    BY <1>3, <1>4, QuietType, BatchType, TellsSome, WriteTells
  <1>6. Fades(rooms', rooms)
    <2>1. /\ DOMAIN rooms' = DOMAIN rooms \cup {id} /\ rooms'[id] = room
          /\ \A r \in DOMAIN rooms : rooms'[r] = rooms[r]
      BY <1>3 DEF Assign
    <2>2. DOMAIN room.sessions = {}
      BY <1>2 DEF EmptyMap
    <2> QED
      BY <2>1, <2>2 DEF Fades
  <1> QED
    BY <1>5, <1>6 DEF Plainly

(* What sessions are announced with.                                       *)
OfSessions == {"hostsession", "clientsession", "host", "client", "endshare"}

LEMMA BringsWrite ==
    ASSUME NEW out \in Outbox, NEW msgs \in Batch, NEW d \in Clients
    PROVE  \A t, s : Brings(Write(out, msgs)[d], t, s) <=>
                        Brings(out[d], t, s) \/ \E m \in msgs[d] : m.type = t /\ m.id = s
  <1>1. out[d] \in Seq(SUBSET Message) /\ msgs[d] \in SUBSET Message
    BY DEF Outbox, Batch
  <1>2. CASE msgs[d] = {}
    <2>1. Write(out, msgs)[d] = out[d]
      BY <1>2, WriteAt
    <2> QED
      BY <1>2, <2>1
  <1>3. CASE msgs[d] # {}
    <2>1. Write(out, msgs)[d] = Append(out[d], msgs[d])
      BY <1>3, WriteAt
    <2>2. PICK n : n = Len(out[d]) + 1
      OBVIOUS
    <2>3. PICK q : q = Write(out, msgs)[d]
      OBVIOUS
    <2>4. /\ DOMAIN q = DOMAIN out[d] \cup {n}
          /\ \A j \in DOMAIN out[d] : q[j] = out[d][j]
          /\ q[n] = msgs[d]
      BY <1>1, <2>1, <2>2, <2>3, ClosingAppend
    <2>5. \A t, s : Brings(q, t, s) <=>
                       Brings(out[d], t, s) \/ \E m \in msgs[d] : m.type = t /\ m.id = s
      BY <2>4 DEF Brings
    <2> QED
      BY <2>3, <2>5
  <1> QED
    BY <1>2, <1>3

LEMMA OnceWrite ==
    ASSUME NEW out \in Outbox, NEW msgs \in Batch, NEW d \in Clients, NEW t, Once(out[d], t),
           \A m, n \in msgs[d] : m.type = t /\ n.type = t /\ m.id = n.id => m = n,
           \A m \in msgs[d] : m.type = t => ~Brings(out[d], t, m.id)
    PROVE  Once(Write(out, msgs)[d], t)
  <1>1. PICK q : q = Write(out, msgs)[d]
    OBVIOUS
  <1>2. \A i \in DOMAIN q : \/ i \in DOMAIN out[d] /\ q[i] = out[d][i]
                            \/ i \notin DOMAIN out[d] /\ q[i] = msgs[d]
    BY <1>1, WritesIn
  <1>3. ASSUME NEW i \in DOMAIN q, NEW j \in DOMAIN q, i \notin DOMAIN out[d], j \notin DOMAIN out[d]
        PROVE  i = j
    <2>1. out[d] \in Seq(SUBSET Message) /\ msgs[d] \in SUBSET Message
      BY DEF Outbox, Batch
    <2>2. q = out[d] \/ q = Append(out[d], msgs[d])
      BY <1>1, WriteAt
    <2> QED
      BY <1>3, <2>1, <2>2, ClosingAppend
  <1>4. ASSUME NEW i \in DOMAIN q, NEW j \in DOMAIN q, NEW m \in q[i], NEW n \in q[j],
               m.type = t, n.type = t, m.id = n.id
        PROVE  i = j /\ m = n
    <2>1. CASE i \in DOMAIN out[d] /\ j \in DOMAIN out[d]
      BY <1>2, <1>4, <2>1 DEF Once
    <2>2. CASE i \notin DOMAIN out[d] /\ j \notin DOMAIN out[d]
      BY <1>2, <1>3, <1>4, <2>2
    <2>3. CASE i \in DOMAIN out[d] /\ j \notin DOMAIN out[d]
      BY <1>2, <1>4, <2>3 DEF Brings
    <2>4. CASE i \notin DOMAIN out[d] /\ j \in DOMAIN out[d]
      BY <1>2, <1>4, <2>4 DEF Brings
    <2> QED
      BY <2>1, <2>2, <2>3, <2>4
  <1> QED
    BY <1>1, <1>4 DEF Once

LEMMA InTurnIf ==
    ASSUME NEW w, (\A s : ~Brings(w, "host", s)) \/ (\A s : ~Brings(w, "clientsession", s))
    PROVE  InTurn(w)
  BY DEF InTurn, Brings

(* Nothing is said about a session; each of new is announced to its ends.  *)
SaysNone(out) == \A d \in Clients : \A t \in OfSessions : \A s : ~Brings(out[d], t, s)
SaysNew(out, new) ==
    \A d \in Clients :
       /\ Once(out[d], "hostsession") /\ Once(out[d], "clientsession")
       /\ \A s : /\ Brings(out[d], "hostsession", s) <=> s \in DOMAIN new /\ new[s].host = d
                 /\ Brings(out[d], "clientsession", s) <=> s \in DOMAIN new /\ new[s].client = d
                 /\ \A t \in {"host", "client", "endshare"} : ~Brings(out[d], t, s)

LEMMA SaysNoneSome ==
    /\ SaysNone(Quiet)
    /\ \A users \in Users, out \in Outbox :
          SaysNone(out) => SaysNone(Write(out, notifyInfoChanged(users)))
    /\ \A out : SaysNone(out) =>
          \A d \in Clients : Once(out[d], "hostsession") /\ Once(out[d], "clientsession")
  <1>1. SaysNone(Quiet)
    BY DEF SaysNone, Quiet, Brings
  <1>2. ASSUME NEW users \in Users, NEW out \in Outbox, SaysNone(out)
        PROVE  SaysNone(Write(out, notifyInfoChanged(users)))
    <2>1. PICK msgs \in Batch : msgs = notifyInfoChanged(users)
      BY BatchType
    <2>2. \A d \in Clients : \A m \in msgs[d] : m.type = "room"
      BY <2>1 DEF notifyInfoChanged, RoomMsg
    <2>3. "room" \notin OfSessions
      BY DEF OfSessions
    <2>4. ASSUME NEW d \in Clients, NEW t \in OfSessions, NEW s
          PROVE  ~Brings(Write(out, msgs)[d], t, s)
      BY <1>2, <2>2, <2>3, BringsWrite DEF SaysNone
    <2> QED
      BY <2>1, <2>4 DEF SaysNone
  <1>3. ASSUME NEW out, SaysNone(out), NEW d \in Clients
        PROVE  Once(out[d], "hostsession") /\ Once(out[d], "clientsession")
    <2>1. \A s : ~Brings(out[d], "hostsession", s) /\ ~Brings(out[d], "clientsession", s)
      BY <1>3 DEF SaysNone, OfSessions
    <2> QED
      BY <2>1 DEF Once, Brings
  <1> QED
    BY <1>1, <1>2, <1>3

LEMMA SaysNewMore ==
    ASSUME NEW out \in Outbox, NEW new, SaysNew(out, new), NEW users \in Users
    PROVE  SaysNew(Write(out, notifyInfoChanged(users)), new)
  <1>1. PICK msgs \in Batch : msgs = notifyInfoChanged(users)
    BY BatchType
  <1>2. \A d \in Clients : \A m \in msgs[d] : m.type = "room"
    BY <1>1 DEF notifyInfoChanged, RoomMsg
  <1>3. ASSUME NEW d \in Clients, NEW t, t # "room"
        PROVE  /\ \A s : Brings(Write(out, msgs)[d], t, s) <=> Brings(out[d], t, s)
               /\ Once(out[d], t) => Once(Write(out, msgs)[d], t)
    <2>1. ~\E m \in msgs[d] : m.type = t
      BY <1>2, <1>3
    <2>2. \A s : Brings(Write(out, msgs)[d], t, s) <=> Brings(out[d], t, s)
      BY <2>1, BringsWrite
    <2>3. Once(out[d], t) => Once(Write(out, msgs)[d], t)
      BY <2>1, OnceWrite
    <2> QED
      BY <2>2, <2>3
  <1>4. ASSUME NEW d \in Clients,
               NEW t \in {"hostsession", "clientsession", "host", "client", "endshare"}
        PROVE  /\ \A s : Brings(Write(out, msgs)[d], t, s) <=> Brings(out[d], t, s)
               /\ Once(out[d], t) => Once(Write(out, msgs)[d], t)
    BY <1>3
  <1>5. PICK after : after = Write(out, msgs)
    OBVIOUS
  <1>6. ASSUME NEW d \in Clients
        PROVE  /\ Once(after[d], "hostsession") /\ Once(after[d], "clientsession")
               /\ \A s : /\ Brings(after[d], "hostsession", s) <=> s \in DOMAIN new /\ new[s].host = d
                         /\ Brings(after[d], "clientsession", s) <=> s \in DOMAIN new /\ new[s].client = d
                         /\ \A t \in {"host", "client", "endshare"} : ~Brings(after[d], t, s)
    <2>1. Once(out[d], "hostsession") /\ Once(out[d], "clientsession")
      BY DEF SaysNew
    <2>2. Once(after[d], "hostsession")
      BY <1>4, <1>5, <2>1
    <2>3. Once(after[d], "clientsession")
      BY <1>4, <1>5, <2>1
    <2>4. ASSUME NEW s
          PROVE  /\ Brings(out[d], "hostsession", s) <=> s \in DOMAIN new /\ new[s].host = d
                 /\ Brings(out[d], "clientsession", s) <=> s \in DOMAIN new /\ new[s].client = d
                 /\ \A t \in {"host", "client", "endshare"} : ~Brings(out[d], t, s)
      BY DEF SaysNew
    <2>5. ASSUME NEW s
          PROVE  Brings(after[d], "hostsession", s) <=> s \in DOMAIN new /\ new[s].host = d
      BY <1>4, <1>5, <2>4
    <2>6. ASSUME NEW s
          PROVE  Brings(after[d], "clientsession", s) <=> s \in DOMAIN new /\ new[s].client = d
      BY <1>4, <1>5, <2>4
    <2>7. ASSUME NEW s, NEW t \in {"host", "client", "endshare"} PROVE ~Brings(after[d], t, s)
      BY <1>4, <1>5, <2>4
    <2> QED
      BY <2>2, <2>3, <2>5, <2>6, <2>7
  <1>7. SaysNew(after, new)
    BY <1>6 DEF SaysNew
  <1> QED
    BY <1>1, <1>5, <1>7

LEMMA AnnounceSays ==
    ASSUME NEW out \in Outbox, SaysNone(out), NEW new \in Sessions
    PROVE  SaysNew(Announce(out, new), new)
  <1>1. PICK hosts \in Batch : hosts = HostSessions(new)
    BY SessionMessagesType
  <1>2. PICK clients \in Batch : clients = ClientSessions(new)
    BY SessionMessagesType
  <1>3. PICK half \in Outbox : half = Write(out, hosts)
    BY WriteType
  <1>4. ASSUME NEW d \in Clients
        PROVE  /\ \A m \in hosts[d] :
                     m.type = "hostsession" /\ m.id \in DOMAIN new /\ new[m.id].host = d
                     /\ m = HostSession(m.id, new[m.id].client)
               /\ \A s \in DOMAIN new :
                     new[s].host = d => \E m \in hosts[d] : m.type = "hostsession" /\ m.id = s
               /\ \A m \in clients[d] :
                     m.type = "clientsession" /\ m.id \in DOMAIN new /\ new[m.id].client = d
                     /\ m = ClientSession(m.id, new[m.id].host)
               /\ \A s \in DOMAIN new :
                     new[s].client = d => \E m \in clients[d] : m.type = "clientsession" /\ m.id = s
    <2>1. /\ \A s, p : /\ HostSession(s, p).type = "hostsession" /\ HostSession(s, p).id = s
                        /\ ClientSession(s, p).type = "clientsession" /\ ClientSession(s, p).id = s
          /\ hosts[d] = {HostSession(s, new[s].client) : s \in {t \in DOMAIN new : new[t].host = d}}
          /\ clients[d] = {ClientSession(s, new[s].host) : s \in {t \in DOMAIN new : new[t].client = d}}
      BY <1>1, <1>2 DEF HostSessions, ClientSessions, HostSession, ClientSession
    <2>2. \A m \in hosts[d] : m.type = "hostsession" /\ m.id \in DOMAIN new /\ new[m.id].host = d
                     /\ m = HostSession(m.id, new[m.id].client)
      BY <2>1
    <2>3. \A m \in clients[d] : m.type = "clientsession" /\ m.id \in DOMAIN new /\ new[m.id].client = d
                     /\ m = ClientSession(m.id, new[m.id].host)
      BY <2>1
    <2>4. ASSUME NEW s \in DOMAIN new, new[s].host = d
          PROVE  \E m \in hosts[d] : m.type = "hostsession" /\ m.id = s
      <3>1. HostSession(s, new[s].client) \in hosts[d]
        BY <2>1, <2>4
      <3> QED
        BY <2>1, <3>1
    <2>5. ASSUME NEW s \in DOMAIN new, new[s].client = d
          PROVE  \E m \in clients[d] : m.type = "clientsession" /\ m.id = s
      <3>1. ClientSession(s, new[s].host) \in clients[d]
        BY <2>1, <2>5
      <3> QED
        BY <2>1, <3>1
    <2> QED
      BY <2>2, <2>3, <2>4, <2>5
  <1>5. ASSUME NEW d \in Clients, NEW s
        PROVE  /\ Brings(half[d], "hostsession", s) <=> s \in DOMAIN new /\ new[s].host = d
               /\ \A t \in {"clientsession", "host", "client", "endshare"} : ~Brings(half[d], t, s)
    <2>1. \A t : Brings(half[d], t, s) <=>
                    Brings(out[d], t, s) \/ \E m \in hosts[d] : m.type = t /\ m.id = s
      BY <1>3, BringsWrite
    <2>2. \A t \in {"hostsession", "clientsession", "host", "client", "endshare"} : ~Brings(out[d], t, s)
      BY DEF SaysNone, OfSessions
    <2> QED
      BY <1>4, <2>1, <2>2
  <1>6. PICK last : last = Write(half, clients)
    OBVIOUS
  <1>7. ASSUME NEW d \in Clients, NEW s
        PROVE  /\ Brings(last[d], "hostsession", s) <=> s \in DOMAIN new /\ new[s].host = d
               /\ Brings(last[d], "clientsession", s) <=> s \in DOMAIN new /\ new[s].client = d
               /\ \A t \in {"host", "client", "endshare"} : ~Brings(last[d], t, s)
    <2>1. \A t : Brings(last[d], t, s) <=>
                    Brings(half[d], t, s) \/ \E m \in clients[d] : m.type = t /\ m.id = s
      BY <1>6, BringsWrite
    <2>2. Brings(last[d], "hostsession", s) <=> s \in DOMAIN new /\ new[s].host = d
      <3>1. ~\E m \in clients[d] : m.type = "hostsession"
        BY <1>4
      <3> QED
        BY <1>5, <2>1, <3>1
    <2>3. Brings(last[d], "clientsession", s) <=> s \in DOMAIN new /\ new[s].client = d
      <3>1. ~Brings(half[d], "clientsession", s)
        BY <1>5
      <3>2. (\E m \in clients[d] : m.type = "clientsession" /\ m.id = s) <=> s \in DOMAIN new /\ new[s].client = d
        BY <1>4
      <3> QED
        BY <2>1, <3>1, <3>2
    <2>4. ASSUME NEW t \in {"host", "client", "endshare"} PROVE ~Brings(last[d], t, s)
      <3>1. ~\E m \in clients[d] : m.type = t
        BY <1>4
      <3> QED
        BY <1>5, <2>1, <3>1
    <2> QED
      BY <2>2, <2>3, <2>4
  <1>8. ASSUME NEW d \in Clients
        PROVE  Once(last[d], "hostsession") /\ Once(last[d], "clientsession")
    <2>1. Once(half[d], "hostsession")
      <3>1. Once(out[d], "hostsession") /\ \A s : ~Brings(out[d], "hostsession", s)
        BY SaysNoneSome DEF SaysNone, OfSessions
      <3>2. \A m, n \in hosts[d] : m.type = "hostsession" /\ n.type = "hostsession" /\ m.id = n.id => m = n
        BY <1>4
      <3> QED
        BY <1>3, <3>1, <3>2, OnceWrite
    <2>2. Once(half[d], "clientsession")
      <3>1. \A s : ~Brings(half[d], "clientsession", s)
        BY <1>5
      <3> QED
        BY <3>1 DEF Once, Brings
    <2>3. Once(last[d], "hostsession")
      <3>1. ~\E m \in clients[d] : m.type = "hostsession"
        BY <1>4
      <3> QED
        BY <1>6, <2>1, <3>1, OnceWrite
    <2>4. Once(last[d], "clientsession")
      <3>1. \A m, n \in clients[d] : m.type = "clientsession" /\ n.type = "clientsession" /\ m.id = n.id => m = n
        BY <1>4
      <3>2. \A m \in clients[d] : m.type = "clientsession" => ~Brings(half[d], "clientsession", m.id)
        BY <1>5
      <3> QED
        BY <1>6, <2>2, <3>1, <3>2, OnceWrite
    <2> QED
      BY <2>3, <2>4
  <1>9. SaysNew(last, new)
    BY <1>7, <1>8 DEF SaysNew
  <1> QED
    BY <1>1, <1>2, <1>3, <1>6, <1>9 DEF Announce

(* Sessions new are opened and announced.                                  *)
Widens(new) ==
    /\ new \in Sessions /\ DOMAIN new \cap UsedIds(rooms) = {}
    /\ DOMAIN rooms' = DOMAIN rooms
    /\ \E id \in DOMAIN rooms :
          /\ rooms'[id].sessions = Merge(rooms[id].sessions, new)
          /\ \A r \in DOMAIN rooms \ {id} : rooms'[r].sessions = rooms[r].sessions
    /\ SaysNew(outbox', new)

LEMMA OpenWidens ==
    ASSUME TypeOK, NEW id \in DOMAIN rooms, NEW rms, SessionsOfRooms(rms),
           NEW pairs \in SUBSET Session, NEW new \in FreshSessions(rms, pairs),
           rooms' = Open(rms, id, new), SaysNew(outbox', new)
    PROVE  Widens(new)
  <1>1. new \in Sessions /\ DOMAIN new \subseteq SessionIds \ UsedIds(rms)
    BY FreshType
  <1>2. /\ DOMAIN rms = DOMAIN rooms /\ \A r \in DOMAIN rooms : rms[r].sessions = rooms[r].sessions
        /\ rms[id] \in Room
    BY RoomMapType DEF SessionsOfRooms
  <1>3. UsedIds(rms) = UsedIds(rooms)
    BY <1>2 DEF UsedIds
  <1>4. Merge(rms[id].sessions, new) \in Sessions
    BY <1>1, <1>2, RoomType, SessionsMerge
  <1>5. PICK room \in Room : room = [rms[id] EXCEPT !.sessions = Merge(rms[id].sessions, new)]
    BY <1>2, <1>4, RoomType
  <1>6. room.sessions = Merge(rms[id].sessions, new)
    BY <1>2, <1>5 DEF Room
  <1>7. rooms' = [rms EXCEPT ![id] = room]
    BY <1>5 DEF Open
  <1>8. DOMAIN rooms' = DOMAIN rms /\ rooms'[id] = room /\ \A r \in DOMAIN rms \ {id} : rooms'[r] = rms[r]
    BY <1>2, <1>7
  <1> QED
    BY <1>1, <1>2, <1>3, <1>6, <1>8 DEF Widens

(* What taking message m of page c means for the sessions.                 *)
Born == UsedIds(rooms)' \ UsedIds(rooms)
FateOf(c, m, d, s) ==
    /\ Hosts(s, d)' => Hosts(s, d) \/ s \in Born
    /\ Watches(s, d)' => Watches(s, d) \/ s \in Born
    /\ Brings(outbox'[d], "hostsession", s) <=> s \in Born /\ Hosts(s, d)'
    /\ Brings(outbox'[d], "clientsession", s) <=> s \in Born /\ Watches(s, d)'
    /\ Brings(outbox'[d], "host", s) <=>
          m.type = "hostoffer" /\ m.id = s /\ Hosts(s, c) /\ Watches(s, d)
    /\ Brings(outbox'[d], "client", s) <=>
          m.type = "clientanswer" /\ m.id = s /\ Watches(s, c) /\ Hosts(s, d)
    /\ Brings(outbox'[d], "endshare", s) => s \notin UsedIds(rooms)'
FateSays(d) ==
    Once(outbox'[d], "hostsession") /\ Once(outbox'[d], "clientsession") /\ InTurn(outbox'[d])
Fate(c, m) == \A d \in Clients : FateSays(d) /\ \A s \in SessionIds : FateOf(c, m, d, s)

LEMMA UsedBy ==
    ASSUME NEW s
    PROVE  /\ \A d : Hosts(s, d) \/ Watches(s, d) => s \in UsedIds(rooms)
           /\ s \in UsedIds(rooms) => \E d, e : Hosts(s, d) /\ Watches(s, e)
  BY DEF Hosts, Watches, UsedIds

LEMMA PlainFate ==
    ASSUME NEW c, NEW m, Plainly, m.type = "hostoffer" => ~Hosts(m.id, c),
           m.type = "clientanswer" => ~Watches(m.id, c)
    PROVE  Fate(c, m)
  <1>1. PICK E : Tells(outbox', E) /\ E \cap UsedIds(rooms') = {}
    BY DEF Plainly
  <1>2. Fades(rooms', rooms)
    BY DEF Plainly
  <1>3. UsedIds(rooms)' \subseteq UsedIds(rooms)
    BY <1>2 DEF Fades, UsedIds
  <1>4. \A s, d : (Hosts(s, d)' => Hosts(s, d)) /\ (Watches(s, d)' => Watches(s, d))
    BY <1>2 DEF Fades, Hosts, Watches
  <1>5. ASSUME NEW d \in Clients, NEW t \in {"hostsession", "clientsession", "host", "client"}, NEW s
        PROVE  ~Brings(outbox'[d], t, s)
    BY <1>1 DEF Brings, Tells
  <1>6. ASSUME NEW d \in Clients, NEW s, Brings(outbox'[d], "endshare", s)
        PROVE  s \notin UsedIds(rooms)'
    <2>1. PICK i \in DOMAIN outbox'[d] : \E x \in outbox'[d][i] : x.type = "endshare" /\ x.id = s
      BY <1>6 DEF Brings
    <2>2. s \in E
      BY <1>1, <2>1 DEF Tells
    <2> QED
      BY <1>1, <2>2
  <1>7. ASSUME NEW d \in Clients PROVE FateSays(d)
    <2>1. \A s : ~Brings(outbox'[d], "hostsession", s) /\ ~Brings(outbox'[d], "clientsession", s)
      BY <1>5
    <2>2. Once(outbox'[d], "hostsession") /\ Once(outbox'[d], "clientsession")
      BY <2>1 DEF Once, Brings
    <2> QED
      BY <2>1, <2>2, InTurnIf DEF FateSays
  <1>8. ASSUME NEW d \in Clients, NEW s \in SessionIds PROVE FateOf(c, m, d, s)
    BY <1>3, <1>4, <1>5, <1>6 DEF FateOf, Born
  <1> QED
    BY <1>7, <1>8 DEF Fate

LEMMA WidenFate ==
    ASSUME TypeOK, NEW new, Widens(new), NEW c, NEW m, m.type \notin {"hostoffer", "clientanswer"}
    PROVE  Fate(c, m)
  <1>1. PICK id \in DOMAIN rooms :
           /\ rooms'[id].sessions = Merge(rooms[id].sessions, new)
           /\ \A r \in DOMAIN rooms \ {id} : rooms'[r].sessions = rooms[r].sessions
    BY DEF Widens
  <1>2. /\ DOMAIN rooms' = DOMAIN rooms /\ DOMAIN new \cap UsedIds(rooms) = {}
        /\ SaysNew(outbox', new)
    BY DEF Widens
  <1>3. PICK old : old = rooms[id].sessions
    OBVIOUS
  <1>4. /\ DOMAIN rooms'[id].sessions = DOMAIN old \cup DOMAIN new
        /\ \A s \in DOMAIN new : rooms'[id].sessions[s] = new[s]
        /\ \A s \in DOMAIN old \ DOMAIN new : rooms'[id].sessions[s] = old[s]
        /\ DOMAIN old \cap DOMAIN new = {}
    BY <1>1, <1>2, <1>3 DEF Merge, UsedIds
  <1>5. UsedIds(rooms') = UsedIds(rooms) \cup DOMAIN new
    <2>1. ASSUME NEW s, s \in UsedIds(rooms') PROVE s \in UsedIds(rooms) \cup DOMAIN new
      <3>1. PICK r \in DOMAIN rooms' : s \in DOMAIN rooms'[r].sessions
        BY <2>1 DEF UsedIds
      <3> QED
        BY <1>1, <1>2, <1>3, <1>4, <3>1 DEF UsedIds
    <2>2. ASSUME NEW s, s \in UsedIds(rooms) \cup DOMAIN new PROVE s \in UsedIds(rooms')
      BY <1>1, <1>2, <1>3, <1>4, <2>2 DEF UsedIds
    <2> QED
      BY <2>1, <2>2
  <1>6. Born = DOMAIN new
    BY <1>2, <1>5 DEF Born
  <1>7. \A s, d : Hosts(s, d)' <=> Hosts(s, d) \/ (s \in DOMAIN new /\ new[s].host = d)
    BY <1>1, <1>2, <1>3, <1>4 DEF Hosts
  <1>8. \A s, d : Watches(s, d)' <=> Watches(s, d) \/ (s \in DOMAIN new /\ new[s].client = d)
    BY <1>1, <1>2, <1>3, <1>4 DEF Watches
  <1>9. \A s \in DOMAIN new : \A d : ~Hosts(s, d) /\ ~Watches(s, d)
    BY <1>2, UsedBy
  <1>10. ASSUME NEW d \in Clients, NEW s
         PROVE  /\ Brings(outbox'[d], "hostsession", s) <=> s \in DOMAIN new /\ new[s].host = d
                /\ Brings(outbox'[d], "clientsession", s) <=> s \in DOMAIN new /\ new[s].client = d
                /\ \A t \in {"host", "client", "endshare"} : ~Brings(outbox'[d], t, s)
    BY <1>2 DEF SaysNew
  <1>11. ASSUME NEW d \in Clients PROVE FateSays(d)
    BY <1>2, <1>10, InTurnIf DEF FateSays, SaysNew
  <1>12. ASSUME NEW d \in Clients, NEW s \in SessionIds PROVE FateOf(c, m, d, s)
    <2>1. s \in Born /\ Hosts(s, d)' <=> s \in DOMAIN new /\ new[s].host = d
      BY <1>6, <1>7, <1>9
    <2>2. s \in Born /\ Watches(s, d)' <=> s \in DOMAIN new /\ new[s].client = d
      BY <1>6, <1>8, <1>9
    <2>3. (Hosts(s, d)' => Hosts(s, d) \/ s \in Born) /\ (Watches(s, d)' => Watches(s, d) \/ s \in Born)
      BY <1>6, <1>7, <1>8
    <2> QED
      BY <1>10, <2>1, <2>2, <2>3 DEF FateOf
  <1> QED
    BY <1>11, <1>12 DEF Fate

(* The ends of a session are two members of its room.                      *)
LEMMA EndsAre ==
    ASSUME RoomIdsAreNames, TypeOK, Safe, NEW s, NEW c, Hosts(s, c) \/ Watches(s, c)
    PROVE  /\ c \in DOMAIN connected /\ c \in Clients /\ HasRoom(c) /\ s \in SessionIds
           /\ s \in DOMAIN CurrentRoom(c).sessions
           /\ \A d : Hosts(s, d) <=> CurrentRoom(c).sessions[s].host = d
           /\ \A d : Watches(s, d) <=> CurrentRoom(c).sessions[s].client = d
           /\ Hosts(s, c) => Performs(c) /\ ~Watches(s, c)
  <1>1. PICK r \in DOMAIN rooms : /\ s \in DOMAIN rooms[r].sessions
                                  /\ c \in {rooms[r].sessions[s].host, rooms[r].sessions[s].client}
    BY DEF Hosts, Watches
  <1>2. /\ DOMAIN rooms[r].users \subseteq DOMAIN connected
        /\ \A d \in DOMAIN rooms[r].users : connected[d] = r
        /\ r \in RoomIds /\ rooms[r] \in Room
    BY UsersConnected
  <1>3. rooms[r].sessions[s] \in Views(rooms[r].users)
    BY <1>1 DEF Safe, SafeMaps, Range
  <1>4. /\ rooms[r].sessions[s].host \in Presenters(rooms[r].users)
        /\ rooms[r].sessions[s].client \in DOMAIN rooms[r].users
        /\ rooms[r].sessions[s].host # rooms[r].sessions[s].client
    BY <1>3 DEF Views
  <1>5. c \in DOMAIN connected /\ connected[c] = r
    BY <1>1, <1>2, <1>4 DEF Presenters
  <1>6. /\ CurrentRoom(c) = rooms[r] /\ HasRoom(c) /\ c \in Clients /\ s \in SessionIds
    BY <1>1, <1>2, <1>5, ConnectedClient, RoomType DEF CurrentRoom, HasRoom, RoomIdsAreNames
  <1>7. \A q \in DOMAIN rooms : s \in DOMAIN rooms[q].sessions => q = r
    BY <1>1 DEF Safe, SafeMaps, IdsDisjoint
  <1>8. /\ \A d : Hosts(s, d) <=> CurrentRoom(c).sessions[s].host = d
        /\ \A d : Watches(s, d) <=> CurrentRoom(c).sessions[s].client = d
    BY <1>1, <1>6, <1>7 DEF Hosts, Watches
  <1>9. Hosts(s, c) => Performs(c) /\ ~Watches(s, c)
    BY <1>4, <1>6, <1>8 DEF Performs
  <1> QED
    BY <1>1, <1>5, <1>6, <1>8, <1>9

(* What join and share do to the sessions: they open some, or fail and end *)
(* those of the client.                                                    *)
LEMMA JoinWidens ==
    ASSUME RoomIdsAreNames, TypeOK, Safe, NEW c \in DOMAIN connected, c \in Clients,
           NEW id \in RoomIds, Join(c, id)
    PROVE  Plainly \/ \E new : Widens(new)
  <1>1. CASE Refuse(c)
    BY <1>1, RefusePlain
  <1>2. CASE JoinRoom(c, id)
    <2>1. /\ id \in DOMAIN rooms /\ id # NoRoom /\ connected[c] = NoRoom
      BY <1>2 DEF JoinRoom, JoinRefused, RoomIdsAreNames
    <2>2. rooms[id].users \in Users /\ c \notin DOMAIN rooms[id].users
      BY <2>1, UsersConnected, HomelessNearby
    <2>3. PICK users : users = Assign(rooms[id].users, c, NewUser(FALSE))
      OBVIOUS
    <2>4. PICK conn : conn = [connected EXCEPT ![c] = id]
      OBVIOUS
    <2>5. PICK rms : rms = [rooms EXCEPT ![id].users = users]
      OBVIOUS
    <2>6. PICK pairs : pairs = {[host |-> p, client |-> c] : p \in Presenters(users) \ {c}}
      OBVIOUS
    <2>7. PICK out : out = Write(Quiet, notifyInfoChanged(users))
      OBVIOUS
    <2>8. users \in Users /\ pairs \in SUBSET Session
      <3>1. HasOneOwner(rooms[id].users) /\ AtMostOnePresenter(rooms[id].users)
        BY <2>1 DEF Safe, SafeMaps
      <3>2. Enters(c, rooms[id].users, users, pairs)
        BY <2>2, <2>3, <2>6, <3>1 DEF Enters
      <3>3. SafeEntry(c, rooms[id].users, users, pairs)
        BY <3>2, <2>1, <2>2, EntrySafe
      <3> QED
        BY <3>3 DEF SafeEntry
    <2>9. SessionsOfRooms(rms)
      <3>1. Replaced(rms, id, users)
        BY <2>5 DEF Replaced
      <3>2. /\ IsRoomMap(rms) /\ DOMAIN rms = DOMAIN rooms /\ rms[id].sessions = rooms[id].sessions
            /\ \A r \in DOMAIN rooms \ {id} : rms[r] = rooms[r]
        BY <2>1, <2>8, <3>1, UsersReplaced
      <3> QED
        BY <3>2 DEF SessionsOfRooms
    <2>10. out \in Outbox /\ Tells(out, {}) /\ SaysNone(out)
      <3>1. notifyInfoChanged(users) \in Batch
        BY <2>8, BatchType
      <3>2. Tells(Quiet, {}) /\ TellsBatch(notifyInfoChanged(users), {}) /\ Quiet \in Outbox
        BY TellsSome, QuietType
      <3>3. out \in Outbox /\ Tells(out, {})
        BY <2>7, <3>1, <3>2, WriteType, WriteTells
      <3> QED
        BY <2>7, <2>8, <3>2, <3>3, SaysNoneSome
    <2>11. CASE executeNoError(c, "error", conn, rms, lookup, out, Count(gauge, 0, 1, 0))
      <3>1. PICK g, reason : g = Count(gauge, 0, 1, 0) /\ reason = "error"
        OBVIOUS
      <3>2. executeNoError(c, reason, conn, rms, lookup, out, g) /\ reason \in Reasons
        BY <2>11, <3>1 DEF Reasons
      <3> QED
        BY <2>9, <2>10, <3>2, NoErrorPlain
    <2>12. ASSUME NEW new \in FreshSessions(rms, pairs),
                  rooms' = Open(rms, id, new), outbox' = Announce(out, new)
           PROVE  Widens(new)
      <3>1. new \in Sessions
        BY <2>8, FreshType
      <3>2. SaysNew(outbox', new)
        BY <2>10, <2>12, <3>1, AnnounceSays
      <3> QED
        BY <2>1, <2>8, <2>9, <2>12, <3>2, OpenWidens
    <2> QED
      BY <1>2, <2>3, <2>4, <2>5, <2>6, <2>7, <2>11, <2>12 DEF JoinRoom
  <1> QED
    BY <1>1, <1>2 DEF Join

LEMMA CreateWidens ==
    ASSUME RoomIdsAreNames, TypeOK, Safe, NEW c \in DOMAIN connected, c \in Clients,
           NEW id \in RoomIds, NEW mode, NEW leave, NEW join, Create(c, id, mode, leave, join)
    PROVE  Plainly \/ \E new : Widens(new)
  <1>1. CASE Refuse(c)
    BY <1>1, RefusePlain
  <1>2. CASE Join(c, id)
    BY <1>2, JoinWidens
  <1>3. CASE id \notin DOMAIN rooms /\ OpenRoom(c, id, mode, leave)
    BY <1>3, OpenRoomPlain
  <1> QED
    BY <1>1, <1>2, <1>3 DEF Create

LEMMA ShareWidens ==
    ASSUME TypeOK, Safe, NEW c \in DOMAIN connected, c \in Clients, StartShare(c)
    PROVE  Plainly \/ \E new : Widens(new)
  <1>1. CASE Refuse(c)
    BY <1>1, RefusePlain
  <1>2. CASE HasRoom(c) /\ ~ShareDenied(c, CurrentRoom(c).users) /\ Share(c, connected[c])
    <2>1. PICK id : id = connected[c]
      OBVIOUS
    <2>2. /\ id \in DOMAIN rooms /\ c \in DOMAIN rooms[id].users
          /\ rooms[id].users \in Users /\ HasOneOwner(rooms[id].users) /\ CurrentRoom(c) = rooms[id]
      <3>1. /\ id \in DOMAIN rooms /\ c \in DOMAIN rooms[id].users
            /\ HasOneOwner(rooms[id].users) /\ CurrentRoom(c) = rooms[id]
        BY <1>2, <2>1, InCurrentRoom
      <3> QED
        BY <3>1, UsersConnected
    <2>3. rooms[id].users[c].CanShare /\ Presenters(rooms[id].users) \ {c} = {}
      BY <1>2, <2>2 DEF ShareDenied
    <2>4. PICK users : users = [rooms[id].users EXCEPT ![c].Streaming = TRUE]
      OBVIOUS
    <2>5. PICK rms : rms = [rooms EXCEPT ![id].users = users]
      OBVIOUS
    <2>6. PICK pairs : pairs = {[host |-> c, client |-> p] : p \in DOMAIN users \ {c}}
      OBVIOUS
    <2>7. users \in Users /\ pairs \in SUBSET Session
      <3>1. Presents(c, rooms[id].users, users, pairs)
        BY <2>2, <2>3, <2>4, <2>6 DEF Presents
      <3>2. SafeStart(c, rooms[id].users, users, pairs)
        BY <3>1, <2>2, StartSafe
      <3> QED
        BY <3>2 DEF SafeStart
    <2>8. SessionsOfRooms(rms)
      <3>1. Replaced(rms, id, users)
        BY <2>5 DEF Replaced
      <3>2. /\ IsRoomMap(rms) /\ DOMAIN rms = DOMAIN rooms /\ rms[id].sessions = rooms[id].sessions
            /\ \A r \in DOMAIN rooms \ {id} : rms[r] = rooms[r]
        BY <2>2, <2>7, <3>1, UsersReplaced
      <3> QED
        BY <3>2 DEF SessionsOfRooms
    <2>9. Quiet \in Outbox /\ Tells(Quiet, {}) /\ SaysNone(Quiet)
      BY QuietType, TellsSome, SaysNoneSome
    <2>10. CASE executeNoError(c, "error", connected, rms, lookup, Quiet, gauge)
      <3>1. PICK out, reason : out = Quiet /\ reason = "error"
        OBVIOUS
      <3>2. executeNoError(c, reason, connected, rms, lookup, out, gauge) /\ reason \in Reasons
        BY <2>10, <3>1 DEF Reasons
      <3> QED
        BY <2>8, <2>9, <3>1, <3>2, NoErrorPlain
    <2>11. ASSUME NEW new \in FreshSessions(rms, pairs), rooms' = Open(rms, id, new),
                  outbox' = Write(Announce(Quiet, new), notifyInfoChanged(users))
           PROVE  Widens(new)
      <3>1. new \in Sessions
        BY <2>7, FreshType
      <3>2. PICK out : out = Announce(Quiet, new)
        OBVIOUS
      <3>3. SaysNew(out, new) /\ out \in Outbox
        BY <2>9, <3>1, <3>2, AnnounceSays, SessionMessagesType, WriteType DEF Announce
      <3>4. SaysNew(outbox', new)
        BY <2>7, <2>11, <3>2, <3>3, SaysNewMore
      <3> QED
        BY <2>2, <2>7, <2>8, <2>11, <3>4, OpenWidens
    <2> QED
      BY <1>2, <2>1, <2>4, <2>5, <2>6, <2>10, <2>11 DEF Share
  <1> QED
    BY <1>1, <1>2 DEF StartShare

LEMMA HandleWidens ==
    ASSUME RoomIdsAreNames, TypeOK, Safe, NEW c \in DOMAIN connected, c \in Clients,
           NEW m \in Up, Handle(c, m), m.type \notin {"hostoffer", "clientanswer"}
    PROVE  Plainly \/ \E new : Widens(new)
  <1>1. ASSUME NEW id \in RoomIds, NEW leave, Create(c, id, authModeToRoomMode(c), leave, TRUE)
        PROVE  Plainly \/ \E new : Widens(new)
    <2>1. PICK mode, join : Create(c, id, mode, leave, join)
      BY <1>1
    <2> QED
      BY <2>1, CreateWidens
  <1>2. ASSUME NEW id \in RoomIds, Join(c, id)
        PROVE  Plainly \/ \E new : Widens(new)
    BY <1>2, JoinWidens
  <1>3. StartShare(c) => Plainly \/ \E new : Widens(new)
    BY ShareWidens
  <1>4. Name(c) \/ StopShare(c) => Plainly
    BY NamePlain, StopSharePlain
  <1>5. EnableAll(c) \/ DisableAll(c) \/ ToggleSharePermission(c, m.target) => Plainly
    BY EnableAllQuiets, DisableAllQuiets, ToggleQuiets, QuietsPlain
  <1>6. OwnerStopShare(c, m.target) \/ Kick(c, m.target) \/ Ban(c, m.target) \/ Dissolve(c) => Plainly
    BY OwnerStopSharePlain, KickPlain, DissolvePlain
  <1>7. ASSUME Disconnected(c) PROVE Plainly
    <2>1. PICK reason \in Reasons : Leave(c, reason)
      BY <1>7 DEF Disconnected, Reasons
    <2> QED
      BY <2>1, LeavePlain
  <1> QED
    BY <1>1, <1>2, <1>3, <1>4, <1>5, <1>6, <1>7 DEF Handle

(* A relayed message reaches the other end of its session, nothing else    *)
(* happens to the sessions.                                                *)
LEMMA RelayFate ==
    ASSUME RoomIdsAreNames, TypeOK, Safe, NEW c \in DOMAIN connected, c \in Clients,
           NEW m, m.id \in SessionIds,
           \/ m.type = "hostoffer" /\ HostRelay(c, m.id)
           \/ m.type = "clientanswer" /\ ClientRelay(c, m.id)
    PROVE  Fate(c, m)
  <1> DEFINE sessions == CurrentRoom(c).sessions
  <1>1. PICK s, from, to, msg :
           /\ s = m.id /\ Relay(c, s, from, to, msg)
           /\ \/ /\ m.type = "hostoffer" /\ from = "host" /\ to = "client" /\ msg = HostMsg(s)
              \/ /\ m.type = "clientanswer" /\ from = "client" /\ to = "host" /\ msg = ClientMsg(s)
    BY DEF HostRelay, ClientRelay
  <1>2. /\ m.type = "hostoffer" => \A d : sessions[s][from] = d <=> sessions[s].host = d
        /\ m.type = "clientanswer" => \A d : sessions[s][from] = d <=> sessions[s].client = d
    BY <1>1
  <1>3. CASE (HasRoom(c) => s \in DOMAIN sessions /\ sessions[s][from] # c) /\ Refuse(c)
    <2>1. Plainly
      BY <1>3, RefusePlain
    <2>2. m.type = "hostoffer" => ~Hosts(m.id, c)
      BY <1>1, <1>2, <1>3, EndsAre
    <2>3. m.type = "clientanswer" => ~Watches(m.id, c)
      BY <1>1, <1>2, <1>3, EndsAre
    <2> QED
      BY <2>1, <2>2, <2>3, PlainFate
  <1>4. CASE s \notin DOMAIN sessions /\ outbox' = Quiet /\ rooms' = rooms
    <2>1. Plainly
      BY <1>4, QuietPlain
    <2>2. ~Hosts(m.id, c) /\ ~Watches(m.id, c)
      BY <1>1, <1>4, EndsAre
    <2> QED
      BY <2>1, <2>2, PlainFate
  <1>5. CASE /\ HasRoom(c) /\ s \in DOMAIN sessions /\ sessions[s][from] = c
             /\ outbox' = Write(Quiet, To(sessions[s][to], msg)) /\ rooms' = rooms
    <2>1. PICK p : p = sessions[s][to]
      OBVIOUS
    <2>2. /\ connected[c] \in DOMAIN rooms /\ CurrentRoom(c) = rooms[connected[c]]
      BY <1>5, InCurrentRoom
    <2>3. IF m.type = "hostoffer" THEN Hosts(s, c) ELSE Watches(s, c)
      <3>1. CASE m.type = "hostoffer"
        BY <1>1, <1>2, <1>5, <2>2, <3>1 DEF Hosts
      <3>2. CASE m.type # "hostoffer"
        BY <1>1, <1>2, <1>5, <2>2, <3>2 DEF Watches
      <3> QED
        BY <3>1, <3>2
    <2>4. /\ m.type = "hostoffer" => \A d : Watches(s, d) <=> d = p
          /\ m.type = "clientanswer" => \A d : Hosts(s, d) <=> d = p
      <3>1. /\ m.type = "hostoffer" => p = sessions[s].client
            /\ m.type = "clientanswer" => p = sessions[s].host
        BY <1>1, <2>1
      <3>2. \A d : (Hosts(s, d) <=> sessions[s].host = d) /\ (Watches(s, d) <=> sessions[s].client = d)
        BY <2>3, EndsAre
      <3> QED
        BY <3>1, <3>2
    <2>5. p \in Clients
      <3>1. Watches(s, p) \/ Hosts(s, p)
        BY <1>1, <2>4
      <3> QED
        BY <3>1, EndsAre
    <2>6. PICK msgs \in Batch : msgs = To(p, msg)
      <3>1. msg \in Message
        BY <1>1, MessageType
      <3> QED
        BY <2>5, <3>1, BatchType
    <2>7. PICK out \in Outbox : out = Quiet
      BY QuietType
    <2>8. outbox' = Write(out, msgs)
      BY <1>5, <2>1, <2>6, <2>7
    <2>9. /\ \A d \in Clients : \A x \in msgs[d] : x = msg /\ d = p
          /\ msg \in msgs[p] /\ msg.id = s
          /\ m.type = "hostoffer" => msg.type = "host"
          /\ m.type = "clientanswer" => msg.type = "client"
          /\ m.type \in {"hostoffer", "clientanswer"}
      BY <1>1, <2>5, <2>6 DEF To, HostMsg, ClientMsg
    <2>10. /\ \A d \in Clients : \A t, x : ~Brings(out[d], t, x)
           /\ \A d \in Clients : \A t : Once(out[d], t)
      BY <2>7 DEF Quiet, Brings, Once
    <2>11. ASSUME NEW d \in Clients, NEW t, NEW x
           PROVE  Brings(outbox'[d], t, x) <=> d = p /\ t = msg.type /\ x = s
      <3>1. Brings(Write(out, msgs)[d], t, x) <=> \E y \in msgs[d] : y.type = t /\ y.id = x
        BY <2>10, BringsWrite
      <3>2. (\E y \in msgs[d] : y.type = t /\ y.id = x) <=> d = p /\ t = msg.type /\ x = s
        BY <2>9
      <3> QED
        BY <2>8, <3>1, <3>2
    <2>17. /\ \A t \in {"hostsession", "clientsession", "endshare"} : msg.type # t
           /\ msg.type = "host" <=> m.type = "hostoffer"
           /\ msg.type = "client" <=> m.type = "clientanswer"
      BY <2>9
    <2>12. ASSUME NEW d \in Clients, NEW t PROVE Once(outbox'[d], t)
      BY <2>8, <2>9, <2>10, OnceWrite
    <2>13. ASSUME NEW d \in Clients PROVE FateSays(d)
      <3>1. \A x : ~Brings(outbox'[d], "clientsession", x)
        BY <2>11, <2>17
      <3> QED
        BY <2>12, <3>1, InTurnIf DEF FateSays
    <2>14. Born = {} /\ UsedIds(rooms)' = UsedIds(rooms)
      BY <1>5 DEF Born, UsedIds
    <2>15. \A x, d : (Hosts(x, d)' <=> Hosts(x, d)) /\ (Watches(x, d)' <=> Watches(x, d))
      BY <1>5 DEF Hosts, Watches
    <2>16. ASSUME NEW d \in Clients, NEW x \in SessionIds PROVE FateOf(c, m, d, x)
      <3>1. ~Brings(outbox'[d], "hostsession", x) /\ ~Brings(outbox'[d], "clientsession", x)
             /\ ~Brings(outbox'[d], "endshare", x)
        BY <2>11, <2>17
      <3>2. Brings(outbox'[d], "host", x) <=> d = p /\ m.type = "hostoffer" /\ x = s
        BY <2>11, <2>17
      <3>3. Brings(outbox'[d], "client", x) <=> d = p /\ m.type = "clientanswer" /\ x = s
        BY <2>11, <2>17
      <3>4. d = p /\ m.type = "hostoffer" /\ x = s <=>
               m.type = "hostoffer" /\ m.id = x /\ Hosts(x, c) /\ Watches(x, d)
        BY <1>1, <2>3, <2>4
      <3>5. d = p /\ m.type = "clientanswer" /\ x = s <=>
               m.type = "clientanswer" /\ m.id = x /\ Watches(x, c) /\ Hosts(x, d)
        BY <1>1, <2>3, <2>4
      <3> QED
        BY <2>14, <2>15, <3>1, <3>2, <3>3, <3>4, <3>5 DEF FateOf
    <2> QED
      BY <2>13, <2>16 DEF Fate
  <1> QED
    BY <1>1, <1>3, <1>4, <1>5 DEF Relay

(* Whatever the loop takes, only what it does with an offer, an answer, a  *)
(* join or a share matters to the sessions that go on.                     *)
LEMMA ServeFate ==
    ASSUME RoomIdsAreNames, TypeOK, Safe, NEW c \in Clients, Serve(c),
           NEW m \in Up, m = Head(uplink[c])
    PROVE  Fate(c, m)
  <1>1. CASE m.type = "connected" /\ Connected(c)
    <2>1. outbox' = Quiet /\ rooms' = rooms
      BY <1>1 DEF Connected
    <2>2. Plainly
      BY <2>1, QuietPlain
    <2> QED
      BY <1>1, <2>2, PlainFate
  <1>2. CASE c \notin DOMAIN connected /\ Ignore
    <2>1. outbox' = Quiet /\ rooms' = rooms
      BY <1>2 DEF Ignore
    <2>2. Plainly
      BY <2>1, QuietPlain
    <2>3. ~Hosts(m.id, c) /\ ~Watches(m.id, c)
      BY <1>2, EndsAre
    <2> QED
      BY <2>2, <2>3, PlainFate
  <1>3. CASE c \in DOMAIN connected /\ Handle(c, m)
    <2>1. CASE m.type \in {"hostoffer", "clientanswer"}
      <3>1. m.id \in SessionIds
        BY <2>1, UpIs
      <3>2. /\ m.type = "hostoffer" => HostRelay(c, m.id)
            /\ m.type = "clientanswer" => ClientRelay(c, m.id)
        BY <1>3, HandleIs
      <3> QED
        BY <1>3, <2>1, <3>1, <3>2, RelayFate
    <2>2. CASE m.type \notin {"hostoffer", "clientanswer"}
      <3>1. Plainly \/ \E new : Widens(new)
        BY <1>3, <2>2, HandleWidens
      <3>2. CASE Plainly
        BY <2>2, <3>2, PlainFate
      <3>3. ASSUME NEW new, Widens(new) PROVE Fate(c, m)
        BY <2>2, <3>3, WidenFate
      <3> QED
        BY <3>1, <3>2, <3>3
    <2> QED
      BY <2>1, <2>2
  <1> QED
    BY <1>1, <1>2, <1>3 DEF Serve
-----------------------------------------------------------------------------
(* What the loop does keeps what is said of the sessions *)

(* A session has two ends, members of a room, one of whom presents.        *)
EndsHold ==
    \A s, c : Hosts(s, c) \/ Watches(s, c) =>
        /\ c \in DOMAIN connected /\ c \in Clients /\ s \in SessionIds
        /\ \A d : Hosts(s, c) /\ Hosts(s, d) => d = c
        /\ \A d : Watches(s, c) /\ Watches(s, d) => d = c
        /\ Hosts(s, c) => Performs(c) /\ ~Watches(s, c)

LEMMA EndsNow == RoomIdsAreNames => (PagesInv => EndsHold)
  <1> SUFFICES ASSUME RoomIdsAreNames, TypeOK, Safe, NEW s, NEW c, Hosts(s, c) \/ Watches(s, c)
               PROVE  /\ c \in DOMAIN connected /\ c \in Clients /\ s \in SessionIds
                      /\ \A d : Hosts(s, c) /\ Hosts(s, d) => d = c
                      /\ \A d : Watches(s, c) /\ Watches(s, d) => d = c
                      /\ Hosts(s, c) => Performs(c) /\ ~Watches(s, c)
    BY DEF EndsHold, PagesInv, PagesTypeOK
  <1> QED
    BY EndsAre

LEMMA EndsThen ==
    ASSUME RoomIdsAreNames, PagesInv'
    PROVE  EndsHold'
  BY EndsNow, PTL

LEMMA BringsIds ==
    ASSUME NEW w \in Seq(SUBSET Message), NEW t \in OfSessions, NEW s, Brings(w, t, s)
    PROVE  s \in SessionIds /\ \E i \in DOMAIN w : \E m \in w[i] : m.id = s /\ "id" \in DOMAIN m
  <1>1. PICK i \in DOMAIN w : \E m \in w[i] : m.type = t /\ m.id = s
    BY DEF Brings
  <1>2. PICK m \in w[i] : m.type = t /\ m.id = s
    BY <1>1
  <1>3. m \in Message
    BY <1>2
  <1>4. m.id \in SessionIds
    BY <1>2, <1>3, MessageIs DEF OfSessions
  <1>5. "id" \in DOMAIN m
    <2>1. CASE m \in {HostSession(x, p) : x \in SessionIds, p \in Clients}
                   \cup {ClientSession(x, p) : x \in SessionIds, p \in Clients}
      BY <2>1 DEF HostSession, ClientSession
    <2>2. CASE m \in {EndShare(x) : x \in SessionIds} \cup {HostMsg(x) : x \in SessionIds}
                    \cup {ClientMsg(x) : x \in SessionIds}
      BY <2>2 DEF EndShare, HostMsg, ClientMsg
    <2>3. CASE m \in {RoomMsg(users) : users \in Users} \cup {CloseWriter(reason) : reason \in Reasons}
      BY <1>2, <2>3 DEF RoomMsg, CloseWriter, OfSessions
    <2> QED
      BY <1>3, <2>1, <2>2, <2>3 DEF Message, Users
  <1> QED
    BY <1>2, <1>4, <1>5

LEMMA BegsIds ==
    ASSUME NEW q \in Seq(Up), NEW t \in {"hostoffer", "clientanswer"}, NEW s, Begs(q, t, s) # {}
    PROVE  s \in SessionIds /\ \E i \in DOMAIN q : q[i].id = s /\ "id" \in DOMAIN q[i]
  <1>1. PICK i \in DOMAIN q : q[i].type = t /\ q[i].id = s
    BY DEF Begs
  <1>2. q[i] \in Up
    OBVIOUS
  <1>3. q[i].id \in SessionIds
    BY <1>1, <1>2, UpIs
  <1>4. "id" \in DOMAIN q[i]
    BY <1>1, <1>2, PagesAssumption DEF Up, Msg, SessionMsg, TargetMsg
  <1> QED
    BY <1>1, <1>3, <1>4

(* The ids of new sessions are found nowhere.                              *)
Unheardof(s, d) ==
    /\ \A t \in OfSessions : ~Brings(downlink[d], t, s)
    /\ \A t \in {"hostoffer", "clientanswer"} : Begs(uplink[d], t, s) = {}
    /\ s \notin DOMAIN page[d].host \cup DOMAIN page[d].client
    /\ s \notin page[d].offering \cup page[d].answering \cup page[d].shows

LEMMA NewIsUnheardof ==
    ASSUME PagesTypeOK, NEW c \in Clients, Serves(c), NEW s \in Born, NEW d \in Clients
    PROVE  Unheardof(s, d)
  <1> DEFINE on(msgs) == {m.id : m \in {n \in msgs : "id" \in DOMAIN n}}
             of(p)    == DOMAIN p.host \cup DOMAIN p.client \cup p.offering \cup p.answering \cup p.shows
  <1>1. s \notin Mentioned
    BY DEF Serves, Born
  <1>2. /\ s \notin on(Range(uplink[d])) /\ s \notin on(UNION Range(downlink[d]))
        /\ s \notin of(page[d])
    BY <1>1 DEF Mentioned
  <1>3. PICK q \in Seq(Up), w \in Seq(SUBSET Message) : q = uplink[d] /\ w = downlink[d]
    BY Typed
  <1>4. \A i \in DOMAIN q : ~(q[i].id = s /\ "id" \in DOMAIN q[i])
    BY <1>2, <1>3 DEF Range
  <1>5. \A i \in DOMAIN w : \A m \in w[i] : ~(m.id = s /\ "id" \in DOMAIN m)
    BY <1>2, <1>3 DEF Range
  <1>6. \A t \in OfSessions : ~Brings(w, t, s)
    BY <1>5, BringsIds
  <1>7. \A t \in {"hostoffer", "clientanswer"} : Begs(q, t, s) = {}
    BY <1>4, BegsIds
  <1> QED
    BY <1>2, <1>3, <1>6, <1>7 DEF Unheardof

(* The loop takes message m of page c while all that is said here holds.   *)
Turn(c, m) ==
    /\ RoomIdsAreNames /\ c \in Clients /\ m \in Up /\ m = Head(uplink[c])
    /\ PagesInv /\ PagesInv' /\ SessionsInv
    /\ Serves(c) /\ Served(c, m) /\ Fate(c, m)

LEMMA TurnIs ==
    ASSUME NEW c, NEW m, Turn(c, m)
    PROVE  /\ c \in Clients /\ PagesTypeOK /\ TypeOK' /\ EndsHold /\ EndsHold' /\ Serves(c)
           /\ m \in Up /\ m = Head(uplink[c]) /\ RoomIdsAreNames
           /\ \A d \in Clients : FateSays(d) /\ \A s \in SessionIds : FateOf(c, m, d, s)
           /\ m.type = "stopshare" => ~Performs(c)'
           /\ m.type = "gone" => c \notin DOMAIN connected'
           /\ \A d \in Clients : /\ Tidy(page[d], uplink[d], downlink[d])
                                 /\ Shared(d) /\ Stopped(d) /\ Link(d)'
                                 /\ \A e \in Clients : Apart(d, e)
  <1>1. EndsHold /\ EndsHold'
    BY EndsNow, EndsThen DEF Turn
  <1>2. PagesTypeOK /\ TypeOK' /\ \A d \in Clients : Link(d)'
    BY DEF Turn, PagesInv, PagesTypeOK
  <1> QED
    BY <1>1, <1>2 DEF Turn, Served, Fate, SessionsInv

LEMMA TurnQueues ==
    ASSUME NEW c, NEW m, Turn(c, m), NEW d \in Clients
    PROVE  /\ page'[d] = page[d]
           /\ \A t, s : Brings(downlink'[d], t, s) => Brings(downlink[d], t, s) \/ Brings(outbox'[d], t, s)
           /\ page[d].ws # "closed" =>
                 \A t, s : Brings(downlink[d], t, s) \/ Brings(outbox'[d], t, s) => Brings(downlink'[d], t, s)
  <1>1. PagesTypeOK /\ TypeOK' /\ Serves(c)
    BY TurnIs
  <1>2. PICK q \in Seq(SUBSET Message), o \in Seq(SUBSET Message) : q = downlink[d] /\ o = outbox'[d]
    BY <1>1, Typed DEF TypeOK, Outbox
  <1>3. page'[d] = page[d]
    BY <1>1 DEF Serves
  <1>4. /\ page[d].ws = "closed" => downlink'[d] = << >>
        /\ page[d].ws # "closed" => downlink'[d] = q \o o
    BY <1>1, <1>2 DEF Serves
  <1>5. \A t, s : Brings(q \o o, t, s) <=> Brings(q, t, s) \/ Brings(o, t, s)
    BY BringsMore
  <1>6. \A t, s : ~Brings(<< >>, t, s)
    BY BringsNothing
  <1> QED
    BY <1>2, <1>3, <1>4, <1>5, <1>6

(* What the loop leaves of the queue of a page.                            *)
LEMMA TurnFewer ==
    ASSUME NEW c, NEW m, Turn(c, m), NEW d \in Clients, NEW t
    PROVE  \A s : Begs(uplink'[d], t, s) # {} => Begs(uplink[d], t, s) # {}
  <1>1. PagesTypeOK /\ Serves(c) /\ m = Head(uplink[c]) /\ c \in Clients
    BY TurnIs
  <1>2. CASE d # c
    <2>1. uplink'[d] = uplink[d]
      BY <1>1, <1>2 DEF Serves
    <2> QED
      BY <2>1
  <1>3. CASE d = c
    <2>1. PICK b \in Seq(Up) : b = uplink[d]
      BY <1>1, Typed
    <2>2. b # << >> /\ uplink'[d] = Tail(b) /\ m = Head(b)
      BY <1>1, <1>3, <2>1 DEF Serves
    <2>3. \A s : \A i \in Begs(Tail(b), t, s) : i + 1 \in Begs(b, t, s)
      BY <2>2, BegsTail
    <2> QED
      BY <1>3, <2>1, <2>2, <2>3
  <1> QED
    BY <1>2, <1>3

LEMMA TurnBegs ==
    ASSUME NEW c, NEW m, Turn(c, m), NEW d \in Clients, NEW t
    PROVE  \A s : Begs(uplink[d], t, s) # {} =>
              Begs(uplink'[d], t, s) # {} \/ (d = c /\ m.type = t /\ m.id = s)
  <1>1. PagesTypeOK /\ Serves(c) /\ m = Head(uplink[c]) /\ c \in Clients
    BY TurnIs
  <1>2. CASE d # c
    <2>1. uplink'[d] = uplink[d]
      BY <1>1, <1>2 DEF Serves
    <2> QED
      BY <2>1
  <1>3. CASE d = c
    <2>1. PICK b \in Seq(Up) : b = uplink[d]
      BY <1>1, Typed
    <2>2. b # << >> /\ uplink'[d] = Tail(b) /\ m = Head(b)
      BY <1>1, <1>3, <2>1 DEF Serves
    <2>3. \A s : \A i \in Begs(b, t, s) :
             (m.type = t /\ m.id = s) \/ i - 1 \in Begs(Tail(b), t, s)
      BY <2>2, BegsTail
    <2> QED
      BY <1>3, <2>1, <2>2, <2>3
  <1> QED
    BY <1>2, <1>3

LEMMA TurnAsks ==
    ASSUME NEW c, NEW m, Turn(c, m), NEW d \in Clients, NEW t
    PROVE  Asks(uplink[d], t) # {} => Asks(uplink'[d], t) # {} \/ (d = c /\ m.type = t)
  <1>1. PagesTypeOK /\ Serves(c) /\ m = Head(uplink[c]) /\ c \in Clients
    BY TurnIs
  <1>2. CASE d # c
    <2>1. uplink'[d] = uplink[d]
      BY <1>1, <1>2 DEF Serves
    <2> QED
      BY <2>1
  <1>3. CASE d = c
    <2>1. PICK b \in Seq(Up) : b = uplink[d]
      BY <1>1, Typed
    <2>2. b # << >> /\ uplink'[d] = Tail(b) /\ m = Head(b)
      BY <1>1, <1>3, <2>1 DEF Serves
    <2>3. \A i \in Asks(b, t) : m.type = t \/ i - 1 \in Asks(Tail(b), t)
      BY <2>2, AsksTail
    <2> QED
      BY <1>3, <2>1, <2>2, <2>3
  <1> QED
    BY <1>2, <1>3

LEMMA TurnTaken ==
    ASSUME NEW c, NEW m, Turn(c, m), NEW t
    PROVE  \A s : 1 \in Begs(uplink[c], t, s) <=> m.type = t /\ m.id = s
  <1>1. PagesTypeOK /\ Serves(c) /\ m = Head(uplink[c]) /\ c \in Clients
    BY TurnIs
  <1>2. PICK b \in Seq(Up) : b = uplink[c]
    BY <1>1, Typed
  <1>3. b # << >> /\ m = Head(b)
    BY <1>1, <1>2 DEF Serves
  <1>4. \A s : 1 \in Begs(b, t, s) <=> (m.type = t /\ m.id = s)
    BY <1>3, BegsTail
  <1> QED
    BY <1>2, <1>4

(* What is new in the queues of the pages.                                 *)
LEMMA TurnNews ==
    ASSUME NEW c, NEW m, Turn(c, m), NEW d \in Clients, NEW s
    PROVE  /\ s \in Born => Unheardof(s, d)
           /\ Brings(outbox'[d], "hostsession", s) => s \in Born /\ Hosts(s, d)'
           /\ Brings(outbox'[d], "clientsession", s) => s \in Born /\ Watches(s, d)'
           /\ Brings(outbox'[d], "host", s) =>
                 m.type = "hostoffer" /\ m.id = s /\ Hosts(s, c) /\ Watches(s, d)
           /\ Brings(outbox'[d], "client", s) =>
                 m.type = "clientanswer" /\ m.id = s /\ Watches(s, c) /\ Hosts(s, d)
           /\ Brings(outbox'[d], "endshare", s) => s \notin UsedIds(rooms)'
           /\ Hosts(s, d)' => Hosts(s, d) \/ s \in Born
           /\ Watches(s, d)' => Watches(s, d) \/ s \in Born
  <1>1. s \in Born => Unheardof(s, d)
    BY TurnIs, NewIsUnheardof
  <1>2. outbox'[d] \in Seq(SUBSET Message)
    BY TurnIs DEF TypeOK, Outbox
  <1>3. \A t \in OfSessions : Brings(outbox'[d], t, s) => s \in SessionIds
    BY <1>2, BringsIds
  <1>4. Hosts(s, d)' \/ Watches(s, d)' => s \in SessionIds
    BY TurnIs DEF EndsHold
  <1>5. s \in SessionIds => FateOf(c, m, d, s)
    BY TurnIs
  <1>6. s \in SessionIds =>
           /\ Brings(outbox'[d], "hostsession", s) => s \in Born /\ Hosts(s, d)'
           /\ Brings(outbox'[d], "clientsession", s) => s \in Born /\ Watches(s, d)'
           /\ Brings(outbox'[d], "host", s) =>
                 m.type = "hostoffer" /\ m.id = s /\ Hosts(s, c) /\ Watches(s, d)
           /\ Brings(outbox'[d], "client", s) =>
                 m.type = "clientanswer" /\ m.id = s /\ Watches(s, c) /\ Hosts(s, d)
           /\ Brings(outbox'[d], "endshare", s) => s \notin UsedIds(rooms)'
           /\ Hosts(s, d)' => Hosts(s, d) \/ s \in Born
           /\ Watches(s, d)' => Watches(s, d) \/ s \in Born
    BY <1>5 DEF FateOf
  <1> QED
    BY <1>1, <1>3, <1>4, <1>6 DEF OfSessions

(* The sessions that go on keep their ends.                                *)
LEMMA TurnEnds ==
    ASSUME NEW c, NEW m, Turn(c, m), NEW s, s \in UsedIds(rooms)'
    PROVE  \/ s \in Born
           \/ /\ s \in UsedIds(rooms)
              /\ \A d : (Hosts(s, d)' <=> Hosts(s, d)) /\ (Watches(s, d)' <=> Watches(s, d))
  <1> SUFFICES ASSUME s \notin Born
               PROVE  /\ s \in UsedIds(rooms)
                      /\ \A d : (Hosts(s, d)' <=> Hosts(s, d)) /\ (Watches(s, d)' <=> Watches(s, d))
    OBVIOUS
  <1>1. s \in UsedIds(rooms)
    BY DEF Born
  <1>2. PICK h, k : Hosts(s, h)' /\ Watches(s, k)'
    BY DEF Hosts, Watches, UsedIds
  <1>3. h \in Clients /\ k \in Clients
    BY <1>2, TurnIs DEF EndsHold
  <1>4. Hosts(s, h) /\ Watches(s, k)
    BY <1>2, <1>3, TurnNews
  <1>5. \A d : /\ Hosts(s, d) => d = h
               /\ Watches(s, d) => d = k
    BY <1>4, TurnIs DEF EndsHold
  <1>6. \A d : /\ Hosts(s, d)' => d = h
               /\ Watches(s, d)' => d = k
    BY <1>2, TurnIs DEF EndsHold
  <1> QED
    BY <1>1, <1>2, <1>4, <1>5, <1>6

LEMMA TurnTidy ==
    ASSUME NEW c, NEW m, Turn(c, m), NEW d \in Clients
    PROVE  Tidy(page[d], uplink[d], downlink[d])'
  <1>1. PICK w \in Seq(SUBSET Message), o \in Seq(SUBSET Message), p \in Page :
           w = downlink[d] /\ o = outbox'[d] /\ p = page[d]
    <2>1. PagesTypeOK /\ TypeOK'
      BY TurnIs
    <2>2. downlink[d] \in Seq(SUBSET Message)
      BY <2>1, Typed
    <2>3. outbox'[d] \in Seq(SUBSET Message)
      BY <2>1 DEF TypeOK, Outbox
    <2>4. page[d] \in Page
      BY <2>1, Typed
    <2> QED
      BY <2>2, <2>3, <2>4
  <1>2. PICK q \in Seq(Up) : q = uplink[d]
    BY TurnIs, Typed
  <1>3. page'[d] = p
    BY <1>1, TurnQueues
  <1>4. Tidy(p, q, w)
    BY <1>1, <1>2, TurnIs
  <1>5. \A s : Unoffered(p, q, s) => Unoffered(p, uplink'[d], s)
    <2>1. ASSUME NEW t PROVE \A s : Begs(uplink'[d], t, s) # {} => Begs(uplink[d], t, s) # {}
      BY TurnFewer
    <2> QED
      BY <1>2, <2>1 DEF Unoffered
  <1>6. \A s : s \in Born => Unheardof(s, d)
    BY TurnNews
  <1>7. \A s : /\ Brings(o, "hostsession", s) => s \in Born
               /\ Brings(o, "clientsession", s) => s \in Born
    BY <1>1, TurnNews
  <1>8. \A s : s \in Born => /\ ~Brings(w, "hostsession", s) /\ ~Brings(w, "clientsession", s)
                             /\ ~Brings(w, "host", s) /\ Unoffered(p, q, s)
                             /\ s \notin p.offering /\ s \notin DOMAIN p.client
    BY <1>1, <1>2, <1>6 DEF Unheardof, Unoffered, OfSessions
  <1>9. /\ Once(downlink'[d], "hostsession") /\ Once(downlink'[d], "clientsession")
        /\ InTurn(downlink'[d])
    <2>1. Once(w, "hostsession") /\ Once(w, "clientsession") /\ InTurn(w)
      BY <1>4 DEF Tidy
    <2>2. Once(o, "hostsession") /\ Once(o, "clientsession") /\ InTurn(o)
      BY <1>1, TurnIs DEF FateSays
    <2>3. Once(w \o o, "hostsession") /\ Once(w \o o, "clientsession")
      BY <1>7, <1>8, <2>1, <2>2, BringsMore
    <2>4. InTurn(w \o o)
      BY <1>7, <1>8, <2>1, <2>2, BringsMore
    <2>5. downlink'[d] = << >> \/ downlink'[d] = w \o o
      BY <1>1, TurnIs DEF Serves
    <2> QED
      BY <2>3, <2>4, <2>5, BringsNothing
  <1>10. ASSUME NEW s \in SessionIds, Brings(downlink'[d], "hostsession", s)
         PROVE  s \notin p.offering /\ Unoffered(p, uplink'[d], s)
    <2>1. Brings(w, "hostsession", s) \/ s \in Born
      BY <1>1, <1>7, <1>10, TurnQueues
    <2>2. s \notin p.offering /\ Unoffered(p, q, s)
      BY <1>4, <1>8, <2>1 DEF Tidy
    <2> QED
      BY <1>5, <2>2
  <1>11. ASSUME NEW s \in SessionIds, Brings(downlink'[d], "clientsession", s)
         PROVE  s \notin DOMAIN p.client
    <2>1. Brings(w, "clientsession", s) \/ s \in Born
      BY <1>1, <1>7, <1>11, TurnQueues
    <2> QED
      BY <1>4, <1>8, <2>1 DEF Tidy
  <1>12. \A s \in p.offering : Unoffered(p, uplink'[d], s)
    BY <1>4, <1>5 DEF Tidy
  <1>13. /\ \A s \in p.shows : s \in DOMAIN p.client /\ p.client[s] = "answered"
         /\ p.ws # "in" => p.offering \cup p.answering \subseteq p.mute
         /\ p.mute \subseteq p.offering \cup p.answering
         /\ \A s \in DOMAIN p.host : p.host[s] = "connected" => p.stream
    BY <1>4 DEF Tidy
  <1>14. Tidy(p, uplink'[d], downlink'[d])
    BY <1>9, <1>10, <1>11, <1>12, <1>13 DEF Tidy
  <1> QED
    BY <1>3, <1>14

LEMMA TurnShared ==
    ASSUME NEW c, NEW m, Turn(c, m), NEW d \in Clients
    PROVE  Shared(d)'
  <1>1. PICK p, w, o : p = page[d] /\ w = downlink[d] /\ o = outbox'[d]
    OBVIOUS
  <1>2. page'[d] = p
    BY <1>1, TurnQueues
  <1>3. Tidy(p, uplink[d], w)
    BY <1>1, TurnIs
  <1> SUFFICES ASSUME NEW s \in UsedIds(rooms)'
               PROVE  /\ AtHost(p, downlink'[d], s) => Hosts(s, d)'
                      /\ AtClient(p, downlink'[d], s) => Watches(s, d)'
                      /\ ~Brings(downlink'[d], "endshare", s)
                      /\ IsOpen(d)' => s \notin p.mute
    BY <1>2 DEF Shared
  <1>4. /\ \A t, x : Brings(downlink'[d], t, x) => Brings(w, t, x) \/ Brings(o, t, x)
        /\ Brings(o, "hostsession", s) => s \in Born /\ Hosts(s, d)'
        /\ Brings(o, "clientsession", s) => s \in Born /\ Watches(s, d)'
        /\ Brings(o, "host", s) => Watches(s, d)
        /\ ~Brings(o, "endshare", s)
    BY <1>1, TurnQueues, TurnNews
  <1>5. IsOpen(d)' = IsOpen(d)
    BY <1>1, <1>2 DEF IsOpen
  <1>6. CASE s \in Born
    <2>1. Unheardof(s, d) /\ s \notin UsedIds(rooms)
      BY <1>6, TurnNews DEF Born
    <2>2. \A t \in OfSessions : ~Brings(w, t, s)
      BY <1>1, <2>1 DEF Unheardof
    <2>3. s \notin DOMAIN p.host \cup DOMAIN p.client \cup p.offering \cup p.answering
      BY <1>1, <2>1 DEF Unheardof
    <2>4. s \notin p.mute
      BY <1>3, <2>3 DEF Tidy
    <2>5. ~Brings(downlink'[d], "host", s)
      <3>1. ~Brings(o, "host", s)
        BY <1>4, <2>1, UsedBy
      <3> QED
        BY <1>4, <2>2, <3>1 DEF OfSessions
    <2>6. AtHost(p, downlink'[d], s) => Hosts(s, d)'
      BY <1>4, <2>2, <2>3 DEF AtHost, OfSessions
    <2>7. AtClient(p, downlink'[d], s) => Watches(s, d)'
      BY <1>4, <2>2, <2>3, <2>5 DEF AtClient, OfSessions
    <2>8. ~Brings(downlink'[d], "endshare", s)
      BY <1>4, <2>2 DEF OfSessions
    <2> QED
      BY <2>4, <2>6, <2>7, <2>8
  <1>7. CASE s \notin Born
    <2>1. /\ s \in UsedIds(rooms)
          /\ (Hosts(s, d)' <=> Hosts(s, d)) /\ (Watches(s, d)' <=> Watches(s, d))
      BY <1>7, TurnEnds
    <2>2. /\ AtHost(p, w, s) => Hosts(s, d)
          /\ AtClient(p, w, s) => Watches(s, d)
          /\ ~Brings(w, "endshare", s)
          /\ IsOpen(d) => s \notin p.mute
      BY <1>1, <2>1, TurnIs DEF Shared
    <2>3. AtHost(p, downlink'[d], s) => Hosts(s, d)
      BY <1>4, <1>7, <2>2 DEF AtHost
    <2>4. AtClient(p, downlink'[d], s) => Watches(s, d)
      BY <1>4, <1>7, <2>2 DEF AtClient
    <2> QED
      BY <1>4, <1>5, <2>1, <2>2, <2>3, <2>4
  <1> QED
    BY <1>6, <1>7

LEMMA TurnApart ==
    ASSUME NEW c, NEW m, Turn(c, m), NEW d \in Clients, NEW e \in Clients
    PROVE  Apart(d, e)'
  <1>1. page'[d] = page[d] /\ page'[e] = page[e] /\ c \in Clients /\ EndsHold
    BY TurnQueues, TurnIs
  <1> SUFFICES ASSUME NEW s \in SessionIds, Holds(page[d], downlink'[d], s),
                      Answers(page[e], uplink'[e], downlink'[e], s)
               PROVE  FALSE
    BY <1>1 DEF Apart
  <1>2. ~(Holds(page[d], downlink[d], s) /\ Answers(page[e], uplink[e], downlink[e], s))
    BY TurnIs DEF Apart
  <1>3. /\ Holds(page[d], downlink[d], s) \/ s \in Born
        /\ \/ Answers(page[e], uplink[e], downlink[e], s)
           \/ m.type = "hostoffer" /\ m.id = s /\ Hosts(s, c)
           \/ m.type = "clientanswer" /\ m.id = s /\ Watches(s, c)
    <2>1. \A t, x : Brings(downlink'[d], t, x) => Brings(downlink[d], t, x) \/ Brings(outbox'[d], t, x)
      BY TurnQueues
    <2>2. \A t, x : Brings(downlink'[e], t, x) => Brings(downlink[e], t, x) \/ Brings(outbox'[e], t, x)
      BY TurnQueues
    <2>3. ASSUME NEW t PROVE \A x : Begs(uplink'[e], t, x) # {} => Begs(uplink[e], t, x) # {}
      BY TurnFewer
    <2>4. Brings(outbox'[d], "hostsession", s) => s \in Born
      BY TurnNews
    <2>5. /\ Brings(outbox'[e], "host", s) => m.type = "hostoffer" /\ m.id = s /\ Hosts(s, c)
          /\ Brings(outbox'[e], "client", s) => m.type = "clientanswer" /\ m.id = s /\ Watches(s, c)
      BY TurnNews
    <2>6. Holds(page[d], downlink[d], s) \/ s \in Born
      BY <2>1, <2>4 DEF Holds
    <2>7. \/ Answers(page[e], uplink[e], downlink[e], s)
          \/ m.type = "hostoffer" /\ m.id = s /\ Hosts(s, c)
          \/ m.type = "clientanswer" /\ m.id = s /\ Watches(s, c)
      BY <2>2, <2>3, <2>5 DEF Answers
    <2> QED
      BY <2>6, <2>7
  <1>4. s \notin Born
    <2>1. s \in Born => ~Answers(page[e], uplink[e], downlink[e], s)
      BY TurnNews DEF Answers, Unheardof, OfSessions
    <2>2. s \in Born => s \notin UsedIds(rooms)
      BY DEF Born
    <2> QED
      BY <1>3, <2>1, <2>2, UsedBy
  <1>5. ASSUME m.type = "clientanswer", m.id = s PROVE FALSE
    <2>1. Begs(uplink[c], "clientanswer", s) # {}
      BY <1>1, <1>5, TurnTaken
    <2>2. Answers(page[c], uplink[c], downlink[c], s) /\ Apart(d, c)
      BY <1>1, <2>1, TurnIs DEF Answers
    <2> QED
      BY <1>3, <1>4, <2>2 DEF Apart
  <1>6. ASSUME m.type = "hostoffer", m.id = s, Hosts(s, c) PROVE FALSE
    <2>1. 1 \in Begs(uplink[c], "hostoffer", s)
      BY <1>1, <1>6, TurnTaken
    <2>2. s \in UsedIds(rooms) /\ Holds(page[d], downlink[d], s)
      BY <1>3, <1>4, <1>6, UsedBy
    <2>3. Shared(d) /\ AtHost(page[d], downlink[d], s)
      BY <2>2, TurnIs DEF Holds, AtHost
    <2>4. d = c
      BY <1>1, <1>6, <2>2, <2>3 DEF Shared, EndsHold
    <2>5. Tidy(page[c], uplink[c], downlink[c]) /\ Stopped(c) /\ uplink[c] \in Seq(Up)
      BY <1>1, TurnIs, Typed
    <2>6. s \in DOMAIN page[c].host /\ ~page[c].stream
      BY <2>1, <2>2, <2>4, <2>5 DEF Tidy, Holds, Unoffered
    <2>7. PICK i \in Asks(uplink[c], "stopshare") : i < 1
      BY <2>1, <2>2, <2>5, <2>6 DEF Stopped
    <2>8. i \in Nat \ {0}
      BY <2>5, <2>7 DEF Asks
    <2> QED
      BY <2>7, <2>8
  <1> QED
    BY <1>2, <1>3, <1>4, <1>5, <1>6

LEMMA TurnStopped ==
    ASSUME NEW c, NEW m, Turn(c, m), NEW d \in Clients
    PROVE  Stopped(d)'
  <1>1. page'[d] = page[d]
    BY TurnQueues
  <1> SUFFICES ASSUME NEW s \in DOMAIN page[d].host, s \in UsedIds(rooms)', ~page[d].stream,
                      NEW j \in Begs(uplink'[d], "hostoffer", s)
               PROVE  \E i \in Asks(uplink'[d], "stopshare") : i < j
    BY <1>1 DEF Stopped
  <1>2. s \notin Born
    BY TurnNews DEF Unheardof
  <1>3. s \in UsedIds(rooms) /\ (Hosts(s, d)' <=> Hosts(s, d))
    BY <1>2, TurnEnds
  <1>4. Stopped(d) /\ Shared(d) /\ Serves(c) /\ EndsHold'
    BY TurnIs
  <1>5. CASE d # c
    <2>1. uplink'[d] = uplink[d]
      BY <1>4, <1>5 DEF Serves
    <2> QED
      BY <1>3, <1>4, <2>1 DEF Stopped
  <1>6. CASE d = c
    <2>1. PICK b \in Seq(Up) : b = uplink[d]
      BY TurnIs, Typed
    <2>2. b # << >> /\ uplink'[d] = Tail(b) /\ m = Head(b)
      BY <1>4, <1>6, <2>1, TurnIs DEF Serves
    <2>3. j \in Nat \ {0} /\ j + 1 \in Begs(b, "hostoffer", s)
      BY <2>2, BegsTail
    <2>4. PICK i \in Asks(b, "stopshare") : i < j + 1
      BY <1>3, <1>4, <2>1, <2>3 DEF Stopped
    <2>5. AtHost(page[d], downlink[d], s)
      BY DEF AtHost
    <2>6. Hosts(s, d)'
      BY <1>3, <1>4, <2>5 DEF Shared
    <2>7. Performs(c)'
      BY <1>4, <1>6, <2>6 DEF EndsHold
    <2>8. m.type # "stopshare"
      BY <2>7, TurnIs
    <2>9. i # 1 /\ i - 1 \in Nat /\ i - 1 \in Asks(Tail(b), "stopshare") /\ i \in Nat
      <3>1. PICK t : t = "stopshare"
        OBVIOUS
      <3>2. /\ i = 1 \/ (i - 1 \in Nat \ {0} /\ i - 1 \in Asks(Tail(b), t))
            /\ 1 \in Asks(b, t) <=> m.type = t
            /\ i \in Nat \ {0}
        BY <2>2, <2>4, <3>1, AsksTail
      <3> QED
        BY <2>4, <2>8, <3>1, <3>2
    <2>10. i - 1 < j
      BY <2>3, <2>4, <2>9
    <2> QED
      BY <2>2, <2>9, <2>10
  <1> QED
    BY <1>5, <1>6

(* An end of a live session whose page has closed has said that it goes.   *)
LEMMA ClosedGoes ==
    ASSUME NEW c, NEW m, Turn(c, m), NEW d \in Clients, d \in DOMAIN connected',
           page[d].ws = "closed"
    PROVE  Asks(uplink'[d], "gone") # {}
  <1>1. Link(d)' /\ page'[d] = page[d]
    BY TurnIs, TurnQueues
  <1>2. Parted(d)'
    BY <1>1 DEF Link
  <1>3. PICK q \in Seq(Up) : q = uplink'[d]
    <2>1. PagesTypeOK'
      BY DEF Turn, PagesInv
    <2> QED
      BY <2>1 DEF PagesTypeOK
  <1>4. q # << >> /\ q[Len(q)].type = "gone"
    BY <1>2, <1>3 DEF Parted
  <1>5. Len(q) \in DOMAIN q
    BY <1>4
  <1> QED
    BY <1>3, <1>4, <1>5 DEF Asks

LEMMA TurnBreaks ==
    ASSUME NEW c, NEW m, Turn(c, m), NEW s, NEW h \in Clients, NEW k \in Clients, Broken(s, h, k)
    PROVE  Broken(s, h, k)'
  BY TurnQueues DEF Broken

LEMMA TurnLinks ==
    ASSUME NEW c, NEW m, Turn(c, m), NEW s, NEW h \in Clients, NEW k \in Clients,
           Hosts(s, h)', Watches(s, k)', ~Broken(s, h, k)
    PROVE  Linking(s, h, k)'
  <1>1. /\ h \in DOMAIN connected' /\ k \in DOMAIN connected' /\ s \in SessionIds
        /\ Performs(h)' /\ s \in UsedIds(rooms)'
    BY TurnIs, UsedBy DEF EndsHold, Hosts, UsedIds
  <1>2. CASE page[h].ws = "closed" \/ page[k].ws = "closed"
    <2>1. Asks(uplink'[h], "gone") \cup Asks(uplink'[k], "gone") # {}
      BY <1>1, <1>2, ClosedGoes
    <2> QED
      BY <2>1 DEF Linking, Doomed
  <1>3. CASE page[h].ws # "closed" /\ page[k].ws # "closed"
    <2>1. page'[h] = page[h] /\ page'[k] = page[k]
      BY TurnQueues
    <2>2. /\ \A t, x : Brings(downlink'[h], t, x) <=> Brings(downlink[h], t, x) \/ Brings(outbox'[h], t, x)
          /\ \A t, x : Brings(downlink'[k], t, x) <=> Brings(downlink[k], t, x) \/ Brings(outbox'[k], t, x)
      BY <1>3, TurnQueues
    <2>3. /\ \A t, x : Begs(uplink'[h], t, x) # {} => Begs(uplink[h], t, x) # {}
          /\ \A t, x : Begs(uplink[h], t, x) # {} =>
                Begs(uplink'[h], t, x) # {} \/ (h = c /\ m.type = t /\ m.id = x)
      <3>1. ASSUME NEW t PROVE \A x : Begs(uplink'[h], t, x) # {} => Begs(uplink[h], t, x) # {}
        BY TurnFewer
      <3>2. ASSUME NEW t
            PROVE  \A x : Begs(uplink[h], t, x) # {} =>
                      Begs(uplink'[h], t, x) # {} \/ (h = c /\ m.type = t /\ m.id = x)
        BY TurnBegs
      <3> QED
        BY <3>1, <3>2
    <2>7. /\ \A t, x : Begs(uplink'[k], t, x) # {} => Begs(uplink[k], t, x) # {}
          /\ \A t, x : Begs(uplink[k], t, x) # {} =>
                Begs(uplink'[k], t, x) # {} \/ (k = c /\ m.type = t /\ m.id = x)
      <3>1. ASSUME NEW t PROVE \A x : Begs(uplink'[k], t, x) # {} => Begs(uplink[k], t, x) # {}
        BY TurnFewer
      <3>2. ASSUME NEW t
            PROVE  \A x : Begs(uplink[k], t, x) # {} =>
                      Begs(uplink'[k], t, x) # {} \/ (k = c /\ m.type = t /\ m.id = x)
        BY TurnBegs
      <3> QED
        BY <3>1, <3>2
    <2>4. FateOf(c, m, h, s) /\ FateOf(c, m, k, s)
      BY <1>1, TurnIs
    <2>5. CASE s \in Born
      <3>1. Unheardof(s, h) /\ Unheardof(s, k) /\ s \notin UsedIds(rooms)
        BY <2>5, TurnNews DEF Born
      <3>2. Brings(outbox'[h], "hostsession", s) /\ Brings(outbox'[k], "clientsession", s)
        BY <2>4, <2>5 DEF FateOf
      <3>3. ~Brings(outbox'[h], "client", s)
        BY <2>4, <3>1, UsedBy DEF FateOf
      <3>4. Unanswered(s, h, k)'
        BY <2>1, <2>2, <2>7, <3>1, <3>2, <3>3 DEF Unanswered, Unheardof, OfSessions
      <3>5. Foretold(s, h)'
        BY <2>2, <3>2 DEF Foretold
      <3> QED
        BY <3>4, <3>5 DEF Linking
    <2>6. CASE s \notin Born
      <3>1. Hosts(s, h) /\ Watches(s, k)
        BY <1>1, <2>6, TurnEnds
      <3>2. Linking(s, h, k)
        BY <1>1, <3>1 DEF Turn, SessionsInv
      <3>3. CASE Doomed(h, k)
        <4>1. /\ \A t : Asks(uplink[h], t) # {} => Asks(uplink'[h], t) # {} \/ (h = c /\ m.type = t)
              /\ \A t : Asks(uplink[k], t) # {} => Asks(uplink'[k], t) # {} \/ (k = c /\ m.type = t)
          BY TurnAsks
        <4>2. ~(h = c /\ m.type = "stopshare") /\ ~(h = c /\ m.type = "gone") /\ ~(k = c /\ m.type = "gone")
          BY <1>1, TurnIs
        <4>3. \/ Asks(uplink[h], "stopshare") # {} \/ Asks(uplink[h], "gone") # {}
              \/ Asks(uplink[k], "gone") # {}
          BY <3>3 DEF Doomed
        <4>4. \/ Asks(uplink'[h], "stopshare") # {} \/ Asks(uplink'[h], "gone") # {}
              \/ Asks(uplink'[k], "gone") # {}
          BY <4>1, <4>2, <4>3
        <4> QED
          BY <4>4 DEF Linking, Doomed
      <3>4. CASE Unanswered(s, h, k)
        <4>1. /\ Begs(uplink[k], "clientanswer", s) = {} /\ ~Brings(downlink[h], "client", s)
              /\ s \in DOMAIN page[h].host => page[h].host[s] = "offered"
              /\ s \in DOMAIN page[k].client => page[k].client[s] = "new"
              /\ Brings(downlink[k], "clientsession", s) \/ s \in DOMAIN page[k].client
          BY <3>4 DEF Unanswered
        <4>2. ~Brings(outbox'[h], "client", s)
          <5>1. ASSUME m.type = "clientanswer", m.id = s, Watches(s, c) PROVE FALSE
            <6>1. c = k
              BY <3>1, <5>1, TurnIs DEF EndsHold
            <6>2. 1 \in Begs(uplink[k], "clientanswer", s)
              BY <5>1, <6>1, TurnTaken
            <6> QED
              BY <4>1, <6>2
          <5> QED
            BY <2>4, <5>1 DEF FateOf
        <4>3. /\ Begs(uplink'[k], "clientanswer", s) = {} /\ ~Brings(downlink'[h], "client", s)
              /\ Brings(downlink'[k], "clientsession", s) \/ s \in DOMAIN page[k].client
          BY <2>2, <2>7, <4>1, <4>2
        <4>4. Unanswered(s, h, k)'
          BY <2>1, <4>1, <4>3 DEF Unanswered
        <4>5. Foretold(s, h) => Foretold(s, h)'
          BY <2>1, <2>2 DEF Foretold
        <4>6. Offered(s, h, k) => Offered(s, h, k)'
          <5>1. Brings(downlink[k], "host", s) => Brings(downlink'[k], "host", s)
            BY <2>2
          <5>2. Begs(uplink[h], "hostoffer", s) # {} =>
                   Begs(uplink'[h], "hostoffer", s) # {} \/ Brings(downlink'[k], "host", s)
            BY <2>2, <2>3, <2>4, <3>1 DEF FateOf
          <5> QED
            BY <2>1, <5>1, <5>2 DEF Offered
        <4>7. \/ Foretold(s, h) \/ Offered(s, h, k)
              \/ Doomed(h, k) \/ Answered(s, h, k)
          BY <3>2 DEF Linking
        <4>8. ~Answered(s, h, k)
          BY <4>1 DEF Answered
        <4>9. CASE Doomed(h, k)
          BY <3>3, <4>9
        <4> QED
          BY <4>4, <4>5, <4>6, <4>7, <4>8, <4>9 DEF Linking
      <3>5. CASE Answered(s, h, k)
        <4>1. Begs(uplink[k], "clientanswer", s) # {} =>
                 Begs(uplink'[k], "clientanswer", s) # {} \/ Brings(downlink'[h], "client", s)
          BY <2>2, <2>7, <2>4, <3>1 DEF FateOf
        <4>2. Brings(downlink[h], "client", s) => Brings(downlink'[h], "client", s)
          BY <2>2
        <4>3. Answered(s, h, k)'
          BY <2>1, <3>5, <4>1, <4>2 DEF Answered
        <4> QED
          BY <4>3 DEF Linking
      <3> QED
        BY <3>2, <3>3, <3>4, <3>5 DEF Linking
    <2> QED
      BY <2>5, <2>6
  <1> QED
    BY <1>2, <1>3

LEMMA ServeConnects ==
    ASSUME RoomIdsAreNames, PagesInv, PagesInv', SessionsInv, NEW c \in Clients, Serve(c)
    PROVE  SessionsInv'
  <1>1. PagesTypeOK /\ Safe /\ TypeOK
    BY Typed DEF PagesInv
  <1>2. PICK m \in Up : m = Head(uplink[c])
    <2>1. uplink[c] \in Seq(Up) /\ uplink[c] # << >>
      BY <1>1, Typed DEF Serve
    <2> QED
      BY <2>1
  <1>3. TypeOK' /\ Served(c, m) /\ Fate(c, m)
    BY <1>1, <1>2, ServeStep, ServeFate DEF Served
  <1>4. Turn(c, m)
    BY <1>1, <1>2, <1>3, ServeWires DEF Turn
  <1>5. ASSUME NEW s \in SessionIds, NEW h \in Clients, NEW k \in Clients,
               Hosts(s, h)', Watches(s, k)'
        PROVE  Linking(s, h, k)' \/ Broken(s, h, k)'
    BY <1>4, <1>5, TurnLinks, TurnBreaks
  <1> QED
    BY <1>4, <1>5, TurnTidy, TurnShared, TurnApart, TurnStopped DEF SessionsInv
-----------------------------------------------------------------------------
(* What a page does to its sessions *)

(* What a page becomes, from p to p2, while its queues become q2 and w2.   *)
OfferLike == {"hostoffer", "clientanswer"}
Untouched(w, w2) ==
    /\ \A t \in OfSessions : \A s : Brings(w2, t, s) <=> Brings(w, t, s)
    /\ \A t : Once(w, t) => Once(w2, t)
    /\ InTurn(w) => InTurn(w2)
Reads(w, w2, x, y) ==
    /\ Brings(w, x, y)
    /\ \A t \in OfSessions : \A s :
          /\ Brings(w2, t, s) => Brings(w, t, s)
          /\ Brings(w, t, s) => Brings(w2, t, s) \/ (t = x /\ s = y)
    /\ \A t : Once(w, t) => Once(w2, t)
    /\ Once(w, x) => ~Brings(w2, x, y)
    /\ InTurn(w) => InTurn(w2)
    /\ InTurn(w) /\ x = "host" => ~Brings(w, "clientsession", y)
Utters(q, q2) ==
    /\ \A t \in OfferLike : \A s : Begs(q2, t, s) = Begs(q, t, s)
    /\ \A t : Asks(q, t) \subseteq Asks(q2, t)
Proposes(q, q2, t, s) ==
    /\ Begs(q2, t, s) = Begs(q, t, s) \cup {Len(q) + 1}
    /\ \A x \in OfferLike : \A y : ~(x = t /\ y = s) => Begs(q2, x, y) = Begs(q, x, y)
    /\ \A x : Asks(q, x) \subseteq Asks(q2, x)

KeepsHosts(p, p2)   == p2.offering = p.offering /\ p2.host = p.host /\ (p.stream => p2.stream)
KeepsClients(p, p2) == p2.answering = p.answering /\ p2.client = p.client /\ p2.shows = p.shows
KeepsWire(p, p2)    == p2.mute = p.mute /\ (p.ws = "in" => p2.ws = "in")

OpenPage(p) == p.ws \in {"open", "in"}
Idling(p, p2, q, q2, w, w2) ==
    KeepsHosts(p, p2) /\ KeepsClients(p, p2) /\ KeepsWire(p, p2) /\ Utters(q, q2) /\ Untouched(w, w2)
Stopping(p, p2, q, q2, w, w2) ==
    /\ KeepsClients(p, p2) /\ KeepsWire(p, p2) /\ Utters(q, q2) /\ Untouched(w, w2)
    /\ p2.offering = p.offering /\ DOMAIN p2.host = {}
    /\ OpenPage(p) => Asks(q2, "stopshare") # {}
ShutsDown(p, p2, q, q2, w, w2) ==
    /\ p2.ws = "closed" /\ w2 = << >> /\ p2.shows = {}
    /\ p2.offering \subseteq p.offering /\ p2.answering \subseteq p.answering
    /\ p2.mute = p2.offering \cup p2.answering
    /\ DOMAIN p2.host = {} \/ (p2.host = p.host /\ p2.stream = p.stream)
    /\ DOMAIN p2.client \subseteq DOMAIN p.client
    /\ Sheds(q2, q)
OffersOne(p, p2, q, q2, w, w2, s) ==
    /\ KeepsClients(p, p2) /\ p2.stream = p.stream /\ p2.ws = p.ws /\ Untouched(w, w2)
    /\ s \in p.offering /\ p2.offering = p.offering \ {s} /\ p2.mute = p.mute \ {s}
    /\ DOMAIN p2.host = DOMAIN p.host \cup {s} /\ p2.host[s] = "offered"
    /\ \A x \in DOMAIN p.host \ {s} : p2.host[x] = p.host[x]
    /\ \/ Utters(q, q2) /\ (s \in p.mute \/ ~OpenPage(p))
       \/ Proposes(q, q2, "hostoffer", s) /\ s \notin p.mute /\ OpenPage(p)
AnswersOne(p, p2, q, q2, w, w2, s) ==
    /\ KeepsHosts(p, p2) /\ p2.stream = p.stream /\ p2.ws = p.ws /\ Untouched(w, w2)
    /\ s \in p.answering /\ p2.answering = p.answering \ {s} /\ p2.mute = p.mute \ {s}
    /\ DOMAIN p2.client = DOMAIN p.client
    /\ \A x \in DOMAIN p.client \ {s} : p2.client[x] = p.client[x]
    /\ \/ s \notin DOMAIN p.client /\ p2.shows = p.shows /\ Utters(q, q2)
       \/ /\ s \in DOMAIN p.client /\ p2.client[s] = "answered"
          /\ p2.shows = IF p.ws = "in" THEN p.shows \cup {s} ELSE p.shows
          /\ \/ Utters(q, q2) /\ (s \in p.mute \/ ~OpenPage(p))
             \/ Proposes(q, q2, "clientanswer", s) /\ s \notin p.mute /\ OpenPage(p)
EndsOne(p, p2, q, q2, w, w2, s) ==
    /\ p2.offering = p.offering /\ p2.answering = p.answering /\ p2.stream = p.stream
    /\ KeepsWire(p, p2) /\ Utters(q, q2)
    /\ Untouched(w, w2) \/ Reads(w, w2, "endshare", s)
    /\ DOMAIN p2.host = DOMAIN p.host \ {s} /\ DOMAIN p2.client = DOMAIN p.client \ {s}
    /\ p2.shows = p.shows \ {s}
    /\ \A x \in DOMAIN p2.host : p2.host[x] = p.host[x]
    /\ \A x \in DOMAIN p2.client : p2.client[x] = p.client[x]
HearsHostSession(p, p2, q, q2, w, w2, s) ==
    /\ KeepsClients(p, p2) /\ KeepsWire(p, p2) /\ p.ws = "in" /\ Utters(q, q2)
    /\ Reads(w, w2, "hostsession", s) /\ p2.host = p.host /\ p2.stream = p.stream
    /\ p2.offering = IF p.stream THEN p.offering \cup {s} ELSE p.offering
HearsClientSession(p, p2, q, q2, w, w2, s) ==
    /\ KeepsHosts(p, p2) /\ KeepsWire(p, p2) /\ p.ws = "in" /\ Utters(q, q2)
    /\ Reads(w, w2, "clientsession", s) /\ p2.answering = p.answering /\ p2.shows = p.shows
    /\ DOMAIN p2.client = DOMAIN p.client \cup {s} /\ p2.client[s] = "new"
    /\ \A x \in DOMAIN p.client \ {s} : p2.client[x] = p.client[x]
HearsOffer(p, p2, q, q2, w, w2, s) ==
    /\ KeepsHosts(p, p2) /\ KeepsWire(p, p2) /\ p.ws = "in" /\ Utters(q, q2)
    /\ Reads(w, w2, "host", s) /\ p2.client = p.client /\ p2.shows = p.shows
    /\ p2.answering = p.answering \cup {s}
HearsAnswer(p, p2, q, q2, w, w2, s) ==
    /\ KeepsClients(p, p2) /\ KeepsWire(p, p2) /\ p.ws = "in" /\ Utters(q, q2)
    /\ Reads(w, w2, "client", s) /\ p2.offering = p.offering /\ p2.stream = p.stream
    /\ DOMAIN p2.host = DOMAIN p.host
    /\ s \in DOMAIN p.host => p2.host[s] = "connected"
    /\ \A x \in DOMAIN p.host \ {s} : p2.host[x] = p.host[x]

LEMMA WireRead ==
    ASSUME NEW w \in Seq(SUBSET Message), w # << >>, NEW m \in Head(w)
    PROVE  /\ m.type \notin OfSessions => Untouched(w, Rest(w, m))
           /\ Reads(w, Rest(w, m), m.type, m.id)
  <1>1. PICK w2 : w2 = Rest(w, m)
    OBVIOUS
  <1>2. /\ \A t, s : Brings(w2, t, s) => Brings(w, t, s)
        /\ \A t, s : Brings(w, t, s) => Brings(w2, t, s) \/ (m.type = t /\ m.id = s)
        /\ \A t : Once(w, t) => Once(w2, t)
        /\ \A t : Once(w, t) /\ m.type = t => ~Brings(w2, t, m.id)
        /\ InTurn(w) => InTurn(w2)
        /\ InTurn(w) /\ m.type = "host" => ~Brings(w, "clientsession", m.id)
        /\ Brings(w, m.type, m.id)
    BY <1>1, BringsRest
  <1>3. m.type \notin OfSessions => Untouched(w, w2)
    BY <1>2 DEF Untouched
  <1>4. Reads(w, w2, m.type, m.id)
    BY <1>2 DEF Reads
  <1> QED
    BY <1>1, <1>3, <1>4

LEMMA WireWaits == \A w : Untouched(w, w)
  BY DEF Untouched

LEMMA WireUtters ==
    ASSUME NEW q \in Seq(Up)
    PROVE  /\ Utters(q, q)
           /\ \A m : m.type \notin OfferLike => Utters(q, Append(q, m))
           /\ \A m : m.type \in OfferLike => Proposes(q, Append(q, m), m.type, m.id)
           /\ \A m1, m2 : q = << >> /\ m1.type \notin OfferLike /\ m2.type \notin OfferLike
                => Utters(q, <<m1, m2>>)
  <1>1. Utters(q, q)
    BY DEF Utters
  <1>2. ASSUME NEW m
        PROVE  /\ \A t : Asks(q, t) \subseteq Asks(Append(q, m), t)
               /\ \A t, s : /\ ~(m.type = t /\ m.id = s) => Begs(Append(q, m), t, s) = Begs(q, t, s)
                            /\ m.type = t /\ m.id = s =>
                                  Begs(Append(q, m), t, s) = Begs(q, t, s) \cup {Len(q) + 1}
    <2>1. ASSUME NEW t PROVE Asks(q, t) \subseteq Asks(Append(q, m), t)
      <3>1. /\ m.type # t => Asks(Append(q, m), t) = Asks(q, t)
            /\ m.type = t => Asks(Append(q, m), t) = Asks(q, t) \cup {Len(q) + 1}
        BY AsksAppend
      <3> QED
        BY <3>1
    <2>2. \A t, s : /\ ~(m.type = t /\ m.id = s) => Begs(Append(q, m), t, s) = Begs(q, t, s)
                    /\ m.type = t /\ m.id = s =>
                          Begs(Append(q, m), t, s) = Begs(q, t, s) \cup {Len(q) + 1}
      BY BegsAppend
    <2> QED
      BY <2>1, <2>2
  <1>3. ASSUME NEW m, m.type \notin OfferLike PROVE Utters(q, Append(q, m))
    BY <1>2, <1>3 DEF Utters
  <1>4. ASSUME NEW m, m.type \in OfferLike PROVE Proposes(q, Append(q, m), m.type, m.id)
    BY <1>2, <1>4 DEF Proposes
  <1>5. ASSUME NEW m1, NEW m2, q = << >>, m1.type \notin OfferLike, m2.type \notin OfferLike
        PROVE  Utters(q, <<m1, m2>>)
    <2>1. \A t : Asks(q, t) = {}
      BY <1>5, AsksNothing
    <2>2. \A t, s : Begs(q, t, s) = {}
      BY <1>5, BringsNothing
    <2>3. PICK q2 : q2 = <<m1, m2>>
      OBVIOUS
    <2>4. DOMAIN q2 = {1, 2} /\ q2[1] = m1 /\ q2[2] = m2
      BY <2>3
    <2>5. \A t \in OfferLike : \A s : Begs(q2, t, s) = {}
      BY <1>5, <2>4 DEF Begs
    <2> QED
      BY <2>1, <2>2, <2>3, <2>5 DEF Utters
  <1> QED
    BY <1>1, <1>3, <1>4, <1>5

(* The page stays tidy.                                                    *)
LEMMA OrderStays ==
    ASSUME NEW w, NEW w2, NEW x, NEW s, Untouched(w, w2) \/ Reads(w, w2, x, s),
           Once(w, "hostsession"), Once(w, "clientsession"), InTurn(w)
    PROVE  Once(w2, "hostsession") /\ Once(w2, "clientsession") /\ InTurn(w2)
  BY DEF Untouched, Reads

LEMMA IdlingTidy ==
    ASSUME NEW p, NEW p2, NEW q, NEW q2, NEW w, NEW w2,
           Tidy(p, q, w), Idling(p, p2, q, q2, w, w2)
    PROVE  Tidy(p2, q2, w2)
  <1>1. \A s : Unoffered(p, q, s) => Unoffered(p2, q2, s)
    BY DEF Idling, KeepsHosts, Utters, Unoffered, OfferLike
  <1>2. Once(w2, "hostsession") /\ Once(w2, "clientsession") /\ InTurn(w2)
    BY DEF Idling, Untouched, Tidy
  <1>3. \A s : /\ Brings(w2, "hostsession", s) => Brings(w, "hostsession", s)
               /\ Brings(w2, "clientsession", s) => Brings(w, "clientsession", s)
    BY DEF Idling, Untouched, OfSessions
  <1> QED
    BY <1>1, <1>2, <1>3 DEF Idling, KeepsHosts, KeepsClients, KeepsWire, Tidy

LEMMA StoppingTidy ==
    ASSUME NEW p, NEW p2, NEW q, NEW q2, NEW w, NEW w2,
           Tidy(p, q, w), Stopping(p, p2, q, q2, w, w2)
    PROVE  Tidy(p2, q2, w2)
  <1>1. \A s : Unoffered(p, q, s) => Unoffered(p2, q2, s)
    BY DEF Stopping, Utters, Unoffered, OfferLike
  <1>2. Once(w2, "hostsession") /\ Once(w2, "clientsession") /\ InTurn(w2)
    BY DEF Stopping, Untouched, Tidy
  <1>3. \A s : /\ Brings(w2, "hostsession", s) => Brings(w, "hostsession", s)
               /\ Brings(w2, "clientsession", s) => Brings(w, "clientsession", s)
    BY DEF Stopping, Untouched, OfSessions
  <1> QED
    BY <1>1, <1>2, <1>3 DEF Stopping, KeepsClients, KeepsWire, Tidy

LEMMA ShutsDownTidy ==
    ASSUME NEW p, NEW p2, NEW q \in Seq(Up), NEW q2 \in Seq(Up), NEW w, NEW w2,
           Tidy(p, q, w), ShutsDown(p, p2, q, q2, w, w2)
    PROVE  Tidy(p2, q2, w2)
  <1>1. \A s : Begs(q2, "hostoffer", s) \subseteq Begs(q, "hostoffer", s)
    <2>1. PICK t \in OfferLike : t = "hostoffer"
      BY DEF OfferLike
    <2>2. \A s : Begs(q2, t, s) \subseteq Begs(q, t, s)
      BY ShedsBegs DEF ShutsDown, OfferLike
    <2> QED
      BY <2>1, <2>2
  <1>2. DOMAIN p2.host \subseteq DOMAIN p.host
    BY DEF ShutsDown
  <1>3. \A s : Unoffered(p, q, s) => Unoffered(p2, q2, s)
    BY <1>1, <1>2 DEF Unoffered
  <1>4. /\ \A t, s : ~Brings(w2, t, s)
        /\ \A t : Once(w2, t)
        /\ InTurn(w2)
    BY BringsNothing DEF ShutsDown
  <1>5. \A s \in DOMAIN p2.host : p2.host[s] = "connected" => p2.stream
    BY DEF ShutsDown, Tidy
  <1>6. \A s \in p2.offering : Unoffered(p2, q2, s)
    BY <1>3 DEF ShutsDown, Tidy
  <1> QED
    BY <1>4, <1>5, <1>6 DEF ShutsDown, Tidy

LEMMA OffersOneTidy ==
    ASSUME NEW p, NEW p2, NEW q, NEW q2, NEW w, NEW w2, NEW s,
           Tidy(p, q, w), OffersOne(p, p2, q, q2, w, w2, s), s \notin p.answering
    PROVE  Tidy(p2, q2, w2)
  <1>1. \A x : x # s /\ Unoffered(p, q, x) => Unoffered(p2, q2, x)
    BY DEF OffersOne, Utters, Proposes, Unoffered, OfferLike
  <1>2. Once(w2, "hostsession") /\ Once(w2, "clientsession") /\ InTurn(w2)
    BY DEF OffersOne, Untouched, Tidy
  <1>3. \A x : /\ Brings(w2, "hostsession", x) => Brings(w, "hostsession", x)
               /\ Brings(w2, "clientsession", x) => Brings(w, "clientsession", x)
    BY DEF OffersOne, Untouched, OfSessions
  <1>4. \A x \in SessionIds : Brings(w2, "hostsession", x) => x \notin p2.offering /\ Unoffered(p2, q2, x)
    BY <1>1, <1>3 DEF OffersOne, Tidy
  <1>5. \A x \in p2.offering : Unoffered(p2, q2, x)
    BY <1>1 DEF OffersOne, Tidy
  <1>6. \A x \in DOMAIN p2.host : p2.host[x] = "connected" => p2.stream
    BY DEF OffersOne, Tidy
  <1>7. /\ p2.ws # "in" => p2.offering \cup p2.answering \subseteq p2.mute
        /\ p2.mute \subseteq p2.offering \cup p2.answering
    BY DEF OffersOne, KeepsClients, Tidy
  <1> QED
    BY <1>2, <1>3, <1>4, <1>5, <1>6, <1>7 DEF OffersOne, KeepsClients, Tidy

LEMMA AnswersOneTidy ==
    ASSUME NEW p, NEW p2, NEW q, NEW q2, NEW w, NEW w2, NEW s,
           Tidy(p, q, w), AnswersOne(p, p2, q, q2, w, w2, s), s \notin p.offering
    PROVE  Tidy(p2, q2, w2)
  <1>1. \A x : Unoffered(p, q, x) => Unoffered(p2, q2, x)
    BY DEF AnswersOne, KeepsHosts, Utters, Proposes, Unoffered, OfferLike
  <1>2. Once(w2, "hostsession") /\ Once(w2, "clientsession") /\ InTurn(w2)
    BY DEF AnswersOne, Untouched, Tidy
  <1>3. \A x : /\ Brings(w2, "hostsession", x) => Brings(w, "hostsession", x)
               /\ Brings(w2, "clientsession", x) => Brings(w, "clientsession", x)
    BY DEF AnswersOne, Untouched, OfSessions
  <1>4. \A x \in p2.shows : x \in DOMAIN p2.client /\ p2.client[x] = "answered"
    BY DEF AnswersOne, Tidy
  <1>5. /\ p2.ws # "in" => p2.offering \cup p2.answering \subseteq p2.mute
        /\ p2.mute \subseteq p2.offering \cup p2.answering
    BY DEF AnswersOne, KeepsHosts, Tidy
  <1> QED
    BY <1>1, <1>2, <1>3, <1>4, <1>5 DEF AnswersOne, KeepsHosts, Tidy

LEMMA EndsOneTidy ==
    ASSUME NEW p, NEW p2, NEW q, NEW q2, NEW w, NEW w2, NEW s \in SessionIds,
           Tidy(p, q, w), EndsOne(p, p2, q, q2, w, w2, s)
    PROVE  Tidy(p2, q2, w2)
  <1>1. \A x : Unoffered(p, q, x) => Unoffered(p2, q2, x)
    BY DEF EndsOne, Utters, Unoffered, OfferLike
  <1>2. Once(w2, "hostsession") /\ Once(w2, "clientsession") /\ InTurn(w2)
    BY DEF EndsOne, Untouched, Reads, Tidy
  <1>3. \A x : /\ Brings(w2, "hostsession", x) => Brings(w, "hostsession", x)
               /\ Brings(w2, "clientsession", x) => Brings(w, "clientsession", x)
    BY DEF EndsOne, Untouched, Reads, OfSessions
  <1>4. \A x \in p2.shows : x \in DOMAIN p2.client /\ p2.client[x] = "answered"
    BY DEF EndsOne, Tidy
  <1>5. \A x \in DOMAIN p2.host : p2.host[x] = "connected" => p2.stream
    BY DEF EndsOne, Tidy
  <1> QED
    BY <1>1, <1>2, <1>3, <1>4, <1>5 DEF EndsOne, KeepsWire, Tidy

LEMMA HearsHostSessionTidy ==
    ASSUME NEW p, NEW p2, NEW q, NEW q2, NEW w, NEW w2, NEW s \in SessionIds,
           Tidy(p, q, w), HearsHostSession(p, p2, q, q2, w, w2, s)
    PROVE  Tidy(p2, q2, w2)
  <1>1. \A x : Unoffered(p, q, x) => Unoffered(p2, q2, x)
    BY DEF HearsHostSession, Utters, Unoffered, OfferLike
  <1>2. Once(w2, "hostsession") /\ Once(w2, "clientsession") /\ InTurn(w2)
    BY DEF HearsHostSession, Reads, Tidy
  <1>3. /\ \A x : /\ Brings(w2, "hostsession", x) => Brings(w, "hostsession", x)
                  /\ Brings(w2, "clientsession", x) => Brings(w, "clientsession", x)
        /\ Brings(w, "hostsession", s) /\ ~Brings(w2, "hostsession", s)
    BY DEF HearsHostSession, Reads, OfSessions, Tidy
  <1>4. \A x \in SessionIds : Brings(w2, "hostsession", x) => x \notin p2.offering /\ Unoffered(p2, q2, x)
    BY <1>1, <1>3 DEF HearsHostSession, Tidy
  <1>5. \A x \in p2.offering : Unoffered(p2, q2, x)
    BY <1>1, <1>3 DEF HearsHostSession, Tidy
  <1>6. p2.ws = "in" /\ p2.mute \subseteq p2.offering \cup p2.answering
    BY DEF HearsHostSession, KeepsClients, KeepsWire, Tidy
  <1> QED
    BY <1>2, <1>3, <1>4, <1>5, <1>6 DEF HearsHostSession, KeepsClients, Tidy

LEMMA HearsClientSessionTidy ==
    ASSUME NEW p, NEW p2, NEW q, NEW q2, NEW w, NEW w2, NEW s \in SessionIds,
           Tidy(p, q, w), HearsClientSession(p, p2, q, q2, w, w2, s)
    PROVE  Tidy(p2, q2, w2)
  <1>1. \A x : Unoffered(p, q, x) => Unoffered(p2, q2, x)
    BY DEF HearsClientSession, KeepsHosts, Utters, Unoffered, OfferLike
  <1>2. Once(w2, "hostsession") /\ Once(w2, "clientsession") /\ InTurn(w2)
    BY DEF HearsClientSession, Reads, Tidy
  <1>3. /\ \A x : /\ Brings(w2, "hostsession", x) => Brings(w, "hostsession", x)
                  /\ Brings(w2, "clientsession", x) => Brings(w, "clientsession", x)
        /\ Brings(w, "clientsession", s) /\ ~Brings(w2, "clientsession", s)
    BY DEF HearsClientSession, Reads, OfSessions, Tidy
  <1>4. \A x \in SessionIds : Brings(w2, "clientsession", x) => x \notin DOMAIN p2.client
    BY <1>3 DEF HearsClientSession, Tidy
  <1>5. \A x \in p2.shows : x \in DOMAIN p2.client /\ p2.client[x] = "answered"
    BY <1>3 DEF HearsClientSession, Tidy
  <1>6. p2.ws = "in" /\ p2.mute \subseteq p2.offering \cup p2.answering
    BY DEF HearsClientSession, KeepsHosts, KeepsWire, Tidy
  <1> QED
    BY <1>1, <1>2, <1>3, <1>4, <1>5, <1>6 DEF HearsClientSession, KeepsHosts, Tidy

LEMMA HearsOfferTidy ==
    ASSUME NEW p, NEW p2, NEW q, NEW q2, NEW w, NEW w2, NEW s \in SessionIds,
           Tidy(p, q, w), HearsOffer(p, p2, q, q2, w, w2, s)
    PROVE  Tidy(p2, q2, w2)
  <1>1. \A x : Unoffered(p, q, x) => Unoffered(p2, q2, x)
    BY DEF HearsOffer, KeepsHosts, Utters, Unoffered, OfferLike
  <1>2. Once(w2, "hostsession") /\ Once(w2, "clientsession") /\ InTurn(w2)
    BY DEF HearsOffer, Reads, Tidy
  <1>3. \A x : /\ Brings(w2, "hostsession", x) => Brings(w, "hostsession", x)
               /\ Brings(w2, "clientsession", x) => Brings(w, "clientsession", x)
    BY DEF HearsOffer, Reads, OfSessions
  <1>6. p2.ws = "in" /\ p2.mute \subseteq p2.offering \cup p2.answering
    BY DEF HearsOffer, KeepsHosts, KeepsWire, Tidy
  <1> QED
    BY <1>1, <1>2, <1>3, <1>6 DEF HearsOffer, KeepsHosts, Tidy

LEMMA HearsAnswerTidy ==
    ASSUME NEW p, NEW p2, NEW q, NEW q2, NEW w, NEW w2, NEW s \in SessionIds,
           Tidy(p, q, w), HearsAnswer(p, p2, q, q2, w, w2, s),
           ~(Holds(p, w, s) /\ Answers(p, q, w, s))
    PROVE  Tidy(p2, q2, w2)
  <1>1. \A x : Unoffered(p, q, x) => Unoffered(p2, q2, x)
    BY DEF HearsAnswer, Utters, Unoffered, OfferLike
  <1>2. Once(w2, "hostsession") /\ Once(w2, "clientsession") /\ InTurn(w2)
    BY DEF HearsAnswer, Reads, Tidy
  <1>3. /\ \A x : /\ Brings(w2, "hostsession", x) => Brings(w, "hostsession", x)
                  /\ Brings(w2, "clientsession", x) => Brings(w, "clientsession", x)
        /\ Brings(w, "client", s)
    BY DEF HearsAnswer, Reads, OfSessions
  <1>4. s \in DOMAIN p.host => p.stream
    BY <1>3 DEF Holds, Answers
  <1>5. \A x \in DOMAIN p2.host : p2.host[x] = "connected" => p2.stream
    BY <1>4 DEF HearsAnswer, Tidy
  <1>6. p2.ws = "in" /\ p2.mute \subseteq p2.offering \cup p2.answering
    BY DEF HearsAnswer, KeepsClients, KeepsWire, Tidy
  <1> QED
    BY <1>1, <1>2, <1>3, <1>5, <1>6 DEF HearsAnswer, KeepsClients, Tidy

(* The page takes part in no more sessions than before.                    *)
Narrows(p, p2, q, q2, w, w2) ==
    /\ \A s : /\ AtHost(p2, w2, s) => AtHost(p, w, s)
              /\ AtClient(p2, w2, s) => AtClient(p, w, s)
              /\ Holds(p2, w2, s) => Holds(p, w, s)
              /\ Answers(p2, q2, w2, s) => Answers(p, q, w, s)
              /\ Brings(w2, "endshare", s) => Brings(w, "endshare", s)
    /\ p2.ws # "closed" => p2.mute \subseteq p.mute

LEMMA IdlingNarrows ==
    ASSUME NEW p, NEW p2, NEW q, NEW q2, NEW w, NEW w2,
           Idling(p, p2, q, q2, w, w2)
    PROVE  Narrows(p, p2, q, q2, w, w2)
  <1>1. \A t \in OfSessions : \A x : Brings(w2, t, x) => Brings(w, t, x)
    BY DEF Idling, Untouched
  <1>2. \A x : Begs(q2, "clientanswer", x) = Begs(q, "clientanswer", x)
    BY DEF Idling, Utters, Proposes, OfferLike
  <1>3. \A x : AtHost(p2, w2, x) => AtHost(p, w, x)
    BY <1>1 DEF Idling, KeepsHosts, Reads, AtHost, OfSessions
  <1>4. \A x : AtClient(p2, w2, x) => AtClient(p, w, x)
    BY <1>1 DEF Idling, KeepsClients, Reads, AtClient, OfSessions
  <1>5. \A x : Holds(p2, w2, x) => Holds(p, w, x)
    BY <1>1 DEF Idling, KeepsHosts, Reads, Holds, OfSessions
  <1>6. \A x : Answers(p2, q2, w2, x) => Answers(p, q, w, x)
    BY <1>1, <1>2 DEF Idling, KeepsClients, Reads, Answers, OfSessions
  <1>7. \A x : Brings(w2, "endshare", x) => Brings(w, "endshare", x)
    BY <1>1 DEF OfSessions
  <1>8. p2.ws # "closed" => p2.mute \subseteq p.mute
    BY DEF Idling, KeepsWire
  <1> QED
    BY <1>3, <1>4, <1>5, <1>6, <1>7, <1>8 DEF Narrows

LEMMA StoppingNarrows ==
    ASSUME NEW p, NEW p2, NEW q, NEW q2, NEW w, NEW w2,
           Stopping(p, p2, q, q2, w, w2)
    PROVE  Narrows(p, p2, q, q2, w, w2)
  <1>1. \A t \in OfSessions : \A x : Brings(w2, t, x) => Brings(w, t, x)
    BY DEF Stopping, Untouched
  <1>2. \A x : Begs(q2, "clientanswer", x) = Begs(q, "clientanswer", x)
    BY DEF Stopping, Utters, Proposes, OfferLike
  <1>3. \A x : AtHost(p2, w2, x) => AtHost(p, w, x)
    BY <1>1 DEF Stopping, KeepsHosts, Reads, AtHost, OfSessions
  <1>4. \A x : AtClient(p2, w2, x) => AtClient(p, w, x)
    BY <1>1 DEF Stopping, KeepsClients, Reads, AtClient, OfSessions
  <1>5. \A x : Holds(p2, w2, x) => Holds(p, w, x)
    BY <1>1 DEF Stopping, KeepsHosts, Reads, Holds, OfSessions
  <1>6. \A x : Answers(p2, q2, w2, x) => Answers(p, q, w, x)
    BY <1>1, <1>2 DEF Stopping, KeepsClients, Reads, Answers, OfSessions
  <1>7. \A x : Brings(w2, "endshare", x) => Brings(w, "endshare", x)
    BY <1>1 DEF OfSessions
  <1>8. p2.ws # "closed" => p2.mute \subseteq p.mute
    BY DEF Stopping, KeepsWire
  <1> QED
    BY <1>3, <1>4, <1>5, <1>6, <1>7, <1>8 DEF Narrows

LEMMA EndsOneNarrows ==
    ASSUME NEW p, NEW p2, NEW q, NEW q2, NEW w, NEW w2, NEW s \in SessionIds,
           EndsOne(p, p2, q, q2, w, w2, s)
    PROVE  Narrows(p, p2, q, q2, w, w2)
  <1>1. \A t \in OfSessions : \A x : Brings(w2, t, x) => Brings(w, t, x)
    BY DEF EndsOne, Untouched, Reads
  <1>2. \A x : Begs(q2, "clientanswer", x) = Begs(q, "clientanswer", x)
    BY DEF EndsOne, Utters, Proposes, OfferLike
  <1>3. \A x : AtHost(p2, w2, x) => AtHost(p, w, x)
    BY <1>1 DEF EndsOne, KeepsHosts, Reads, AtHost, OfSessions
  <1>4. \A x : AtClient(p2, w2, x) => AtClient(p, w, x)
    BY <1>1 DEF EndsOne, KeepsClients, Reads, AtClient, OfSessions
  <1>5. \A x : Holds(p2, w2, x) => Holds(p, w, x)
    BY <1>1 DEF EndsOne, KeepsHosts, Reads, Holds, OfSessions
  <1>6. \A x : Answers(p2, q2, w2, x) => Answers(p, q, w, x)
    BY <1>1, <1>2 DEF EndsOne, KeepsClients, Reads, Answers, OfSessions
  <1>7. \A x : Brings(w2, "endshare", x) => Brings(w, "endshare", x)
    BY <1>1 DEF OfSessions
  <1>8. p2.ws # "closed" => p2.mute \subseteq p.mute
    BY DEF EndsOne, KeepsWire
  <1> QED
    BY <1>3, <1>4, <1>5, <1>6, <1>7, <1>8 DEF Narrows

LEMMA OffersOneNarrows ==
    ASSUME NEW p, NEW p2, NEW q, NEW q2, NEW w, NEW w2, NEW s \in SessionIds,
           OffersOne(p, p2, q, q2, w, w2, s)
    PROVE  Narrows(p, p2, q, q2, w, w2)
  <1>1. \A t \in OfSessions : \A x : Brings(w2, t, x) => Brings(w, t, x)
    BY DEF OffersOne, Untouched
  <1>2. \A x : Begs(q2, "clientanswer", x) = Begs(q, "clientanswer", x)
    BY DEF OffersOne, Utters, Proposes, OfferLike
  <1>3. \A x : AtHost(p2, w2, x) => AtHost(p, w, x)
    BY <1>1 DEF OffersOne, KeepsHosts, Reads, AtHost, OfSessions
  <1>4. \A x : AtClient(p2, w2, x) => AtClient(p, w, x)
    BY <1>1 DEF OffersOne, KeepsClients, Reads, AtClient, OfSessions
  <1>5. \A x : Holds(p2, w2, x) => Holds(p, w, x)
    BY <1>1 DEF OffersOne, KeepsHosts, Reads, Holds, OfSessions
  <1>6. \A x : Answers(p2, q2, w2, x) => Answers(p, q, w, x)
    BY <1>1, <1>2 DEF OffersOne, KeepsClients, Reads, Answers, OfSessions
  <1>7. \A x : Brings(w2, "endshare", x) => Brings(w, "endshare", x)
    BY <1>1 DEF OfSessions
  <1>8. p2.ws # "closed" => p2.mute \subseteq p.mute
    BY DEF OffersOne, KeepsWire
  <1> QED
    BY <1>3, <1>4, <1>5, <1>6, <1>7, <1>8 DEF Narrows

LEMMA HearsHostSessionNarrows ==
    ASSUME NEW p, NEW p2, NEW q, NEW q2, NEW w, NEW w2, NEW s \in SessionIds,
           HearsHostSession(p, p2, q, q2, w, w2, s)
    PROVE  Narrows(p, p2, q, q2, w, w2)
  <1>1. \A t \in OfSessions : \A x : Brings(w2, t, x) => Brings(w, t, x)
    BY DEF HearsHostSession, Reads
  <1>2. \A x : Begs(q2, "clientanswer", x) = Begs(q, "clientanswer", x)
    BY DEF HearsHostSession, Utters, Proposes, OfferLike
  <1>3. \A x : AtHost(p2, w2, x) => AtHost(p, w, x)
    BY <1>1 DEF HearsHostSession, KeepsHosts, Reads, AtHost, OfSessions
  <1>4. \A x : AtClient(p2, w2, x) => AtClient(p, w, x)
    BY <1>1 DEF HearsHostSession, KeepsClients, Reads, AtClient, OfSessions
  <1>5. \A x : Holds(p2, w2, x) => Holds(p, w, x)
    BY <1>1 DEF HearsHostSession, KeepsHosts, Reads, Holds, OfSessions
  <1>6. \A x : Answers(p2, q2, w2, x) => Answers(p, q, w, x)
    BY <1>1, <1>2 DEF HearsHostSession, KeepsClients, Reads, Answers, OfSessions
  <1>7. \A x : Brings(w2, "endshare", x) => Brings(w, "endshare", x)
    BY <1>1 DEF OfSessions
  <1>8. p2.ws # "closed" => p2.mute \subseteq p.mute
    BY DEF HearsHostSession, KeepsWire
  <1> QED
    BY <1>3, <1>4, <1>5, <1>6, <1>7, <1>8 DEF Narrows

LEMMA HearsClientSessionNarrows ==
    ASSUME NEW p, NEW p2, NEW q, NEW q2, NEW w, NEW w2, NEW s \in SessionIds,
           HearsClientSession(p, p2, q, q2, w, w2, s)
    PROVE  Narrows(p, p2, q, q2, w, w2)
  <1>1. \A t \in OfSessions : \A x : Brings(w2, t, x) => Brings(w, t, x)
    BY DEF HearsClientSession, Reads
  <1>2. \A x : Begs(q2, "clientanswer", x) = Begs(q, "clientanswer", x)
    BY DEF HearsClientSession, Utters, Proposes, OfferLike
  <1>3. \A x : AtHost(p2, w2, x) => AtHost(p, w, x)
    BY <1>1 DEF HearsClientSession, KeepsHosts, Reads, AtHost, OfSessions
  <1>4. \A x : AtClient(p2, w2, x) => AtClient(p, w, x)
    BY <1>1 DEF HearsClientSession, KeepsClients, Reads, AtClient, OfSessions
  <1>5. \A x : Holds(p2, w2, x) => Holds(p, w, x)
    BY <1>1 DEF HearsClientSession, KeepsHosts, Reads, Holds, OfSessions
  <1>6. \A x : Answers(p2, q2, w2, x) => Answers(p, q, w, x)
    BY <1>1, <1>2 DEF HearsClientSession, KeepsClients, Reads, Answers, OfSessions
  <1>7. \A x : Brings(w2, "endshare", x) => Brings(w, "endshare", x)
    BY <1>1 DEF OfSessions
  <1>8. p2.ws # "closed" => p2.mute \subseteq p.mute
    BY DEF HearsClientSession, KeepsWire
  <1> QED
    BY <1>3, <1>4, <1>5, <1>6, <1>7, <1>8 DEF Narrows

LEMMA HearsOfferNarrows ==
    ASSUME NEW p, NEW p2, NEW q, NEW q2, NEW w, NEW w2, NEW s \in SessionIds,
           HearsOffer(p, p2, q, q2, w, w2, s)
    PROVE  Narrows(p, p2, q, q2, w, w2)
  <1>1. \A t \in OfSessions : \A x : Brings(w2, t, x) => Brings(w, t, x)
    BY DEF HearsOffer, Reads
  <1>2. \A x : Begs(q2, "clientanswer", x) = Begs(q, "clientanswer", x)
    BY DEF HearsOffer, Utters, Proposes, OfferLike
  <1>3. \A x : AtHost(p2, w2, x) => AtHost(p, w, x)
    BY <1>1 DEF HearsOffer, KeepsHosts, Reads, AtHost, OfSessions
  <1>4. \A x : AtClient(p2, w2, x) => AtClient(p, w, x)
    BY <1>1 DEF HearsOffer, KeepsClients, Reads, AtClient, OfSessions
  <1>5. \A x : Holds(p2, w2, x) => Holds(p, w, x)
    BY <1>1 DEF HearsOffer, KeepsHosts, Reads, Holds, OfSessions
  <1>6. \A x : Answers(p2, q2, w2, x) => Answers(p, q, w, x)
    BY <1>1, <1>2 DEF HearsOffer, KeepsClients, Reads, Answers, OfSessions
  <1>7. \A x : Brings(w2, "endshare", x) => Brings(w, "endshare", x)
    BY <1>1 DEF OfSessions
  <1>8. p2.ws # "closed" => p2.mute \subseteq p.mute
    BY DEF HearsOffer, KeepsWire
  <1> QED
    BY <1>3, <1>4, <1>5, <1>6, <1>7, <1>8 DEF Narrows

LEMMA HearsAnswerNarrows ==
    ASSUME NEW p, NEW p2, NEW q, NEW q2, NEW w, NEW w2, NEW s \in SessionIds,
           HearsAnswer(p, p2, q, q2, w, w2, s)
    PROVE  Narrows(p, p2, q, q2, w, w2)
  <1>1. \A t \in OfSessions : \A x : Brings(w2, t, x) => Brings(w, t, x)
    BY DEF HearsAnswer, Reads
  <1>2. \A x : Begs(q2, "clientanswer", x) = Begs(q, "clientanswer", x)
    BY DEF HearsAnswer, Utters, Proposes, OfferLike
  <1>3. \A x : AtHost(p2, w2, x) => AtHost(p, w, x)
    BY <1>1 DEF HearsAnswer, KeepsHosts, Reads, AtHost, OfSessions
  <1>4. \A x : AtClient(p2, w2, x) => AtClient(p, w, x)
    BY <1>1 DEF HearsAnswer, KeepsClients, Reads, AtClient, OfSessions
  <1>5. \A x : Holds(p2, w2, x) => Holds(p, w, x)
    BY <1>1 DEF HearsAnswer, KeepsHosts, Reads, Holds, OfSessions
  <1>6. \A x : Answers(p2, q2, w2, x) => Answers(p, q, w, x)
    BY <1>1, <1>2 DEF HearsAnswer, KeepsClients, Reads, Answers, OfSessions
  <1>7. \A x : Brings(w2, "endshare", x) => Brings(w, "endshare", x)
    BY <1>1 DEF OfSessions
  <1>8. p2.ws # "closed" => p2.mute \subseteq p.mute
    BY DEF HearsAnswer, KeepsWire
  <1> QED
    BY <1>3, <1>4, <1>5, <1>6, <1>7, <1>8 DEF Narrows

LEMMA AnswersOneNarrows ==
    ASSUME NEW p, NEW p2, NEW q, NEW q2, NEW w, NEW w2, NEW s \in SessionIds,
           AnswersOne(p, p2, q, q2, w, w2, s)
    PROVE  Narrows(p, p2, q, q2, w, w2)
  <1>1. \A t \in OfSessions : \A x : Brings(w2, t, x) => Brings(w, t, x)
    BY DEF AnswersOne, Untouched
  <1>2. \A x : x # s => Begs(q2, "clientanswer", x) = Begs(q, "clientanswer", x)
    BY DEF AnswersOne, Utters, Proposes, OfferLike
  <1>3. \A x : AtHost(p2, w2, x) => AtHost(p, w, x)
    BY <1>1 DEF AnswersOne, KeepsHosts, Reads, AtHost, OfSessions
  <1>4. \A x : AtClient(p2, w2, x) => AtClient(p, w, x)
    BY <1>1 DEF AnswersOne, KeepsClients, Reads, AtClient, OfSessions
  <1>5. \A x : Holds(p2, w2, x) => Holds(p, w, x)
    BY <1>1 DEF AnswersOne, KeepsHosts, Reads, Holds, OfSessions
  <1>6. \A x : Answers(p2, q2, w2, x) => Answers(p, q, w, x)
    BY <1>1, <1>2 DEF AnswersOne, KeepsClients, Reads, Answers, OfSessions
  <1>7. \A x : Brings(w2, "endshare", x) => Brings(w, "endshare", x)
    BY <1>1 DEF OfSessions
  <1>8. p2.ws # "closed" => p2.mute \subseteq p.mute
    BY DEF AnswersOne, KeepsWire
  <1> QED
    BY <1>3, <1>4, <1>5, <1>6, <1>7, <1>8 DEF Narrows

LEMMA ShutsDownNarrows ==
    ASSUME NEW p, NEW p2, NEW q \in Seq(Up), NEW q2 \in Seq(Up), NEW w, NEW w2,
           ShutsDown(p, p2, q, q2, w, w2)
    PROVE  Narrows(p, p2, q, q2, w, w2)
  <1>1. \A t \in OfSessions : \A x : Brings(w2, t, x) => Brings(w, t, x)
    BY BringsNothing DEF ShutsDown
  <1>2. \A x : Begs(q2, "clientanswer", x) \subseteq Begs(q, "clientanswer", x)
    <2>1. PICK t \in OfferLike : t = "clientanswer"
      BY DEF OfferLike
    <2>2. \A x : Begs(q2, t, x) \subseteq Begs(q, t, x)
      BY ShedsBegs DEF ShutsDown, OfferLike
    <2> QED
      BY <2>1, <2>2
  <1>3. \A x : AtHost(p2, w2, x) => AtHost(p, w, x)
    BY <1>1 DEF ShutsDown, KeepsHosts, Reads, AtHost, OfSessions
  <1>4. \A x : AtClient(p2, w2, x) => AtClient(p, w, x)
    BY <1>1 DEF ShutsDown, KeepsClients, Reads, AtClient, OfSessions
  <1>5. \A x : Holds(p2, w2, x) => Holds(p, w, x)
    BY <1>1 DEF ShutsDown, KeepsHosts, Reads, Holds, OfSessions
  <1>6. \A x : Answers(p2, q2, w2, x) => Answers(p, q, w, x)
    BY <1>1, <1>2 DEF ShutsDown, KeepsClients, Reads, Answers, OfSessions
  <1>7. \A x : Brings(w2, "endshare", x) => Brings(w, "endshare", x)
    BY <1>1 DEF OfSessions
  <1>8. p2.ws # "closed" => p2.mute \subseteq p.mute
    BY DEF ShutsDown, KeepsWire
  <1> QED
    BY <1>3, <1>4, <1>5, <1>6, <1>7, <1>8 DEF Narrows

(* What the page does to its sessions, but for an offer that is ready and  *)
(* the ends of one session or of them all.                                 *)
Tends(p, p2, q, q2, w, w2, y) ==
    \/ Idling(p, p2, q, q2, w, w2) \/ Stopping(p, p2, q, q2, w, w2)
    \/ /\ y \in SessionIds
       /\ \/ AnswersOne(p, p2, q, q2, w, w2, y) \/ HearsHostSession(p, p2, q, q2, w, w2, y)
          \/ HearsClientSession(p, p2, q, q2, w, w2, y) \/ HearsOffer(p, p2, q, q2, w, w2, y)
          \/ HearsAnswer(p, p2, q, q2, w, w2, y)

(* An offer of session s by a page that captures nothing comes late.       *)
Confesses(p, q, s) ==
    s \in DOMAIN p.host /\ ~p.stream =>
        \A j \in Begs(q, "hostoffer", s) : \E i \in Asks(q, "stopshare") : i < j

LEMMA TendsConfesses ==
    ASSUME NEW p, NEW p2, NEW q, NEW q2, NEW w, NEW w2, NEW s, NEW y,
           Confesses(p, q, s),
           Tends(p, p2, q, q2, w, w2, y) \/ EndsOne(p, p2, q, q2, w, w2, y)
    PROVE  Confesses(p2, q2, s)
  <1>1. DOMAIN p2.host \subseteq DOMAIN p.host
    BY DEF Tends, Idling, Stopping, AnswersOne, EndsOne, HearsHostSession, HearsClientSession,
           HearsOffer, HearsAnswer, KeepsHosts
  <1>2. s \in DOMAIN p2.host /\ p.stream => p2.stream
    BY DEF Tends, Idling, Stopping, AnswersOne, EndsOne, HearsHostSession, HearsClientSession,
           HearsOffer, HearsAnswer, KeepsHosts
  <1>3. Begs(q2, "hostoffer", s) = Begs(q, "hostoffer", s)
    BY DEF Tends, Idling, Stopping, AnswersOne, EndsOne, HearsHostSession, HearsClientSession,
           HearsOffer, HearsAnswer, Utters, Proposes, OfferLike
  <1>4. Asks(q, "stopshare") \subseteq Asks(q2, "stopshare")
    BY DEF Tends, Idling, Stopping, AnswersOne, EndsOne, HearsHostSession, HearsClientSession,
           HearsOffer, HearsAnswer, Utters, Proposes, OfferLike
  <1> QED
    BY <1>1, <1>2, <1>3, <1>4 DEF Confesses

LEMMA ShutsDownConfesses ==
    ASSUME NEW p, NEW p2, NEW q \in Seq(Up), NEW q2 \in Seq(Up), NEW w, NEW w2, NEW s,
           Confesses(p, q, s), ShutsDown(p, p2, q, q2, w, w2)
    PROVE  Confesses(p2, q2, s)
  <1> SUFFICES ASSUME s \in DOMAIN p2.host, ~p2.stream, NEW j \in Begs(q2, "hostoffer", s)
               PROVE  \E i \in Asks(q2, "stopshare") : i < j
    BY DEF Confesses
  <1>1. s \in DOMAIN p.host /\ ~p.stream
    BY DEF ShutsDown
  <1>2. PICK t \in OfferLike : t = "hostoffer"
    BY DEF OfferLike
  <1>3. /\ Begs(q2, t, s) \subseteq Begs(q, t, s)
        /\ \A x \in Begs(q2, t, s) : \A i \in Asks(q, "stopshare") :
              i < x => i \in Asks(q2, "stopshare")
    BY ShedsBegs DEF ShutsDown, OfferLike
  <1>4. PICK i \in Asks(q, "stopshare") : i < j
    BY <1>1, <1>2, <1>3 DEF Confesses
  <1> QED
    BY <1>2, <1>3, <1>4

LEMMA OffersOneConfesses ==
    ASSUME NEW p, NEW p2, NEW q \in Seq(Up), NEW q2, NEW w, NEW w2, NEW s, NEW y,
           Confesses(p, q, s), OffersOne(p, p2, q, q2, w, w2, y),
           s = y => /\ Unoffered(p, q, s)
                    /\ OpenPage(p) => p.stream \/ Asks(q, "stopshare") # {}
    PROVE  Confesses(p2, q2, s)
  <1> SUFFICES ASSUME s \in DOMAIN p2.host, ~p2.stream, NEW j \in Begs(q2, "hostoffer", s)
               PROVE  \E i \in Asks(q2, "stopshare") : i < j
    BY DEF Confesses
  <1>1. ~p.stream /\ Asks(q, "stopshare") \subseteq Asks(q2, "stopshare")
    BY DEF OffersOne, Utters, Proposes
  <1>2. CASE s # y
    <2>1. s \in DOMAIN p.host /\ Begs(q2, "hostoffer", s) = Begs(q, "hostoffer", s)
      BY <1>2 DEF OffersOne, Utters, Proposes, OfferLike
    <2> QED
      BY <1>1, <2>1 DEF Confesses
  <1>3. CASE s = y
    <2>1. Begs(q, "hostoffer", s) = {}
      BY <1>3 DEF Unoffered
    <2>2. /\ Begs(q2, "hostoffer", s) = Begs(q, "hostoffer", s) \cup {Len(q) + 1}
          /\ OpenPage(p)
      BY <1>3, <2>1 DEF OffersOne, Utters, Proposes, OfferLike
    <2>3. j = Len(q) + 1
      BY <2>1, <2>2
    <2>4. PICK i \in Asks(q, "stopshare") : TRUE
      BY <1>1, <1>3, <2>2
    <2>5. i < Len(q) + 1
      BY BegsAppend
    <2> QED
      BY <1>1, <2>3, <2>4, <2>5
  <1> QED
    BY <1>2, <1>3

(* The host p of session s goes on with it, or stops to share.             *)
HostGoesOn(p, p2, q, q2, w, w2, s) ==
    \/ Asks(q2, "stopshare") # {}
    \/ /\ s \in DOMAIN p.host => s \in DOMAIN p2.host
       /\ Begs(q, "hostoffer", s) \subseteq Begs(q2, "hostoffer", s)
       /\ Brings(w2, "client", s) => Brings(w, "client", s)
       /\ s \in DOMAIN p2.host /\ p2.host[s] # "offered" =>
             Brings(w, "client", s) \/ (s \in DOMAIN p.host /\ p.host[s] # "offered")
       /\ s \in DOMAIN p.host /\ (Brings(w, "client", s) \/ p.host[s] = "connected") =>
             Brings(w2, "client", s) \/ p2.host[s] = "connected"
       /\ Brings(w, "hostsession", s) \/ s \in p.offering =>
             \/ Brings(w2, "hostsession", s) \/ s \in p2.offering
             \/ s \in DOMAIN p2.host /\ Begs(q2, "hostoffer", s) # {}

(* So does its client.                                                     *)
Knows(p, w, s) == Brings(w, "clientsession", s) \/ s \in DOMAIN p.client
Ready(p, w, s) == Brings(w, "host", s) \/ (s \in p.answering /\ s \in DOMAIN p.client)
ClientGoesOn(p, p2, q, q2, w, w2, s) ==
    /\ s \in p.shows => s \in p2.shows
    /\ Begs(q, "clientanswer", s) \subseteq Begs(q2, "clientanswer", s)
    /\ \/ s \in p.answering /\ s \in p2.shows /\ Begs(q2, "clientanswer", s) # {}
       \/ /\ Begs(q2, "clientanswer", s) = Begs(q, "clientanswer", s)
          /\ s \in DOMAIN p2.client /\ p2.client[s] # "new" =>
                s \in DOMAIN p.client /\ p.client[s] # "new"
          /\ Knows(p, w, s) => Knows(p2, w2, s)
          /\ Knows(p, w, s) /\ Ready(p, w, s) => Ready(p2, w2, s)

LEMMA TendsHost ==
    ASSUME NEW p, NEW p2, NEW q, NEW q2, NEW w, NEW w2, NEW s, NEW y,
           \/ Tends(p, p2, q, q2, w, w2, y)
           \/ EndsOne(p, p2, q, q2, w, w2, y) /\ s # y,
           OpenPage(p),
           p.stream \/ Asks(q, "stopshare") # {}
    PROVE  HostGoesOn(p, p2, q, q2, w, w2, s)
  <1>1. CASE Idling(p, p2, q, q2, w, w2)
    BY <1>1 DEF Idling, KeepsHosts, Untouched, Utters, OfferLike, OfSessions, HostGoesOn
  <1>2. CASE Stopping(p, p2, q, q2, w, w2)
    BY <1>2 DEF Stopping, HostGoesOn
  <1>3. CASE AnswersOne(p, p2, q, q2, w, w2, y)
    <2>1. Begs(q2, "hostoffer", s) = Begs(q, "hostoffer", s)
      BY <1>3 DEF AnswersOne, Utters, Proposes, OfferLike
    <2> QED
      BY <1>3, <2>1 DEF AnswersOne, KeepsHosts, Untouched, OfSessions, HostGoesOn
  <1>4. CASE EndsOne(p, p2, q, q2, w, w2, y) /\ s # y
    <2>1. /\ Brings(w2, "hostsession", s) <=> Brings(w, "hostsession", s)
          /\ Brings(w2, "client", s) <=> Brings(w, "client", s)
      BY <1>4 DEF EndsOne, Untouched, Reads, OfSessions
    <2> QED
      BY <1>4, <2>1 DEF EndsOne, Utters, OfferLike, HostGoesOn
  <1>5. CASE HearsHostSession(p, p2, q, q2, w, w2, y)
    <2>1. Asks(q, "stopshare") \subseteq Asks(q2, "stopshare")
      BY <1>5 DEF HearsHostSession, Utters
    <2>2. CASE Asks(q, "stopshare") # {}
      BY <2>1, <2>2 DEF HostGoesOn
    <2>3. CASE p.stream
      <3>1. Brings(w2, "client", s) <=> Brings(w, "client", s)
        BY <1>5 DEF HearsHostSession, Reads, OfSessions
      <3>2. Brings(w, "hostsession", s) => Brings(w2, "hostsession", s) \/ s = y
        BY <1>5 DEF HearsHostSession, Reads, OfSessions
      <3> QED
        BY <1>5, <2>3, <3>1, <3>2 DEF HearsHostSession, Utters, OfferLike, HostGoesOn
    <2> QED
      BY <2>2, <2>3
  <1>6. CASE HearsClientSession(p, p2, q, q2, w, w2, y)
    BY <1>6 DEF HearsClientSession, KeepsHosts, Reads, Utters, OfferLike, OfSessions, HostGoesOn
  <1>7. CASE HearsOffer(p, p2, q, q2, w, w2, y)
    BY <1>7 DEF HearsOffer, KeepsHosts, Reads, Utters, OfferLike, OfSessions, HostGoesOn
  <1>8. CASE HearsAnswer(p, p2, q, q2, w, w2, y)
    <2>1. Brings(w2, "hostsession", s) <=> Brings(w, "hostsession", s)
      BY <1>8 DEF HearsAnswer, Reads, OfSessions
    <2>2. /\ Brings(w2, "client", s) => Brings(w, "client", s)
          /\ Brings(w, "client", s) => Brings(w2, "client", s) \/ s = y
          /\ Brings(w, "client", y)
      BY <1>8 DEF HearsAnswer, Reads, OfSessions
    <2> QED
      BY <1>8, <2>1, <2>2 DEF HearsAnswer, Utters, OfferLike, HostGoesOn
  <1> QED
    BY <1>1, <1>2, <1>3, <1>4, <1>5, <1>6, <1>7, <1>8 DEF Tends

LEMMA OffersOneHost ==
    ASSUME NEW p, NEW p2, NEW q, NEW q2, NEW w, NEW w2, NEW s, NEW y,
           OffersOne(p, p2, q, q2, w, w2, y), OpenPage(p), s \notin p.mute,
           s = y => Unoffered(p, q, s)
    PROVE  HostGoesOn(p, p2, q, q2, w, w2, s)
  <1>1. /\ Brings(w2, "hostsession", s) <=> Brings(w, "hostsession", s)
        /\ Brings(w2, "client", s) <=> Brings(w, "client", s)
    BY DEF OffersOne, Untouched, OfSessions
  <1>2. CASE s # y
    <2>1. Begs(q2, "hostoffer", s) = Begs(q, "hostoffer", s)
      BY <1>2 DEF OffersOne, Utters, Proposes, OfferLike
    <2> QED
      BY <1>1, <1>2, <2>1 DEF OffersOne, HostGoesOn
  <1>3. CASE s = y
    <2>1. s \notin DOMAIN p.host /\ Begs(q, "hostoffer", s) = {}
      BY <1>3 DEF Unoffered
    <2>2. Begs(q2, "hostoffer", s) = Begs(q, "hostoffer", s) \cup {Len(q) + 1}
      BY <1>3 DEF OffersOne, Proposes
    <2>3. Begs(q2, "hostoffer", s) # {}
      BY <2>2
    <2> QED
      BY <1>1, <1>3, <2>1, <2>3 DEF OffersOne, HostGoesOn
  <1> QED
    BY <1>2, <1>3

LEMMA TendsClient ==
    ASSUME NEW p, NEW p2, NEW q, NEW q2, NEW w, NEW w2, NEW s, NEW y,
           \/ Tends(p, p2, q, q2, w, w2, y)
           \/ OffersOne(p, p2, q, q2, w, w2, y)
           \/ EndsOne(p, p2, q, q2, w, w2, y) /\ s # y,
           OpenPage(p), s \notin p.mute, InTurn(w), p.ws # "in" => p.answering \subseteq p.mute
    PROVE  ClientGoesOn(p, p2, q, q2, w, w2, s)
  <1>1. CASE Idling(p, p2, q, q2, w, w2)
    BY <1>1 DEF Idling, KeepsClients, Untouched, Utters, OfferLike, OfSessions, ClientGoesOn, Knows,
                Ready
  <1>2. CASE Stopping(p, p2, q, q2, w, w2)
    BY <1>2 DEF Stopping, KeepsClients, Untouched, Utters, OfferLike, OfSessions, ClientGoesOn,
                Knows, Ready
  <1>3. CASE AnswersOne(p, p2, q, q2, w, w2, y)
    <2>1. /\ Brings(w2, "host", s) <=> Brings(w, "host", s)
          /\ Brings(w2, "clientsession", s) <=> Brings(w, "clientsession", s)
      BY <1>3 DEF AnswersOne, Untouched, OfSessions
    <2>2. CASE s # y
      <3>1. Begs(q2, "clientanswer", s) = Begs(q, "clientanswer", s)
        BY <1>3, <2>2 DEF AnswersOne, Utters, Proposes, OfferLike
      <3> QED
        BY <1>3, <2>1, <2>2, <3>1 DEF AnswersOne, ClientGoesOn, Knows, Ready
    <2>3. CASE s = y /\ s \notin DOMAIN p.client
      <3>1. Begs(q2, "clientanswer", s) = Begs(q, "clientanswer", s)
        BY <1>3, <2>3 DEF AnswersOne, Utters, OfferLike
      <3> QED
        BY <1>3, <2>1, <2>3, <3>1 DEF AnswersOne, ClientGoesOn, Knows, Ready
    <2>4. CASE s = y /\ s \in DOMAIN p.client
      <3>1. p.ws = "in" /\ s \in p.answering
        BY <1>3, <2>4 DEF AnswersOne
      <3>2. Begs(q2, "clientanswer", s) = Begs(q, "clientanswer", s) \cup {Len(q) + 1}
        BY <1>3, <2>4 DEF AnswersOne, Proposes
      <3>3. s \in p2.shows
        BY <1>3, <2>4, <3>1 DEF AnswersOne
      <3>4. /\ Begs(q, "clientanswer", s) \subseteq Begs(q2, "clientanswer", s)
            /\ Begs(q2, "clientanswer", s) # {}
        BY <3>2
      <3> QED
        BY <3>1, <3>3, <3>4 DEF ClientGoesOn
    <2> QED
      BY <2>2, <2>3, <2>4
  <1>4. CASE EndsOne(p, p2, q, q2, w, w2, y) /\ s # y
    <2>1. /\ Brings(w2, "host", s) <=> Brings(w, "host", s)
          /\ Brings(w2, "clientsession", s) <=> Brings(w, "clientsession", s)
      BY <1>4 DEF EndsOne, Untouched, Reads, OfSessions
    <2> QED
      BY <1>4, <2>1 DEF EndsOne, Utters, OfferLike, ClientGoesOn, Knows, Ready
  <1>5. CASE HearsHostSession(p, p2, q, q2, w, w2, y)
    BY <1>5 DEF HearsHostSession, KeepsClients, Reads, Utters, OfferLike, OfSessions, ClientGoesOn,
                Knows, Ready
  <1>6. CASE HearsClientSession(p, p2, q, q2, w, w2, y)
    <2>1. /\ Brings(w2, "host", s) <=> Brings(w, "host", s)
          /\ Brings(w, "clientsession", s) => Brings(w2, "clientsession", s) \/ s = y
      BY <1>6 DEF HearsClientSession, Reads, OfSessions
    <2> QED
      BY <1>6, <2>1 DEF HearsClientSession, Utters, OfferLike, ClientGoesOn, Knows, Ready
  <1>7. CASE HearsOffer(p, p2, q, q2, w, w2, y)
    <2>1. /\ Brings(w, "host", s) => Brings(w2, "host", s) \/ s = y
          /\ Brings(w2, "clientsession", s) <=> Brings(w, "clientsession", s)
          /\ ~Brings(w, "clientsession", y)
      BY <1>7 DEF HearsOffer, Reads, OfSessions
    <2> QED
      BY <1>7, <2>1 DEF HearsOffer, Utters, OfferLike, ClientGoesOn, Knows, Ready
  <1>8. CASE HearsAnswer(p, p2, q, q2, w, w2, y)
    BY <1>8 DEF HearsAnswer, KeepsClients, Reads, Utters, OfferLike, OfSessions, ClientGoesOn,
                Knows, Ready
  <1>9. CASE OffersOne(p, p2, q, q2, w, w2, y)
    <2>1. Begs(q2, "clientanswer", s) = Begs(q, "clientanswer", s)
      BY <1>9 DEF OffersOne, Utters, Proposes, OfferLike
    <2> QED
      BY <1>9, <2>1 DEF OffersOne, KeepsClients, Untouched, OfSessions, ClientGoesOn, Knows, Ready
  <1> QED
    BY <1>1, <1>2, <1>3, <1>4, <1>5, <1>6, <1>7, <1>8, <1>9 DEF Tends
-----------------------------------------------------------------------------
(* Each thing that a page does is one of these *)

(* What a page does is one of these.                                       *)
Does(c) ==
    \/ ShutsDown(page[c], page'[c], uplink[c], uplink'[c], downlink[c], downlink'[c])
    \/ \E y : Tends(page[c], page'[c], uplink[c], uplink'[c], downlink[c], downlink'[c], y)
    \/ \E y \in SessionIds :
          OffersOne(page[c], page'[c], uplink[c], uplink'[c], downlink[c], downlink'[c], y)
    \/ \E y \in SessionIds :
          /\ EndsOne(page[c], page'[c], uplink[c], uplink'[c], downlink[c], downlink'[c], y)
          /\ PeerLost(c, y) \/ y \in page'[c].lost \/ Brings(downlink[c], "endshare", y)

LEMMA PageBecomes ==
    ASSUME PagesTypeOK, NEW c \in Clients, NEW v, page' = [page EXCEPT ![c] = v]
    PROVE  page'[c] = v
  BY DEF PagesTypeOK

LEMMA SaysOnce ==
    ASSUME PagesTypeOK, NEW c \in Clients, NEW m \in Up, Send(c, <<m>>)
    PROVE  /\ m.type \notin OfferLike => Utters(uplink[c], uplink'[c])
           /\ ~IsOpen(c) => Utters(uplink[c], uplink'[c])
           /\ IsOpen(c) /\ m.type \in OfferLike => Proposes(uplink[c], uplink'[c], m.type, m.id)
  <1>1. PICK q \in Seq(Up) : q = uplink[c]
    BY Typed
  <1>2. uplink'[c] = Append(q, m) \/ (~IsOpen(c) /\ uplink'[c] = q)
    BY <1>1, SendIs
  <1>3. IsOpen(c) => uplink'[c] = Append(q, m)
    BY <1>1, SendIs
  <1>4. /\ Utters(q, q)
        /\ m.type \notin OfferLike => Utters(q, Append(q, m))
        /\ m.type \in OfferLike => Proposes(q, Append(q, m), m.type, m.id)
    BY WireUtters
  <1>5. ~IsOpen(c) => uplink'[c] = q
    BY <1>1, SendIs
  <1> QED
    BY <1>1, <1>2, <1>3, <1>4, <1>5

(* Nothing happens to its sessions.                                        *)
LEMMA IdlesDoes ==
    ASSUME NEW c,
           /\ page'[c].offering = page[c].offering /\ page'[c].answering = page[c].answering
           /\ page'[c].host = page[c].host /\ page'[c].client = page[c].client
           /\ page'[c].shows = page[c].shows /\ page'[c].mute = page[c].mute,
           page[c].stream => page'[c].stream, page[c].ws = "in" => page'[c].ws = "in",
           Utters(uplink[c], uplink'[c]), Untouched(downlink[c], downlink'[c])
    PROVE  Does(c)
  BY DEF Does, Tends, Idling, KeepsHosts, KeepsClients, KeepsWire

LEMMA EnterDoes ==
    ASSUME PagesTypeOK, NEW c \in Clients, Enter(c)
    PROVE  Does(c)
  <1>1. page' = [page EXCEPT ![c] = [page[c] EXCEPT !.ws = "connecting"]]
    BY DEF Enter
  <1>2. page'[c] = [page[c] EXCEPT !.ws = "connecting"]
    BY <1>1, PageBecomes
  <1>3. uplink'[c] = uplink[c] /\ downlink'[c] = downlink[c] /\ page[c].ws = "closed"
    BY DEF Enter, wires
  <1>4. Utters(uplink[c], uplink'[c]) /\ Untouched(downlink[c], downlink'[c])
    BY <1>3, Typed, WireUtters, WireWaits
  <1>5. page[c] \in Page
    BY Typed
  <1> QED
    BY <1>2, <1>3, <1>4, <1>5, IdlesDoes DEF Page

LEMMA onopenDoes ==
    ASSUME PagesTypeOK, NEW c \in Clients, onopen(c), Link(c)
    PROVE  Does(c)
  <1>1. page' = [page EXCEPT ![c] = [page[c] EXCEPT !.ws = "open"]]
    BY DEF onopen
  <1>2. page'[c] = [page[c] EXCEPT !.ws = "open"]
    BY <1>1, PageBecomes
  <1>3. PICK request \in Requests :
           uplink' = [uplink EXCEPT ![c] = <<Msg("connected"), request>>]
    BY DEF onopen
  <1>4. uplink[c] = << >> /\ page[c].ws = "connecting"
    BY DEF onopen, Link, Dialling
  <1>5. uplink'[c] = <<Msg("connected"), request>>
    BY <1>3 DEF PagesTypeOK
  <1>6. Msg("connected").type \notin OfferLike /\ request.type \notin OfferLike
    BY DEF Requests, Msg, OfferLike
  <1>7. Utters(uplink[c], uplink'[c])
    BY <1>4, <1>5, <1>6, Typed, WireUtters
  <1>8. downlink'[c] = downlink[c]
    BY DEF onopen
  <1>9. Untouched(downlink[c], downlink'[c])
    BY <1>8, WireWaits
  <1>10. page[c] \in Page
    BY Typed
  <1> QED
    BY <1>2, <1>4, <1>7, <1>9, <1>10, IdlesDoes DEF Page

LEMMA shareDoes ==
    ASSUME PagesTypeOK, NEW c \in Clients, share(c) \/ PickCancelled(c)
    PROVE  Does(c)
  <1>1. PICK b \in BOOLEAN : page' = [page EXCEPT ![c] = [page[c] EXCEPT !.picking = b]]
    BY DEF share, PickCancelled
  <1>2. page'[c] = [page[c] EXCEPT !.picking = b]
    BY <1>1, PageBecomes
  <1>3. uplink'[c] = uplink[c] /\ downlink'[c] = downlink[c]
    BY DEF share, PickCancelled, wires
  <1>4. Utters(uplink[c], uplink'[c]) /\ Untouched(downlink[c], downlink'[c])
    BY <1>3, Typed, WireUtters, WireWaits
  <1>5. page[c] \in Page
    BY Typed
  <1> QED
    BY <1>2, <1>4, <1>5, IdlesDoes DEF Page

LEMMA CapturedDoes ==
    ASSUME PagesTypeOK, NEW c \in Clients, Captured(c)
    PROVE  Does(c)
  <1>1. page' = [page EXCEPT ![c] = [page[c] EXCEPT !.picking = FALSE, !.stream = TRUE,
                                                    !.shown = page[c].ws = "in"]]
    BY DEF Captured
  <1>2. page'[c] = [page[c] EXCEPT !.picking = FALSE, !.stream = TRUE, !.shown = page[c].ws = "in"]
    BY <1>1, PageBecomes
  <1>3. Msg("share") \in Up /\ Msg("share").type = "share" /\ Send(c, <<Msg("share")>>)
    BY UpType DEF Captured
  <1>4. Utters(uplink[c], uplink'[c])
    BY <1>3, SaysOnce DEF OfferLike
  <1>5. downlink'[c] = downlink[c]
    BY DEF Captured
  <1>6. Untouched(downlink[c], downlink'[c])
    BY <1>5, WireWaits
  <1>7. page[c] \in Page
    BY Typed
  <1>8. page'[c].stream
    BY <1>2, <1>7 DEF Page
  <1>9. /\ page'[c].offering = page[c].offering /\ page'[c].answering = page[c].answering
        /\ page'[c].host = page[c].host /\ page'[c].client = page[c].client
        /\ page'[c].shows = page[c].shows /\ page'[c].mute = page[c].mute
        /\ page'[c].ws = page[c].ws
    BY <1>2, <1>7 DEF Page
  <1> QED
    BY <1>4, <1>6, <1>8, <1>9, IdlesDoes

LEMMA AskingDoes ==
    ASSUME PagesTypeOK, NEW c \in Clients, setName(c) \/ ownerAction(c)
    PROVE  Does(c)
  <1>1. PICK m \in Up : Send(c, <<m>>) /\ m.type \notin OfferLike
    <2>1. CASE setName(c)
      BY <2>1, UpType DEF setName, OfferLike
    <2>2. CASE ownerAction(c)
      <3>1. PICK m \in ForEveryone \cup UNION {ForUser(c, d) : d \in DOMAIN page[c].room \ {c}} :
               Send(c, <<m>>)
        BY <2>2 DEF ownerAction
      <3>2. CASE m \in ForEveryone
        <4>1. PICK a \in {"enable_all", "disable_all"} : m = Msg(a)
          BY <3>2 DEF ForEveryone
        <4> QED
          BY <3>1, <4>1, UpType DEF OfferLike
      <3>3. ASSUME NEW d \in DOMAIN page[c].room, m \in ForUser(c, d)
            PROVE  m \in Up /\ m.type \notin OfferLike
        <4>1. PICK a \in OwnerActions : m = TargetMsg(a, d)
          BY <3>3 DEF ForUser
        <4>2. d \in Clients
          BY Typed, PageIs, PartialFnIs DEF Users
        <4> QED
          BY <4>1, <4>2, UpType, PagesAssumption DEF OfferLike
      <3> QED
        BY <3>1, <3>2, <3>3
    <2> QED
      BY <2>1, <2>2
  <1>2. page' = page /\ downlink' = downlink
    BY DEF setName, ownerAction
  <1>3. Utters(uplink[c], uplink'[c])
    BY <1>1, SaysOnce
  <1>4. Untouched(downlink[c], downlink'[c])
    BY <1>2, WireWaits
  <1> QED
    BY <1>2, <1>3, <1>4, IdlesDoes

LEMMA stopShareDoes ==
    ASSUME PagesTypeOK, NEW c \in Clients, stopShare(c)
    PROVE  Does(c)
  <1>1. page' = [page EXCEPT ![c] = StopStream(page[c])] /\ downlink' = downlink
        /\ Send(c, <<Msg("stopshare")>>)
    BY DEF stopShare
  <1>2. page'[c] = StopStream(page[c])
    BY <1>1, PageBecomes
  <1>3. Msg("stopshare") \in Up /\ Msg("stopshare").type = "stopshare"
    BY UpType
  <1>4. Utters(uplink[c], uplink'[c])
    BY <1>1, <1>3, SaysOnce DEF OfferLike
  <1>5. Untouched(downlink[c], downlink'[c])
    BY <1>1, WireWaits
  <1>6. IsOpen(c) => Asks(uplink'[c], "stopshare") # {}
    <2>1. PICK q \in Seq(Up) : q = uplink[c]
      BY Typed
    <2>2. IsOpen(c) => uplink'[c] = Append(q, Msg("stopshare"))
      BY <1>1, <1>3, <2>1, SendIs
    <2>3. PICK t, m : t = "stopshare" /\ m = Msg("stopshare") /\ m.type = t
      BY <1>3
    <2>4. Asks(Append(q, m), t) = Asks(q, t) \cup {Len(q) + 1}
      BY <2>3, AsksAppend
    <2>5. Asks(Append(q, m), t) # {}
      BY <2>4
    <2> QED
      BY <2>2, <2>3, <2>5
  <1>7. page[c] \in Page
    BY Typed
  <1>8. /\ page'[c].offering = page[c].offering /\ page'[c].answering = page[c].answering
        /\ page'[c].host = EmptyMap /\ page'[c].client = page[c].client
        /\ page'[c].shows = page[c].shows /\ page'[c].mute = page[c].mute
        /\ page'[c].ws = page[c].ws
    BY <1>2, <1>7 DEF Page, StopStream
  <1>9. DOMAIN page'[c].host = {}
    BY <1>8, EmptyType
  <1>10. IsOpen(c) <=> OpenPage(page[c])
    BY DEF IsOpen, OpenPage
  <1>11. Stopping(page[c], page'[c], uplink[c], uplink'[c], downlink[c], downlink'[c])
    BY <1>4, <1>5, <1>6, <1>8, <1>9, <1>10 DEF Stopping, KeepsClients, KeepsWire
  <1> QED
    BY <1>11 DEF Does, Tends

LEMMA OfferReadyDoes ==
    ASSUME PagesTypeOK, NEW c \in Clients, NEW s \in SessionIds, OfferReady(c, s)
    PROVE  Does(c)
  <1>1. page[c] \in Page
    BY Typed
  <1>2. page' = [page EXCEPT ![c] = [page[c] EXCEPT !.offering = @ \ {s}, !.mute = @ \ {s},
                                                    !.host = Assign(@, s, "offered")]]
    BY DEF OfferReady
  <1>3. page'[c] = [page[c] EXCEPT !.offering = @ \ {s}, !.mute = @ \ {s},
                                   !.host = Assign(@, s, "offered")]
    BY <1>2, PageBecomes
  <1>4. /\ page'[c].offering = page[c].offering \ {s} /\ page'[c].answering = page[c].answering
        /\ page'[c].host = Assign(page[c].host, s, "offered") /\ page'[c].client = page[c].client
        /\ page'[c].shows = page[c].shows /\ page'[c].mute = page[c].mute \ {s}
        /\ page'[c].ws = page[c].ws /\ page'[c].stream = page[c].stream
    BY <1>1, <1>3 DEF Page
  <1>5. PICK h, h2 : h = page[c].host /\ h2 = Assign(h, s, "offered")
    OBVIOUS
  <1>6. /\ DOMAIN h2 = DOMAIN h \cup {s} /\ h2[s] = "offered"
        /\ \A x \in DOMAIN h \ {s} : h2[x] = h[x]
    BY <1>5 DEF Assign
  <1>7. downlink' = downlink /\ s \in page[c].offering
    BY DEF OfferReady
  <1>8. Untouched(downlink[c], downlink'[c])
    BY <1>7, WireWaits
  <1>9. \/ Utters(uplink[c], uplink'[c]) /\ (s \in page[c].mute \/ ~OpenPage(page[c]))
        \/ /\ Proposes(uplink[c], uplink'[c], "hostoffer", s)
           /\ s \notin page[c].mute /\ OpenPage(page[c])
    <2>1. CASE s \in page[c].mute
      <3>1. uplink' = uplink
        BY <2>1 DEF OfferReady
      <3> QED
        BY <2>1, <3>1, Typed, WireUtters
    <2>2. CASE s \notin page[c].mute
      <3>1. PICK m \in Up : m = SessionMsg("hostoffer", s) /\ m.type = "hostoffer" /\ m.id = s
        BY UpType DEF SessionMsg
      <3>2. Send(c, <<m>>)
        BY <2>2, <3>1 DEF OfferReady
      <3>3. IsOpen(c) <=> OpenPage(page[c])
        BY DEF IsOpen, OpenPage
      <3> QED
        BY <2>2, <3>1, <3>2, <3>3, SaysOnce DEF OfferLike
    <2> QED
      BY <2>1, <2>2
  <1>10. OffersOne(page[c], page'[c], uplink[c], uplink'[c], downlink[c], downlink'[c], s)
    BY <1>4, <1>5, <1>6, <1>7, <1>8, <1>9 DEF OffersOne, KeepsClients
  <1> QED
    BY <1>10 DEF Does

LEMMA AnswerReadyDoes ==
    ASSUME PagesTypeOK, NEW c \in Clients, NEW s \in SessionIds, AnswerReady(c, s)
    PROVE  Does(c)
  <1>1. PICK p \in Page : p = page[c]
    BY Typed
  <1>2. PICK done : done = [p EXCEPT !.answering = @ \ {s}, !.mute = @ \ {s}]
    OBVIOUS
  <1>3. /\ done.offering = p.offering /\ done.answering = p.answering \ {s}
        /\ done.host = p.host /\ done.client = p.client
        /\ done.shows = p.shows /\ done.mute = p.mute \ {s}
        /\ done.ws = p.ws /\ done.stream = p.stream
    BY <1>2 DEF Page
  <1>4. downlink' = downlink /\ s \in p.answering
    BY <1>1 DEF AnswerReady
  <1>5. Untouched(downlink[c], downlink'[c])
    BY <1>4, WireWaits
  <1>6. CASE s \notin DOMAIN p.client
    <2>1. page' = [page EXCEPT ![c] = done] /\ uplink' = uplink
      BY <1>1, <1>2, <1>6 DEF AnswerReady
    <2>2. page'[c] = done
      BY <2>1, PageBecomes
    <2>3. Utters(uplink[c], uplink'[c])
      BY <2>1, Typed, WireUtters
    <2>4. AnswersOne(p, done, uplink[c], uplink'[c], downlink[c], downlink'[c], s)
      BY <1>3, <1>4, <1>5, <1>6, <2>3 DEF AnswersOne, KeepsHosts
    <2> QED
      BY <1>1, <2>2, <2>4 DEF Does, Tends
  <1>7. CASE s \in DOMAIN p.client
    <2>1. PICK t : t = [done EXCEPT !.client[s] = "answered"]
      OBVIOUS
    <2>2. /\ t.offering = p.offering /\ t.answering = p.answering \ {s}
          /\ t.host = p.host /\ t.client = [p.client EXCEPT ![s] = "answered"]
          /\ t.shows = p.shows /\ t.mute = p.mute \ {s}
          /\ t.ws = p.ws /\ t.stream = p.stream /\ t \in Page
      <3>1. t = [p EXCEPT !.answering = @ \ {s}, !.mute = @ \ {s},
                          !.client = [p.client EXCEPT ![s] = "answered"]]
        BY <1>2, <1>3, <2>1 DEF Page
      <3>2. /\ [p.client EXCEPT ![s] = "answered"] \in PartialFn(SessionIds, {"new", "answered"})
            /\ p.answering \ {s} \in SUBSET SessionIds /\ p.mute \ {s} \in SUBSET SessionIds
        BY <1>7, PageIs, UpdateType
      <3> QED
        BY <3>1, <3>2 DEF Page
    <2>3. PICK p2 : p2 = onTrack(t, s)
      OBVIOUS
    <2>4. /\ p2.offering = p.offering /\ p2.answering = p.answering \ {s}
          /\ p2.host = p.host /\ p2.client = [p.client EXCEPT ![s] = "answered"]
          /\ p2.mute = p.mute \ {s} /\ p2.ws = p.ws /\ p2.stream = p.stream
          /\ p2.shows = IF p.ws = "in" THEN p.shows \cup {s} ELSE p.shows
      <3>1. CASE p.ws = "in"
        <4>1. p2 = [t EXCEPT !.shows = @ \cup {s}]
          BY <2>2, <2>3, <3>1 DEF onTrack
        <4> QED
          BY <2>2, <3>1, <4>1 DEF Page
      <3>2. CASE p.ws # "in"
        <4>1. p2 = t
          BY <2>2, <2>3, <3>2 DEF onTrack
        <4> QED
          BY <2>2, <3>2, <4>1
      <3> QED
        BY <3>1, <3>2
    <2>5. page' = [page EXCEPT ![c] = p2]
      BY <1>1, <1>2, <1>7, <2>1, <2>3 DEF AnswerReady
    <2>6. page'[c] = p2
      BY <2>5, PageBecomes
    <2>7. /\ DOMAIN p2.client = DOMAIN p.client /\ p2.client[s] = "answered"
          /\ \A x \in DOMAIN p.client \ {s} : p2.client[x] = p.client[x]
      BY <1>7, <2>4
    <2>8. \/ Utters(uplink[c], uplink'[c]) /\ (s \in p.mute \/ ~OpenPage(p))
          \/ /\ Proposes(uplink[c], uplink'[c], "clientanswer", s)
             /\ s \notin p.mute /\ OpenPage(p)
      <3>1. CASE s \in p.mute
        <4>1. uplink' = uplink
          BY <1>1, <1>7, <3>1 DEF AnswerReady
        <4> QED
          BY <3>1, <4>1, Typed, WireUtters
      <3>2. CASE s \notin p.mute
        <4>1. PICK m \in Up : m = SessionMsg("clientanswer", s) /\ m.type = "clientanswer" /\ m.id = s
          BY UpType DEF SessionMsg
        <4>2. Send(c, <<m>>)
          BY <1>1, <1>7, <3>2, <4>1 DEF AnswerReady
        <4>3. IsOpen(c) <=> OpenPage(p)
          BY <1>1 DEF IsOpen, OpenPage
        <4> QED
          BY <3>2, <4>1, <4>2, <4>3, SaysOnce DEF OfferLike
      <3> QED
        BY <3>1, <3>2
    <2>9. AnswersOne(p, p2, uplink[c], uplink'[c], downlink[c], downlink'[c], s)
      BY <1>4, <1>5, <1>7, <2>4, <2>7, <2>8 DEF AnswersOne, KeepsHosts
    <2> QED
      BY <1>1, <2>6, <2>9 DEF Does, Tends
  <1> QED
    BY <1>6, <1>7

(* End takes one session off the page.                                     *)
LEMMA EndIs ==
    ASSUME NEW p \in Page, NEW p2, NEW s, p2 = End(p, s)
    PROVE  /\ p2.offering = p.offering /\ p2.answering = p.answering /\ p2.stream = p.stream
           /\ p2.mute = p.mute /\ p2.ws = p.ws
           /\ DOMAIN p2.host = DOMAIN p.host \ {s} /\ DOMAIN p2.client = DOMAIN p.client \ {s}
           /\ p2.shows = p.shows \ {s}
           /\ \A x \in DOMAIN p2.host : p2.host[x] = p.host[x]
           /\ \A x \in DOMAIN p2.client : p2.client[x] = p.client[x]
  <1>1. /\ p2.offering = p.offering /\ p2.answering = p.answering /\ p2.stream = p.stream
        /\ p2.mute = p.mute /\ p2.ws = p.ws
        /\ p2.host = Without(p.host, {s}) /\ p2.client = Without(p.client, {s})
        /\ p2.shows = p.shows \ {s}
    BY DEF Page, End
  <1>2. PICK h, k, h2, k2 : h = p.host /\ k = p.client /\ h2 = p2.host /\ k2 = p2.client
    OBVIOUS
  <1>3. h2 = Without(h, {s}) /\ k2 = Without(k, {s})
    BY <1>1, <1>2
  <1>4. /\ h2 = [x \in DOMAIN h \ {s} |-> h[x]]
        /\ k2 = [x \in DOMAIN k \ {s} |-> k[x]]
    BY <1>3 DEF Without, Restrict
  <1>5. /\ DOMAIN h2 = DOMAIN h \ {s} /\ \A x \in DOMAIN h \ {s} : h2[x] = h[x]
        /\ DOMAIN k2 = DOMAIN k \ {s} /\ \A x \in DOMAIN k \ {s} : k2[x] = k[x]
    BY <1>4
  <1> QED
    BY <1>1, <1>2, <1>5

LEMMA PeerLostDoes ==
    ASSUME PagesTypeOK, NEW c \in Clients, NEW s \in SessionIds, PeerLost(c, s)
    PROVE  Does(c)
  <1>1. page' = [page EXCEPT ![c] = End(page[c], s)]
    BY DEF PeerLost
  <1>2. page'[c] = End(page[c], s) /\ page[c] \in Page
    BY <1>1, PageBecomes, Typed
  <1>3. uplink'[c] = uplink[c] /\ downlink'[c] = downlink[c]
    BY DEF PeerLost, wires
  <1>4. Utters(uplink[c], uplink'[c]) /\ Untouched(downlink[c], downlink'[c])
    BY <1>3, Typed, WireUtters, WireWaits
  <1>5. EndsOne(page[c], page'[c], uplink[c], uplink'[c], downlink[c], downlink'[c], s)
    BY <1>2, <1>4, EndIs DEF EndsOne, KeepsWire
  <1> QED
    BY <1>5 DEF Does

LEMMA PeerFailsDoes ==
    ASSUME PagesTypeOK, NEW c \in Clients, NEW s \in SessionIds, PeerFails(c, s)
    PROVE  Does(c)
  <1>1. PICK p \in Page : p = page[c]
    BY Typed
  <1>2. PICK q, x : q = End(p, s) /\ x = p.lost \cup {s}
    OBVIOUS
  <1>3. page'[c] = [q EXCEPT !.lost = x]
    <2>1. page' = [page EXCEPT ![c] = [q EXCEPT !.lost = x]]
      BY <1>1, <1>2 DEF PeerFails, Fail
    <2> QED
      BY <2>1, PageBecomes
  <1>4. q \in Page
    BY <1>1, <1>2, CallbacksType
  <1>5. PICK p2 : p2 = [q EXCEPT !.lost = x]
    OBVIOUS
  <1>6. /\ p2.offering = q.offering /\ p2.answering = q.answering /\ p2.stream = q.stream
        /\ p2.mute = q.mute /\ p2.ws = q.ws /\ p2.host = q.host /\ p2.client = q.client
        /\ p2.shows = q.shows /\ s \in p2.lost
    BY <1>4, <1>5, <1>2 DEF Page
  <1>7. uplink'[c] = uplink[c] /\ downlink'[c] = downlink[c]
    BY DEF PeerFails, wires
  <1>8. Utters(uplink[c], uplink'[c]) /\ Untouched(downlink[c], downlink'[c])
    BY <1>7, Typed, WireUtters, WireWaits
  <1>9. EndsOne(p, p2, uplink[c], uplink'[c], downlink[c], downlink'[c], s)
    BY <1>1, <1>6, <1>8, <1>2, EndIs DEF EndsOne, KeepsWire
  <1> QED
    BY <1>1, <1>3, <1>5, <1>6, <1>9 DEF Does

(* The WebSocket closes, and of what was sent perhaps the last is lost.    *)
LEMMA ClosingDoes ==
    ASSUME PagesTypeOK, NEW c \in Clients, NEW q2 \in Seq(Up), Sheds(q2, uplink[c]),
           uplink' = [uplink EXCEPT ![c] = q2], downlink' = [downlink EXCEPT ![c] = << >>],
           NEW p, NEW p2, p = page[c], page' = [page EXCEPT ![c] = p2],
           p2.ws = "closed", p2.shows = {},
           p2.offering \subseteq p.offering, p2.answering \subseteq p.answering,
           p2.mute = p2.offering \cup p2.answering,
           DOMAIN p2.host = {} \/ (p2.host = p.host /\ p2.stream = p.stream),
           DOMAIN p2.client \subseteq DOMAIN p.client
    PROVE  Does(c)
  <1>1. page'[c] = p2
    BY PageBecomes
  <1>2. uplink'[c] = q2 /\ downlink'[c] = << >>
    BY DEF PagesTypeOK
  <1>3. ShutsDown(p, p2, uplink[c], q2, downlink[c], << >>)
    BY DEF ShutsDown
  <1> QED
    BY <1>1, <1>2, <1>3 DEF Does

LEMMA HangUpLeaves ==
    ASSUME PagesTypeOK, NEW c \in Clients, NEW sent \in Seq(Up), HangUp(c, sent),
           Sheds(sent, uplink[c])
    PROVE  \E q2 \in Seq(Up) :
              /\ Sheds(q2, uplink[c]) /\ uplink' = [uplink EXCEPT ![c] = q2]
              /\ downlink' = [downlink EXCEPT ![c] = << >>]
  <1>1. PICK q \in Seq(Up) : q = uplink[c]
    BY Typed
  <1>2. PICK m \in Up : m = Msg("gone") /\ m.type \notin {"hostoffer", "clientanswer"}
    BY UpType
  <1>3. CASE IsOpen(c)
    <2>4. Append(sent, m) \in Seq(Up)
      OBVIOUS
    <2>1. PICK q2 \in Seq(Up) : q2 = Append(sent, m)
      BY <2>4
    <2>2. Sheds(q2, q)
      BY <1>1, <1>2, <2>1, ShedsSome
    <2>3. uplink' = [uplink EXCEPT ![c] = q2] /\ downlink' = [downlink EXCEPT ![c] = << >>]
      BY <1>2, <1>3, <2>1 DEF HangUp
    <2> QED
      BY <1>1, <2>2, <2>3
  <1>4. CASE ~IsOpen(c)
    <2>1. uplink' = [uplink EXCEPT ![c] = q] /\ downlink' = [downlink EXCEPT ![c] = << >>]
      BY <1>1, <1>4 DEF HangUp
    <2> QED
      BY <1>1, <2>1, ShedsSome
  <1> QED
    BY <1>3, <1>4

LEMMA oncloseIs ==
    ASSUME NEW p \in Page, NEW p2, p2 = onclose(p)
    PROVE  /\ p2.ws = "closed" /\ p2.shows = {} /\ p2.offering = p.offering
           /\ p2.answering = p.answering /\ p2.mute = p2.offering \cup p2.answering
           /\ p2.host = p.host /\ p2.stream = p.stream /\ p2.client = p.client
  BY DEF Page, onclose

LEMMA BreakDoes ==
    ASSUME PagesTypeOK, NEW c \in Clients, Break(c) \/ Reload(c)
    PROVE  Does(c)
  <1>1. PICK n \in 0..Len(uplink[c]) : HangUp(c, SubSeq(uplink[c], 1, n))
    BY DEF Break, Reload
  <1>2. PICK q \in Seq(Up) : q = uplink[c]
    BY Typed
  <1>3. PICK sent \in Seq(Up) : sent = SubSeq(q, 1, n) /\ Sheds(sent, q)
    BY <1>2, Truncated, ShedsSome
  <1>4. HangUp(c, sent)
    BY <1>1, <1>2, <1>3
  <1>5. PICK q2 \in Seq(Up) :
              /\ Sheds(q2, uplink[c]) /\ uplink' = [uplink EXCEPT ![c] = q2]
              /\ downlink' = [downlink EXCEPT ![c] = << >>]
    BY <1>2, <1>3, <1>4, HangUpLeaves
  <1>6. PICK p \in Page : p = page[c]
    BY Typed
  <1>7. CASE Break(c)
    <2>1. PICK p2 : p2 = onclose(p)
      OBVIOUS
    <2>2. page' = [page EXCEPT ![c] = p2]
      BY <1>6, <1>7, <2>1 DEF Break
    <2>3. /\ p2.ws = "closed" /\ p2.shows = {} /\ p2.offering = p.offering
          /\ p2.answering = p.answering /\ p2.mute = p2.offering \cup p2.answering
          /\ p2.host = p.host /\ p2.stream = p.stream /\ p2.client = p.client
      BY <2>1, oncloseIs
    <2> QED
      BY <1>5, <1>6, <2>2, <2>3, ClosingDoes
  <1>8. CASE Reload(c)
    <2>1. PICK p2 : p2 = NewPage
      OBVIOUS
    <2>2. page' = [page EXCEPT ![c] = p2]
      BY <1>8, <2>1 DEF Reload
    <2>3. /\ p2.ws = "closed" /\ p2.shows = {} /\ p2.offering = {} /\ p2.answering = {}
          /\ p2.mute = {} /\ p2.host = EmptyMap /\ p2.client = EmptyMap
      BY <2>1 DEF NewPage
    <2>4. DOMAIN p2.host = {} /\ DOMAIN p2.client = {}
      BY <2>3, EmptyType
    <2> QED
      BY <1>5, <1>6, <2>2, <2>3, <2>4, ClosingDoes
  <1> QED
    BY <1>7, <1>8

LEMMA QuitDoes ==
    ASSUME PagesTypeOK, NEW c \in Clients, exitRoom(c) \/ dissolveRoom(c)
    PROVE  Does(c)
  <1>1. PICK said \in {<< >>, <<Msg("dissolve")>>} : Quit(c, said)
    BY DEF exitRoom, dissolveRoom
  <1>2. PICK stop \in {<< >>, <<Msg("stopshare")>>} : HangUp(c, uplink[c] \o said \o stop)
    BY <1>1 DEF Quit
  <1>3. \A q \in Seq(Up) : q \o << >> = q
    OBVIOUS
  <1>4. PICK q \in Seq(Up) : q = uplink[c]
    BY Typed
  <1>5. ASSUME NEW q2 \in Seq(Up), Sheds(q2, q),
               NEW more \in {<< >>, <<Msg("dissolve")>>, <<Msg("stopshare")>>}
        PROVE  q2 \o more \in Seq(Up) /\ Sheds(q2 \o more, q)
    <2>1. CASE more = << >>
      BY <1>3, <1>5, <2>1
    <2>2. ASSUME NEW t \in {"dissolve", "stopshare"}, more = <<Msg(t)>>
          PROVE  q2 \o more \in Seq(Up) /\ Sheds(q2 \o more, q)
      <3>1. PICK m \in Up : m = Msg(t) /\ m.type \notin {"hostoffer", "clientanswer"}
        BY UpType
      <3>2. q2 \o more = Append(q2, m) /\ Append(q2, m) \in Seq(Up)
        BY <2>2, <3>1
      <3>3. Sheds(Append(q2, m), q)
        BY <1>5, <3>1, ShedsSome
      <3> QED
        BY <3>2, <3>3
    <2> QED
      BY <2>1, <2>2
  <1>6. PICK sent \in Seq(Up) : sent = uplink[c] \o said \o stop /\ Sheds(sent, q)
    <2>1. Sheds(q, q)
      BY ShedsSome
    <2>2. PICK q2 \in Seq(Up) : q2 = q \o said /\ Sheds(q2, q)
      BY <1>5, <2>1
    <2>3. q2 \o stop \in Seq(Up) /\ Sheds(q2 \o stop, q)
      BY <1>5, <2>2
    <2> QED
      BY <1>4, <2>2, <2>3
  <1>7. PICK q2 \in Seq(Up) :
              /\ Sheds(q2, uplink[c]) /\ uplink' = [uplink EXCEPT ![c] = q2]
              /\ downlink' = [downlink EXCEPT ![c] = << >>]
    BY <1>2, <1>4, <1>6, HangUpLeaves
  <1>8. PICK p \in Page : p = page[c]
    BY Typed
  <1>9. PICK p1 : p1 = [StopStream(p) EXCEPT !.client = EmptyMap]
    OBVIOUS
  <1>10. /\ p1 \in Page /\ p1.offering = p.offering /\ p1.answering = p.answering
         /\ p1.host = EmptyMap /\ p1.client = EmptyMap
    <2>1. PICK p0 \in Page : p0 = StopStream(p)
      BY CallbacksType
    <2>2. p0.offering = p.offering /\ p0.answering = p.answering /\ p0.host = EmptyMap
      BY <2>1 DEF Page, StopStream
    <2>3. p1 = [p0 EXCEPT !.client = EmptyMap]
      BY <1>9, <2>1
    <2>4. p1 \in Page
      BY <2>3, EmptyType, UpdatesType
    <2> QED
      BY <2>2, <2>3, <2>4 DEF Page
  <1>11. PICK p2 : p2 = onclose(p1)
    OBVIOUS
  <1>12. page' = [page EXCEPT ![c] = p2]
    BY <1>1, <1>8, <1>9, <1>11 DEF Quit
  <1>13. /\ p2.ws = "closed" /\ p2.shows = {} /\ p2.offering = p1.offering
         /\ p2.answering = p1.answering /\ p2.mute = p2.offering \cup p2.answering
         /\ p2.host = p1.host /\ p2.stream = p1.stream /\ p2.client = p1.client
    BY <1>10, <1>11, oncloseIs
  <1>14. DOMAIN p2.host = {} /\ DOMAIN p2.client = {}
    BY <1>10, <1>13, EmptyType
  <1> QED
    BY <1>7, <1>8, <1>10, <1>12, <1>13, <1>14, ClosingDoes

LEMMA ClosedDoes ==
    ASSUME PagesTypeOK, NEW c \in Clients, Closed(c)
    PROVE  Does(c)
  <1>1. PICK p \in Page : p = page[c]
    BY Typed
  <1>2. PICK p2 : p2 = onclose(p)
    OBVIOUS
  <1>3. page' = [page EXCEPT ![c] = p2]
    BY <1>1, <1>2 DEF Closed
  <1>4. /\ p2.ws = "closed" /\ p2.shows = {} /\ p2.offering = p.offering
        /\ p2.answering = p.answering /\ p2.mute = p2.offering \cup p2.answering
        /\ p2.host = p.host /\ p2.stream = p.stream /\ p2.client = p.client
    BY <1>2, oncloseIs
  <1>5. uplink[c] \in Seq(Up)
    BY Typed
  <1>6. PICK q2 \in Seq(Up) : q2 = << >> /\ Sheds(q2, uplink[c])
    <2>1. << >> \in Seq(Up)
      OBVIOUS
    <2>2. Sheds(<< >>, uplink[c])
      BY <1>5, ShedsSome
    <2> QED
      BY <2>1, <2>2
  <1>7. uplink' = [uplink EXCEPT ![c] = q2] /\ downlink' = [downlink EXCEPT ![c] = << >>]
    BY <1>6 DEF Closed
  <1> QED
    BY <1>1, <1>3, <1>4, <1>6, <1>7, ClosingDoes

LEMMA FirstMessageDoes ==
    ASSUME PagesTypeOK, NEW c \in Clients, FirstMessage(c)
    PROVE  Does(c)
  <1>1. page[c].ws = "open" /\ downlink[c] # << >> /\ IsOpen(c)
    BY DEF FirstMessage, IsOpen
  <1>2. PICK m \in Head(downlink[c]) :
          \/ /\ m.type = "room"
             /\ page' = [page EXCEPT ![c].ws = "in", ![c].room = m.users]
             /\ Take(c, m)
             /\ UNCHANGED <<rest, uplink>>
          \/ /\ m.type \notin {"room", "closewriter"}
             /\ page' = [page EXCEPT ![c] = onclose(@)]
             /\ HangUp(c, uplink[c])
             /\ UNCHANGED rest
    BY DEF FirstMessage
  <1>3. CASE /\ m.type = "room"
             /\ page' = [page EXCEPT ![c].ws = "in", ![c].room = m.users]
             /\ Take(c, m)
             /\ UNCHANGED <<rest, uplink>>
    <2>1. PICK v : v = [page[c] EXCEPT !.ws = "in", !.room = m.users]
      OBVIOUS
    <2>2. page' = [page EXCEPT ![c] = v]
      BY <1>3, <2>1
    <2>3. page'[c] = v /\ page[c] \in Page
      BY <2>2, PageBecomes, Typed
    <2>4. /\ v.offering = page[c].offering /\ v.answering = page[c].answering
          /\ v.host = page[c].host /\ v.client = page[c].client
          /\ v.shows = page[c].shows /\ v.mute = page[c].mute
          /\ v.stream = page[c].stream
      BY <2>1, <2>3 DEF Page
    <2>5. downlink'[c] = Rest(downlink[c], m)
      BY <1>1, <1>3, TakeIs
    <2>6. Untouched(downlink[c], downlink'[c])
      BY <1>1, <1>3, <2>5, Typed, WireRead DEF OfSessions
    <2>7. uplink'[c] = uplink[c]
      BY <1>3
    <2>8. Utters(uplink[c], uplink'[c])
      BY <2>7, Typed, WireUtters
    <2> QED
      BY <1>1, <2>3, <2>4, <2>6, <2>8, IdlesDoes
  <1>4. CASE page' = [page EXCEPT ![c] = onclose(@)] /\ HangUp(c, uplink[c])
    <2>1. PICK p \in Page : p = page[c]
      BY Typed
    <2>2. PICK p2 : p2 = onclose(p)
      OBVIOUS
    <2>3. page' = [page EXCEPT ![c] = p2]
      BY <1>4, <2>1, <2>2
    <2>4. /\ p2.ws = "closed" /\ p2.shows = {} /\ p2.offering = p.offering
          /\ p2.answering = p.answering /\ p2.mute = p2.offering \cup p2.answering
          /\ p2.host = p.host /\ p2.stream = p.stream /\ p2.client = p.client
      BY <2>2, oncloseIs
    <2>5. uplink[c] \in Seq(Up) /\ Sheds(uplink[c], uplink[c])
      BY Typed, ShedsSome
    <2>6. PICK q2 \in Seq(Up) :
              /\ Sheds(q2, uplink[c]) /\ uplink' = [uplink EXCEPT ![c] = q2]
              /\ downlink' = [downlink EXCEPT ![c] = << >>]
      BY <1>4, <2>5, HangUpLeaves
    <2> QED
      BY <2>1, <2>3, <2>4, <2>6, ClosingDoes
  <1> QED
    BY <1>2, <1>3, <1>4

LEMMA onmessageDoes ==
    ASSUME PagesTypeOK, NEW c \in Clients, onmessage(c)
    PROVE  Does(c)
  <1>1. page[c].ws = "in" /\ downlink[c] # << >> /\ UNCHANGED <<rest, uplink>>
    BY DEF onmessage
  <1> DEFINE Becomes(m, p) ==
                \/ m.type = "room" /\ p = onRoom(page[c], m)
                \/ m.type = "hostsession" /\ p = onHostSession(page[c], m)
                \/ m.type = "clientsession" /\ p = onClientSession(page[c], m)
                \/ m.type = "host" /\ p = onHostOffer(page[c], m)
                \/ m.type = "client" /\ p = onClientAnswer(page[c], m)
                \/ m.type = "endshare" /\ p = End(page[c], m.id)
  <1>2. PICK m \in Head(downlink[c]) :
           Take(c, m) /\ \E p2 : page' = [page EXCEPT ![c] = p2] /\ Becomes(m, p2)
    BY DEF onmessage
  <1>3. PICK p2 : page' = [page EXCEPT ![c] = p2] /\ Becomes(m, p2)
    BY <1>2
  <1>4. PICK p \in Page : p = page[c]
    BY Typed
  <1>5. m \in Message /\ page'[c] = p2 /\ uplink'[c] = uplink[c]
    BY <1>1, <1>3, InHead, PageBecomes
  <1>6. PICK q, q2, w, w2 : /\ q = uplink[c] /\ q2 = uplink'[c]
                            /\ w = downlink[c] /\ w2 = downlink'[c]
    OBVIOUS
  <1>7. Utters(q, q2)
    BY <1>5, <1>6, Typed, WireUtters
  <1>8. w2 = Rest(w, m) /\ w \in Seq(SUBSET Message) /\ w # << >> /\ m \in Head(w)
    BY <1>1, <1>2, <1>6, TakeIs, Typed
  <1>9. /\ Reads(w, w2, m.type, m.id)
        /\ m.type \notin OfSessions => Untouched(w, w2)
    BY <1>8, WireRead
  <1>10. m.type \in OfSessions => m.id \in SessionIds
    BY <1>5, MessageIs DEF OfSessions
  <1> HIDE DEF Becomes
  <1>11. CASE m.type = "room" /\ p2 = onRoom(p, m)
    <2>1. /\ p2.offering = p.offering /\ p2.answering = p.answering
          /\ p2.host = p.host /\ p2.client = p.client
          /\ p2.shows = p.shows /\ p2.mute = p.mute
          /\ p2.stream = p.stream /\ p2.ws = p.ws
      BY <1>11 DEF Page, onRoom
    <2>2. Untouched(w, w2)
      BY <1>9, <1>11 DEF OfSessions
    <2> QED
      BY <1>4, <1>5, <1>6, <1>7, <2>1, <2>2, IdlesDoes
  <1>12. CASE m.type = "hostsession" /\ p2 = onHostSession(p, m)
    <2>1. /\ p2.answering = p.answering /\ p2.host = p.host /\ p2.client = p.client
          /\ p2.shows = p.shows /\ p2.mute = p.mute
          /\ p2.stream = p.stream /\ p2.ws = p.ws
          /\ p2.offering = IF p.stream THEN p.offering \cup {m.id} ELSE p.offering
      <3>1. CASE p.stream
        <4>1. p2 = [p EXCEPT !.offering = @ \cup {m.id}]
          BY <1>12, <3>1 DEF onHostSession
        <4> QED
          BY <3>1, <4>1 DEF Page
      <3>2. CASE ~p.stream
        BY <1>12, <3>2 DEF onHostSession
      <3> QED
        BY <3>1, <3>2
    <2>2. HearsHostSession(p, p2, q, q2, w, w2, m.id)
      BY <1>1, <1>4, <1>7, <1>9, <1>12, <2>1 DEF HearsHostSession, KeepsClients, KeepsWire
    <2>3. m.id \in SessionIds
      BY <1>10, <1>12 DEF OfSessions
    <2> QED
      BY <1>4, <1>5, <1>6, <2>2, <2>3 DEF Does, Tends
  <1>13. CASE m.type = "clientsession" /\ p2 = onClientSession(p, m)
    <2>1. /\ p2.offering = p.offering /\ p2.answering = p.answering /\ p2.host = p.host
          /\ p2.shows = p.shows /\ p2.mute = p.mute
          /\ p2.stream = p.stream /\ p2.ws = p.ws
          /\ p2.client = Assign(p.client, m.id, "new")
      BY <1>13 DEF Page, onClientSession
    <2>2. PICK k : k = p.client
      OBVIOUS
    <2>3. /\ DOMAIN p2.client = DOMAIN k \cup {m.id} /\ p2.client[m.id] = "new"
          /\ \A x \in DOMAIN k \ {m.id} : p2.client[x] = k[x]
      BY <2>1, <2>2 DEF Assign
    <2>4. HearsClientSession(p, p2, q, q2, w, w2, m.id)
      BY <1>1, <1>4, <1>7, <1>9, <1>13, <2>1, <2>2, <2>3 DEF HearsClientSession, KeepsHosts, KeepsWire
    <2>5. m.id \in SessionIds
      BY <1>10, <1>13 DEF OfSessions
    <2> QED
      BY <1>4, <1>5, <1>6, <2>4, <2>5 DEF Does, Tends
  <1>14. CASE m.type = "host" /\ p2 = onHostOffer(p, m)
    <2>1. /\ p2.offering = p.offering /\ p2.host = p.host /\ p2.client = p.client
          /\ p2.shows = p.shows /\ p2.mute = p.mute
          /\ p2.stream = p.stream /\ p2.ws = p.ws
          /\ p2.answering = p.answering \cup {m.id}
      BY <1>14 DEF Page, onHostOffer
    <2>2. HearsOffer(p, p2, q, q2, w, w2, m.id)
      BY <1>1, <1>4, <1>7, <1>9, <1>14, <2>1 DEF HearsOffer, KeepsHosts, KeepsWire
    <2>3. m.id \in SessionIds
      BY <1>10, <1>14 DEF OfSessions
    <2> QED
      BY <1>4, <1>5, <1>6, <2>2, <2>3 DEF Does, Tends
  <1>15. CASE m.type = "client" /\ p2 = onClientAnswer(p, m)
    <2>1. /\ p2.offering = p.offering /\ p2.answering = p.answering /\ p2.client = p.client
          /\ p2.shows = p.shows /\ p2.mute = p.mute
          /\ p2.stream = p.stream /\ p2.ws = p.ws
          /\ DOMAIN p2.host = DOMAIN p.host
          /\ m.id \in DOMAIN p.host => p2.host[m.id] = "connected"
          /\ \A x \in DOMAIN p.host \ {m.id} : p2.host[x] = p.host[x]
      <3>1. CASE m.id \in DOMAIN p.host
        <4>1. p2 = [p EXCEPT !.host = [p.host EXCEPT ![m.id] = "connected"]]
          BY <1>15, <3>1 DEF onClientAnswer
        <4>2. /\ p2.offering = p.offering /\ p2.answering = p.answering /\ p2.client = p.client
              /\ p2.shows = p.shows /\ p2.mute = p.mute
              /\ p2.stream = p.stream /\ p2.ws = p.ws
              /\ p2.host = [p.host EXCEPT ![m.id] = "connected"]
          BY <4>1 DEF Page
        <4> QED
          BY <3>1, <4>2
      <3>2. CASE m.id \notin DOMAIN p.host
        BY <1>15, <3>2 DEF onClientAnswer
      <3> QED
        BY <3>1, <3>2
    <2>2. HearsAnswer(p, p2, q, q2, w, w2, m.id)
      BY <1>1, <1>4, <1>7, <1>9, <1>15, <2>1 DEF HearsAnswer, KeepsClients, KeepsWire
    <2>3. m.id \in SessionIds
      BY <1>10, <1>15 DEF OfSessions
    <2> QED
      BY <1>4, <1>5, <1>6, <2>2, <2>3 DEF Does, Tends
  <1>16. CASE m.type = "endshare" /\ p2 = End(p, m.id)
    <2>1. Reads(w, w2, "endshare", m.id)
      BY <1>9, <1>16
    <2>2. EndsOne(p, p2, q, q2, w, w2, m.id)
      BY <1>7, <1>16, <2>1, EndIs DEF EndsOne, KeepsWire
    <2>3. Brings(w, "endshare", m.id)
      BY <2>1 DEF Reads
    <2>4. m.id \in SessionIds
      BY <1>10, <1>16 DEF OfSessions
    <2> QED
      BY <1>4, <1>5, <1>6, <2>2, <2>3, <2>4 DEF Does
  <1> QED
    BY <1>3, <1>4, <1>11, <1>12, <1>13, <1>14, <1>15, <1>16 DEF Becomes

LEMMA MovesDo ==
    ASSUME PagesTypeOK, NEW c \in Clients, Moves(c), Link(c)
    PROVE  Does(c)
  BY EnterDoes, onopenDoes, BreakDoes, shareDoes, CapturedDoes, stopShareDoes, QuitDoes,
     AskingDoes, OfferReadyDoes, AnswerReadyDoes, PeerLostDoes, PeerFailsDoes,
     FirstMessageDoes, onmessageDoes, ClosedDoes DEF Moves

(* A page that goes on forgets no peer that the network took.              *)
Remembers(c) == page'[c].ws # "closed" => page[c].lost \subseteq page'[c].lost

LEMMA MovesRemember ==
    ASSUME PagesTypeOK, NEW c \in Clients, Moves(c)
    PROVE  Remembers(c)
  <1>1. page \in [Clients -> Page] /\ page[c] \in Page
    BY Typed DEF PagesTypeOK
  <1>2. ASSUME NEW p \in Page, page' = [page EXCEPT ![c] = p],
               p.ws = "closed" \/ p.lost = page[c].lost \/ page[c].lost \subseteq p.lost
        PROVE  Remembers(c)
    BY <1>1, <1>2 DEF Remembers
  <1>3. ASSUME page' = page PROVE Remembers(c)
    BY <1>3 DEF Remembers
  <1>4. ASSUME Enter(c) \/ onopen(c) \/ share(c) \/ Captured(c) \/ PickCancelled(c)
        PROVE  Remembers(c)
    BY <1>1, <1>4 DEF Enter, onopen, share, Captured, PickCancelled, Remembers, Page
  <1>5. CASE Break(c) \/ Reload(c) \/ Closed(c)
    <2>1. onclose(page[c]) \in Page /\ onclose(page[c]).ws = "closed"
      BY <1>1, CallbacksType DEF onclose, Page
    <2>2. NewPage \in Page /\ NewPage.ws = "closed"
      BY NewPageType DEF NewPage
    <2> QED
      BY <1>2, <1>5, <2>1, <2>2 DEF Break, Reload, Closed
  <1>6. CASE stopShare(c)
    <2>1. StopStream(page[c]) \in Page /\ StopStream(page[c]).lost = page[c].lost
      BY <1>1, CallbacksType DEF StopStream, Page
    <2> QED
      BY <1>2, <1>6, <2>1 DEF stopShare
  <1>7. CASE exitRoom(c) \/ dissolveRoom(c)
    <2>1. PICK p \in Page : p = onclose([StopStream(page[c]) EXCEPT !.client = EmptyMap])
      BY <1>1, CallbacksType
    <2>2. PICK q \in Page : q = [StopStream(page[c]) EXCEPT !.client = EmptyMap]
      <3>1. StopStream(page[c]) \in Page /\ EmptyMap \in PartialFn(SessionIds, {"new", "answered"})
        BY <1>1, CallbacksType, EmptyType
      <3> QED
        BY <3>1, UpdatesType
    <2>3. p.ws = "closed"
      BY <2>1, <2>2 DEF onclose, Page
    <2>4. page' = [page EXCEPT ![c] = p]
      BY <1>7, <2>1 DEF exitRoom, dissolveRoom, Quit
    <2> QED
      BY <1>2, <2>3, <2>4
  <1>8. CASE setName(c) \/ ownerAction(c)
    BY <1>3, <1>8 DEF setName, ownerAction
  <1>9. ASSUME NEW s \in SessionIds, OfferReady(c, s) PROVE Remembers(c)
    BY <1>1, <1>9 DEF OfferReady, Remembers, Page
  <1>10. ASSUME NEW s \in SessionIds, AnswerReady(c, s) PROVE Remembers(c)
    <2>1. PICK p \in Page : p = page[c]
      BY <1>1
    <2>2. PICK a \in SUBSET SessionIds, b \in SUBSET SessionIds :
             a = p.answering \ {s} /\ b = p.mute \ {s}
      BY PageIs
    <2>3. PICK d \in Page : d = [p EXCEPT !.answering = a, !.mute = b]
      BY DEF Page
    <2>4. /\ d = [page[c] EXCEPT !.answering = @ \ {s}, !.mute = @ \ {s}]
          /\ d.lost = page[c].lost /\ d.client = page[c].client
      BY <2>1, <2>2, <2>3 DEF Page
    <2>5. CASE s \in DOMAIN page[c].client
      <3>1. PICK x : x = [d.client EXCEPT ![s] = "answered"]
        OBVIOUS
      <3>2. PICK e : e = [d EXCEPT !.client = x]
        OBVIOUS
      <3>3. e = [d EXCEPT !.client[s] = "answered"]
        BY <3>1, <3>2
      <3>4. page' = [page EXCEPT ![c] = onTrack(e, s)]
        BY <1>10, <2>4, <2>5, <3>3 DEF AnswerReady
      <3>5. onTrack(e, s).lost = page[c].lost
        BY <2>4, <3>2 DEF onTrack, Page
      <3> QED
        BY <1>1, <3>4, <3>5 DEF Remembers
    <2>6. CASE s \notin DOMAIN page[c].client
      BY <1>2, <1>10, <2>4, <2>6 DEF AnswerReady
    <2> QED
      BY <2>5, <2>6
  <1>11. \A s \in SessionIds : End(page[c], s) \in Page /\ End(page[c], s).lost = page[c].lost
    BY <1>1, CallbacksType DEF End, Page
  <1>12. ASSUME NEW s \in SessionIds, PeerLost(c, s) PROVE Remembers(c)
    BY <1>2, <1>11, <1>12 DEF PeerLost
  <1>13. ASSUME NEW s \in SessionIds, PeerFails(c, s) PROVE Remembers(c)
    <2>1. PICK q \in Page : q = End(page[c], s)
      BY <1>11
    <2>2. page' = [page EXCEPT ![c] = [q EXCEPT !.lost = page[c].lost \cup {s}]]
      BY <1>13, <2>1 DEF PeerFails, Fail
    <2> QED
      BY <1>1, <2>1, <2>2 DEF Remembers, Page
  <1>14. CASE FirstMessage(c)
    <2>1. PICK p : p = onclose(page[c])
      OBVIOUS
    <2>2. p \in Page /\ p.ws = "closed"
      BY <1>1, <2>1, CallbacksType DEF onclose, Page
    <2>3. CASE page' = [page EXCEPT ![c] = p]
      BY <1>2, <2>2, <2>3
    <2>4. ASSUME NEW users, page' = [page EXCEPT ![c].ws = "in", ![c].room = users]
          PROVE  Remembers(c)
      BY <1>1, <2>4 DEF Remembers, Page
    <2> QED
      BY <1>14, <2>1, <2>3, <2>4 DEF FirstMessage
  <1>15. CASE onmessage(c)
    <2>1. PICK p \in Page : p = page[c]
      BY <1>1
    <2>2. PICK m, p2 : /\ page' = [page EXCEPT ![c] = p2]
                       /\ \/ p2 = onRoom(p, m) \/ p2 = onHostSession(p, m)
                          \/ p2 = onClientSession(p, m) \/ p2 = onHostOffer(p, m)
                          \/ p2 = onClientAnswer(p, m) \/ p2 = End(p, m.id)
      BY <1>15, <2>1 DEF onmessage
    <2>3. p2.lost = p.lost
      <3>1. CASE p2 = onRoom(p, m) \/ p2 = onHostOffer(p, m) \/ p2 = End(p, m.id)
        BY <3>1 DEF onRoom, onHostOffer, End, Page
      <3>2. CASE p2 = onHostSession(p, m)
        BY <3>2 DEF onHostSession, Page
      <3>3. CASE p2 = onClientSession(p, m)
        <4>1. PICK x : x = Assign(p.client, m.id, "new")
          OBVIOUS
        <4>2. p2 = [p EXCEPT !.client = x]
          BY <3>3, <4>1 DEF onClientSession
        <4> QED
          BY <4>2 DEF Page
      <3>4. CASE p2 = onClientAnswer(p, m)
        <4>1. PICK x : x = [p.host EXCEPT ![m.id] = "connected"]
          OBVIOUS
        <4>2. p2 = [p EXCEPT !.host = x] \/ p2 = p
          BY <3>4, <4>1 DEF onClientAnswer
        <4> QED
          BY <4>2 DEF Page
      <3> QED
        BY <2>2, <3>1, <3>2, <3>3, <3>4
    <2> QED
      BY <1>1, <2>1, <2>2, <2>3 DEF Remembers
  <1> QED
    BY <1>4, <1>5, <1>6, <1>7, <1>8, <1>9, <1>10, <1>12, <1>13, <1>14, <1>15 DEF Moves
-----------------------------------------------------------------------------
(* What a page does keeps what is said of the sessions *)

(* Page c does something while all that is said here holds.                *)
Move(c) ==
    /\ RoomIdsAreNames /\ c \in Clients /\ PagesInv /\ PagesInv' /\ SessionsInv
    /\ Alone(c) /\ Acts(c) /\ Does(c) /\ Remembers(c)

LEMMA MoveIs ==
    ASSUME NEW c, Move(c)
    PROVE  /\ c \in Clients /\ PagesTypeOK /\ EndsHold /\ EndsHold'
           /\ UsedIds(rooms)' = UsedIds(rooms) /\ connected' = connected
           /\ \A s, d : (Hosts(s, d)' <=> Hosts(s, d)) /\ (Watches(s, d)' <=> Watches(s, d))
           /\ \A d \in Clients \ {c} :
                 uplink'[d] = uplink[d] /\ downlink'[d] = downlink[d] /\ page'[d] = page[d]
           /\ \A d \in Clients : /\ Tidy(page[d], uplink[d], downlink[d])
                                 /\ Shared(d) /\ Stopped(d) /\ Link(d) /\ Link(d)' /\ Capture(d)
                                 /\ \A e \in Clients : Apart(d, e)
           /\ IsOpen(c)' => IsOpen(c) \/ page[c].ws = "connecting"
  <1>1. EndsHold /\ EndsHold'
    BY EndsNow, EndsThen DEF Move
  <1>2. rooms' = rooms /\ connected' = connected
    BY DEF Move, Alone, loop
  <1>3. /\ UsedIds(rooms)' = UsedIds(rooms)
        /\ \A s, d : (Hosts(s, d)' <=> Hosts(s, d)) /\ (Watches(s, d)' <=> Watches(s, d))
    BY <1>2 DEF Hosts, Watches, UsedIds
  <1>4. IsOpen(c)' => IsOpen(c) \/ page[c].ws = "connecting"
    BY DEF Move, Acts, Dials, Greets, Parts, Drops, Says, Takes, IsOpen
  <1>5. /\ c \in Clients /\ PagesTypeOK
        /\ \A d \in Clients \ {c} :
              uplink'[d] = uplink[d] /\ downlink'[d] = downlink[d] /\ page'[d] = page[d]
        /\ \A d \in Clients : /\ Tidy(page[d], uplink[d], downlink[d])
                              /\ Shared(d) /\ Stopped(d) /\ Link(d) /\ Link(d)' /\ Capture(d)
                              /\ \A e \in Clients : Apart(d, e)
    BY DEF Move, PagesInv, SessionsInv, Alone
  <1> QED
    BY <1>1, <1>2, <1>3, <1>4, <1>5

LEMMA MovePicks ==
    ASSUME NEW c, Move(c)
    PROVE  \E p \in Page, p2 \in Page : \E q \in Seq(Up), q2 \in Seq(Up) : \E w, w2 :
              /\ p = page[c] /\ p2 = page'[c] /\ q = uplink[c] /\ q2 = uplink'[c]
              /\ w = downlink[c] /\ w2 = downlink'[c]
              /\ \/ ShutsDown(p, p2, q, q2, w, w2)
                 \/ \E y : Tends(p, p2, q, q2, w, w2, y)
                 \/ \E y \in SessionIds : OffersOne(p, p2, q, q2, w, w2, y)
                 \/ \E y \in SessionIds : /\ EndsOne(p, p2, q, q2, w, w2, y)
                                          /\ PeerLost(c, y) \/ y \in p2.lost \/ Brings(w, "endshare", y)
  <1>1. c \in Clients /\ PagesTypeOK /\ PagesTypeOK'
    BY DEF Move, PagesInv
  <1>2. page[c] \in Page /\ uplink[c] \in Seq(Up)
    BY <1>1, Typed
  <1>3. page'[c] \in Page /\ uplink'[c] \in Seq(Up)
    BY <1>1 DEF PagesTypeOK
  <1>4. Does(c)
    BY DEF Move
  <1> QED
    BY <1>2, <1>3, <1>4 DEF Does

LEMMA TendsTidy ==
    ASSUME NEW p, NEW p2, NEW q, NEW q2, NEW w, NEW w2, NEW y,
           Tidy(p, q, w), Tends(p, p2, q, q2, w, w2, y),
           \A s \in SessionIds : ~(Holds(p, w, s) /\ Answers(p, q, w, s))
    PROVE  Tidy(p2, q2, w2)
  <1>1. CASE y \in SessionIds /\ AnswersOne(p, p2, q, q2, w, w2, y)
    <2>1. y \notin p.offering
      BY <1>1 DEF AnswersOne, Holds, Answers
    <2> QED
      BY <1>1, <2>1, AnswersOneTidy
  <1>2. CASE y \in SessionIds /\ HearsAnswer(p, p2, q, q2, w, w2, y)
    <2>1. ~(Holds(p, w, y) /\ Answers(p, q, w, y))
      BY <1>2
    <2> QED
      BY <1>2, <2>1, HearsAnswerTidy
  <1>3. CASE Idling(p, p2, q, q2, w, w2)
    BY <1>3, IdlingTidy
  <1>4. CASE Stopping(p, p2, q, q2, w, w2)
    BY <1>4, StoppingTidy
  <1>5. CASE y \in SessionIds /\ HearsHostSession(p, p2, q, q2, w, w2, y)
    BY <1>5, HearsHostSessionTidy
  <1>6. CASE y \in SessionIds /\ HearsClientSession(p, p2, q, q2, w, w2, y)
    BY <1>6, HearsClientSessionTidy
  <1>7. CASE y \in SessionIds /\ HearsOffer(p, p2, q, q2, w, w2, y)
    BY <1>7, HearsOfferTidy
  <1> QED
    BY <1>1, <1>2, <1>3, <1>4, <1>5, <1>6, <1>7 DEF Tends

LEMMA TendsNarrows ==
    ASSUME NEW p, NEW p2, NEW q, NEW q2, NEW w, NEW w2, NEW y,
           Tends(p, p2, q, q2, w, w2, y)
    PROVE  Narrows(p, p2, q, q2, w, w2)
  BY IdlingNarrows, StoppingNarrows, AnswersOneNarrows, HearsHostSessionNarrows,
     HearsClientSessionNarrows, HearsOfferNarrows, HearsAnswerNarrows DEF Tends

LEMMA TendsAsks ==
    ASSUME NEW p, NEW p2, NEW q, NEW q2, NEW w, NEW w2, NEW y,
           \/ Tends(p, p2, q, q2, w, w2, y) \/ OffersOne(p, p2, q, q2, w, w2, y)
           \/ EndsOne(p, p2, q, q2, w, w2, y)
    PROVE  \A x : Asks(q, x) \subseteq Asks(q2, x)
  BY DEF Tends, Idling, Stopping, AnswersOne, EndsOne, OffersOne, HearsHostSession,
         HearsClientSession, HearsOffer, HearsAnswer, Utters, Proposes

LEMMA MoveTidy ==
    ASSUME NEW c, Move(c), NEW d \in Clients
    PROVE  Tidy(page[d], uplink[d], downlink[d])'
  <1>1. CASE d # c
    BY <1>1, MoveIs
  <1>2. CASE d = c
    <2>1. PICK p \in Page, p2 \in Page : \E q \in Seq(Up), q2 \in Seq(Up) : \E w, w2 :
              /\ p = page[c] /\ p2 = page'[c] /\ q = uplink[c] /\ q2 = uplink'[c]
              /\ w = downlink[c] /\ w2 = downlink'[c]
              /\ \/ ShutsDown(p, p2, q, q2, w, w2)
                 \/ \E y : Tends(p, p2, q, q2, w, w2, y)
                 \/ \E y \in SessionIds : OffersOne(p, p2, q, q2, w, w2, y)
                 \/ \E y \in SessionIds : EndsOne(p, p2, q, q2, w, w2, y)
      BY MovePicks
    <2>2. PICK q \in Seq(Up), q2 \in Seq(Up) : \E w, w2 :
              /\ p = page[c] /\ p2 = page'[c] /\ q = uplink[c] /\ q2 = uplink'[c]
              /\ w = downlink[c] /\ w2 = downlink'[c]
              /\ \/ ShutsDown(p, p2, q, q2, w, w2)
                 \/ \E y : Tends(p, p2, q, q2, w, w2, y)
                 \/ \E y \in SessionIds : OffersOne(p, p2, q, q2, w, w2, y)
                 \/ \E y \in SessionIds : EndsOne(p, p2, q, q2, w, w2, y)
      BY <2>1
    <2>3. PICK w, w2 :
              /\ p = page[c] /\ p2 = page'[c] /\ q = uplink[c] /\ q2 = uplink'[c]
              /\ w = downlink[c] /\ w2 = downlink'[c]
              /\ \/ ShutsDown(p, p2, q, q2, w, w2)
                 \/ \E y : Tends(p, p2, q, q2, w, w2, y)
                 \/ \E y \in SessionIds : OffersOne(p, p2, q, q2, w, w2, y)
                 \/ \E y \in SessionIds : EndsOne(p, p2, q, q2, w, w2, y)
      BY <2>2
    <2>4. Tidy(p, q, w) /\ \A s \in SessionIds : ~(Holds(p, w, s) /\ Answers(p, q, w, s))
      <3>1. Tidy(page[c], uplink[c], downlink[c]) /\ Apart(c, c)
        BY MoveIs
      <3> QED
        BY <2>3, <3>1 DEF Apart
    <2>5. CASE ShutsDown(p, p2, q, q2, w, w2)
      BY <1>2, <2>3, <2>4, <2>5, ShutsDownTidy
    <2>6. ASSUME NEW y, Tends(p, p2, q, q2, w, w2, y) PROVE Tidy(p2, q2, w2)
      BY <2>4, <2>6, TendsTidy
    <2>7. ASSUME NEW y \in SessionIds, OffersOne(p, p2, q, q2, w, w2, y) PROVE Tidy(p2, q2, w2)
      <3>1. y \notin p.answering
        BY <2>4, <2>7 DEF OffersOne, Holds, Answers
      <3> QED
        BY <2>4, <2>7, <3>1, OffersOneTidy
    <2>8. ASSUME NEW y \in SessionIds, EndsOne(p, p2, q, q2, w, w2, y) PROVE Tidy(p2, q2, w2)
      BY <2>4, <2>8, EndsOneTidy
    <2> QED
      BY <1>2, <2>3, <2>5, <2>6, <2>7, <2>8
  <1> QED
    BY <1>1, <1>2

LEMMA MoveNarrows ==
    ASSUME NEW c, Move(c), NEW d \in Clients
    PROVE  Narrows(page[d], page'[d], uplink[d], uplink'[d], downlink[d], downlink'[d])
  <1>1. CASE d # c
    BY <1>1, MoveIs DEF Narrows
  <1>2. CASE d = c
    <2>1. PICK p, p2, w, w2 : \E q \in Seq(Up), q2 \in Seq(Up) :
              /\ p = page[c] /\ p2 = page'[c] /\ q = uplink[c] /\ q2 = uplink'[c]
              /\ w = downlink[c] /\ w2 = downlink'[c]
              /\ \/ ShutsDown(p, p2, q, q2, w, w2)
                 \/ \E y : Tends(p, p2, q, q2, w, w2, y)
                 \/ \E y \in SessionIds : OffersOne(p, p2, q, q2, w, w2, y)
                 \/ \E y \in SessionIds : EndsOne(p, p2, q, q2, w, w2, y)
      BY MovePicks
    <2>2. PICK q \in Seq(Up), q2 \in Seq(Up) :
              /\ p = page[c] /\ p2 = page'[c] /\ q = uplink[c] /\ q2 = uplink'[c]
              /\ w = downlink[c] /\ w2 = downlink'[c]
              /\ \/ ShutsDown(p, p2, q, q2, w, w2)
                 \/ \E y : Tends(p, p2, q, q2, w, w2, y)
                 \/ \E y \in SessionIds : OffersOne(p, p2, q, q2, w, w2, y)
                 \/ \E y \in SessionIds : EndsOne(p, p2, q, q2, w, w2, y)
      BY <2>1
    <2>5. ASSUME ShutsDown(p, p2, q, q2, w, w2) PROVE Narrows(p, p2, q, q2, w, w2)
      BY <2>5, ShutsDownNarrows
    <2>6. ASSUME NEW y, Tends(p, p2, q, q2, w, w2, y) PROVE Narrows(p, p2, q, q2, w, w2)
      BY <2>6, TendsNarrows
    <2>7. ASSUME NEW y \in SessionIds, OffersOne(p, p2, q, q2, w, w2, y)
          PROVE  Narrows(p, p2, q, q2, w, w2)
      BY <2>7, OffersOneNarrows
    <2>8. ASSUME NEW y \in SessionIds, EndsOne(p, p2, q, q2, w, w2, y)
          PROVE  Narrows(p, p2, q, q2, w, w2)
      BY <2>8, EndsOneNarrows
    <2> QED
      BY <1>2, <2>2, <2>5, <2>6, <2>7, <2>8
  <1> QED
    BY <1>1, <1>2

LEMMA MoveShared ==
    ASSUME NEW c, Move(c), NEW d \in Clients
    PROVE  Shared(d)'
  <1>1. Narrows(page[d], page'[d], uplink[d], uplink'[d], downlink[d], downlink'[d])
    BY MoveNarrows
  <1>2. /\ UsedIds(rooms)' = UsedIds(rooms) /\ connected' = connected
        /\ \A s : (Hosts(s, d)' <=> Hosts(s, d)) /\ (Watches(s, d)' <=> Watches(s, d))
        /\ Shared(d) /\ Link(d) /\ EndsHold /\ Tidy(page[d], uplink[d], downlink[d])
    BY MoveIs
  <1> SUFFICES ASSUME NEW s \in UsedIds(rooms)
               PROVE  /\ AtHost(page'[d], downlink'[d], s) => Hosts(s, d)'
                      /\ AtClient(page'[d], downlink'[d], s) => Watches(s, d)'
                      /\ ~Brings(downlink'[d], "endshare", s)
                      /\ IsOpen(d)' => s \notin page'[d].mute
    BY <1>2 DEF Shared
  <1>3. /\ AtHost(page'[d], downlink'[d], s) => Hosts(s, d)'
        /\ AtClient(page'[d], downlink'[d], s) => Watches(s, d)'
        /\ ~Brings(downlink'[d], "endshare", s)
    BY <1>1, <1>2 DEF Narrows, Shared
  <1>4. ASSUME IsOpen(d)', s \in page'[d].mute PROVE FALSE
    <2>1. page'[d].ws # "closed"
      BY <1>4 DEF IsOpen
    <2>2. s \in page[d].mute
      BY <1>1, <1>4, <2>1 DEF Narrows
    <2>3. ~IsOpen(d)
      BY <1>2, <2>2 DEF Shared
    <2>4. page[d].ws = "connecting"
      <3>1. CASE d = c
        BY <1>4, <2>3, <3>1, MoveIs
      <3>2. CASE d # c
        BY <1>4, <2>3, <3>2, MoveIs DEF IsOpen
      <3> QED
        BY <3>1, <3>2
    <2>5. d \notin DOMAIN connected
      BY <1>2, <2>4 DEF Link, Dialling
    <2>6. AtHost(page[d], downlink[d], s) \/ AtClient(page[d], downlink[d], s)
      BY <1>2, <2>2 DEF Tidy, AtHost, AtClient
    <2>7. Hosts(s, d) \/ Watches(s, d)
      BY <1>2, <2>6 DEF Shared
    <2> QED
      BY <1>2, <2>5, <2>7 DEF EndsHold
  <1> QED
    BY <1>3, <1>4

LEMMA MoveApart ==
    ASSUME NEW c, Move(c), NEW d \in Clients, NEW e \in Clients
    PROVE  Apart(d, e)'
  <1>1. /\ Narrows(page[d], page'[d], uplink[d], uplink'[d], downlink[d], downlink'[d])
        /\ Narrows(page[e], page'[e], uplink[e], uplink'[e], downlink[e], downlink'[e])
    BY MoveNarrows
  <1>2. Apart(d, e)
    BY MoveIs
  <1> QED
    BY <1>1, <1>2 DEF Apart, Narrows

LEMMA MoveStopped ==
    ASSUME NEW c, Move(c), NEW d \in Clients
    PROVE  Stopped(d)'
  <1>1. CASE d # c
    <2>1. page'[d] = page[d] /\ uplink'[d] = uplink[d] /\ UsedIds(rooms)' = UsedIds(rooms)
      BY <1>1, MoveIs
    <2>2. Stopped(d)
      BY MoveIs
    <2> QED
      BY <2>1, <2>2 DEF Stopped
  <1>2. CASE d = c
    <2>1. PICK p, p2, w, w2 : \E q \in Seq(Up), q2 \in Seq(Up) :
              /\ p = page[c] /\ p2 = page'[c] /\ q = uplink[c] /\ q2 = uplink'[c]
              /\ w = downlink[c] /\ w2 = downlink'[c]
              /\ \/ ShutsDown(p, p2, q, q2, w, w2)
                 \/ \E y : Tends(p, p2, q, q2, w, w2, y)
                 \/ \E y \in SessionIds : OffersOne(p, p2, q, q2, w, w2, y)
                 \/ \E y \in SessionIds : EndsOne(p, p2, q, q2, w, w2, y)
      BY MovePicks
    <2>2. PICK q \in Seq(Up), q2 \in Seq(Up) :
              /\ p = page[c] /\ p2 = page'[c] /\ q = uplink[c] /\ q2 = uplink'[c]
              /\ w = downlink[c] /\ w2 = downlink'[c]
              /\ \/ ShutsDown(p, p2, q, q2, w, w2)
                 \/ \E y : Tends(p, p2, q, q2, w, w2, y)
                 \/ \E y \in SessionIds : OffersOne(p, p2, q, q2, w, w2, y)
                 \/ \E y \in SessionIds : EndsOne(p, p2, q, q2, w, w2, y)
      BY <2>1
    <2>3. /\ Stopped(c) /\ Shared(c) /\ Capture(c) /\ EndsHold /\ Tidy(p, q, w)
          /\ UsedIds(rooms)' = UsedIds(rooms)
      BY <2>2, MoveIs
    <2>4. ASSUME NEW s \in UsedIds(rooms) PROVE Confesses(p2, q2, s)
      <3>1. Confesses(p, q, s)
        BY <2>2, <2>3 DEF Stopped, Confesses
      <3>2. ASSUME ShutsDown(p, p2, q, q2, w, w2) PROVE Confesses(p2, q2, s)
        BY <3>1, <3>2, ShutsDownConfesses
      <3>3. ASSUME NEW y, Tends(p, p2, q, q2, w, w2, y) \/ EndsOne(p, p2, q, q2, w, w2, y)
            PROVE  Confesses(p2, q2, s)
        BY <3>1, <3>3, TendsConfesses
      <3>4. ASSUME NEW y \in SessionIds, OffersOne(p, p2, q, q2, w, w2, y)
            PROVE  Confesses(p2, q2, s)
        <4>1. ASSUME s = y
              PROVE  Unoffered(p, q, s) /\ (OpenPage(p) => p.stream \/ Asks(q, "stopshare") # {})
          <5>1. s \in p.offering
            BY <3>4, <4>1 DEF OffersOne
          <5>2. Unoffered(p, q, s)
            BY <2>3, <5>1 DEF Tidy
          <5>3. Hosts(s, c)
            BY <2>2, <2>3, <5>1 DEF Shared, AtHost
          <5>4. Performs(c)
            BY <2>3, <5>3 DEF EndsHold
          <5>5. OpenPage(p) => p.stream \/ Asks(q, "stopshare") # {}
            BY <2>2, <2>3, <5>4 DEF Capture, IsOpen, OpenPage
          <5> QED
            BY <5>2, <5>5
        <4> QED
          BY <3>1, <3>4, <4>1, OffersOneConfesses
      <3> QED
        BY <2>2, <3>2, <3>3, <3>4
    <2> QED
      BY <1>2, <2>2, <2>3, <2>4 DEF Stopped, Confesses
  <1> QED
    BY <1>1, <1>2

(* An end of a live session is open, or has said that it goes.             *)
LEMMA MovePresent ==
    ASSUME NEW c, Move(c), NEW d \in Clients, d \in DOMAIN connected'
    PROVE  (IsOpen(d) /\ IsOpen(d)') \/ Asks(uplink'[d], "gone") # {}
  <1>1. Link(d) /\ Link(d)' /\ connected' = connected
    BY MoveIs
  <1>2. PICK q \in Seq(Up), p \in Page : q = uplink'[d] /\ p = page'[d]
    BY DEF Move, PagesInv, PagesTypeOK
  <1>3. CASE p.ws = "closed"
    <2>1. q # << >> /\ q[Len(q)].type = "gone"
      BY <1>1, <1>2, <1>3 DEF Link, Parted
    <2>2. Len(q) \in DOMAIN q
      BY <2>1
    <2> QED
      BY <1>2, <2>1, <2>2 DEF Asks
  <1>4. CASE p.ws = "connecting"
    BY <1>1, <1>2, <1>4 DEF Link, Dialling
  <1>5. CASE p.ws \in {"open", "in"}
    <2>1. IsOpen(d)'
      BY <1>2, <1>5 DEF IsOpen
    <2>2. page[d].ws = "connecting" => d \notin DOMAIN connected
      BY <1>1 DEF Link, Dialling
    <2>3. IsOpen(d)
      <3>1. CASE d = c
        BY <1>1, <2>1, <2>2, <3>1, MoveIs
      <3>2. CASE d # c
        BY <2>1, <3>2, MoveIs DEF IsOpen
      <3> QED
        BY <3>1, <3>2
    <2> QED
      BY <2>1, <2>3
  <1> QED
    BY <1>2, <1>3, <1>4, <1>5, PageIs

(* The peers of a session that goes on do not lose each other.             *)
LEMMA OnItsWay ==
    ASSUME PagesTypeOK, NEW s, NEW h \in Clients, NEW k \in Clients,
           Begs(uplink[k], "clientanswer", s) # {} \/ Brings(downlink[h], "client", s)
    PROVE  AnswerOnItsWay(s)
  <1>1. PICK q \in Seq(Up), w \in Seq(SUBSET Message) : q = uplink[k] /\ w = downlink[h]
    BY Typed
  <1>2. CASE Begs(q, "clientanswer", s) # {}
    <2>1. PICK i \in DOMAIN q : q[i].type = "clientanswer" /\ q[i].id = s
      BY <1>2 DEF Begs
    <2>2. PICK m \in Up : m = q[i]
      OBVIOUS
    <2>3. m = SessionMsg("clientanswer", s)
      <3>1. m \notin {Msg(t) : t \in {"connected", "create", "join", "name", "share", "stopshare",
                                     "enable_all", "disable_all", "dissolve", "gone"}}
        BY <2>1, <2>2 DEF Msg
      <3>2. m \notin {TargetMsg(t, d) : t \in OwnerActions, d \in Clients}
        BY <2>1, <2>2, PagesAssumption DEF TargetMsg
      <3>3. PICK t \in {"hostoffer", "clientanswer"}, x \in SessionIds : m = SessionMsg(t, x)
        BY <3>1, <3>2 DEF Up
      <3> QED
        BY <2>1, <2>2, <3>3 DEF SessionMsg
    <2>4. SessionMsg("clientanswer", s) \in Range(uplink[k])
      BY <1>1, <2>2, <2>3 DEF Range
    <2> QED
      BY <2>4 DEF AnswerOnItsWay
  <1>3. CASE Brings(w, "client", s)
    <2>1. PICK i \in DOMAIN w : \E m \in w[i] : m.type = "client" /\ m.id = s
      BY <1>3 DEF Brings
    <2>2. PICK m \in w[i] : m.type = "client" /\ m.id = s
      BY <2>1
    <2>3. m \in Message
      OBVIOUS
    <2>4. m = ClientMsg(s)
      <3>1. m \notin {RoomMsg(users) : users \in PartialFn(Clients, User)}
        BY <2>2 DEF RoomMsg
      <3>2. /\ m \notin {HostSession(x, p) : x \in SessionIds, p \in Clients}
            /\ m \notin {ClientSession(x, p) : x \in SessionIds, p \in Clients}
        BY <2>2 DEF HostSession, ClientSession
      <3>3. m \notin {EndShare(x) : x \in SessionIds} \cup {HostMsg(x) : x \in SessionIds}
        BY <2>2 DEF EndShare, HostMsg
      <3>4. m \notin {CloseWriter(reason) : reason \in Reasons}
        BY <2>2 DEF CloseWriter
      <3>5. m \in {ClientMsg(x) : x \in SessionIds}
        BY <2>3, <3>1, <3>2, <3>3, <3>4 DEF Message
      <3> QED
        BY <2>2, <3>5 DEF ClientMsg
    <2>5. ClientMsg(s) \in UNION Range(downlink[h])
      BY <1>1, <2>2, <2>4 DEF Range
    <2> QED
      BY <2>5 DEF AnswerOnItsWay
  <1> QED
    BY <1>1, <1>2, <1>3

LEMMA LiveIsNotLost ==
    ASSUME PagesTypeOK, EndsHold, NEW s, NEW h \in Clients, NEW k \in Clients, Hosts(s, h), Watches(s, k),
           Shared(h), Shared(k), Tidy(page[k], uplink[k], downlink[k]),
           Unanswered(s, h, k) \/ Answered(s, h, k),
           NEW c \in {h, k}
    PROVE  ~PeerLost(c, s)
  <1>1. s \in UsedIds(rooms)
    BY UsedBy DEF Hosts, UsedIds
  <1>2. s \notin DOMAIN page[h].client
    <2>1. ~Watches(s, h)
      BY DEF EndsHold
    <2> QED
      BY <1>1, <2>1 DEF Shared, AtClient
  <1>3. s \notin DOMAIN page[k].host
    <2>1. ~Hosts(s, k)
      BY DEF EndsHold
    <2> QED
      BY <1>1, <2>1 DEF Shared, AtHost
  <1>4. ~HostLost(k, s) /\ ~ClientLost(h, s)
    BY <1>2, <1>3 DEF HostLost, ClientLost
  <1>5. ~HostLost(h, s)
    <2>1. CASE Unanswered(s, h, k)
      BY <2>1 DEF HostLost, Unanswered
    <2>2. CASE Answered(s, h, k)
      <3>1. s \in DOMAIN page[k].client
        BY <2>2 DEF Answered, Tidy
      <3> QED
        BY <3>1 DEF HostLost
    <2> QED
      BY <2>1, <2>2
  <1>6. ~ClientLost(k, s)
    <2>1. CASE Unanswered(s, h, k)
      BY <2>1 DEF ClientLost, Unanswered
    <2>2. CASE Answered(s, h, k)
      <3>1. \/ Begs(uplink[k], "clientanswer", s) # {} \/ Brings(downlink[h], "client", s)
            \/ s \in DOMAIN page[h].host /\ page[h].host[s] = "connected"
        BY <2>2 DEF Answered
      <3> QED
        BY <3>1, OnItsWay DEF ClientLost
    <2> QED
      BY <2>1, <2>2
  <1> QED
    BY <1>4, <1>5, <1>6 DEF PeerLost

(* A session goes on when its host does, and when its client does.         *)
LEMMA HostLinks ==
    ASSUME NEW s, NEW h \in Clients, NEW k \in Clients, Linking(s, h, k), ~Doomed(h, k),
           page'[k] = page[k], uplink'[k] = uplink[k], downlink'[k] = downlink[k],
           HostGoesOn(page[h], page'[h], uplink[h], uplink'[h], downlink[h], downlink'[h], s)
    PROVE  Linking(s, h, k)'
  <1>1. CASE Asks(uplink'[h], "stopshare") # {}
    BY <1>1 DEF Linking, Doomed
  <1>2. CASE Asks(uplink'[h], "stopshare") = {}
    <2>1. PICK p, p2, q, q2, w, w2 :
              /\ p = page[h] /\ p2 = page'[h] /\ q = uplink[h] /\ q2 = uplink'[h]
              /\ w = downlink[h] /\ w2 = downlink'[h]
      OBVIOUS
    <2>2. /\ s \in DOMAIN p.host => s \in DOMAIN p2.host
          /\ Begs(q, "hostoffer", s) \subseteq Begs(q2, "hostoffer", s)
          /\ Brings(w2, "client", s) => Brings(w, "client", s)
          /\ s \in DOMAIN p2.host /\ p2.host[s] # "offered" =>
                Brings(w, "client", s) \/ (s \in DOMAIN p.host /\ p.host[s] # "offered")
          /\ s \in DOMAIN p.host /\ (Brings(w, "client", s) \/ p.host[s] = "connected") =>
                Brings(w2, "client", s) \/ p2.host[s] = "connected"
          /\ Brings(w, "hostsession", s) \/ s \in p.offering =>
                \/ Brings(w2, "hostsession", s) \/ s \in p2.offering
                \/ s \in DOMAIN p2.host /\ Begs(q2, "hostoffer", s) # {}
      BY <1>2, <2>1 DEF HostGoesOn
    <2>3. ASSUME Unanswered(s, h, k) PROVE Unanswered(s, h, k)'
      BY <2>1, <2>2, <2>3 DEF Unanswered
    <2>4. ASSUME Foretold(s, h) PROVE Foretold(s, h)' \/ Offered(s, h, k)'
      BY <2>1, <2>2, <2>4 DEF Foretold, Offered
    <2>5. ASSUME Offered(s, h, k) PROVE Offered(s, h, k)'
      BY <2>1, <2>2, <2>5 DEF Offered
    <2>6. ASSUME Answered(s, h, k) PROVE Answered(s, h, k)'
      BY <2>1, <2>2, <2>6 DEF Answered
    <2> QED
      BY <2>3, <2>4, <2>5, <2>6 DEF Linking
  <1> QED
    BY <1>1, <1>2

LEMMA ClientLinks ==
    ASSUME NEW s \in SessionIds, NEW h \in Clients, NEW k \in Clients, Linking(s, h, k), ~Doomed(h, k),
           Apart(h, k),
           page'[h] = page[h], uplink'[h] = uplink[h], downlink'[h] = downlink[h],
           ClientGoesOn(page[k], page'[k], uplink[k], uplink'[k], downlink[k], downlink'[k], s)
    PROVE  Linking(s, h, k)'
  <1>1. PICK p, p2, q, q2, w, w2 :
            /\ p = page[k] /\ p2 = page'[k] /\ q = uplink[k] /\ q2 = uplink'[k]
            /\ w = downlink[k] /\ w2 = downlink'[k]
    OBVIOUS
  <1>2. /\ s \in p.shows => s \in p2.shows
        /\ Begs(q, "clientanswer", s) \subseteq Begs(q2, "clientanswer", s)
    BY <1>1 DEF ClientGoesOn
  <1>3. ASSUME Answered(s, h, k) PROVE Answered(s, h, k)'
    BY <1>1, <1>2, <1>3 DEF Answered
  <1>4. CASE s \in p.answering /\ s \in p2.shows /\ Begs(q2, "clientanswer", s) # {}
    <2>1. ~Foretold(s, h)
      BY <1>1, <1>4 DEF Foretold, Apart, Holds, Answers
    <2>2. s \in DOMAIN page[h].host
      BY <2>1 DEF Linking, Answered, Offered
    <2> QED
      BY <1>1, <1>4, <2>2 DEF Linking, Answered
  <1>5. CASE /\ Begs(q2, "clientanswer", s) = Begs(q, "clientanswer", s)
             /\ s \in DOMAIN p2.client /\ p2.client[s] # "new" =>
                   s \in DOMAIN p.client /\ p.client[s] # "new"
             /\ Knows(p, w, s) => Knows(p2, w2, s)
             /\ Knows(p, w, s) /\ Ready(p, w, s) => Ready(p2, w2, s)
    <2>1. ASSUME Unanswered(s, h, k) PROVE Unanswered(s, h, k)' /\ Knows(p, w, s)
      BY <1>1, <1>5, <2>1 DEF Unanswered, Knows
    <2>2. Foretold(s, h) => Foretold(s, h)'
      BY DEF Foretold
    <2>3. ASSUME Offered(s, h, k), Knows(p, w, s) PROVE Offered(s, h, k)'
      BY <1>1, <1>5, <2>3 DEF Offered, Ready
    <2> QED
      BY <1>3, <2>1, <2>2, <2>3 DEF Linking
  <1> QED
    BY <1>1, <1>4, <1>5 DEF ClientGoesOn

(* Both ends of a live session go on with it when either does something.   *)
LEMMA MoverOpen ==
    ASSUME NEW c, Move(c), NEW s \in SessionIds, NEW h \in Clients, NEW k \in Clients,
           Hosts(s, h), Watches(s, k), ~Doomed(h, k), Linking(s, h, k), c \in {h, k},
           IsOpen(c), IsOpen(c)', ~Broken(s, h, k)'
    PROVE  \E p, p2, w, w2 : \E q \in Seq(Up), q2 \in Seq(Up) :
              /\ p = page[c] /\ p2 = page'[c] /\ q = uplink[c] /\ q2 = uplink'[c]
              /\ w = downlink[c] /\ w2 = downlink'[c]
              /\ \/ \E y : Tends(p, p2, q, q2, w, w2, y)
                 \/ \E y \in SessionIds : OffersOne(p, p2, q, q2, w, w2, y)
                 \/ \E y \in SessionIds : EndsOne(p, p2, q, q2, w, w2, y) /\ s # y
  <1>1. PICK p, p2, w, w2 : \E q \in Seq(Up), q2 \in Seq(Up) :
              /\ p = page[c] /\ p2 = page'[c] /\ q = uplink[c] /\ q2 = uplink'[c]
              /\ w = downlink[c] /\ w2 = downlink'[c]
              /\ \/ ShutsDown(p, p2, q, q2, w, w2)
                 \/ \E y : Tends(p, p2, q, q2, w, w2, y)
                 \/ \E y \in SessionIds : OffersOne(p, p2, q, q2, w, w2, y)
                 \/ \E y \in SessionIds : /\ EndsOne(p, p2, q, q2, w, w2, y)
                                          /\ PeerLost(c, y) \/ y \in p2.lost \/ Brings(w, "endshare", y)
    BY MovePicks
  <1>2. PICK q \in Seq(Up), q2 \in Seq(Up) :
              /\ p = page[c] /\ p2 = page'[c] /\ q = uplink[c] /\ q2 = uplink'[c]
              /\ w = downlink[c] /\ w2 = downlink'[c]
              /\ \/ ShutsDown(p, p2, q, q2, w, w2)
                 \/ \E y : Tends(p, p2, q, q2, w, w2, y)
                 \/ \E y \in SessionIds : OffersOne(p, p2, q, q2, w, w2, y)
                 \/ \E y \in SessionIds : /\ EndsOne(p, p2, q, q2, w, w2, y)
                                          /\ PeerLost(c, y) \/ y \in p2.lost \/ Brings(w, "endshare", y)
    BY <1>1
  <1>3. /\ PagesTypeOK /\ EndsHold /\ Shared(h) /\ Shared(k) /\ Shared(c)
        /\ Tidy(page[k], uplink[k], downlink[k])
    BY MoveIs
  <1>4. ~ShutsDown(p, p2, q, q2, w, w2)
    BY <1>2 DEF ShutsDown, IsOpen
  <1>5. ~PeerLost(c, s)
    <2>1. Unanswered(s, h, k) \/ Answered(s, h, k)
      BY DEF Linking
    <2> QED
      BY <1>3, <2>1, LiveIsNotLost
  <1>6. ~Brings(w, "endshare", s)
    <2>1. s \in UsedIds(rooms)
      BY UsedBy DEF Hosts, UsedIds
    <2> QED
      BY <1>2, <1>3, <2>1 DEF Shared
  <1>7. s \notin p2.lost
    BY <1>2 DEF Broken
  <1> QED
    BY <1>2, <1>4, <1>5, <1>6, <1>7

LEMMA HostMoves ==
    ASSUME NEW c, Move(c), NEW s \in SessionIds, NEW k \in Clients,
           Hosts(s, c), Watches(s, k), ~Doomed(c, k), Linking(s, c, k), IsOpen(c), IsOpen(c)',
           ~Broken(s, c, k)'
    PROVE  HostGoesOn(page[c], page'[c], uplink[c], uplink'[c], downlink[c], downlink'[c], s)
  <1>1. /\ c \in Clients /\ EndsHold /\ Shared(c) /\ Capture(c)
        /\ Tidy(page[c], uplink[c], downlink[c])
    BY MoveIs
  <1>2. PICK p, p2, w, w2 : \E q \in Seq(Up), q2 \in Seq(Up) :
              /\ p = page[c] /\ p2 = page'[c] /\ q = uplink[c] /\ q2 = uplink'[c]
              /\ w = downlink[c] /\ w2 = downlink'[c]
              /\ \/ \E y : Tends(p, p2, q, q2, w, w2, y)
                 \/ \E y \in SessionIds : OffersOne(p, p2, q, q2, w, w2, y)
                 \/ \E y \in SessionIds : EndsOne(p, p2, q, q2, w, w2, y) /\ s # y
    BY <1>1, MoverOpen
  <1>3. PICK q \in Seq(Up), q2 \in Seq(Up) :
              /\ p = page[c] /\ p2 = page'[c] /\ q = uplink[c] /\ q2 = uplink'[c]
              /\ w = downlink[c] /\ w2 = downlink'[c]
              /\ \/ \E y : Tends(p, p2, q, q2, w, w2, y)
                 \/ \E y \in SessionIds : OffersOne(p, p2, q, q2, w, w2, y)
                 \/ \E y \in SessionIds : EndsOne(p, p2, q, q2, w, w2, y) /\ s # y
    BY <1>2
  <1>4. OpenPage(p)
    BY <1>3 DEF OpenPage, IsOpen
  <1>5. p.stream \/ Asks(q, "stopshare") # {}
    <2>1. Performs(c)
      BY <1>1 DEF EndsHold
    <2> QED
      BY <1>1, <1>3, <2>1 DEF Capture
  <1>6. s \notin p.mute
    <2>1. s \in UsedIds(rooms)
      BY UsedBy DEF Hosts, UsedIds
    <2> QED
      BY <1>1, <1>3, <2>1 DEF Shared
  <1>7. s \in p.offering => Unoffered(p, q, s)
    BY <1>1, <1>3 DEF Tidy
  <1>8. ASSUME NEW y, Tends(p, p2, q, q2, w, w2, y) PROVE HostGoesOn(p, p2, q, q2, w, w2, s)
    BY <1>4, <1>5, <1>8, TendsHost
  <1>9. ASSUME NEW y, EndsOne(p, p2, q, q2, w, w2, y) /\ s # y
        PROVE  HostGoesOn(p, p2, q, q2, w, w2, s)
    BY <1>4, <1>5, <1>9, TendsHost
  <1>10. ASSUME NEW y \in SessionIds, OffersOne(p, p2, q, q2, w, w2, y)
         PROVE  HostGoesOn(p, p2, q, q2, w, w2, s)
    <2>1. s = y => Unoffered(p, q, s)
      BY <1>7, <1>10 DEF OffersOne
    <2> QED
      BY <1>4, <1>6, <1>10, <2>1, OffersOneHost
  <1> QED
    BY <1>3, <1>8, <1>9, <1>10

LEMMA ClientMoves ==
    ASSUME NEW c, Move(c), NEW s \in SessionIds, NEW h \in Clients,
           Hosts(s, h), Watches(s, c), ~Doomed(h, c), Linking(s, h, c), IsOpen(c), IsOpen(c)',
           ~Broken(s, h, c)'
    PROVE  ClientGoesOn(page[c], page'[c], uplink[c], uplink'[c], downlink[c], downlink'[c], s)
  <1>1. c \in Clients /\ Shared(c) /\ Tidy(page[c], uplink[c], downlink[c])
    BY MoveIs
  <1>2. PICK p, p2, w, w2 : \E q \in Seq(Up), q2 \in Seq(Up) :
              /\ p = page[c] /\ p2 = page'[c] /\ q = uplink[c] /\ q2 = uplink'[c]
              /\ w = downlink[c] /\ w2 = downlink'[c]
              /\ \/ \E y : Tends(p, p2, q, q2, w, w2, y)
                 \/ \E y \in SessionIds : OffersOne(p, p2, q, q2, w, w2, y)
                 \/ \E y \in SessionIds : EndsOne(p, p2, q, q2, w, w2, y) /\ s # y
    BY <1>1, MoverOpen
  <1>3. PICK q \in Seq(Up), q2 \in Seq(Up) :
              /\ p = page[c] /\ p2 = page'[c] /\ q = uplink[c] /\ q2 = uplink'[c]
              /\ w = downlink[c] /\ w2 = downlink'[c]
              /\ \/ \E y : Tends(p, p2, q, q2, w, w2, y)
                 \/ \E y \in SessionIds : OffersOne(p, p2, q, q2, w, w2, y)
                 \/ \E y \in SessionIds : EndsOne(p, p2, q, q2, w, w2, y) /\ s # y
    BY <1>2
  <1>4. OpenPage(p)
    BY <1>3 DEF OpenPage, IsOpen
  <1>5. s \notin p.mute
    <2>1. s \in UsedIds(rooms)
      BY UsedBy DEF Hosts, UsedIds
    <2> QED
      BY <1>1, <1>3, <2>1 DEF Shared
  <1>6. InTurn(w) /\ (p.ws # "in" => p.answering \subseteq p.mute)
    BY <1>1, <1>3 DEF Tidy
  <1>7. ASSUME NEW y, \/ Tends(p, p2, q, q2, w, w2, y)
                      \/ OffersOne(p, p2, q, q2, w, w2, y)
                      \/ EndsOne(p, p2, q, q2, w, w2, y) /\ s # y
        PROVE  ClientGoesOn(p, p2, q, q2, w, w2, s)
    BY <1>4, <1>5, <1>6, <1>7, TendsClient
  <1> QED
    BY <1>3, <1>7

(* What a page has said is not lost while its connection is there.         *)
LEMMA MoveAsks ==
    ASSUME NEW c, Move(c), NEW d \in Clients, IsOpen(d)', NEW x
    PROVE  Asks(uplink[d], x) \subseteq Asks(uplink'[d], x)
  <1>1. CASE d # c
    BY <1>1, MoveIs
  <1>2. CASE d = c
    <2>1. PICK p, p2, w, w2 : \E q \in Seq(Up), q2 \in Seq(Up) :
              /\ p = page[c] /\ p2 = page'[c] /\ q = uplink[c] /\ q2 = uplink'[c]
              /\ w = downlink[c] /\ w2 = downlink'[c]
              /\ \/ ShutsDown(p, p2, q, q2, w, w2)
                 \/ \E y : Tends(p, p2, q, q2, w, w2, y)
                 \/ \E y \in SessionIds : OffersOne(p, p2, q, q2, w, w2, y)
                 \/ \E y \in SessionIds : EndsOne(p, p2, q, q2, w, w2, y)
      BY MovePicks
    <2>2. PICK q, q2 :
              /\ p = page[c] /\ p2 = page'[c] /\ q = uplink[c] /\ q2 = uplink'[c]
              /\ w = downlink[c] /\ w2 = downlink'[c]
              /\ \/ ShutsDown(p, p2, q, q2, w, w2)
                 \/ \E y : \/ Tends(p, p2, q, q2, w, w2, y) \/ OffersOne(p, p2, q, q2, w, w2, y)
                           \/ EndsOne(p, p2, q, q2, w, w2, y)
      BY <2>1
    <2>3. ~ShutsDown(p, p2, q, q2, w, w2)
      BY <1>2, <2>2 DEF ShutsDown, IsOpen
    <2>4. PICK y : \/ Tends(p, p2, q, q2, w, w2, y) \/ OffersOne(p, p2, q, q2, w, w2, y)
                   \/ EndsOne(p, p2, q, q2, w, w2, y)
      BY <2>2, <2>3
    <2>5. \A t : Asks(q, t) \subseteq Asks(q2, t)
      BY <2>4, TendsAsks
    <2> QED
      BY <1>2, <2>2, <2>5
  <1> QED
    BY <1>1, <1>2

LEMMA MoveLinks ==
    ASSUME NEW c, Move(c), NEW s \in SessionIds, NEW h \in Clients, NEW k \in Clients,
           Hosts(s, h)', Watches(s, k)', ~Broken(s, h, k)'
    PROVE  Linking(s, h, k)'
  <1>1. /\ Hosts(s, h) /\ Watches(s, k) /\ EndsHold /\ EndsHold' /\ Apart(h, k)
        /\ \A d \in Clients \ {c} :
              uplink'[d] = uplink[d] /\ downlink'[d] = downlink[d] /\ page'[d] = page[d]
    BY MoveIs
  <1>2. h # k
    BY <1>1 DEF EndsHold
  <1>3. Linking(s, h, k) \/ Broken(s, h, k)
    BY <1>1 DEF Move, SessionsInv
  <1>4. h \in DOMAIN connected' /\ k \in DOMAIN connected'
    BY <1>1 DEF EndsHold
  <1>5. CASE Asks(uplink'[h], "gone") # {} \/ Asks(uplink'[k], "gone") # {}
    BY <1>5 DEF Linking, Doomed
  <1>6. CASE Asks(uplink'[h], "gone") = {} /\ Asks(uplink'[k], "gone") = {}
    <2>1. IsOpen(h) /\ IsOpen(h)' /\ IsOpen(k) /\ IsOpen(k)'
      BY <1>4, <1>6, MovePresent
    <2>2. ~Broken(s, h, k)
      <3>1. page'[h].ws # "closed" /\ page'[k].ws # "closed"
        BY <2>1 DEF IsOpen
      <3>2. page[h].lost \subseteq page'[h].lost /\ page[k].lost \subseteq page'[k].lost
        BY <1>1, <3>1 DEF Move, Remembers
      <3> QED
        BY <3>2 DEF Broken
    <2>3. Linking(s, h, k)
      BY <1>3, <2>2
    <2>4. CASE Doomed(h, k)
      <3>1. Asks(uplink[h], "stopshare") \subseteq Asks(uplink'[h], "stopshare")
        BY <2>1, MoveAsks
      <3>2. Asks(uplink[h], "gone") \subseteq Asks(uplink'[h], "gone")
        BY <2>1, MoveAsks
      <3>3. Asks(uplink[k], "gone") \subseteq Asks(uplink'[k], "gone")
        BY <2>1, MoveAsks
      <3>4. Doomed(h, k)'
        BY <2>4, <3>1, <3>2, <3>3 DEF Doomed
      <3> QED
        BY <3>4 DEF Linking
    <2>5. CASE ~Doomed(h, k) /\ c = h
      <3>1. HostGoesOn(page[h], page'[h], uplink[h], uplink'[h], downlink[h], downlink'[h], s)
        BY <1>1, <2>1, <2>5, <2>3, HostMoves
      <3>2. uplink'[k] = uplink[k] /\ downlink'[k] = downlink[k] /\ page'[k] = page[k]
        BY <1>1, <1>2, <2>5
      <3> QED
        BY <2>5, <2>3, <3>1, <3>2, HostLinks
    <2>6. CASE ~Doomed(h, k) /\ c = k
      <3>1. ClientGoesOn(page[k], page'[k], uplink[k], uplink'[k], downlink[k], downlink'[k], s)
        BY <1>1, <2>1, <2>6, <2>3, ClientMoves
      <3>2. uplink'[h] = uplink[h] /\ downlink'[h] = downlink[h] /\ page'[h] = page[h]
        BY <1>1, <1>2, <2>6
      <3> QED
        BY <1>1, <2>6, <2>3, <3>1, <3>2, ClientLinks
    <2>7. CASE c # h /\ c # k
      <3>1. /\ uplink'[h] = uplink[h] /\ downlink'[h] = downlink[h] /\ page'[h] = page[h]
            /\ uplink'[k] = uplink[k] /\ downlink'[k] = downlink[k] /\ page'[k] = page[k]
        BY <1>1, <2>7
      <3> QED
        BY <2>3, <3>1 DEF Linking, Doomed, Unanswered, Foretold, Offered, Answered
    <2> QED
      BY <2>4, <2>5, <2>6, <2>7
  <1> QED
    BY <1>5, <1>6

LEMMA MoveConnects ==
    ASSUME RoomIdsAreNames, PagesInv, PagesInv', SessionsInv, NEW c \in Clients, Moves(c)
    PROVE  SessionsInv'
  <1>1. PagesTypeOK /\ Link(c)
    BY DEF PagesInv
  <1>2. Move(c)
    BY <1>1, MovesAct, MovesDo, MovesRemember DEF Move
  <1>3. ASSUME NEW s \in SessionIds, NEW h \in Clients, NEW k \in Clients,
               Hosts(s, h)', Watches(s, k)'
        PROVE  Linking(s, h, k)' \/ Broken(s, h, k)'
    BY <1>2, <1>3, MoveLinks
  <1> QED
    BY <1>2, <1>3, MoveTidy, MoveShared, MoveApart, MoveStopped DEF SessionsInv
-----------------------------------------------------------------------------
LEMMA SessionsInitInv == PagesInit => SessionsInv
  <1> SUFFICES ASSUME PagesInit PROVE SessionsInv
    OBVIOUS
  <1>1. /\ rooms = EmptyMap /\ page = [c \in Clients |-> NewPage]
        /\ uplink = [c \in Clients |-> << >>] /\ downlink = [c \in Clients |-> << >>]
    BY DEF PagesInit, Init
  <1>2. DOMAIN EmptyMap = {}
    BY DEF EmptyMap
  <1>3. UsedIds(rooms) = {} /\ \A s, d : ~Hosts(s, d)
    BY <1>1, <1>2 DEF UsedIds, Hosts
  <1>4. NewPage.offering = {} /\ NewPage.answering = {} /\ NewPage.shows = {} /\ NewPage.mute = {}
    BY DEF NewPage
  <1>5. NewPage.host = EmptyMap /\ NewPage.client = EmptyMap
    BY DEF NewPage
  <1>6. \A s : ~Brings(<< >>, "hostsession", s) /\ ~Brings(<< >>, "clientsession", s)
    BY BringsNothing
  <1>7. Tidy(NewPage, << >>, << >>)
    BY <1>2, <1>4, <1>5, <1>6, BringsNothing DEF Tidy
  <1>8. \A s : ~Holds(NewPage, << >>, s)
    BY <1>2, <1>4, <1>5, <1>6 DEF Holds
  <1> QED
    BY <1>1, <1>3, <1>7, <1>8 DEF SessionsInv, Shared, Apart, Stopped

LEMMA SessionsNextInv ==
    ASSUME RoomIdsAreNames, PagesInv, SessionsInv, [PagesNext]_pagesVars
    PROVE  SessionsInv'
  <1>1. PagesInv'
    BY PagesNextInv
  <1>2. CASE PagesNext
    BY <1>1, <1>2, PagesNextIs, MoveConnects, ServeConnects
  <1>3. CASE UNCHANGED pagesVars
    <2>1. rooms' = rooms /\ uplink' = uplink /\ downlink' = downlink /\ page' = page
      BY <1>3 DEF pagesVars, loop
    <2>2. \A c \in Clients : Tidy(page[c], uplink[c], downlink[c])'
      BY <2>1 DEF SessionsInv
    <2>3. \A c \in Clients : Shared(c)'
      BY <2>1 DEF SessionsInv, Shared, Hosts, Watches, UsedIds, IsOpen
    <2>4. \A c, d \in Clients : Apart(c, d)'
      BY <2>1 DEF SessionsInv, Apart
    <2>5. \A c \in Clients : Stopped(c)'
      BY <2>1 DEF SessionsInv, Stopped, UsedIds
    <2>6. \A s \in SessionIds, h, k \in Clients :
             Hosts(s, h)' /\ Watches(s, k)' => Linking(s, h, k)' \/ Broken(s, h, k)'
      BY <2>1 DEF SessionsInv, Hosts, Watches, Linking, Broken, Doomed, Unanswered, Foretold,
                  Offered, Answered
    <2> QED
      BY <2>2, <2>3, <2>4, <2>5, <2>6 DEF SessionsInv
  <1> QED
    BY <1>2, <1>3

(* The ends of each session agree with each other, with the loop and with  *)
(* what is on its way, after any step of any page, of the loop or of the   *)
(* network; only a session whose peers the network took may have ends that *)
(* do not.                                                                 *)
THEOREM SessionsInvHolds == RoomIdsAreNames => (PagesSpec => [](PagesInv /\ SessionsInv))
  <1> SUFFICES ASSUME RoomIdsAreNames PROVE PagesSpec => [](PagesInv /\ SessionsInv)
    OBVIOUS
  <1>1. PagesInv /\ SessionsInv /\ [PagesNext]_pagesVars => (PagesInv /\ SessionsInv)'
    BY PagesNextInv, SessionsNextInv
  <1> QED
    BY <1>1, PagesInitInv, SessionsInitInv, PTL DEF PagesSpec

(* Once nothing is on its way, the two pages of every session are          *)
(* connected and the viewer shows the stream, whoever stopped, started     *)
(* again, left or lost its WebSocket before, unless the peer connection    *)
(* of this session is one that the network broke.                          *)
THEOREM SessionsDoConnect == RoomIdsAreNames => (PagesSpec => []SessionsAreConnected)
  <1> SUFFICES ASSUME RoomIdsAreNames PROVE PagesSpec => []SessionsAreConnected
    OBVIOUS
  <1>1. PagesInv /\ SessionsInv => SessionsAreConnected
    <2> SUFFICES ASSUME PagesInv, SessionsInv, Settled, NEW r \in DOMAIN rooms,
                        NEW s \in DOMAIN rooms[r].sessions
                 PROVE  LET ends == rooms[r].sessions[s] IN
                        \/ /\ s \in DOMAIN page[ends.host].host
                           /\ page[ends.host].host[s] = "connected"
                           /\ s \in page[ends.client].shows
                        \/ s \in page[ends.host].lost \cup page[ends.client].lost
      BY DEF SessionsAreConnected
    <2>1. PICK h, k : h = rooms[r].sessions[s].host /\ k = rooms[r].sessions[s].client
      OBVIOUS
    <2>2. Hosts(s, h) /\ Watches(s, k)
      BY <2>1 DEF Hosts, Watches
    <2>3. h \in Clients /\ k \in Clients /\ s \in SessionIds
      BY <2>2, EndsNow DEF EndsHold
    <2>4. Linking(s, h, k) \/ Broken(s, h, k)
      BY <2>2, <2>3 DEF SessionsInv
    <2>5. /\ uplink[h] = << >> /\ uplink[k] = << >> /\ downlink[h] = << >> /\ downlink[k] = << >>
          /\ page[h].offering = {} /\ page[k].answering = {}
      BY <2>3 DEF Settled
    <2>6. ~Doomed(h, k)
      BY <2>5, AsksNothing DEF Doomed
    <2>7. ~Foretold(s, h) /\ ~Offered(s, h, k)
      <3>1. /\ ~Brings(downlink[h], "hostsession", s) /\ Begs(uplink[h], "hostoffer", s) = {}
            /\ ~Brings(downlink[k], "host", s)
        BY <2>5, BringsNothing
      <3> QED
        BY <2>5, <3>1 DEF Foretold, Offered
    <2>8. Answered(s, h, k) \/ Broken(s, h, k)
      BY <2>4, <2>6, <2>7 DEF Linking
    <2>9. Begs(uplink[k], "clientanswer", s) = {} /\ ~Brings(downlink[h], "client", s)
      BY <2>5, BringsNothing
    <2> QED
      BY <2>1, <2>8, <2>9 DEF Answered, Broken
  <1> QED
    BY <1>1, SessionsInvHolds, PTL

(* A viewer shows a stream only while some page captures and sends it.     *)
THEOREM StoppedAreNotWatched == RoomIdsAreNames => (PagesSpec => []StoppedIsNotWatched)
  <1> SUFFICES ASSUME RoomIdsAreNames PROVE PagesSpec => []StoppedIsNotWatched
    OBVIOUS
  <1>1. PagesInv /\ SessionsInv => StoppedIsNotWatched
    <2> SUFFICES ASSUME PagesInv, SessionsInv, Settled, NEW c \in Clients, NEW s \in page[c].shows
                 PROVE  \E d \in Clients : page[d].stream /\ s \in DOMAIN page[d].host
      BY DEF StoppedIsNotWatched
    <2>1. PagesTypeOK
      BY DEF PagesInv
    <2>2. s \in SessionIds
      BY <2>1, Typed, PageIs
    <2>3. s \in DOMAIN page[c].client /\ page[c].client[s] = "answered"
      BY DEF SessionsInv, Tidy
    <2>4. ~ClientLost(c, s)
      BY <2>2 DEF Settled
    <2>5. ~AnswerOnItsWay(s)
      <3>1. \A d \in Clients : uplink[d] = << >> /\ downlink[d] = << >>
        BY DEF Settled
      <3>2. Range(<< >>) = {}
        BY DEF Range
      <3> QED
        BY <3>1, <3>2 DEF AnswerOnItsWay
    <2>6. PICK d \in Clients : s \in DOMAIN page[d].host /\ page[d].host[s] # "offered"
      BY <2>3, <2>4, <2>5 DEF ClientLost
    <2>7. page[d].host \in PartialFn(SessionIds, {"offered", "connected"})
      BY <2>1, Typed, PageIs
    <2>8. page[d].host[s] = "connected"
      BY <2>6, <2>7 DEF PartialFn
    <2>9. page[d].stream
      BY <2>6, <2>8 DEF SessionsInv, Tidy
    <2> QED
      BY <2>6, <2>9
  <1> QED
    BY <1>1, SessionsInvHolds, PTL
=============================================================================
