------------------------- MODULE ConnectionsProofs -------------------------
(***************************************************************************)
(* The safety properties of Connections hold for any number of             *)
(* connections and however much one message makes the loop write.          *)
(***************************************************************************)
EXTENDS Connections, TLAPS

(* A connection that the loop has not registered has no goroutine yet, and *)
(* one whose goroutines have not started has not been given up.            *)
Unregistered(c) == upgrade[c] \in {"none", "send"}
Quiescent ==
    \A c \in Clients :
        /\ Unregistered(c) => c \notin Addressed
        /\ upgrade[c] # "done" => writer[c] = "off" /\ reader[c] = "off" /\ ~claimed[c]

(* What is still to be written ends with the close, for those the loop has *)
(* forgotten and for no other.                                             *)
IsClose(item) == item.what = "close"
CloseIsLast ==
    /\ ClosesLast(todo)
    /\ \A i \in DOMAIN todo : IsClose(todo[i]) => todo[i].to \notin served
    /\ \A c \in Clients : channel[c] = "close" => c \notin served \cup Targets(todo)

IInv == TypeOK /\ Quiescent /\ CloseIsLast /\ WriterOutlivesService /\ NoGhost
-----------------------------------------------------------------------------
LEMMA TargetsAreClients ==
    ASSUME NEW s \in Seq(Item)
    PROVE  Targets(s) \subseteq Clients
  <1>1. ASSUME NEW i \in DOMAIN s PROVE s[i].to \in Clients
    <2>1. s[i] \in Item
      OBVIOUS
    <2> QED
      BY <2>1 DEF Item
  <1> QED
    BY <1>1 DEF Targets

(* What is left to write when the first item is done with.                 *)
LEMMA Rest ==
    ASSUME NEW s \in Seq(Item), s # << >>, ClosesLast(s)
    PROVE  /\ Head(s) \in Item /\ Tail(s) \in Seq(Item)
           /\ Head(s).to \in Targets(s)
           /\ Targets(Tail(s)) \subseteq Targets(s)
           /\ ClosesLast(Tail(s))
           /\ \A i \in DOMAIN Tail(s) : i + 1 \in DOMAIN s /\ Tail(s)[i] = s[i + 1]
           /\ IsClose(Head(s)) => Head(s).to \notin Targets(Tail(s))
  <1>1. Head(s) = s[1] /\ 1 \in DOMAIN s /\ Head(s) \in Item /\ Tail(s) \in Seq(Item)
    OBVIOUS
  <1>2. \A i \in DOMAIN Tail(s) : i \in Nat /\ i > 0 /\ i + 1 \in DOMAIN s /\ Tail(s)[i] = s[i + 1]
    OBVIOUS
  <1>3. Head(s).to \in Targets(s) /\ Targets(Tail(s)) \subseteq Targets(s)
    BY <1>1, <1>2 DEF Targets
  <1>4. ClosesLast(Tail(s))
    <2> SUFFICES ASSUME NEW i \in DOMAIN Tail(s), NEW j \in DOMAIN Tail(s),
                        i < j, Tail(s)[i].what = "close"
                 PROVE  Tail(s)[j].to # Tail(s)[i].to
      BY DEF ClosesLast
    <2> i + 1 < j + 1 /\ s[i + 1].what = "close"
      BY <1>2
    <2> QED
      BY <1>2 DEF ClosesLast
  <1>5. IsClose(Head(s)) => Head(s).to \notin Targets(Tail(s))
    <2> SUFFICES ASSUME IsClose(Head(s)), NEW i \in DOMAIN Tail(s)
                 PROVE  Tail(s)[i].to # Head(s).to
      BY DEF Targets
    <2> 1 < i + 1 /\ s[1].what = "close"
      BY <1>1, <1>2 DEF IsClose
    <2> QED
      BY <1>1, <1>2 DEF ClosesLast
  <1> QED
    BY <1>1, <1>2, <1>3, <1>4, <1>5

(* What a handler writes.                                                  *)
LEMMA BatchFacts ==
    ASSUME TypeOK, NEW gone \in SUBSET served, NEW batch \in Batches(gone)
    PROVE  /\ batch \in Seq(Item) /\ ClosesLast(batch) /\ Targets(batch) \subseteq served
           /\ \A i \in DOMAIN batch : IsClose(batch[i]) => batch[i].to \in gone
  <1>1. batch \in Seq(Items(served)) /\ ClosesLast(batch)
    BY MaxBatchAssumption DEF Batches, SeqOf
  <1>2. \A i \in DOMAIN batch : batch[i] \in Items(served) /\ batch[i] \in Range(batch)
    BY <1>1 DEF Range
  <1>3. Items(served) \subseteq Item
    BY DEF TypeOK, Items, Item
  <1>4. Targets(batch) \subseteq served
    BY <1>2 DEF Targets, Items
  <1>5. ASSUME NEW i \in DOMAIN batch, IsClose(batch[i])
        PROVE  batch[i].to \in gone
    <2>1. batch[i].to \in served /\ batch[i] = [to |-> batch[i].to, what |-> "close"]
      BY <1>2, <1>5 DEF Items, IsClose
    <2> QED
      BY <2>1, <1>2 DEF Batches
  <1> QED
    BY <1>1, <1>3, <1>4, <1>5

LEMMA InitIInv == Init => IInv
  <1> SUFFICES ASSUME Init PROVE IInv
    OBVIOUS
  <1>1. Targets(todo) = {} /\ ClosesLast(todo)
    BY DEF Init, Targets, ClosesLast
  <1> QED
    BY <1>1 DEF Init, IInv, TypeOK, Quiescent, CloseIsLast, WriterOutlivesService, NoGhost,
                Addressed, Unregistered
-----------------------------------------------------------------------------
(* A step of a goroutine of client c.                                      *)
LEMMA UpgradeStep ==
    ASSUME IInv, NEW c \in Clients, Upgrade(c) \/ Register(c) \/ Start(c)
    PROVE  IInv'
  <1> USE DEF IInv, TypeOK, Quiescent, CloseIsLast, WriterOutlivesService, NoGhost,
              Addressed, Unregistered
  <1>1. CASE Upgrade(c)
    BY <1>1 DEF Upgrade
  <1>2. CASE Register(c)
    <2>1. Targets(todo) = {} /\ DOMAIN todo = {}
      BY <1>2 DEF Register, Targets
    <2> QED
      BY <1>2, <2>1 DEF Register
  <1>3. CASE Start(c)
    BY <1>3 DEF Start
  <1> QED
    BY <1>1, <1>2, <1>3

LEMMA ReaderStep ==
    ASSUME IInv, NEW c \in Clients, Receive(c) \/ ReadFailed(c) \/ ReaderClose(c)
    PROVE  IInv'
  <1> USE DEF IInv, TypeOK, Quiescent, CloseIsLast, WriterOutlivesService, NoGhost,
              Addressed, Unregistered
  <1>1. CASE Receive(c)
    BY <1>1 DEF Receive
  <1>2. CASE ReadFailed(c)
    BY <1>2 DEF ReadFailed, Claim
  <1>3. CASE ReaderClose(c)
    BY <1>3 DEF ReaderClose
  <1> QED
    BY <1>1, <1>2, <1>3

LEMMA WriterStep ==
    ASSUME IInv, NEW c \in Clients,
           Take(c) \/ Written(c) \/ WriteFailed(c) \/ Ping(c) \/ WriterClose(c) \/ Finish(c)
    PROVE  IInv'
  <1> USE DEF IInv, TypeOK, Quiescent, CloseIsLast, WriterOutlivesService, NoGhost,
              Addressed, Unregistered
  <1>1. CASE Take(c)
    <2>1. \/ claimed' = claimed /\ writer' = [writer EXCEPT ![c] = "write"]
          \/ /\ c \notin served \cup Targets(todo)
             /\ claimed' = [claimed EXCEPT ![c] = TRUE]
             /\ writer' = [writer EXCEPT ![c] = "finish"]
      BY <1>1 DEF Take
    <2>2. /\ writer[c] = "wait" /\ channel' = [channel EXCEPT ![c] = "empty"]
          /\ UNCHANGED <<served, todo, open, upgrade, reader, notifier>>
      BY <1>1 DEF Take
    <2>b. Addressed' \subseteq Addressed /\ channel'[c] = "empty"
      BY <2>2
    <2>3. Addressed' \subseteq Addressed /\ (writer'[c] = "finish" => c \notin Addressed')
      BY <2>1, <2>2, <2>b
    <2>4. TypeOK'
      <3>1. /\ channel' \in [Clients -> {"empty", "msg", "close"}]
            /\ claimed' \in [Clients -> BOOLEAN]
        BY <2>1, <2>2
      <3>2. writer' \in [Clients -> {"off", "wait", "write", "close", "finish", "done"}]
        BY <2>1, <2>2
      <3> QED
        BY <2>2, <3>1, <3>2
    <2>a. upgrade[c] = "done"
      BY <2>2
    <2>5. Quiescent'
      <3>1. \A d \in Clients : d # c => writer'[d] = writer[d] /\ claimed'[d] = claimed[d]
        BY <2>1
      <3> QED
        BY <2>2, <2>3, <2>a, <3>1
    <2>6. CloseIsLast'
      BY <2>2
    <2>7. WriterOutlivesService'
      <3>1. Targets(todo) \subseteq Clients
        BY TargetsAreClients
      <3>2. \A d \in Clients : d # c => writer'[d] = writer[d]
        BY <2>1
      <3>3. writer'[c] \in {"write", "finish"}
        BY <2>1
      <3> QED
        BY <2>2, <2>3, <3>1, <3>2, <3>3
    <2>8. NoGhost'
      BY <2>1, <2>2
    <2> QED
      BY <2>4, <2>5, <2>6, <2>7, <2>8
  <1>2. CASE Written(c)
    BY <1>2 DEF Written
  <1>3. CASE WriteFailed(c)
    BY <1>3 DEF WriteFailed, Claim
  <1>4. CASE Ping(c)
    BY <1>4 DEF Ping
  <1>5. CASE WriterClose(c)
    BY <1>5 DEF WriterClose
  <1>6. CASE Finish(c)
    BY <1>6 DEF Finish
  <1> QED
    BY <1>1, <1>2, <1>3, <1>4, <1>5, <1>6

(* The loop handles a message; what it forgets, it closes.                 *)
LEMMA HandleStep ==
    ASSUME IInv, todo = << >>, NEW gone \in SUBSET served, Handle(gone),
           UNCHANGED <<channel, open, claimed, upgrade, writer>>,
           reader' \in [Clients -> {"off", "read", "send", "close", "done"}],
           notifier' \in [Clients -> {"none", "send", "done"}],
           \A c \in Clients : upgrade[c] # "done" => reader'[c] = reader[c],
           \A c \in served \ gone : notifier'[c] = notifier[c]
    PROVE  IInv'
  <1>1. /\ todo' \in Seq(Item) /\ ClosesLast(todo') /\ Targets(todo') \subseteq served
        /\ \A i \in DOMAIN todo' : IsClose(todo'[i]) => todo'[i].to \in gone
    BY BatchFacts DEF IInv, Handle
  <1>2. served' = served \ gone /\ served \subseteq Clients
    BY DEF Handle, IInv, TypeOK
  <1>3. Addressed' \subseteq Addressed
    BY <1>1, <1>2 DEF Addressed
  <1>4. TypeOK'
    BY <1>1, <1>2 DEF IInv, TypeOK
  <1>5. Quiescent'
    BY <1>3 DEF IInv, Quiescent, Unregistered
  <1>6. CloseIsLast'
    BY <1>1, <1>2 DEF IInv, CloseIsLast
  <1>7. WriterOutlivesService'
    BY <1>3 DEF IInv, WriterOutlivesService
  <1>8. NoGhost'
    BY <1>2 DEF IInv, NoGhost
  <1> QED
    BY <1>4, <1>5, <1>6, <1>7, <1>8 DEF IInv

LEMMA AcceptStep ==
    ASSUME IInv, NEW c \in Clients, Accept(c) \/ AcceptDisconnected(c)
    PROVE  IInv'
  <1>1. CASE c \in served /\ Accept(c)
    <2>1. PICK gone \in SUBSET served : Handle(gone)
      BY <1>1 DEF Accept
    <2>2. todo = << >> /\ UNCHANGED <<channel, open, claimed, upgrade, notifier, writer>>
      BY <1>1 DEF Accept
    <2>3. reader[c] = "send" /\ reader' = [reader EXCEPT ![c] = "read"]
      BY <1>1 DEF Accept
    <2>4. /\ reader' \in [Clients -> {"off", "read", "send", "close", "done"}]
          /\ notifier' \in [Clients -> {"none", "send", "done"}]
          /\ \A d \in Clients : upgrade[d] # "done" => reader'[d] = reader[d]
      BY <2>2, <2>3 DEF IInv, TypeOK, Quiescent
    <2> QED
      BY <2>1, <2>2, <2>4, HandleStep
  <1>2. CASE c \in served /\ AcceptDisconnected(c)
    <2>1. Handle({c}) /\ {c} \in SUBSET served
      BY <1>2 DEF AcceptDisconnected
    <2> QED
      BY <1>2, <2>1, HandleStep DEF AcceptDisconnected, IInv, TypeOK
  <1>3. CASE c \notin served /\ Accept(c)
    <2>1. UNCHANGED <<served, todo, channel, open, claimed, upgrade, notifier, writer>>
      BY <1>3 DEF Accept
    <2>2. TypeOK' /\ Quiescent'
      BY <1>3, <2>1 DEF Accept, IInv, TypeOK, Quiescent, Addressed, Unregistered
    <2> QED
      BY <2>1, <2>2 DEF IInv, CloseIsLast, WriterOutlivesService, NoGhost, Addressed
  <1>4. CASE c \notin served /\ AcceptDisconnected(c)
    BY <1>4 DEF AcceptDisconnected, IInv, TypeOK, Quiescent, CloseIsLast,
                WriterOutlivesService, NoGhost, Addressed, Unregistered
  <1> QED
    BY <1>1, <1>2, <1>3, <1>4

(* The loop is done with the next of what it had to write.                 *)
LEMMA WriteStep ==
    ASSUME IInv, Deliver \/ Drop
    PROVE  IInv'
  <1> DEFINE item == Head(todo)
  <1>a. todo \in Seq(Item) /\ todo # << >> /\ ClosesLast(todo) /\ todo' = Tail(todo)
    BY DEF IInv, TypeOK, CloseIsLast, Deliver, Drop
  <1>1. /\ item \in Item /\ todo' \in Seq(Item)
        /\ item.to \in Targets(todo) /\ Targets(todo') \subseteq Targets(todo)
        /\ ClosesLast(todo')
        /\ \A i \in DOMAIN todo' : i + 1 \in DOMAIN todo /\ todo'[i] = todo[i + 1]
        /\ IsClose(item) => item.to \notin Targets(todo')
    BY <1>a, Rest
  <1>b. item.to \in Clients /\ item.what \in {"msg", "close"}
    BY <1>1 DEF Item
  <1>2. UNCHANGED <<served, open, claimed, upgrade, reader, notifier, writer>>
    BY DEF Deliver, Drop
  <1>3. /\ channel' \in [Clients -> {"empty", "msg", "close"}]
        /\ \A c \in Clients : channel'[c] = channel[c] \/ (c = item.to /\ channel'[c] = item.what)
    BY <1>b DEF Deliver, Drop, IInv, TypeOK
  <1>4. IsClose(item) => item.to \notin served
    BY DEF IInv, TypeOK, CloseIsLast, Deliver, Drop
  <1> HIDE DEF item
  <1>5. Addressed' \subseteq Addressed
    BY <1>1, <1>2, <1>3 DEF Addressed
  <1>6. TypeOK'
    BY <1>1, <1>2, <1>3 DEF IInv, TypeOK
  <1>7. Quiescent'
    BY <1>2, <1>5 DEF IInv, Quiescent, Unregistered
  <1>8. CloseIsLast'
    BY <1>1, <1>2, <1>3, <1>4 DEF IInv, CloseIsLast, IsClose
  <1>9. WriterOutlivesService' /\ NoGhost'
    BY <1>2, <1>5 DEF IInv, WriterOutlivesService, NoGhost
  <1> QED
    BY <1>6, <1>7, <1>8, <1>9 DEF IInv
-----------------------------------------------------------------------------
LEMMA NextIInv == IInv /\ [Next]_vars => IInv'
  <1> SUFFICES ASSUME IInv, [Next]_vars PROVE IInv'
    OBVIOUS
  <1>1. CASE UNCHANGED vars
    BY <1>1 DEF vars, IInv, TypeOK, Quiescent, CloseIsLast, WriterOutlivesService, NoGhost,
                Addressed, Unregistered, Targets, ClosesLast
  <1>2. CASE Next
    BY <1>2, UpgradeStep, ReaderStep, WriterStep, AcceptStep, WriteStep DEF Next
  <1> QED
    BY <1>1, <1>2

(* The invariant of the goroutines of all connections and the main loop.   *)
THEOREM Invariance == Spec => []IInv
  BY InitIInv, NextIInv, PTL DEF Spec

(* Every goroutine is where its code can be, and what the loop has to      *)
(* write is addressed to connections, however much it is.                  *)
THEOREM TypesHold == Spec => []TypeOK
  <1>1. IInv => TypeOK
    BY DEF IInv
  <1> QED
    BY <1>1, Invariance, PTL

(* A connection that CloseOnError gave up (ws/client.go:72-85) is served   *)
(* only until its Disconnected arrives: Rooms.Upgrade has the loop serve a *)
(* client before it starts the goroutines that may give it up.             *)
THEOREM NoGhostHolds == Spec => []NoGhost
  <1>1. IInv => NoGhost
    BY DEF IInv
  <1> QED
    BY <1>1, Invariance, PTL

(* startWriteHandler ends only after the CloseWriter, and nothing is sent  *)
(* on the channel of the client after that (ws/room.go:147-157).           *)
THEOREM WriterOutlives == Spec => []WriterOutlivesService
  <1>1. IInv => WriterOutlivesService
    BY DEF IInv
  <1> QED
    BY <1>1, Invariance, PTL
=============================================================================
