---------------------------- MODULE Connections ----------------------------
(***************************************************************************)
(* What carries messages to and from the main loop.  Each WebSocket        *)
(* connection has up to four goroutines: the HTTP handler that registers   *)
(* it (Rooms.Upgrade), a reader, a writer, and the one that CloseOnError   *)
(* starts to tell the loop that the connection is gone.  All of them send  *)
(* on the unbuffered channel Incoming, which the loop receives from only   *)
(* when it has written all that the last message made it write; a write    *)
(* blocks while the one-place channel of the client is full, and is given  *)
(* up after two seconds.                                                   *)
(*                                                                         *)
(* What the handlers decide is in module Rooms.  Here a message makes the  *)
(* loop write to and forget any clients it serves, in the way that         *)
(* Rooms!ClosedOnce describes.                                             *)
(***************************************************************************)
EXTENDS Integers, Sequences, FiniteSets, Functions, SequencesExt

CONSTANTS
    Clients,    \* connections; each is opened and closed at most once
    MaxBatch    \* bound on what one message makes the loop write

ASSUME MaxBatchAssumption == MaxBatch \in Nat

VARIABLES
    served,     \* Rooms.connected: the connections the loop listens to
    todo,       \* what the loop still has to write, in order
    channel,    \* ClientInfo.Write: what is in the one-place channel
    open,       \* the TCP connection is open
    claimed,    \* once.done
    upgrade,    \* the HTTP handler
    reader,     \* startReading
    notifier,   \* the goroutine that CloseOnError starts
    writer      \* startWriteHandler

vars == <<served, todo, channel, open, claimed, upgrade, reader, notifier, writer>>

Item == [to : Clients, what : {"msg", "close"}]

TypeOK ==
    /\ served \subseteq Clients
    /\ todo \in Seq(Item)
    /\ channel \in [Clients -> {"empty", "msg", "close"}]
    /\ open \in [Clients -> BOOLEAN]
    /\ claimed \in [Clients -> BOOLEAN]
    /\ upgrade \in [Clients -> {"none", "send", "start", "done"}]
    /\ reader \in [Clients -> {"off", "read", "send", "close", "done"}]
    /\ notifier \in [Clients -> {"none", "send", "done"}]
    /\ writer \in [Clients -> {"off", "wait", "write", "close", "finish", "done"}]

Init ==
    /\ served = {} /\ todo = << >>
    /\ channel = [c \in Clients |-> "empty"]
    /\ open = [c \in Clients |-> FALSE]
    /\ claimed = [c \in Clients |-> FALSE]
    /\ upgrade = [c \in Clients |-> "none"]
    /\ reader = [c \in Clients |-> "off"]
    /\ notifier = [c \in Clients |-> "none"]
    /\ writer = [c \in Clients |-> "off"]
-----------------------------------------------------------------------------
(* CloseOnError: whoever comes first starts the goroutine that tells the   *)
(* loop, and then closes the connection; to the others it does nothing.    *)

(* Faulty: the connection is closed and the loop is not told.              *)
ClaimQuietly(c) ==
    /\ claimed' = [claimed EXCEPT ![c] = TRUE]
    /\ UNCHANGED notifier

Claim(c) ==
    /\ claimed' = [claimed EXCEPT ![c] = TRUE]
    /\ notifier' = IF claimed[c] THEN notifier ELSE [notifier EXCEPT ![c] = "send"]
-----------------------------------------------------------------------------
(* The HTTP handler: upgrade, have the loop serve the client, start the    *)
(* other two                                                               *)

Upgrade(c) ==
    /\ upgrade[c] = "none"
    /\ upgrade' = [upgrade EXCEPT ![c] = "send"]
    /\ open' = [open EXCEPT ![c] = TRUE]
    /\ UNCHANGED <<served, todo, channel, claimed, reader, notifier, writer>>

Register(c) ==
    /\ upgrade[c] = "send" /\ todo = << >>
    /\ upgrade' = [upgrade EXCEPT ![c] = "start"]
    /\ served' = served \cup {c}
    /\ UNCHANGED <<todo, channel, open, claimed, reader, notifier, writer>>

(* Faulty: reader and writer are started before the loop knows the client. *)
StartFirst(c) ==
    /\ upgrade[c] = "send" /\ reader[c] = "off"
    /\ reader' = [reader EXCEPT ![c] = "read"]
    /\ writer' = [writer EXCEPT ![c] = "wait"]
    /\ UNCHANGED <<served, todo, channel, open, claimed, upgrade, notifier>>

Start(c) ==
    /\ upgrade[c] = "start"
    /\ upgrade' = [upgrade EXCEPT ![c] = "done"]
    /\ reader' = [reader EXCEPT ![c] = "read"]
    /\ writer' = [writer EXCEPT ![c] = "wait"]
    /\ UNCHANGED <<served, todo, channel, open, claimed, notifier>>
-----------------------------------------------------------------------------
(* The reader *)

Receive(c) ==
    /\ reader[c] = "read" /\ open[c]
    /\ reader' = [reader EXCEPT ![c] = "send"]
    /\ UNCHANGED <<served, todo, channel, open, claimed, upgrade, notifier, writer>>

(* The peer closed, sent nothing for 20 s or sent what cannot be read, or  *)
(* the connection was closed on this side.                                 *)
ReadFailed(c) ==
    /\ reader[c] = "read"
    /\ Claim(c)
    /\ reader' = [reader EXCEPT ![c] = IF claimed[c] THEN "done" ELSE "close"]
    /\ UNCHANGED <<served, todo, channel, open, upgrade, writer>>

ReaderClose(c) ==
    /\ reader[c] = "close"
    /\ reader' = [reader EXCEPT ![c] = "done"]
    /\ open' = [open EXCEPT ![c] = FALSE]
    /\ UNCHANGED <<served, todo, channel, claimed, upgrade, notifier, writer>>
-----------------------------------------------------------------------------
(* The main loop *)

Items(clients) == [to : clients, what : {"msg", "close"}]
Targets(batch) == {batch[i].to : i \in DOMAIN batch}
ClosesLast(batch) ==
    \A i, j \in DOMAIN batch :
        i < j /\ batch[i].what = "close" => batch[j].to # batch[i].to

(* What a handler may write when it forgets the clients in gone: a close   *)
(* to each of them and to no other, and nothing to them after it.          *)
Batches(gone) ==
    {batch \in SeqOf(Items(served), MaxBatch) :
        /\ ClosesLast(batch)
        /\ \A c \in served : c \in gone <=> [to |-> c, what |-> "close"] \in Range(batch)}

Handle(gone) ==
    /\ todo' \in Batches(gone)
    /\ served' = served \ gone

(* A message of a client that is not served is ignored.                    *)
Accept(c) ==
    /\ reader[c] = "send" /\ todo = << >>
    /\ reader' = [reader EXCEPT ![c] = "read"]
    /\ \/ c \notin served /\ UNCHANGED <<served, todo>>
       \/ c \in served /\ \E gone \in SUBSET served : Handle(gone)
    /\ UNCHANGED <<channel, open, claimed, upgrade, notifier, writer>>

AcceptDisconnected(c) ==
    /\ notifier[c] = "send" /\ todo = << >>
    /\ notifier' = [notifier EXCEPT ![c] = "done"]
    /\ \/ c \notin served /\ UNCHANGED <<served, todo>>
       \/ c \in served /\ Handle({c})
    /\ UNCHANGED <<channel, open, claimed, upgrade, reader, writer>>

Deliver ==
    /\ todo # << >> /\ channel[Head(todo).to] = "empty"
    /\ channel' = [channel EXCEPT ![Head(todo).to] = Head(todo).what]
    /\ todo' = Tail(todo)
    /\ UNCHANGED <<served, open, claimed, upgrade, reader, notifier, writer>>

(* A writer that waits at its channel empties it long before two seconds   *)
(* have passed; one that is busy with the connection may take as long.     *)
Drop ==
    /\ todo # << >>
    /\ channel[Head(todo).to] # "empty" /\ writer[Head(todo).to] # "wait"
    /\ todo' = Tail(todo)
    /\ UNCHANGED <<served, channel, open, claimed, upgrade, reader, notifier, writer>>
-----------------------------------------------------------------------------
(* The writer *)

(* Faulty: a close is written to the peer like any other message.          *)
TakeAny(c) ==
    /\ writer[c] = "wait" /\ channel[c] # "empty"
    /\ channel' = [channel EXCEPT ![c] = "empty"]
    /\ writer' = [writer EXCEPT ![c] = "write"]
    /\ UNCHANGED <<served, todo, open, claimed, upgrade, reader, notifier>>

(* A close ends the loop, and CloseOnDone keeps CloseOnError from telling  *)
(* the main loop what it knows.                                            *)
Take(c) ==
    /\ writer[c] = "wait" /\ channel[c] # "empty"
    /\ channel' = [channel EXCEPT ![c] = "empty"]
    /\ \/ /\ channel[c] = "msg"
          /\ writer' = [writer EXCEPT ![c] = "write"]
          /\ UNCHANGED claimed
       \/ /\ channel[c] = "close"
          /\ writer' = [writer EXCEPT ![c] = "finish"]
          /\ claimed' = [claimed EXCEPT ![c] = TRUE]
    /\ UNCHANGED <<served, todo, open, upgrade, reader, notifier>>

Written(c) ==
    /\ writer[c] = "write" /\ open[c]
    /\ writer' = [writer EXCEPT ![c] = "wait"]
    /\ UNCHANGED <<served, todo, channel, open, claimed, upgrade, reader, notifier>>

(* Faulty: an error ends the loop.                                         *)
EndOnError(c) ==
    /\ writer[c] = "write"
    /\ Claim(c)
    /\ writer' = [writer EXCEPT ![c] = "done"]
    /\ open' = [open EXCEPT ![c] = FALSE]
    /\ UNCHANGED <<served, todo, channel, upgrade, reader>>

(* A message or a ping cannot be written.                                  *)
WriteFailed(c) ==
    /\ writer[c] = "write"
    /\ Claim(c)
    /\ writer' = [writer EXCEPT ![c] = IF claimed[c] THEN "wait" ELSE "close"]
    /\ UNCHANGED <<served, todo, channel, open, upgrade, reader>>

(* Faulty: a ping is a state of its own, which nothing leaves.             *)
PingOnly(c) ==
    /\ writer[c] = "wait"
    /\ writer' = [writer EXCEPT ![c] = "ping"]
    /\ UNCHANGED <<served, todo, channel, open, claimed, upgrade, reader, notifier>>

Ping(c) ==
    /\ writer[c] = "wait"
    /\ writer' = [writer EXCEPT ![c] = "write"]
    /\ UNCHANGED <<served, todo, channel, open, claimed, upgrade, reader, notifier>>

WriterClose(c) ==
    /\ writer[c] = "close"
    /\ writer' = [writer EXCEPT ![c] = "wait"]
    /\ open' = [open EXCEPT ![c] = FALSE]
    /\ UNCHANGED <<served, todo, channel, claimed, upgrade, reader, notifier>>

(* The close message of CloseOnDone and the deferred Close.                *)
Finish(c) ==
    /\ writer[c] = "finish"
    /\ writer' = [writer EXCEPT ![c] = "done"]
    /\ open' = [open EXCEPT ![c] = FALSE]
    /\ UNCHANGED <<served, todo, channel, claimed, upgrade, reader, notifier>>
-----------------------------------------------------------------------------
Next ==
    \/ \E c \in Clients :
          \/ Upgrade(c) \/ Register(c) \/ Start(c)
          \/ Receive(c) \/ ReadFailed(c) \/ ReaderClose(c)
          \/ Accept(c) \/ AcceptDisconnected(c)
          \/ Take(c) \/ Written(c) \/ WriteFailed(c) \/ Ping(c)
          \/ WriterClose(c) \/ Finish(c)
    \/ Deliver
    \/ Drop

(* Senders blocked on Incoming queue up, so each is served if the loop     *)
(* comes back to it again and again.  Every other goroutine that can take  *)
(* a step takes it some time: reads of a closed connection fail, and a     *)
(* write ends, one way or the other, within two seconds.  Nobody has to    *)
(* connect, to send anything or to hang up.                                *)
Fairness ==
    /\ WF_vars(Deliver \/ Drop)
    /\ \A c \in Clients :
          /\ SF_vars(Register(c)) /\ SF_vars(Accept(c)) /\ SF_vars(AcceptDisconnected(c))
          /\ WF_vars(Start(c)) /\ WF_vars(ReaderClose(c) \/ (~open[c] /\ ReadFailed(c)))
          /\ SF_vars(Take(c))
          /\ WF_vars(Written(c) \/ WriteFailed(c) \/ WriterClose(c) \/ Finish(c))

Spec == Init /\ [][Next]_vars /\ Fairness
-----------------------------------------------------------------------------
(* The loop serves no ghost: when the connection of a client it serves has *)
(* been given up, the goroutine that will tell it is still on its way.     *)
(* (A Disconnected that overtakes its Connected would be ignored, and the  *)
(* client served, and counted in its room, for ever.)                      *)
NoGhost == \A c \in served : claimed[c] => notifier[c] = "send"

(* The writer of a client lives for as long as anything is or may still be *)
(* written to it: to one that is gone every message would cost the loop    *)
(* two seconds.                                                            *)
Addressed == served \cup {c \in Clients : channel[c] # "empty"} \cup Targets(todo)
WriterOutlivesService == \A c \in Addressed : writer[c] \notin {"finish", "done"}

(* A connection that is closed is forgotten by the loop.                   *)
GoneIsForgotten == \A c \in Clients : ~open[c] /\ c \in served ~> c \notin served

(* A client whose writer is handed the close is disconnected and all of    *)
(* its goroutines end.                                                     *)
CloseIsFinal ==
    \A c \in Clients : channel[c] = "close" ~>
        ~open[c] /\ writer[c] = "done" /\ reader[c] = "done" /\ notifier[c] # "send"

(* "on errors exit the loop": a writer whose connection is closed ends.    *)
WriterEndsOnError ==
    \A c \in Clients : ~open[c] /\ writer[c] = "write" ~> writer[c] = "done"
=============================================================================
