------------------------------ MODULE Serving ------------------------------
(***************************************************************************)
(* The HTTP side of the server: how the program starts and stops           *)
(* (server/server.go), the health check that waits for the main loop       *)
(* (Rooms.Count) and the list of rooms that does not (GetRoomList).        *)
(*                                                                         *)
(* The two kinds of request share nothing but the program, so a behaviour  *)
(* has visitors of one kind: a monitor, which asks for the health, or      *)
(* pages, which ask for the rooms (module RoomList).                       *)
(***************************************************************************)
EXTENDS Integers, FiniteSets

CONSTANTS RoomIds,
          Requests,     \* requests for the list under way, at most
          Limit,        \* seconds Count waits for the loop (5)
          WriteWait,    \* seconds the loop waits for a slow client (2)
          MaxAhead      \* bound: messages of others that wait for the loop

ASSUME TimeAssumption == Limit \in Nat \ {0} /\ WriteWait \in Nat \ {0} /\ MaxAhead \in Nat

VARIABLES visitor,
          listener,     \* the goroutine of startServer
          failed,       \* it stopped for another reason than a shutdown
          handler,      \* the goroutine of shutdownOnInterruptSignal
          result,       \* what Start returned, or how the process ended
          rooms,        \* ids of the rooms the loop has
          request,      \* request -> how far it is, and what it has seen
          check,        \* the health check
          age,          \* seconds since it came
          ahead,        \* messages the loop takes before it
          loop,         \* what the main loop is at
          work,         \* seconds it still waits for one client
          slow,         \* how often it so waited since the check came (observed)
          looked        \* seconds it spent in lookups since then (observed)

program == <<visitor, listener, failed, handler, result>>
list    == <<rooms, request>>
health  == <<check, age, ahead, loop, work, slow, looked>>
server  == <<program, list, health>>

NoRequest == [at |-> "free", seen |-> {}]

TypeOK ==
    /\ visitor \in {"monitor", "pages"}
    /\ listener \in {"listening", "serving", "sending", "over"} /\ failed \in BOOLEAN
    /\ handler \in {"waiting", "shutting", "sending", "over"}
    /\ result \in {"running", "nil", "error", "crashed"}
    /\ rooms \in SUBSET RoomIds
    /\ request \in [Requests -> [at : {"free", "sent", "reading", "answered"}, seen : SUBSET RoomIds]]
    /\ check \in {"none", "offered", "up", "down"} /\ age \in 0..Limit
    /\ ahead \in 0..MaxAhead /\ loop \in {"free", "working", "writing", "looking"}
    /\ work \in 0..WriteWait /\ slow \in Nat /\ looked \in 0..Limit

ServingInit ==
    /\ visitor \in {"monitor", "pages"}
    /\ listener = "listening" /\ failed = FALSE /\ handler = "waiting" /\ result = "running"
    /\ rooms = {} /\ request = [i \in Requests |-> NoRequest]
    /\ check = "none" /\ age = 0 /\ ahead = 0
    /\ loop = "free" /\ work = 0 /\ slow = 0 /\ looked = 0

Running == result = "running"
Up      == Running /\ listener = "serving"
-----------------------------------------------------------------------------
(* Starting and stopping.  Both goroutines send on one unbuffered channel, *)
(* and Start receives from it once.                                        *)

(* net.Listen, which may fail; Serve returns at once after a shutdown.     *)
Listen ==
    /\ Running /\ listener = "listening"
    /\ \/ listener' = "serving" /\ UNCHANGED failed
       \/ listener' = "sending" /\ failed' = TRUE
    /\ UNCHANGED <<visitor, handler, result, list, health>>

(* Serve ends with ErrServerClosed as soon as Shutdown begins, or because  *)
(* the socket fails.                                                       *)
ServeReturns ==
    /\ Running /\ listener = "serving"
    /\ listener' = "sending"
    /\ failed' \in IF handler = "waiting" THEN {TRUE} ELSE BOOLEAN
    /\ UNCHANGED <<visitor, handler, result, list, health>>

Interrupt ==
    /\ Running /\ handler = "waiting"
    /\ handler' = "shutting"
    /\ UNCHANGED <<visitor, listener, failed, result, list, health>>

(* Shutdown returns: nothing is under way, or its two seconds are over.    *)
ShutdownReturns ==
    /\ Running /\ handler = "shutting"
    /\ handler' \in {"sending", "over"}
    /\ UNCHANGED <<visitor, listener, failed, result, list, health>>

(* Faulty: only a failure is sent.                                         *)
sendsFailures ==
    /\ Running
    /\ listener = "sending" /\ failed
    /\ listener' = "over" /\ result' = "error" /\ UNCHANGED handler
    /\ UNCHANGED <<visitor, failed, list, health>>

waitForServerToClose ==
    /\ Running
    /\ \/ /\ listener = "sending"
          /\ listener' = "over" /\ result' = (IF failed THEN "error" ELSE "nil")
          /\ UNCHANGED handler
       \/ /\ handler = "sending"
          /\ handler' = "over" /\ result' = "error"
          /\ UNCHANGED listener
    /\ UNCHANGED <<visitor, failed, list, health>>
-----------------------------------------------------------------------------
(* The list of rooms *)

GetRoomList(i) ==
    /\ Up /\ request[i].at = "sent"
    /\ request' = [request EXCEPT ![i] = [at |-> "reading", seen |-> rooms]]
    /\ UNCHANGED <<program, rooms, health>>

Answer(i) ==
    /\ Running /\ request[i].at = "reading"
    /\ request' = [request EXCEPT ![i].at = "answered"]
    /\ UNCHANGED <<program, rooms, health>>

Toggled(S, r) == IF r \in S THEN S \ {r} ELSE S \cup {r}

(* The loop opens or closes a room.  GetRoomList reads the map without a   *)
(* lock: it sees the change or not, or Go notices and ends the process.    *)
Change(r) ==
    /\ Running /\ visitor = "pages"
    /\ rooms' = Toggled(rooms, r)
    /\ LET readers == {i \in Requests : request[i].at = "reading"} IN
       \/ /\ \E late \in SUBSET readers :
                request' = [i \in Requests |->
                    IF i \in late THEN [request[i] EXCEPT !.seen = Toggled(@, r)] ELSE request[i]]
          /\ UNCHANGED result
       \/ readers # {} /\ result' = "crashed" /\ UNCHANGED request
    /\ UNCHANGED <<visitor, listener, failed, handler, health>>
-----------------------------------------------------------------------------
(* The health check.  The loop takes messages in the order of their        *)
(* senders.  Two things make it wait: a client that does not read, which   *)
(* costs each message to it a WriteWait at most, and TurnIPProvider.Get in *)
(* join and share, whose lookup of the server's address has no deadline.   *)

(* A check comes, whatever the loop is at.                                 *)
Count ==
    /\ Up /\ visitor = "monitor" /\ check # "offered"
    /\ check' = "offered" /\ age' = 0
    /\ ahead' \in 0..MaxAhead
    /\ loop' \in {"free", "working", "writing", "looking"}
    /\ work' \in IF loop' = "writing" THEN 1..WriteWait ELSE {0}
    /\ slow' = (IF loop' = "writing" THEN 1 ELSE 0) /\ looked' = 0
    /\ UNCHANGED <<program, list>>

(* Faulty: the loop waits until the client reads.                          *)
writeForever ==
    /\ Running /\ check = "offered" /\ loop = "working" /\ age < Limit
    /\ loop' = "writing" /\ work' = Limit /\ slow' = slow + 1
    /\ UNCHANGED <<program, list, check, age, ahead, looked>>

(* The message at work has the loop write to a client that does not read.  *)
writeTimeout ==
    /\ Running /\ check = "offered" /\ loop = "working" /\ age < Limit
    /\ loop' = "writing" /\ work' \in 1..WriteWait /\ slow' = slow + 1
    /\ UNCHANGED <<program, list, check, age, ahead, looked>>

(* A join or a share asks for the addresses of the server.                 *)
Get ==
    /\ Running /\ check = "offered" /\ loop = "working"
    /\ loop' = "looking"
    /\ UNCHANGED <<program, list, check, age, ahead, work, slow, looked>>

(* The client read or its time is over, or the addresses are there.        *)
Resume ==
    /\ Running /\ check = "offered"
    /\ loop = "looking" \/ (loop = "writing" /\ work = 0)
    /\ loop' = "working"
    /\ UNCHANGED <<program, list, check, age, ahead, work, slow, looked>>

Executed ==
    /\ Running /\ check = "offered" /\ loop = "working"
    /\ loop' = "free"
    /\ UNCHANGED <<program, list, check, age, ahead, work, slow, looked>>

(* The loop takes the next message, the check when nothing is ahead of it. *)
Take ==
    /\ Running /\ check = "offered" /\ loop = "free"
    /\ IF ahead > 0 THEN ahead' = ahead - 1 /\ loop' = "working" /\ UNCHANGED check
                    ELSE check' = "up" /\ UNCHANGED <<ahead, loop>>
    /\ UNCHANGED <<program, list, age, work, slow, looked>>

(* Time passes while the loop waits; the rest takes none.                  *)
Tick ==
    /\ Running /\ check = "offered" /\ age < Limit
    /\ age' = age + 1
    /\ \/ loop = "writing" /\ work > 0 /\ work' = work - 1 /\ UNCHANGED looked
       \/ loop = "looking" /\ looked' = looked + 1 /\ UNCHANGED work
    /\ UNCHANGED <<program, list, check, ahead, loop, slow>>

GiveUp ==
    /\ Running /\ check = "offered" /\ age = Limit
    /\ check' = "down"
    /\ UNCHANGED <<program, list, age, ahead, loop, work, slow, looked>>
-----------------------------------------------------------------------------
ServingNext ==
    \/ Listen \/ ServeReturns \/ Interrupt \/ ShutdownReturns \/ waitForServerToClose
    \/ \E i \in Requests : GetRoomList(i) \/ Answer(i)
    \/ \E r \in RoomIds : Change(r)
    \/ Count \/ writeTimeout \/ Get \/ Resume \/ Executed \/ Take \/ Tick \/ GiveUp

(* Go runs every goroutine that can run; sockets need not fail, clients    *)
(* need not call.                                                          *)
ServingFairness ==
    /\ WF_server(Listen)
    /\ WF_server(handler # "waiting" /\ ServeReturns)
    /\ WF_server(waitForServerToClose)
    /\ \A i \in Requests : WF_server(GetRoomList(i)) /\ WF_server(Answer(i))
-----------------------------------------------------------------------------
(* An interrupt ends the program, whatever the listener does and whether   *)
(* or not Shutdown ends in time; so does a listener that stopped: neither  *)
(* goroutine keeps Start waiting for the other.                            *)
StopsWhenTold == (handler # "waiting" \/ listener = "sending") ~> ~Running

(* The health check fails only when the loop was held for all of its time, *)
(* by writes to clients that do not read, each for a WriteWait at most, or *)
(* by lookups; with the limits of the code and no lookup that takes three  *)
(* such writes, be they to one client or to several.                       *)
DownTakesWaits == check = "down" => slow * WriteWait + looked >= Limit
=============================================================================
