------------------------------ MODULE RoomList ------------------------------
(***************************************************************************)
(* The list of rooms in the lobby of a page (RoomList.tsx, useRoomList.ts) *)
(* and the server that answers it.  Requests overlap, fail, and are        *)
(* answered in any order; each sets the list when it returns.              *)
(***************************************************************************)
EXTENDS Serving

CONSTANT MaxFailures    \* bound: failures of the network

VARIABLES mounted,      \* the page shows the lobby
          shown,        \* its list: the state "rooms" of useRoomList
          loading,
          failures

page == <<mounted, shown, loading, failures>>
vars == <<program, list, health, page>>

PageTypeOK ==
    /\ TypeOK
    /\ mounted \in BOOLEAN /\ shown \in SUBSET RoomIds /\ loading \in BOOLEAN
    /\ failures \in 0..MaxFailures

Init ==
    /\ ServingInit
    /\ mounted = FALSE /\ shown = {} /\ loading = FALSE /\ failures = 0

fetchRooms(i) ==
    /\ request[i].at = "free"
    /\ request' = [request EXCEPT ![i].at = "sent"]
    /\ loading' = TRUE
    /\ UNCHANGED <<program, rooms, health, failures>>

(* The effect of useRoomList: fetch at once, and in an interval.           *)
Mount ==
    /\ visitor = "pages" /\ ~mounted
    /\ \E i \in Requests : fetchRooms(i)
    /\ mounted' = TRUE /\ shown' = {}

(* Faulty: there is no interval.                                           *)
never == FALSE /\ UNCHANGED vars

Interval ==
    /\ mounted
    /\ \E i \in Requests : fetchRooms(i)
    /\ UNCHANGED <<mounted, shown>>

refreshRooms ==
    /\ mounted
    /\ \E i \in Requests : fetchRooms(i)
    /\ UNCHANGED <<mounted, shown>>

(* The page enters a room: nobody waits for its requests any more.         *)
Unmount ==
    /\ mounted
    /\ mounted' = FALSE /\ shown' = {} /\ loading' = FALSE
    /\ request' = [i \in Requests |-> NoRequest]
    /\ UNCHANGED <<program, rooms, health, failures>>

setRooms(i, ids) ==
    /\ shown' = ids /\ loading' = FALSE
    /\ request' = [request EXCEPT ![i] = NoRequest]
    /\ UNCHANGED <<program, rooms, health, mounted>>

Receive(i) ==
    /\ request[i].at = "answered"
    /\ setRooms(i, request[i].seen)
    /\ UNCHANGED failures

(* The network, or a server that is down or going down.                    *)
Fail(i) ==
    /\ request[i].at # "free"
    /\ IF Up THEN failures < MaxFailures /\ failures' = failures + 1 ELSE UNCHANGED failures
    /\ setRooms(i, {})

Next ==
    \/ ServingNext /\ UNCHANGED page
    \/ Mount \/ Interval \/ refreshRooms \/ Unmount
    \/ \E i \in Requests : Receive(i) \/ Fail(i)

(* The browser's timer goes on, and what was answered arrives.             *)
Fairness ==
    /\ ServingFairness
    /\ WF_vars(Interval)
    /\ \A i \in Requests : WF_vars(Receive(i))

Spec == Init /\ [][Next]_vars /\ Fairness
-----------------------------------------------------------------------------
(* When the rooms stay as they are, the list of a page becomes and remains *)
(* true: no late answer, and none that failed, is the last word.           *)
ListConverges ==
    \A S \in SUBSET RoomIds :
        <>[](Up /\ mounted /\ rooms = S) => <>[](shown = S)
=============================================================================
