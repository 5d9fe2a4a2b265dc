--------------------------- MODULE ServingProofs ---------------------------
(***************************************************************************)
(* The health check, for any limits and any number of waiting messages.    *)
(***************************************************************************)
EXTENDS RoomList, TLAPS

(* The time a check has waited, and still waits for a slow client, was     *)
(* spent on writes and on lookups.                                         *)
HealthInv ==
    /\ age \in Nat /\ work \in Nat /\ slow \in Nat /\ looked \in Nat
    /\ check # "none" => age + work <= slow * WriteWait + looked
    /\ check = "down" => age = Limit

(* One more wait is one more WriteWait.                                    *)
LEMMA OneMore == \A n \in Nat : (n + 1) * WriteWait = n * WriteWait + WriteWait
BY TimeAssumption

(* Waits take natural numbers of seconds.                                  *)
LEMMA SpentIsNat == ASSUME NEW n \in Nat PROVE n * WriteWait \in Nat
BY TimeAssumption

(* A wait that begins fits into one more WriteWait.                        *)
LEMMA WaitFits ==
    ASSUME NEW a \in Nat, NEW w \in 0..WriteWait, NEW spent \in Nat, NEW l \in Nat, a <= spent + l
    PROVE  w \in Nat /\ a + w <= (spent + WriteWait) + l
BY TimeAssumption

(* A check that has just come has waited no time.                          *)
LEMMA NoTimeYet ==
    ASSUME NEW w \in Nat, NEW spent \in Nat, w <= spent
    PROVE  0 + w <= spent + 0
OBVIOUS

(* A second of a write or of a lookup.                                     *)
LEMMA OneSecond ==
    ASSUME NEW a \in Nat, NEW w \in Nat, NEW spent \in Nat, NEW l \in Nat, a + w <= spent + l,
           NEW w2, NEW l2, (w > 0 /\ w2 = w - 1 /\ l2 = l) \/ (l2 = l + 1 /\ w2 = w)
    PROVE  w2 \in Nat /\ l2 \in Nat /\ (a + 1) + w2 <= spent + l2
OBVIOUS

(* The invariant holds in the beginning.                                   *)
LEMMA InitHealth == Init => HealthInv
BY DEF Init, ServingInit, HealthInv

(* A step that leaves the check alone keeps the invariant.                 *)
LEMMA OtherSteps == HealthInv /\ UNCHANGED health => HealthInv'
BY DEF HealthInv, health

(* A new check has waited no time, and a wait for a slow client counts.    *)
LEMMA CountKeeps ==
    ASSUME HealthInv, Count
    PROVE  HealthInv'
<1>1. age' = 0 /\ check' = "offered" /\ looked' = 0
      /\ work' \in (IF loop' = "writing" THEN 1..WriteWait ELSE {0})
      /\ slow' = (IF loop' = "writing" THEN 1 ELSE 0)
  BY DEF Count
<1>2. 0 * WriteWait = 0 /\ 1 * WriteWait = WriteWait
  BY TimeAssumption
<1>3. slow' \in Nat /\ work' \in Nat /\ work' <= slow' * WriteWait
  <2>1. CASE loop' # "writing"
    <3>1. slow' = 0 /\ work' = 0
      BY <1>1, <2>1
    <3> QED BY <1>2, <3>1
  <2>2. CASE loop' = "writing"
    <3>1. slow' = 1 /\ work' \in Nat /\ work' <= WriteWait
      BY <1>1, <2>2, TimeAssumption
    <3>2. slow' * WriteWait = WriteWait
      BY <1>2, <3>1
    <3> QED BY <3>1, <3>2
  <2> QED BY <2>1, <2>2
<1> DEFINE most == slow' * WriteWait
<1>4. most \in Nat /\ work' \in Nat /\ work' <= most
  BY <1>3, SpentIsNat
<1> HIDE DEF most
<1>5. 0 + work' <= most + 0
  BY <1>4, NoTimeYet
<1>6. age' + work' <= most + looked'
  BY <1>1, <1>5
<1> QED BY <1>1, <1>3, <1>6 DEF HealthInv, most

(* A write that waits is one wait more.                                    *)
LEMMA WriteKeeps ==
    ASSUME HealthInv, writeTimeout
    PROVE  HealthInv'
<1> DEFINE spent == slow * WriteWait
           after == slow' * WriteWait
<1>1. after = spent + WriteWait
  BY OneMore DEF writeTimeout, HealthInv
<1>2. work' \in 1..WriteWait /\ UNCHANGED <<age, check, looked>> /\ check = "offered" /\ slow' \in Nat
  BY DEF writeTimeout, HealthInv
<1>3. age <= spent + looked /\ spent \in Nat /\ looked \in Nat /\ age \in Nat
  <2>1. spent \in Nat /\ looked \in Nat /\ age \in Nat /\ work \in Nat
    BY TimeAssumption DEF HealthInv
  <2>2. age + work <= spent + looked
    BY <1>2 DEF HealthInv
  <2> HIDE DEF spent
  <2> QED BY <2>1, <2>2
<1> HIDE DEF spent, after
<1>4. work' \in 0..WriteWait /\ work' \in Nat
  BY <1>2, TimeAssumption
<1>5. age + work' <= (spent + WriteWait) + looked
  BY <1>3, <1>4, WaitFits
<1>6. age' + work' <= after + looked'
  BY <1>1, <1>2, <1>5
<1> QED BY <1>2, <1>3, <1>4, <1>6 DEF HealthInv, after

(* A second that passes is one of a write or of a lookup.                  *)
LEMMA TickKeeps ==
    ASSUME HealthInv, Tick
    PROVE  HealthInv'
<1> DEFINE spent == slow * WriteWait
<1>1. spent \in Nat /\ age \in Nat /\ work \in Nat /\ looked \in Nat
  BY TimeAssumption DEF HealthInv
<1>2. age + work <= spent + looked /\ check = "offered" /\ UNCHANGED <<check, slow>> /\ age' = age + 1
  BY DEF Tick, HealthInv
<1>3. slow' * WriteWait = spent
  BY <1>2
<1> HIDE DEF spent
<1>4. \/ work > 0 /\ work' = work - 1 /\ looked' = looked
      \/ looked' = looked + 1 /\ work' = work
  BY DEF Tick
<1>5. work' \in Nat /\ looked' \in Nat /\ (age + 1) + work' <= spent + looked'
  BY <1>1, <1>2, <1>4, OneSecond
<1>6. check' = "offered" /\ slow' \in Nat /\ age' \in Nat
  BY <1>1, <1>2 DEF HealthInv
<1>7. age' + work' <= slow' * WriteWait + looked'
  BY <1>2, <1>3, <1>5
<1> QED BY <1>5, <1>6, <1>7 DEF HealthInv

(* Every step of the check keeps the invariant.                            *)
LEMMA CheckSteps ==
    ASSUME HealthInv,
           Count \/ writeTimeout \/ Get \/ Resume \/ Executed \/ Take \/ Tick \/ GiveUp
    PROVE  HealthInv'
<1>1. CASE Get \/ Resume \/ Executed
  BY <1>1 DEF Get, Resume, Executed, HealthInv
<1>2. CASE Take
  BY <1>2 DEF Take, HealthInv
<1>3. CASE GiveUp
  BY <1>3 DEF GiveUp, HealthInv
<1> QED BY <1>1, <1>2, <1>3, CountKeeps, WriteKeeps, TickKeeps

(* Every step of the server and of the page keeps the invariant.           *)
LEMMA NextHealth == HealthInv /\ [Next]_vars => HealthInv'
<1> SUFFICES ASSUME HealthInv, [Next]_vars PROVE HealthInv'
  OBVIOUS
<1>1. Count \/ writeTimeout \/ Get \/ Resume \/ Executed \/ Take \/ Tick \/ GiveUp \/ UNCHANGED health
  <2>1. CASE ServingNext
    BY <2>1 DEF ServingNext, Listen, ServeReturns, Interrupt, ShutdownReturns,
                waitForServerToClose, GetRoomList, Answer, Change
  <2>2. CASE Mount \/ Interval \/ refreshRooms \/ Unmount
    BY <2>2 DEF Mount, Interval, refreshRooms, Unmount, fetchRooms
  <2>3. ASSUME NEW i \in Requests, Receive(i) \/ Fail(i) PROVE UNCHANGED health
    BY <2>3 DEF Receive, Fail, setRooms
  <2>4. CASE UNCHANGED vars
    BY <2>4 DEF vars
  <2> QED BY <2>1, <2>2, <2>3, <2>4 DEF Next
<1> QED BY <1>1, OtherSteps, CheckSteps

(* The health check reports the server down only when writes to clients    *)
(* that do not read and lookups held the loop for the whole limit,         *)
(* whatever the limits are.                                                *)
THEOREM DownIsExplained == Spec => []DownTakesWaits
<1>1. ASSUME HealthInv, check = "down" PROVE slow * WriteWait + looked >= Limit
  <2> DEFINE spent == slow * WriteWait
  <2>1. spent \in Nat /\ work \in Nat /\ looked \in Nat
    BY <1>1, TimeAssumption DEF HealthInv
  <2>2. age + work <= spent + looked /\ age = Limit /\ Limit \in Nat
    BY <1>1, TimeAssumption DEF HealthInv
  <2> HIDE DEF spent
  <2>3. spent + looked >= Limit
    BY <2>1, <2>2
  <2> QED BY <2>3 DEF spent
<1>2. HealthInv => DownTakesWaits
  BY <1>1 DEF DownTakesWaits
<1> QED
  BY <1>2, InitHealth, NextHealth, PTL DEF Spec
=============================================================================
