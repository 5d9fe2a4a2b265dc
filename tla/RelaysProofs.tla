---------------------------- MODULE RelaysProofs ----------------------------
(***************************************************************************)
(* Proofs about module Relays for every number of allocations, width of a  *)
(* port and length of the two delays: the port arithmetic, that the DNS    *)
(* provider paces its lookups and does not give out what is too old, and   *)
(* that the address a peer is told suits the socket it was made for.       *)
(***************************************************************************)
EXTENDS Relays, TLAPS

(* What 2^16 arithmetic makes of one addition or subtraction of ports.     *)
LEMMA WrapsOnce ==
    ASSUME NEW x \in Int, -Modulus <= x, x < 2 * Modulus
    PROVE  x % Modulus = IF x < 0 THEN x + Modulus
                         ELSE IF x >= Modulus THEN x - Modulus ELSE x
  BY ModulusAssumption, SMTT(60)

(* The number of ports is right although MaxPort+1 may overflow: taking    *)
(* MinPort away wraps back.                                                *)
LEMMA ChoicesCounts ==
    ASSUME NEW r \in PortRanges, UseRange(r)
    PROVE  Choices(r) = r.max + 1 - r.min
  BY ModulusAssumption, WrapsOnce, SMTT(60) DEF PortRanges, UseRange, Choices, Ports

LEMMA PicksOfRange ==
    ASSUME NEW r \in PortRanges, UseRange(r)
    PROVE  Picks(r) = r.min..r.max
<1>1. r.min \in Ports /\ r.max \in Ports /\ r.min <= r.max
  BY DEF PortRanges, UseRange
<1>2. \A n \in 0..Choices(r) - 1 : Port(r, n) = r.min + n
  BY <1>1, ChoicesCounts, ModulusAssumption, WrapsOnce, SMTT(60) DEF Port, Ports
<1>3. \A port \in r.min..r.max : port - r.min \in 0..Choices(r) - 1
  BY <1>1, ChoicesCounts DEF Ports
<1>4. Picks(r) \subseteq r.min..r.max
  BY <1>1, <1>2, ChoicesCounts DEF Picks, Ports
<1>5. r.min..r.max \subseteq Picks(r)
  <2> SUFFICES ASSUME NEW port \in r.min..r.max PROVE port \in Picks(r)
    OBVIOUS
  <2>1. Port(r, port - r.min) = port
    BY <1>1, <1>2, <1>3 DEF Ports
  <2> QED
    BY <1>3, <2>1 DEF Picks
<1> QED
  BY <1>4, <1>5

(* The configuration is read once.                                         *)
LEMMA RangeStays == [Next]_vars => range' = range
  BY DEF Next, vars, config, AllocatePacketConn, Ask, Release, Collect, GetKnown,
         BeginLookup, EndLookup, Tick

(* The ports are those of the configured range, for every width of a port  *)
(* and every range that the configuration accepts.                         *)
THEOREM PortsProof == Spec => []PortsAreTheRange
<1>1. Init => range \in PortRanges
  BY DEF Init
<1>2. range \in PortRanges /\ [Next]_vars => (range \in PortRanges)'
  BY RangeStays DEF PortRanges, Ports
<1>3. range \in PortRanges => PortsAreTheRange
  BY PicksOfRange DEF PortsAreTheRange
<1> QED
  BY <1>1, <1>2, <1>3, PTL DEF Spec
-----------------------------------------------------------------------------
(* The time of the next lookup goes with the last one.                     *)
ClockInv ==
    /\ now \in Nat /\ now > 0
    /\ refetch \in Int
    /\ looked \in [end : Nat, err : BOOLEAN]
    /\ pc \in [Callers -> {"idle", "waiting", "looking", "relaying"}]
    /\ ~static => IF looked.end = 0
                    THEN refetch < now
                    ELSE refetch = looked.end + Kept /\ known.err = looked.err

LEMMA ClockInit == Init => ClockInv
  BY DEF Init, ClockInv

LEMMA ReturnSets ==
    ASSUME NEW c \in Callers, NEW answer, Return(c, answer),
           pc \in [Callers -> {"idle", "waiting", "looking", "relaying"}]
    PROVE  /\ pc' \in [Callers -> {"idle", "waiting", "looking", "relaying"}]
           /\ \A d \in Callers \ {c} : pc'[d] = pc[d]
  BY DEF Return

LEMMA ClockNext == ClockInv /\ [Next]_vars => ClockInv'
<1> SUFFICES ASSUME ClockInv, [Next]_vars PROVE ClockInv'
  OBVIOUS
<1> USE DEF ClockInv, Kept, config
<1>1. ASSUME NEW a \in Allocations, NEW port \in Ports, AllocatePacketConn(a, port)
      PROVE  ClockInv'
  BY <1>1 DEF AllocatePacketConn
<1>2. CASE Ask
  BY <1>2 DEF Ask
<1>3. ASSUME NEW a \in Allocations, Release(a) PROVE ClockInv'
  BY <1>3 DEF Release
<1>4. ASSUME NEW port \in leaked, Collect(port) PROVE ClockInv'
  BY <1>4 DEF Collect
<1>5. ASSUME NEW c \in Callers, GetKnown(c) PROVE ClockInv'
  BY <1>5, ReturnSets DEF GetKnown
<1>6. ASSUME NEW c \in Callers, BeginLookup(c) PROVE ClockInv'
  BY <1>6 DEF BeginLookup
<1>7. ASSUME NEW c \in Callers, EndLookup(c) PROVE ClockInv'
  <2>1. PICK ips \in Lists :
           /\ known' = lookup(ips)
           /\ refetch' = RefetchAt(lookup(ips))
           /\ looked' = [end |-> now, err |-> lookup(ips).err]
           /\ Return(c, lookup(ips))
    BY <1>7 DEF EndLookup
  <2>2. lookup(ips).err \in BOOLEAN
    BY DEF lookup, Failure
  <2>3. /\ now' = now /\ static' = static
        /\ pc' \in [Callers -> {"idle", "waiting", "looking", "relaying"}]
    BY <1>7, <2>1, ReturnSets DEF EndLookup
  <2> QED
    BY <2>1, <2>2, <2>3, TimeAssumption DEF RefetchAt
<1>8. CASE Tick
  BY <1>8 DEF Tick
<1>9. CASE UNCHANGED vars
  BY <1>9 DEF vars
<1> QED
  BY <1>1, <1>2, <1>3, <1>4, <1>5, <1>6, <1>7, <1>8, <1>9 DEF Next

LEMMA ClockProof == Spec => []ClockInv
  BY ClockInit, ClockNext, PTL DEF Spec

(* A lookup begins only when what is known has been kept long enough, for  *)
(* every number of callers and whatever the lookups before it found.       *)
THEOREM PaceProof == Spec => LookupsPaced
<1>1. ClockInv /\ [Next]_vars =>
        (holder = Nobody /\ holder' # Nobody /\ looked.end > 0 => now > looked.end + Kept)
  <2> SUFFICES ASSUME ClockInv, [Next]_vars, holder = Nobody, holder' # Nobody,
                      looked.end > 0
               PROVE  now > looked.end + Kept
    OBVIOUS
  <2>1. PICK c \in Callers : BeginLookup(c)
    BY DEF Next, vars, AllocatePacketConn, Ask, Release, Collect, GetKnown,
           EndLookup, Unlocked, Tick
  <2>2. ~static /\ refetch < now
    BY <2>1 DEF BeginLookup, Due
  <2> QED
    BY <2>2 DEF ClockInv
<1> QED
  BY ClockProof, <1>1, PTL DEF Spec, LookupsPaced

(* What Get returns without a lookup is what the last lookup found, and    *)
(* not for longer than such an answer is kept.                             *)
THEOREM FreshProof == Spec => AnswersAreFresh
<1> DEFINE Fresh(c) ==
      pc[c] = "waiting" /\ pc'[c] # pc[c] /\ pc'[c] # "looking" /\ ~static =>
          looked.end > 0 /\ known.err = looked.err /\ now <= looked.end + Kept
<1>1. ClockInv /\ [Next]_vars => \A c \in Callers : Fresh(c)
  <2> SUFFICES ASSUME ClockInv, [Next]_vars, NEW c \in Callers,
                      pc[c] = "waiting", pc'[c] # pc[c], pc'[c] # "looking", ~static
               PROVE  looked.end > 0 /\ known.err = looked.err /\ now <= looked.end + Kept
    OBVIOUS
  <2> USE DEF ClockInv
  <2>1. GetKnown(c)
    <3>1. ~ \E a \in Allocations, port \in Ports : AllocatePacketConn(a, port)
      BY DEF AllocatePacketConn, Callers
    <3>2. ~Ask
      BY DEF Ask, Callers
    <3>3. ~ \E a \in Allocations : Release(a)
      BY DEF Release, Callers
    <3>4. ~ \E d \in Callers : BeginLookup(d)
      BY DEF BeginLookup
    <3>5. ~ \E d \in Callers : EndLookup(d)
      BY ReturnSets DEF EndLookup
    <3>6. ASSUME NEW d \in Callers, GetKnown(d) PROVE d = c
      BY <3>6, ReturnSets DEF GetKnown
    <3> QED
      BY <3>1, <3>2, <3>3, <3>4, <3>5, <3>6 DEF Next, vars, Collect, Tick
  <2>2. ~(refetch < now)
    BY <2>1 DEF GetKnown, Due
  <2> QED
    BY <2>2, TimeAssumption DEF Kept
<1> QED
  BY ClockProof, <1>1, PTL DEF Spec, AnswersAreFresh
-----------------------------------------------------------------------------
(* An answer that is not an error has an address: a list of addresses that *)
(* is not empty has a first one of one of the families.                    *)
Good(answer) == ~answer.err => answer.v4 # NoIP \/ answer.v6 # NoIP

LEMMA FirstIsOf ==
    ASSUME NEW ips \in Lists, NEW S
    PROVE  /\ First(ips, S) \in S \cup {NoIP}
           /\ \A i \in DOMAIN ips : ips[i] \in S => First(ips, S) \in S
<1> DEFINE places == {i \in DOMAIN ips : ips[i] \in S}
<1>1. PICK n \in 0..2 : DOMAIN ips = 1..n
  BY DEF Lists
<1> DEFINE first == CHOOSE i \in places : \A j \in places : i <= j
<1>2. ASSUME places # {} PROVE first \in places
  <2>1. places \subseteq 1..2
    BY <1>1
  <2>2. \E x \in places : \A y \in places : x <= y
    BY <1>2, <2>1
  <2> QED BY <2>2
<1>3. First(ips, S) = IF places = {} THEN NoIP ELSE ips[first]
  BY DEF First
<1> QED BY <1>2, <1>3

LEMMA EveryAddressIsOfAFamily ==
    ASSUME NEW ips \in Lists, ips # << >>
    PROVE  1 \in DOMAIN ips /\ ips[1] \in V4 \cup V6
<1>1. PICK n \in 0..2 : ips \in [1..n -> V4 \cup V6]
  BY DEF Lists
<1>2. n # 0
  BY <1>1
<1> QED BY <1>1, <1>2

LEMMA AddressesAreGood ==
    ASSUME NEW ips \in Lists, ips # << >>
    PROVE  /\ [v4 |-> First(ips, V4), v6 |-> First(ips, V6), err |-> FALSE] \in Answer
           /\ Good([v4 |-> First(ips, V4), v6 |-> First(ips, V6), err |-> FALSE])
<1>1. First(ips, V4) \in V4 \/ First(ips, V6) \in V6
  BY FirstIsOf, EveryAddressIsOfAFamily
<1> QED BY <1>1, FirstIsOf, AddressAssumption DEF Answer, Good

LEMMA LookupAnswers ==
    ASSUME NEW ips \in Lists
    PROVE  lookup(ips) \in Answer /\ Good(lookup(ips))
<1>1. CASE ips = << >>
  BY <1>1 DEF lookup, Failure, Answer, Good
<1>2. CASE ips # << >>
  BY <1>2, AddressesAreGood DEF lookup
<1> QED BY <1>1, <1>2

LEMMA StaticAnswers ==
    ASSUME NEW ips \in Lists, NEW answer \in parseStatic(ips)
    PROVE  answer \in Answer /\ Good(answer)
<1>1. /\ answer = [v4 |-> First(ips, V4), v6 |-> First(ips, V6), err |-> FALSE]
      /\ Len(ips) \in {1, 2}
  BY DEF parseStatic
<1>2. ips # << >>
  BY <1>1
<1> QED BY <1>1, <1>2, AddressesAreGood

(* What is given out of such an answer suits whoever asked.                *)
LEMMA RelayIPSuits ==
    ASSUME NEW answer \in Answer, Good(answer), ~answer.err
    PROVE  /\ RelayIP(answer) \in {answer.v4, answer.v6} \ {NoIP}
           /\ localV4 /\ answer.v4 # NoIP => RelayIP(answer) \in V4
           /\ ~localV4 /\ answer.v6 # NoIP => RelayIP(answer) \in V6
  BY DEF Answer, Good, RelayIP

(* The provider has something to give out as soon as Get may return it     *)
(* without a lookup, and a Static one never looks anything up.             *)
RelayInv ==
    /\ ClockInv /\ TypeOK /\ RelaySuits
    /\ static => \A c \in Callers : pc[c] # "looking"
    /\ static \/ looked.end > 0 => Good(known)

LEMMA InitRelay == Init => RelayInv
<1> SUFFICES ASSUME Init PROVE RelayInv
  OBVIOUS
<1>1. known \in Answer /\ (static => Good(known))
  <2>1. CASE static
    <3>1. PICK ips \in Lists : known \in parseStatic(ips)
      BY <2>1 DEF Init
    <3> QED BY <3>1, StaticAnswers
  <2>2. CASE ~static
    BY <2>2 DEF Init, Failure, Answer
  <2> QED BY <2>1, <2>2
<1>2. TypeOK
  BY <1>1, TimeAssumption, CallersAssumption DEF Init, TypeOK, Callers
<1>3. RelaySuits
  BY DEF Init, RelaySuits
<1> QED BY <1>1, <1>2, <1>3, ClockInit DEF Init, RelayInv, Callers

(* A port that is picked is one of a socket.                               *)
LEMMA AllocatedPorts ==
    ASSUME TypeOK, NEW a \in Allocations, NEW requested \in Ports,
           AllocatePacketConn(a, requested)
    PROVE  \E port \in Ports \ {0} :
              socket' = [x \in DOMAIN socket \cup {a} |-> IF x = a THEN port ELSE socket[x]]
<1>1. UseRange(range) => Picks(range) \subseteq Ports \ {0}
  <2> SUFFICES ASSUME UseRange(range) PROVE Picks(range) \subseteq Ports \ {0}
    OBVIOUS
  <2>1. range \in PortRanges
    BY DEF TypeOK
  <2>2. range.min \in Ports \ {0} /\ range.max \in Ports
    BY <2>1 DEF PortRanges, UseRange
  <2>3. Picks(range) = range.min..range.max
    BY <2>1, PicksOfRange
  <2> QED BY <2>2, <2>3, ModulusAssumption DEF Ports
<1> QED BY <1>1 DEF AllocatePacketConn

(* What a caller makes of an answer, when it stops waiting or looking.     *)
LEMMA ReturnTypes ==
    ASSUME TypeOK, RelaySuits, NEW c \in Callers, pc[c] \in {"waiting", "looking"},
           NEW answer \in Answer, Good(answer), Return(c, answer), localV4' = localV4
    PROVE  /\ socket' \in [{a \in Allocations : pc'[a] # "idle"} -> Ports \ {0}]
           /\ relay' \in [{a \in Allocations : pc'[a] = "relaying"} ->
                            [ip : V4 \cup V6 \cup {NoIP}, of : Answer]]
           /\ pc'[c] # "looking"
           /\ RelaySuits'
<1>1. /\ pc' = [pc EXCEPT ![c] = IF c \in Allocations /\ ~answer.err THEN "relaying" ELSE "idle"]
      /\ pc \in [Callers -> {"idle", "waiting", "looking", "relaying"}]
      /\ socket \in [{a \in Allocations : pc[a] # "idle"} -> Ports \ {0}]
      /\ relay \in [{a \in Allocations : pc[a] = "relaying"} ->
                      [ip : V4 \cup V6 \cup {NoIP}, of : Answer]]
  BY DEF Return, TypeOK
<1>2. \A a \in Allocations : a \in Callers
  BY DEF Callers
<1>3. CASE c \notin Allocations
  BY <1>1, <1>2, <1>3 DEF Return, RelaySuits
<1>4. CASE c \in Allocations /\ answer.err
  <2>1. socket' = Restrict(socket, DOMAIN socket \ {c}) /\ relay' = relay
    BY <1>4 DEF Return
  <2>2. pc'[c] = "idle" /\ \A a \in Allocations \ {c} : pc'[a] = pc[a]
    BY <1>1, <1>2, <1>4
  <2>3. {a \in Allocations : pc'[a] # "idle"} = {a \in Allocations : pc[a] # "idle"} \ {c}
    BY <2>2
  <2>4. {a \in Allocations : pc'[a] = "relaying"} = {a \in Allocations : pc[a] = "relaying"}
    BY <2>2, <1>4
  <2> QED BY <1>1, <2>1, <2>2, <2>3, <2>4 DEF Restrict, RelaySuits
<1>5. CASE c \in Allocations /\ ~answer.err
  <2> DEFINE given == [ip |-> RelayIP(answer), of |-> answer]
  <2>1. /\ UNCHANGED <<socket, leaked>>
        /\ relay' = [a \in DOMAIN relay \cup {c} |-> IF a = c THEN given ELSE relay[a]]
    BY <1>5 DEF Return
  <2>2. pc'[c] = "relaying" /\ \A a \in Allocations \ {c} : pc'[a] = pc[a]
    BY <1>1, <1>2, <1>5
  <2>3. {a \in Allocations : pc'[a] # "idle"} = {a \in Allocations : pc[a] # "idle"}
    BY <2>2, <1>5
  <2>4. {a \in Allocations : pc'[a] = "relaying"} = {a \in Allocations : pc[a] = "relaying"} \cup {c}
    BY <2>2, <1>5
  <2>5. given \in [ip : V4 \cup V6 \cup {NoIP}, of : Answer] /\ given.of = answer
        /\ given.ip = RelayIP(answer)
    BY RelayIPSuits, <1>5 DEF Answer
  <2> HIDE DEF given
  <2>6. relay' \in [{a \in Allocations : pc'[a] = "relaying"} ->
                      [ip : V4 \cup V6 \cup {NoIP}, of : Answer]]
    BY <1>1, <2>1, <2>4, <2>5
  <2>7. RelaySuits'
    <3>1. ASSUME NEW a \in DOMAIN relay'
          PROVE  /\ relay'[a].ip \in {relay'[a].of.v4, relay'[a].of.v6} \ {NoIP}
                 /\ localV4 /\ relay'[a].of.v4 # NoIP => relay'[a].ip \in V4
                 /\ ~localV4 /\ relay'[a].of.v6 # NoIP => relay'[a].ip \in V6
      <4>1. CASE a = c
        BY <4>1, <2>1, <2>5, RelayIPSuits, <1>5
      <4>2. CASE a # c
        BY <4>2, <2>1 DEF RelaySuits
      <4> QED BY <4>1, <4>2
    <3> QED BY <3>1 DEF RelaySuits
  <2> QED BY <1>1, <2>1, <2>2, <2>3, <2>6, <2>7
<1> QED BY <1>3, <1>4, <1>5

LEMMA NextRelay == RelayInv /\ [Next]_vars => RelayInv'
<1> SUFFICES ASSUME RelayInv, [Next]_vars PROVE RelayInv'
  OBVIOUS
<1>0. ClockInv' /\ ClockInv /\ TypeOK /\ RelaySuits
  BY ClockNext DEF RelayInv
<1>a. MainLoop \notin Allocations /\ Nobody \notin Callers /\ Allocations \subseteq Callers
  BY CallersAssumption DEF Callers
<1>1. ASSUME NEW a \in Allocations, NEW port \in Ports, AllocatePacketConn(a, port)
      PROVE  RelayInv'
  <2>1. PICK p \in Ports \ {0} :
           socket' = [x \in DOMAIN socket \cup {a} |-> IF x = a THEN p ELSE socket[x]]
    BY <1>0, <1>1, AllocatedPorts
  <2>2. /\ pc[a] = "idle" /\ pc' = [pc EXCEPT ![a] = "waiting"]
        /\ UNCHANGED <<config, now, known, refetch, holder, relay, leaked, looked>>
    BY <1>1 DEF AllocatePacketConn
  <2>3. pc'[a] = "waiting" /\ \A c \in Callers \ {a} : pc'[c] = pc[c]
    BY <1>a, <2>2, <1>0 DEF TypeOK
  <2>4. /\ {x \in Allocations : pc'[x] # "idle"} = {x \in Allocations : pc[x] # "idle"} \cup {a}
        /\ {x \in Allocations : pc'[x] = "relaying"} = {x \in Allocations : pc[x] = "relaying"}
        /\ {c \in Callers : pc'[c] = "looking"} = {c \in Callers : pc[c] = "looking"}
    BY <1>a, <2>2, <2>3
  <2>5. TypeOK'
    BY <1>0, <1>a, <2>1, <2>2, <2>4 DEF TypeOK, config
  <2> QED BY <1>0, <2>2, <2>3, <2>5 DEF RelayInv, RelaySuits, config
<1>2. CASE Ask
  <2>1. /\ pc[MainLoop] = "idle" /\ pc' = [pc EXCEPT ![MainLoop] = "waiting"]
        /\ UNCHANGED <<config, now, known, refetch, holder, socket, relay, leaked, looked>>
    BY <1>2 DEF Ask
  <2>2. pc'[MainLoop] = "waiting" /\ \A c \in Callers \ {MainLoop} : pc'[c] = pc[c]
    BY <2>1, <1>0 DEF TypeOK, Callers
  <2>3. /\ {x \in Allocations : pc'[x] # "idle"} = {x \in Allocations : pc[x] # "idle"}
        /\ {x \in Allocations : pc'[x] = "relaying"} = {x \in Allocations : pc[x] = "relaying"}
        /\ {c \in Callers : pc'[c] = "looking"} = {c \in Callers : pc[c] = "looking"}
    BY <1>a, <2>1, <2>2
  <2>4. TypeOK'
    BY <1>0, <2>1, <2>3 DEF TypeOK, config
  <2> QED BY <1>0, <2>1, <2>2, <2>4 DEF RelayInv, RelaySuits, config
<1>3. ASSUME NEW a \in Allocations, Release(a) PROVE RelayInv'
  <2>1. /\ pc[a] = "relaying" /\ pc' = [pc EXCEPT ![a] = "idle"]
        /\ socket' = Restrict(socket, DOMAIN socket \ {a})
        /\ relay' = Restrict(relay, DOMAIN relay \ {a})
        /\ UNCHANGED <<config, now, known, refetch, holder, leaked, looked>>
    BY <1>3 DEF Release
  <2>2. pc'[a] = "idle" /\ \A c \in Callers \ {a} : pc'[c] = pc[c]
    BY <1>a, <2>1, <1>0 DEF TypeOK
  <2>3. /\ {x \in Allocations : pc'[x] # "idle"} = {x \in Allocations : pc[x] # "idle"} \ {a}
        /\ {x \in Allocations : pc'[x] = "relaying"} = {x \in Allocations : pc[x] = "relaying"} \ {a}
        /\ {c \in Callers : pc'[c] = "looking"} = {c \in Callers : pc[c] = "looking"}
    BY <1>a, <2>1, <2>2
  <2>4. TypeOK'
    BY <1>0, <1>a, <2>1, <2>3 DEF TypeOK, config, Restrict
  <2>5. RelaySuits'
    BY <1>0, <2>1 DEF RelaySuits, Restrict, config
  <2> QED BY <1>0, <2>1, <2>2, <2>4, <2>5 DEF RelayInv, config
<1>4. ASSUME NEW port \in leaked, Collect(port) PROVE RelayInv'
  BY <1>0, <1>4 DEF Collect, RelayInv, TypeOK, RelaySuits, config
<1>5. ASSUME NEW c \in Callers, GetKnown(c) PROVE RelayInv'
  <2>1. /\ pc[c] = "waiting" /\ Return(c, known)
        /\ UNCHANGED <<config, now, known, refetch, holder, looked>>
    BY <1>5 DEF GetKnown
  <2>2. static \/ looked.end > 0
    BY <1>0, <1>5 DEF GetKnown, Due, ClockInv
  <2>3. known \in Answer /\ Good(known)
    BY <1>0, <2>2 DEF RelayInv, TypeOK
  <2>4. /\ socket' \in [{a \in Allocations : pc'[a] # "idle"} -> Ports \ {0}]
        /\ relay' \in [{a \in Allocations : pc'[a] = "relaying"} ->
                         [ip : V4 \cup V6 \cup {NoIP}, of : Answer]]
        /\ pc'[c] # "looking"
        /\ RelaySuits'
    BY <1>0, <2>1, <2>3, ReturnTypes DEF config
  <2>5. /\ pc' \in [Callers -> {"idle", "waiting", "looking", "relaying"}]
        /\ \A d \in Callers \ {c} : pc'[d] = pc[d]
    BY <1>0, <2>1, ReturnSets DEF TypeOK
  <2>6. {d \in Callers : pc'[d] = "looking"} = {d \in Callers : pc[d] = "looking"}
    BY <2>1, <2>4, <2>5
  <2>7. TypeOK'
    BY <1>0, <2>1, <2>4, <2>5, <2>6 DEF TypeOK, config
  <2> QED BY <1>0, <2>1, <2>4, <2>5, <2>7 DEF RelayInv, config
<1>6. ASSUME NEW c \in Callers, BeginLookup(c) PROVE RelayInv'
  <2>1. /\ pc[c] = "waiting" /\ ~static /\ holder = Nobody /\ holder' = c
        /\ pc' = [pc EXCEPT ![c] = "looking"]
        /\ UNCHANGED <<config, now, known, refetch, socket, relay, leaked, looked>>
    BY <1>6 DEF BeginLookup
  <2>2. pc'[c] = "looking" /\ \A d \in Callers \ {c} : pc'[d] = pc[d]
    BY <2>1, <1>0 DEF TypeOK
  <2>3. /\ {x \in Allocations : pc'[x] # "idle"} = {x \in Allocations : pc[x] # "idle"}
        /\ {x \in Allocations : pc'[x] = "relaying"} = {x \in Allocations : pc[x] = "relaying"}
    BY <1>a, <2>1, <2>2
  <2>4. {d \in Callers : pc'[d] = "looking"} = {holder'} \ {Nobody}
    <3>1. {d \in Callers : pc[d] = "looking"} = {}
      BY <1>0, <2>1 DEF TypeOK
    <3> QED BY <3>1, <1>a, <2>1, <2>2
  <2>5. TypeOK'
    BY <1>0, <2>1, <2>3, <2>4 DEF TypeOK, config
  <2> QED BY <1>0, <2>1, <2>5 DEF RelayInv, RelaySuits, config
<1>7. ASSUME NEW c \in Callers, EndLookup(c) PROVE RelayInv'
  <2>1. PICK ips \in Lists :
           /\ known' = lookup(ips) /\ refetch' = RefetchAt(lookup(ips))
           /\ holder' = Unlocked(lookup(ips))
           /\ looked' = [end |-> now, err |-> lookup(ips).err]
           /\ Return(c, lookup(ips))
    BY <1>7 DEF EndLookup
  <2>2. pc[c] = "looking" /\ now' = now /\ UNCHANGED config
    BY <1>7 DEF EndLookup
  <2>3. PICK answer \in Answer : answer = lookup(ips) /\ Good(answer)
    BY LookupAnswers
  <2>4. /\ socket' \in [{a \in Allocations : pc'[a] # "idle"} -> Ports \ {0}]
        /\ relay' \in [{a \in Allocations : pc'[a] = "relaying"} ->
                         [ip : V4 \cup V6 \cup {NoIP}, of : Answer]]
        /\ pc'[c] # "looking"
        /\ RelaySuits'
    BY <1>0, <2>1, <2>2, <2>3, ReturnTypes DEF config
  <2>5. /\ pc' \in [Callers -> {"idle", "waiting", "looking", "relaying"}]
        /\ \A d \in Callers \ {c} : pc'[d] = pc[d]
    BY <1>0, <2>1, ReturnSets DEF TypeOK
  <2>6. {d \in Callers : pc[d] = "looking"} = {c}
    BY <1>0, <2>2 DEF TypeOK
  <2>7. {d \in Callers : pc'[d] = "looking"} = {holder'} \ {Nobody}
    BY <2>1, <2>4, <2>5, <2>6 DEF Unlocked
  <2>8. /\ refetch' \in 0..MaxNow + Minute + Second
        /\ looked' \in [end : 0..MaxNow, err : BOOLEAN]
    <3>1. answer.err \in BOOLEAN /\ now \in 0..MaxNow
      BY <1>0 DEF Answer, TypeOK
    <3>2. refetch' = now + Second \/ refetch' = now + Minute
      BY <2>1 DEF RefetchAt
    <3> QED BY <2>1, <2>3, <3>1, <3>2, TimeAssumption
  <2>9. TypeOK'
    BY <1>0, <2>1, <2>2, <2>3, <2>4, <2>5, <2>7, <2>8 DEF TypeOK, config
  <2>10. ~static'
    BY <2>2 DEF RelayInv, config
  <2> QED BY <1>0, <2>1, <2>3, <2>4, <2>9, <2>10 DEF RelayInv
<1>8. CASE Tick
  BY <1>0, <1>8, TimeAssumption DEF Tick, RelayInv, TypeOK, RelaySuits, config
<1>9. CASE UNCHANGED vars
  BY <1>0, <1>9 DEF vars, RelayInv, TypeOK, RelaySuits, config
<1> QED
  BY <1>1, <1>2, <1>3, <1>4, <1>5, <1>6, <1>7, <1>8, <1>9 DEF Next

(* Every socket and relayed address belongs to a goroutine that waits for  *)
(* or uses it, and the mutex to the one that looks up, for any number of   *)
(* allocations.                                                            *)
THEOREM TypesProof == Spec => []TypeOK
<1>1. RelayInv => TypeOK
  BY DEF RelayInv
<1> QED BY <1>1, InitRelay, NextRelay, PTL DEF Spec

(* Generator.AllocatePacketConn (turn/server.go:46-68) gives out an        *)
(* address of the provider that suits the socket, and never nil.           *)
THEOREM SuitsProof == Spec => []RelaySuits
<1>1. RelayInv => RelaySuits
  BY DEF RelayInv
<1> QED BY <1>1, InitRelay, NextRelay, PTL DEF Spec
=============================================================================
