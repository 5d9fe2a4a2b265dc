------------------------------- MODULE Relays -------------------------------
(***************************************************************************)
(* Addresses for relayed traffic.  The TURN server asks for a socket per   *)
(* allocation (turn/portrange.go) and gives it an address at which the     *)
(* peers reach it (turn/server.go, Generator); the addresses come from a   *)
(* provider (config/ipdns), which the main loop of module Rooms asks too,  *)
(* at every join and share.  A DNS provider looks its domain up while it   *)
(* holds its mutex and keeps the answer, or the error, for a while.        *)
(***************************************************************************)
EXTENDS Integers, Sequences, FiniteSets, Functions

CONSTANTS
    Allocations,    \* goroutines of the TURN server, one per allocation
    MainLoop,       \* the goroutine of the main loop
    Nobody,         \* the mutex is free
    V4, V6,         \* addresses that the DNS or the configuration gives
    NoIP,           \* nil
    Modulus,        \* 2^16: ports are uint16
    Minute, Second, \* how long an answer and an error are kept
    MaxNow          \* bound of the clock

ASSUME ModulusAssumption == Modulus \in Nat /\ Modulus > 1
ASSUME TimeAssumption == {Minute, Second, MaxNow} \subseteq Nat /\ MaxNow > 0
ASSUME AddressAssumption == NoIP \notin V4 \cup V6
ASSUME CallersAssumption == MainLoop \notin Allocations /\ Nobody \notin Allocations \cup {MainLoop}

VARIABLES
    range,      \* the configured ports, 0 and 0 for none
    localV4,    \* sockets of this host are IPv4 only
    static,     \* the provider is a Static
    now,
    known,      \* v4, v6 and err of the provider
    refetch,
    holder,     \* who has the mutex
    pc,         \* goroutine -> idle, waiting in Get, looking up, or relaying
    socket,     \* allocation -> port of its socket
    relay,      \* allocation -> address given out for it
    leaked,     \* ports of sockets that nobody refers to any more
    looked      \* when the last lookup ended, and whether it failed

config == <<range, localV4, static>>
vars == <<config, now, known, refetch, holder, pc, socket, relay, leaked, looked>>

Callers == Allocations \cup {MainLoop}
Ports   == 0..Modulus - 1
Answer  == [v4 : V4 \cup {NoIP}, v6 : V6 \cup {NoIP}, err : BOOLEAN]
-----------------------------------------------------------------------------
(* Configuration (config/config.go, config/ip.go) *)

(* What Get of the configuration lets pass.                                *)
PortRanges ==
    {[min |-> 0, max |-> 0]} \cup
    {r \in [min : Ports \ {0}, max : Ports \ {0}] : r.min <= r.max}

UseRange(r) == r.min # 0 /\ r.max # 0

First(ips, S) ==
    LET places == {i \in DOMAIN ips : ips[i] \in S}
    IN  IF places = {} THEN NoIP ELSE ips[CHOOSE i \in places : \A j \in places : i <= j]

(* One address, or two of different families.                              *)
parseStatic(ips) ==
    {[v4 |-> First(ips, V4), v6 |-> First(ips, V6), err |-> FALSE] :
        x \in {y \in {ips} : /\ Len(y) \in {1, 2}
                             /\ Len(y) = 2 => (y[1] \in V4 <=> y[2] \in V6)}}

Lists == UNION {[1..n -> V4 \cup V6] : n \in 0..2}

(* LookupIP fails, or finds records of which the first of each kind count. *)
Failure == [v4 |-> NoIP, v6 |-> NoIP, err |-> TRUE]
lookup(ips) ==
    IF ips = << >> THEN Failure
                   ELSE [v4 |-> First(ips, V4), v6 |-> First(ips, V6), err |-> FALSE]
-----------------------------------------------------------------------------
(* Ports: both additions of portrange.go wrap around *)

(* Faulty: the last port is left out.                                      *)
WithoutLast(r) == (r.max - r.min) % Modulus
Choices(r) == (((r.max + 1) % Modulus) - r.min) % Modulus
Port(r, n) == (r.min + n) % Modulus
Picks(r) == {Port(r, n) : n \in 0..Choices(r) - 1}

Taken == Range(socket) \cup leaked

(* The client requests a port or leaves the choice to the server: to ten   *)
(* random tries within the range, or to the system.  When the port is, or  *)
(* all ten are, taken nothing changes.                                     *)
AllocatePacketConn(a, requestedPort) ==
    /\ pc[a] = "idle"
    /\ \E port \in (CASE requestedPort # 0 -> {requestedPort}
                     [] UseRange(range)    -> Picks(range)
                     [] OTHER              -> Ports \ {0}) \ Taken :
          socket' = [x \in DOMAIN socket \cup {a} |-> IF x = a THEN port ELSE socket[x]]
    /\ pc' = [pc EXCEPT ![a] = "waiting"]
    /\ UNCHANGED <<config, now, known, refetch, holder, relay, leaked, looked>>

(* The main loop asks for the addresses of a session.                      *)
Ask ==
    /\ pc[MainLoop] = "idle"
    /\ pc' = [pc EXCEPT ![MainLoop] = "waiting"]
    /\ UNCHANGED <<config, now, known, refetch, holder, socket, relay, leaked, looked>>
-----------------------------------------------------------------------------
(* What the callers do with an answer *)

(* Faulty: IPv4 whenever there is one.                                     *)
PreferV4(answer) == IF answer.v4 # NoIP THEN answer.v4 ELSE answer.v6
RelayIP(answer) ==
    IF answer.v6 = NoIP \/ (localV4 /\ answer.v4 # NoIP) THEN answer.v4 ELSE answer.v6

(* When the provider fails the TURN server drops the socket unclosed.      *)
Return(c, answer) ==
    /\ pc' = [pc EXCEPT ![c] = IF c \in Allocations /\ ~answer.err THEN "relaying" ELSE "idle"]
    /\ IF c \in Allocations /\ ~answer.err
         THEN relay' = [a \in DOMAIN relay \cup {c} |->
                          IF a = c THEN [ip |-> RelayIP(answer), of |-> answer] ELSE relay[a]]
         ELSE UNCHANGED relay
    /\ IF c \in Allocations /\ answer.err
         THEN /\ socket' = Restrict(socket, DOMAIN socket \ {c})
              /\ leaked' = leaked \cup {socket[c]}
         ELSE UNCHANGED <<socket, leaked>>

(* The allocation ends and its socket is closed.                           *)
Release(a) ==
    /\ pc[a] = "relaying"
    /\ pc' = [pc EXCEPT ![a] = "idle"]
    /\ socket' = Restrict(socket, DOMAIN socket \ {a})
    /\ relay' = Restrict(relay, DOMAIN relay \ {a})
    /\ UNCHANGED <<config, now, known, refetch, holder, leaked, looked>>

(* The garbage collector closes a socket that nobody refers to.            *)
Collect(port) ==
    /\ port \in leaked
    /\ leaked' = leaked \ {port}
    /\ UNCHANGED <<config, now, known, refetch, holder, pc, socket, relay, looked>>
-----------------------------------------------------------------------------
(* Get *)

(* Faulty: a domain that was found is never looked up again.               *)
OnlyOnce == refetch < now /\ ~(looked.end > 0 /\ ~known.err)
Due == refetch < now

(* Under the mutex, and without waiting, what is known is returned.        *)
GetKnown(c) ==
    /\ pc[c] = "waiting"
    /\ static \/ (holder = Nobody /\ ~Due)
    /\ Return(c, known)
    /\ UNCHANGED <<config, now, known, refetch, holder, looked>>

BeginLookup(c) ==
    /\ pc[c] = "waiting"
    /\ ~static /\ holder = Nobody /\ Due
    /\ holder' = c
    /\ pc' = [pc EXCEPT ![c] = "looking"]
    /\ UNCHANGED <<config, now, known, refetch, socket, relay, leaked, looked>>

(* Faulty: after an error the next caller tries again at once; an error    *)
(* leaves the mutex locked.                                                *)
AtOnce(answer) == IF answer.err THEN refetch ELSE now + Minute
RefetchAt(answer) == now + (IF answer.err THEN Second ELSE Minute)

StaysLocked(answer) == IF answer.err THEN holder ELSE Nobody
Unlocked(answer) == Nobody

EndLookup(c) ==
    /\ pc[c] = "looking"
    /\ \E ips \in Lists :
       LET answer == lookup(ips) IN
       /\ known' = answer
       /\ refetch' = RefetchAt(answer)
       /\ holder' = Unlocked(answer)
       /\ looked' = [end |-> now, err |-> answer.err]
       /\ Return(c, answer)
    /\ UNCHANGED <<config, now>>

Tick ==
    /\ now < MaxNow
    /\ now' = now + 1
    /\ UNCHANGED <<config, known, refetch, holder, pc, socket, relay, leaked, looked>>
-----------------------------------------------------------------------------
(* The zero Time of refetch is long ago.                                   *)
Init ==
    /\ range \in PortRanges
    /\ localV4 \in BOOLEAN
    /\ static \in BOOLEAN
    /\ known \in IF static THEN UNION {parseStatic(ips) : ips \in Lists}
                           ELSE {[Failure EXCEPT !.err = FALSE]}
    /\ now = 1
    /\ refetch = 0
    /\ holder = Nobody
    /\ pc = [c \in Callers |-> "idle"]
    /\ socket = [a \in {} |-> 0]
    /\ relay = [a \in {} |-> NoIP]
    /\ leaked = {}
    /\ looked = [end |-> 0, err |-> FALSE]

Next ==
    \/ \E a \in Allocations, port \in Ports : AllocatePacketConn(a, port)
    \/ Ask
    \/ \E a \in Allocations : Release(a)
    \/ \E port \in leaked : Collect(port)
    \/ \E c \in Callers : GetKnown(c)
    \/ \E c \in Callers : BeginLookup(c)
    \/ \E c \in Callers : EndLookup(c)
    \/ Tick

(* Go's mutex hands itself to whoever waits longest, and the resolver      *)
(* answers or gives up.                                                    *)
Fairness ==
    \A c \in Callers : SF_vars(GetKnown(c) \/ BeginLookup(c)) /\ WF_vars(EndLookup(c))

Spec == Init /\ [][Next]_vars /\ Fairness
-----------------------------------------------------------------------------
(* Properties *)

(* The sockets and addresses are those of goroutines that wait or relay;   *)
(* the mutex is held by exactly the goroutine that looks up.               *)
TypeOK ==
    /\ range \in PortRanges
    /\ known \in Answer
    /\ now \in 0..MaxNow /\ refetch \in 0..MaxNow + Minute + Second
    /\ looked \in [end : 0..MaxNow, err : BOOLEAN]
    /\ pc \in [Callers -> {"idle", "waiting", "looking", "relaying"}]
    /\ socket \in [{a \in Allocations : pc[a] # "idle"} -> Ports \ {0}]
    /\ relay \in [{a \in Allocations : pc[a] = "relaying"} ->
                    [ip : V4 \cup V6 \cup {NoIP}, of : Answer]]
    /\ {c \in Callers : pc[c] = "looking"} = {holder} \ {Nobody}

(* The generator picks the ports of the configured range, both ends        *)
(* included, also when the 16 bits of MaxPort+1 overflow.                  *)
PortsAreTheRange == UseRange(range) => Picks(range) = range.min..range.max

(* A peer is told an address that the provider gave for this relay, and    *)
(* one of the family of its socket if the provider has one; never nil.     *)
RelaySuits ==
    \A a \in DOMAIN relay :
        LET ip     == relay[a].ip
            answer == relay[a].of
        IN  /\ ip \in {answer.v4, answer.v6} \ {NoIP}
            /\ localV4 /\ answer.v4 # NoIP => ip \in V4
            /\ ~localV4 /\ answer.v6 # NoIP => ip \in V6

Kept == IF looked.err THEN Second ELSE Minute

(* "don't spam the dns server" (dns.go:44): however many allocations and   *)
(* joins ask, also those that queued behind a lookup that failed, the next *)
(* lookup begins later than a minute after one that succeeded and a second *)
(* after one that did not.                                                 *)
LookupsPaced ==
    [][holder = Nobody /\ holder' # Nobody /\ looked.end > 0 => now > looked.end + Kept]_vars

(* A caller that gets an answer without looking up gets that of the last   *)
(* lookup, no older than a minute, or an error no older than a second.     *)
AnswersAreFresh ==
    [][\A c \in Callers :
         pc[c] = "waiting" /\ pc'[c] # pc[c] /\ pc'[c] # "looking" /\ ~static =>
             looked.end > 0 /\ known.err = looked.err /\ now <= looked.end + Kept]_vars

(* Every Get returns, also those queued behind lookups that fail: a join   *)
(* or share holds up the main loop until it does.                          *)
GetReturns ==
    \A c \in Callers : pc[c] \in {"waiting", "looking"} ~> pc[c] \in {"idle", "relaying"}
=============================================================================
