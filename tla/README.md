# A formal model of Screego-Plus

Screego-Plus is a Go server and a React page for sharing a screen over WebRTC.
The server is a signalling server: it keeps rooms of users, relays WebRTC offers,
answers and ICE candidates between a presenter and the viewers, and runs (or
hands out credentials for) a TURN server. This directory holds TLA+ models of
its core, the TLC runs that check them and theorems that TLAPS checks. Every
definition is written from the code; the lines each one stands for are in
`PROJECT.json` under `map`.

## 1. The system

| Part | State | Operations | Talks to |
|---|---|---|---|
| Main loop, `ws/rooms.go` `ws/room.go` `ws/event_*.go` | `Rooms.connected` (client → room id, `""` in no room), `Rooms.Rooms` (id → users, sessions, banned addresses) | one `Execute` per message: create, join, name, share, stopshare, hostoffer, hostice, clientanswer, clientice, owneraction (six), dissolve, exit; connected, disconnected, health | receives from `Incoming`, writes to the channel of each client, calls the TURN server and the IP provider |
| Connections, `ws/client.go` `ws/once.go` | per connection: the socket, `once`, a one-place channel, goroutines | upgrade, read, write, ping, `CloseOnError`, `CloseOnDone` | sends to `Incoming`, empties its channel |
| TURN server, `turn/` | `lookup`: accepted user names | `Credentials`, `Disallow`, `authenticate`, relay ports | called by the main loop, read by pion's goroutines |
| IP providers, `config/ipdns/` | cached addresses, error, time of the next lookup | `Get` | called by join and share and by the relay generator |
| HTTP, `router/` `server/` | the listener, the interrupt handler, the channel `Start` waits on | `/config`, `/rooms`, `/health`, `/metrics`, `/stream`, login; shutdown | `/health` through `Incoming`; `/rooms` and `/config` read the loop's data directly |
| Login, `auth/` | password file, cookie store | login, logout, `CurrentUser` | `Upgrade`, `/config` |
| Room of a page, `ui/src/useRoom.ts` | room, own stream, a peer connection per session | joins, shares, answers sessions, ends them | WebSocket messages, browser API |
| Pages, the rest of `ui/src/` | configuration, name, room in the URL; list of rooms; stream on the stage, controls | enter from the form, the list or the URL, leave; refresh; choose a stream by mouse or key | `useRoom`, `/config`, `/rooms`, local storage, history |

What is hard here, and what makes each part right (the full list, line by line,
is `hazards` in `PROJECT.json`):

* **Main loop.** One goroutine, so no handler interleaves with another; but the
  messages of clients do, and a handler acts on state that changed since its
  sender last heard of it. Membership is stored in two maps, sessions refer to
  two users and to credentials in a third place, metrics are counted by hand, and
  there are nine ways for somebody to leave a room. A handler that fails half-way
  (the IP provider) is followed by the sender's own disconnection on whatever the
  handler had done. Right means: the maps agree, one owner, one presenter,
  sessions and credentials for exactly the viewers, everyone knows, nobody banned
  gets in, no nil user.
* **Connections.** Four kinds of goroutines end a connection, in any order, and the
  loop gives up a write after two seconds. Right means: the loop forgets what is
  closed, closes what it forgets, and no writer is gone that is still written to.
* **Pages.** A callback of the page suspends at awaits (the screen dialog, offers,
  answers) and goes on in a page that has meanwhile stopped, left or entered
  again; its buttons act on a view that the server has changed. Right means: what
  the page shows of users, presenter and streams is, once everything has arrived,
  what the server has.
* **TURN and IP.** Allocations and the main loop share one provider of addresses, which
  looks a domain up under its mutex and keeps results and errors for a while; ports
  are counted in 16 bits. Right means: every `Get` returns, with an answer that is
  fresh, lookups are paced, and a relay gets an address that suits its socket and a
  port that was configured.
* **HTTP.** Two goroutines report the end of the server on one channel that is read once;
  the health check measures against the clock a loop that waits for clients and for DNS lookups, and the list of rooms is read
  from the loop's map without a lock. Right means: an interrupt ends the program, a
  healthy server is not reported down, and the lists that pages show become true.
* **Way into a room and out.** Nothing is disabled while a WebSocket opens or closes,
  every socket calls back into the same state, the URL, its history, the settings
  and the room shown are changed by different callbacks, and the URL is written and read
  by two conversions that are not each other's inverse. Right means: a page that
  shows a room is in it, and its link leads there.
* **Stage.** Handlers and effects know the values of the rendering they belong to, not those
  queued since, and effects run after it. Right means: the stage shows a stream that is there, the one the user chose as long as it runs, and the
  controls follow the mouse.

## 2. Modules

| Module | What it is |
|---|---|
| `Rooms` | the main loop; one action per `Execute` |
| `MCRooms` | instances of it for TLC: a view without the output, symmetry |
| `RoomService` | abstract: where each client is, who owns, who presents |
| `RoomsRefinement`, `MCRefinement` | `Rooms` seen as `RoomService`, and its instance |
| `RoomsProofs` | `Rooms`: type correctness, inductive invariant, safety; then what one step may do: action properties, counters, the refinement; the invariant of `RoomService` |
| `Connections` | reader, writer, registration, `once`, channel and main loop |
| `ConnectionsProofs` | inductive invariant and safety theorems |
| `Signalling` | pages (`useRoom.ts`) around the loop of `Rooms` |
| `MCSignalling` | instances of it: two pages |
| `SignallingProofs` | inductive invariant of the connections of pages and its safety theorems |
| `SessionsProofs` | inductive invariant of the sessions between pages and its safety theorems |
| `Relays` | ports and addresses of relays, and the IP providers |
| `RelaysProofs` | its port arithmetic, pacing and freshness |
| `Stage`, `StageProofs` | the Room page: what is on the stage, hotkeys, controls; its theorems |
| `Lobby`, `MCLobby`, `LobbyProofs` | a page with several WebSockets, the URL and the settings; its instance and theorems |
| `Serving`, `ServingProofs` | start and shutdown, health check, reading of the list of rooms; its theorem |
| `RoomList` | the list of rooms of a page, composed with `Serving` |

Operators commented `Faulty:` are no part of the model: each is a definition with a
plausible bug in it, and stands before the right one. Replacing the right one by
it makes a property fail (`mutants` in `PROJECT.json`), which shows that the
property depends on the code.

### Rooms

`connected` and `rooms` are the two maps (Go maps are functions on the set of their
keys). `lookup` is the TURN server's table, `gauge` the difference of each pair of
Prometheus counters, `panicked` says that a handler used `room.Users[id]` of no
user, which would crash the server. `outbox` is what the last `Execute` wrote to each
client, as a sequence of sets: a loop over a map writes in no particular order, so
the messages of one loop to one client are a set, and the loops of a handler follow
each other.

Each action is a whole handler. When `Execute` returns an error the loop runs
`Disconnected.executeNoError` on the maps as the handler left them; `Refuse`
(nothing changed yet) and the failing branches of `JoinRoom` and `Share` (the user
is already in the room, or already streaming) are those paths. The IP provider
may fail at every use. When an owner leaves, `Successions` chooses any other user,
as the first of a map iteration. Session ids are taken from a finite set and are
fresh among the live ones; a message carries any session or target, live or not.

Left out: names of users, ICE server lists, contents of offers and candidates, the
order of users in a room message, wording of errors. Messages of clients that are
not connected change nothing (rooms.go:100-104). The `health` event changes
nothing either and has no action.

### Connections

`todo` is what the loop still has to write because of the last message; it receives
the next only when `todo` is empty. `Deliver` puts the head into the client's
one-place channel, `Drop` is the two-second timeout. A writer that waits at its
channel takes what is there within microseconds, so `Drop` needs a writer that is
busy with the socket (a write has a two-second deadline of its own, and closing the
connection may also take time), and the two timers race. `upgrade`, `reader`,
`notifier` and `writer` are where each goroutine is. What the handlers write is
abstract: any messages to served clients, a close to exactly those that are
forgotten, nothing to them after it. That is what `Rooms!ClosedOnce` checks of the
handlers, and how the two modules fit together.

### Signalling

`Signalling` extends `Rooms`; `Serve` lets its loop take one message of a page and puts
what it wrote on the pages' `downlink`, which like `outbox` is a sequence of sets: a page
takes any message of the first set (`Take`). So the server's half of every step is the
action of `Rooms`, and the clients send what pages send instead of anything. `page` is the state of `useRoom`: the socket and its
phase (`connecting`, `open` until the first message, `in` a room), `state.users`
(`room`), `stream.current`, `state.hostStream` (`shown`), `state.clientStreams`
(`shows`), and the peer connections, by session. An action is what runs between two
awaits: `share` opens the dialog and `Captured` goes on with its answer; a
`hostsession` message starts an offer and `OfferReady` registers the peer and sends
it; a `hostoffer` starts an answer and `AnswerReady` shows the stream and sends it.
Callbacks that were suspended when the socket closed have the old socket's `send`,
which sends nothing (`mute`). `onclose` keeps the screen and the peers, as the code
does; only `exitRoom` and a reload drop them.

The browser's part is external: an offer whose answer is taken connects. A peer fails for
two reasons, and its page closes and forgets it (`onconnectionstatechange` of either kind of
session): its other end is closed or never gets the answer (`PeerLost`), or the network
disconnects it, working or about to (`PeerFails`). The code tries nothing again and the server is
told nothing, so the session stays; `lost`, which is only observed, remembers what the network
took. The setting of a
remote description and the sending of the answer are one step, since no message
between them has an effect that the orders before and after it do not have. A page
opens its next connection when the previous one is over on both sides, so that it
can keep its id, and opens one dialog for a screen at a time. Error messages are
left out, as no server code sends any.

### Relays

A goroutine of the TURN server opens a socket (`AllocatePacketConn`), gets the addresses
and gives one of them to the relay (`Return`), until the allocation ends; the main loop
gets the addresses too (`Ask`, at joins and shares). `GetKnown` is `Get` without a lookup;
a lookup takes time, so it is `BeginLookup`, which takes the mutex, and `EndLookup`. Its
result is any list of addresses, or a failure. `looked` remembers when the last
lookup ended and whether it failed, and is read by properties only. The clock is a
counter up to `MaxNow`, ports have `Modulus` instead of 2^16 values, and the configuration (a
range or none, a static provider or a domain, a host with or without IPv6) is any that
`config.Get` accepts. A socket whose provider failed is dropped without being closed
(`leaked`) and goes when it is collected. External: which ports are taken, when an
allocation ends, what the DNS says.

### RoomService

Clients are away, in the lobby or in one room; an open room has a member as its
owner and may have one presenting. `RoomsRefinement` reads the place of a client from
`connected` and owner and presenter from the users' flags; `ImplementsRoomService`
says that every message is a step of `RoomService` or changes nothing that it shows.

### Stage

`streams`, `host` and `selected` are `state.clientStreams`, `state.hostStream` (each share of the
page is a new stream) and `selectedStream`, with everything queued on them; they change as
`Signalling` says (`onTrack`, `EndShare`, `shareStarts`, `stopShare`) or by the user. `seen` has their values
in the last rendering, and that is what handlers and effects know: `Thumbnail` and the hotkeys choose
among the streams that were rendered, and `Effects`, which is both effects of `Room`, selects and plays by
`seen` although a stream may have ended, or the own share stopped and begun again, in the
meantime. `due` says that effects have yet to run; React runs them before it renders again, and
what they select comes after a choice that the user made before them, whether or not that was
a good one. Each `Render` takes over everything queued; its effects follow when a value they
depend on has changed, and may also follow when only the identity of a list has. `wish`, which is
only observed, is what the user chose while no effect was due, as long as it is there.
`video` is the one `<video>`: it is mounted anew, with its sound on, whenever
there is something to show again; `Play` is the answer to `play()`, which a browser refuses
with sound until the user has touched the page. `timer` is the timeout of
`useShowOnMouseMovement`, `pinned` the mouse over the controls or an open dialog; `idle`
only observes. The key `l` throws when no stream of another user is on the stage
(`findIndex` is -1, and the index becomes -2): `hotkey_l` then changes nothing.

### Lobby

A page before, in and after a room: `config` is `Router`, `roomID` the URL with `useRoomID`,
`field` the name in the form, `stored` the one in the settings, `conn` the current WebSocket,
`state` the room shown and the socket it came over. `socket` has both ends of each
WebSocket: its phase and `first` at the page, the request it `asks`, the room in which the
server has it as a `member`, and the messages on their way. The page may enter by the URL
(`Load`), the form (`submit`) or the list (`handleJoinRoom`) as long as the lobby is shown,
again and again. `Serve`, `Inform` and `Drop` are the server as this page sees it: a request
is admitted or refused, changes of the room are told, and a member is dropped, because it
was kicked, its room dissolved or its end found gone. `onclose` shows the lobby whichever
socket closed. A dissolve is `exitRoom` for the page that asks for it. `raced` observes that
the page asked for a room while an older socket was in use, `wentBack` that the URL comes
from the history.

`url` is the room that the URL names, as `getFromURL` reads it. What is written there is the id as
it is (`?room=${id}`); the browser ends it at a `#` and escapes spaces and letters that are not
ASCII, and `getFromURL` ends it at `&` and `=` and unescapes nothing. That is the constant `ReadBack`, from ids
to the ids their URLs are read as, or to none: `a&b` is read as `a`, `#b` as none, `a b` as `a%20b`. Its
assumption is all that is used of it: what was read from a URL is read as itself. `Readable` are the
ids that survive. The state of `useRoomID` keeps the id itself, while the history has what is read.

### Serving and RoomList

`listener` and `handler` are the two goroutines of `server.Start`, `result` what it
returned. `check` is a health check: `ahead` messages of others are taken before it (`Take`).
A message at work has the loop write to clients, each write waiting up to `WriteWait` seconds if
its client does not read (`writeTimeout`), and a join or a share has it ask for the addresses of the server
(`Get`), whose lookup may take any time: it has no deadline, and the mutex it waits for belongs to
others' lookups. One message may do any of these, any number of times. `age` is the
time the check has waited, `work` what is left of the write at work; `slow` counts the writes
that waited (several may be to one client) and `looked` the seconds of lookups, and both are only observed.
Only waiting takes time. `request` is a `GET /rooms`: it reads the map of rooms while the
loop may change it, and sees the change or not, or Go ends the process (`Change`).
`RoomList` adds the page: a timer, a button, an answer that sets the list, and a failure
that empties it. Monitors and pages share nothing but the program, so a behaviour has
requests of one kind (`visitor`).

## 3. Runs

| Run | Instance | Shows |
|---|---|---|
| `rooms` | 3 clients, 2 behind one address, 2 rooms, 4 sessions | type, agreement of the maps, one owner, one presenter, sessions and credentials, metrics, no nil user; every change is told, the room comes first, `CloseWriter` once and last, bans hold, owners stay owners; `Rooms` implements `RoomService` |
| `connections` | 2 connections, batches of one message | no ghosts, writers outlive service; closed connections are forgotten; a close handed to a writer ends the connection and its goroutines |
| `signalling` | 2 pages, 1 room, 3 sessions, 6 acts | the first message is the room or a close; views are current; presenters have a screen; sessions become streams unless the network broke their peers; nobody watches a page that stopped |
| `relays` | 2 allocations, the main loop, 2-bit ports, clock up to 4 | ports are the range, addresses suit, lookups are paced, answers fresh, every `Get` returns |
| `stage` | 3 streams of others and 2 of the page's own, a period of 2 ticks | the stage is filled, what the user chose stays, and the controls follow the mouse |
| `lobby` | 3 sockets, 2 rooms, the URL of one of which is read as the other, 1 name, 1 message of news per socket | a page that shows a room is in one; a page that did not race is in that room only, and its link leads there if the id survives the URL |
| `serving` | 2 rooms, 2 requests, 5 and 2 seconds, 2 messages ahead | the health check fails only when waits for clients and lookups take its five seconds; an interrupt ends the program; lists become true |
| `empty_id`, `writer_ends`, `owner_stop`, `blank_name`, `copy_link` | – | five disagreements, section 5 |

Bounds. Three clients are an owner, a presenter and a viewer, or an owner, a leaver
and an heir, and two of them share an address for bans. Four session ids are enough
for one presenter and two viewers (two) with the two more of a second `share` by the
same presenter; a client whose handler finds no fresh id does not take the
successful branch, so with two ids the second `share` can only fail. One message at
a time means that every reachable combination of maps is reached by some sequence;
nothing is bounded in length. Two rooms are needed for a message that acts on the wrong
one; two of the clients are interchangeable, which makes the run fast enough. `MaxBatch`
bounds how much one message makes the loop write. One item is enough for liveness, since
a full channel and a busy writer, and so a dropped close, are reached with one; the
safety properties of that run are proved for every `MaxBatch`.

In `stage` three streams are a first, a middle and a last one for the hotkeys, and one that
goes leaves two to choose from; two own ones are a share that is stopped and begun again before
the effects of the first have run. In `lobby` the third socket is opened while a first one
closes and a second one is admitted; a socket has one piece of news under way besides
the answer to its request, and all three properties are proved for any number of each.
In `serving` the limits are those of the code in seconds; three writes that wait, one of them
before the check came, are what five seconds take without a lookup, and two messages ahead
let every mixture of writes and lookups come. One failure of the network (`MaxFailures`) may come at any time; more of them only
put off the next answer.

`MaxActs` bounds what users and network do in all: enter, break a WebSocket or a peer
connection, reload, start and stop to share, leave, dissolve, rename and owner actions. What
follows (messages, offers, answers, peers whose other end is gone) is not counted and runs in every
order. Six acts are two pages that enter, a share, and a peer connection that breaks while
the share is stopped and started again, or a presenter that loses its connection and comes
back; the invariants that are proved hold for every `MaxActs`. `Settled` says that everything has arrived and
nobody awaits anything; the properties under it are about what is left then.

In `relays` a minute is 2 and a second 1, so that until 4 a result of either kind is kept,
expires and is looked up again, while the other callers wait; all ranges of two-bit
ports with 3 as their upper end overflow in `MaxPort+1`, as 65535 does in 16 bits.

`TypeOK` of `Stage`, `Lobby` and `RoomList` (`PageTypeOK`) says what the variables are; TLC finds it
true on the same instances, and the runs leave it out because the invariants of the proofs
hold what matters of it.

`StateView` drops `outbox` from the state: no guard reads it, and properties about it are
about steps. Symmetry is over session ids and over the two clients with the same
address and the same login; the runs with symmetry check safety only.

The runs of `Connections`, `Signalling`, `Relays` and `Serving` set `CHECK_DEADLOCK FALSE`: each
connection lives once, acts and the clock are bounded, all ports may be taken, and the
program ends, so that nothing is left to do.

## 4. Fairness

In `Connections`, senders that block on a Go channel queue in order, so a
sender is served if the loop keeps coming back to `Incoming`: strong fairness of
`Register`, `Accept` and `AcceptDisconnected`. A writer chooses at random between its
channel and the ping ticker: strong fairness of `Take`. A goroutine that can go on
does so, a write ends within its deadline, the loop delivers or drops, and reading
from a closed connection fails: weak fairness. Nothing is assumed of peers: they need
not connect, send, read or hang up.

In `Relays`, Go's mutex goes to whoever has waited for a millisecond, so a `Get` that finds it
free again and again gets it: strong fairness of `GetKnown` or `BeginLookup`, for each
goroutine. The resolver has time limits, so a lookup ends: weak fairness of `EndLookup`.
Time need not pass and allocations need not end.

In `Serving` and `RoomList` every goroutine that can run does: weak fairness of `Listen`, of
the return of `Serve` after a shutdown, of the receipt in `Start`, and of reading and
answering a request. The timer of the page goes on while the lobby is shown, and what was
answered arrives: weak fairness of `Interval` and `Receive`. Interrupts, users, failures and
the end of `Shutdown` are assumed of nobody: `StopsWhenTold` holds even when `Shutdown` hangs,
because `Serve` returns as soon as it begins.

## 5. Where code and words differ

* `empty_id`: the empty string is accepted as a room id, and is also how
  `connected` says that a client is in no room. Such a room is never left or closed.
  The theorems on `Rooms` therefore assume `RoomIdsAreNames` (the empty string is no
  room id), and so do the passing runs.
* `writer_ends`: the comment on `startWriteHandler` says that it exits on errors. It does
  not, and must not as long as the loop serves the client (the mutant `EndOnError`
  violates `WriterOutlivesService`); but when the `CloseWriter` is dropped it never ends.
* `blank_name`: the form in the lobby promises a generated name for a blank one; the request
  then carries the name from the settings.
* `copy_link`: the name of a room is a button that copies its link. The id in it is neither
  encoded nor decoded, so the link of a room whose id has a `&`, `=`, `#`, a space or a letter
  that is not ASCII leads to another room or to none, and the theorem is about the ids that
  survive (`LinkLeadsHere`); with `Readable` dropped it is `EveryLinkLeadsHere`.
* `owner_stop`: stopping somebody's share (also by permission, kick or ban) ends its sessions
  without an `EndShare`. The presenter's page keeps sending and the viewers keep watching,
  while the room says that nobody streams. Without owner actions (`OwnerActions = {}`)
  `StreamsEndWithSessions` holds; with them what remains is `StoppedIsNotWatched`.

Also, `SCREEGO_CLOSE_ROOM_WHEN_OWNER_LEAVES` has no effect: `closeOnOwnerLeave` is stored in the
room and never read (the page no longer offers it). `Rooms` has the field, which no action
reads; there is nothing to run.

The models also have behaviour that no text speaks of, so that no run is about it:

* a page that races with itself (a double click on a room, or a room entered while the close
  of the last one is under way) may be put out of the room it entered, or leave a second
  member of it in a room until the page is closed (`Lobby`, when `raced`);
* when `/config` cannot be fetched, nobody catches it and the page stays blank (`LoadFails`);
* `Start` returns when `Serve` does, before `Shutdown` is done with the requests under way;
* a list of rooms that is read while a room opens or closes may end the process (`Change`);
* a peer connection that the network disconnects is given up by both pages and opened again by
  nobody, while the server keeps the session: the viewer sees nothing until somebody starts
  again to share or enters again (`PeerFails`);
* one lookup of the server's address that takes five seconds, which nothing prevents, makes
  `/health` report a server whose clients are all well (`Get` of `Serving`);
* a choice made while an effect is due may be overtaken by what the effect selects by an older
  rendering (`Effects`), and `l` throws when the own screen is on the stage (`hotkey_l`).

## 6. Proofs

`RoomsProofs!TypeCorrect`: `Spec => []TypeOK`, for any clients, rooms, sessions, addresses
and configuration that satisfy the two assumptions of `Rooms`. One lemma per handler.

It proves the safety properties together, as none is inductive alone. That a
relay does not dereference nil needs that both ends of a session are users
(`SessionsCoverViewers`), which after a leave needs that sessions involve the presenter,
who is one (`OnePresenter`); that whoever leaves is taken out of the right room needs
`MembershipAgrees`; that a handler hits only its own room's credentials needs that
ids are disjoint (`CredentialsLive`). `Safe` is their conjunction; each handler preserves
it (`JoinSafe`, `ShareSafe`, `CloseAndNotify` with its users, ...), also on the maps a failed
handler leaves behind. `Safety` is `RoomIdsAreNames => (Spec => []Safe)`, and `Membership`,
`Ownership`, `Presenting`, `Coverage`, `Credentials` and `NeverPanics` are its parts.

The second half of `RoomsProofs` is about pairs of states. `StepKinds` says once, for all handlers and their error
paths, what a step of the loop from a `Safe` state is: one of ten kinds (`Idles`, `Arrives`,
`HangsUp`, `Departs`, `Opens`, `Joins`, `Starts`, `Dissolves`, `Resets`, `Expels`), each a
relation between the maps before and after it with what it wrote to whom (`Channels`,
`Told`). One lemma per handler proves it (`LeaveStep`, `JoinStep`, `EvictStep`, ...);
they rest on lemmas on what one more batch of messages does to a channel (`ClosingAppend`,
`WriteCloses`, `NotifyIsLast`, `StillFirst`). From it follow, each with a case per kind:

* `BansHold`, `OwnersKeepRooms`, `WritersCloseOnce`, `RoomIsHeardFirst` and `ChangesAreHeard`,
  the action properties. A failed join or share, which writes and undoes before it
  disconnects, is the hard case of the last three (`JoinUndone`, `ShareUndone`).
* `Refinement`: `Spec => ImplementsRoomService`. The initial states map to the initial state of
  `RoomService`, and each kind of step to one of its actions or to a stutter
  (`KindImplements`). Owner and presenter of the abstract room are chosen from sets of
  holders; `Safe` says that these have at most one member, which makes the choice a
  function of the users and lets it be followed through a step (`OwnerIs`, `PresenterIs`).
  Both sides of the step are `Safe`, so that what a leaving owner is replaced by is again an
  owner. An id of a room is never the value for no room (`ServiceAssumption`).
* `CountersBalance`: `MetricsBalance`. The sets counted are finite (`RoomsFinite`: every room
  was opened by a step), the pairs of room and user and the session ids of two rooms are
  disjoint, so a kind of step changes a cardinality by what it adds to the counter
  (`CountMore`, `CountLess`, `ChangesCount`).

`ConnectionsProofs` proves `TypeOK`, `NoGhost` and `WriterOutlivesService` for any number of
connections and any `MaxBatch`. The invariant adds `Quiescent` (before registration nothing
is written to a client, before the start nothing has closed it) and `CloseIsLast` (a close
on its way goes to a client that is forgotten, with nothing behind it).

`RelaysProofs` proves that `(MaxPort+1)-MinPort` counts the ports for every width of a port
(`WrapsOnce`: a value out of range by less than the modulus wraps once), hence `PortsAreTheRange`;
and `LookupsPaced` and `AnswersAreFresh` from `ClockInv`, which ties the time of the next lookup
and the known error to the last lookup. They hold for any number of callers, any delays
and any times that lookups take. `TypeOK` and `RelaySuits` follow from `RelayInv`: an answer that
is not an error has an address of one of the families (`Good`), and the provider has a good
answer as soon as `Get` may return one without a lookup, because a `Static` one is made
from at least one address and any other is due for a lookup before its first answer. They assume
that `nil` is no address and that the main loop is none of the allocations.

`RoomsProofs!RolesHold` proves of the abstract service that owners and presenters are
members of the rooms they own and present in (`RoleHoldersAreMembers`), which the refinement
carries over to what `Rooms` shows.

`LobbyProofs` proves all three properties of `Lobby` for any number of sockets, rooms and
messages, `LinkLeadsHere` for any `ReadBack` that satisfies its assumption. `Sound` is about one socket: an open one that is in no room has its close on the
way, and one that has not opened its room yet has a message on the way; everything it
carries is about one room. `ShownInv` says that the room shown came over a socket that is
open, and `AloneInv` that without a race there is one socket in use, which is the current
one and the one shown. The invariant needs all of them: that a socket's messages are of one
room is what keeps the URL and the room shown together, and that closing a socket shows the
lobby is what makes the one shown open. One lemma says what a step may do to one socket
(`BehindThePage`, `ClosingKeeps`), and each action is an instance of it.

`StageProofs` proves `StageIsFilled` and `ChoiceStays` for any number of streams, `ControlsFollowTheMouse`
for any period and, as `HotkeysLeadAround`, that the keys h and l undo each other. `StageInv` adds that
no list has duplicates; that once the effects have run the `<video>` has the stream rendered
(`VideoInv`) and a selection rendered dead has been replaced (`Replaced`), be it by another dead one,
for which another rendering is then queued; and that effects which are due saw the choice of
the user, and saw it live (`ChoiceInv`), which is why they leave it although they act on old values.
`ControlsInv` says that the timeout and the idle time add up to the period.

`ServingProofs` proves `DownTakesWaits` for any limits, any number of messages ahead and any
number of writes and lookups of one message: the time that a check has waited and the rest of
the write at work never exceed that of the writes and lookups so far (`HealthInv`).

`SignallingProofs` proves `PagesTypeOK`, `FirstIsRoom`, `ViewIsCurrent` and `PresentersCapture` for
any number of pages, rooms and sessions, any configuration and any `MaxActs`. The inductive
invariant (`PagesInv`) has, besides `Safe` of `Rooms`, three parts for each page:

* `Link`: what lies in the two queues is what the connection says. A closed page has nothing
  to read, and the loop has forgotten it or will find a `gone` last; `connected` is asked
  once, first, and only while the loop has not met the page; a page is in the lobby for the loop
  exactly while it is `open` and has nothing to read; a page that the loop has forgotten has
  its refusal before it. `FirstIsRoom` is a conjunct.
* `View`: the last room message on its way has the users that the room has now, alone in its
  set; or none is on its way, and the page shows them.
* `Capture`: who presents captures a screen, or its `stopshare` is on its way; and behind each
  `share` on its way there is a screen or a `stopshare`.

A step of a page is one of six (`Acts`): it dials, greets, parts, drops what the loop has
closed, says one thing or nothing, or takes one message. One lemma per action of the module
says which (`FirstMessageActs`, `BreakActs`, ...), one per shape that the invariant is kept
(`PartsKeep`, `TakesKeep`, ...), and whoever is not moved keeps it (`OthersKeep`). A step of the loop
is one of the ten kinds of `RoomsProofs`: `Channels` and `AnswersFirst` of a kind give `Link`, `Told`
gives `View`, and `KindPerforms` (only a `share` makes a presenter, of its sender) gives
`Capture`. So the proof about pages rests on the properties proved of the server, and on no
handler. It assumes `RoomIdsAreNames`, as `Safety` does.

`SessionsProofs` proves `SessionsAreConnected` and `StoppedIsNotWatched` on top of that, again for
any number of pages, rooms, sessions and messages on their way. `SessionsInv` is inductive
together with `PagesInv` and has five parts, which its proof needs together:

* `Tidy`, of each page: it is told of a session once and before the offer; what it offers, or is
  yet to hear that it hosts, it has not offered before; what it shows it has answered; what it
  takes for connected it captures; callbacks left over from an earlier connection are mute.
* `Shared`, of each page and each session that the loop has: a page takes itself for the host or
  the client of it only if the loop does, and no `EndShare` of it is on its way.
* `Apart`, of two pages: a session whose offer has not been sent, or not since its host stopped
  to share, is answered by nobody. An answer could otherwise connect a host without a screen.
* `Stopped`, of each page: before each offer of a live session that a page without a screen has
  on its way lies a `stopshare`, which ends the session before the loop relays the offer.
* `Linking`, of each live session: an end has said that it stops or goes (`Doomed`); or nobody has
  answered yet, and the host has the offer before it or the offer is on its way or being
  answered; or the client shows it, and the answer is on its way or has come. The only other
  way for a live session to be is that the network broke the peer connection and one of the two pages
  still is where it noticed (`Broken`).

With empty queues and no callback outstanding only the last case of `Linking` is left, or `Broken`,
which is `SessionsAreConnected`. For `StoppedIsNotWatched`: what a page shows is answered, no answer is on
its way, and a viewer whose host had gone would have lost its connection (`ClientLost`); so a
host is connected, and captures by `Tidy`.

A step of the loop is described by `Fate`: which sessions it keeps, opens or ends, and what it
writes about each to whom, once for the handlers that open sessions (`WidenFate`), once for
those that relay an offer or an answer (`RelayFate`), once for the rest (`PlainFate`). A step of a
page is one of ten shapes (`Does`; `Idling`, `Stopping`, `ShutsDown`, `OffersOne`, `AnswersOne`,
`EndsOne` and the four `Hears`), which relate the page and its two queues before and after. That
each part is kept is a lemma per shape on a page and two queues without any state (`OffersOneTidy`,
`HearsAnswerNarrows`, `TendsHost`, `TendsClient`, ...), so a session goes on when one end moves because
of that end alone. The one shape that ends a session at a page (`EndsOne`) makes it
`Broken` when the network was the cause, and cannot meet a live session otherwise: no `EndShare`
of a live session is on its way, and the ends of a live session that the network left alone do not lose
each other (`LiveIsNotLost`). A page forgets what was broken only with its connection
(`Remembers`), and then it has told the loop that it goes (`Doomed`).

Only model-checked is what is liveness: `GoneIsForgotten`, `CloseIsFinal`, `GetReturns`, and those of
`Serving` and `RoomList`. Liveness under fairness, `ENABLED` and induction over recursive
definitions are out of the prover's reach.

## 7. Not modelled yet, and the plan

In order of importance; each line is a module or an extension.

1. `Settled` of `Signalling` reached under fairness.
2. `Turn`: `Credentials`, `Disallow` and `authenticate` from several goroutines.
3. `Lobby` composed with `Signalling`: peers and streams of a page that races with itself.

Left out for good: JSON and CSV parsing, cookies and bcrypt (libraries, one request at a
time), start-up, logging, rendering, the login form (no page mounts it), the fields of the
settings other than the name, pion's TURN protocol and the browser's WebRTC.
