# Project-E verification

Project-E is a C++20 game engine: an entity-component-system library
(`src/libs/lib_ecs`), a network library (`src/libs/lib_net`), a small logging
library, and engine modules built on them (`src/modules`). This directory holds
TLA+ specifications of its own logic, the TLC configurations that check them on
small instances, and TLAPS proofs of the results that matter most. Everything is
translated from the source; `PROJECT.json` maps each definition to the lines it
stands for.

    tlc -workers 2 -config MCTsQueue.cfg MCTsQueue     # model-check one configuration
    tlapm Buffers_proofs.tla                           # check one proof module

## 1. Inventory: the parts of the system

### 1.1 Entities (`libs/lib_ecs`: `EntityManager.*`, `Chunks/`, `Entities/`, `Components/`)

*State.* An `EntityManager` keeps one pool per archetype plus a *pointer pool*.
Each pool is a list of chunks of equal size; a chunk has one array per component.
Every slot, of either kind, has a `ChunkPos` that names the slot of the other
kind it belongs to: an entity names its pointer, a pointer its entity and the id
of the entity's pool. Each pool has a free list of positions (`_freePos`).

*Operations.* `registerEntityPool`, `createEntity`, `createEntities`,
`destroyEntity`, `destroyEntities`, `deleteEverything`, and systems that write
components between them. Users keep positions in the pointer pool as handles.

*Hard.* No concurrency of its own, but long histories of legal calls: two free
lists that come back in different orders, chunks added in the middle of a batch,
slots used again after an entity and after systems that run on free slots too.

*Correct when* a slot is never handed out twice, handles and entities stay in
one-to-one correspondence, no operation moves a handle to another entity, and a
new entity never sees what the last holder of its slot left.

### 1.2 Systems and queries (`libs/lib_ecs/Systems/`)

*State.* A query holds the pools that have its components, and for each the
vectors of each chunk. *Operations.* `map`, `cross` and `selfCross`, each in
sequence or with one thread per pool (or pair of pools). *Hard.* The nested
loops over pools, chunks and indices, and the threads. *Correct when* each slot,
or pair of slots, gets the operation the number of times the walk says.

### 1.3 Scheduling (`libs/lib_ecs`: `AEntityManager.*`, `Systems/SystemTree.*`)

*State.* Two trees of system groups (each frame; each fixed step), the start and
end systems of each node, the pools and queries registered so far, the time left
over. *Operations.* Registration of groups (before, after, in a group), systems,
whole branches, pools and queries; the start callback that closes a branch for
one run; `addTime`. *Hard.* Registrations in every order; insertion at a place
in a vector of children; remainders of the fixed step. *Correct when* every
query has every matching pool once, groups run where they were asked to, and
the time given to systems adds up.

### 1.4 The thread-safe queue (`libs/lib_net/super/TSQueue.hpp`)

*State.* A `std::queue`, a mutex, a condition variable, a stop flag.
*Operations.* `push`, `wait_pop` with and without a timeout, `try_pop`, `clear`,
`stop`. *Hard.* Notifications are sent after the unlock; waiters wake spuriously
or by timeout. *Correct when* it is a FIFO and no wake-up is lost.

### 1.5 `BaseServer` (`libs/lib_net/super/BaseServer.*`)

*State.* The poll set, the map of accepted connections, a link to a server (in
client mode), a UDP socket, three queues: events for the main thread
(`events_tcp_connections`), connections to drop (`disconnect_tcps`) and packets
to send; a read buffer and a writer in each connection; two mutexes.

*Operations.* The *context thread* loops over poll, read/write/error events,
drops and sends. The *main thread* calls `handle_events`, which takes events
from the queue and calls the virtual `on_tcp_connection`,
`on_tcp_disconnection`, `on_tcp_data`, `on_udp_data`, and calls `host_*`,
`connect_*`, `send_*`, `ask_disconnect`, `start_context`, `stop_context`.

*Hard.* Two threads, an unguarded map look-up, two mutexes taken in both orders,
descriptors that are closed twice and reused at once, peers that send, stop,
reset and fill the buffer, poll failures. *Correct when* the main thread is told
connect, data, disconnect of each connection in that order and never twice, the
poll set is that of the open connections, what peers send is handed out, what
the program asked to drop is dropped, and no descriptor leaks.

### 1.6 `net::Server` (`libs/lib_net/super/Server.*`)

*State.* The clients, each with a number that links a UDP address to it; a cache
from UDP address to client. *Operations.* The virtual handlers of `BaseServer`;
`send_tcp`, `send_udp` with the packets ASKUDP_NUMBER and ASKUDP_RESPONSE of
`docs/src/engine/modules/modules/network/protocol.md`. *Hard.* Datagrams are lost,
repeated and late; a host leaves and comes back from the same socket. *Correct
when* the cache and the clients agree and an address is only ever linked to its
own session.

### 1.7 Packets and buffered streams (`libs/lib_net`: `Packet.*`, `io/buffered/`)

*State.* `Buffer` (array, pos, filled) and `BufWriter`. *Operations.* serialise,
write, flush, fill, consume, parse. *Hard.* TCP takes and gives any prefix; the
bytes are parsed while the other thread fills the array behind them. *Correct
when* packets arrive whole, in order, each once.

### 1.8 Addresses, sockets, poll (`libs/lib_net/net/`)

*State.* The descriptors of the process; a `SocketAddr` is a value. *Correct
when* the order of addresses is one a `std::map` may use, an address survives
the way to the kernel and back, and each descriptor has one owner.

### 1.9 Engine modules (`src/modules`)

`core` has timers, `render` sprites, layers, animations, textures and a debug
view, `spatial2d` two systems that add velocity; `network` and `game` register an
empty node. *Correct when* each frame draws each visible entity once and in the
order of the layers, that in which F3 is pressed both views of it or none, and
animations come round.

### 1.10 How they interact

- `EntityManager` offers each new pool to each registered query; systems run over
  the query's pools (Scheduler -> Query -> EntityStore).
- `BaseServer`'s context thread and main thread share queues (TSQueue), the map
  of connections and each connection's reader; `net::Server` is called back from
  the main thread, and calls `send_*` back.
- The reader and writer of a connection are the `Buffer` and `BufWriter` of 1.7.
- `render` draws what the entity pools hold, in an order fixed by the system
  tree.

## 2. The plan

The order follows what most of a program built on this engine stands on:

1. entities and their pools (`EntityTable`, `EntityStore`, `EntitySystems`);
2. the queue both threads of the network share (`Fifo`, `TsQueue`);
3. `BaseServer` as a host, its two threads and its connections (`PollSet`,
   `BaseServer`);
4. what it promises to the class that inherits it, and what `net::Server`
   builds on that (`Notices`, `Addresses`, `ServerSession`);
5. registration and the fixed step (`Scheduler`), the walks of queries (`Query`);
6. packets over streams (`PacketStream`), the client side (`Sockets`,
   `ClientLink`);
7. the engine's modules over frames (`GameFrame`).

All of these exist. Proofs come in the order 1, 2, addresses and notices, then what is
built on them: sessions, the poll, the client, the host, packets; then frames, the
walks of queries and the scheduler. Section 8 says what is left. Three abstract specifications are stated, where a component is
used through a promise simpler than its code: `EntityTable` (what a holder of
handles may rely on), `Fifo` (what a user of the queue may rely on) and `Notices`
(what the handlers of a `BaseServer` may rely on).

## 3. Modules

| module | models | extends / instantiates |
| --- | --- | --- |
| `EntityTable` | abstract: a table from handles to entities | |
| `EntityStore` | the entity manager, its pools, chunks and free lists | refines `EntityTable` |
| `EntitySystems` | the same with systems that write components | `EntityStore` |
| `Scheduler` | system trees, registration, `addTime` | |
| `Query` | `map`, `cross`, `selfCross` | |
| `Fifo` | abstract: one queue, atomic calls | |
| `TsQueue` | `TsQueue<T>` under its mutex and condition variable | refines `Fifo` |
| `PollSet` | `net::Poll` | |
| `Notices` | abstract: what a `BaseServer`'s handlers are told of its connections | |
| `BaseServer` | the host side of `BaseServer` | `PollSet`; refines `Notices` |
| `Sockets` | the calls that make and close descriptors | |
| `ClientLink` | the client side of `BaseServer`, and UDP | `PollSet`, `Sockets`; refines `Notices` |
| `PacketStream` | `Packet`, `Buffer`, `BufWriter`, the parse loop | |
| `Addresses` | `SocketAddr`, its order and its way to the kernel | |
| `ServerSession` | `net::Server` and the hosts of a session | `Addresses`; composed with `Notices` |
| `GameFrame` | the modules `core` and `render` | |
| `EntityStore_proofs` | theorems | `EntityStore`, `EntitySystems` |
| `Buffers_proofs` | theorems | `TsQueue`, `PacketStream` |
| `Notices_proofs`, `PollSet_proofs` | theorems | the module each is named after |
| `ServerSession_proofs` | theorems | `ServerSession`, `Addresses`, `Notices_proofs` |
| `ClientLink_proofs`, `BaseServer_proofs` | theorems | the module each is named after, `PollSet_proofs`, `Notices_proofs` |
| `Systems_proofs` | theorems | `Scheduler`, `Query`, `GameFrame` |

Modules that share a module of theorems have names of their own for their
specifications: `QueueSpec` in `TsQueue`, `WalkSpec` in `Query`, `FrameSpec` in
`GameFrame`, `Spec` in the others.

Modules `MC...` only give constants their values. Next to some definitions
stands a second one marked as a mutant: a plausible slip in the same code, kept
to show that the property it is listed with in `PROJECT.json` notices it.

### 3.1 `EntityStore`, `EntitySystems`

Stores are numbered: `0 .. NumPools-1` for pools and `Ptr` for the pointer pool.
`chunks[x]` counts the chunks of a store, `free[x]` is `_freePos`,
`status[x][p]` and `link[x][p]` are the columns `EntityStatus` and `ChunkPos` of
`EntityProfile` and of pointers, `poolId` the pool id of pointers, `data` stands
for all other components, 0 their reset value. A position is a pair of chunk and
index. `Statuses` are the values of `EntityStatusEnum`, `CreatedAs` those callers create
entities with (the repository's use the default, `ENT_ALIVE`).
`Create` is `_createEntities` with the `addChunk` calls that `getFreePos` makes
until the batch fits, `Destroy` is `_destroyEntities` with its resets and the
insertions in both free lists in the code's orders. Two guards come from the
callers: handles are in use, and given once (a handle destroyed twice would free
slot (0,0) of pool 0, see the hazards). The overload of `destroyEntities` for
ranges (`EntityManager.cpp:85-108`) is a template no other file can instantiate;
it has the same effect on a batch.

`EntitySystems` adds what systems do to components: `Operate` are the functions
`_innerOperate` of a system can apply. A status mono system (`AStatusMonoSystem`)
applies it to the slots of its status; a plain `AMonoSystem`, as every system of the
repository that writes components is, to every slot, free ones too. Since creation
stores no component but the status and the link, an entity starts with what is in its
slot. `FromReset` is what that may be: the values the systems that visit free slots can
make of a reset one.

### 3.2 `Scheduler`, `Query`

`tree[t]` is the depth-first sequence of nodes with their depths, so that
`addSystem`, `addSysGroup` and `addSysNode`, which insert in the vectors of
children and systems, are insertions in it. `query[s]` is the list of pools a
system's query holds. `AddTime` runs the main tree and then as many
fixed steps as fit; `closed` is the set of groups whose start callback said no.
`RunOrder` is `runNode` from the root; `IsTree` says which sequences of nodes are
a depth-first one. `NothingTwice` says of a program that it registers no system,
group or branch twice; the module does not assume it (`MayRetry`), 5.10 does.
`Query` plays one walk at a time: per pool (a thread when parallel) the sequence
of calls the loops make, and any interleaving of the threads.

### 3.3 `TsQueue`

`pc[t]` says where thread `t` is: outside, holding a notification it is yet to
send (`notify_one`, `notify_all`), waiting, woken, timed out. Steps under the
mutex are atomic; between them any other thread runs. Waiting may end by a
notification, spuriously or by the timeout.

### 3.4 `Notices`, `BaseServer`

*The promise.* To the class that inherits it, a `BaseServer` is a set of
connections (`line`: none, up, down) and a queue of notices, which
`handle_events` tells one at a time: of each connection once that it is there,
then of data, then once that it is gone. `Known` is what the class should then
have. `BaseServer` and `ClientLink` are checked and proved to refine this
(`KeepsPromise`, through `Line` and the real queue of events), and
`ServerSession` runs over it. The map's changes and the queue's are steps of
their own in the code; `Line` says which of them count (a connection is up from
its event on and down from the event of its end on).

*Threads.* `ctx` is where the context thread is, `main` where the thread that
calls `handle_events` is. A step of the context is one event of a poll round
(`Accept`, `Insert`, `ReadData`, `ReadEnd`, `ReadFails`, `Flush`,
`CloseOnError`), one part of a drop (`BeginClose`, `LockToErase`/`Erase`,
`Announce`) or of the drains. The map `tcp_connections` is `conns`, from ids
(uuids) to descriptors; `polled` is the poll set; `tcpEvents` the queue to main;
`connLock` is `using_tcp_connection`; `ReaderHeld` says who has the mutex of a
connection's reader. Descriptors are the lowest free number, as the kernel gives
them, so that reuse happens at once.

*The unguarded look-ups.* `handle_events` looks a connection up without a lock
while `Insert` and `Erase` change the `unordered_map`: a look-up that runs while
the context is in the middle of one of them may find the id or not
(`FindConnection`, `EnterConnection`). When `at` does not find it, it throws;
nothing catches that (`main = "thrown"`).

*Stop and start.* `HostTcp` makes the listener, `Start` is `start_context` with a
new poll set, `StopContext` and `Joined` are `stop_context`. `since` are the
connections that were there before: a new run keeps them in the map and does not
poll them, but takes requests to drop and to send for them.

*Faults.* poll may fail (`LeaveLoop`), accept may fail (`AcceptFails`), and
`set_nonblocking` may fail after the descriptor was put in the poll set
(`Refuse`), which closes it and leaves it there (`rest` in
`PollSetMatchesConnections`).

*Peers* connect, send, end in order or reset; they are external.

### 3.5 `ClientLink`, `Sockets`

The client's link, its UDP socket and the set of descriptors the process has
open. Each call that makes a socket is the set of its outcomes, with a failure at
each system call in it; the UDP socket is made by `ConnectUdp` or by `HostUdp`.
`Start` and `Stop` may alternate (`StopAndGo` is a
mutant that forgets to wait for the thread). `Destroy` is the destructor. Main
reads `tcp_connection` with no lock: if the context resets it in between, main
is in the state `"wild"`, after which nothing is known and the behaviour ends.

### 3.6 `PacketStream`

One direction of one connection: `SendTcp` queues a packet, `WritePacket` is
`BufWriter::write` (whole or not at all), `Flush` gives the kernel any prefix,
`FillBuf` receives into the room behind `filled`, starting over when everything
was read, `FillFull` finds no room and hangs up, `Parse`/`Consume` is the loop of
`Server::on_tcp_data`. Bytes carry which packet and which place they come from,
so that a shift or an overwritten byte shows. `StartReading` and `Parse` do what
the code does of the mutex: the first packet of a call is parsed with it, the
next ones are not.

### 3.7 `Addresses`, `ServerSession`

`Addresses` has the two families with the numbers `to_uint32_t`, `htons`,
`htonl`, the comparison operators, `initialize_address` and
`address_from_sockaddr`, on a little-endian machine. `Likes` and `Find` of
`ServerSession` use these: the cache is searched the way a `std::map` does, by
the order, and not by equality. A host is its UDP address; a session is one TCP
connection of it, whose stream is in order. The server hears of sessions through
`Tcp`, an instance of `Notices`: a connection may end (`ConnectionEnds`) while
its beginning is still queued, and its host may be back before its end is told.
`upwards` and `downwards` are the
datagrams under way, `cache` and `udpAddr` the server's.

### 3.8 `GameFrame`

A slot has the components the render systems use. `Frames` is one run of the
main tree: the animation, a start system of the node of both views; what the systems
of the layers draw (`InLayers`); the debug boxes; and last the timers, since `Core::load`
registers `IncrementTimerSystem` on the root without `atStart`, so that it runs after the
root's children (`SystemTree.cpp:143-153`). An animation therefore sees the time of a
frame in the next one. `LoadAsset` and `LookedUp` are the assets loader.

## 4. Runs

A run has at most two workers and finishes within five minutes.

| run | states | asks |
| --- | --- | --- |
| `entities` | 16,741 | are the free lists and the pairing sound, do free slots look free, is it an `EntityTable`, do entities start with nothing of the last holder of their slot |
| `ts_queue` | 35,249 | no lost wake-up, it is a `Fifo`, `stop` releases every waiter, no item stays while a thread is in `wait_pop` |
| `base_server` | 1,423,686 | two connections on reused descriptors, over a restart and failing set-ups: it keeps the promise of `Notices`, the clients are those, the poll set, no stale poll event taken for another connection, no packet loses its event but to an unguarded look-up |
| `base_server_live` | 247,480 | one connection, packets of two bytes: none sleeps in a buffer, none dropped without cause, drops asked for happen, packets arrive |
| `base_server_deadlock` | 1,574 when found | violated: both threads can wait for each other for ever |
| `server_session` | 56,137 | cache and clients agree, links are authentic, an answer that arrives links its host |
| `scheduler` | 337,363 | each query has every pool once, groups stay where asked, time adds up |
| `query` | 3,402 | every slot and pair is visited |
| `query_twice` | 1,884 when found | violated: `selfCross` visits pairs twice |
| `packet_stream` | 27,155 | packets arrive whole, in order, once; they get through |
| `client_link` | 262,776 | it keeps the promise of `Notices`, the client list follows the link, descriptors are owned, resets are noticed, traffic moves |
| `game_frame` | 28,347 | frames are complete and in order, the ones of F3 included, animations come round; no deadlock |

### 4.1 What the properties say

*Entities.* `FreeListsSound`: no position is on a list twice or off the chunks.
`HandlesAndEntitiesPaired`: a handle names a live entity that names it back, in
both directions. `FreeSlotsAreFree`: a slot on a free list has the status of no entity,
so that the systems that ask for one pass it over, and names no handle.
`ImplementsEntityTable`: each operation, batch or not, adds fresh handles or removes
exactly the given ones. `EntitiesStartAnew` (action property): a new entity starts in
`FromReset`, hence with nothing its slot's last entity was given, by its holder or by a
status system. It relates what a reset leaves, what runs on the slot while it is free,
and what creation does not store.

*Queue.* `WakeupsCoverItems`: while a thread sleeps, each item is covered by a
notification not yet sent or by a thread that is awake, and a stop by its
`notify_all`. It is what makes notifying after the unlock right.

*BaseServer.* `KeepsPromise` is the refinement of `Notices`: connection first,
disconnection last, none twice, whoever ends the connection and over restarts.
`ClientsFollowConnections`: the clients `net::Server` has are those it implies.
`PollSetMatchesConnections`, `EventsKeepTheirConnection`: a poll round survives
closes and accepts in its middle. `OnlyLookupsLoseEvents`: a complete packet in
a read buffer has an event in the queue or main at it (`HasEvent`), and loses it
only to an unguarded look-up that misses its connection.
`DropsAreJustified` allows three reasons: the peer ended it, the program asked,
or the buffer was full with unread bytes at its end. The third is the code's
(`Buffer.hpp:81-83`): the empty span of a full array reads as an orderly end.
`AskedAreDropped`, `PacketsArrive` are liveness, up to `Stuck` (below).

*Client.* `KeepsPromise` and `ClientsFollowLink` say the same of the one link,
under each uuid it had. `SocketsAreOwned`: what is open is what the object names, in every
state, hence over every failure. `ResetsAreNoticed`, `TrafficMoves`: liveness.

*Session.* `CacheMatchesClients` both ways, and as `has_udp_connection` has it;
`LinksAreAuthentic` for links and for what is handed to the program;
`AnswersLink`: a host in session `s` is linked unless it leaves or its one answer
is lost or swallowed (`wasted`).

*Scheduler, Query, Frames, Packets.* See the comments at the definitions. `Query`
and `GameFrame` have no type invariant of their own: `NobodyIsMissed` also says
that no call is on a slot that is not there, and `AnimationsComeRound` that the
strip is at most one past the texture.

### 4.2 Bounds, and why they are enough

- `entities`: two pools with chunks of one slot and a pointer pool with chunks
  of two, at most two chunks each, batches of up to two. The pools grow at
  different moments from the pointer pool, a batch can span a chunk boundary and
  use an old slot and a new one, and both free lists get out of step. Components
  have three values: 0, the 1 that a plain system makes of it in the first pool's slots,
  as a timer that has run, and a 2 that only entities get, from their holder or from a
  system that asks for live ones. So an entity may start with 0 or 1 in the first pool,
  with 0 in the second, and 2 shows what was left over. Chunks of other sizes, more
  pools, other systems and longer batches are covered by the proofs.
- `ts_queue`: three threads, so that a push can race a waiter, a second waiter
  and a stop; two items, so that the order shows; three pushes; the queue holds
  at most two.
- `base_server`: two connections and buffers of two bytes, peers that send packets
  of one byte and end by a reset, a poll, an accept and a set-up that may fail, two
  starts of the context. Two is the least number of connections with which a
  descriptor changes its owner inside one round, and a reset is the end that gives
  one descriptor several events in it. `base_server_live` trades the second
  connection, the second start and the failures for both endings, packets of two
  bytes in a buffer of four, five bytes sent (a packet split over two reads, two
  packets in one read, a buffer full with a rest) and one packet sent by the
  program. In both, ids of connections are never reused, and `MaxConns` bounds
  those ever opened.
- `base_server_deadlock`: one connection is enough.
- `client_link`: two links over the run and two starts of the context, two packets,
  one datagram; a link is reset, replaced, and the context restarted around it.
- `server_session`: two hosts with one IP address and two ports, so that only
  the order tells them apart, and two sessions, which may be of one host (it
  returns) or of two. Datagrams are a set; a repeated one stays in it.
- `scheduler`: one group, one system registered by itself, one branch with a
  group below its root and a start callback, a query of the program's, two
  pools; fixed step absent or 2, frames of 3, six units of time: remainders
  carry over and a frame runs one or two steps. Pools are symmetric. Nothing is
  registered twice (`MCSchedulerAssumption`), so that the run is of the programs
  that 5.10 speaks of.
- `query`: pools with chunks of sizes 2,2 / 2 / 1,3; walks over one and two
  pools, in sequence and in parallel. `selfCross` gets only chunks of one size,
  as the comment at `Query.hpp:408` asks for and `QueryAssumption` says; no query
  holds a pool twice, which is `QueriesMatchPools` of `Scheduler`.
- `packet_stream`: header 2, sizes below 7, arrays of 7, four bytes in the
  kernel, data of 0, 2 or 8 (too long), three packets: cuts inside a header and
  inside data, a full writer, an array that starts over. The real constants
  (8, 65,536, 8,192) have the same order, which `PacketStreamAssumption` states.
- `game_frame`: a still and an animated sprite, two layers and a layer number
  too many, two strips in a texture of width 4, clocks up to 4 where they stop.

Deadlock is checked where the system may not stop (`entities`, `ts_queue`,
`game_frame`). Elsewhere behaviours end: bounds on what peers and the program do
are used up, the context has left its loop, or a walk is over.

### 4.3 Fairness

Each fair part is a thread that the code runs in a loop, nothing is assumed of
peers, of the program's calls or of the network but what is said here.

- `BaseServer`, `ClientLink`: weak fairness of the context's loop (it polls with a
  timeout and never sleeps for good) and of `handle_events`, "should be called
  in a loop" (`BaseServer.hpp:104`). A thread in a mutex of the other is disabled,
  not unfair.
- `TsQueue`: weak fairness of each thread's next step in a call it began, and of
  the timeout of a timed wait; none for beginning a call or for spurious wake-ups.
- `PacketStream`: weak fairness of the sender's context, the receiver's context and its
  main thread.
- `ServerSession`: weak fairness of the handlers of both sides; strong fairness
  of the arrival of an answer, which may be overtaken but arrives unless lost.
- `GameFrame`: frames go on and time passes.

### 4.4 What the liveness properties leave open

`AskedAreDropped`, `PacketsArrive` hold "up to `Stuck`", the states in which
main got the exception of `at` or both threads are in the deadlock; likewise
`TrafficMoves`, `ResetsAreNoticed` up to `main = "wild"` and the end of the
context. These ends are reached in the models, they are listed in section 6, and
the safety properties are checked there too.

## 5. Proofs

TLAPS checks every leaf; nothing is assumed beyond the named assumptions on
constants, which TLC evaluates in every run that extends the module.

### 5.1 `EntityStore_proofs`

For any number of pools, any chunk sizes, statuses, component values and batches, of the
manager alone (`Spec`):

- `TypeCorrect`, `FreeListsAlwaysSound`, `AlwaysPaired`: `Spec => []...` for invariants
  of the run `entities`;
- `FreeSlotsAlwaysBlank`: `Spec => []FreeSlotsAreBlank`, that besides looking free a free
  slot holds nothing but reset values. Of the manager alone: plain systems change that;
- `Refinement`: `Spec => Abstract!Spec`, so `EntityStore` implements `EntityTable`.

And with systems (`SystemsSpec`, which the run checks):

- `SystemsTypeCorrect`, `SystemsKeepFreeLists`, `SystemsKeepPairs`, `SystemsRefine`: the
  same for any systems over any pools;
- `SystemsLeaveSlotsFree`, `SystemsSpec => []FreeSlotsAreFree`, and the action property
  `EntitiesAlwaysStartAnew`, `SystemsSpec => EntitiesStartAnew`, for any systems, plain
  ones and ones that ask for any status, `ENT_NONE` included (`SystemsAssumption` gives
  only the types).

The inductive invariant of the first three (`Sound`) is their conjunction, to which what
free slots hold is added for the rest: `FreeSlotsAreBlank` for the manager, for a program
with systems `Clean(Anew)`: status and link are reset and the components in `FromReset`.
That a system keeps it is `SystemKeepsAnew`: a plain one leads from `FromReset` to
`FromReset`, which is closed under it, and one that asks for a status passes over a slot
that looks free, or is one of those `FromReset` counts. None of the three is inductive alone: that
destroying frees one slot of each side, each once, needs the pairing; that the pairing
survives a create needs that the positions taken are distinct and on no live entity,
which is the soundness of both lists.

One lemma per action (`RegisterStep`, `AddChunkStep`, `CreateStep`,
`DestroyStep`, `DeleteEverythingStep`, `SetDataStep`) preserves it, gives
the abstract step, and shows for any set of values with the reset one in it that from
free slots that hold only these new entities start with them and free slots go on holding
them (`KeepsClean`); `NextStep` collects them. Assumptions: `PoolsAssumption`
(with `NumPools <= PoolIdRange`: the code's pool id is a `uint8_t` and nothing checks it)
and `ValuesAssumption`.

### 5.2 The queue, in `Buffers_proofs`

For any finite set of threads and any items:

- `TypeCorrect`: `QueueSpec => []QueueTypeOK`;
- `NoLostWakeup`: `QueueSpec => []WakeupsCoverItems`. The invariant counts: a push
  adds an item and a notification to come, `notify_one` turns one into an
  awake thread, taking an item uses one up, and a thread goes to sleep only on an
  empty queue. Each action has a lemma on how the two cardinalities change;
- `Refinement`: `QueueSpec => Abstract!Spec`, the abstract `Fifo`.

### 5.3 Addresses, in `ServerSession_proofs`

Without assumptions: `OneKeyPerAddressV4/V6` (neither less than the other only
if equal, so a map has one key per address), `StrictOrderV4/V6` (irreflexive and
transitive, within a family), `AddressesComeBackV4/V6` (an address survives the
way to `sockaddr` and back; of IPv6 the flowinfo and scope do not).

`ResolvedAddressIsReached`: the word `getaddrinfo` finds for a name, of any four
bytes, is the one in the `sockaddr` that `connect` gets.

### 5.4 `Notices_proofs`

For any connections:

- `NoticesStayOrdered`: `Spec => []Ordered`. Of one connection the beginning is queued
  first and the end last, and the end is queued as long as anything before it is.
  `Ordered` is inductive: a notice that comes is of a connection whose line says that
  it may, and telling takes the first of them;
- `NoticesComeInTurn`: `Spec => TellsInTurn`. A class that adds what it is told of and
  removes what it is told is over has exactly `Known`: it adds none twice, is told of
  no connection it does not have, and no other step changes what it should have.

Together with `KeepsPromise`, which 5.7 and 5.8 prove of the two modules, this is why
the plain bookkeeping of `net::Server` (an insertion and a removal) is right.

### 5.5 Sessions, in `ServerSession_proofs`

For any set of IPv4 hosts, any number of sessions, and with or without hosts that
return, loss and repetition (`ServerSessionAssumption`):

- `SessionsAreTyped`, `CacheAlwaysMatches`, `LinksAlwaysAuthentic`: `Spec => []...`
  for the three invariants of the run `server_session`.

The inductive invariant (`SessionInvariant`) adds to the types and to `Ordered` of the
notices: sessions are opened in turn, each by the host that is in it
(`OpenedInTurn`); a number is sent in the stream of its session only, so that an answer
under way is of the host of its session (`AskedInPrivate`); a session the server was not
told of has no address, one that has an address has its host's, and the cache is the
inverse of these addresses (`LinkedOnce`). That two hosts never share a key, and that a
datagram's sender is the address it is reached under, are the theorems of
5.3; that a client is added and removed once is `Notices_proofs`.

### 5.6 `PollSet_proofs`

For any set of descriptors:

- `PollKeepsOneEach`: `add`, `add_write`, `remove` and `remove_write` keep one entry
  for each descriptor and none that waits for nothing, and change what is waited for of
  their own descriptor only;
- `EventsComeInTurn`: what a wait gives, and in which order.

Both operators are folds over sequences. No induction principle of the library is
usable here (its induction takes a predicate as a parameter), so the module proves its
own over *sets*: `Induction` (a set with 0 and, below `n`, the successor of each member has
`n`) from the pigeonhole fact of finite sets, and `Recursion` (a function on `0 .. n` with a
given first value and step exists). `OnlyByStep` and `WaitedByStep` write the two
folds as such functions, the rest is induction over them.

### 5.7 `ClientLink_proofs`

For any number of links, starts, packets and datagrams, any capacity, and with or
without failing polls (`ClientLinkAssumption`):

- `ClientIsTyped`, `SocketsStayOwned`, `ClientFollowsLink`: `Spec => []...` for the
  three invariants of the run `client_link`;
- `ClientKeepsPromise`: `Spec => KeepsPromise`, the refinement of `Notices`.

The inductive invariant (`ClientInvariant`) is six parts. `TypeOK` bounds what was
received by what was sent, which needs that bytes are only moved (`LinkCounted`,
`DatagramsCounted`) and that main takes no more than the buffer still has
(`ReadingWhatIsThere`); the context's reads and writes need that an event left of a
round is of a socket that is there and has what it is about (`WatchingWhatIsThere`, from
`EventsComeInTurn`); that the close of one socket is not that of the other needs
`SocketsApart`; `ToldInTurn` is `Ordered` and `ClientsFollowLink`.

### 5.8 `BaseServer_proofs`

For any number of connections, starts, bytes and packets, any capacities, any
endings of peers, and with or without failing polls and set-ups
(`BaseServerAssumption`):

- `ServerIsTyped`, `ClientsAlwaysFollow`, `PollSetAlwaysMatches`, `EventsStayTheirs`:
  `Spec => []...` for the four invariants of the run `base_server`;
- `DropsHaveAReason`, `EventsAreLostToLookups`: the action properties
  `DropsAreJustified` and `OnlyLookupsLoseEvents`;
- `BufferedPacketsKeepTheirEvent`: with `MaxConns = 1` there is no other connection to
  insert or erase, and `BufferedPacketsHaveAnEvent` is an invariant;
- `ServerKeepsPromise`: `Spec => KeepsPromise`, the refinement of `Notices`.

The inductive invariant (`ServerInvariant`) is eight parts; each has a lemma per part
and group of actions (`PeersStep` .. `DropsStep`). What it has to say beyond the
properties is the argument for the code:

- *an event of a round is not taken for another connection* although descriptors are
  reused at once: the listener is the first entry of the poll (`PollKept`), so
  its event is the first of the round and a new connection gets its descriptor before
  any descriptor of that round is closed (`EventsFit`). A listener that were added after
  the connections would break this;
- *a failing set-up leaves a descriptor in the poll* with no connection; those are at most
  as many as the refused connections (`StrayFinite`, `StrayGrows`), and a new connection
  that gets one of them is polled once, as `add` finds the entry;
- *the connection a job of the context is at* stays in the map until `Erase`, though
  the job goes through three steps with different mutexes, since no one else erases
  (`JobFits`);
- *what is read after the close began* does not change why it began: the
  reader's mutex is held from the close to the erase, so that a buffer that was full
  stays full; a peer that left does not come back; and a request to drop
  stays asked for until its connection is down (`DropsHaveReasons`);
- *a complete packet is not forgotten* between the two threads, though there is one event
  for each read and not for each packet (`ReadingFits`, `BufferedStep`): the main thread
  goes on at a buffer until less than a packet is left; what it looks up is one of
  its clients or over, because the connection was announced before its data
  (`FoundStep`); and a buffer that is no connection's is empty, so that a uuid
  begins with no packet. The look-up that may miss a connection that is there is the one step
  the argument has to leave out.

The inductive invariant was also model-checked, in every state of the two
configurations of `base_server` with one and with two connections.

### 5.9 Packets, in `Buffers_proofs`

For any lengths of data and any sizes, as long as a header is smaller than a buffer and a
header can say any size up to a buffer's (`PacketStreamAssumption`):

- `StreamIsTyped`, `PacketsAlwaysArriveWhole`: `Spec => []...` for both invariants of the
  run `packet_stream`.

The inductive invariant (`StreamInvariant`) says that one sequence of bytes exists which
is all the writer ever took, packet after packet, and that from the end of the last packet
consumed on it is what is held now: the unread bytes of the receiver's buffer, then
those in the kernel, then those of the writer (`NothingIsLost`). Each step moves bytes from
one of the three to the one before it, or takes a packet off the front. Two more parts
are the argument for the code:

- *a packet is parsed without the mutex* from a span that was read under it
  (`SpanIsUnread`): the context may append to the buffer meanwhile, but it starts the
  buffer over only when all of it is read, and what is being parsed is not, so that
  the bytes of the span are the next ones of the stream and stay where they are;
- *the size in a header is the packet's* (`SizesFit`): the writer refuses what does not fit
  its buffer, and a size below that capacity is one that two bytes say.

The proof uses that the next packet of the stream begins with a header of its own size,
so that what `read` cuts off the front of the unread bytes is that packet and no other.

### 5.10 `Systems_proofs`

*Frames.* For any finite sets of slots, any layers, textures, animations and frame
lengths (`GameFrameAssumption`), `FramesComplete`: `FrameSpec => []FramesAreComplete`.
The systems that draw look at different components, the sprites' at the texture id and
the boxes' at the status. The frames are complete in both views because the two agree:
in every slot, used, free or used again, there is a texture id exactly when the entity
is alive (`FrameInvariant`), and the animation and the timers, which write free slots too,
leave both alone. In the frame of F3 both views are drawn or neither: the first half of
what is drawn is the sprites' view, whole, the second the boxes'.

*Walks.* For any pools and chunks (`QueryAssumption`), `NobodyMissed`:
`WalkSpec => []NobodyIsMissed`. The calls of a walk are fixed when it begins
(`WalkInvariant`); what has to be shown is which they are. Each loop is a
concatenation of the calls of its rounds, and `Once` says of a sequence that it has each
element of a set once: one lemma says that sequences which have disjoint sets once give one
that has their union once, and it is used for indices, chunks, pools and queries in turn.

*Scheduling.* For any groups, systems, branches of any shape, queries, pools, steps and
times (`SchedulerAssumption`), and for a program that registers nothing twice
(`NothingTwice`), `Spec => []...` for the four invariants of the run `scheduler`:
`SchedulerTypes`, `PoolsAllServed`, `OrderKept` and `TimeKept`.

The hypothesis is needed. The code asks for none of it and does what it is told: a system
registered twice holds each pool twice and is run twice a frame, a group named twice is
found where it comes first, and `registerSystem` repeated after it failed subscribes
twice (section 6). The configuration that TLC checks satisfies it.

The inductive invariant (`SystemsInvariant`, which TLC also checked in all states of the
configuration of `scheduler`) has four parts:

- `Placed`: each system has one place in one tree, and what the program has still to register
  (`Unoffered`) is in neither. It is what makes a registration safe: a branch that
  goes in shares no system and no group with what is there;
- `Served`: a system in a tree holds what matches of the pools, and what is not yet offered
  holds none. A pool is offered once for each place a system has in a run of both trees,
  hence once;
- `Obeyed`: the node asked for stands where it was asked to, next to, before or below its
  target (`Stands`). `GroupsRunWhereAsked` speaks of the order of a run, this of the nodes;
- `OnTime`: the time each system was run for, in the middle of the loop of fixed updates
  too: it is what is `Due` of its tree now, less what was due when it came.

Two facts about trees carry the argument. First, what a run is (`RunOrderIs`,
`RunPrecedes`): it has a system exactly if no closed node is above it, each system
once, the first systems of a node before and its last systems after all that is below it,
and everything below a node before everything below a later one that is not below it.
Second, what a registration does (`Grown`, from `GraftGains`): the nodes there were are still there, in the same order
and below the same nodes, wherever the branch goes in and however deep it is. So what stood
where it was asked to stands there still, and a system that a callback may stop may be
stopped by it still.

The runs of a tree are a function defined by itself, and most operators of these modules
concatenate sequences of sequences. As in 5.6 the module proves an induction and a
recursion over sets of numbers, and from these what `FlattenSeq` gives (`Joins`) and that
the function of `RunOrder` exists (`RunsExist`).

### 5.11 Only model-checked

- All liveness: fairness and ENABLED are outside the prover. `AnimationsComeRound` is half
  liveness; that half and the other, how far a strip goes, are one property of its run.
- `NoPairTwice` and the deadlock of `handle_events` are what their runs show violated.

## 6. Where code and documents disagree

Two disagreements are runs (`expect: violation`):

- `base_server_deadlock`: `handle_events` holds `using_tcp_connection`
  (`BaseServer.cpp:226`) and takes the reader's mutex; the context, closing a
  connection inside the reader's `with_lock` (`:318`), holds that and takes
  the other (`:424`). `BaseServer.hpp:67` says the public functions are
  thread-safe.
- `query_twice`: `selfCross` visits pairs of entities of two chunks in both orders,
  and, with `j <= i` (`Query.hpp:425`), the pairs at one index too; the comment at
  `:423` says no pair is checked twice.

Others were met while modelling; the models follow the code.

- `stop_context` and `start_context` again: the accepted connections stay in the
  map and are not polled any more (`BaseServer.cpp:585-611`), unless something is
  sent to them (then for writing only). A host whose listener is made after `start_context`
  does not accept. `host_tcp` and `host_udp` look neither at `_running` nor at a
  socket that is there, which then leaks, though `BaseServer.hpp:158` says these
  are not to be changed then; a `listen` that fails leaks one too
  (`TcpListener.cpp:22`).
- `Server::host` leaves TCP bound when UDP fails (`Server.cpp:33-37`): calling it
  again fails on its own listener.
- A connection whose `set_nonblocking` fails is closed and stays in the poll set
  (`BaseServer.cpp:262-267`).
- `is_valid_udp_message` gets the whole zeroed buffer and not what was received
  (`BaseServer.cpp:363`), so that a truncated datagram is queued.
- A connecting `net::Server` has `_udp_confirmed` set and an empty cache:
  `on_udp_data` dereferences `end()` for each valid datagram (`Server.cpp:145-149`).

- `handle_events` finds a connection without a lock and then uses `at`: the
  exception leaves `handle_events`, and an entry that is missed leaves its packet
  unread until more comes (`LookupMisses`; `BaseServer.cpp:225-227`; the insertion at `:270`
  holds no lock).
- Data received just before a disconnection that main has yet to hear of is
  dropped with the connection.
- A disconnection closes the descriptor at `BaseServer.cpp:398` or `:420`, and
  again in `~TcpConnection` (`BaseServer.hpp:121-126`); the mutex of a
  connection is destroyed inside its own `with_lock` (`:310-322`, `:425`).
- A failing poll ends the context but leaves `_running` true (`:551`).
- A client ignores the end of its link (`:282-284`) and `ask_disconnect`,
  `send_tcp` do nothing in client mode; main reads the link's reader (`:223-224`)
  while the context resets it (`:402-403`), with no lock (the author's TODO at
  `Server.cpp:156`).
- `protocol.md:28` says the answer of the UDP link is repeated until
  acknowledged; it is sent once, and there is no acknowledgement. A host that
  returns from the same UDP socket before the server heard of its end is swallowed by
  the old entry (`Server.cpp:145`); a repeated answer reaches `on_packet`
  (`:149`), though `Packet.hpp:13` reserves such types for the library.
- `protocol.md` gives a size field of four bytes; the code has two.
- IPv4 and IPv6 addresses are never less than each other, so they are one key
  to a map of both; `host_udp` binds IPv4, and such a map does not arise. The
  segments of IPv6 are copied in host order (TODO at `Socket.cpp:62`), so that
  what is printed is not what the kernel means.
- `registerSystem` subscribes before it looks for the group, so that one that
  failed and is repeated subscribes twice (`MayRetry` in `Scheduler`).
- `docs/src/ecs/ecs.md:46` says a system's operation is called for each entity
  that has its components; a plain mono system calls it for free slots as well,
  so an entity may start with what was added there, a timer that has run for
  instance. `EntitiesStartAnew` says what it can be.
- `selfCross` over chunks of different sizes indexes past the smaller one
  (`Query.hpp:408` demands equal ones). `ADualSystem::run` passes `_isParallel`
  where `cross` takes `selfCross` (`ADualSystem.hpp:45`), so that a parallel dual
  system visits its two queries in sequence and by the triangle.
- The frame in which F3 is pressed shows both views or none (`FramesAreComplete`).
- A strip moves while its left edge is inside the texture, which shows one strip
  past its end (`Systems.cpp:134`); a clock gives back at most one
  `animation_time` a frame; a reload that fails replaces the good texture.

## 7. What is not modelled, and why

- *Template makers* of components and archetypes: types, at compile time.
- *Logging*: the macros are empty unless the build defines `LOGGING`. With it, both
  threads of a `BaseServer` write to one `Logger`, which has no mutex: lines can mix,
  and nothing reads them back.
- *Result*: a value or an error, modelled as such by every module that calls one.
- *Generic Read and Write helpers* (`io/Read`, `io/Write`): nobody calls them.
  (`read_to_end` and `read_to_string` read nothing into an empty vector, and
  `write_all` and `read_exact` go round for ever on a count of 0.)
- *Text of addresses*, parsed or printed, but for what `parse_ascii` makes of a
  resolved IPv4 name. Parsing of IPv6 throws on an empty group; no property
  here is about text.
- *Randomness of uuids*: 64 random bits, drawn again while they are taken; an id is
  taken to be the next number.
- *Descriptors of a host*: `HostTcp` makes a listener or does not. `host_tcp` and
  `host_udp` called twice, or while the context runs (section 6), are left out, and
  so is a failing `listen`.
- *Truncated datagrams*: the parser drops them, as if they had been lost.
- *What a poll reports beyond* POLLIN, POLLOUT and POLLERR: the code looks at
  these three only. On Windows the same calls go to WSAPoll.
- *Memory effects of races*: a racing read of the map is a choice of its
  outcomes at the level of found or not found; what a corrupted table does is
  not. The use of a link being reset ends the behaviour (`"wild"`).
- *A handle destroyed twice*, or twice in one batch: excluded by a guard, as the
  manager trusts its callers.
- *The range returned by `createEntities`*, a view of a static vector.
- *Sums* of `spatial2d`: two systems of one assignment; when they run is in
  `Scheduler`. *Modules `network` and `game`* register an empty node.
- *The example server, tests, scripts, build and documents*: read, not modelled.
- *A `net::Server` that is host and client at once*: no document speaks of one.
  `net::Server` inherits `BaseServer` privately and does not offer `ask_disconnect`.

## 8. What is left of the plan

1. *More of the system:* a host's own descriptors (listener, accepted sockets,
   UDP) over `Sockets`; `listen` that fails; the calls of `host_*` a second time.
2. *More proofs:* of the scheduler for programs that register something twice, once it is
   settled what such a program should be given; that of `AnimationsComeRound` the part
   about how far a strip goes.
