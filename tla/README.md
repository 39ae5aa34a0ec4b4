# A TLA+ model of Gaven

Gaven is a C framework: an application object that runs *layers* in *phases*,
an event system, and an HTTP client and server that are polled from a layer.
This directory holds TLA+ modules that model it, TLC configurations that check
them on small instances, and theorems checked by the TLA+ proof system.

Source paths below are relative to `src/gaven/src/` unless they say otherwise.

## The system

| component | state | operations | modelled in |
|---|---|---|---|
| layer registry (`core/layer/`) | the layers; the phase buckets, sorted by phase, each an array of pointers to bindings and a context; every layer's own array of bindings | `add_layer`, `remove_layer`, `bind_layer_phase`, `bind_phase_ctx` | `LayerRegistry`, `Application` |
| application loop, events, teardown (`core/application.c`, `core/layer/layer_registry.h`) | `Running`, the registry, and the loops' indices and pointers, live across callbacks | `create_gaven_application`, `run_application`, `application_event_callback`, `destroy_application` | `Application` |
| HTTP streams (`networking/http.c` 226-369, 498-609) | per connection a sending and a receiving buffer with `Size`, `Cap`, `Pos`, `Content_Length` | `send_http_request`, `send_http_response`, `send_http_step`, `recieve_http_step`, `packet_recieved` | `MessageChannel`, `HttpStream` |
| connection table and polling (`networking/http.c` 139-181, 370-465) | the table of connections, their memory and descriptors, `Verified`, the poll's index and pointer | `connect_http_client`, `poll_http` | `ConnectionTable` |
| HTTP objects (`networking/http.c` 58-138, 182-224, 610-618) | `Socket`, `Res`, and the descriptors of the process | `create_http_server`, `create_http_client`, `connect_http_client`, `destroy_http_server` | `HttpContext` |
| HTTP message formatting (`networking/http.c` 498-609) | none | `create_http_request`, `create_http_response`, ... | `HttpStream` (what framing depends on) |
| events (`core/event.h`, `networking/http.h`) | `Handled`; the type numbers are compile-time constants | `create_event_type`, `EVENT_DISPATCH` | `Application` (`Handled` only) |
| logging (`core/debug/`) | one static `FILE*` per process; the directory and files | `GAVEN_WARN`, `GAVEN_INFO`, `GAVEN_ASSERT`, `destroy_logging` | `Logging` |
| `src/demo`, `src/demoserver` | an example client and server | `main`, their handlers | `Exchange` |
| dynamic arrays (`core/data_structures.h`) | a header before the array | macros to create, push, swap-remove, free | not modelled: nothing expands them |

Everything runs on **one thread**. `main` builds layers and runs the
application; `run_application` calls phase callbacks; a callback polls HTTP;
`poll_http` raises events; `application_event_callback` calls the layers'
handlers; and any of these callbacks may call back into the registry, raise
events, open connections and send. What interleaves is therefore the library's
loops with the calls made from inside them, for HTTP two processes and the
network between them, and for logging the processes that share a directory.

**Sockets that block.** `set_nonblocking` is called for the socket a client
opens (`http.c:202`) and for the listening one (`http.c:123`), and for no other.
What `accept` returns at `http.c:380` inherits the mode on Windows and is a
blocking socket on Linux. There a server's `poll_http` does not return from
`recv` (line 313) on an accepted connection until its peer has sent something or
gone, nor from `send` (line 240) until it has read, and meanwhile it accepts,
visits and sends on no other. A client's `poll_http` never waits. The models of
a server have this wait in them (`ConnectionTable!Waiting`, `HttpStream!held`,
`Exchange!Held`), and the liveness properties say what is left in spite of it.

### What is hard, and what makes it correct

* *Loops over arrays that their own callbacks change.* Every binding found at
  the start of a frame runs in it (`FrameCallsEachBinding`), every layer gets
  an event nobody handles (`DispatchReachesAll`), every connection is visited
  in a poll (`PollVisitsAll`): with precisely the exceptions swap-removal makes.
* *Pointers into arrays that are reallocated*: `Bucket` in `run_application`,
  the binding pointers in the buckets, `Connection` in `poll_http`
  (`MemorySafe`, `BucketsMatchRegistry`, `TableSound`).
* *Re-entrant registry operations*: `OnAttach` runs at the end of `add_layer`,
  `OnDettach` in the middle of `remove_layer` (`BucketsMatchRegistry`,
  `DetachedNeverCalled`, `PhasesSorted`).
* *Teardown that calls callbacks* (`TeardownDetachesAll`), and all of a layer's
  life together (`ImplementsLifecycle`).
* *A byte stream cut up anywhere, either process dying* (`ImplementsChannel`,
  `BytesConserved`, `AllDelivered`, `HangsUpLast`).
* *Descriptors*: one per connection, none lost (`DescriptorsAccounted`), and
  loops that end (`PollReturns`, `EndsNoticed`, `StopHonoured`,
  `DestroyHonoured`). Across objects, numbers that are closed, kept and used
  again (`DescriptorsOwned`, `AcceptsOwn`), and a list that is freed and kept,
  which only some calls may meet (`FaultNeedsList`).
* *One connection that holds all the others*: the poll of a server waits for an
  idle peer (`PollReturns`, `EndsNoticed`, `AllDelivered`, `Served`).
* *Files shared by processes that start, assert and die at any moment*
  (`MessagesKept`, `ReasonOnDisk`, `AssertsIfRefused`, `ClosedLast`).
* *Several clients and a server that comes and goes* (`AnswersOwnRequest`,
  `Served`, `ChannelsKept`).

`PROJECT.json` lists the hazards one by one, at their lines, with the
properties that watch them.

## Modules

    LayerRegistry  <--  Application  <--  MCApplication        (TLC)
          ^                  ^
          |                  +--------  ApplicationProofs      (TLAPS)
          +--- LayerRegistryProofs  <---------+                (TLAPS)

    LayerLifecycle  <-- implemented by --  Application

    MessageChannel  <-- implemented by --  HttpStream  <--  MCHttpStream
          ^                                    ^
          |                                    +--  HttpStreamProofs   (TLAPS)
          |
          +-- both directions of every connection in --  Exchange  <--  MCExchange
                                                             ^
                                                             +--  ExchangeProofs
    ConnectionTable  <--  MCConnectionTable                    (TLC)
          ^
          +--------  ConnectionTableProofs                     (TLAPS)

    HttpContext  <--  MCHttpContext                            (TLC)
          ^
          +--------  HttpContextProofs                         (TLAPS)

    Logging  <--  MCLogging                                    (TLC)
       ^
       +--------  LoggingProofs                                (TLAPS)

    SequenceFacts  <-- LayerRegistryProofs, HttpContextProofs, HttpStreamProofs

**LayerRegistry** has no state: it is the operators of `layer.c` on its data.
A C array with its `Count` is a sequence next to its capacity. A
`layer_binding*` is a record of the layer, the index in the layer's array, and
`Block`, how often `realloc` had moved that array when the pointer was taken;
a pointer whose `Block` is no longer the layer's dangles. The linear search for
a phase is `Slots`, the set of places where it can stop.

**Application** is the running program. `stack` is the C call stack above
`run_application` and `destroy_application`: one frame per callback, per
`add_layer` in its loop and per dispatch. `pc`, `i` and `j` are where
`run_application` or `destroy_layer_registry` is. Client calls
(`add_layer`, `remove_layer`, `bind_layer_phase`, `bind_phase_ctx`,
`application_event_callback`, writing `Destroy`, clearing `Running`) are enabled
in `main` before the run and whenever a callback is on top of the stack; the
library's own steps are enabled when one of its loops is. A callback is
therefore *any* sequence of client calls followed by a return. Using freed
memory sets `fault` to the kind of memory and ends the behaviour.

The API has usage rules that are written nowhere and that no code checks. They
are in `Rule`; `misuse` records those that were broken, and properties that
need one say so with `Keeps`. A cfg may also exclude breaking a rule (`Rules`).
That makes the properties say what each rule is for, instead of assuming it.

**LayerLifecycle** is what that promises a layer: `OnAttach` first, phase and
event callbacks only until `OnDettach`, an `OnDettach` for each `OnAttach`, and
a layer freed only after its last. Its `callbacks` are the callback frames of
`Application`'s stack, in their order; its `stage` is read off `live`, `freed`
and the stack.

**HttpStream** is one direction of a connection, both ends and the sockets
between. A byte is a record of what the code can tell about it, and the number
of the message it belongs to, which only the properties look at. `send` takes
any part of the sending stream, `recv` returns any part of what is on the way
that fits the buffer, and a sender that exits may take the bytes still on the
way with it. `recieve_http_step` is the call of `recv`;
`AwaitHeader`, `AwaitBody` and `packet_recieved` are the turns of its loop.
Between them the sender's process moves freely. The end that is the server (the
receiver of requests, the sender of responses) is one connection of several:
`Hold` and `Release` are its `poll_http` waiting on another of them, or, when
it is to send a response, in the `recv` of this one.

**MessageChannel** is what that promises: whole messages, in order, once, as
long as the sender is there. `HttpStream!ImplementsChannel` is the refinement:
the channel's `delivered` is what can be made of the packets raised so far, and
a packet counts as its message when all bytes but the first are right (the
first is subject to the finding below; a response starts with the NUL that its
predecessor's size counted too many). The mapping stops at the first message
with NULL headers, which is cut into packets of its own.

**ConnectionTable** is one `http` object: the table, the memory of every
`http_connection`, and its process's descriptors, whose other side moves at
any time (`PeerMoves`, `Arrive`). `pc` is where `poll_http` is; client calls
are enabled between polls and in event handlers. `pc = "recieve"`, `"packets"`,
`"handler"`, `"send"`, `"sending"` is one visit. A descriptor stays in use until
the code closes it. `blocking` has those that `accept` returned, if
`AcceptBlocks`: with nothing to read `recv` on one of them does not return
(`NothingToRecieve` is disabled), and `send` may go to `"sending"` and return at
any time later or never. After a drop `poll_http` goes on with the pointer it
freed: the size and the socket it reads there are any values, and a `send` to a
peer that is gone, or of data that is no longer there, may end the process.

**HttpContext** is several `http` objects in one process and the descriptors
they share, of which the kernel gives out the lowest free number. `pc` and `p`
are where `create_http_server` or `connect_http_client` is in the address list;
each `socket`, `bind`, `listen`, `connect` and lookup may fail. Each descriptor
in use records the object it was opened for, so a table or a `Socket` that
holds another's shows. `poll_http` is there as what it does to descriptors.

**Logging** is the processes that log in one directory, with a step for each
system call between which others may come: the clock is read into `buffer`, the
file's name, and `fopen` opens what it names later. A file is a sequence of
messages; `offset` is the stream's position, which the file, emptied by another
process, may be shorter than.

**Exchange** composes the rest to the example programs: `demoserver`, started
again when it was killed, and runs of `demo`. `link` is a connection as both
kernels see it. The server's `poll_http` accepts until nothing waits, then
visits the connections it has: `pass` are those it has not come to, `turn` is
the one it is in `recv` for. `blocks` says whether accepted sockets block: then
`recv` of a connection whose client sends nothing more does not return, as it
does with `NothingToRecieve` where they do not. `handling` and `left` are the
server inside
`example_on_networking_recieve`, which is where it may die with answers
appended and none sent. The two directions of a connection are kept as
`MessageChannel`s, and `ChannelsKept` says that every step uses them so.

## Runs

| run | configuration | states | shows |
|---|---|---|---|
| `layers_free` | `MCLayers.cfg`: 2 layers, 2 phases, 2 bindings each, no rule excluded | some 10^6 | registry invariants, memory safety by rule, frames |
| `layers_three` | `MCCallbacks.cfg`: 3 layers, 1 phase | some 10^6 | dispatches and teardown with three layers |
| `layers_loop` | `MCLoop.cfg`: 2 layers, 2 phases, contexts, all rules, fairness | 272 000 | refinement of `LayerLifecycle`, liveness of the loop, contexts |
| `stream_requests` | `MCRequests.cfg`: 3 requests, `WireCapacity` 4, fairness | 232 000 | capacity, refinement, delivery |
| `stream_responses` | `MCResponses.cfg`: 3 responses, `WireCapacity` 12, some with NULL headers | 3 000 000 | refinement with the byte too many, hanging up, conservation of bytes when framing fails |
| `connections` | `MCServer.cfg`: 3 connections, 3 descriptors, accepted ones blocking, symmetry | 2 000 000 | table, memory, descriptors, visiting |
| `polling` | `MCPolling.cfg`: 3 connections on 2 descriptors, accepted ones blocking, fairness | 473 000 | `poll_http` returns and ends are noticed, unless the poll is stuck with one peer or on `accept` |
| `contexts` | `MCContexts.cfg`: 2 objects, 4 descriptors, 2 addresses, both builds, symmetry | 487 000 | owners of descriptors, which calls an address list makes unsafe |
| `logging` | `MCLogging.cfg`: 2 processes, 2 messages, 2 seconds, 3 nested assertions, symmetry | 458 000 | what is in the log files |
| `exchange` | `MCExchange.cfg`: 2 clients, 2 starts of the server, sockets that block and that do not, fairness | 199 000 | the examples: answers, channels, service |
| `pipelined_method` | `MCMethod.cfg` | | finding 1 |
| `unbound_server` | `MCUnbound.cfg` | | finding 2 |

### Bounds, and why they are enough

* `InitialCapacity` is 1 (arrays) or 3 and 4 (streams) in place of 4 and 1024,
  so that arrays grow, move and are full within a run; the proofs hold for any.
  With streams it also means that a message is longer than twice the first
  capacity, which the doubling loop is for.
* Two layers on two phases with two bindings each: two layers in one bucket is
  what swap-removal needs, two buckets what insertion before another needs, two
  bindings what a repeated binding needs. Three layers in a dispatch are needed
  for one to be moved, one to be removed and one to be running.
* `MaxCalls` bounds what *callbacks* call (2): a removal and a re-addition, or
  two removals, or an event raised within one. `MaxDepth` (3, 4) bounds the
  nesting, `MaxBindings` and `MaxAttached` the arrays.
* `MaxSent` is 3: a message before and one behind a packet; bodies are empty,
  short, or look like the end of a header. `WireCapacity` 4 is less than
  a message, so both sides see pieces of messages, and a message may take many
  calls of either; 12 lets the whole next message be there behind the end of
  the one before, so that one `recv` fetches several.
* `MaxPeers` is 3: one connection that leaves, one that takes its place, one
  that comes meanwhile. `polling` has fewer descriptors than connections, so
  that the process runs out of them, and two at once, so that one can hold the
  poll while the other's peer leaves. `AcceptBlocks` is TRUE: with FALSE the
  waits are missing and nothing comes instead. `MaxPackets` is the number of
  handlers one `recv` may lead to.
* `contexts` has two objects because a number has to pass from one to another,
  four descriptors so that each can hold a socket and a connection at a time,
  and two addresses so that one fails and the next does not.
* `logging` has two processes and two seconds: the same second and different
  ones. `MaxDepth` 3 stands for the depth at which the stack is full: one
  assertion nested in another is the least that tells nesting from asserting,
  and three that all went on to write would make a file longer than one process
  may.
* `exchange` has two clients, one to be answered while the other waits, and two
  starts of the server, one to be killed and one to take over. `localhost` has
  two addresses and the server's wildcard two, of which one reaches only one of
  `localhost`'s, so that a client may pick an address nobody listens at.
* Layers, processes, and pointers and descriptors, are symmetric where
  `SYMMETRY` says so, in runs with safety properties only.

### Fairness

`Application!FairSpec` is weak fairness of the library's own steps: the thread
keeps running, and callbacks return. Client calls are not fair: their number is
finite (`MaxCalls`), as it is in a callback that returns.
`HttpStream!FairSpec` is weak fairness of the receiver's loop and strong
fairness of `send_http_step` and `recieve_http_step`: the process at each end
keeps calling `poll_http` from a phase callback in every frame, and that comes to
every connection (`ConnectionTable!PollVisitsAll`). A server's is held now and
then by another connection, and goes on; hence strong fairness, since the step
is possible again and again and not all the time. Nothing says that a held poll
is ever released: `AllDelivered` leaves out behaviours in which it is held from
some time on. Sending and exiting are not fair.
`ConnectionTable!FairSpec` is weak fairness of `poll_http`'s steps and its
callers', and of the return of a `send` that waits when its peer is gone; peers,
arrivals and client calls are not fair, so that a poll may wait in `recv` or
`send` for ever. `PollReturns` and `EndsNoticed` leave out exactly that
(`Waiting`: one accepted peer that neither leaves nor sends or reads, for ever)
and the `accept` that fails for ever (`Spinning`).
`Exchange!FairSpec` is weak fairness of the server's steps together and of each
client's: both loops poll in every frame, a handler returns, and a `connect` in
progress ends. For each client `ServerRecieve` is strongly fair: `recv` may
return a part of a request, but of finite requests not for ever. A server that is
in `recv` for an idle client has no step, and nothing makes that client close:
`Served` allows a server held by one that has its answers, for ever, and by no
other. That happens: `demo` never closes its connection, so on Linux a second
`demo` started while the first runs is not served. Without that disjunct TLC
finds `Served` violated. Nothing says that a client starts, that anything is
killed, or that the server starts again.

### Mutants

Each definition named `Slip...` stands before the definition it mutates and is
a mistake one could make in that place in C: a test that is off by one, a copy
or a reset forgotten, a `close` forgotten. `PROJECT.json` pairs every property
of every passing run with such a slip; substituting it makes TLC find that
property violated, in that run.

## Findings

1. **The byte written after a packet** (`networking/http.c:269`, run
   `pipelined_method`). `packet_recieved` ends with `Data[0]='A'`, after moving
   what follows the packet to the front. If the next message is there already,
   its first byte is lost: a pipelined `GET ` arrives as `AET `. The example
   server (`src/demoserver/src/main.c:15`) compares with `"GET "`. Responses are
   spared: their first byte is the NUL that the response before had too many.
2. **A server that could not bind** (`networking/http.c:125`, run
   `unbound_server`). `create_http_server` closes each descriptor it cannot bind
   and leaves the last one in `Socket`. `poll_http` (line 376) takes any value
   but -1 for a server socket, `accept` fails with something other than
   `EAGAIN`, and the loop (line 378) never ends.

Other behaviour the models keep, and the properties state exactly rather than
excuse: a connection dropped by `recv` leaks its descriptor
(`DescriptorsAccounted`), and once they are used up the accept loop spins
(`PollReturns`); the connection moved in its place misses one poll
(`PollVisitsAll`); messages sent with NULL headers are framed wrongly, since the
blank line stands before `Content-Length` (`BytesConserved` holds, and
`ImplementsChannel` is checked with headers); a layer bound twice to a phase
leaves an entry behind when it is removed (`DetachedNeverCalled`). An `http`
that was ever given an address list cannot be destroyed, since `Res` is freed
and kept, and in a release build a lookup that fails for it reads the freed
list; `FaultNeedsList` says that nothing else leads there. The examples define
`example_on_dettach`, which would destroy one, but never install it. A server
that could bind nothing keeps a number, and once another server has it, takes
that one's connections (`AcceptsOwn`). A `connect` in progress counts as
success, so `demo` never tries the second address (`Served`), and when all fail
at once it sends on a NULL connection (`StartFails`). One accepted peer that
stays idle holds a server on Linux, as said above (`PollReturns`, `Served`).
While `logs` cannot be made or the file cannot be opened, the assertion that
says so calls itself (`AssertsIfRefused`). Two processes that look at the clock
in one second share a file and overwrite one another, however far apart they
open it (`MessagesKept`).

## Proofs

The theorems hold for every value of the constants that the modules'
assumptions allow: phases are naturals, a capacity to start from is positive,
bounds are naturals, clients are not `None`. Each module builds one inductive
invariant out of named parts, with a lemma for each part (`...Init`, `...Next`)
and one theorem for each property.

`SequenceFacts` has what the rest needs of numbers and sequences. `LeastNumber`,
that a non-empty set of naturals has a least element, serves wherever a proof is
by induction: the library's induction theorems take an operator as a parameter,
which the installed provers cannot instantiate, and a least counterexample does
the same. `Occurs` counts the places where a sequence has an element of a set;
the lemmas say how that changes with `Append`, removal and swap-removal. The
library's `FlattenSeq` is a recursive function, of which a prover knows nothing
until it is shown to exist, by the least argument for which it would not
(`FlattensExists`); `FlattenAppend` then says what one more sequence adds.

### Application

`ApplicationProofs` has five stages, each of which rests on those before.

1. `Typed` and `Dispatches`: the call stack. `TypeOK` alone is not inductive: a
   return from `OnEvent` moves the index of the frame *below*, which has to be
   a dispatch, and library frames index a layer's arrays, so they must have
   one (`StackShape`). `Dispatches` says that `add_layer`'s loop is only ever on
   top, and that a layer an event is due to has a place in the array at or
   behind the index of the dispatch, and of every dispatch below on the stack.
   * `TypeCorrect == Spec => [](TypeOK /\ StackShape)`.
   * `AlwaysReachesAll == Spec => DispatchReachesAll`.
   * `NeverOverrun == Spec => []NoOverrun`, by `BucketsFit`, `LayersFit`,
     `BindingsFit`; it rests on `GrowMakesRoom`.
   * `AlwaysSorted == Spec => []PhasesSorted`. `BucketsNext` says what any step
     does to the buckets: nothing, a registration, a context, or a removal in
     every bucket; `InsertKeepsBuckets` that inserting at a member of `Slots`
     keeps the order.
   * `ContextsFollow == Spec => []ContextFollowsPhase`. It needs the order: that
     makes the place where the search for a phase ends the only place a bucket
     of that phase can be (`OtherBuckets`).
2. `Torn`: what is attached and freed. `TearsDown` ties the layers freed to the
   index of `destroy_layer_registry`, `AddedOnce` and `FreedSafe` say that no
   layer comes up twice there; `AttachesLeft` counts, for each layer, that the
   `OnAttach` calls it is ahead by, with the one `add_layer` is about to make,
   are as many as its places that teardown has still to come to.
   * `AlwaysDetachesAll == Spec => []TeardownDetachesAll`.
3. `Registered`: what is in the buckets. `Balanced` counts, for each binding of
   each layer, its entries in the buckets and the one `add_layer`'s loop has
   still to make, against the times the layer is attached or in its `OnDettach`.
   That `remove_layer` takes the right entry away, though it looks for no more
   than the layer, needs `EntriesOwned` (an entry is in the bucket of the phase
   its layer bound at its index) and `BoundOnce`. From `Balanced`, a layer
   that is not attached has no entry, so that binding it may move its array:
   `Fresh`, that entries point to where the arrays are. `BucketKept` is the same
   for the frame's bucket: without a new phase the buckets do not move.
   * `BucketsAlwaysMatch == Spec => []BucketsMatchRegistry`.
   * `AlwaysMemorySafe == Spec => []MemorySafe`, from `FreedSafe`, `Fresh` and
     `BucketKept`, one for each kind of memory.
   * `NeverCallsDetached == Spec => DetachedNeverCalled`: a frame calls only the
     layer of an entry, which the layer is owed, and no `OnDettach` is in
     progress (`PhaseAttached`).
4. `Lawful`: a client that keeps every rule (`Rules = Rule`) has broken none,
   a layer is owed its bindings at most once (`OwedOnce`), so that it is in the
   array or in one `OnDettach` and never both, and one that is being registered
   is in the array.
   * `ApplicationImplementsLifecycle == ASSUME Rules = Rule PROVE Spec =>
     ImplementsLifecycle`, the refinement. The mapping reads `callbacks` off the
     call stack and each `stage` off the stack, `live` and `freed`;
     `CallbacksCalls` and `LeavingCalls` say what one more frame adds to either,
     whatever is below it. `LawfulAttached` turns a place in the array into the
     stage that `Detach`, `RunPhase` and `RaiseEvent` start from, `TeardownStep`
     takes it from the places still to come; `LawfulReturned` says that nothing
     of a layer is in progress when its `OnDettach` returns, though handlers ran
     in between. Registrations, dispatches and the loops map to stutters.
5. `FramePass`: one frame, from the buckets as it found them to the end of the
   last one, with any number of changes by callbacks in between. What is due is
   called or has a place at or ahead of the loop's (`CalledOrAhead`) and is
   still registered (`StillThere`), what was called is of the buckets up to the
   loop's (`InOrder`), and is not ahead (`NeverAgain`). The place counts as
   passed while the callback is in progress (`Reached`), for which a phase
   callback has to be at the bottom of the stack (`PhaseFrames`). A removal is
   the delicate step: the last entry of each bucket moves, and `Spares` takes
   out of what is due the one that moves behind the loop (`RemovePasses`).
   `NeverAgain` survives registrations because no binding is registered twice
   (`EntriesSingle`, from `Balanced` and `OwedOnce`).
   * `FrameAlwaysCallsEach == Spec => FrameCallsEachBinding`.

`LayerRegistryProofs` holds the lemmas on the operators: what `Grow`,
`SwapRemove`, `push_phase_bucket`, `remove_layer_phase_bucket`, `InsertBucket`,
`register_binding` and `set_phase_context` do to types, lengths, order,
capacities and contexts, and to the number of entries of a layer.

### HttpStream

`StreamGrow`'s `double` is a recursive function too; once it is known to exist
(`DoublesExists`), `StreamGrows` says that doubling ends with enough room. The
proof of conservation treats the bytes not lost as one sequence, the packets',
the receiver's, those between and the sender's joined (`Stream`): `StreamMoves`
says that a step of `send` or `recv` leaves it as it is.

* `StreamTypeCorrect`, `StreamsAlwaysFit` and `AlwaysHangsUpLast`:
  `Spec => []TypeOK`, `[]StreamsFit` and `[]HangsUpLast`. The last needs the
  second: a receiver with a full buffer doubles it before it calls `recv`, so
  that a 0 from `recv` is the end of the stream.
* `AlwaysBytesConserved == Spec => []BytesConserved`. The invariant is `Typed`,
  `LaidDown` (the text of the messages grows at its end), `Clean` (nothing is
  an `A` that `packet_recieved` did not write), and `Conserved`.
* `StreamImplementsChannel == Spec => ImplementsChannel`, the refinement.
  `Parsed` says that the scan resumes behind no end of a header and that a
  remembered `Content_Length` is the announced one: then the end it finds is
  the first in the data (`ScanFinds`), however the data came. `FramedUpTo` says
  that the first `f` packets are the first `f` messages and, while there are no
  more packets, that the next begins where the next message does, less the one
  byte a response before it had too many. `PacketIs` is the step: if the
  message there has headers, the first end of a header in the data is its own
  (`HeaderFound`; a body comes behind it), what it announces is the length of
  its body, and so the packet is the message. `ChannelStep` maps each step:
  sending to `Send`, a packet that is a message to `Deliver`, `Exit` to `Close`,
  everything else to a stutter.

### ConnectionTable

* `PollTypeCorrect == Spec => []TypeOK`. The inductive `Typed` adds the type of
  the memory behind pointers, that `Connection` points to something once
  `poll_http` visits, that a handler has packets left to raise (or the count
  would go below 0), and that no more peers wait than there are.
* `AlwaysSound == Spec => []TableSound`: the table has no pointer twice and has
  exactly those that are allocated. `Table` adds that the pointer `poll_http`
  holds is allocated at every place where it may drop the connection or call a
  handler: a drop then removes an entry that is there, and frees it once.
* `AlwaysAccounted == Spec => []DescriptorsAccounted`: the descriptors in use
  for connections are one for each in the table and those leaked by drops. Its
  invariant is the two above with `Descriptors`, which says the same without
  cardinalities; the library's theorems on finite sets turn one into the other.
* `AlwaysVisitsAll == Spec => PollVisitsAll`, by `Pass`: nothing ahead of the
  index has been visited, and what is due and has not been is ahead.

### HttpContext

* `HttpTypeCorrect == Spec => []TypeOK` and
  `FaultAlwaysNeedsList == Spec => []FaultNeedsList`, by `Sound`: with the types,
  the call in progress is for an object that is there (`Calls`), and an address
  list is whole only during the call that made it (`Lists`).
* `DescriptorsAlwaysOwned == Spec => []DescriptorsOwned` and
  `AlwaysAcceptsOwn == Spec => []AcceptsOwn`, by `Owned`: until a list is freed
  twice, the `Socket` of a server that could bind is its own in the kernel
  (`Bound`), and each connection in the kernel has one entry in one table or was
  leaked (`Entered`). A number that is given out again was free, so it was in no
  table; that of a server that could not bind is what `Bound` has to leave out.

### Exchange

* `ExchangeTypeCorrect == Spec => []TypeOK` and
  `AlwaysAnswersOwn == Spec => []AnswersOwnRequest`, by `Typed` and
  `AllAnswered`: a connection has a request delivered only once it is accepted,
  three answers follow before another event is raised, and those to the client
  being handled are all by the server that runs. `Typed` also says that the
  connection being visited was accepted and is not among those still to visit.
* `KeepsChannels == Spec => ChannelsKept`: every step is one or a stutter of the
  `MessageChannel` in each direction of each connection.

### Logging

* `LogTypeCorrect == Spec => []TypeOK`. `Typed` has files of any length;
  `Sized` bounds them, which needs that a file position is what its process
  has written.
* `AlwaysKept == Spec => []MessagesKept`, by `AllKept`, the same for each
  process, and `AllPlaced`: where a process is in `get_logFile` tells whether it
  has a file, without one it has written nothing, and the position in its file
  is the number of its messages, so that the next is appended (`PutAppends`).
  `KeptByLog` and `KeptByOpen` are the two steps that change a file, by the
  process itself or by another.
* `AlwaysReason == Spec => []ReasonOnDisk`, from `AllPlaced`, which also says
  that the last message of a process that trapped is an assertion, and
  `AlwaysKept`.
* `AlwaysRefused == Spec => []AssertsIfRefused`, by `AllCounted`. It adds that
  none is pending when the client runs, and that a process which returns from
  `mkdir` and finds no directory has a refusal to spare for the assertion that
  follows: nobody removes a directory, so it was refused by its own `mkdir`.
* `AlwaysClosedLast == Spec => []ClosedLast`, by `AllClosing`: between closing
  the stream and the end of `destroy_application` nothing calls `get_logFile`.

`OthersStay` says once that a step of a process leaves what belongs to others.

### Model-checked only

Every invariant and action property that a passing run checks is proved, and
every refinement. TLC alone checks the liveness properties: `StopHonoured`,
`DestroyHonoured`, `AllDelivered`, `PollReturns`, `EndsNoticed` and `Served`.
Liveness under fairness, and what needs `ENABLED`, are beyond the prover.

## Not modelled

* The dynamic array macros (`core/data_structures.h`, repeated in
  `include/gaven.h`): nothing in the repository expands them.
* Category bits, which nothing reads, and the numbers of event types:
  `networking_new_connection` (`http.h:29`) and the examples' `test_event` both
  have 0, where `event.h:18` asks for unique positive integers, but only
  `networking_recieve`, which has 1, is ever dispatched on.
* Failing allocation (the assertions stop a debug build; a release build goes
  on with NULL), overflow of `size_t` and `int` counts.
* A callback that runs or destroys the application, or polls an `http` that is
  being polled; a second `destroy_application`; a client that frees a layer; a
  second `destroy_http_server` of one object.
* NULL callbacks, which behave as callbacks that do nothing.
* A client that keeps an `http_connection*` after the connection was dropped:
  nothing tells it so.
* Windows and Android branches; `select` failing and descriptors past
  `FD_SETSIZE`; errors of `recv` that are neither of those handled.
* Texts: methods, paths, status lines, log messages; `cJSON`.
* `send_http` (lines 466-497), which nothing calls.

## Plan

Of what the runs check, nothing that the prover can reach is left to prove. Two
changes to the library would need work here: a limit on the time a connection
may take to complete (the todo at `http.c:428`) would be an action of
`ConnectionTable`, and a second thread for polling would end the assumption
that a client's call and the library's loops never interleave.
