------------------------------ MODULE Exchange ------------------------------
(***************************************************************************)
(* The example programs: demoserver, which answers every GET with three    *)
(* responses, and runs of demo, each of which connects to localhost, sends *)
(* one GET and polls.  The two directions of a connection are              *)
(* MessageChannels, which HttpStream implements; how connections come and  *)
(* go is taken from ConnectionTable and HttpContext.                       *)
(*                                                                         *)
(* demoserver's poll_http accepts what waits to be accepted and then visits*)
(* every connection.  It waits in recv where sockets block, as the ones    *)
(* accept returns do on Linux: they are never made non-blocking.           *)
(*                                                                         *)
(* Any of the processes may be killed at any time, and demoserver started  *)
(* again.  Neither program stops by itself, and demo does not try twice.   *)
(***************************************************************************)
EXTENDS Integers, SequencesExt

CONSTANTS
    Client,         \* runs of demo
    Localhost,      \* the addresses getaddrinfo finds for "localhost", in order
    Wildcard,       \* those it finds for NULL
    Serves,         \* the addresses a socket bound to each of those is reached at
    MaxInstances    \* bound: starts of demoserver

Address == ToSet(Localhost)

ASSUME AddressAssumption ==
    /\ Localhost \in Seq(Address) /\ Wildcard \in Seq(ToSet(Wildcard))
    /\ Serves \in [ToSet(Wildcard) -> SUBSET Address]
ASSUME BoundAssumption == MaxInstances \in Nat

VARIABLES
    server, bound, instance,    \* demoserver: its state, its address, which start of it
    blocks,     \* its accepted sockets block: as on Linux, or not, as on Windows
    pass, turn, \* the clients poll_http has still to visit in this pass, the one it visits
    handling, left,     \* the client whose request demoserver handles, responses to send
    client,     \* the state of each demo
    target,     \* the address it connects to
    link,       \* its connection, as both sides' kernels have it
    verified,   \* http_connection.Verified, on the client's side
    requests, responses     \* the two directions: what is sent and what is delivered

program  == <<server, bound, instance, blocks>>
poll     == <<pass, turn, handling, left>>
clients  == <<client, target, verified>>
channels == <<requests, responses>>
vars     == <<program, poll, clients, link, channels>>

None == "none"
GET == "GET"

ASSUME ClientAssumption == None \notin Client

Answer == [to: Client, by: 1..MaxInstances, n: 1..3]

TypeOK ==
    /\ server \in {"off", "listening", "unbound", "killed"}
    /\ bound \in ToSet(Wildcard) \cup {None} /\ instance \in 0..MaxInstances
    /\ client \in [Client -> {"off", "running", "crashed", "killed"}]
    /\ target \in [Client -> Address \cup {None}]
    /\ link \in [Client -> {"none", "connecting", "failed", "queued", "accepted",
                            "severed", "lost"}]
    /\ verified \in [Client -> BOOLEAN]
    /\ requests \in [Client -> [sent: Seq({GET}), delivered: Seq({GET})]]
    /\ responses \in [Client -> [sent: Seq(Answer), delivered: Seq(Answer)]]
    /\ blocks \in BOOLEAN /\ pass \in SUBSET Client /\ turn \in Client \cup {None}
    /\ handling \in Client \cup {None} /\ left \in 0..3

Init ==
    /\ server = "off" /\ bound = None /\ instance = 0 /\ blocks \in BOOLEAN
    /\ client = [c \in Client |-> "off"] /\ target = [c \in Client |-> None]
    /\ link = [c \in Client |-> "none"] /\ verified = [c \in Client |-> FALSE]
    /\ requests = [c \in Client |-> [sent |-> << >>, delivered |-> << >>]]
    /\ responses = [c \in Client |-> [sent |-> << >>, delivered |-> << >>]]
    /\ pass = {} /\ turn = None /\ handling = None /\ left = 0

Alive(c) == client[c] = "running"
Gone(c) == client[c] \in {"crashed", "killed"}
Link(c, state) == link' = [link EXCEPT ![c] = state]

SlipDeliver(channel) ==             \* the packet stays at the front: no memmove
    [channel EXCEPT !.delivered = Append(@, channel.sent[1])]

Pending(channel) == Len(channel.delivered) < Len(channel.sent)
Deliver(channel) ==
    [channel EXCEPT !.delivered = Append(@, channel.sent[Len(@) + 1])]

-----------------------------------------------------------------------------
(* demoserver.                                                             *)

(* poll_http runs, and visits no connection.                               *)
Polling == server = "listening" /\ handling = None /\ turn = None

(* main, with create_http_server(NULL, 5000), which binds the first        *)
(* address it can, if any: those before the n-th were tried in vain.       *)
StartServer ==
    /\ server \in {"off", "killed"} /\ instance < MaxInstances
    /\ instance' = instance + 1
    /\ \/ \E n \in DOMAIN Wildcard : server' = "listening" /\ bound' = Wildcard[n]
       \/ server' = "unbound" /\ bound' = None
    /\ UNCHANGED <<blocks, poll, clients, link, channels>>

(* poll_http accepts a connection and raises networking_new_connection,    *)
(* which no layer of demoserver dispatches on.                             *)
Accept(c) ==
    /\ Polling /\ pass = {} /\ link[c] = "queued"
    /\ Link(c, "accepted")
    /\ UNCHANGED <<program, poll, clients, channels>>

(* accept has nothing more to return.                                      *)
BeginVisits ==
    /\ Polling /\ pass = {} /\ \A c \in Client : link[c] # "queued"
    /\ pass' = {c \in Client : link[c] = "accepted"}
    /\ UNCHANGED <<program, turn, handling, left, clients, link, channels>>

Visit(c) ==
    /\ Polling /\ c \in pass
    /\ pass' = pass \ {c} /\ turn' = c
    /\ UNCHANGED <<program, handling, left, clients, link, channels>>

(* recv returns EAGAIN.  Where sockets block it waits instead: for more of *)
(* a request, or for the end of the connection.                            *)
NothingToRecieve(c) ==
    /\ turn = c /\ ~blocks /\ ~Gone(c)
    /\ turn' = None
    /\ UNCHANGED <<program, pass, handling, left, clients, link, channels>>

Sent(c) == verified[c] /\ Pending(requests[c])

RecievePart(c) ==
    /\ turn = c /\ Sent(c)
    /\ turn' = None
    /\ UNCHANGED <<program, pass, handling, left, clients, link, channels>>

(* example_on_networking_recieve: the request is a GET.                    *)
ServerRecieve(c) ==
    /\ turn = c /\ Sent(c)
    /\ requests' = [requests EXCEPT ![c] = Deliver(@)]
    /\ turn' = None /\ handling' = c /\ left' = 3
    /\ UNCHANGED <<program, pass, clients, link, responses>>

SlipReplyTo ==                      \* one http_connection for the layer, not E->Connection
    CHOOSE c \in Client : link[c] = "accepted"

ReplyTo == handling

SlipSendResponse ==                 \* one call too many
    /\ handling # None /\ left > -1
    /\ responses' = [responses EXCEPT ![ReplyTo].sent =
                        Append(@, [to |-> handling, by |-> instance, n |-> 4 - left])]
    /\ left' = left - 1
    /\ UNCHANGED <<program, pass, turn, handling, clients, link, requests>>

(* Each of the three calls of send_http_response.                          *)
send_http_response ==
    /\ handling # None /\ left > 0
    /\ responses' = [responses EXCEPT ![ReplyTo].sent =
                        Append(@, [to |-> handling, by |-> instance, n |-> 4 - left])]
    /\ left' = left - 1
    /\ UNCHANGED <<program, pass, turn, handling, clients, link, requests>>

(* The handler returns, and send_http_step sends what it appended: three   *)
(* short responses fit the socket's buffer, so that send does not wait.    *)
ReturnHandler ==
    /\ handling # None /\ left = 0 /\ handling' = None
    /\ UNCHANGED <<program, pass, turn, left, clients, link, channels>>

(* recv finds the end of the connection.  The one that takes its place in  *)
(* the table may miss its turn.                                            *)
ServerDrop(c) ==
    /\ turn = c /\ Gone(c)
    /\ Link(c, "lost") /\ turn' = None
    /\ \E d \in Client : pass' \in {pass, pass \ {d}}
    /\ UNCHANGED <<program, handling, left, clients, channels>>

(* What becomes of the connections when the server's process ends: nothing *)
(* that a handler has appended is on its way before the handler returns.   *)
Severed ==
    [c \in Client |->
        IF link[c] \in {"queued", "accepted"}
        THEN IF c = handling THEN "failed" ELSE "severed"
        ELSE link[c]]

(* The server is killed, or ends by the SIGPIPE of a send to a client that *)
(* is gone.                                                                *)
ServerEnds ==
    /\ server \in {"listening", "unbound"}
    /\ server' = "killed" /\ bound' = None /\ link' = Severed
    /\ pass' = {} /\ turn' = None /\ handling' = None /\ left' = 0
    /\ UNCHANGED <<instance, blocks, clients, channels>>

-----------------------------------------------------------------------------
(* demo.                                                                   *)

(* main up to run_application.  connect_http_client goes on with the first *)
(* address, the n-th, whose connect does not fail at once.                 *)
StartClient(c) ==
    /\ client[c] = "off"
    /\ \E n \in DOMAIN Localhost : target' = [target EXCEPT ![c] = Localhost[n]]
    /\ client' = [client EXCEPT ![c] = "running"] /\ Link(c, "connecting")
    /\ requests' = [requests EXCEPT ![c].sent = <<GET>>]
    /\ UNCHANGED <<program, poll, verified, responses>>

(* Every address fails at once: the request is sent on a NULL connection.  *)
StartFails(c) ==
    /\ client[c] = "off" /\ client' = [client EXCEPT ![c] = "crashed"]
    /\ UNCHANGED <<program, poll, target, verified, link, channels>>

Reachable(c) == server = "listening" /\ target[c] \in Serves[bound]

(* The connect completes or fails, while demo polls (external).            *)
Handshake(c) ==
    /\ link[c] = "connecting" /\ Alive(c)
    /\ Link(c, IF Reachable(c) THEN "queued" ELSE "failed")
    /\ UNCHANGED <<program, poll, clients, channels>>

(* select finds the connection writable, whether or not it was accepted.   *)
Writable(c) == link[c] \in {"queued", "accepted", "severed"}

SlipVerify(c) ==                    \* Verified = 1 forgotten
    /\ Alive(c) /\ ~verified[c] /\ Writable(c)
    /\ UNCHANGED vars

Verify(c) ==
    /\ Alive(c) /\ ~verified[c] /\ Writable(c)
    /\ verified' = [verified EXCEPT ![c] = TRUE]
    /\ UNCHANGED <<program, poll, client, target, link, channels>>

(* poll_http takes the connection out of demo's table: refused, reset, or  *)
(* at its end.  Nothing opens another.                                     *)
ClientDrop(c) ==
    /\ Alive(c) /\ link[c] \in {"failed", "severed"}
    /\ Link(c, "lost")
    /\ UNCHANGED <<program, poll, clients, channels>>

(* example_on_networking_recieve of demo.  Responses on their way when the *)
(* server ended may still arrive.                                          *)
ClientRecieve(c) ==
    /\ Alive(c) /\ verified[c] /\ link[c] \in {"accepted", "severed"}
    /\ handling # c /\ Pending(responses[c])
    /\ responses' = [responses EXCEPT ![c] = Deliver(@)]
    /\ UNCHANGED <<program, poll, clients, link, requests>>

ClientEnds(c) ==
    /\ Alive(c) /\ client' = [client EXCEPT ![c] = "killed"]
    /\ UNCHANGED <<program, poll, target, verified, link, channels>>

-----------------------------------------------------------------------------

Visits(c) ==
    Visit(c) \/ NothingToRecieve(c) \/ RecievePart(c) \/ ServerRecieve(c) \/ ServerDrop(c)

ServerStep ==
    \/ BeginVisits \/ send_http_response \/ ReturnHandler
    \/ \E c \in Client : Accept(c) \/ Visits(c)

ClientStep(c) == Handshake(c) \/ Verify(c) \/ ClientDrop(c) \/ ClientRecieve(c)

Next ==
    \/ StartServer \/ ServerStep \/ ServerEnds
    \/ \E c \in Client : StartClient(c) \/ StartFails(c) \/ ClientStep(c) \/ ClientEnds(c)

Spec == Init /\ [][Next]_vars

(* Both application loops run on where no call waits, a request that is    *)
(* sent arrives at last when it is read, and the network answers a connect.*)
FairSpec ==
    /\ Spec /\ WF_vars(ServerStep)
    /\ \A c \in Client :
        /\ SF_vars(ServerRecieve(c))
        /\ WF_vars(Handshake(c)) /\ WF_vars(Verify(c)) /\ WF_vars(ClientDrop(c) \/ ClientRecieve(c))

-----------------------------------------------------------------------------
(* Properties.                                                             *)

(* The answers a client is sent are three for each request that arrived,   *)
(* in answer to its own request and in order, all from one start of the    *)
(* server, whatever clients are answered in between and however often the  *)
(* server is started again.  Only a server that ends sends fewer.          *)
AnswersOwnRequest ==
    \A c \in Client :
        LET answers == responses[c].sent
        IN  /\ link[c] = "accepted" /\ handling # c =>
                Len(answers) = 3 * Len(requests[c].delivered)
            /\ \A n \in DOMAIN answers :
                answers[n] = [to |-> c, by |-> answers[1].by, n |-> n]

(* demoserver is in recv on a connection other than c's, whose client is   *)
(* there and sends no more: it has its answers.                            *)
Held(c) ==
    turn \notin {None, c} /\ blocks /\ Alive(turn) /\ Len(responses[turn].sent) = 3

(* A client that connects to an address the server is listening at gets    *)
(* all three responses, unless one of the two processes ends, or the server*)
(* is held in recv by a client served earlier that does not close, and only*)
(* where sockets block.  An address it could have tried next is of no use. *)
Served ==
    \A c \in Client, start \in 1..MaxInstances :
        (Alive(c) /\ link[c] = "connecting" /\ Reachable(c) /\ instance = start
            ~> \/ Len(responses[c].delivered) = 3
               \/ ~Alive(c) \/ server # "listening" \/ instance # start
               \/ []Held(c))

Requests(c) == INSTANCE MessageChannel WITH
    Messages  <- {GET},
    sent      <- requests[c].sent,
    delivered <- requests[c].delivered,
    open      <- ~Gone(c)

Responses(c) == INSTANCE MessageChannel WITH
    Messages  <- Answer,
    sent      <- responses[c].sent,
    delivered <- responses[c].delivered,
    open      <- link[c] \notin {"failed", "severed", "lost"}

ChannelsInit == \A c \in Client : Requests(c)!Init /\ Responses(c)!Init

ChannelsNext ==
    \A c \in Client : /\ [Requests(c)!Next]_(Requests(c)!vars)
                     /\ [Responses(c)!Next]_(Responses(c)!vars)

(* Each direction of each connection is used as the channel that HttpStream*)
(* implements: nothing is sent by an end that is closed, and what arrives  *)
(* is what was sent, in order and once.                                    *)
ChannelsKept == ChannelsInit /\ [][ChannelsNext]_vars
=============================================================================
