--------------------------- MODULE ConnectionTable ---------------------------
(***************************************************************************)
(* The connections of one http object of http.c: how connect_http_client   *)
(* and poll_http's accept loop put them in its table, how poll_http visits *)
(* them, and how they leave it.  What the streams of a connection do with  *)
(* the bytes is in HttpStream: here a socket has something to read or not, *)
(* and a stream has something to send or not.                              *)
(*                                                                         *)
(* poll_http calls event handlers in its accept loop and in its loop over  *)
(* the table; they may send on any connection they know and open others.   *)
(* The kernel's side of each descriptor moves at any time (external).  The *)
(* sockets that connect_http_client opens are non-blocking, and nothing    *)
(* makes those that accept returns so: where they do not inherit it from   *)
(* the listening one, as on Linux, poll_http waits in their recv and send. *)
(* Reading a freed http_connection gives any value.                        *)
(***************************************************************************)
EXTENDS Integers, SequencesExt

CONSTANTS
    Pointer,            \* addresses malloc returns for an http_connection
    Descriptor,         \* the file descriptors of the process
    NULL,               \* an address and a descriptor not yet set
    Roles,              \* what the http object may be, a subset of Role
    AcceptBlocks,       \* whether a socket from accept blocks: on Linux, not on Windows
    InitialCapacity,    \* capacity of the table once it has one (4)
    MaxPeers,           \* bound: connections attempted, in and out
    MaxPackets          \* bound: packets completed by one recv

(* A client, a server, and a server that found no address it could bind:   *)
(* create_http_server returns it with a closed descriptor in Socket.       *)
Role == {"client", "listening", "unbound"}

ASSUME RoleAssumption     == Roles \subseteq Role
ASSUME AcceptAssumption   == AcceptBlocks \in BOOLEAN
ASSUME CapacityAssumption == InitialCapacity \in Nat \ {0}
ASSUME BoundAssumption    == MaxPeers \in Nat /\ MaxPackets \in Nat

VARIABLES
    Socket,                         \* http.Socket
    Connections, Connections_Size,  \* http.Connections, and their capacity
    object,     \* the memory of each http_connection
    allocated,  \* those that are allocated
    kernel,     \* the state of each descriptor (external)
    blocking,   \* those that lack O_NONBLOCK
    backlog,    \* connections waiting to be accepted (external)
    pc, i, Connection,  \* poll_http, its index and its pointer
    left,       \* packets its recv completed and it has not raised yet
    (* History: *)
    peers,      \* connections attempted
    dropped,    \* descriptors of connections recv found at their end
    due, stepped    \* connections this pass found, and those it has visited

process == <<Socket, Connections, Connections_Size, object, allocated>>
loop    == <<pc, i, Connection, left>>
outside == <<kernel, blocking, backlog, peers>>
history == <<dropped, due, stepped>>
vars    == <<process, loop, outside, history>>

(* unsent stands for Sending_Stream.Size > 0.                              *)
Object == [Socket: Descriptor, Verified: BOOLEAN, unsent: BOOLEAN]

Endpoint == {"free", "connecting", "refused", "established", "readable", "closed", "reset"}
Gone == {"closed", "reset"}         \* the peer has closed or reset it

TypeOK ==
    /\ Socket \in Roles
    /\ Connections \in Seq(Pointer) /\ Connections_Size \in Nat
    /\ allocated \subseteq Pointer
    /\ \A c \in allocated : object[c] \in Object
    /\ kernel \in [Descriptor -> Endpoint] /\ blocking \subseteq Descriptor
    /\ backlog \in 0..MaxPeers /\ peers \in 0..MaxPeers
    /\ pc \in {"idle", "accept", "announce", "visit", "recieve", "packets", "handler",
               "send", "sending", "killed"}
    /\ i \in Nat \ {0} /\ Connection \in Pointer \cup {NULL} /\ left \in 0..MaxPackets
    /\ dropped \subseteq Descriptor /\ due \subseteq Pointer /\ stepped \subseteq Pointer

SlipFresh(d) ==                     \* no memset
    [Socket |-> d]

Fresh(d) == [Socket |-> d, Verified |-> FALSE, unsent |-> FALSE]

Init ==
    /\ Socket \in Roles
    /\ Connections = << >> /\ Connections_Size = 0
    /\ object = [c \in Pointer |-> Fresh(NULL)]
    /\ allocated = {}
    /\ kernel = [d \in Descriptor |-> "free"] /\ blocking = {} /\ backlog = 0
    /\ pc = "idle" /\ i = 1 /\ Connection = NULL /\ left = 0
    /\ peers = 0 /\ dropped = {} /\ due = {} /\ stepped = {}

-----------------------------------------------------------------------------
(* The table.                                                              *)

TableSize(Count, Size) ==
    IF Size = 0 THEN InitialCapacity ELSE IF Size <= Count THEN 2 * Size ELSE Size

create_connection(c, d) ==
    /\ c \notin allocated
    /\ allocated' = allocated \cup {c}
    /\ object' = [object EXCEPT ![c] = Fresh(d)]
    /\ Connections' = Append(Connections, c)
    /\ Connections_Size' = TableSize(Len(Connections), Connections_Size)

SlipTakeOut(k) ==                   \* Count-- without the copy
    SubSeq(Connections, 1, Len(Connections) - 1)

(* The last connection takes the place of the k-th.                        *)
TakeOut(k) == SubSeq([Connections EXCEPT ![k] = Last(Connections)], 1, Len(Connections) - 1)

-----------------------------------------------------------------------------
(* Client calls: between polls, and from event handlers.                   *)

ClientRuns == pc \in {"idle", "announce", "handler"}

check_for_connection(d) == \E k \in DOMAIN Connections : object[Connections[k]].Socket = d

(* connect_http_client.  An address whose connect fails at once is closed  *)
(* and the next is tried; when none is left there is no connection.        *)
connect_http_client ==
    /\ ClientRuns /\ peers < MaxPeers
    /\ \E c \in Pointer, d \in Descriptor :
        /\ kernel[d] = "free"
        /\ IF check_for_connection(d) THEN UNCHANGED process
           ELSE create_connection(c, d) /\ UNCHANGED Socket
        /\ \E state \in {"connecting", "established"} :
            kernel' = [kernel EXCEPT ![d] = state]
        /\ blocking' = blocking \ {d}
    /\ peers' = peers + 1
    /\ UNCHANGED <<loop, backlog, history>>

(* A request or a response is sent on a connection the client was given.   *)
send_http(c) ==
    /\ ClientRuns /\ c \in allocated /\ ~object[c].unsent
    /\ object' = [object EXCEPT ![c].unsent = TRUE]
    /\ UNCHANGED <<Socket, Connections, Connections_Size, allocated, loop, outside, history>>

-----------------------------------------------------------------------------
(* The other side (external).                                              *)

Arrive ==
    /\ Socket = "listening" /\ peers < MaxPeers
    /\ peers' = peers + 1 /\ backlog' = backlog + 1
    /\ UNCHANGED <<process, loop, kernel, blocking, history>>

Moves == {<<"connecting", "established">>, <<"connecting", "refused">>,
          <<"established", "readable">>, <<"established", "closed">>,
          <<"established", "reset">>, <<"readable", "reset">>}

PeerMoves ==
    /\ \E d \in Descriptor, move \in Moves :
        kernel[d] = move[1] /\ kernel' = [kernel EXCEPT ![d] = move[2]]
    /\ UNCHANGED <<process, loop, blocking, backlog, peers, history>>

-----------------------------------------------------------------------------
(* poll_http's accept loop.                                                *)

StartVisits == pc' = "visit" /\ i' = 1 /\ due' = ToSet(Connections) /\ stepped' = {}

poll_http ==
    /\ pc = "idle"
    /\ IF Socket = "client" THEN StartVisits
       ELSE pc' = "accept" /\ UNCHANGED <<i, due, stepped>>
    /\ UNCHANGED <<process, Connection, left, outside, dropped>>

Accept ==
    /\ pc = "accept" /\ Socket = "listening" /\ backlog > 0
    /\ \E c \in Pointer, d \in Descriptor :
        /\ kernel[d] = "free" /\ kernel' = [kernel EXCEPT ![d] = "established"]
        /\ blocking' = IF AcceptBlocks THEN blocking \cup {d} ELSE blocking \ {d}
        /\ create_connection(c, d)
        /\ Connection' = c
    /\ backlog' = backlog - 1
    /\ pc' = "announce"
    /\ UNCHANGED <<Socket, i, left, peers, history>>

ReturnAnnounce ==
    /\ pc = "announce" /\ pc' = "accept"
    /\ UNCHANGED <<process, i, Connection, left, outside, history>>

(* With no descriptor to spare, or a Socket that is not one, accept fails  *)
(* and is called again.                                                    *)
Spinning ==
    /\ pc = "accept"
    /\ \/ Socket = "unbound"
       \/ backlog > 0 /\ \A d \in Descriptor : kernel[d] # "free"

AcceptFails == Spinning /\ UNCHANGED vars

(* Only EAGAIN ends the loop.                                              *)
EndAccept ==
    /\ pc = "accept" /\ Socket = "listening" /\ backlog = 0
    /\ StartVisits
    /\ UNCHANGED <<process, Connection, left, outside, dropped>>

-----------------------------------------------------------------------------
(* poll_http's loop over the table, with a connection not verified yet.    *)

Visited == Connections[i]
State == kernel[object[Visited].Socket]
Visiting == pc = "visit" /\ i <= Len(Connections)

SlipNotYet ==                       \* while loop, continue before i++
    /\ Visiting /\ ~object[Visited].Verified /\ State = "connecting"
    /\ UNCHANGED <<process, loop, outside, dropped, due, stepped>>

(* select finds it neither writable nor failed.                            *)
NotYet ==
    /\ Visiting /\ ~object[Visited].Verified /\ State = "connecting"
    /\ i' = i + 1 /\ stepped' = stepped \cup {Visited}
    /\ UNCHANGED <<process, pc, Connection, left, outside, dropped, due>>

SlipAfterFailure == i + 1           \* i-- forgotten

AfterFailure == i                   \* i-- and i++

SlipClose(d) == kernel              \* close forgotten

Close(d) == [kernel EXCEPT ![d] = "free"]

(* select finds it failed: it is closed, freed and taken out.              *)
Failed ==
    /\ Visiting /\ ~object[Visited].Verified /\ State \in {"refused", "reset"}
    /\ kernel' = Close(object[Visited].Socket)
    /\ allocated' = allocated \ {Visited}
    /\ due' = due \ {Visited}
    /\ Connections' = TakeOut(i)
    /\ i' = AfterFailure
    /\ UNCHANGED <<Socket, Connections_Size, object, pc, Connection, left, blocking, backlog,
                   peers, dropped, stepped>>

Visit ==
    /\ Visiting
    /\ object[Visited].Verified \/ State \in {"established", "readable", "closed"}
    /\ object' = [object EXCEPT ![Visited].Verified = TRUE]
    /\ Connection' = Visited /\ pc' = "recieve"
    /\ stepped' = stepped \cup {Visited}
    /\ UNCHANGED <<Socket, Connections, Connections_Size, allocated, i, left, outside,
                   dropped, due>>

-----------------------------------------------------------------------------
(* recieve_http_step and send_http_step of a verified connection.          *)

Peer == kernel[object[Connection].Socket]

Recieve ==
    /\ pc = "recieve" /\ Peer = "readable"
    /\ kernel' = [kernel EXCEPT ![object[Connection].Socket] = "established"]
    /\ left' \in 0..MaxPackets
    /\ pc' = "packets"
    /\ UNCHANGED <<process, i, Connection, blocking, backlog, peers, history>>

(* EAGAIN.  With nothing to read on a blocking socket recv does not return,*)
(* and poll_http waits until the peer sends, closes or resets.             *)
NothingToRecieve ==
    /\ pc = "recieve" /\ Peer = "established"
    /\ object[Connection].Socket \notin blocking
    /\ pc' = "send"
    /\ UNCHANGED <<process, i, Connection, left, outside, history>>

SlipAtEnd == {}                     \* recv 0 and ECONNRESET only warn

AtEnd == Gone

(* recv returns 0 or ECONNRESET: the connection is freed and taken out of  *)
(* the table, but its descriptor is not closed, and poll_http goes on with *)
(* its pointer and with the next index.                                    *)
Drop ==
    /\ pc = "recieve" /\ Peer \in Gone
    /\ pc' = "send"
    /\ IF Peer \in AtEnd
       THEN /\ allocated' = allocated \ {Connection}
            /\ \E k \in DOMAIN Connections :
                Connections[k] = Connection /\ Connections' = TakeOut(k)
            /\ dropped' = dropped \cup {object[Connection].Socket}
            /\ due' = due \ {Connection, Last(Connections)}
            /\ stepped' = stepped \ {Connection}
       ELSE UNCHANGED <<allocated, Connections, history>>
    /\ UNCHANGED <<Socket, Connections_Size, object, i, Connection, left, outside>>

RaisePacket ==
    /\ pc = "packets" /\ left > 0
    /\ pc' = "handler"
    /\ UNCHANGED <<process, i, Connection, left, outside, history>>

ReturnHandler ==
    /\ pc = "handler"
    /\ pc' = "packets" /\ left' = left - 1
    /\ UNCHANGED <<process, i, Connection, outside, history>>

EndPackets ==
    /\ pc = "packets" /\ left = 0
    /\ pc' = "send"
    /\ UNCHANGED <<process, i, Connection, left, outside, history>>

(* Sending_Stream.Size is read, and with data to send Socket, also when    *)
(* the connection has been freed.                                          *)
SeesUnsent == IF Connection \in allocated THEN {object[Connection].unsent} ELSE BOOLEAN
SeesSocket == IF Connection \in allocated THEN {object[Connection].Socket} ELSE Descriptor

NothingToSend ==
    /\ pc = "send" /\ FALSE \in SeesUnsent
    /\ pc' = "visit" /\ i' = i + 1
    /\ UNCHANGED <<process, Connection, left, outside, history>>

(* send on d returns: a non-blocking socket takes all the data, or a part, *)
(* or none; a blocking one takes all, unless its peer is gone or it is not *)
(* open.  Sending to a peer that is gone may raise SIGPIPE, and the data   *)
(* of a freed connection be at no address: the process ends.               *)
SendReturns(d) ==
    /\ \/ /\ pc' = "visit" /\ i' = i + 1
          /\ \E unsent \in BOOLEAN :
                /\ d \in blocking /\ kernel[d] \notin Gone \cup {"free"} => ~unsent
                /\ object' = [object EXCEPT ![Connection].unsent = unsent]
       \/ /\ kernel[d] \in Gone \/ Connection \notin allocated
          /\ pc' = "killed"
          /\ UNCHANGED <<object, i>>
    /\ UNCHANGED <<Socket, Connections, Connections_Size, allocated, Connection, left,
                   outside, history>>

Send ==
    /\ pc = "send" /\ TRUE \in SeesUnsent
    /\ \E d \in SeesSocket : SendReturns(d)

(* On a blocking socket send waits while the peer does not read.           *)
SendWaits ==
    /\ pc = "send" /\ TRUE \in SeesUnsent
    /\ \E d \in SeesSocket \cap blocking : kernel[d] \in {"established", "readable"}
    /\ pc' = "sending"
    /\ UNCHANGED <<process, i, Connection, left, outside, history>>

SendEnds ==
    /\ pc = "sending"
    /\ \E d \in SeesSocket \cap blocking : SendReturns(d)

EndPoll ==
    /\ pc = "visit" /\ i > Len(Connections)
    /\ pc' = "idle"
    /\ UNCHANGED <<process, i, Connection, left, outside, history>>

-----------------------------------------------------------------------------

Step ==
    \/ poll_http \/ Accept \/ ReturnAnnounce \/ AcceptFails \/ EndAccept
    \/ NotYet \/ Failed \/ Visit
    \/ Recieve \/ NothingToRecieve \/ Drop \/ RaisePacket \/ ReturnHandler \/ EndPackets
    \/ NothingToSend \/ Send \/ SendWaits \/ EndPoll

Killed == pc = "killed" /\ UNCHANGED vars

Next ==
    \/ Step \/ SendEnds \/ connect_http_client
    \/ \E c \in Pointer : send_http(c)
    \/ Arrive \/ PeerMoves \/ Killed

Spec == Init /\ [][Next]_vars

(* The application loop keeps calling poll_http, and handlers return.  A   *)
(* send that waits returns when the peer is gone; whether the peer ever    *)
(* reads, or sends what a recv waits for, is up to the peer.               *)
FairSpec == Spec /\ WF_vars(Step) /\ WF_vars(SendEnds /\ Peer \in Gone)

-----------------------------------------------------------------------------
(* Properties.                                                             *)

(* The table holds pointers to allocated connections, each of them once    *)
(* and within its capacity, and all that are allocated; so is the one an   *)
(* event handler is given, whatever the handler opens meanwhile.           *)
TableSound ==
    /\ Len(Connections) <= Connections_Size
    /\ ToSet(Connections) = allocated /\ Cardinality(allocated) = Len(Connections)
    /\ pc \in {"announce", "handler"} => Connection \in allocated

(* Every connection in the table has an open descriptor of its own, and    *)
(* every open descriptor is in the table, or recv dropped its connection:  *)
(* none is closed that is in use, and no other leaks.                      *)
DescriptorsAccounted ==
    LET used == {object[c].Socket : c \in allocated}
    IN  /\ Cardinality(used) = Cardinality(allocated)
        /\ used \cap dropped = {}
        /\ used \cup dropped = {d \in Descriptor : kernel[d] # "free"}

(* One poll visits every connection it finds in the table, and none twice, *)
(* though connections fail and leave and others come in the course of it;  *)
(* only the one that takes the place of a connection recv dropped can miss *)
(* its turn.                                                               *)
PollVisitsAll ==
    [][ /\ pc = "visit" /\ pc' = "idle" => due \subseteq stepped
        /\ pc = "visit" /\ pc' = "recieve" => Connection' \notin stepped ]_vars

(* The poll waits in recv or send on a blocking socket whose peer has not  *)
(* left, or calls accept again and again: with no descriptor left for the  *)
(* connection that waits, or on a socket that was never a listening one.   *)
Waiting ==
    \/ pc = "recieve" /\ Peer = "established" /\ object[Connection].Socket \in blocking
    \/ pc = "sending" /\ (Connection \in allocated => Peer \notin Gone)
Stuck == Waiting \/ Spinning

(* poll_http returns again and again, unless the process ends.  Only that  *)
(* of a server can stay in one call: waiting for one accepted peer that    *)
(* neither sends, reads nor leaves, or spinning on accept.                 *)
PollReturns ==
    \/ []<>(pc = "idle") \/ <>[](pc = "killed")
    \/ Socket # "client" /\ <>[]Stuck

(* A connection that failed, or that its peer has closed or reset, leaves  *)
(* the table, however many others there are; only a poll that stays for    *)
(* ever with another one, or spins on accept, never gets to it.            *)
EndsNoticed ==
    \/ <>[](Stuck \/ pc = "killed")
    \/ \A d \in Descriptor :
        (kernel[d] \in Gone \cup {"refused"} ~> d \notin {object[c].Socket : c \in allocated})

(* accept is called on a listening socket.                                 *)
AcceptsAsServer == pc = "accept" => Socket = "listening"
=============================================================================
