----------------------------- MODULE HttpStream -----------------------------
(***************************************************************************)
(* One direction of an HTTP connection of http.c: messages are formatted   *)
(* into the Sending_Stream of one process, which poll_http sends in pieces *)
(* of any size, and the poll_http of the other process gathers the pieces  *)
(* in its Recieving_Stream and cuts it into packets, one event each.       *)
(*                                                                         *)
(* A byte is a record of what the code can tell about it.  A name and its  *)
(* value that the parser reads as one, Content-Length, is one byte here;   *)
(* so is the first line, but for its end, and the lines between are left   *)
(* out.  The field n holds the number of the message a byte is of, so that *)
(* a byte in the wrong packet shows, or the length that is announced.      *)
(*                                                                         *)
(* The server has other connections.  The sockets its accept returns are   *)
(* never made non-blocking, and on Linux its poll_http waits in recv or    *)
(* send on one of them for as long as that one's peer likes.               *)
(***************************************************************************)
EXTENDS Integers, SequencesExt

CONSTANTS
    Kind,               \* "request" or "response": what this direction carries
    Messages,           \* the messages the client code sends
    InitialCapacity,    \* capacity a stream starts from (1024)
    MaxSent,            \* bound: messages
    WireCapacity        \* bound: bytes the kernels hold (external)

ASSUME KindAssumption     == Kind \in {"request", "response"}
ASSUME MessageAssumption  == Messages \subseteq [Headers: BOOLEAN, Body: Seq({"body", "CR", "LF"})]
ASSUME CapacityAssumption == InitialCapacity \in Nat \ {0} /\ WireCapacity \in Nat
ASSUME BoundAssumption    == MaxSent \in Nat

VARIABLES
    Sending,    \* http_stream: Data, of length Size, and Cap
    Recieving,  \* http_stream: Data, of length Size, Cap, Pos and Content_Length
    scanning,   \* recieve_http_step is in its loop over the data
    wire,       \* bytes send has taken and recv has not returned (external)
    open,       \* the sending process is alive
    connected,  \* the receiving process has the connection in its table
    held,       \* the server's poll_http waits on a socket for another reason
    (* History: *)
    sent, packets

stream == <<Sending, Recieving, scanning, wire, open, connected, sent, packets>>
vars == <<stream, held>>

Byte == [is: {"start", "Content-Length", "CR", "LF", "body", "NUL", "A"}, n: Nat]

TypeOK ==
    /\ Sending.Data \in Seq(Byte) /\ Sending.Cap \in Nat
    /\ Recieving.Data \in Seq(Byte) /\ Recieving.Cap \in Nat
    /\ Recieving.Pos \in 0..Len(Recieving.Data) /\ Recieving.Content_Length \in Nat
    /\ wire \in Seq(Byte)
    /\ {scanning, open, connected, held} \subseteq BOOLEAN
    /\ sent \in Seq(Messages) /\ packets \in Seq(Seq(Byte))

(* A connection fresh from create_connection, on both sides.               *)
Init ==
    /\ Sending = [Data |-> << >>, Cap |-> 0]
    /\ Recieving = [Data |-> << >>, Cap |-> 0, Pos |-> 0, Content_Length |-> 0]
    /\ scanning = FALSE /\ wire = << >> /\ open = TRUE /\ connected = TRUE
    /\ held = FALSE
    /\ sent = << >> /\ packets = << >>

-----------------------------------------------------------------------------
(* Sending.                                                                *)

CRLF == <<[is |-> "CR", n |-> 0], [is |-> "LF", n |-> 0]>>
NUL == [is |-> "NUL", n |-> 0]

(* The k-th message as snprintf writes it.  Headers that are NULL become   *)
(* an empty line, which ends the header before the Content-Length.         *)
Http(m, k) ==
    << [is |-> "start", n |-> k] >> \o CRLF \o (IF m.Headers THEN << >> ELSE CRLF)
        \o << [is |-> "Content-Length", n |-> Len(m.Body)] >> \o CRLF \o CRLF
        \o [x \in DOMAIN m.Body |-> [is |-> m.Body[x], n |-> k]]

(* The buffer appended to the stream.  A response's total_size counts a    *)
(* space after its colon that the format does not have: one byte more, the *)
(* NUL that ends the string.                                               *)
Buffer(m, k) == Http(m, k) \o (IF Kind = "response" THEN <<NUL>> ELSE << >>)

SlipStreamGrow(Cap, need) ==        \* doubles once
    IF Cap > need THEN Cap ELSE 2 * IF Cap = 0 THEN InitialCapacity ELSE Cap

(* do new_cap *= 2 while it is not more than needed.                       *)
StreamGrow(Cap, need) ==
    LET double[c \in Nat] == IF c > need THEN c ELSE double[2 * c]
    IN  IF Cap > need THEN Cap
        ELSE double[2 * IF Cap = 0 THEN InitialCapacity ELSE Cap]

http_stream_append_data(Stream, data) ==
    [Stream EXCEPT !.Data = @ \o data,
                   !.Cap = StreamGrow(@, Len(Stream.Data) + Len(data))]

(* The process of this end runs: the server's is not held in a call.       *)
SenderRuns   == open /\ ~(held /\ Kind = "response")
RecieverRuns == connected /\ ~(held /\ Kind = "request")

send_http_message(m) ==
    /\ SenderRuns /\ Len(sent) < MaxSent
    /\ sent' = Append(sent, m)
    /\ Sending' = http_stream_append_data(Sending, Buffer(m, Len(sent) + 1))
    /\ UNCHANGED <<Recieving, scanning, wire, open, connected, held, packets>>

SlipKeep(Data, chunk) ==            \* Size = 0 after a partial send
    << >>

(* What memmove keeps of the stream's data.                                *)
Keep(Data, chunk) == SubSeq(Data, chunk + 1, Len(Data))

(* The kernel takes a part of the data.  When it takes none, EAGAIN, the   *)
(* data waits for the next poll; on a blocking socket send takes part      *)
(* after part, as there is room, before it returns.                        *)
send_http_step ==
    /\ SenderRuns /\ Len(Sending.Data) > 0
    /\ \E chunk \in 1..Len(Sending.Data) :
        /\ Len(wire) + chunk <= WireCapacity
        /\ wire' = wire \o SubSeq(Sending.Data, 1, chunk)
        /\ Sending' = [Sending EXCEPT !.Data = Keep(@, chunk)]
    /\ UNCHANGED <<Recieving, scanning, open, connected, held, sent, packets>>

(* The sending process ends.  What it has sent can still be received, or a *)
(* reset discards it.                                                      *)
Exit ==
    /\ open /\ open' = FALSE
    /\ wire' \in {wire, << >>}
    /\ UNCHANGED <<Sending, Recieving, scanning, connected, held, sent, packets>>

-----------------------------------------------------------------------------
(* Receiving.                                                              *)

SlipRecieveCap(Cap, Size) ==        \* Size > Cap
    IF Cap = 0 THEN InitialCapacity ELSE IF Size > Cap THEN 2 * Cap ELSE Cap

RecieveCap(Cap, Size) ==
    IF Cap = 0 THEN InitialCapacity ELSE IF Size >= Cap THEN 2 * Cap ELSE Cap

(* recieve_http_step up to its loop.  recv returns 0, or ECONNRESET, when  *)
(* the other end is gone, and 0 also when it is asked for no bytes: the    *)
(* connection is freed.  When there is nothing yet it returns EAGAIN, or,  *)
(* on a blocking socket, goes on when there is something, with the room    *)
(* made before it was called.                                              *)
recieve_http_step ==
    /\ RecieverRuns /\ ~scanning
    /\ LET Cap  == RecieveCap(Recieving.Cap, Len(Recieving.Data))
           room == Cap - Len(Recieving.Data)
       IN  \/ /\ wire # << >>
              /\ \E chunk \in 1..Len(wire) :
                  /\ chunk <= room
                  /\ Recieving' = [Recieving EXCEPT !.Cap = Cap,
                                        !.Data = @ \o SubSeq(wire, 1, chunk)]
                  /\ wire' = SubSeq(wire, chunk + 1, Len(wire))
              /\ scanning' = TRUE /\ UNCHANGED connected
           \/ /\ room = 0 \/ (wire = << >> /\ ~open)
              /\ connected' = FALSE
              /\ UNCHANGED <<Recieving, wire, scanning>>
           \/ /\ wire = << >> /\ open
              /\ Recieving' = [Recieving EXCEPT !.Cap = Cap]
              /\ UNCHANGED <<wire, scanning, connected>>
    /\ UNCHANGED <<Sending, open, held, sent, packets>>

(* The offsets, from Pos on, of a CR LF CR LF.                             *)
HeaderEnds ==
    {p \in Recieving.Pos..Len(Recieving.Data) - 4 :
        \A x \in 1..4 : Recieving.Data[p + x].is = <<"CR", "LF", "CR", "LF">>[x]}

parse_http_stream_header(Data, p) ==
    LET named == {x \in 1..p : Data[x].is = "Content-Length"}
    IN  IF named = {} THEN 0 ELSE Data[Min(named)].n

ContentLength(p) ==
    IF Recieving.Content_Length # 0 THEN Recieving.Content_Length
    ELSE parse_http_stream_header(Recieving.Data, p)

(* The loop runs out of data before it finds the end of a header.          *)
AwaitHeader ==
    /\ scanning /\ HeaderEnds = {}
    /\ Recieving' = [Recieving EXCEPT !.Pos = Max({@, Len(Recieving.Data) - 3})]
    /\ scanning' = FALSE
    /\ UNCHANGED <<Sending, wire, open, connected, held, sent, packets>>

SlipBodyMissing(p) ==               \* Pos + Content_Length + 4 >= Size
    p + ContentLength(p) + 4 >= Len(Recieving.Data)

BodyMissing(p) == p + ContentLength(p) + 3 >= Len(Recieving.Data)

(* The header has ended but its body is not all there: return.             *)
AwaitBody ==
    /\ scanning /\ HeaderEnds # {}
    /\ LET p == Min(HeaderEnds)
       IN  /\ BodyMissing(p)
           /\ Recieving' = [Recieving EXCEPT !.Pos = p, !.Content_Length = ContentLength(p)]
    /\ scanning' = FALSE
    /\ UNCHANGED <<Sending, wire, open, connected, held, sent, packets>>

SlipAfterPacket(Stream, size) ==    \* Pos is left where it is
    [Stream EXCEPT !.Data = SubSeq(@, size + 1, Len(@)), !.Pos = size,
                   !.Content_Length = 0]

(* The stream after packet_recieved: Data[0] = 'A', if data is left there, *)
(* replaces its first byte.                                                *)
AfterPacket(Stream, size) ==
    LET rest == SubSeq(Stream.Data, size + 1, Len(Stream.Data))
    IN  [Stream EXCEPT !.Pos = 0, !.Content_Length = 0,
                       !.Data = IF rest = << >> THEN rest
                                ELSE [rest EXCEPT ![1] = [is |-> "A", n |-> 0]]]

SlipPacketSize(p) == p + 4          \* the body is not part of it

PacketSize(p) == p + ContentLength(p) + 4

(* packet_recieved raises the event and shifts the data; the loop goes on. *)
(* A handler may append to streams, none of which is of this direction.    *)
packet_recieved ==
    /\ scanning /\ HeaderEnds # {}
    /\ LET p    == Min(HeaderEnds)
           size == PacketSize(p)
       IN  /\ ~BodyMissing(p)
           /\ packets' = Append(packets, SubSeq(Recieving.Data, 1, size))
           /\ Recieving' = AfterPacket(Recieving, size)
    /\ UNCHANGED <<Sending, scanning, wire, open, connected, held, sent>>

(* The server's poll_http comes to a blocking socket on which it has to    *)
(* wait, another connection's or, for responses, this one's in recv, and   *)
(* goes on when that one's peer sends, reads or goes away.                 *)
Hold ==
    /\ ~held /\ held' = TRUE
    /\ Kind = "request" => ~scanning
    /\ UNCHANGED stream

Release ==
    /\ held /\ held' = FALSE
    /\ UNCHANGED stream

Next ==
    \/ \E m \in Messages : send_http_message(m)
    \/ send_http_step \/ Exit
    \/ recieve_http_step \/ AwaitHeader \/ AwaitBody \/ packet_recieved
    \/ Hold \/ Release

Spec == Init /\ [][Next]_vars

(* Both processes keep polling: the application loop calls poll_http in    *)
(* every frame, and poll_http steps every connection it can.  The server's *)
(* may be held again and again, but whenever it goes on it comes to this   *)
(* connection too (ConnectionTable's PollVisitsAll): strong fairness.      *)
(* Nothing makes the other peers release it.                               *)
FairSpec ==
    /\ Spec
    /\ SF_vars(send_http_step) /\ SF_vars(recieve_http_step)
    /\ WF_vars(AwaitHeader \/ AwaitBody \/ packet_recieved)

-----------------------------------------------------------------------------
(* Properties.                                                             *)

(* No stream is used past its capacity, though messages of any length are  *)
(* appended and the receiver grows only when it is full.                   *)
StreamsFit ==
    /\ Len(Sending.Data) <= Sending.Cap
    /\ Len(Recieving.Data) <= Recieving.Cap

(* However send and recv cut the data up, no byte is lost, repeated or     *)
(* reordered between the two clients, and none is replaced but the first   *)
(* of a packet, also when a message goes out with no headers.  If the      *)
(* sender goes away, what has arrived is still a prefix of what was sent.  *)
BytesConserved ==
    LET all  == FlattenSeq([k \in DOMAIN sent |-> Buffer(sent[k], k)])
        here == FlattenSeq(packets) \o Recieving.Data \o wire
                    \o (IF open THEN Sending.Data ELSE << >>)
    IN  /\ IF open THEN Len(here) = Len(all) ELSE Len(here) <= Len(all)
        /\ \A x \in DOMAIN here : here[x] = all[x] \/ here[x].is = "A"
        /\ \A k \in DOMAIN packets : \A x \in 2..Len(packets[k]) : packets[k][x].is # "A"

(* The receiver gives the connection up only when the other process is     *)
(* gone and nothing is left that recv would return: it never takes a full  *)
(* buffer, for which recv returns 0, for the end of the stream.            *)
HangsUpLast == ~connected => ~open /\ wire = << >>

(* What the receiver makes of its k-th packet: the k-th message, if every  *)
(* byte but the first is there.  A response starts with the byte its       *)
(* predecessor had too many.                                               *)
Expected(k) == (IF Kind = "response" /\ k > 1 THEN <<NUL>> ELSE << >>) \o Http(sent[k], k)
Garbled == [Headers |-> FALSE, Body |-> <<"garbled">>]
Reading(k) ==
    IF k \in DOMAIN sent /\ Tail(packets[k]) = Tail(Expected(k)) THEN sent[k] ELSE Garbled

(* The packets that come before what a message with no headers is cut to.  *)
Framed == {k \in DOMAIN packets : \A j \in DOMAIN sent : j <= k => sent[j].Headers}

Channel == INSTANCE MessageChannel WITH delivered <- [k \in Framed |-> Reading(k)]

(* One packet per message, in order, whole but for its first byte, however *)
(* the bytes were cut up, whatever is pipelined behind them, and also when *)
(* a body looks like the end of a header; up to the first message that is  *)
(* sent with no headers.                                                   *)
ImplementsChannel == Channel!Spec

(* Every message arrives, unless the sender goes away or the server waits  *)
(* for another connection's peer for ever.                                 *)
AllDelivered ==
    \/ <>[]held
    \/ \A k \in 1..MaxSent : (Len(sent) >= k ~> Len(packets) >= k \/ ~open)

(* A request's packet starts with its method.                              *)
MethodIntact ==
    \A k \in DOMAIN packets : packets[k][1] = [is |-> "start", n |-> k]
=============================================================================
