--------------------------- MODULE ExchangeProofs ---------------------------
(***************************************************************************)
(* For any clients, addresses and starts of the server: the types of the   *)
(* example programs' state, that every client is sent the answers to its   *)
(* own request, and that each direction of each connection is used as a    *)
(* MessageChannel.                                                         *)
(***************************************************************************)
EXTENDS Exchange, TLAPS

Request  == [sent: Seq({GET}), delivered: Seq({GET})]
Response == [sent: Seq(Answer), delivered: Seq(Answer)]

(* A server that listens is one of the starts that answers are by, and     *)
(* handlers run in no other.  It visits accepted connections only.         *)
Typed ==
    /\ TypeOK
    /\ server = "listening" => instance > 0
    /\ handling # None => server = "listening" /\ turn = None
    /\ turn # None => server = "listening" /\ link[turn] = "accepted" /\ turn \notin pass
    /\ \A c \in pass : link[c] = "accepted"
    /\ \A c \in Client : client[c] = "off" => link[c] = "none"

(* answers is an initial part of the answers of one start to c.            *)
Answers(answers, c) ==
    \A n \in DOMAIN answers : answers[n] = [to |-> c, by |-> answers[1].by, n |-> n]

(* A connection has its one request delivered only when it has been        *)
(* accepted, and three answers follow it before another event is raised.   *)
Answered(c) ==
    /\ client[c] = "off" => link[c] = "none" /\ requests[c].sent = << >>
    /\ Len(requests[c].delivered) <= Len(requests[c].sent) /\ Len(requests[c].sent) <= 1
    /\ link[c] \in {"none", "connecting", "queued"} =>
        requests[c].delivered = << >> /\ responses[c].sent = << >>
    /\ link[c] = "accepted" /\ handling # c =>
        Len(responses[c].sent) = 3 * Len(requests[c].delivered)
    /\ handling = c =>
        /\ link[c] = "accepted" /\ Len(requests[c].delivered) >= 1
        /\ Len(responses[c].sent) = 3 - left
        /\ \A n \in DOMAIN responses[c].sent : responses[c].sent[n].by = instance
    /\ Answers(responses[c].sent, c)

AllAnswered == \A c \in Client : Answered(c)

-----------------------------------------------------------------------------
(* Types.                                                                  *)

LEMMA TypedInit == Init => Typed
  <1> SUFFICES ASSUME Init PROVE Typed
    OBVIOUS
  <1>1. requests \in [Client -> [sent: Seq({GET}), delivered: Seq({GET})]]
    BY DEF Init
  <1>2. responses \in [Client -> [sent: Seq(Answer), delivered: Seq(Answer)]]
    BY DEF Init
  <1>3. 0 \in 0..MaxInstances
    BY BoundAssumption
  <1>4. target \in [Client -> Address \cup {None}]
    BY DEF Init
  <1>5. /\ link \in [Client -> {"none", "connecting", "failed", "queued", "accepted",
                                "severed", "lost"}]
        /\ client \in [Client -> {"off", "running", "crashed", "killed"}]
        /\ verified \in [Client -> BOOLEAN]
    BY DEF Init
  <1>6. /\ server = "off" /\ bound = None /\ instance = 0
        /\ handling = None /\ left = 0 /\ turn = None /\ pass = {} /\ blocks \in BOOLEAN
    BY DEF Init
  <1>7. TypeOK
    BY <1>1, <1>2, <1>3, <1>4, <1>5, <1>6 DEF TypeOK
  <1>8. QED
    BY <1>6, <1>7 DEF Typed, Init

(* A message that waits is delivered as it was sent.                       *)
LEMMA DeliverType ==
    ASSUME NEW S, NEW ch \in [sent: Seq(S), delivered: Seq(S)], Pending(ch)
    PROVE  /\ Deliver(ch) \in [sent: Seq(S), delivered: Seq(S)]
           /\ Deliver(ch).sent = ch.sent
           /\ Deliver(ch).delivered = Append(ch.delivered, ch.sent[Len(ch.delivered) + 1])
           /\ Len(Deliver(ch).delivered) = Len(ch.delivered) + 1
  <1>1. Len(ch.delivered) + 1 \in 1..Len(ch.sent)
    BY DEF Pending
  <1>2. ch.sent[Len(ch.delivered) + 1] \in S
    BY <1>1
  <1> DEFINE longer == Append(ch.delivered, ch.sent[Len(ch.delivered) + 1])
  <1>3. longer \in Seq(S) /\ Len(longer) = Len(ch.delivered) + 1
    BY <1>2
  <1>4. Deliver(ch) = [ch EXCEPT !.delivered = longer]
    BY DEF Deliver
  <1> HIDE DEF longer
  <1>5. /\ [ch EXCEPT !.delivered = longer] \in [sent: Seq(S), delivered: Seq(S)]
        /\ [ch EXCEPT !.delivered = longer].sent = ch.sent
        /\ [ch EXCEPT !.delivered = longer].delivered = longer
    BY <1>3
  <1>6. QED
    BY <1>3, <1>4, <1>5 DEF longer

LEMMA TypedNext == Typed /\ [Next]_vars => Typed'
  <1> SUFFICES ASSUME Typed, [Next]_vars PROVE Typed'
    OBVIOUS
  <1> USE DEF Typed, TypeOK
  <1>1. CASE UNCHANGED vars
    BY <1>1 DEF vars, program, poll, clients, channels
  <1>2. CASE StartServer
    BY <1>2, BoundAssumption DEF StartServer, poll, clients, channels, ToSet
  <1>3. CASE send_http_response
    <2>1. handling \in Client /\ instance \in 1..MaxInstances /\ 4 - left \in 1..3
      BY <1>3, BoundAssumption DEF send_http_response
    <2> DEFINE m == [to |-> handling, by |-> instance, n |-> 4 - left]
    <2>2. m \in Answer
      BY <2>1 DEF Answer
    <2>3. responses' = [responses EXCEPT ![handling].sent = Append(@, m)]
      BY <1>3 DEF send_http_response, ReplyTo
    <2> HIDE DEF m
    <2>4. responses' \in [Client -> [sent: Seq(Answer), delivered: Seq(Answer)]]
      <3>1. Append(responses[handling].sent, m) \in Seq(Answer)
        BY <2>1, <2>2
      <3>2. QED
        BY <2>1, <2>3, <3>1
    <2>5. left' \in 0..3
      BY <1>3 DEF send_http_response
    <2>6. QED
      BY <1>3, <2>4, <2>5 DEF send_http_response, program, clients
  <1>4. CASE ReturnHandler
    BY <1>4 DEF ReturnHandler, program, clients, channels
  <1>5. CASE ServerEnds
    <2>1. /\ link' \in [Client -> {"none", "connecting", "failed", "queued", "accepted",
                                   "severed", "lost"}]
          /\ \A c \in Client : link[c] = "none" => link'[c] = "none"
      <3>1. ASSUME NEW c \in Client
            PROVE  /\ Severed[c] \in {"failed", "severed", link[c]}
                   /\ link[c] = "none" => Severed[c] = "none"
        BY DEF Severed
      <3>2. link' = [c \in Client |-> Severed[c]]
        BY <1>5 DEF ServerEnds, Severed
      <3>3. QED
        BY <3>1, <3>2
    <2>2. QED
      BY <1>5, <2>1 DEF ServerEnds, clients, channels
  <1>6. CASE BeginVisits
    BY <1>6 DEF BeginVisits, Polling, program, clients, channels
  <1>7. ASSUME NEW c \in Client, Accept(c) \/ Visits(c)
        PROVE  Typed'
    <2>1. CASE Accept(c)
      BY <1>7, <2>1 DEF Accept, Link, Polling, program, poll, clients, channels
    <2>2. CASE Visit(c)
      BY <2>2 DEF Visit, Polling, program, clients, channels
    <2>3. CASE NothingToRecieve(c)
      BY <2>3 DEF NothingToRecieve, program, clients, channels
    <2>4. CASE RecievePart(c)
      BY <2>4 DEF RecievePart, program, clients, channels
    <2>5. CASE ServerRecieve(c)
      <3>1. requests' \in [Client -> Request]
        BY <2>5, DeliverType DEF ServerRecieve, Sent, Request
      <3>2. QED
        BY <2>5, <3>1, ClientAssumption, SMTT(30)
           DEF ServerRecieve, program, clients, Request
    <2>6. CASE ServerDrop(c)
      <3>1. /\ turn = c /\ turn' = None /\ pass' \in SUBSET pass /\ handling = None
            /\ link' = [link EXCEPT ![c] = "lost"]
            /\ UNCHANGED <<program, handling, left, clients, channels>>
        BY <2>6, ClientAssumption DEF ServerDrop, Link
      <3>2. /\ link' \in [Client -> {"none", "connecting", "failed", "queued", "accepted",
                                     "severed", "lost"}]
            /\ pass' \in SUBSET Client /\ turn' \in Client \cup {None}
        BY <3>1
      <3>3. TypeOK'
        BY <3>1, <3>2 DEF program, clients, channels
      <3>4. \A b \in pass' : link'[b] = "accepted"
        <4>1. c \notin pass'
          BY <2>6, <3>1, ClientAssumption DEF ServerDrop
        <4>2. QED
          BY <3>1, <4>1
      <3>5. \A b \in Client : client'[b] = "off" => link'[b] = "none"
        <4>1. client' = client /\ link[c] = "accepted" /\ client[c] # "off"
          BY <2>6, <3>1, ClientAssumption DEF ServerDrop, clients, Gone
        <4>2. QED
          BY <3>1, <4>1
      <3>6. QED
        BY <3>1, <3>3, <3>4, <3>5 DEF program
    <2>7. QED
      BY <1>7, <2>1, <2>2, <2>3, <2>4, <2>5, <2>6 DEF Visits
  <1>8. ASSUME NEW c \in Client,
               StartClient(c) \/ StartFails(c) \/ ClientStep(c) \/ ClientEnds(c)
        PROVE  Typed'
    <2>1. CASE StartClient(c)
      <3>1. requests' \in [Client -> Request]
        <4>1. <<GET>> \in Seq({GET})
          OBVIOUS
        <4>2. requests' = [requests EXCEPT ![c].sent = <<GET>>]
          BY <2>1 DEF StartClient
        <4>3. QED
          BY <4>1, <4>2 DEF Request
      <3>2. target' \in [Client -> Address \cup {None}]
        BY <2>1 DEF StartClient, Address, ToSet
      <3>3. QED
        BY <2>1, <3>1, <3>2 DEF StartClient, Link, program, poll, Request
    <2>2. CASE StartFails(c)
      BY <2>2 DEF StartFails, program, poll, channels
    <2>3. CASE Handshake(c)
      BY <2>3 DEF Handshake, Link, program, poll, clients, channels
    <2>4. CASE Verify(c)
      BY <2>4 DEF Verify, program, poll, channels
    <2>5. CASE ClientDrop(c)
      BY <2>5 DEF ClientDrop, Link, program, poll, clients, channels
    <2>6. CASE ClientRecieve(c)
      <3>1. responses' \in [Client -> Response]
        BY <2>6, DeliverType DEF ClientRecieve, Response
      <3>2. QED
        BY <2>6, <3>1 DEF ClientRecieve, program, poll, clients, Response
    <2>7. CASE ClientEnds(c)
      BY <2>7 DEF ClientEnds, program, poll, channels
    <2>8. QED
      BY <1>8, <2>1, <2>2, <2>3, <2>4, <2>5, <2>6, <2>7 DEF ClientStep
  <1>9. QED
    BY <1>1, <1>2, <1>3, <1>4, <1>5, <1>6, <1>7, <1>8 DEF Next, ServerStep

LEMMA AlwaysTyped == Spec => []Typed
  BY TypedInit, TypedNext, PTL DEF Spec

-----------------------------------------------------------------------------
(* Answers.                                                                *)

LEMMA AnsweredInit == Init => AllAnswered
  <1> SUFFICES ASSUME Init, NEW c \in Client PROVE Answered(c)
    BY DEF AllAnswered
  <1>1. /\ requests[c] = [sent |-> << >>, delivered |-> << >>]
        /\ responses[c] = [sent |-> << >>, delivered |-> << >>]
        /\ link[c] = "none" /\ handling # c
    BY ClientAssumption DEF Init
  <1>2. QED
    BY <1>1 DEF Answered, Answers

(* One answer more.                                                        *)
LEMMA AnswersGrow ==
    ASSUME NEW c \in Client, NEW answers \in Seq(Answer), NEW start \in 1..MaxInstances,
           Answers(answers, c), \A n \in DOMAIN answers : answers[n].by = start,
           NEW m, m = [to |-> c, by |-> start, n |-> Len(answers) + 1], m \in Answer
    PROVE  /\ Answers(Append(answers, m), c)
           /\ \A n \in DOMAIN Append(answers, m) : Append(answers, m)[n].by = start
  <1>1. /\ Len(answers) \in Nat /\ DOMAIN answers = 1..Len(answers)
        /\ DOMAIN Append(answers, m) = 1..Len(answers) + 1
    OBVIOUS
  <1>2. ASSUME NEW n \in 1..Len(answers) + 1
        PROVE  Append(answers, m)[n] = [to |-> c, by |-> start, n |-> n]
    <2>1. CASE n \in 1..Len(answers)
      <3>1. answers[n] = [to |-> c, by |-> answers[1].by, n |-> n] /\ 1 \in DOMAIN answers
        BY <1>1, <2>1 DEF Answers
      <3>2. QED
        BY <1>1, <2>1, <3>1
    <2>2. CASE n = Len(answers) + 1
      BY <1>1, <2>2
    <2>3. QED
      BY <1>1, <2>1, <2>2
  <1>3. QED
    BY <1>1, <1>2 DEF Answers

(* What belongs to a client.                                               *)
Same(c) == /\ client'[c] = client[c] /\ link'[c] = link[c]
           /\ requests'[c] = requests[c] /\ responses'[c] = responses[c]

LEMMA SeveredLink ==
    ASSUME NEW c \in Client
    PROVE  /\ link[c] \notin {"queued", "accepted"} => Severed[c] = link[c]
           /\ link[c] \in {"queued", "accepted"} =>
                Severed[c] = IF c = handling THEN "failed" ELSE "severed"
  BY DEF Severed

LEMMA AnsweredNext ==
    ASSUME Typed, AllAnswered, [Next]_vars
    PROVE  AllAnswered'
  <1> SUFFICES ASSUME NEW d \in Client PROVE Answered(d)'
    BY DEF AllAnswered
  <1>1. /\ Answered(d) /\ d # None
        /\ requests[d] \in Request /\ responses[d] \in Response
        /\ Len(requests[d].sent) \in Nat /\ Len(requests[d].delivered) \in Nat
    BY ClientAssumption DEF AllAnswered, Typed, TypeOK, Request, Response
  <1>2. ASSUME Same(d), UNCHANGED <<instance, handling, left>> PROVE Answered(d)'
    BY <1>1, <1>2 DEF Same, Answered
  <1>3. CASE UNCHANGED vars
    BY <1>2, <1>3 DEF vars, program, poll, clients, channels, Same
  <1>4. CASE StartServer
    <2>1. handling = None
      BY <1>4 DEF StartServer, Typed
    <2>2. QED
      BY <1>1, <1>4, <2>1 DEF StartServer, poll, clients, channels, Answered
  <1>5. CASE send_http_response
    <2> DEFINE m == [to |-> handling, by |-> instance, n |-> 4 - left]
    <2>1. /\ responses' = [responses EXCEPT ![handling].sent = Append(@, m)]
          /\ handling \in Client /\ instance \in 1..MaxInstances /\ left \in 1..3
          /\ left' = left - 1 /\ handling' = handling
          /\ UNCHANGED <<instance, client, link, requests>>
      BY <1>5 DEF send_http_response, ReplyTo, Typed, TypeOK, program, clients
    <2>2. m \in Answer
      BY <2>1 DEF Answer
    <2>3. CASE d # handling
      <3>1. responses'[d] = responses[d]
        BY <2>1, <2>3 DEF Typed, TypeOK
      <3>2. QED
        BY <1>1, <2>1, <2>3, <3>1 DEF Answered
    <2>4. CASE d = handling
      <3>1. m = [to |-> d, by |-> instance, n |-> Len(responses[d].sent) + 1]
        BY <1>1, <2>1, <2>4 DEF Answered
      <3> HIDE DEF m
      <3>2. responses'[d].sent = Append(responses[d].sent, m)
        BY <2>1, <2>4 DEF Typed, TypeOK
      <3>3. responses[d].sent \in Seq(Answer)
        BY <1>1 DEF Response
      <3>4. /\ Answers(responses'[d].sent, d)
            /\ \A n \in DOMAIN responses'[d].sent : responses'[d].sent[n].by = instance
        <4>1. /\ Answers(responses[d].sent, d)
              /\ \A n \in DOMAIN responses[d].sent : responses[d].sent[n].by = instance
          BY <1>1, <2>4 DEF Answered
        <4>2. QED
          BY <2>1, <2>2, <3>1, <3>2, <3>3, <4>1, AnswersGrow
      <3>5. Len(responses'[d].sent) = Len(responses[d].sent) + 1
        BY <2>2, <3>2, <3>3
      <3>6. QED
        BY <1>1, <2>1, <2>4, <3>3, <3>4, <3>5 DEF Answered
    <2>5. QED
      BY <2>3, <2>4
  <1>6. CASE ReturnHandler
    <2>1. /\ left = 0 /\ handling' = None
          /\ UNCHANGED <<instance, client, link, requests, responses>>
      BY <1>6 DEF ReturnHandler, program, clients, channels
    <2>2. CASE handling = d
      <3>1. Len(responses[d].sent) = 3 * Len(requests[d].delivered)
        <4>1. /\ Len(responses[d].sent) = 3 - left
              /\ 1 <= Len(requests[d].delivered) /\ Len(requests[d].delivered) <= 1
          BY <1>1, <2>1, <2>2 DEF Answered
        <4>2. QED
          BY <2>1, <4>1
      <3>2. QED
        BY <1>1, <2>1, <2>2, <3>1 DEF Answered
    <2>3. CASE handling # d
      BY <1>1, <2>1, <2>3 DEF Answered
    <2>4. QED
      BY <2>2, <2>3
  <1>7. CASE ServerEnds
    <2>1. /\ link'[d] = Severed[d] /\ handling' = None
          /\ UNCHANGED <<instance, client, requests, responses>>
      BY <1>7 DEF ServerEnds, clients, channels
    <2>2. \/ link[d] \notin {"queued", "accepted"} /\ link'[d] = link[d]
          \/ link[d] \in {"queued", "accepted"} /\ link'[d] \in {"failed", "severed"}
      <3>1. CASE link[d] \notin {"queued", "accepted"}
        BY <2>1, <3>1, SeveredLink
      <3>2. CASE link[d] \in {"queued", "accepted"} /\ d = handling
        BY <2>1, <3>2, SeveredLink
      <3>3. CASE link[d] \in {"queued", "accepted"} /\ d # handling
        BY <2>1, <3>3, SeveredLink
      <3>4. QED
        BY <3>1, <3>2, <3>3
    <2>3. QED
      BY <1>1, <2>1, <2>2 DEF Answered
  <1>8. CASE BeginVisits
    BY <1>2, <1>8 DEF BeginVisits, program, clients, channels, Same
  <1>9. ASSUME NEW c \in Client,
               \/ StartClient(c) \/ StartFails(c) \/ ClientStep(c) \/ ClientEnds(c)
               \/ Accept(c) \/ Visits(c)
        PROVE  Answered(d)'
    <2>1. CASE c # d /\ ~ServerRecieve(c)
      <3>1. CASE Accept(c) \/ ServerDrop(c) \/ Handshake(c) \/ ClientDrop(c)
        BY <1>2, <2>1, <3>1 DEF Accept, ServerDrop, Handshake, ClientDrop, Link,
             program, poll, clients, channels, Same, Typed, TypeOK
      <3>2. CASE StartFails(c) \/ Verify(c) \/ ClientEnds(c)
        BY <1>2, <2>1, <3>2 DEF StartFails, Verify, ClientEnds,
             program, poll, clients, channels, Same, Typed, TypeOK
      <3>3. CASE StartClient(c) \/ ClientRecieve(c)
        BY <1>2, <2>1, <3>3 DEF StartClient, ClientRecieve, Link,
             program, poll, clients, Same, Typed, TypeOK
      <3>4. CASE Visit(c) \/ NothingToRecieve(c) \/ RecievePart(c)
        BY <1>2, <3>4 DEF Visit, NothingToRecieve, RecievePart, program, clients, channels, Same
      <3>5. QED
        BY <1>9, <2>1, <3>1, <3>2, <3>3, <3>4 DEF ClientStep, Visits
    <2>2. CASE ServerRecieve(c)
      <3>1. /\ handling = None /\ handling' = c /\ left' = 3 /\ link[c] = "accepted"
            /\ requests' = [requests EXCEPT ![c] = Deliver(@)] /\ Pending(requests[c])
            /\ UNCHANGED <<instance, client, link, responses>>
        BY <2>2, ClientAssumption
           DEF ServerRecieve, Sent, program, clients, Typed, TypeOK
      <3>2. CASE c # d
        <4>1. requests'[d] = requests[d]
          BY <3>1, <3>2 DEF Typed, TypeOK
        <4>2. QED
          BY <1>1, <3>1, <3>2, <4>1 DEF Answered
      <3>3. CASE c = d
        <4>1. requests'[d] = Deliver(requests[d])
          BY <3>1, <3>3 DEF Typed, TypeOK
        <4>2. /\ requests'[d].sent = requests[d].sent
              /\ Len(requests'[d].delivered) = Len(requests[d].delivered) + 1
              /\ Len(requests[d].delivered) < Len(requests[d].sent)
          BY <1>1, <3>1, <3>3, <4>1, DeliverType DEF Pending, Request
        <4>3. Len(responses[d].sent) = 0 /\ DOMAIN responses[d].sent = {}
          BY <1>1, <3>1, <3>3, <4>2 DEF Answered, Response
        <4>4. /\ Len(requests'[d].delivered) >= 1 /\ Len(requests'[d].sent) <= 1
              /\ Len(requests'[d].delivered) <= Len(requests'[d].sent)
          <5>1. Len(requests[d].sent) <= 1
            BY <1>1 DEF Answered
          <5>2. QED
            BY <1>1, <4>2, <5>1
        <4>5. Answers(responses'[d].sent, d)
          BY <1>1, <3>1 DEF Answered
        <4>6. client'[d] # "off" /\ link'[d] = "accepted" /\ handling' = d
          BY <1>1, <3>1, <3>3 DEF Answered
        <4>7. QED
          <5>1. /\ Len(responses'[d].sent) = 3 - left' /\ DOMAIN responses'[d].sent = {}
            BY <3>1, <4>3
          <5>2. QED
            BY <4>4, <4>5, <4>6, <5>1 DEF Answered
      <3>4. QED
        BY <3>2, <3>3
    <2>3. CASE c = d /\ ClientRecieve(c)
      <3>1. /\ responses'[d] = Deliver(responses[d]) /\ Pending(responses[d])
            /\ UNCHANGED <<instance, client, link, requests, handling, left>>
        BY <2>3 DEF ClientRecieve, program, poll, clients, Typed, TypeOK
      <3>2. responses'[d].sent = responses[d].sent
        BY <1>1, <3>1, DeliverType DEF Response
      <3>3. QED
        BY <1>1, <3>1, <3>2 DEF Answered
    <2>4. CASE c = d /\ StartClient(c)
      <3>1. /\ client[d] = "off" /\ client'[d] = "running" /\ link'[d] = "connecting"
            /\ requests'[d].sent = <<GET>> /\ requests'[d].delivered = requests[d].delivered
            /\ UNCHANGED <<instance, responses, handling, left>>
        BY <2>4 DEF StartClient, Link, program, poll, Typed, TypeOK
      <3>2. QED
        BY <1>1, <3>1 DEF Answered
    <2>5. CASE c = d /\ (Accept(c) \/ ServerDrop(c) \/ Handshake(c) \/ ClientDrop(c))
      <3>1. /\ UNCHANGED <<instance, client, requests, responses, handling, left>>
            /\ \/ link[d] = "queued" /\ link'[d] = "accepted"
               \/ link[d] = "accepted" /\ handling = None /\ link'[d] = "lost"
               \/ link[d] = "connecting" /\ client[d] = "running" /\ link'[d] \in {"queued", "failed"}
               \/ link[d] \in {"failed", "severed"} /\ link'[d] = "lost"
        BY <1>1, <2>5 DEF Accept, ServerDrop, Handshake, ClientDrop, Link, Polling, Alive,
             program, poll, clients, channels, Typed, TypeOK
      <3>2. QED
        BY <1>1, <3>1 DEF Answered
    <2>6. CASE c = d /\ (StartFails(c) \/ Verify(c) \/ ClientEnds(c))
      <3>1. /\ UNCHANGED <<instance, link, requests, responses, handling, left>>
            /\ client'[d] # "off" \/ client'[d] = client[d]
        BY <2>6 DEF StartFails, Verify, ClientEnds, program, poll, clients, channels,
             Typed, TypeOK
      <3>2. QED
        BY <1>1, <3>1 DEF Answered
    <2>7. CASE Visit(c) \/ NothingToRecieve(c) \/ RecievePart(c)
      BY <1>2, <2>7 DEF Visit, NothingToRecieve, RecievePart, program, clients, channels, Same
    <2>8. QED
      BY <1>9, <2>1, <2>2, <2>3, <2>4, <2>5, <2>6, <2>7 DEF ClientStep, Visits
  <1>10. QED
    BY <1>3, <1>4, <1>5, <1>6, <1>7, <1>8, <1>9 DEF Next, ServerStep

LEMMA AlwaysAnswered == Spec => []AllAnswered
  BY AlwaysTyped, AnsweredInit, AnsweredNext, PTL DEF Spec

-----------------------------------------------------------------------------
(* Channels.                                                               *)

(* A channel delivers, or its message is delivered.                        *)
LEMMA RequestsDeliver ==
    ASSUME Typed, NEW c \in Client, ServerRecieve(c)
    PROVE  Requests(c)!Deliver
  <1>1. /\ requests' = [requests EXCEPT ![c] = Deliver(@)] /\ Pending(requests[c])
        /\ client' = client /\ requests[c] \in Request
    BY DEF ServerRecieve, Sent, clients, Typed, TypeOK, Request
  <1>2. requests'[c] = Deliver(requests[c])
    BY <1>1 DEF Typed, TypeOK
  <1>3. QED
    BY <1>1, <1>2, DeliverType DEF Requests!Deliver, Pending, Gone, Request

LEMMA ResponsesDeliver ==
    ASSUME Typed, NEW c \in Client, ClientRecieve(c)
    PROVE  Responses(c)!Deliver
  <1>1. /\ responses' = [responses EXCEPT ![c] = Deliver(@)] /\ Pending(responses[c])
        /\ link' = link /\ responses[c] \in Response
    BY DEF ClientRecieve, Typed, TypeOK, Response
  <1>2. responses'[c] = Deliver(responses[c])
    BY <1>1 DEF Typed, TypeOK
  <1>3. QED
    BY <1>1, <1>2, DeliverType DEF Responses!Deliver, Pending, Response

LEMMA RequestsStep ==
    ASSUME Typed, AllAnswered, [Next]_vars, NEW d \in Client
    PROVE  [Requests(d)!Next]_(Requests(d)!vars)
  <1>1. ASSUME client'[d] = client[d], requests'[d] = requests[d]
        PROVE  UNCHANGED Requests(d)!vars
    BY <1>1 DEF Requests!vars, Gone
  <1>2. CASE UNCHANGED <<client, requests>>
    BY <1>1, <1>2
  <1>3. ASSUME NEW c \in Client, c # d,
               StartClient(c) \/ StartFails(c) \/ ServerRecieve(c) \/ ClientEnds(c)
        PROVE  UNCHANGED Requests(d)!vars
    BY <1>1, <1>3 DEF StartClient, StartFails, ServerRecieve, ClientEnds, clients, channels,
       Typed, TypeOK
  <1>4. CASE StartClient(d)
    <2>1. /\ ~Gone(d) /\ ~Gone(d)'
          /\ requests'[d].sent = Append(requests[d].sent, GET)
          /\ requests'[d].delivered = requests[d].delivered
      <3>1. /\ client[d] = "off" /\ client'[d] = "running" /\ requests[d].sent = << >>
            /\ requests' = [requests EXCEPT ![d].sent = <<GET>>]
        BY <1>4 DEF StartClient, Typed, TypeOK, AllAnswered, Answered
      <3>2. requests'[d].sent = <<GET>> /\ requests'[d].delivered = requests[d].delivered
        BY <3>1 DEF Typed, TypeOK
      <3>3. QED
        BY <3>1, <3>2 DEF Gone
    <2>2. Requests(d)!Send(GET)
      BY <2>1 DEF Requests!Send
    <2>3. QED
      BY <2>2 DEF Requests!Next
  <1>5. CASE StartFails(d) \/ ClientEnds(d)
    <2>1. ~Gone(d) /\ Gone(d)' /\ requests'[d] = requests[d]
      BY <1>5 DEF StartFails, ClientEnds, Alive, Gone, channels, Typed, TypeOK
    <2>2. QED
      BY <2>1 DEF Requests!Close, Requests!Next
  <1>6. CASE ServerRecieve(d)
    BY <1>6, RequestsDeliver DEF Requests!Next
  <1>7. ASSUME NEW c \in Client,
               \/ Accept(c) \/ Visit(c) \/ NothingToRecieve(c) \/ RecievePart(c) \/ ServerDrop(c)
               \/ Handshake(c) \/ Verify(c) \/ ClientDrop(c) \/ ClientRecieve(c)
        PROVE  UNCHANGED <<client, requests>>
    BY <1>7 DEF Accept, Visit, NothingToRecieve, RecievePart, ServerDrop, Handshake, Verify,
       ClientDrop, ClientRecieve, clients, channels
  <1>8. CASE \/ StartServer \/ BeginVisits \/ send_http_response \/ ReturnHandler
             \/ ServerEnds
    BY <1>2, <1>8 DEF StartServer, BeginVisits, send_http_response, ReturnHandler, ServerEnds,
       clients, channels
  <1>9. CASE UNCHANGED vars
    BY <1>2, <1>9 DEF vars, clients, channels
  <1>10. QED
    BY <1>2, <1>3, <1>4, <1>5, <1>6, <1>7, <1>8, <1>9
       DEF Next, ServerStep, Visits, ClientStep

LEMMA ResponsesStep ==
    ASSUME Typed, AllAnswered, [Next]_vars, NEW d \in Client
    PROVE  [Responses(d)!Next]_(Responses(d)!vars)
  <1> DEFINE Shut == {"failed", "severed", "lost"}
  <1>1. ASSUME responses'[d] = responses[d], link[d] \in Shut <=> link'[d] \in Shut
        PROVE  UNCHANGED Responses(d)!vars
    BY <1>1 DEF Responses!vars
  <1>2. ASSUME responses'[d] = responses[d], link[d] \notin Shut, link'[d] \in Shut
        PROVE  Responses(d)!Next
    BY <1>2 DEF Responses!Close, Responses!Next
  <1>3. CASE UNCHANGED <<link, responses>>
    BY <1>1, <1>3
  <1>4. ASSUME NEW c \in Client, StartClient(c) \/ Accept(c) \/ ServerDrop(c) \/ Handshake(c)
                                 \/ ClientDrop(c)
        PROVE  [Responses(d)!Next]_(Responses(d)!vars)
    <2>1. responses'[d] = responses[d]
      BY <1>4 DEF StartClient, Accept, ServerDrop, Handshake, ClientDrop, channels
    <2>2. link[d] \in Shut => link'[d] \in Shut
      <3>1. Answered(d)
        BY DEF AllAnswered
      <3>2. QED
        BY <1>4, <3>1, ClientAssumption
           DEF StartClient, Accept, ServerDrop, Handshake, ClientDrop, Link,
               Typed, TypeOK, Answered
    <2>3. QED
      BY <1>1, <1>2, <2>1, <2>2
  <1>5. CASE ServerEnds
    <2>1. responses' = responses /\ link'[d] = Severed[d]
      BY <1>5 DEF ServerEnds, channels
    <2>2. link[d] \in Shut => link'[d] \in Shut
      BY <2>1, SeveredLink
    <2>3. QED
      BY <1>1, <1>2, <2>1, <2>2
  <1>6. CASE send_http_response
    <2> DEFINE m == [to |-> handling, by |-> instance, n |-> 4 - left]
    <2>1. /\ responses' = [responses EXCEPT ![handling].sent = Append(@, m)]
          /\ handling \in Client /\ instance \in 1..MaxInstances /\ left \in 1..3
          /\ link' = link
      BY <1>6 DEF send_http_response, ReplyTo, Typed, TypeOK
    <2>2. m \in Answer
      BY <2>1 DEF Answer
    <2> HIDE DEF m
    <2>3. CASE handling # d
      BY <1>1, <2>1, <2>3 DEF Typed, TypeOK
    <2>4. CASE handling = d
      <3>1. link[d] = "accepted"
        BY <2>4 DEF AllAnswered, Answered
      <3>2. /\ responses'[d].sent = Append(responses[d].sent, m)
            /\ responses'[d].delivered = responses[d].delivered
        BY <2>1, <2>4 DEF Typed, TypeOK
      <3>3. Responses(d)!Send(m)
        BY <2>1, <3>1, <3>2 DEF Responses!Send
      <3>4. QED
        BY <2>2, <3>3 DEF Responses!Next
    <2>5. QED
      BY <2>3, <2>4
  <1>7. CASE ClientRecieve(d)
    BY <1>7, ResponsesDeliver DEF Responses!Next
  <1>8. ASSUME NEW c \in Client, c # d, ClientRecieve(c)
        PROVE  UNCHANGED Responses(d)!vars
    BY <1>1, <1>8 DEF ClientRecieve, Typed, TypeOK
  <1>9. ASSUME NEW c \in Client,
               \/ Visit(c) \/ NothingToRecieve(c) \/ RecievePart(c) \/ ServerRecieve(c)
               \/ StartFails(c) \/ Verify(c) \/ ClientEnds(c)
        PROVE  UNCHANGED <<link, responses>>
    BY <1>9 DEF Visit, NothingToRecieve, RecievePart, ServerRecieve, StartFails, Verify,
       ClientEnds, channels
  <1>10. CASE StartServer \/ BeginVisits \/ ReturnHandler \/ UNCHANGED vars
    BY <1>3, <1>10 DEF StartServer, BeginVisits, ReturnHandler, vars, channels
  <1>11. QED
    BY <1>3, <1>4, <1>5, <1>6, <1>7, <1>8, <1>9, <1>10
       DEF Next, ServerStep, Visits, ClientStep

-----------------------------------------------------------------------------
(* The theorems.                                                           *)

(* Whatever processes start and end, the state keeps its types.            *)
THEOREM ExchangeTypeCorrect == Spec => []TypeOK
  <1>1. Typed => TypeOK
    BY DEF Typed
  <1>2. QED
    BY <1>1, AlwaysTyped, PTL

(* Every client is sent answers to its own request only: all of them       *)
(* before another event is handled, or the server ended.                   *)
THEOREM AlwaysAnswersOwn == Spec => []AnswersOwnRequest
  <1>1. AllAnswered => AnswersOwnRequest
    BY DEF AllAnswered, Answered, Answers, AnswersOwnRequest
  <1>2. QED
    BY <1>1, AlwaysAnswered, PTL

(* Every step sends on a channel that is open, delivers what waits first,  *)
(* closes the sending end, or leaves the channel as it is.                 *)
THEOREM KeepsChannels == Spec => ChannelsKept
  <1>1. Init => ChannelsInit
    <2> SUFFICES ASSUME Init, NEW c \in Client PROVE Requests(c)!Init /\ Responses(c)!Init
      BY DEF ChannelsInit
    <2>1. /\ requests[c] = [sent |-> << >>, delivered |-> << >>]
          /\ responses[c] = [sent |-> << >>, delivered |-> << >>]
          /\ link[c] = "none" /\ client[c] = "off"
      BY DEF Init
    <2>2. QED
      BY <2>1 DEF Requests!Init, Responses!Init, Gone
  <1>2. Typed /\ AllAnswered /\ [Next]_vars => [ChannelsNext]_vars
    BY RequestsStep, ResponsesStep DEF ChannelsNext
  <1>3. QED
    BY <1>1, <1>2, AlwaysTyped, AlwaysAnswered, PTL DEF Spec, ChannelsKept
=============================================================================
