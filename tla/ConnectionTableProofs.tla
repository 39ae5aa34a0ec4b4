----------------------- MODULE ConnectionTableProofs -----------------------
(***************************************************************************)
(* For any pointers and descriptors and any bounds: the types of           *)
(* ConnectionTable, the soundness of its table through every change a poll *)
(* and its handlers make, the account of its descriptors, and that a poll  *)
(* leaves no connection out.                                               *)
(***************************************************************************)
EXTENDS ConnectionTable, FiniteSetTheorems, TLAPS

(* The memory of an http_connection, allocated or not.                     *)
Memory == [Socket: Descriptor \cup {NULL}, Verified: BOOLEAN, unsent: BOOLEAN]

(* TypeOK, and what it needs to be inductive.                              *)
Typed ==
    /\ TypeOK
    /\ object \in [Pointer -> Memory]
    /\ pc \in {"announce", "recieve", "packets", "handler", "send", "sending"} =>
        Connection \in Pointer
    /\ pc = "handler" => left > 0
    /\ backlog <= peers

Distinct(s) == \A m, n \in DOMAIN s : s[m] = s[n] => m = n

(* The connections of the table are those that are allocated, once each;   *)
(* from an event or a recv to its end, so is the one it is about.          *)
Table ==
    /\ Len(Connections) <= Connections_Size
    /\ Distinct(Connections)
    /\ ToSet(Connections) = allocated
    /\ pc \in {"announce", "recieve", "packets", "handler"} => Connection \in allocated

(* Every connection has a descriptor in use of its own; the others in use  *)
(* are those recv dropped.                                                 *)
Descriptors ==
    /\ \A b, c \in allocated : object[b].Socket = object[c].Socket => b = c
    /\ \A c \in allocated : object[c].Socket \notin dropped
    /\ \A d \in Descriptor :
        kernel[d] # "free" <=> d \in dropped \/ \E c \in allocated : object[c].Socket = d

(* The entries that the pass over the table has still to visit.            *)
Ahead(j) == IF pc = "visit" THEN i <= j ELSE i < j

(* In a pass over the table nothing ahead was visited, and what was due and*)
(* was not visited is ahead.                                               *)
Pass ==
    pc \in {"visit", "recieve", "packets", "handler", "send", "sending"} =>
        /\ stepped \subseteq allocated
        /\ \A j \in DOMAIN Connections : Ahead(j) => Connections[j] \notin stepped
        /\ \A c \in due : c \notin stepped =>
            \E j \in DOMAIN Connections : Ahead(j) /\ Connections[j] = c
        /\ pc \in {"recieve", "packets", "handler"} =>
            i \in DOMAIN Connections /\ Connections[i] = Connection

-----------------------------------------------------------------------------
(* The operations on the table.                                            *)

(* A sequence without repetitions has as many elements as its range.       *)
LEMMA DistinctCounts ==
    ASSUME NEW S, NEW s \in Seq(S), Distinct(s)
    PROVE  Cardinality(ToSet(s)) = Len(s)
  <1>1. Len(s) \in Nat /\ DOMAIN s = 1..Len(s)
    OBVIOUS
  <1>2. s \in [1..Len(s) -> ToSet(s)]
    BY <1>1 DEF ToSet
  <1>3. s \in Injection(1..Len(s), ToSet(s))
    BY <1>1, <1>2 DEF Injection, IsInjective, Distinct
  <1>4. s \in Surjection(1..Len(s), ToSet(s))
    BY <1>1, <1>2 DEF Surjection, ToSet
  <1>5. ExistsBijection(1..Len(s), ToSet(s))
    BY <1>3, <1>4 DEF ExistsBijection, Bijection
  <1>6. QED
    BY <1>1, <1>5, FS_CountingElements

(* A new connection at the end of the table, which has room for it.        *)
LEMMA CreateKeepsTable ==
    ASSUME Typed, Table, NEW c \in Pointer, NEW d \in Descriptor, create_connection(c, d)
    PROVE  /\ Connections' \in Seq(Pointer) /\ Connections_Size' \in Nat
           /\ allocated' = allocated \cup {c} /\ c \notin allocated
           /\ object' = [object EXCEPT ![c] = Fresh(d)]
           /\ object' \in [Pointer -> Memory]
           /\ Len(Connections)' <= Connections_Size'
           /\ Distinct(Connections')
           /\ ToSet(Connections') = allocated'
  <1>1. /\ Connections \in Seq(Pointer) /\ Connections_Size \in Nat /\ Len(Connections) \in Nat
        /\ object \in [Pointer -> Memory] /\ DOMAIN Connections = 1..Len(Connections)
        /\ Len(Connections) <= Connections_Size
    BY DEF Typed, TypeOK, Table
  <1>2. /\ c \notin allocated /\ allocated' = allocated \cup {c}
        /\ object' = [object EXCEPT ![c] = Fresh(d)]
        /\ Connections' = Append(Connections, c)
        /\ Connections_Size' = TableSize(Len(Connections), Connections_Size)
    BY DEF create_connection
  <1>3. Fresh(d) \in Memory
    BY DEF Fresh, Memory
  <1>4. object' \in [Pointer -> Memory]
    BY <1>1, <1>2, <1>3
  <1>5. /\ Connections' \in Seq(Pointer) /\ Len(Connections') = Len(Connections) + 1
        /\ DOMAIN Connections' = 1..Len(Connections) + 1
        /\ \A n \in 1..Len(Connections) : Connections'[n] = Connections[n]
        /\ Connections'[Len(Connections) + 1] = c
    BY <1>1, <1>2
  <1>6. Connections_Size' \in Nat /\ Len(Connections) + 1 <= Connections_Size'
    BY <1>1, <1>2, CapacityAssumption DEF TableSize
  <1>7. ToSet(Connections') = ToSet(Connections) \cup {c}
    BY <1>1, <1>5 DEF ToSet
  <1>8. \A n \in 1..Len(Connections) : Connections[n] # c
    BY <1>1, <1>2 DEF Table, ToSet
  <1>9. Distinct(Connections')
    BY <1>1, <1>5, <1>8 DEF Distinct, Table
  <1>10. QED
    BY <1>2, <1>4, <1>5, <1>6, <1>7, <1>9 DEF Table

(* The last connection takes the place of the one that leaves.             *)
LEMMA TakeOutKeepsTable ==
    ASSUME Connections \in Seq(Pointer), Distinct(Connections), NEW k \in DOMAIN Connections
    PROVE  /\ TakeOut(k) \in Seq(Pointer)
           /\ Len(TakeOut(k)) = Len(Connections) - 1
           /\ Distinct(TakeOut(k))
           /\ ToSet(TakeOut(k)) = ToSet(Connections) \ {Connections[k]}
           /\ \A n \in 1..(Len(Connections) - 1) :
                 TakeOut(k)[n] = IF n = k THEN Last(Connections) ELSE Connections[n]
           /\ Last(Connections) = Connections[Len(Connections)]
  <1>1. PICK N \in Nat : Len(Connections) = N + 1 /\ DOMAIN Connections = 1..N + 1
    OBVIOUS
  <1> DEFINE t == [Connections EXCEPT ![k] = Last(Connections)]
             u == TakeOut(k)
  <1>2. Last(Connections) = Connections[N + 1] /\ Last(Connections) \in Pointer
    BY <1>1 DEF Last
  <1>3. /\ t \in Seq(Pointer) /\ Len(t) = N + 1
        /\ \A n \in 1..N + 1 : t[n] = IF n = k THEN Connections[N + 1] ELSE Connections[n]
    BY <1>1, <1>2
  <1>4. u = SubSeq(t, 1, N)
    BY <1>1 DEF TakeOut
  <1> HIDE DEF t, u
  <1>5. /\ u \in Seq(Pointer) /\ Len(u) = N /\ DOMAIN u = 1..N
        /\ \A n \in 1..N : u[n] = t[n]
    BY <1>3, <1>4
  <1>6. \A n \in 1..N : u[n] = IF n = k THEN Connections[N + 1] ELSE Connections[n]
    BY <1>3, <1>5
  <1>7. Distinct(u)
    BY <1>1, <1>5, <1>6 DEF Distinct
  <1>8. ToSet(u) \subseteq ToSet(Connections) \ {Connections[k]}
    BY <1>1, <1>5, <1>6 DEF Distinct, ToSet
  <1>9. ToSet(Connections) \ {Connections[k]} \subseteq ToSet(u)
    <2>1. ASSUME NEW m \in 1..N + 1, Connections[m] # Connections[k]
          PROVE  Connections[m] \in ToSet(u)
      <3>1. CASE m = N + 1
        <4>1. k \in 1..N /\ u[k] = Connections[m]
          BY <1>1, <1>6, <2>1, <3>1
        <4>2. QED
          BY <1>5, <4>1 DEF ToSet
      <3>2. CASE m # N + 1
        <4>1. m \in 1..N /\ u[m] = Connections[m]
          BY <1>6, <2>1, <3>2
        <4>2. QED
          BY <1>5, <4>1 DEF ToSet
      <3>3. QED
        BY <3>1, <3>2
    <2>2. QED
      BY <1>1, <2>1 DEF ToSet
  <1>10. QED
    BY <1>1, <1>2, <1>5, <1>6, <1>7, <1>8, <1>9 DEF u

-----------------------------------------------------------------------------
(* The table through every step.                                           *)

(* A client or a server begins with an empty table.                        *)
LEMMA TableInit == Init => Typed /\ Table
  <1>1. SUFFICES ASSUME Init PROVE Typed /\ Table
    OBVIOUS
  <1>2. Fresh(NULL) \in Memory
    BY DEF Fresh, Memory
  <1>3. TypeOK
    BY <1>1, BoundAssumption DEF Init, TypeOK, Endpoint
  <1>4. object \in [Pointer -> Memory] /\ ToSet(Connections) = {}
    BY <1>1, <1>2 DEF Init, ToSet
  <1>5. QED
    BY <1>1, <1>3, <1>4 DEF Init, Typed, Table, Distinct

(* Connections come into the table: from a client, in any place it may     *)
(* call, and from accept.                                                  *)
LEMMA ComeKeepsTable ==
    ASSUME Typed, Table, connect_http_client \/ Accept
    PROVE  Typed' /\ Table'
  <1>1. CASE connect_http_client
    <2>1. PICK c \in Pointer, d \in Descriptor :
            /\ IF check_for_connection(d) THEN UNCHANGED process
               ELSE create_connection(c, d) /\ UNCHANGED Socket
            /\ \E state \in {"connecting", "established"} :
                kernel' = [kernel EXCEPT ![d] = state]
      BY <1>1 DEF connect_http_client
    <2>2. /\ kernel' \in [Descriptor -> Endpoint] /\ blocking' \subseteq Descriptor
          /\ peers' \in 0..MaxPeers /\ peers <= peers'
      BY <1>1, <2>1, BoundAssumption DEF Typed, TypeOK, Endpoint, connect_http_client
    <2>3. UNCHANGED <<Socket, loop, backlog, history>>
      BY <1>1, <2>1 DEF connect_http_client, process
    <2>4. CASE check_for_connection(d)
      <3>1. UNCHANGED process
        BY <2>1, <2>4
      <3>2. QED
        BY <2>2, <2>3, <3>1, BoundAssumption
        DEF Typed, TypeOK, Table, process, loop, history, Distinct
    <2>5. CASE create_connection(c, d)
      <3>1. /\ Connections' \in Seq(Pointer) /\ Connections_Size' \in Nat
            /\ allocated' = allocated \cup {c} /\ c \notin allocated
            /\ object' = [object EXCEPT ![c] = Fresh(d)]
            /\ object' \in [Pointer -> Memory]
            /\ Len(Connections)' <= Connections_Size'
            /\ Distinct(Connections')
            /\ ToSet(Connections') = allocated'
        BY <2>5, CreateKeepsTable
      <3>2. \A b \in allocated' : object'[b] \in Object
        BY <3>1 DEF Typed, TypeOK, Fresh, Object
      <3>3. QED
        BY <2>2, <2>3, <3>1, <3>2, BoundAssumption
        DEF Typed, TypeOK, Table, loop, history
    <2>6. QED
      BY <2>1, <2>4, <2>5
  <1>2. CASE Accept
    <2>1. PICK c \in Pointer, d \in Descriptor :
            /\ kernel' = [kernel EXCEPT ![d] = "established"]
            /\ create_connection(c, d)
            /\ Connection' = c
      BY <1>2 DEF Accept
    <2>2. /\ Connections' \in Seq(Pointer) /\ Connections_Size' \in Nat
          /\ allocated' = allocated \cup {c} /\ c \notin allocated
          /\ object' = [object EXCEPT ![c] = Fresh(d)]
          /\ object' \in [Pointer -> Memory]
          /\ Len(Connections)' <= Connections_Size'
          /\ Distinct(Connections')
          /\ ToSet(Connections') = allocated'
      BY <2>1, CreateKeepsTable
    <2>3. \A b \in allocated' : object'[b] \in Object
      BY <2>2 DEF Typed, TypeOK, Fresh, Object
    <2>4. /\ kernel' \in [Descriptor -> Endpoint] /\ blocking' \subseteq Descriptor
          /\ backlog' \in 0..MaxPeers /\ backlog' <= backlog
      BY <1>2, <2>1, BoundAssumption DEF Typed, TypeOK, Endpoint, Accept
    <2>5. QED
      BY <1>2, <2>1, <2>2, <2>3, <2>4, BoundAssumption
      DEF Typed, TypeOK, Table, Accept, history
  <1>3. QED
    BY <1>1, <1>2

(* Connections leave the table: those select finds failed, and those recv  *)
(* finds at their end.                                                     *)
LEMMA LeaveKeepsTable ==
    ASSUME Typed, Table, Failed \/ Drop
    PROVE  Typed' /\ Table'
  <1>1. /\ Connections \in Seq(Pointer) /\ Distinct(Connections) /\ Connections_Size \in Nat
        /\ Len(Connections) <= Connections_Size
        /\ ToSet(Connections) = allocated
    BY DEF Typed, TypeOK, Table
  <1>2. ASSUME NEW k \in DOMAIN Connections, Connections' = TakeOut(k),
               allocated' = allocated \ {Connections[k]},
               UNCHANGED Connections_Size
        PROVE  /\ Connections' \in Seq(Pointer) /\ Distinct(Connections')
               /\ Len(Connections)' <= Connections_Size'
               /\ ToSet(Connections') = allocated'
               /\ allocated' \subseteq allocated
    <2>1. /\ TakeOut(k) \in Seq(Pointer)
          /\ Len(TakeOut(k)) = Len(Connections) - 1
          /\ Distinct(TakeOut(k))
          /\ ToSet(TakeOut(k)) = ToSet(Connections) \ {Connections[k]}
      BY <1>1, TakeOutKeepsTable
    <2>2. Len(Connections) \in Nat /\ Len(Connections)' = Len(Connections) - 1
      BY <1>1, <1>2, <2>1
    <2>3. QED
      BY <1>1, <1>2, <2>1, <2>2
  <1>3. CASE Failed
    <2>1. i \in DOMAIN Connections /\ pc = "visit"
      BY <1>1, <1>3 DEF Failed, Visiting, Typed, TypeOK
    <2>2. /\ Connections' \in Seq(Pointer) /\ Distinct(Connections')
          /\ Len(Connections)' <= Connections_Size'
          /\ ToSet(Connections') = allocated'
          /\ allocated' \subseteq allocated
      BY <1>2, <1>3, <2>1 DEF Failed, Visited
    <2>3. kernel' \in [Descriptor -> Endpoint]
      BY <1>3 DEF Failed, Close, Typed, TypeOK, Endpoint
    <2>4. QED
      BY <1>3, <2>1, <2>2, <2>3 DEF Failed, AfterFailure, Typed, TypeOK, Table
  <1>4. CASE Drop
    <2>1. pc = "recieve" /\ pc' = "send" /\ Connection \in allocated
      BY <1>4 DEF Drop, Table
    <2>2. object[Connection].Socket \in Descriptor
      BY <2>1 DEF Typed, TypeOK, Object
    <2>3. UNCHANGED <<Socket, Connections_Size, object, i, Connection, left, outside>>
      BY <1>4 DEF Drop
    <2>4. CASE UNCHANGED <<allocated, Connections, history>>
      BY <2>1, <2>3, <2>4 DEF Typed, TypeOK, Table, outside, history
    <2>5. CASE ~UNCHANGED <<allocated, Connections, history>>
      <3>1. PICK k \in DOMAIN Connections :
                Connections[k] = Connection /\ Connections' = TakeOut(k)
        BY <1>4, <2>5 DEF Drop
      <3>2. /\ allocated' = allocated \ {Connection}
            /\ dropped' = dropped \cup {object[Connection].Socket}
            /\ due' \subseteq due /\ stepped' \subseteq stepped
        BY <1>4, <2>5 DEF Drop
      <3>3. /\ Connections' \in Seq(Pointer) /\ Distinct(Connections')
            /\ Len(Connections)' <= Connections_Size'
            /\ ToSet(Connections') = allocated'
            /\ allocated' \subseteq allocated
        BY <1>2, <2>3, <3>1, <3>2
      <3>4. QED
        BY <2>1, <2>2, <2>3, <3>2, <3>3 DEF Typed, TypeOK, Table, outside
    <2>6. QED
      BY <2>4, <2>5
  <1>5. QED
    BY <1>3, <1>4

(* Steps that leave the table and the memory alone and only move the poll. *)
LEMMA PollKeepsTable ==
    ASSUME Typed, Table,
           \/ poll_http \/ ReturnAnnounce \/ AcceptFails \/ EndAccept \/ NotYet
           \/ NothingToRecieve \/ RaisePacket \/ ReturnHandler \/ EndPackets
           \/ NothingToSend \/ SendWaits \/ EndPoll \/ UNCHANGED vars
    PROVE  Typed' /\ Table'
  <1>1. i + 1 \in Nat \ {0} /\ (pc = "handler" => left - 1 \in 0..MaxPackets)
    BY BoundAssumption DEF Typed, TypeOK
  <1>2. ToSet(Connections) \subseteq Pointer
    BY DEF Typed, TypeOK, Table
  <1>3. UNCHANGED process /\ UNCHANGED outside
    BY DEF poll_http, ReturnAnnounce, AcceptFails, EndAccept, NotYet, NothingToRecieve,
       RaisePacket, ReturnHandler, EndPackets, NothingToSend, SendWaits, EndPoll, vars,
       StartVisits
  <1>4. CASE poll_http \/ EndAccept
    BY <1>2, <1>3, <1>4
    DEF Typed, TypeOK, Table, Distinct, poll_http, EndAccept, StartVisits, process, outside
  <1>5. CASE NotYet
    <2>1. Visited \in Pointer
      BY <1>5 DEF NotYet, Visiting, Visited, Typed, TypeOK
    <2>2. QED
      BY <1>1, <1>3, <1>5, <2>1
      DEF Typed, TypeOK, Table, Distinct, NotYet, Visiting, process, outside
  <1>6. CASE ReturnHandler
    BY <1>1, <1>3, <1>6
    DEF Typed, TypeOK, Table, Distinct, ReturnHandler, process, outside, history
  <1>7. CASE ReturnAnnounce \/ AcceptFails \/ NothingToRecieve \/ RaisePacket \/ EndPackets
             \/ NothingToSend \/ SendWaits \/ EndPoll \/ UNCHANGED vars
    BY <1>1, <1>3, <1>7
    DEF Typed, TypeOK, Table, Distinct, ReturnAnnounce, AcceptFails, NothingToRecieve,
        RaisePacket, EndPackets, NothingToSend, SendWaits, EndPoll, Spinning, process, outside, history, loop, vars
  <1>8. QED
    BY <1>4, <1>5, <1>6, <1>7

(* Steps that write the memory of a connection but not the table.          *)
LEMMA WriteKeepsTable ==
    ASSUME Typed, Table, (\E c \in Pointer : send_http(c)) \/ Visit \/ Send \/ SendEnds
    PROVE  Typed' /\ Table'
  <1>1. i + 1 \in Nat \ {0}
    BY DEF Typed, TypeOK
  <1>2. ASSUME NEW c \in Pointer, NEW unsent \in BOOLEAN,
               object' = [object EXCEPT ![c].unsent = unsent], UNCHANGED allocated
        PROVE  object' \in [Pointer -> Memory] /\ \A b \in allocated' : object'[b] \in Object
    BY <1>2 DEF Typed, TypeOK, Memory, Object
  <1>3. CASE \E c \in Pointer : send_http(c)
    <2>1. object' \in [Pointer -> Memory] /\ \A b \in allocated' : object'[b] \in Object
      BY <1>2, <1>3 DEF send_http
    <2>2. QED
      BY <1>3, <2>1 DEF send_http, Typed, TypeOK, Table, Distinct, loop, outside, history
  <1>4. CASE Visit
    <2>1. Visited \in Pointer /\ Visited \in allocated
      <3>1. i \in DOMAIN Connections /\ Connections \in Seq(Pointer)
        BY <1>4 DEF Visit, Visiting, Typed, TypeOK
      <3>2. QED
        BY <3>1 DEF Visited, Table, ToSet
    <2>2. object' \in [Pointer -> Memory] /\ \A b \in allocated' : object'[b] \in Object
      BY <1>4, <2>1 DEF Visit, Typed, TypeOK, Memory, Object
    <2>3. Typed'
      BY <1>4, <2>1, <2>2 DEF Visit, Typed, TypeOK, outside
    <2>4. /\ Connection' \in allocated'
          /\ UNCHANGED <<Connections, Connections_Size, allocated>>
      BY <1>4, <2>1 DEF Visit
    <2>t. Table'
      BY <2>2, <2>4 DEF Table, Distinct
    <2>5. QED
      BY <2>3, <2>t
  <1>5. ASSUME NEW d, SendReturns(d), pc \in {"send", "sending"} PROVE Typed' /\ Table'
    <2>1. Connection \in Pointer
      BY <1>5 DEF Typed
    <2>2. object' \in [Pointer -> Memory] /\ \A b \in allocated' : object'[b] \in Object
      BY <1>2, <1>5, <2>1 DEF SendReturns, Typed, TypeOK
    <2>3. QED
      BY <1>1, <1>5, <2>1, <2>2
      DEF SendReturns, Typed, TypeOK, Table, Distinct, outside, history
  <1>6. QED
    BY <1>3, <1>4, <1>5 DEF Send, SendEnds

(* Steps in which the kernel's side of a descriptor moves.                 *)
LEMMA KernelKeepsTable ==
    ASSUME Typed, Table, Arrive \/ PeerMoves \/ Recieve
    PROVE  Typed' /\ Table'
  <1>1. CASE Arrive
    BY <1>1, BoundAssumption
    DEF Arrive, Typed, TypeOK, Table, Distinct, process, loop, history
  <1>2. CASE PeerMoves
    <2>1. kernel' \in [Descriptor -> Endpoint]
      BY <1>2 DEF PeerMoves, Moves, Typed, TypeOK, Endpoint
    <2>2. QED
      BY <1>2, <2>1 DEF PeerMoves, Typed, TypeOK, Table, Distinct, process, loop, history
  <1>3. CASE Recieve
    <2>1. kernel' \in [Descriptor -> Endpoint]
      BY <1>3 DEF Recieve, Typed, TypeOK, Endpoint
    <2>2. QED
      BY <1>3, <2>1 DEF Recieve, Typed, TypeOK, Table, Distinct, process, history
  <1>4. QED
    BY <1>1, <1>2, <1>3

(* Every step keeps the types and the table.                               *)
LEMMA TableNext == Typed /\ Table /\ [Next]_vars => Typed' /\ Table'
  <1>1. SUFFICES ASSUME Typed, Table, [Next]_vars PROVE Typed' /\ Table'
    OBVIOUS
  <1>2. CASE connect_http_client \/ Accept
    BY <1>1, <1>2, ComeKeepsTable
  <1>3. CASE Failed \/ Drop
    BY <1>1, <1>3, LeaveKeepsTable
  <1>4. CASE (\E c \in Pointer : send_http(c)) \/ Visit \/ Send \/ SendEnds
    BY <1>1, <1>4, WriteKeepsTable
  <1>5. CASE Arrive \/ PeerMoves \/ Recieve
    BY <1>1, <1>5, KernelKeepsTable
  <1>6. CASE poll_http \/ ReturnAnnounce \/ AcceptFails \/ EndAccept \/ NotYet
             \/ NothingToRecieve \/ RaisePacket \/ ReturnHandler \/ EndPackets
             \/ NothingToSend \/ SendWaits \/ EndPoll \/ UNCHANGED vars
    BY <1>1, <1>6, PollKeepsTable
  <1>7. QED
    BY <1>1, <1>2, <1>3, <1>4, <1>5, <1>6 DEF Next, Step, Killed

-----------------------------------------------------------------------------
(* The pass over the table.                                                *)

(* A pass begins with the whole table ahead of it.                         *)
LEMMA PassBegins ==
    ASSUME Typed, Table, poll_http \/ EndAccept
    PROVE  Pass'
  <1>1. CASE StartVisits
    <2>1. \A j \in DOMAIN Connections : 1 <= j
      BY DEF Typed, TypeOK
    <2>2. UNCHANGED Connections
      BY DEF poll_http, EndAccept, process
    <2>3. QED
      BY <1>1, <2>1, <2>2 DEF StartVisits, Pass, Ahead, ToSet
  <1>2. CASE pc' = "accept"
    BY <1>2 DEF Pass
  <1>3. QED
    BY <1>1, <1>2 DEF poll_http, EndAccept

(* The pass goes on to the next entry, or looks at this one.               *)
LEMMA PassMoves ==
    ASSUME Typed, Table, Pass, NotYet \/ Visit \/ NothingToSend \/ Send \/ SendWaits \/ SendEnds
    PROVE  Pass'
  <1>1. i \in Nat /\ Connections \in Seq(Pointer) /\ DOMAIN Connections = 1..Len(Connections)
    BY DEF Typed, TypeOK
  <1>2. CASE NotYet \/ Visit
    <2>1. /\ pc = "visit" /\ i \in DOMAIN Connections /\ stepped' = stepped \cup {Visited}
          /\ UNCHANGED <<Connections, allocated, due>>
          /\ \/ pc' = "visit" /\ i' = i + 1
             \/ pc' = "recieve" /\ i' = i /\ Connection' = Visited
      BY <1>1, <1>2 DEF NotYet, Visit, Visiting, process, Typed, TypeOK
    <2>2. \A j \in DOMAIN Connections : Ahead(j)' <=> i < j
      BY <1>1, <2>1 DEF Ahead
    <2>3. Connections[i] \in allocated
      BY <2>1 DEF Table, ToSet
    <2>4. \A j \in DOMAIN Connections : i < j => Connections[j] \notin stepped'
      BY <1>1, <2>1 DEF Pass, Ahead, Table, Distinct, Visited
    <2>5. ASSUME NEW c \in due, c \notin stepped'
          PROVE  \E j \in DOMAIN Connections : i < j /\ Connections[j] = c
      BY <1>1, <2>1, <2>5 DEF Pass, Ahead, Visited
    <2>6. QED
      BY <2>1, <2>2, <2>3, <2>4, <2>5 DEF Pass, Visited
  <1>3. CASE NothingToSend \/ Send \/ SendWaits \/ SendEnds
    <2>1. /\ pc \in {"send", "sending"}
          /\ UNCHANGED <<Connections, allocated, due, stepped>>
          /\ \/ pc' = "killed"
             \/ pc' = "visit" /\ i' = i + 1
             \/ pc' = "sending" /\ UNCHANGED i
      BY <1>3 DEF NothingToSend, Send, SendWaits, SendEnds, SendReturns, process, history
    <2>2. pc' # "killed" => \A j \in DOMAIN Connections : Ahead(j)' <=> Ahead(j)
      BY <1>1, <2>1 DEF Ahead
    <2>3. QED
      BY <2>1, <2>2 DEF Pass
  <1>4. QED
    BY <1>2, <1>3

(* The last entry takes the place of one that leaves: it is still ahead if *)
(* that one failed, and is not due any more if recv dropped it.            *)
LEMMA PassTakesOut ==
    ASSUME Typed, Table, Pass, Failed \/ Drop
    PROVE  Pass'
  <1>1. /\ i \in Nat /\ Connections \in Seq(Pointer) /\ Distinct(Connections)
        /\ DOMAIN Connections = 1..Len(Connections) /\ Len(Connections) \in Nat
        /\ pc \in {"visit", "recieve"}
    BY DEF Typed, TypeOK, Table, Failed, Visiting, Drop
  <1>2. CASE Drop /\ UNCHANGED <<allocated, Connections, history>>
    <2>1. pc = "recieve" /\ pc' = "send" /\ i' = i
      BY <1>2 DEF Drop
    <2>2. QED
      BY <1>2, <2>1 DEF Pass, Ahead, history
  <1>3. ASSUME i \in DOMAIN Connections, Connections' = TakeOut(i), i' = i,
               allocated' = allocated \ {Connections[i]},
               stepped' = stepped \ {Connections[i]},
               \/ pc = "visit" /\ pc' = "visit" /\ due' = due \ {Connections[i]}
               \/ /\ pc = "recieve" /\ pc' = "send"
                  /\ due' = due \ {Connections[i], Last(Connections)}
        PROVE  Pass'
    <2> DEFINE N == Len(Connections) - 1
    <2>1. /\ N \in Nat /\ i \in 1..N + 1 /\ DOMAIN Connections = 1..N + 1
          /\ DOMAIN Connections' = 1..N
          /\ \A n \in 1..N :
                Connections'[n] = IF n = i THEN Connections[N + 1] ELSE Connections[n]
          /\ Last(Connections) = Connections[N + 1]
      <3>1. /\ Connections' \in Seq(Pointer) /\ Len(Connections') = N
            /\ \A n \in 1..N : Connections'[n] = IF n = i THEN Last(Connections) ELSE Connections[n]
            /\ Last(Connections) = Connections[N + 1]
        <4>1. /\ TakeOut(i) \in Seq(Pointer) /\ Len(TakeOut(i)) = Len(Connections) - 1
              /\ \A n \in 1..(Len(Connections) - 1) :
                    TakeOut(i)[n] = IF n = i THEN Last(Connections) ELSE Connections[n]
              /\ Last(Connections) = Connections[Len(Connections)]
          BY <1>1, <1>3, TakeOutKeepsTable
        <4>2. Len(Connections) = N + 1 /\ Len(Connections) - 1 = N
          BY <1>1
        <4> HIDE DEF N
        <4>3. QED
          BY <1>3, <4>1, <4>2
      <3>2. DOMAIN Connections' = 1..N
        BY <3>1
      <3>3. N \in Nat /\ N + 1 = Len(Connections)
        BY <1>1, <1>3
      <3> HIDE DEF N
      <3>4. QED
        BY <1>1, <1>3, <3>1, <3>2, <3>3
    <2> HIDE DEF N
    <2>2. \A j \in 1..N + 1 : /\ Ahead(j) <=> (IF pc = "visit" THEN i <= j ELSE i < j)
                              /\ Ahead(j)' <=> (IF pc = "visit" THEN i <= j ELSE i < j)
      BY <1>3 DEF Ahead
    <2>3. stepped' \subseteq allocated' /\ stepped' \subseteq stepped
      BY <1>1, <1>3 DEF Pass
    <2>4. ASSUME NEW j \in 1..N, Ahead(j)' PROVE Connections'[j] \notin stepped'
      <3>1. CASE j = i
        <4>1. pc = "visit" /\ Ahead(N + 1)
          BY <1>1, <2>1, <2>2, <2>4, <3>1
        <4>2. QED
          BY <1>1, <2>1, <2>3, <3>1, <4>1 DEF Pass
      <3>2. CASE j # i
        BY <1>1, <2>1, <2>2, <2>3, <2>4, <3>2 DEF Pass
      <3>3. QED
        BY <3>1, <3>2
    <2>5. ASSUME NEW c \in due', c \notin stepped'
          PROVE  \E j \in 1..N : Ahead(j)' /\ Connections'[j] = c
      <3>1. c \in due /\ c # Connections[i] /\ c \notin stepped
        BY <1>3, <2>5
      <3>2. PICK k \in 1..N + 1 : Ahead(k) /\ Connections[k] = c
        BY <1>1, <2>1, <3>1 DEF Pass
      <3>3. CASE k = N + 1
        <4>1. pc = "visit"
          BY <1>3, <2>1, <2>5, <3>2, <3>3
        <4>2. i # N + 1
          BY <3>1, <3>2, <3>3
        <4>3. i \in 1..N
          BY <2>1, <4>2
        <4>4. \A j \in 1..N : j = i => Ahead(j)'
          BY <2>1, <2>2, <4>1
        <4>5. Connections'[i] = c
          BY <2>1, <3>2, <3>3, <4>3
        <4>6. QED
          BY <4>3, <4>4, <4>5
      <3>4. CASE k # N + 1
        <4>1. k \in 1..N /\ Ahead(k)'
          BY <2>1, <2>2, <3>2, <3>4
        <4>2. Connections'[k] = c
          BY <2>1, <3>1, <3>2, <4>1
        <4>3. QED
          BY <4>1, <4>2
      <3>5. QED
        BY <3>3, <3>4
    <2>6. QED
      BY <1>3, <2>1, <2>3, <2>4, <2>5 DEF Pass
  <1>4. CASE Failed
    <2>1. i \in DOMAIN Connections /\ Connections[i] \notin stepped /\ pc = "visit"
      BY <1>1, <1>4 DEF Failed, Visiting, Pass, Ahead, Typed, TypeOK
    <2>2. stepped = stepped \ {Connections[i]}
      BY <2>1
    <2>3. QED
      BY <1>3, <1>4, <2>1, <2>2 DEF Failed, Visited, AfterFailure
  <1>5. CASE Drop /\ ~ UNCHANGED <<allocated, Connections, history>>
    <2>1. i \in DOMAIN Connections /\ Connections[i] = Connection /\ pc = "recieve"
      BY <1>5 DEF Drop, Pass
    <2>2. PICK k \in DOMAIN Connections :
              Connections[k] = Connection /\ Connections' = TakeOut(k)
      BY <1>5 DEF Drop
    <2>3. k = i
      BY <1>1, <2>1, <2>2 DEF Distinct
    <2>4. QED
      BY <1>3, <1>5, <2>1, <2>2, <2>3 DEF Drop
  <1>6. QED
    BY <1>2, <1>4, <1>5

(* What a handler connects comes after everything that is ahead.           *)
LEMMA PassGrows ==
    ASSUME Typed, Table, Pass, connect_http_client \/ Accept
    PROVE  Pass'
  <1>1. /\ i \in Nat /\ Connections \in Seq(Pointer)
        /\ DOMAIN Connections = 1..Len(Connections) /\ Len(Connections) \in Nat
    BY DEF Typed, TypeOK
  <1>2. CASE connect_http_client /\ pc = "handler"
    <2>1. UNCHANGED <<pc, i, Connection, due, stepped>>
      BY <1>2 DEF connect_http_client, loop, history
    <2>2. CASE UNCHANGED process
      BY <1>2, <2>1, <2>2 DEF Pass, Ahead, process
    <2>3. CASE \E c \in Pointer, d \in Descriptor : create_connection(c, d)
      <3>1. PICK c \in Pointer : /\ c \notin allocated /\ allocated' = allocated \cup {c}
                               /\ Connections' = Append(Connections, c)
        BY <2>3 DEF create_connection
      <3>2. /\ DOMAIN Connections' = 1..(Len(Connections) + 1)
            /\ \A j \in 1..Len(Connections) : Connections'[j] = Connections[j]
            /\ Connections'[Len(Connections) + 1] = c
        BY <1>1, <3>1
      <3>3. c \notin stepped
        BY <1>2, <3>1 DEF Pass
      <3>4. \A j \in 1..(Len(Connections) + 1) : Ahead(j)' <=> Ahead(j)
        BY <2>1 DEF Ahead
      <3>5. stepped' \subseteq allocated'
        BY <1>2, <2>1, <3>1 DEF Pass
      <3>6. ASSUME NEW j \in DOMAIN Connections', Ahead(j)' PROVE Connections'[j] \notin stepped'
        <4>1. j \in 1..Len(Connections) \/ j = Len(Connections) + 1
          BY <1>1, <3>2
        <4>2. QED
          BY <1>1, <1>2, <2>1, <3>2, <3>3, <3>4, <3>6, <4>1 DEF Pass
      <3>7. ASSUME NEW b \in due', b \notin stepped'
            PROVE  \E j \in DOMAIN Connections' : Ahead(j)' /\ Connections'[j] = b
        <4>1. PICK j \in 1..Len(Connections) : Ahead(j) /\ Connections[j] = b
          BY <1>1, <1>2, <2>1, <3>7 DEF Pass
        <4>2. j \in 1..(Len(Connections) + 1)
          BY <1>1
        <4>3. QED
          BY <3>2, <3>4, <4>1, <4>2
      <3>8. i' \in DOMAIN Connections' /\ Connections'[i'] = Connection'
        BY <1>1, <1>2, <2>1, <3>2 DEF Pass
      <3>9. QED
        BY <3>5, <3>6, <3>7, <3>8 DEF Pass
    <2>4. QED
      BY <1>2, <2>2, <2>3 DEF connect_http_client
  <1>3. CASE connect_http_client /\ pc # "handler"
    BY <1>3 DEF connect_http_client, ClientRuns, loop, Pass
  <1>4. CASE Accept
    BY <1>4 DEF Accept, Pass
  <1>5. QED
    BY <1>2, <1>3, <1>4

LEMMA PassNext == ASSUME Typed, Table, Pass, [Next]_vars PROVE Pass'
  <1>1. CASE poll_http \/ EndAccept
    BY <1>1, PassBegins
  <1>2. CASE NotYet \/ Visit \/ NothingToSend \/ Send \/ SendWaits \/ SendEnds
    BY <1>2, PassMoves
  <1>3. CASE Failed \/ Drop
    BY <1>3, PassTakesOut
  <1>4. CASE connect_http_client \/ Accept
    BY <1>4, PassGrows
  <1>5. CASE \/ \E c \in Pointer : send_http(c)
             \/ Arrive \/ PeerMoves \/ AcceptFails \/ Killed \/ UNCHANGED vars
    <2>1. UNCHANGED <<pc, i, Connection, Connections, allocated, due, stepped>>
      BY <1>5 DEF send_http, Arrive, PeerMoves, AcceptFails, Killed, vars, process, loop, history
    <2>2. QED
      BY <2>1 DEF Pass, Ahead
  <1>6. CASE Recieve \/ NothingToRecieve \/ RaisePacket \/ ReturnHandler \/ EndPackets
    <2>1. /\ pc \in {"recieve", "packets", "handler"} /\ pc' \in {"packets", "handler", "send"}
          /\ UNCHANGED <<i, Connection, Connections, allocated, due, stepped>>
      BY <1>6 DEF Recieve, NothingToRecieve, RaisePacket, ReturnHandler, EndPackets, process,
         history
    <2>2. \A j : Ahead(j)' <=> Ahead(j)
      BY <2>1 DEF Ahead
    <2>3. QED
      BY <2>1, <2>2 DEF Pass
  <1>7. CASE ReturnAnnounce \/ EndPoll
    BY <1>7 DEF ReturnAnnounce, EndPoll, Pass
  <1>8. QED
    BY <1>1, <1>2, <1>3, <1>4, <1>5, <1>6, <1>7 DEF Next, Step

-----------------------------------------------------------------------------
(* The descriptors.                                                        *)

(* Every step keeps the account of the descriptors.                        *)
LEMMA DescriptorsNext ==
    ASSUME Typed, Table, Descriptors, [Next]_vars
    PROVE  Descriptors'
  <1>1. /\ object \in [Pointer -> Memory] /\ allocated \subseteq Pointer
        /\ \A c \in allocated : object[c].Socket \in Descriptor
        /\ kernel \in [Descriptor -> Endpoint]
    BY DEF Typed, TypeOK, Object
  <1>2. ASSUME NEW c \in Pointer, NEW d \in Descriptor, NEW state \in Endpoint,
               create_connection(c, d), kernel[d] = "free",
               kernel' = [kernel EXCEPT ![d] = state], state # "free", UNCHANGED dropped
        PROVE  Descriptors'
    <2>1. /\ c \notin allocated /\ allocated' = allocated \cup {c}
          /\ object' = [object EXCEPT ![c] = Fresh(d)]
      BY <1>2 DEF create_connection
    <2>2. /\ object'[c].Socket = d
          /\ \A b \in allocated : b # c /\ object'[b] = object[b]
      BY <1>1, <2>1 DEF Fresh
    <2>3. d \notin dropped /\ \A b \in allocated : object[b].Socket # d
      BY <1>2 DEF Descriptors
    <2>4. QED
      BY <1>1, <1>2, <2>1, <2>2, <2>3 DEF Descriptors
  <1>3. ASSUME UNCHANGED <<allocated, dropped>>,
               \A c \in allocated : object'[c].Socket = object[c].Socket,
               \A d \in Descriptor : kernel'[d] = "free" <=> kernel[d] = "free"
        PROVE  Descriptors'
    BY <1>3 DEF Descriptors
  <1>4. CASE connect_http_client
    <2>1. PICK c \in Pointer, d \in Descriptor :
            /\ kernel[d] = "free"
            /\ IF check_for_connection(d) THEN UNCHANGED process
               ELSE create_connection(c, d) /\ UNCHANGED Socket
            /\ \E state \in {"connecting", "established"} :
                kernel' = [kernel EXCEPT ![d] = state]
      BY <1>4 DEF connect_http_client
    <2>2. ~check_for_connection(d)
      BY <2>1 DEF check_for_connection, Descriptors, Table, ToSet
    <2>3. QED
      BY <1>2, <1>4, <2>1, <2>2 DEF connect_http_client, history, Endpoint
  <1>5. CASE Accept
    BY <1>2, <1>5 DEF Accept, history, Endpoint
  <1>6. CASE Failed
    <2>1. Visited \in allocated
      BY <1>6 DEF Failed, Visiting, Visited, Typed, TypeOK, Table, ToSet
    <2>2. /\ kernel' = [kernel EXCEPT ![object[Visited].Socket] = "free"]
          /\ allocated' = allocated \ {Visited}
          /\ UNCHANGED <<object, dropped>>
      BY <1>6 DEF Failed, Close
    <2>3. QED
      BY <1>1, <2>1, <2>2 DEF Descriptors
  <1>7. CASE Drop
    <2>1. Connection \in allocated /\ UNCHANGED <<object, kernel>>
      BY <1>7 DEF Drop, Table, outside
    <2>2. CASE UNCHANGED <<allocated, Connections, history>>
      BY <1>3, <2>1, <2>2 DEF history
    <2>3. CASE ~UNCHANGED <<allocated, Connections, history>>
      <3>1. /\ allocated' = allocated \ {Connection}
            /\ dropped' = dropped \cup {object[Connection].Socket}
        BY <1>7, <2>3 DEF Drop
      <3>2. QED
        BY <1>1, <2>1, <3>1 DEF Descriptors
    <2>4. QED
      BY <2>2, <2>3
  <1>8. CASE \E c \in Pointer : send_http(c)
    BY <1>1, <1>3, <1>8 DEF send_http, outside, history, Memory
  <1>9. CASE Visit \/ Send \/ SendEnds
    <2>1. Visit => Visited \in Pointer
      BY DEF Visit, Visiting, Visited, Typed, TypeOK
    <2>2. Send \/ SendEnds => Connection \in Pointer
      BY DEF Send, SendEnds, Typed
    <2>3. \A c \in allocated : object'[c].Socket = object[c].Socket
      <3>1. CASE Visit
        BY <1>1, <2>1, <3>1 DEF Visit, Memory
      <3>2. CASE Send \/ SendEnds
        <4>1. \/ UNCHANGED object
              \/ \E unsent \in BOOLEAN : object' = [object EXCEPT ![Connection].unsent = unsent]
          BY <3>2 DEF Send, SendEnds, SendReturns
        <4>2. QED
          BY <1>1, <2>2, <3>2, <4>1 DEF Memory
      <3>3. QED
        BY <1>9, <3>1, <3>2
    <2>4. QED
      BY <1>3, <1>9, <2>3 DEF Visit, Send, SendEnds, SendReturns, outside, history
  <1>10. CASE PeerMoves
    BY <1>1, <1>3, <1>10 DEF PeerMoves, Moves, process, history
  <1>11. CASE Recieve
    <2>1. kernel[object[Connection].Socket] = "readable" /\ Connection \in allocated
      BY <1>11 DEF Recieve, Peer, Table
    <2>2. QED
      BY <1>1, <1>3, <1>11, <2>1 DEF Recieve, process, history
  <1>12. CASE Arrive \/ poll_http \/ ReturnAnnounce \/ AcceptFails \/ EndAccept \/ NotYet
              \/ NothingToRecieve \/ RaisePacket \/ ReturnHandler \/ EndPackets
              \/ NothingToSend \/ SendWaits \/ EndPoll \/ UNCHANGED vars
    BY <1>3, <1>12
    DEF Arrive, poll_http, ReturnAnnounce, AcceptFails, EndAccept, NotYet, NothingToRecieve,
        RaisePacket, ReturnHandler, EndPackets, NothingToSend, SendWaits, EndPoll, vars,
        process, outside, history
  <1>13. QED
    BY <1>4, <1>5, <1>6, <1>7, <1>8, <1>9, <1>10, <1>11, <1>12 DEF Next, Step, Killed

-----------------------------------------------------------------------------
(* Theorems.                                                               *)

(* In every reachable state the variables have their types: in particular  *)
(* every allocated connection has a descriptor, and the poll's index and   *)
(* pointer are an index and a pointer.                                     *)
THEOREM PollTypeCorrect == Spec => []TypeOK
  <1> DEFINE IInv == Typed /\ Table
  <1>1. Init => IInv
    BY TableInit
  <1>2. IInv /\ [Next]_vars => IInv'
    BY TableNext
  <1>3. IInv => TypeOK
    BY DEF Typed
  <1>4. QED
    BY <1>1, <1>2, <1>3, PTL DEF Spec

(* The table, the memory and the pointer poll_http hands to handlers agree *)
(* in every reachable state, whatever handlers connect and send and        *)
(* whenever peers fail, close or reset.                                    *)
THEOREM AlwaysSound == Spec => []TableSound
  <1> DEFINE IInv == Typed /\ Table
  <1>1. Init => IInv
    BY TableInit
  <1>2. IInv /\ [Next]_vars => IInv'
    BY TableNext
  <1>3. IInv => TableSound
    <2>1. SUFFICES ASSUME Typed, Table PROVE TableSound
      OBVIOUS
    <2>2. Connections \in Seq(Pointer) /\ Distinct(Connections)
      BY <2>1 DEF Typed, TypeOK, Table
    <2>3. Cardinality(ToSet(Connections)) = Len(Connections)
      BY <2>2, DistinctCounts
    <2>4. QED
      BY <2>1, <2>3 DEF Table, TableSound
  <1>4. QED
    BY <1>1, <1>2, <1>3, PTL DEF Spec

(* In every reachable state each connection has an open descriptor of its  *)
(* own, and the open descriptors no connection has are those of the ones   *)
(* recv dropped.                                                           *)
THEOREM AlwaysAccounted == Spec => []DescriptorsAccounted
  <1> DEFINE IInv == Typed /\ Table /\ Descriptors
  <1>1. Init => IInv
    <2>1. Init => Descriptors
      BY DEF Init, Descriptors
    <2>2. QED
      BY <2>1, TableInit
  <1>2. IInv /\ [Next]_vars => IInv'
    BY TableNext, DescriptorsNext
  <1>3. IInv => DescriptorsAccounted
    <2>1. SUFFICES ASSUME Typed, Table, Descriptors PROVE DescriptorsAccounted
      OBVIOUS
    <2> DEFINE used == {object[c].Socket : c \in allocated}
               socket == [c \in allocated |-> object[c].Socket]
    <2>2. Connections \in Seq(Pointer) /\ ToSet(Connections) = allocated
      BY <2>1 DEF Typed, TypeOK, Table
    <2>3. IsFiniteSet(allocated)
      <3>1. Connections \in [1..Len(Connections) -> allocated] /\ Len(Connections) \in Nat
        BY <2>2 DEF ToSet
      <3>2. Connections \in Surjection(1..Len(Connections), allocated)
        BY <2>2, <3>1 DEF Surjection, ToSet
      <3>3. QED
        BY <3>1, <3>2, FS_NatSurjection DEF ExistsSurjection
    <2>4. ExistsBijection(allocated, used)
      <3>1. socket \in [allocated -> used] /\ \A d \in used : \E c \in allocated : socket[c] = d
        OBVIOUS
      <3>2. \A b, c \in allocated : socket[b] = socket[c] => b = c
        BY <2>1 DEF Descriptors
      <3> HIDE DEF socket, used
      <3>3. socket \in Injection(allocated, used)
        BY <3>1, <3>2 DEF Injection, IsInjective
      <3>4. socket \in Surjection(allocated, used)
        BY <3>1 DEF Surjection
      <3>5. QED
        BY <3>3, <3>4 DEF ExistsBijection, Bijection
    <2>5. Cardinality(used) = Cardinality(allocated)
      BY <2>3, <2>4, FS_Bijection
    <2>6. used \cap dropped = {}
      BY <2>1 DEF Descriptors
    <2>7. used \cup dropped = {d \in Descriptor : kernel[d] # "free"}
      BY <2>1 DEF Descriptors, Typed, TypeOK, Object
    <2>8. QED
      BY <2>5, <2>6, <2>7 DEF DescriptorsAccounted
  <1>4. QED
    BY <1>1, <1>2, <1>3, PTL DEF Spec

(* One poll visits everything it found in the table that is still there,   *)
(* and nothing twice, except that the entry which takes the place of one   *)
(* that recv dropped may miss its turn.                                    *)
THEOREM AlwaysVisitsAll == Spec => PollVisitsAll
  <1> DEFINE IInv == Typed /\ Table /\ Pass
             Visits == /\ pc = "visit" /\ pc' = "idle" => due \subseteq stepped
                       /\ pc = "visit" /\ pc' = "recieve" => Connection' \notin stepped
  <1>1. Init => IInv
    <2>1. Init => Pass
      BY DEF Init, Pass
    <2>2. QED
      BY <2>1, TableInit
  <1>2. IInv /\ [Next]_vars => IInv'
    BY TableNext, PassNext
  <1>3. IInv /\ [Next]_vars => [Visits]_vars
    <2> SUFFICES ASSUME IInv, Next PROVE Visits
      OBVIOUS
    <2>1. i \in Nat /\ DOMAIN Connections = 1..Len(Connections) /\ Len(Connections) \in Nat
      BY DEF Typed, TypeOK
    <2>2. CASE EndPoll
      BY <2>1, <2>2 DEF EndPoll, Pass, Ahead
    <2>3. CASE Visit
      <3>1. i \in DOMAIN Connections /\ pc = "visit" /\ Connection' = Connections[i]
            /\ pc' = "recieve"
        BY <2>1, <2>3 DEF Visit, Visiting, Visited, Typed, TypeOK
      <3>2. QED
        BY <2>1, <3>1 DEF Pass, Ahead
    <2>4. CASE ~ EndPoll /\ ~ Visit /\ pc = "visit"
      <3>1. pc' = "visit"
        BY <2>4 DEF Next, Step, poll_http, Accept, ReturnAnnounce, AcceptFails, EndAccept,
           NotYet, Failed, Recieve, NothingToRecieve, Drop, RaisePacket, ReturnHandler,
           EndPackets, NothingToSend, Send, SendWaits, SendEnds, Spinning, connect_http_client,
           send_http, Arrive, PeerMoves, Killed, Visiting, loop, vars
      <3>2. QED
        BY <3>1
    <2>5. QED
      BY <2>2, <2>3, <2>4
  <1> HIDE DEF Visits
  <1>4. Spec => [][Visits]_vars
    BY <1>1, <1>2, <1>3, PTL DEF Spec
  <1>5. QED
    BY <1>4 DEF PollVisitsAll, Visits
=============================================================================
