------------------------- MODULE HttpContextProofs -------------------------
(***************************************************************************)
(* For any number of http objects, descriptors and addresses: the types of *)
(* HttpContext's state, that every descriptor in use belongs to one object *)
(* or was leaked by a drop, that servers accept only what was sent to      *)
(* them, and when an address list is freed twice.                          *)
(***************************************************************************)
EXTENDS HttpContext, SequenceFacts

(* The call in progress is for an object that was made and not destroyed;  *)
(* it has addresses left only from a list, and listens only with a socket. *)
Calls ==
    /\ pc # "client" => server \in Http \ destroyed /\ role[server] # None
    /\ pc = "bind" => server \notin unbound
    /\ pc = "listen" /\ server \notin unbound => Socket[server] # -1
    /\ pc \in {"bind", "connect"} /\ p > 0 => Res[server] = "list"

(* A list is whole only during the call that made it; a freed one is never *)
(* forgotten, and who has a socket has had a list.                         *)
Lists ==
    \A h \in Http :
        /\ Res[h] = "list" => pc # "client" /\ server = h
        /\ Res[h] = "freed" => h \in looked
        /\ h \in looked \/ Socket[h] # -1 => Res[h] # "NULL"
        /\ role[h] = None => Res[h] = "NULL" /\ h \notin unbound \cup destroyed

(* The Socket of a server that could bind is its own in the kernel, or was *)
(* closed by the call that is still trying addresses, and the other way    *)
(* round.                                                                  *)
Bound ==
    /\ \A h \in Http \ unbound : Socket[h] # -1 =>
        \/ kernel[Socket[h]] = Free /\ pc = "bind" /\ server = h
        \/ kernel[Socket[h]].is \in {"bound", "listening"} /\ kernel[Socket[h]].of = h
    /\ \A d \in Descriptor : kernel[d].is \in {"bound", "listening"} =>
        /\ kernel[d].of \in Http \ unbound /\ Socket[kernel[d].of] = d
        /\ pc = "bind" => server # kernel[d].of

(* A connection of the kernel's has one entry in one table, or was leaked. *)
Entered ==
    /\ \A d \in Descriptor : kernel[d].is = "connection" =>
        d \in leaked \/ \E h \in Http : \E i \in DOMAIN Sockets[h] : Sockets[h][i] = d
    /\ \A d \in leaked : kernel[d].is = "connection"
    /\ \A h \in Http : \A i \in DOMAIN Sockets[h] :
        /\ kernel[Sockets[h][i]].is = "connection" /\ Sockets[h][i] \notin leaked
        /\ h \notin unbound => kernel[Sockets[h][i]].of = h
    /\ \A g, h \in Http : \A i \in DOMAIN Sockets[g], k \in DOMAIN Sockets[h] :
        Sockets[g][i] = Sockets[h][k] => g = h /\ i = k

Owned == ended # "fault" => Bound /\ Entered

Sound == TypeOK /\ Calls /\ Lists /\ FaultNeedsList

-----------------------------------------------------------------------------
(* Descriptors and tables.                                                 *)

(* The kernel gives out a descriptor that is free.                         *)
LEMMA LowestIsFree ==
    ASSUME FreeDescriptors # {}
    PROVE  /\ Min(FreeDescriptors) \in Descriptor
           /\ kernel[Min(FreeDescriptors)] = Free
  <1>1. FreeDescriptors \in SUBSET Nat
    BY BoundAssumption DEF FreeDescriptors, Descriptor
  <1>2. \E x \in FreeDescriptors : \A y \in FreeDescriptors : x <= y
    BY <1>1, LeastNumber
  <1>3. Min(FreeDescriptors) \in FreeDescriptors
    BY <1>2 DEF Min
  <1>4. QED
    BY <1>3 DEF FreeDescriptors

(* The entries of the second of two sequences joined.                      *)
LEMMA LaterPart ==
    ASSUME NEW S, NEW s \in Seq(S), NEW t \in Seq(S), NEW i \in Len(s) + 1..Len(s) + Len(t)
    PROVE  (s \o t)[i] = t[i - Len(s)]
  BY ConcatProperties

(* RemoveAt takes one entry out, and keeps the others in their order.      *)
LEMMA TakenOut ==
    ASSUME NEW S, NEW s \in Seq(S), NEW k \in DOMAIN s
    PROVE  /\ RemoveAt(s, k) \in Seq(S)
           /\ Len(RemoveAt(s, k)) = Len(s) - 1
           /\ \A i \in 1..(Len(s) - 1) : RemoveAt(s, k)[i] = s[IF i < k THEN i ELSE i + 1]
  <1> DEFINE front == SubSeq(s, 1, k - 1)
             back  == SubSeq(s, k + 1, Len(s))
  <1>1. k \in 1..Len(s) /\ Len(s) \in Nat
    OBVIOUS
  <1>2. /\ front \in Seq(S) /\ Len(front) = k - 1
        /\ \A i \in 1..(k - 1) : front[i] = s[i]
    BY <1>1
  <1>3. /\ back \in Seq(S) /\ Len(back) = Len(s) - k
        /\ \A i \in 1..(Len(s) - k) : back[i] = s[k + i]
    BY <1>1
  <1>4. RemoveAt(s, k) = front \o back
    BY DEF RemoveAt
  <1> HIDE DEF front, back
  <1>5. front \o back \in Seq(S) /\ Len(front \o back) = Len(s) - 1
    BY <1>1, <1>2, <1>3
  <1>6. ASSUME NEW i \in 1..(Len(s) - 1)
        PROVE  (front \o back)[i] = s[IF i < k THEN i ELSE i + 1]
    <2>1. CASE i < k
      BY <1>1, <1>2, <1>3, <2>1
    <2>2. CASE ~ (i < k)
      <3>1. (front \o back)[i] = back[i - (k - 1)]
        <4>1. Len(front) \in Nat /\ i \in Len(front) + 1..Len(front) + Len(back)
          BY <1>1, <1>2, <1>3, <2>2
        <4>2. (front \o back)[i] = back[i - Len(front)]
          BY <1>2, <1>3, <4>1, LaterPart
        <4>3. QED
          BY <1>2, <4>2
      <3>2. i - (k - 1) \in 1..(Len(s) - k)
        BY <1>1, <2>2
      <3>3. k + (i - (k - 1)) = i + 1
        BY <1>1
      <3>4. QED
        BY <1>1, <1>3, <2>2, <3>1, <3>2, <3>3
    <2>3. QED
      BY <2>1, <2>2
  <1>7. QED
    BY <1>4, <1>5, <1>6

-----------------------------------------------------------------------------
(* Types, calls and lists.                                                 *)

LEMMA SoundInit == Init => Sound
  <1> SUFFICES ASSUME Init PROVE Sound
    OBVIOUS
  <1>1. /\ role \in [Http -> {"server", "client", None}]
        /\ Socket \in [Http -> Descriptor \cup {-1}]
        /\ Res \in [Http -> {"NULL", "list", "freed"}]
    BY DEF Init, NoList
  <1>2. Sockets \in [Http -> Seq(Descriptor)]
    BY DEF Init
  <1>3. kernel \in [Descriptor -> KernelSocket]
    BY DEF Init, KernelSocket
  <1>4. p \in 0..MaxAddresses
    BY BoundAssumption DEF Init
  <1>5. TypeOK
    BY <1>1, <1>2, <1>3, <1>4 DEF Init, TypeOK
  <1>6. QED
    BY <1>5 DEF Init, NoList, Sound, Calls, Lists, FaultNeedsList

(* What becomes of the call and its list when freeaddrinfo ends it.        *)
LEMMA FreeListReturns ==
    ASSUME Sound, pc # "client", ended = "no", FreeList, Return,
           UNCHANGED <<role, destroyed, Socket, ended, unbound, build>>
    PROVE  /\ Res' \in [Http -> {"NULL", "list", "freed"}] /\ looked' \subseteq Http
           /\ pc' = "client" /\ server' = None /\ p' \in 0..MaxAddresses
           /\ Calls' /\ Lists' /\ FaultNeedsList'
  <1> USE DEF Sound, TypeOK
  <1>1. server \in Http \ destroyed /\ role[server] # None
    BY DEF Calls
  <1>2. pc' = "client" /\ server' = None /\ p' = 0
    BY DEF Return
  <1>3. /\ Res' \in [Http -> {"NULL", "list", "freed"}] /\ looked' \subseteq Http
        /\ \A h \in Http : Res'[h] # "list"
    BY <1>1 DEF FreeList, Lists
  <1>4. Calls'
    BY <1>2 DEF Calls
  <1>5. Lists'
    BY <1>1, <1>3 DEF FreeList, Lists
  <1>6. FaultNeedsList'
    BY <1>1 DEF FreeList, FaultNeedsList
  <1>7. QED
    BY <1>2, <1>3, <1>4, <1>5, <1>6, BoundAssumption

(* A lookup for an object that exists, or has just been made.              *)
LEMMA ResolveSound ==
    ASSUME Sound, Ready, NEW h \in Http \ destroyed, NEW next \in {"bind", "connect"},
           resolve_address(h, next), role' \in [Http -> {"server", "client", None}],
           \A g \in Http : g # h => role'[g] = role[g],
           role'[h] # None, next = "bind" => h \notin unbound,
           UNCHANGED <<build, destroyed, Socket, Sockets, kernel, history>>
    PROVE  Sound'
  <1> USE DEF Sound, TypeOK, Ready, history, resolve_address
  <1>1. TypeOK'
    BY BoundAssumption
  <1>2. Calls'
    BY DEF Calls
  <1>3. Lists'
    BY DEF Lists
  <1>4. FaultNeedsList'
    BY BuildAssumption DEF FaultNeedsList, Lists
  <1>5. QED
    BY <1>1, <1>2, <1>3, <1>4

LEMMA CreateSound ==
    ASSUME Sound, NEW h \in Http,
           create_http_server(h) \/ create_http_client(h) \/ connect_http_client(h)
    PROVE  Sound'
  <1>1. CASE create_http_server(h)
    <2>1. role' \in [Http -> {"server", "client", None}] /\ role'[h] = "server"
      BY <1>1 DEF Sound, TypeOK, create_http_server
    <2>2. h \notin unbound \cup destroyed
      BY <1>1 DEF Sound, Lists, create_http_server
    <2>3. /\ Ready /\ resolve_address(h, "bind")
          /\ \A g \in Http : g # h => role'[g] = role[g]
          /\ UNCHANGED <<build, destroyed, Socket, Sockets, kernel, history>>
      BY <1>1 DEF Sound, TypeOK, create_http_server
    <2>4. QED
      BY <2>1, <2>2, <2>3, ResolveSound DEF None
  <1>2. CASE create_http_client(h)
    BY <1>2 DEF create_http_client, Sound, TypeOK, Calls, Lists, FaultNeedsList, Ready,
         call, history, None
  <1>3. CASE connect_http_client(h)
    <2>1. /\ h \in Http \ destroyed /\ role'[h] # None /\ role' = role
          /\ Ready /\ resolve_address(h, "connect")
          /\ UNCHANGED <<build, destroyed, Socket, Sockets, kernel, history>>
      BY <1>3 DEF connect_http_client
    <2>2. role' \in [Http -> {"server", "client", None}]
      BY <2>1 DEF Sound, TypeOK
    <2>3. QED
      BY <2>1, <2>2, ResolveSound
  <1>4. QED
    BY <1>1, <1>2, <1>3

(* The address loops of both calls.                                        *)
LEMMA TrySound ==
    ASSUME Sound, NoSocket \/ BindFails \/ Bind \/ BindNone \/ ConnectFails
    PROVE  Sound'
  <1> USE DEF Sound, TypeOK, history
  <1>1. CASE NoSocket
    <2>1. TypeOK'
      BY <1>1, BoundAssumption DEF NoSocket, Calls
    <2>2. QED
      BY <1>1, <2>1 DEF NoSocket, Calls, Lists, FaultNeedsList
  <1>2. CASE ConnectFails
    BY <1>2, BoundAssumption DEF ConnectFails, Refused, Calls, Lists, FaultNeedsList
  <1>3. CASE BindNone
    BY <1>3 DEF BindNone, Calls, Lists, FaultNeedsList
  <1>4. CASE BindFails \/ Bind
    <2> DEFINE d == Min(FreeDescriptors)
    <2>1. d \in Descriptor
      BY <1>4, LowestIsFree DEF BindFails, Bind
    <2>2. kernel' \in [Descriptor -> KernelSocket]
      BY <1>4, <2>1 DEF BindFails, Bind, Refused, Open, KernelSocket, Calls
    <2>3. /\ server \in Http /\ Socket' = [Socket EXCEPT ![server] = d] /\ d # -1
          /\ Res[server] = "list"
      BY <1>4, <2>1 DEF BindFails, Bind, Calls, Descriptor
    <2> HIDE DEF d
    <2>4. TypeOK'
      BY <1>4, <2>1, <2>2, <2>3, BoundAssumption DEF BindFails, Bind
    <2>5. Calls' /\ Lists' /\ FaultNeedsList'
      BY <1>4, <2>3 DEF BindFails, Bind, Calls, Lists, FaultNeedsList
    <2>6. QED
      BY <2>4, <2>5
  <1>5. QED
    BY <1>1, <1>2, <1>3, <1>4

(* The calls return.                                                       *)
LEMMA EndSound ==
    ASSUME Sound, Listen \/ Connect \/ ConnectNone
    PROVE  Sound'
  <1> USE DEF Sound, TypeOK
  <1>1. /\ pc # "client" /\ ended = "no" /\ FreeList /\ Return
        /\ UNCHANGED <<role, destroyed, Socket, ended, unbound, build, leaked>>
    BY DEF Listen, Connect, ConnectNone
  <1>2. /\ Res' \in [Http -> {"NULL", "list", "freed"}] /\ looked' \subseteq Http
        /\ pc' = "client" /\ server' = None /\ p' \in 0..MaxAddresses
        /\ Calls' /\ Lists' /\ FaultNeedsList'
    BY <1>1, FreeListReturns
  <1>3. server \in Http
    BY <1>1 DEF Calls
  <1>4. kernel' \in [Descriptor -> KernelSocket] /\ Sockets' \in [Http -> Seq(Descriptor)]
    <2>1. CASE Listen
      <3>1. kernel' \in [Descriptor -> KernelSocket]
        BY <1>3, <2>1 DEF Listen, Open, KernelSocket
      <3>2. QED
        BY <2>1, <3>1 DEF Listen
    <2>2. CASE ConnectNone
      BY <2>2 DEF ConnectNone
    <2>3. CASE Connect
      <3> DEFINE d == Min(FreeDescriptors)
      <3>1. d \in Descriptor
        BY <2>3, LowestIsFree DEF Connect
      <3>2. kernel' = [kernel EXCEPT ![d] = [is |-> "connection", of |-> server]]
        BY <2>3 DEF Connect, Open
      <3>3. \/ Sockets' = Sockets
            \/ Sockets' = [Sockets EXCEPT ![server] = Append(@, d)]
        BY <2>3 DEF Connect
      <3> HIDE DEF d
      <3>4. kernel' \in [Descriptor -> KernelSocket]
        BY <1>3, <3>1, <3>2 DEF KernelSocket
      <3>5. Append(Sockets[server], d) \in Seq(Descriptor)
        BY <1>3, <3>1
      <3>6. Sockets' \in [Http -> Seq(Descriptor)]
        BY <1>3, <3>3, <3>5
      <3>7. QED
        BY <3>4, <3>6
    <2>4. QED
      BY <2>1, <2>2, <2>3
  <1>5. TypeOK'
    BY <1>1, <1>2, <1>4
  <1>6. QED
    BY <1>2, <1>5

LEMMA PollSound ==
    ASSUME Sound, NEW h \in Http, Accept(h) \/ AcceptFails(h) \/ Leave(h)
    PROVE  Sound'
  <1> USE DEF Sound, TypeOK, call, history
  <1>1. CASE Accept(h)
    <2> DEFINE d == Min(FreeDescriptors)
    <2>1. PICK s \in AcceptFrom(h) :
              /\ kernel' = [kernel EXCEPT ![d] = [is |-> "connection", of |-> kernel[s].of]]
              /\ Sockets' = [Sockets EXCEPT ![h] = Append(@, d)]
      BY <1>1 DEF Accept, Open
    <2>2. d \in Descriptor
      BY <1>1, LowestIsFree DEF Accept
    <2> HIDE DEF d
    <2>3. kernel[s].of \in Http
      BY <2>1 DEF AcceptFrom, KernelSocket, Free
    <2>4. kernel' \in [Descriptor -> KernelSocket] /\ Sockets' \in [Http -> Seq(Descriptor)]
      BY <2>1, <2>2, <2>3 DEF KernelSocket
    <2>5. QED
      BY <1>1, <2>4 DEF Accept, Calls, Lists, FaultNeedsList
  <1>2. CASE AcceptFails(h)
    BY <1>2 DEF AcceptFails, Ready, Calls, Lists, FaultNeedsList
  <1>3. CASE Leave(h)
    <2>1. PICK k \in DOMAIN Sockets[h] :
              /\ Sockets' = [Sockets EXCEPT ![h] = RemoveAt(@, k)]
              /\ \/ kernel' = [kernel EXCEPT ![Sockets[h][k]] = Free] /\ UNCHANGED leaked
                 \/ leaked' = leaked \cup {Sockets[h][k]} /\ UNCHANGED kernel
      BY <1>3 DEF Leave
    <2>2. RemoveAt(Sockets[h], k) \in Seq(Descriptor) /\ Sockets[h][k] \in Descriptor
      BY TakenOut
    <2>3. /\ Sockets' \in [Http -> Seq(Descriptor)] /\ leaked' \subseteq Descriptor
          /\ kernel' \in [Descriptor -> KernelSocket]
      BY <2>1, <2>2 DEF KernelSocket
    <2>4. QED
      BY <1>3, <2>3 DEF Leave, Calls, Lists, FaultNeedsList
  <1>4. QED
    BY <1>1, <1>2, <1>3

LEMMA DestroySound == ASSUME Sound, NEW h \in Http, destroy_http_server(h) PROVE Sound'
  <1> USE DEF Sound, TypeOK, call, history, destroy_http_server, Ready
  <1>1. kernel' \in [Descriptor -> KernelSocket]
    BY DEF KernelSocket
  <1>2. TypeOK'
    BY <1>1
  <1>3. Calls' /\ Lists'
    BY DEF Calls, Lists
  <1>4. FaultNeedsList'
    BY DEF FaultNeedsList, Lists
  <1>5. QED
    BY <1>2, <1>3, <1>4

LEMMA SoundNext == Sound /\ [Next]_vars => Sound'
  <1> SUFFICES ASSUME Sound, [Next]_vars PROVE Sound'
    OBVIOUS
  <1>1. CASE UNCHANGED vars
    BY <1>1 DEF vars, call, history, Sound, TypeOK, Calls, Lists, FaultNeedsList
  <1>2. CASE Next
    BY <1>2, CreateSound, TrySound, EndSound, PollSound, DestroySound DEF Next
  <1>3. QED
    BY <1>1, <1>2

-----------------------------------------------------------------------------
(* Who owns which descriptor.                                              *)

LEMMA OwnedInit == Init => Bound /\ Entered
  BY DEF Init, Bound, Entered, Free

(* Steps that leave descriptors and tables alone, and at most begin a call *)
(* for an object without a socket, or end one.                             *)
LEMMA SameOwners ==
    ASSUME Bound, Entered, UNCHANGED <<kernel, Sockets, leaked, Socket, unbound>>,
           pc = "bind" => pc' = "bind" /\ server' = server,
           pc # "bind" /\ pc' = "bind" => server' \in Http /\ Socket[server'] = -1
    PROVE  Bound' /\ Entered'
  <1>1. Entered'
    BY DEF Entered
  <1>2. ASSUME NEW h \in Http \ unbound, Socket[h] # -1
        PROVE  \/ kernel[Socket[h]] = Free /\ pc' = "bind" /\ server' = h
               \/ kernel[Socket[h]].is \in {"bound", "listening"} /\ kernel[Socket[h]].of = h
    BY <1>2 DEF Bound
  <1>3. ASSUME NEW d \in Descriptor, kernel[d].is \in {"bound", "listening"}
        PROVE  /\ kernel[d].of \in Http \ unbound /\ Socket[kernel[d].of] = d
               /\ pc' = "bind" => server' # kernel[d].of
    <2>1. /\ kernel[d].of \in Http \ unbound /\ Socket[kernel[d].of] = d
          /\ pc = "bind" => server # kernel[d].of
      BY <1>3 DEF Bound
    <2>2. d # -1
      BY BoundAssumption DEF Descriptor
    <2>3. QED
      BY <2>1, <2>2
  <1>4. Bound'
    BY <1>2, <1>3 DEF Bound
  <1>5. QED
    BY <1>1, <1>4

(* A connection is opened with a free descriptor, and is entered.          *)
LEMMA EnterOne ==
    ASSUME Sound, Bound, Entered, pc # "bind", pc' # "bind",
           NEW d \in Descriptor, kernel[d] = Free, NEW h \in Http, NEW o \in Http,
           h \notin unbound => o = h,
           kernel' = [kernel EXCEPT ![d] = [is |-> "connection", of |-> o]],
           Sockets' = [Sockets EXCEPT ![h] = Append(@, d)],
           UNCHANGED <<Socket, leaked, unbound>>
    PROVE  Bound' /\ Entered'
  <1> USE DEF Sound, TypeOK
  <1>1. /\ kernel'[d] = [is |-> "connection", of |-> o]
        /\ \A e \in Descriptor : e # d => kernel'[e] = kernel[e]
        /\ kernel[d].is = "free"
    BY DEF Free
  <1>2. \A g \in Http : \A i \in DOMAIN Sockets[g] :
            Sockets[g][i] # d /\ Sockets[g][i] \in Descriptor
    BY <1>1 DEF Entered
  <1>3. d \notin leaked
    BY <1>1 DEF Entered
  <1>4. Bound'
    <2>1. \A g \in Http \ unbound : Socket[g] # -1 => Socket[g] # d /\ Socket[g] \in Descriptor
      <3> SUFFICES ASSUME NEW g \in Http \ unbound, Socket[g] # -1
                   PROVE  Socket[g] # d /\ Socket[g] \in Descriptor
        OBVIOUS
      <3>1. Socket[g] \in Descriptor
        OBVIOUS
      <3>2. kernel[Socket[g]].is \in {"bound", "listening"}
        BY DEF Bound
      <3>3. QED
        BY <1>1, <3>1, <3>2
    <2>2. QED
      BY <1>1, <2>1 DEF Bound
  <1>5. /\ Sockets'[h] = Append(Sockets[h], d)
        /\ \A g \in Http : g # h => Sockets'[g] = Sockets[g]
    OBVIOUS
  <1>6. /\ DOMAIN Sockets'[h] = 1..(Len(Sockets[h]) + 1)
        /\ Sockets'[h][Len(Sockets[h]) + 1] = d
        /\ DOMAIN Sockets[h] = 1..Len(Sockets[h]) /\ Len(Sockets[h]) \in Nat
        /\ \A i \in DOMAIN Sockets[h] : Sockets'[h][i] = Sockets[h][i]
    BY <1>5
  <1>7. ASSUME NEW g \in Http, NEW i \in DOMAIN Sockets'[g]
        PROVE  \/ i \in DOMAIN Sockets[g] /\ Sockets'[g][i] = Sockets[g][i]
               \/ g = h /\ i = Len(Sockets[h]) + 1 /\ Sockets'[g][i] = d
    BY <1>5, <1>6
  <1>8. ASSUME NEW g \in Http, NEW i \in DOMAIN Sockets[g]
        PROVE  i \in DOMAIN Sockets'[g] /\ Sockets'[g][i] = Sockets[g][i]
    BY <1>5, <1>6
  <1> HIDE DEF Sound, TypeOK
  <1>9. ASSUME NEW e \in Descriptor, kernel'[e].is = "connection"
        PROVE  e \in leaked \/ \E g \in Http : \E i \in DOMAIN Sockets'[g] : Sockets'[g][i] = e
    <2>1. CASE e = d
      BY <2>1, <1>6
    <2>2. CASE e # d
      <3>1. e \in leaked \/ \E g \in Http : \E i \in DOMAIN Sockets[g] : Sockets[g][i] = e
        BY <1>1, <1>9, <2>2 DEF Entered
      <3>2. QED
        BY <1>8, <3>1
    <2>3. QED
      BY <2>1, <2>2
  <1>10. \A e \in leaked : kernel'[e].is = "connection"
    BY <1>1, <1>3 DEF Entered, Sound, TypeOK
  <1>11. ASSUME NEW g \in Http, NEW i \in DOMAIN Sockets'[g]
         PROVE  /\ kernel'[Sockets'[g][i]].is = "connection" /\ Sockets'[g][i] \notin leaked
                /\ g \notin unbound => kernel'[Sockets'[g][i]].of = g
    BY <1>1, <1>2, <1>3, <1>7 DEF Entered
  <1>12. ASSUME NEW f \in Http, NEW g \in Http, NEW i \in DOMAIN Sockets'[f],
                NEW k \in DOMAIN Sockets'[g], Sockets'[f][i] = Sockets'[g][k]
         PROVE  f = g /\ i = k
    BY <1>2, <1>7, <1>12 DEF Entered
  <1>13. Entered'
    BY <1>9, <1>10, <1>11, <1>12 DEF Entered
  <1>14. QED
    BY <1>4, <1>13

(* A connection leaves its table, and is closed or leaked.                 *)
LEMMA LeaveOne ==
    ASSUME Sound, Bound, Entered, NEW h \in Http, Leave(h)
    PROVE  Bound' /\ Entered'
  <1> USE DEF Sound, TypeOK
  <1>1. PICK k \in DOMAIN Sockets[h] :
            /\ Sockets' = [Sockets EXCEPT ![h] = RemoveAt(@, k)]
            /\ \/ kernel' = [kernel EXCEPT ![Sockets[h][k]] = Free] /\ UNCHANGED leaked
               \/ leaked' = leaked \cup {Sockets[h][k]} /\ UNCHANGED kernel
    BY DEF Leave
  <1> DEFINE d == Sockets[h][k]
             at(g, i) == IF g = h /\ i >= k THEN i + 1 ELSE i
  <1>2. pc = "client" /\ pc' = pc /\ UNCHANGED <<Socket, server, unbound>>
    BY DEF Leave, Ready, call
  <1>3. d \in Descriptor /\ kernel[d].is = "connection" /\ d \notin leaked
    BY DEF Entered
  <1>4. /\ Len(Sockets'[h]) = Len(Sockets[h]) - 1 /\ Sockets'[h] \in Seq(Descriptor)
        /\ \A i \in 1..(Len(Sockets[h]) - 1) :
              Sockets'[h][i] = Sockets[h][IF i < k THEN i ELSE i + 1]
    <2> DEFINE s == Sockets[h]
    <2>1. Sockets'[h] = RemoveAt(s, k) /\ s \in Seq(Descriptor)
      BY <1>1
    <2> HIDE DEF s
    <2>2. k \in DOMAIN s
      BY DEF s
    <2>3. /\ RemoveAt(s, k) \in Seq(Descriptor) /\ Len(RemoveAt(s, k)) = Len(s) - 1
          /\ \A i \in 1..(Len(s) - 1) : RemoveAt(s, k)[i] = s[IF i < k THEN i ELSE i + 1]
      BY <2>1, <2>2, TakenOut
    <2>4. QED
      BY <2>1, <2>3 DEF s
  <1>5. \A g \in Http : g # h => Sockets'[g] = Sockets[g]
    BY <1>1
  <1>6. k \in 1..Len(Sockets[h]) /\ Len(Sockets[h]) \in Nat
    OBVIOUS
  <1>7. ASSUME NEW g \in Http, NEW i \in DOMAIN Sockets'[g]
        PROVE  /\ at(g, i) \in DOMAIN Sockets[g] /\ Sockets'[g][i] = Sockets[g][at(g, i)]
               /\ ~ (g = h /\ at(g, i) = k)
    <2>1. CASE g = h
      <3>1. i \in 1..(Len(Sockets[h]) - 1)
        BY <1>4, <2>1
      <3>2. /\ at(g, i) = (IF i < k THEN i ELSE i + 1)
            /\ at(g, i) \in 1..Len(Sockets[h]) /\ at(g, i) # k
        BY <1>6, <2>1, <3>1
      <3> HIDE DEF at
      <3>3. Sockets'[h][i] = Sockets[h][at(g, i)]
        BY <1>4, <3>1, <3>2
      <3>4. DOMAIN Sockets[h] = 1..Len(Sockets[h])
        OBVIOUS
      <3>5. QED
        BY <2>1, <3>2, <3>3, <3>4
    <2>2. CASE g # h
      BY <1>5, <2>2
    <2>3. QED
      BY <2>1, <2>2
  <1>8. ASSUME NEW g \in Http, NEW j \in DOMAIN Sockets[g], ~ (g = h /\ j = k)
        PROVE  \E i \in DOMAIN Sockets'[g] : Sockets'[g][i] = Sockets[g][j]
    <2>1. CASE g = h
      <3> DEFINE i == IF j < k THEN j ELSE j - 1
      <3>1. j \in 1..Len(Sockets[h]) /\ j # k
        BY <1>8, <2>1
      <3>2. i \in 1..(Len(Sockets[h]) - 1) /\ (IF i < k THEN i ELSE i + 1) = j
        BY <1>6, <3>1
      <3>3. DOMAIN Sockets'[h] = 1..(Len(Sockets[h]) - 1)
        BY <1>4
      <3>4. QED
        BY <1>4, <2>1, <3>2, <3>3
    <2>2. CASE g # h
      BY <1>5, <2>2
    <2>3. QED
      BY <2>1, <2>2
  <1>9. ASSUME NEW g \in Http, NEW j \in DOMAIN Sockets[g], ~ (g = h /\ j = k)
        PROVE  Sockets[g][j] # d /\ Sockets[g][j] \in Descriptor
    BY <1>9 DEF Entered
  <1>10. /\ \A e \in Descriptor : e # d => kernel'[e] = kernel[e] /\ (e \in leaked' <=> e \in leaked)
         /\ kernel'[d] = Free \/ (d \in leaked' /\ kernel'[d] = kernel[d])
         /\ d \in leaked' => kernel'[d] = kernel[d]
         /\ leaked' \subseteq leaked \cup {d}
    <2>1. CASE kernel' = [kernel EXCEPT ![d] = Free] /\ leaked' = leaked
      <3>1. kernel'[d] = Free /\ \A e \in Descriptor : e # d => kernel'[e] = kernel[e]
        BY <1>3, <2>1
      <3> HIDE DEF d, Sound, TypeOK
      <3>2. QED
        BY <1>3, <2>1, <3>1
    <2>2. CASE leaked' = leaked \cup {d} /\ kernel' = kernel
      BY <1>3, <2>2
    <2>3. QED
      BY <1>1, <2>1, <2>2
  <1>11. Bound'
    <2>1. ASSUME NEW g \in Http \ unbound, Socket[g] # -1
          PROVE  /\ Socket[g] # d /\ Socket[g] \in Descriptor
                 /\ kernel[Socket[g]].is \in {"bound", "listening"} /\ kernel[Socket[g]].of = g
      <3>1. Socket[g] \in Descriptor
        BY <2>1
      <3>2. kernel[Socket[g]].is \in {"bound", "listening"} /\ kernel[Socket[g]].of = g
        BY <1>2, <2>1 DEF Bound
      <3>3. QED
        BY <1>3, <3>1, <3>2
    <2>2. \A e \in Descriptor : kernel'[e].is \in {"bound", "listening"} => kernel'[e] = kernel[e]
      BY <1>3, <1>10 DEF Free
    <2>3. QED
      BY <1>2, <1>10, <2>1, <2>2 DEF Bound
  <1> HIDE DEF d, at, Sound, TypeOK
  <1>12. ASSUME NEW e \in Descriptor, kernel'[e].is = "connection"
         PROVE  e \in leaked' \/ \E g \in Http : \E i \in DOMAIN Sockets'[g] : Sockets'[g][i] = e
    <2>1. CASE e = d
      BY <1>10, <1>12, <2>1 DEF Free
    <2>2. CASE e # d
      <3>1. e \in leaked \/ \E g \in Http : \E i \in DOMAIN Sockets[g] : Sockets[g][i] = e
        BY <1>10, <1>12, <2>2 DEF Entered
      <3>2. ASSUME NEW g \in Http, NEW j \in DOMAIN Sockets[g], Sockets[g][j] = e
            PROVE  \E i \in DOMAIN Sockets'[g] : Sockets'[g][i] = e
        BY <1>8, <2>2, <3>2 DEF d
      <3>3. QED
        BY <1>10, <2>2, <3>1, <3>2
    <2>3. QED
      BY <2>1, <2>2
  <1>13. \A e \in leaked' : kernel'[e].is = "connection"
    <2>1. leaked \subseteq Descriptor
      BY DEF Sound, TypeOK
    <2>2. QED
      BY <1>3, <1>10, <2>1 DEF Entered
  <1>14. ASSUME NEW g \in Http, NEW i \in DOMAIN Sockets'[g]
         PROVE  /\ kernel'[Sockets'[g][i]].is = "connection" /\ Sockets'[g][i] \notin leaked'
                /\ g \notin unbound' => kernel'[Sockets'[g][i]].of = g
    BY <1>2, <1>7, <1>9, <1>10 DEF Entered
  <1>15. ASSUME NEW f \in Http, NEW g \in Http, NEW i \in DOMAIN Sockets'[f],
                NEW j \in DOMAIN Sockets'[g], Sockets'[f][i] = Sockets'[g][j]
         PROVE  f = g /\ i = j
    <2>1. f = g /\ at(f, i) = at(g, j)
      BY <1>7, <1>15 DEF Entered
    <2>2. i \in Nat /\ j \in Nat
      <3>1. Sockets'[f] \in Seq(Descriptor) /\ Sockets'[g] \in Seq(Descriptor)
        BY <1>4, <1>5 DEF Sound, TypeOK
      <3>2. QED
        BY <3>1
    <2>3. QED
      BY <1>6, <2>1, <2>2 DEF at
  <1>16. Entered'
    BY <1>12, <1>13, <1>14, <1>15 DEF Entered
  <1>17. QED
    BY <1>11, <1>16

(* The address loop of a server, from the first try to listen.             *)
LEMMA BindOwns ==
    ASSUME Sound, Bound, Entered, pc = "bind", NoSocket \/ BindFails \/ Bind \/ BindNone
    PROVE  Bound' /\ Entered'
  <1> USE DEF Sound, TypeOK, history
  <1>1. server \in Http \ unbound
    BY DEF Calls
  <1>2. \A d \in Descriptor : d # -1
    BY BoundAssumption DEF Descriptor
  <1>3. ASSUME NEW d \in Descriptor, kernel[d].is \in {"bound", "listening"}
        PROVE  /\ kernel[d].of \in Http \ unbound /\ Socket[kernel[d].of] = d
               /\ kernel[d].of # server
    BY <1>3 DEF Bound
  <1>4. CASE NoSocket
    <2>1. /\ Socket' = [Socket EXCEPT ![server] = -1]
          /\ UNCHANGED <<kernel, Sockets, leaked, unbound, pc, server>>
      BY <1>4 DEF NoSocket
    <2>2. Entered'
      BY <2>1 DEF Entered
    <2>3. Bound'
      BY <1>1, <1>3, <2>1 DEF Bound
    <2>4. QED
      BY <2>2, <2>3
  <1>5. CASE BindNone
    <2>1. /\ unbound' = unbound \cup {server}
          /\ UNCHANGED <<Socket, kernel, Sockets, leaked, server>>
      BY <1>5 DEF BindNone
    <2>2. Entered'
      BY <2>1 DEF Entered
    <2>3. pc' = "listen"
      BY <1>5 DEF BindNone
    <2>4. Bound'
      BY <1>1, <1>3, <2>1, <2>3 DEF Bound
    <2>5. QED
      BY <2>2, <2>4
  <1>6. CASE BindFails
    <2> DEFINE d == Min(FreeDescriptors)
    <2>1. d \in Descriptor /\ kernel[d] = Free
      BY <1>6, LowestIsFree DEF BindFails
    <2>2. /\ Socket' = [Socket EXCEPT ![server] = d]
          /\ UNCHANGED <<kernel, Sockets, leaked, unbound, pc, server>>
      BY <1>6 DEF BindFails, Refused
    <2> HIDE DEF d
    <2>3. Entered'
      BY <2>2 DEF Entered
    <2>4. Bound'
      BY <1>1, <1>3, <2>1, <2>2 DEF Bound
    <2>5. QED
      BY <2>3, <2>4
  <1>7. CASE Bind
    <2> DEFINE d == Min(FreeDescriptors)
    <2>1. d \in Descriptor /\ kernel[d] = Free
      BY <1>7, LowestIsFree DEF Bind
    <2>2. /\ Socket' = [Socket EXCEPT ![server] = d]
          /\ kernel' = [kernel EXCEPT ![d] = [is |-> "bound", of |-> server]]
          /\ pc' = "listen" /\ UNCHANGED <<Sockets, leaked, unbound>>
      BY <1>7 DEF Bind, Open
    <2> HIDE DEF d
    <2>3. /\ kernel'[d] = [is |-> "bound", of |-> server]
          /\ \A e \in Descriptor : e # d => kernel'[e] = kernel[e]
          /\ kernel[d].is = "free"
      BY <2>1, <2>2 DEF Free
    <2>4. Entered'
      BY <2>1, <2>2, <2>3 DEF Entered
    <2>5. \A g \in Http \ unbound : g # server /\ Socket[g] # -1 =>
              /\ Socket[g] # d /\ Socket[g] \in Descriptor
              /\ kernel[Socket[g]].is \in {"bound", "listening"} /\ kernel[Socket[g]].of = g
      <3> SUFFICES ASSUME NEW g \in Http \ unbound, g # server, Socket[g] # -1
                   PROVE  /\ Socket[g] # d /\ Socket[g] \in Descriptor
                          /\ kernel[Socket[g]].is \in {"bound", "listening"}
                          /\ kernel[Socket[g]].of = g
        OBVIOUS
      <3>1. Socket[g] \in Descriptor
        OBVIOUS
      <3>2. kernel[Socket[g]].is \in {"bound", "listening"} /\ kernel[Socket[g]].of = g
        BY DEF Bound
      <3>3. QED
        BY <2>3, <3>1, <3>2
    <2>6. Bound'
      BY <1>1, <1>3, <2>1, <2>2, <2>3, <2>5 DEF Bound
    <2>7. QED
      BY <2>4, <2>6
  <1>8. QED
    BY <1>4, <1>5, <1>6, <1>7

LEMMA ListenOwns ==
    ASSUME Sound, Bound, Entered, Listen
    PROVE  Bound' /\ Entered'
  <1> USE DEF Sound, TypeOK
  <1>1. /\ pc = "listen" /\ pc' = "client" /\ server \in Http
        /\ UNCHANGED <<Socket, Sockets, unbound, leaked>>
    BY DEF Listen, Return, Calls
  <1>2. CASE UNCHANGED kernel
    BY <1>1, <1>2, SameOwners
  <1>3. CASE server \notin unbound /\ Open(Socket[server], "listening", server)
    <2> DEFINE d == Socket[server]
    <2>1. d # -1 /\ d \in Descriptor
      BY <1>1, <1>3 DEF Calls
    <2>2. kernel[d].is \in {"bound", "listening"} /\ kernel[d].of = server
      BY <1>1, <1>3, <2>1 DEF Bound
    <2>3. /\ kernel'[d] = [is |-> "listening", of |-> server]
          /\ \A e \in Descriptor : e # d => kernel'[e] = kernel[e]
      BY <1>3, <2>1 DEF Open
    <2>4. d = Socket[server] /\ kernel[d].is # "connection"
      BY <2>2
    <2> HIDE DEF d
    <2>5. \A h \in Http : \A i \in DOMAIN Sockets[h] :
              Sockets[h][i] # d /\ Sockets[h][i] \in Descriptor
      BY <2>4 DEF Entered
    <2>6. \A e \in leaked : e # d /\ e \in Descriptor
      BY <2>4 DEF Entered
    <2>7. \A e \in Descriptor : kernel'[e].is = "connection" => e # d
      BY <2>3
    <2>8. \A e \in Descriptor : e # d => kernel'[e] = kernel[e]
      BY <2>3
    <2>9. \A g \in Http \ unbound : Socket[g] # -1 /\ g # server =>
              Socket[g] \in Descriptor /\ Socket[g] # d
      <3> SUFFICES ASSUME NEW g \in Http \ unbound, Socket[g] # -1, g # server
                   PROVE  Socket[g] \in Descriptor /\ Socket[g] # d
        OBVIOUS
      <3>1. Socket[g] \in Descriptor
        OBVIOUS
      <3>2. kernel[Socket[g]].of = g
        BY <1>1 DEF Bound
      <3>3. QED
        BY <2>2, <3>1, <3>2
    <2> HIDE DEF Sound, TypeOK
    <2>10. Entered'
      <3>1. ASSUME NEW e \in Descriptor, kernel'[e].is = "connection"
            PROVE  e \in leaked \/ \E h \in Http : \E i \in DOMAIN Sockets[h] : Sockets[h][i] = e
        BY <2>7, <2>8, <3>1 DEF Entered
      <3>2. \A e \in leaked : kernel'[e].is = "connection"
        BY <2>6, <2>8 DEF Entered
      <3>3. QED
        BY <1>1, <2>5, <2>8, <3>1, <3>2 DEF Entered
    <2>11. Bound'
      BY <1>1, <1>3, <2>1, <2>2, <2>3, <2>4, <2>9 DEF Bound
    <2>12. QED
      BY <2>10, <2>11
  <1>4. QED
    BY <1>2, <1>3 DEF Listen

LEMMA OwnedNext == ASSUME Sound, Owned, [Next]_vars PROVE Owned'
  <1>1. CASE UNCHANGED vars
    BY <1>1 DEF vars, call, history, Owned, Bound, Entered
  <1>2. CASE Next /\ ended' # "fault"
    <2> SUFFICES Bound' /\ Entered'
      BY DEF Owned
    <2>1. ended = "no" /\ Bound /\ Entered
      BY <1>2 DEF Next, Ready, create_http_server, create_http_client, connect_http_client,
         Accept, AcceptFails, Leave, destroy_http_server, NoSocket, BindFails, Bind, BindNone,
         Listen, ConnectFails, Connect, ConnectNone, Owned
    <2>2. ASSUME NEW h \in Http, create_http_server(h) PROVE Bound' /\ Entered'
      <3>1. Socket[h] = -1
        BY <2>2 DEF create_http_server, Sound, Lists
      <3>2. /\ pc = "client" /\ server' = h
            /\ UNCHANGED <<kernel, Sockets, leaked, Socket, unbound>>
        BY <2>2 DEF create_http_server, Ready, resolve_address, history
      <3>3. QED
        BY <2>1, <3>1, <3>2, SameOwners
    <2>3. ASSUME NEW h \in Http,
                 create_http_client(h) \/ connect_http_client(h) \/ AcceptFails(h)
          PROVE  Bound' /\ Entered'
      <3>1. /\ pc = "client" /\ pc' # "bind"
            /\ UNCHANGED <<kernel, Sockets, leaked, Socket, unbound>>
        BY <2>3 DEF create_http_client, connect_http_client, AcceptFails, Ready,
           resolve_address, history, call
      <3>2. QED
        BY <2>1, <3>1, SameOwners
    <2>4. ASSUME NEW h \in Http, Accept(h) PROVE Bound' /\ Entered'
      <3> DEFINE d == Min(FreeDescriptors)
      <3>1. d \in Descriptor /\ kernel[d] = Free
        BY <2>4, LowestIsFree DEF Accept
      <3>2. PICK s \in AcceptFrom(h) :
                /\ kernel' = [kernel EXCEPT ![d] = [is |-> "connection", of |-> kernel[s].of]]
                /\ Sockets' = [Sockets EXCEPT ![h] = Append(@, d)]
        BY <2>4 DEF Accept, Open
      <3>3. pc = "client" /\ UNCHANGED <<pc, Socket, leaked, unbound>>
        BY <2>4 DEF Accept, Ready, call, history
      <3>4. kernel[s].of \in Http /\ (h \notin unbound => kernel[s].of = h)
        <4>1. s \in Descriptor /\ s = Socket[h] /\ kernel[s].is = "listening"
          BY <3>2 DEF AcceptFrom
        <4>2. s # -1
          BY <4>1, BoundAssumption DEF Descriptor
        <4>3. kernel[s].of \in Http
          BY <2>1, <4>1 DEF Bound
        <4>4. QED
          BY <2>1, <3>3, <4>1, <4>2, <4>3 DEF Bound, Free
      <3> HIDE DEF d
      <3>5. QED
        BY <2>1, <3>1, <3>2, <3>3, <3>4, EnterOne
    <2>5. CASE Connect
      <3> DEFINE d == Min(FreeDescriptors)
      <3>1. d \in Descriptor /\ kernel[d] = Free
        BY <2>5, LowestIsFree DEF Connect
      <3>2. /\ pc = "connect" /\ pc' = "client" /\ UNCHANGED <<Socket, leaked, unbound>>
            /\ kernel' = [kernel EXCEPT ![d] = [is |-> "connection", of |-> server]]
            /\ Sockets' = IF Contains(Sockets[server], d) THEN Sockets
                          ELSE [Sockets EXCEPT ![server] = Append(@, d)]
        BY <2>5 DEF Connect, Open, Return
      <3> HIDE DEF d
      <3>3. server \in Http
        BY <3>2 DEF Sound, Calls
      <3>4. ~ Contains(Sockets[server], d)
        <4>1. \A i \in DOMAIN Sockets[server] : Sockets[server][i] # d
          BY <2>1, <3>1, <3>3 DEF Entered, Free
        <4>2. DOMAIN Sockets[server] = 1..Len(Sockets[server])
          BY <3>3 DEF Sound, TypeOK
        <4>3. QED
          BY <4>1, <4>2 DEF Contains
      <3>5. Sockets' = [Sockets EXCEPT ![server] = Append(@, d)]
        BY <3>2, <3>4
      <3>6. QED
        BY <2>1, <3>1, <3>2, <3>3, <3>5, EnterOne
    <2>6. ASSUME NEW h \in Http, destroy_http_server(h) PROVE Bound' /\ Entered'
      <3>1. Socket[h] = -1
        BY <1>2, <2>6 DEF destroy_http_server, Sound, Lists
      <3>2. kernel' = kernel
        BY <2>6, <3>1, BoundAssumption DEF destroy_http_server, Sound, TypeOK, Descriptor
      <3>3. pc = "client" /\ UNCHANGED <<pc, Sockets, leaked, Socket, unbound>>
        BY <2>6 DEF destroy_http_server, Ready, call, history
      <3>4. QED
        BY <2>1, <3>2, <3>3, SameOwners
    <2>7. CASE pc = "connect" /\ (NoSocket \/ ConnectFails \/ ConnectNone)
      <3>1. pc' # "bind" /\ UNCHANGED <<kernel, Sockets, leaked, Socket, unbound>>
        BY <2>7 DEF NoSocket, ConnectFails, Refused, ConnectNone, Return, history
      <3>2. QED
        BY <2>1, <2>7, <3>1, SameOwners
    <2>8. CASE pc = "bind" /\ (NoSocket \/ BindFails \/ Bind \/ BindNone)
      BY <2>1, <2>8, BindOwns
    <2>9. QED
      <3>1. NoSocket => pc \in {"bind", "connect"}
        BY DEF NoSocket
      <3>2. BindFails \/ Bind \/ BindNone => pc = "bind"
        BY DEF BindFails, Bind, BindNone
      <3>3. ConnectFails \/ ConnectNone => pc = "connect"
        BY DEF ConnectFails, ConnectNone
      <3>4. QED
        BY <1>2, <2>1, <2>2, <2>3, <2>4, <2>5, <2>6, <2>7, <2>8, <3>1, <3>2, <3>3,
           ListenOwns, LeaveOne DEF Next
  <1>3. CASE ended' = "fault"
    BY <1>3 DEF Owned
  <1>4. QED
    BY <1>1, <1>2, <1>3

-----------------------------------------------------------------------------
(* The theorems.                                                           *)

LEMMA AlwaysOwned == Spec => [](Sound /\ Owned)
  <1>1. Init => Sound /\ Owned
    BY SoundInit, OwnedInit DEF Owned
  <1>2. Sound /\ Owned /\ [Next]_vars => Sound' /\ Owned'
    BY SoundNext, OwnedNext
  <1>3. QED
    BY <1>1, <1>2, PTL DEF Spec

(* The state of the objects, the calls and the kernel is what HttpContext's*)
(* variables are said to hold, whatever fails.                             *)
THEOREM HttpTypeCorrect == Spec => []TypeOK
  <1>1. Sound => TypeOK
    BY DEF Sound
  <1>2. QED
    BY <1>1, AlwaysOwned, PTL

(* Only objects that ever had an address list end the process in a fault,  *)
(* when they are destroyed or when a release build's lookup fails for them.*)
THEOREM FaultAlwaysNeedsList == Spec => []FaultNeedsList
  <1>1. Sound => FaultNeedsList
    BY DEF Sound
  <1>2. QED
    BY <1>1, AlwaysOwned, PTL

(* The kernel's numbering, of which an object keeps stale numbers, never   *)
(* makes two objects the owners of one descriptor in use, or none.         *)
THEOREM DescriptorsAlwaysOwned == Spec => []DescriptorsOwned
  <1>1. Sound /\ Owned => DescriptorsOwned
    <2> SUFFICES ASSUME Sound, Bound, Entered PROVE ended # "fault" => DescriptorsOwned
      BY DEF Owned, DescriptorsOwned
    <2> USE DEF Sound, TypeOK
    <2>1. \A h \in Http : IsInjective(Sockets[h])
      BY DEF Entered, IsInjective
    <2>2. ASSUME NEW h \in Http, NEW d
          PROVE  d \in Held(h) <=>
                     \/ \E i \in DOMAIN Sockets[h] : Sockets[h][i] = d
                     \/ /\ d = Socket[h] /\ h \notin unbound
                        /\ d # -1 /\ kernel[d].of = h
      BY DEF Held, ToSet
    <2>3. ASSUME NEW h \in Http, h \notin unbound, Socket[h] # -1, kernel[Socket[h]].of = h
          PROVE  Socket[h] \in Descriptor /\ kernel[Socket[h]].is \in {"bound", "listening"}
      BY <2>3, HttpAssumption DEF Bound, Free
    <2>4. ASSUME NEW g \in Http, NEW h \in Http, g # h, NEW d \in Held(g), d \in Held(h)
          PROVE  FALSE
      <3> DEFINE entered(f) == \E i \in DOMAIN Sockets[f] : Sockets[f][i] = d
                 socket(f)  == d = Socket[f] /\ f \notin unbound /\ d # -1 /\ kernel[d].of = f
      <3>1. entered(g) /\ entered(h) => FALSE
        BY <2>4 DEF Entered
      <3>2. ASSUME NEW f \in Http
            PROVE  /\ entered(f) => kernel[d].is = "connection"
                   /\ socket(f) => kernel[d].is \in {"bound", "listening"} /\ kernel[d].of = f
        BY <2>3 DEF Entered
      <3>3. (entered(g) \/ socket(g)) /\ (entered(h) \/ socket(h))
        BY <2>2, <2>4
      <3> HIDE DEF entered, socket
      <3>4. QED
        BY <2>4, <3>1, <3>2, <3>3
    <2>5. ASSUME NEW d \in Descriptor, kernel[d] # Free
          PROVE  d \in leaked \/ \E h \in Http : d \in Held(h)
      <3>1. CASE kernel[d].is = "connection"
        BY <2>2, <3>1 DEF Entered
      <3>2. CASE kernel[d].is \in {"bound", "listening"}
        <4>1. kernel[d].of \in Http \ unbound /\ Socket[kernel[d].of] = d
          BY <3>2 DEF Bound
        <4>2. d # -1
          BY BoundAssumption DEF Descriptor
        <4>3. d \in Held(kernel[d].of)
          BY <2>2, <4>1, <4>2
        <4>4. QED
          BY <4>1, <4>3
      <3>3. QED
        BY <2>5, <3>1, <3>2 DEF KernelSocket
    <2>6. ASSUME NEW d, d \in leaked \/ \E h \in Http : d \in Held(h)
          PROVE  d \in Descriptor /\ kernel[d] # Free
      <3>1. CASE d \in leaked
        BY <3>1 DEF Entered, Free
      <3>2. ASSUME NEW h \in Http, d \in Held(h) PROVE d \in Descriptor /\ kernel[d] # Free
        <4>1. ASSUME NEW i \in DOMAIN Sockets[h], Sockets[h][i] = d
              PROVE  d \in Descriptor /\ kernel[d] # Free
          BY <4>1 DEF Entered, Free
        <4>2. CASE d = Socket[h] /\ h \notin unbound /\ d # -1 /\ kernel[d].of = h
          <5>1. d \in Descriptor /\ kernel[d].is \in {"bound", "listening"}
            BY <2>3, <4>2
          <5>2. QED
            BY <5>1 DEF Free
        <4>3. QED
          BY <2>2, <3>2, <4>1, <4>2
      <3>3. QED
        BY <2>6, <3>1, <3>2
    <2> HIDE DEF Sound, TypeOK
    <2>7. (UNION {Held(h) : h \in Http}) \cup leaked = Descriptor \ FreeDescriptors
      BY <2>5, <2>6 DEF FreeDescriptors
    <2>8. QED
      BY <2>1, <2>4, <2>7 DEF DescriptorsOwned
  <1>2. QED
    BY <1>1, AlwaysOwned, PTL

(* A server that could bind has only connections that were made to it or by*)
(* it in its table.                                                        *)
THEOREM AlwaysAcceptsOwn == Spec => []AcceptsOwn
  <1>1. Sound /\ Owned => AcceptsOwn
    BY DEF Owned, Entered, AcceptsOwn, ToSet
  <1>2. QED
    BY <1>1, AlwaysOwned, PTL
=============================================================================
