---------------------------- MODULE HttpContext ----------------------------
(***************************************************************************)
(* How http objects come and go (http.c 58-138, 182-224, 610-618), and the *)
(* descriptors and address lists they leave behind.  Several of them live  *)
(* in one process and share its descriptors, of which the kernel gives out *)
(* the lowest that is free: a number that one object has closed and kept   *)
(* is soon another's.                                                      *)
(*                                                                         *)
(* poll_http is here only as what it does to descriptors; ConnectionTable  *)
(* has the rest.  Freeing a list twice, or reading a freed one, ends the   *)
(* behaviour.                                                              *)
(***************************************************************************)
EXTENDS Integers, SequencesExt

CONSTANTS
    Http,           \* the http objects
    Builds,         \* a subset of {"debug", "release"}
    MaxDescriptor,  \* bound: descriptors are 0..MaxDescriptor
    MaxAddresses    \* bound: addresses in a list

ASSUME BuildAssumption == Builds \subseteq {"debug", "release"}
ASSUME BoundAssumption == MaxDescriptor \in Nat /\ MaxAddresses \in Nat

Descriptor == 0..MaxDescriptor
None == "none"

ASSUME HttpAssumption == None \notin Http

VARIABLES
    build,
    role,       \* what an http object was made as, or None
    destroyed,  \* those given to destroy_http_server
    Socket, Res,
    Sockets,    \* the Socket fields of Connections
    kernel,     \* what each descriptor is (external)
    pc, server, p,  \* the call in progress, its object, and the addresses left to it
    ended,      \* how the process has ended
    (* History: *)
    unbound,    \* servers with no address they could bind
    leaked,     \* descriptors of connections that poll_http dropped
    looked      \* objects that an address list was ever freed for

call    == <<pc, server, p>>
history == <<unbound, leaked, looked>>
vars    == <<build, role, destroyed, Socket, Res, Sockets, kernel, call, ended, history>>

(* A descriptor in use records the object whose socket, or whose listening *)
(* socket, it came from.                                                   *)
Free == [is |-> "free", of |-> None]
KernelSocket == [is: {"bound", "listening", "connection"}, of: Http] \cup {Free}

TypeOK ==
    /\ build \in Builds
    /\ role \in [Http -> {"server", "client", None}] /\ destroyed \subseteq Http
    /\ Socket \in [Http -> Descriptor \cup {-1}] /\ Res \in [Http -> {"NULL", "list", "freed"}]
    /\ Sockets \in [Http -> Seq(Descriptor)]
    /\ kernel \in [Descriptor -> KernelSocket]
    /\ pc \in {"client", "bind", "listen", "connect"} /\ server \in Http \cup {None}
    /\ p \in 0..MaxAddresses
    /\ ended \in {"no", "assertion", "fault", "stuck"}
    /\ unbound \subseteq Http /\ leaked \subseteq Descriptor /\ looked \subseteq Http

SlipNoList == "freed"               \* the pointer is not initialised

(* Res of an object that no address was looked up for yet.                 *)
NoList == "NULL"

Init ==
    /\ build \in Builds
    /\ role = [h \in Http |-> None] /\ destroyed = {}
    /\ Socket = [h \in Http |-> -1] /\ Res = [h \in Http |-> NoList]
    /\ Sockets = [h \in Http |-> << >>]
    /\ kernel = [d \in Descriptor |-> Free]
    /\ pc = "client" /\ server = None /\ p = 0 /\ ended = "no"
    /\ unbound = {} /\ leaked = {} /\ looked = {}

-----------------------------------------------------------------------------

FreeDescriptors == {d \in Descriptor : kernel[d] = Free}

Open(d, is, h) == kernel' = [kernel EXCEPT ![d] = [is |-> is, of |-> h]]

(* The client may call: no call is in progress, and the process is alive.  *)
Ready == pc = "client" /\ ended = "no"

(* resolve_address.  In a release build a failed lookup leaves Res as it   *)
(* was, and the caller goes on with that.                                  *)
resolve_address(h, next) ==
    /\ server' = h
    /\ \/ /\ pc' = next /\ p' \in 1..MaxAddresses
          /\ Res' = [Res EXCEPT ![h] = "list"] /\ UNCHANGED ended
       \/ /\ build = "debug" /\ ended' = "assertion" /\ UNCHANGED <<Res, pc, p>>
       \/ /\ build = "release" /\ p' = 0 /\ pc' = next /\ UNCHANGED Res
          /\ ended' = IF Res[h] = "freed" THEN "fault" ELSE ended

(* freeaddrinfo at the end of both calls: Res goes on pointing there.      *)
FreeList ==
    IF Res[server] = "list"
    THEN Res' = [Res EXCEPT ![server] = "freed"] /\ looked' = looked \cup {server}
    ELSE UNCHANGED <<Res, looked>>

Return == pc' = "client" /\ server' = None /\ p' = 0

-----------------------------------------------------------------------------
(* Servers.                                                                *)

create_http_server(h) ==
    /\ Ready /\ role[h] = None
    /\ role' = [role EXCEPT ![h] = "server"]
    /\ resolve_address(h, "bind")
    /\ UNCHANGED <<build, destroyed, Socket, Sockets, kernel, history>>

NoSocket ==
    /\ ended = "no" /\ pc \in {"bind", "connect"} /\ p > 0
    /\ p' = p - 1
    /\ Socket' = IF pc = "bind" THEN [Socket EXCEPT ![server] = -1] ELSE Socket
    /\ UNCHANGED <<build, role, destroyed, Res, Sockets, kernel, pc, server, ended, history>>

SlipRefused(d) ==                   \* close forgotten
    Open(d, "bound", server)

(* The socket an address was tried with is closed again.                   *)
Refused(d) == UNCHANGED kernel

BindFails ==
    /\ ended = "no" /\ pc = "bind" /\ p > 0 /\ FreeDescriptors # {}
    /\ LET d == Min(FreeDescriptors)
       IN  Refused(d) /\ Socket' = [Socket EXCEPT ![server] = d]
    /\ p' = p - 1
    /\ UNCHANGED <<build, role, destroyed, Res, Sockets, pc, server, ended, history>>

Bind ==
    /\ ended = "no" /\ pc = "bind" /\ p > 0 /\ FreeDescriptors # {}
    /\ LET d == Min(FreeDescriptors)
       IN  Open(d, "bound", server) /\ Socket' = [Socket EXCEPT ![server] = d]
    /\ pc' = "listen"
    /\ UNCHANGED <<build, role, destroyed, Res, Sockets, server, p, ended, history>>

(* The loop ends with no address bound.                                    *)
BindNone ==
    /\ ended = "no" /\ pc = "bind" /\ p = 0 /\ pc' = "listen"
    /\ unbound' = unbound \cup {server}
    /\ UNCHANGED <<build, role, destroyed, Socket, Res, Sockets, kernel, server, p, ended,
                   leaked, looked>>

(* listen may fail, of which nobody takes note, as when two servers were   *)
(* bound to one port with SO_REUSEADDR before either listened.             *)
Listen ==
    /\ ended = "no" /\ pc = "listen"
    /\ \/ server \notin unbound /\ Open(Socket[server], "listening", server)
       \/ UNCHANGED kernel
    /\ FreeList /\ Return
    /\ UNCHANGED <<build, role, destroyed, Socket, Sockets, ended, unbound, leaked>>

-----------------------------------------------------------------------------
(* Clients.                                                                *)

create_http_client(h) ==
    /\ Ready /\ role[h] = None
    /\ role' = [role EXCEPT ![h] = "client"]
    /\ UNCHANGED <<build, destroyed, Socket, Res, Sockets, kernel, call, ended, history>>

(* A server's handlers may connect too.                                    *)
connect_http_client(h) ==
    /\ Ready /\ role[h] # None /\ h \notin destroyed
    /\ resolve_address(h, "connect")
    /\ UNCHANGED <<build, role, destroyed, Socket, Sockets, kernel, history>>

(* connect fails at once.                                                  *)
ConnectFails ==
    /\ ended = "no" /\ pc = "connect" /\ p > 0 /\ FreeDescriptors # {}
    /\ Refused(Min(FreeDescriptors))
    /\ p' = p - 1
    /\ UNCHANGED <<build, role, destroyed, Socket, Res, Sockets, pc, server, ended, history>>

(* connect succeeds, or goes on, with this address.  A socket that is in   *)
(* the table already would be left open.                                   *)
Connect ==
    /\ ended = "no" /\ pc = "connect" /\ p > 0 /\ FreeDescriptors # {}
    /\ LET d == Min(FreeDescriptors)
       IN  /\ Open(d, "connection", server)
           /\ Sockets' = IF Contains(Sockets[server], d) THEN Sockets
                         ELSE [Sockets EXCEPT ![server] = Append(@, d)]
    /\ FreeList /\ Return
    /\ UNCHANGED <<build, role, destroyed, Socket, ended, unbound, leaked>>

SlipConnectNone ==                  \* an invalid socket is made a connection of
    /\ ended = "no" /\ pc = "connect" /\ p = 0
    /\ Sockets' = [Sockets EXCEPT ![server] = Append(@, -1)]
    /\ FreeList /\ Return
    /\ UNCHANGED <<build, role, destroyed, Socket, kernel, ended, unbound, leaked>>

(* The loop ends without a connection: NULL.                               *)
ConnectNone ==
    /\ ended = "no" /\ pc = "connect" /\ p = 0
    /\ FreeList /\ Return
    /\ UNCHANGED <<build, role, destroyed, Socket, Sockets, kernel, ended, unbound, leaked>>

-----------------------------------------------------------------------------
(* poll_http and destroy_http_server.                                      *)

SlipAcceptFrom(h) ==                \* poll_http accepts on any object's socket
    {d \in Descriptor : kernel[d].is = "listening"}

(* The descriptor poll_http accepts on, if it is what the number says.     *)
AcceptFrom(h) ==
    {d \in Descriptor : d = Socket[h] /\ kernel[d].is = "listening"}

Accept(h) ==
    /\ Ready /\ FreeDescriptors # {}
    /\ \E s \in AcceptFrom(h) : LET d == Min(FreeDescriptors)
       IN  /\ Open(d, "connection", kernel[s].of)
           /\ Sockets' = [Sockets EXCEPT ![h] = Append(@, d)]
    /\ UNCHANGED <<build, role, destroyed, Socket, Res, call, ended, history>>

(* Any other descriptor in Socket makes accept fail for ever.              *)
AcceptFails(h) ==
    /\ Ready /\ Socket[h] # -1 /\ kernel[Socket[h]].is # "listening"
    /\ ended' = "stuck"
    /\ UNCHANGED <<build, role, destroyed, Socket, Res, Sockets, kernel, call, history>>

(* A connection leaves the table: closed, if it failed to connect, and not *)
(* closed, if recv found its end.                                          *)
Leave(h) ==
    /\ Ready
    /\ \E k \in DOMAIN Sockets[h] : LET d == Sockets[h][k]
       IN  /\ Sockets' = [Sockets EXCEPT ![h] = RemoveAt(@, k)]
           /\ \/ kernel' = [kernel EXCEPT ![d] = Free] /\ UNCHANGED leaked
              \/ leaked' = leaked \cup {d} /\ UNCHANGED kernel
    /\ UNCHANGED <<build, role, destroyed, Socket, Res, call, ended, unbound, looked>>

(* Closes Socket, whatever it is by now, and frees the list once more; the *)
(* object, its connections and their descriptors stay.                     *)
destroy_http_server(h) ==
    /\ Ready /\ role[h] # None /\ h \notin destroyed
    /\ destroyed' = destroyed \cup {h}
    /\ kernel' = [d \in Descriptor |-> IF d = Socket[h] THEN Free ELSE kernel[d]]
    /\ ended' = IF Res[h] # "NULL" THEN "fault" ELSE ended
    /\ UNCHANGED <<build, role, Socket, Res, Sockets, call, history>>

Next ==
    \/ \E h \in Http :
        \/ create_http_server(h) \/ create_http_client(h) \/ connect_http_client(h)
        \/ Accept(h) \/ AcceptFails(h) \/ Leave(h) \/ destroy_http_server(h)
    \/ NoSocket \/ BindFails \/ Bind \/ BindNone \/ Listen
    \/ ConnectFails \/ Connect \/ ConnectNone

Spec == Init /\ [][Next]_vars

-----------------------------------------------------------------------------
(* Properties.                                                             *)

(* What an object has a right to: its connections, and its Socket, unless  *)
(* no bind succeeded for it and the number in Socket is a closed one.      *)
Held(h) ==
    ToSet(Sockets[h]) \cup
        IF Socket[h] = -1 \/ h \in unbound \/ kernel[Socket[h]].of # h THEN {} ELSE {Socket[h]}

(* However calls fail part of the way, and however numbers are used again, *)
(* every descriptor in use belongs to one object, or was leaked by a drop: *)
(* none is in two tables, or in one twice, so that check_for_connection    *)
(* never finds the socket that was just opened, and none is lost by an     *)
(* address that was tried in vain.                                         *)
DescriptorsOwned ==
    ended # "fault" =>
        /\ \A h \in Http : IsInjective(Sockets[h])
        /\ \A g, h \in Http : g # h => Held(g) \cap Held(h) = {}
        /\ (UNION {Held(h) : h \in Http}) \cup leaked = Descriptor \ FreeDescriptors

(* A server's table has only connections that were made to it, and its     *)
(* poll never waits for another kind of descriptor, except for a server    *)
(* that could bind nothing: that one takes another server's connections,   *)
(* once its stale number is that server's.                                 *)
AcceptsOwn ==
    ended # "fault" => \A h \in Http \ unbound : \A d \in ToSet(Sockets[h]) : kernel[d].of = h

(* A process gets a fault from an address list only by destroying an      *)
(* object that once had one, or in a release build by a lookup that fails  *)
(* for such an object.  What else the calls do is safe, in any order and   *)
(* whatever fails: to destroy an object that no lookup ever succeeded for, *)
(* and in a debug build to connect again and again.                        *)
FaultNeedsList ==
    ended = "fault" => \E h \in looked : h \in destroyed \/ (build = "release" /\ server = h)
=============================================================================
