---------------------------- MODULE Application ----------------------------
(***************************************************************************)
(* The application loop of application.c over the registry of layer.c, and *)
(* the client code it calls back.  Everything runs on one thread: what     *)
(* interleaves is the library's loops with the calls the callbacks make    *)
(* back into the library, so the state holds the C call stack.             *)
(*                                                                         *)
(* A callback pointer that is NULL behaves as a callback that does nothing *)
(* and is not distinguished from one.  Undefined behaviour (a read through *)
(* a pointer into freed memory) sets fault and ends the run.               *)
(***************************************************************************)
EXTENDS LayerRegistry

CONSTANTS
    Rules,          \* the rules (below) the client never breaks
    Used,           \* the operations (below) it uses at all
    MaxBindings,    \* bound: bindings per layer
    MaxAttached,    \* bound: layers in the registry, with repetitions
    MaxDepth,       \* bound: frames below a client call
    MaxCalls        \* bound: calls the client makes from callbacks

ASSUME BoundAssumption == {MaxBindings, MaxAttached, MaxDepth, MaxCalls} \subseteq Nat

(* Ways to use the API that the library survives less well, by the name of *)
(* the rule that excludes them.                                            *)
Rule == {"bind_first",      \* a layer is bound to phases before it is added
         "bind_once",       \* and to a phase at most once
         "phases_first",    \* no phase callback makes a phase appear
         "add_once",        \* a layer is added only when it is not attached
         "quiet_teardown"}  \* OnDettach in teardown leaves the registry alone

Operation == {"add", "remove", "bind", "context", "event", "destroy", "stop"}

ASSUME RulesAssumption == Rules \subseteq Rule /\ Used \subseteq Operation

VARIABLES
    Layers, Capacity, Phase_Buckets, Phase_Capacity,    \* layer_registry
    Bindings, Bindings_Capacity, Destroy,               \* layer
    Block,      \* times realloc moved a layer's binding array
    Running, pc, i, j,      \* application, and where its thread is
    stack,      \* the calls in progress above run/destroy_application
    dangling,   \* run_application's Bucket points into a freed array
    freed,      \* layers destroy_layer_registry freed
    fault,      \* the kind of freed memory that was used, or "none"
    (* History: *)
    calls,      \* calls the client may still make
    misuse,     \* rules it broke
    live,       \* OnAttach calls less OnDettach calls, by layer
    contexts,   \* the context last bound to each phase
    pass        \* what the frame found bound, and the phase calls it made

registry == <<Layers, Capacity, Phase_Buckets, Phase_Capacity>>
layer    == <<Bindings, Bindings_Capacity, Destroy, Block>>
client   == <<calls, misuse, contexts>>
vars     == <<registry, layer, Running, pc, i, j, stack, dangling, freed, fault,
              client, live, pass>>

Callback == {"phase", "OnEvent", "OnAttach", "OnDettach", "teardown"}

(* A call in progress; i is a loop index, due and seen the layers a        *)
(* dispatch found attached and those it has called.                        *)
StackFrame == [fn: Callback \cup {"register", "dispatch"}, layer: Layer \cup {NULL},
               i: Nat \ {0}, due: SUBSET Layer, seen: SUBSET Layer]

Call(fn, l) == [fn |-> fn, layer |-> l, i |-> 1, due |-> {}, seen |-> {}]

Top == stack[Len(stack)]
In(fn) == fault = "none" /\ stack # << >> /\ Top.fn = fn
At(place) == fault = "none" /\ stack = << >> /\ pc = place
Push(frame) == stack' = Append(stack, frame)
Pop == stack' = Front(stack)
Fails(kind) == /\ fault' = kind
               /\ UNCHANGED <<registry, layer, Running, pc, i, j, stack, dangling,
                              freed, client, live, pass>>

(* A binding as the history sees it: where it is registered, not its memory. *)
BindingEntry == [Phase: Phase, Layer: Layer, Index: Nat]

TypeOK ==
    /\ Layers \in Seq(Layer) /\ Capacity \in Nat
    /\ Phase_Buckets \in Seq(PhaseBucket) /\ Phase_Capacity \in Nat
    /\ Bindings \in [Layer -> Seq(Phase)] /\ Bindings_Capacity \in [Layer -> Nat]
    /\ Destroy \in [Layer -> BOOLEAN] /\ Block \in [Layer -> Nat]
    /\ Running \in BOOLEAN
    /\ pc \in {"setup", "frame", "phases", "sweep", "stopped", "teardown", "done"}
    /\ i \in Nat \ {0} /\ j \in Nat \ {0}
    /\ stack \in Seq(StackFrame)
    /\ dangling \in BOOLEAN /\ freed \subseteq Layer
    /\ fault \in {"none", "bucket", "binding", "freed"}
    /\ calls \in Nat /\ misuse \subseteq Rule
    /\ live \in [Layer -> Int] /\ contexts \in [Phase -> Context \cup {NULL}]
    /\ pass \in [due: SUBSET BindingEntry, calls: Seq(BindingEntry)]

(* create_gaven_application, and layers fresh from calloc.                 *)
Init ==
    /\ Layers = << >> /\ Capacity = 0
    /\ Phase_Buckets = << >> /\ Phase_Capacity = 0
    /\ Bindings = [l \in Layer |-> << >>]
    /\ Bindings_Capacity = [l \in Layer |-> 0]
    /\ Destroy = [l \in Layer |-> FALSE] /\ Block = [l \in Layer |-> 0]
    /\ Running = TRUE /\ pc = "setup" /\ i = 1 /\ j = 1
    /\ stack = << >> /\ dangling = FALSE /\ freed = {} /\ fault = "none"
    /\ calls = MaxCalls /\ misuse = {}
    /\ live = [l \in Layer |-> 0] /\ contexts = [p \in Phase |-> NULL]
    /\ pass = [due |-> {}, calls |-> << >>]

-----------------------------------------------------------------------------
(* Client calls: from main before the run, and from any callback.          *)

Breaks(rule, condition) == IF condition THEN {rule} ELSE {}

(* The client is executing and may make a call that breaks these rules.    *)
(* Calls that only build up the setup are bounded by themselves.           *)
ClientCalls(op, broken, builds) ==
    LET spends == stack # << >> \/ ~builds
    IN  /\ fault = "none" /\ op \in Used
        /\ IF stack = << >> THEN pc = "setup" ELSE Top.fn \in Callback
        /\ broken \cap Rules = {}
        /\ spends => calls > 0
        /\ Len(stack) <= MaxDepth
        /\ calls' = IF spends THEN calls - 1 ELSE calls
        /\ misuse' = misuse \cup broken

Attached(l) == l \in ToSet(Layers)
Leaving(l) == \E n \in DOMAIN stack :
                 stack[n].layer = l /\ stack[n].fn \in {"OnDettach", "teardown"}
Phases == {Phase_Buckets[n].Phase : n \in DOMAIN Phase_Buckets}

(* run_application's Bucket survives the insertion of a bucket unless the  *)
(* array grows, and then only if realloc happens to leave it in place.     *)
MoveBuckets(inserts) ==
    \E moved \in BOOLEAN :
        /\ moved => inserts /\ pc = "phases" /\ Phase_Capacity <= Len(Phase_Buckets)
        /\ dangling' = (dangling \/ moved)

bind_layer_phase(l, p) ==
    /\ ClientCalls("bind", Breaks("bind_first", Attached(l) \/ Leaving(l))
                     \cup Breaks("bind_once", p \in ToSet(Bindings[l])), TRUE)
    /\ l \notin freed /\ Len(Bindings[l]) < MaxBindings
    /\ \E moved \in BOOLEAN :
        /\ moved => 0 < Bindings_Capacity[l] /\ Bindings_Capacity[l] <= Len(Bindings[l])
        /\ Block' = [Block EXCEPT ![l] = IF moved THEN @ + 1 ELSE @]
    /\ Bindings_Capacity' = [Bindings_Capacity EXCEPT ![l] = Grow(Len(Bindings[l]), @)]
    /\ Bindings' = [Bindings EXCEPT ![l] = Append(@, p)]
    /\ UNCHANGED <<registry, Destroy, Running, pc, i, j, stack, dangling, freed,
                   fault, contexts, live, pass>>

bind_phase_ctx(p, ctx) ==
    /\ ClientCalls("context", Breaks("phases_first", pc = "phases" /\ p \notin Phases), TRUE)
    /\ contexts' = [contexts EXCEPT ![p] = ctx]
    /\ \E k \in Slots(Phase_Buckets, p) :
        LET inserts == ~HasPhase(Phase_Buckets, k, p)
        IN  /\ Phase_Buckets' = set_phase_context(Phase_Buckets, k, p, ctx)
            /\ Phase_Capacity' = IF inserts THEN Grow(Len(Phase_Buckets), Phase_Capacity)
                                 ELSE Phase_Capacity
            /\ MoveBuckets(inserts)
    /\ UNCHANGED <<Layers, Capacity, layer, Running, pc, i, j, stack, freed, fault,
                   live, pass>>

add_layer(l) ==
    /\ ClientCalls("add", Breaks("phases_first", pc = "phases" /\ ~ToSet(Bindings[l]) \subseteq Phases)
                     \cup Breaks("add_once", Attached(l) \/ Leaving(l))
                     \cup Breaks("quiet_teardown", pc = "teardown"), TRUE)
    /\ l \notin freed /\ Len(Layers) < MaxAttached
    /\ Layers' = Append(Layers, l)
    /\ Capacity' = Grow(Len(Layers), Capacity)
    /\ Push(Call("register", l))
    /\ UNCHANGED <<Phase_Buckets, Phase_Capacity, layer, Running, pc, i, j, dangling,
                   freed, fault, contexts, live, pass>>

(* remove_layer up to and with its call of OnDettach; ReturnOnDettach is   *)
(* the rest.  (It does nothing to a layer that is not there.)  A dispatch  *)
(* in progress no longer owes its event to the layer, nor to the one that  *)
(* takes its place when the dispatch is past that place.                   *)
Detach(l) ==
    /\ \E k \in DOMAIN Layers :
        /\ Layers[k] = l /\ \A n \in 1..k - 1 : Layers[n] # l
        /\ Layers' = SwapRemove(Layers, k)
        /\ stack' = Append([n \in DOMAIN stack |->
                             [stack[n] EXCEPT !.due = @ \ ({l} \cup
                                IF k <= stack[n].i THEN {Last(Layers)} ELSE {})]],
                           Call("OnDettach", l))
    /\ live' = [live EXCEPT ![l] = @ - 1]
    /\ UNCHANGED <<Capacity, Phase_Buckets, Phase_Capacity, layer, Running, pc, i, j,
                   dangling, freed, fault, contexts, pass>>

remove_layer(l) ==
    /\ ClientCalls("remove", Breaks("quiet_teardown", pc = "teardown"), FALSE)
    /\ l \notin freed
    /\ Detach(l)

application_event_callback ==
    /\ ClientCalls("event", Breaks("quiet_teardown", pc = "teardown"), FALSE)
    /\ Push([Call("dispatch", NULL) EXCEPT !.due = ToSet(Layers)])
    /\ UNCHANGED <<registry, layer, Running, pc, i, j, dangling, freed, fault,
                   contexts, live, pass>>

(* The two fields of the API a client writes itself.                       *)
SetDestroy(l) ==
    /\ ClientCalls("destroy", {}, TRUE)
    /\ l \notin freed /\ ~Destroy[l]
    /\ Destroy' = [Destroy EXCEPT ![l] = TRUE]
    /\ UNCHANGED <<registry, Bindings, Bindings_Capacity, Block, Running, pc, i, j, stack,
                   dangling, freed, fault, contexts, live, pass>>

Stop ==
    /\ ClientCalls("stop", {}, TRUE)
    /\ Running /\ Running' = FALSE
    /\ UNCHANGED <<registry, layer, pc, i, j, stack, dangling, freed, fault, contexts,
                   live, pass>>

ClientCall ==
    \/ \E l \in Layer : add_layer(l) \/ remove_layer(l) \/ SetDestroy(l)
    \/ \E l \in Layer, p \in Phase : bind_layer_phase(l, p)
    \/ \E p \in Phase, ctx \in Context : bind_phase_ctx(p, ctx)
    \/ application_event_callback
    \/ Stop

-----------------------------------------------------------------------------
(* The library's own steps: add_layer after its client call.               *)

RegisterBinding ==
    /\ In("register") /\ Top.i <= Len(Bindings[Top.layer])
    /\ LET p == Bindings[Top.layer][Top.i]
           b == [Layer |-> Top.layer, Index |-> Top.i, Block |-> Block[Top.layer]]
       IN  \E k \in Slots(Phase_Buckets, p) :
            LET inserts == ~HasPhase(Phase_Buckets, k, p)
            IN  /\ Phase_Buckets' = register_binding(Phase_Buckets, k, p, b)
                /\ Phase_Capacity' = IF inserts THEN Grow(Len(Phase_Buckets), Phase_Capacity)
                                     ELSE Phase_Capacity
                /\ MoveBuckets(inserts)
    /\ stack' = [stack EXCEPT ![Len(stack)].i = @ + 1]
    /\ UNCHANGED <<Layers, Capacity, layer, Running, pc, i, j, freed, fault, client,
                   live, pass>>

CallOnAttach ==
    /\ In("register") /\ Top.i > Len(Bindings[Top.layer])
    /\ live' = [live EXCEPT ![Top.layer] = @ + 1]
    /\ stack' = [stack EXCEPT ![Len(stack)].fn = "OnAttach"]
    /\ UNCHANGED <<registry, layer, Running, pc, i, j, dangling, freed, fault, client,
                   pass>>

ReturnOnAttach ==
    /\ In("OnAttach") /\ Pop
    /\ UNCHANGED <<registry, layer, Running, pc, i, j, dangling, freed, fault, client,
                   live, pass>>

(* remove_layer after OnDettach: the layer's entries leave the buckets.    *)
(* The search compares Bindings[n]->Layer, so it reads every entry up to   *)
(* the layer's first.                                                      *)
Dangles(b) == b.Block # Block[b.Layer]
ReadsFreed(Bucket, l) ==
    \E n \in DOMAIN Bucket.Bindings :
        /\ Dangles(Bucket.Bindings[n])
        /\ \A m \in 1..n - 1 : Bucket.Bindings[m].Layer # l

Bucket == Phase_Buckets[i]
Entry(p, b) == [Phase |-> p, Layer |-> b.Layer, Index |-> b.Index]
Bound == UNION {{Entry(Phase_Buckets[n].Phase, b) : b \in ToSet(Phase_Buckets[n].Bindings)}
                  : n \in DOMAIN Phase_Buckets}

(* The binding that moves behind the index of the frame's loop when the    *)
(* layer's entry leaves the bucket it is in.                               *)
MovedBehind(l) ==
    IF pc = "phases" /\ \E n \in DOMAIN Bucket.Bindings : n <= j /\ Bucket.Bindings[n].Layer = l
    THEN {Entry(Bucket.Phase, Last(Bucket.Bindings))} ELSE {}

ReturnOnDettach ==
    /\ In("OnDettach")
    /\ IF \E n \in DOMAIN Phase_Buckets : ReadsFreed(Phase_Buckets[n], Top.layer)
       THEN Fails("binding")
       ELSE /\ Phase_Buckets' = [n \in DOMAIN Phase_Buckets |->
                                   remove_layer_phase_bucket(Phase_Buckets[n], Top.layer)]
            /\ pass' = [pass EXCEPT !.due = {e \in @ : e.Layer # Top.layer}
                                              \ MovedBehind(Top.layer)]
            /\ Pop
            /\ UNCHANGED <<Layers, Capacity, Phase_Capacity, layer, Running, pc, i, j,
                           dangling, freed, fault, client, live>>

-----------------------------------------------------------------------------
(* application_event_callback's loop.                                      *)

CallOnEvent ==
    /\ In("dispatch") /\ Top.i <= Len(Layers)
    /\ LET l == Layers[Top.i]
       IN  IF l \in freed THEN Fails("freed")
           ELSE /\ stack' = Append([stack EXCEPT ![Len(stack)].seen = @ \cup {l}],
                                   Call("OnEvent", l))
                /\ UNCHANGED <<registry, layer, Running, pc, i, j, dangling, freed, fault,
                               client, live, pass>>

ReturnOnEvent ==
    /\ In("OnEvent")
    /\ \E Handled \in BOOLEAN :
        stack' = IF Handled THEN Front(Front(stack))
                 ELSE [Front(stack) EXCEPT ![Len(stack) - 1].i = @ + 1]
    /\ UNCHANGED <<registry, layer, Running, pc, i, j, dangling, freed, fault, client,
                   live, pass>>

SlipEndDispatch ==                  \* i < Count - 1
    /\ In("dispatch") /\ Top.i >= Len(Layers) /\ Pop
    /\ UNCHANGED <<registry, layer, Running, pc, i, j, dangling, freed, fault, client,
                   live, pass>>

EndDispatch ==
    /\ In("dispatch") /\ Top.i > Len(Layers) /\ Pop
    /\ UNCHANGED <<registry, layer, Running, pc, i, j, dangling, freed, fault, client,
                   live, pass>>

-----------------------------------------------------------------------------
(* run_application: the thread is at the loop test, in the phases or in    *)
(* the sweep of the layers to destroy.                                     *)

Goto(place) == pc' = place /\ i' = 1 /\ j' = 1

RunApplication ==
    /\ At("setup") /\ Goto("frame")
    /\ UNCHANGED <<registry, layer, Running, stack, dangling, freed, fault, client, live,
                   pass>>

SlipBeginFrame ==                   \* while (1)
    /\ At("frame") /\ Goto("phases")
    /\ dangling' = FALSE
    /\ pass' = [due |-> Bound, calls |-> << >>]
    /\ UNCHANGED <<registry, layer, Running, stack, freed, fault, client, live>>

BeginFrame ==
    /\ At("frame") /\ Running /\ Goto("phases")
    /\ dangling' = FALSE
    /\ pass' = [due |-> Bound, calls |-> << >>]
    /\ UNCHANGED <<registry, layer, Running, stack, freed, fault, client, live>>

EndRun ==
    /\ At("frame") /\ ~Running /\ Goto("stopped")
    /\ UNCHANGED <<registry, layer, Running, stack, dangling, freed, fault, client, live,
                   pass>>

CallPhase ==
    /\ At("phases") /\ i <= Len(Phase_Buckets)
    /\ IF dangling THEN Fails("bucket")
       ELSE /\ j <= Len(Bucket.Bindings)
            /\ LET b == Bucket.Bindings[j]
               IN  IF Dangles(b) THEN Fails("binding")
                   ELSE /\ Push(Call("phase", b.Layer))
                        /\ pass' = [pass EXCEPT !.calls = Append(@, Entry(Bucket.Phase, b))]
                        /\ UNCHANGED <<registry, layer, Running, pc, i, j, dangling, freed,
                                       fault, client, live>>

ReturnPhase ==
    /\ In("phase") /\ Pop
    /\ j' = j + 1
    /\ UNCHANGED <<registry, layer, Running, pc, i, dangling, freed, fault, client, live,
                   pass>>

NextBucket ==
    /\ At("phases") /\ i <= Len(Phase_Buckets)
    /\ ~dangling /\ j > Len(Bucket.Bindings)
    /\ i' = i + 1 /\ j' = 1
    /\ UNCHANGED <<registry, layer, Running, pc, stack, dangling, freed, fault, client,
                   live, pass>>

EndPhases ==
    /\ At("phases") /\ i > Len(Phase_Buckets) /\ Goto("sweep")
    /\ pass' = [due |-> {}, calls |-> << >>]
    /\ UNCHANGED <<registry, layer, Running, stack, dangling, freed, fault, client, live>>

(* After a removal i-- and i++ leave the index where it is.                *)
Sweep ==
    /\ At("sweep") /\ i <= Len(Layers)
    /\ IF Destroy[Layers[i]] THEN Detach(Layers[i]) /\ UNCHANGED <<calls, misuse>>
       ELSE /\ i' = i + 1
            /\ UNCHANGED <<registry, layer, Running, pc, j, stack, dangling, freed, fault,
                           client, live, pass>>

SlipEndSweep ==                     \* i < Count - 1
    /\ At("sweep") /\ i >= Len(Layers) /\ Goto("frame")
    /\ UNCHANGED <<registry, layer, Running, stack, dangling, freed, fault, client, live,
                   pass>>

EndSweep ==
    /\ At("sweep") /\ i > Len(Layers) /\ Goto("frame")
    /\ UNCHANGED <<registry, layer, Running, stack, dangling, freed, fault, client, live,
                   pass>>

-----------------------------------------------------------------------------
(* destroy_application, with destroy_layer_registry inlined.               *)

DestroyApplication ==
    /\ At("setup") \/ At("stopped")
    /\ Goto("teardown")
    /\ UNCHANGED <<registry, layer, Running, stack, dangling, freed, fault, client, live,
                   pass>>

Teardown ==
    /\ At("teardown") /\ i <= Len(Layers)
    /\ LET l == Layers[i]
       IN  IF l \in freed THEN Fails("freed")
           ELSE /\ live' = [live EXCEPT ![l] = @ - 1]
                /\ Push(Call("teardown", l))
                /\ UNCHANGED <<registry, layer, Running, pc, i, j, dangling, freed, fault,
                               client, pass>>

ReturnTeardown ==
    /\ In("teardown") /\ Pop
    /\ freed' = freed \cup {Top.layer}
    /\ i' = i + 1
    /\ UNCHANGED <<registry, layer, Running, pc, j, dangling, fault, client, live, pass>>

SlipEndTeardown ==                  \* i < Count - 1
    /\ At("teardown") /\ i >= Len(Layers) /\ Goto("done")
    /\ UNCHANGED <<registry, layer, Running, stack, dangling, freed, fault, client, live,
                   pass>>

EndTeardown ==
    /\ At("teardown") /\ i > Len(Layers) /\ Goto("done")
    /\ UNCHANGED <<registry, layer, Running, stack, dangling, freed, fault, client, live,
                   pass>>

(* The process has ended, or all that follows is undefined.                *)
Ended == (pc = "done" \/ fault # "none") /\ UNCHANGED vars

Step ==
    \/ RegisterBinding \/ CallOnAttach \/ ReturnOnAttach \/ ReturnOnDettach
    \/ CallOnEvent \/ ReturnOnEvent \/ EndDispatch
    \/ RunApplication \/ BeginFrame \/ CallPhase \/ ReturnPhase \/ NextBucket
    \/ EndPhases \/ Sweep \/ EndSweep \/ EndRun
    \/ DestroyApplication \/ Teardown \/ ReturnTeardown \/ EndTeardown

Next == ClientCall \/ Step \/ Ended

Spec == Init /\ [][Next]_vars

(* The thread keeps running and every callback returns in the end.         *)
FairSpec == Spec /\ WF_vars(Step)

-----------------------------------------------------------------------------
(* Properties.                                                             *)

Keeps(rules) == rules \cap misuse = {}
Count(s, P(_)) == Cardinality({n \in DOMAIN s : P(s[n])})

(* Every frame but a dispatch runs for a layer, and an OnEvent handler has *)
(* the dispatch that called it right below.                                *)
WellFormed(s) ==
    \A n \in DOMAIN s :
        /\ s[n].fn # "dispatch" => s[n].layer \in Layer
        /\ s[n].fn = "OnEvent" => n > 1 /\ s[n - 1].fn = "dispatch"

StackShape == WellFormed(stack)

(* No array of the registry or of a layer is used past its capacity.       *)
NoOverrun ==
    /\ Len(Layers) <= Capacity
    /\ Len(Phase_Buckets) <= Phase_Capacity
    /\ \A n \in DOMAIN Phase_Buckets : Fits(Phase_Buckets[n])
    /\ \A l \in Layer : Len(Bindings[l]) <= Bindings_Capacity[l]

(* There is one bucket per phase, in ascending order, whatever order the   *)
(* layers and the contexts came in: the linear searches rely on it.        *)
PhasesSorted == Sorted(Phase_Buckets)

(* The buckets hold each binding of a layer once for every time the layer  *)
(* is attached, from its registration to the end of its remove_layer, also *)
(* when callbacks add and remove it in the middle of either.               *)
BucketsMatchRegistry ==
    Keeps({"bind_first", "bind_once"}) =>
    /\ \A n \in DOMAIN Phase_Buckets : \A b \in ToSet(Phase_Buckets[n].Bindings) :
        Bindings[b.Layer][b.Index] = Phase_Buckets[n].Phase
    /\ \A l \in Layer : \A k \in DOMAIN Bindings[l] :
        LET Mine(b)        == b.Layer = l /\ b.Index = k
            Same(m)        == m = l
            Removing(f)    == f.layer = l /\ f.fn = "OnDettach"
            Registering(f) == f.layer = l /\ f.fn = "register" /\ f.i <= k
        IN  \A n \in DOMAIN Phase_Buckets :
                Phase_Buckets[n].Phase = Bindings[l][k] =>
                    Count(Phase_Buckets[n].Bindings, Mine) + Count(stack, Registering)
                        = Count(Layers, Same) + Count(stack, Removing)

(* A phase callback gets the context last bound to its phase, and NULL     *)
(* when there is none: it stays with its phase as buckets are inserted.    *)
ContextFollowsPhase ==
    /\ \A n \in DOMAIN Phase_Buckets :
        Phase_Buckets[n].Phase_Context = contexts[Phase_Buckets[n].Phase]
    /\ \A p \in Phase : contexts[p] # NULL => p \in Phases

(* Freed memory is used only by a client that broke the rule guarding it:  *)
(* run_application's bucket pointer, the pointers to bindings, and the     *)
(* layers freed in teardown.                                               *)
MemorySafe ==
    /\ fault = "bucket"  => ~Keeps({"phases_first"})
    /\ fault = "binding" => ~Keeps({"bind_first", "bind_once"})
    /\ fault = "freed"   => ~Keeps({"add_once", "quiet_teardown"})

(* By the end every OnAttach has had its OnDettach and every layer that    *)
(* was attached at teardown has been freed.                                *)
TeardownDetachesAll ==
    pc = "done" /\ Keeps({"quiet_teardown"}) =>
        freed = ToSet(Layers) /\ \A l \in Layer : live[l] = 0

(* In one frame every binding found registered is called, exactly once     *)
(* unless its layer is bound or added twice, and phases come in ascending  *)
(* order.  Callbacks may add and remove layers: the only bindings missed   *)
(* are those of a removed layer and one that its removal moves behind the  *)
(* loop's index in the bucket being called.                                *)
FrameCallsEachBinding ==
    [][ At("phases") /\ pc' = "sweep" /\ Keeps({"phases_first"}) =>
        /\ \A e \in pass.due :
            LET IsE(c) == c = e
            IN  /\ e \in ToSet(pass.calls)
                /\ Keeps({"add_once", "bind_once"}) => Count(pass.calls, IsE) = 1
        /\ \A m, n \in DOMAIN pass.calls :
            m <= n => pass.calls[m].Phase <= pass.calls[n].Phase ]_vars

(* An event nobody handles reaches every layer that was attached when it   *)
(* was raised, though handlers raise events and add and remove layers: the *)
(* only layers missed are a removed one and the last one when the removal  *)
(* moves it to a place the dispatch has passed.                            *)
DispatchReachesAll ==
    [][ In("dispatch") /\ Len(stack') < Len(stack) => Top.due \subseteq Top.seen ]_vars

(* A phase callback runs only for a layer that is attached.                *)
DetachedNeverCalled ==
    [][ At("phases") /\ stack' # << >> /\ Keeps({"bind_once"})
            => Attached(stack'[1].layer) ]_vars

(* How far a layer is, by the callbacks that were called for it.           *)
StageOf(l) ==
    IF l \in freed THEN "freed"
    ELSE IF Leaving(l) THEN "detaching"
    ELSE IF live[l] = 1 THEN "attached" ELSE "detached"

(* The callbacks among the calls in progress, in their order.              *)
Callbacks(s) ==
    FlattenSeq([n \in DOMAIN s |->
        IF s[n].fn \in Callback THEN << [fn |-> s[n].fn, layer |-> s[n].layer] >> ELSE << >>])

Lifecycle == INSTANCE LayerLifecycle WITH
    stage     <- [l \in Layer |-> StageOf(l)],
    callbacks <- Callbacks(stack)

(* To a layer whose client keeps the rules, the application is what        *)
(* LayerLifecycle says, though callbacks of one layer add and remove the   *)
(* others and raise events in the middle of a frame, a dispatch, an        *)
(* OnAttach or an OnDettach.                                               *)
ImplementsLifecycle == Lifecycle!Spec

(* A layer marked Destroy leaves the registry while the loop runs.         *)
DestroyHonoured ==
    \A l \in Layer :
        pc \in {"frame", "phases", "sweep"} /\ Attached(l) /\ Destroy[l]
            ~> ~Attached(l) \/ ~Running \/ fault # "none"

(* After Running is cleared the run returns, and teardown comes to an end. *)
StopHonoured ==
    ~Running \/ pc = "teardown" ~> pc \in {"stopped", "done"} \/ fault # "none"
=============================================================================
