------------------------- MODULE ApplicationProofs -------------------------
(***************************************************************************)
(* For any layers, phases and contexts and any bounds on the client's      *)
(* calls: the types of Application and the shape of its call stack, the    *)
(* order of the phase buckets, their contexts, and the arrays' capacities; *)
(* that the buckets hold what the registry says and that what is in them   *)
(* may be followed; that dispatch and teardown leave no layer out.         *)
(*                                                                         *)
(* The invariants are built up in three stages, each of which the next     *)
(* takes for granted: Typed and Dispatches (the call stack), Torn (layers  *)
(* attached and freed), Registered (the buckets and their pointers).       *)
(***************************************************************************)
EXTENDS Application, LayerRegistryProofs

-----------------------------------------------------------------------------
(* The call stack.                                                         *)

(* A call of a function of the model's on behalf of a layer.               *)
LEMMA CallIsFrame ==
    ASSUME NEW fn \in Callback \cup {"register", "dispatch"},
           NEW l \in Layer \cup {NULL}
    PROVE  /\ Call(fn, l) \in StackFrame
           /\ Call(fn, l).fn = fn /\ Call(fn, l).layer = l
    BY DEF Call, StackFrame

(* The call of one more function, if it is well-formed, keeps the stack so. *)
LEMMA PushKeepsStack ==
    ASSUME NEW s \in Seq(StackFrame), WellFormed(s), NEW f \in StackFrame,
           f.fn # "dispatch" => f.layer \in Layer,
           f.fn = "OnEvent" => s # << >> /\ s[Len(s)].fn = "dispatch"
    PROVE  Append(s, f) \in Seq(StackFrame) /\ WellFormed(Append(s, f))
  <1> DEFINE t == Append(s, f)
  <1>1. Len(s) \in Nat /\ DOMAIN s = 1..Len(s) /\ (s # << >> => Len(s) > 0)
    OBVIOUS
  <1>2. /\ t \in Seq(StackFrame) /\ DOMAIN t = 1..Len(s) + 1
        /\ \A n \in 1..Len(s) : t[n] = s[n]
        /\ t[Len(s) + 1] = f
    BY <1>1
  <1> HIDE DEF t
  <1>3. ASSUME NEW n \in 1..Len(s) + 1
        PROVE  /\ t[n].fn # "dispatch" => t[n].layer \in Layer
               /\ t[n].fn = "OnEvent" => n > 1 /\ t[n - 1].fn = "dispatch"
    <2>1. CASE n \in 1..Len(s)
      <3>1. t[n] = s[n] /\ (n > 1 => t[n - 1] = s[n - 1])
        BY <1>1, <1>2, <2>1
      <3>2. QED
        BY <1>1, <2>1, <3>1 DEF WellFormed
    <2>2. CASE n = Len(s) + 1
      <3>1. t[n] = f
        BY <1>2, <2>2
      <3>2. s # << >> => n > 1 /\ t[n - 1] = s[Len(s)]
        BY <1>1, <1>2, <2>2
      <3>3. QED
        BY <3>1, <3>2
    <2>3. QED
      BY <1>1, <1>3, <2>1, <2>2
  <1>4. WellFormed(t)
    BY <1>2, <1>3 DEF WellFormed
  <1>5. QED
    BY <1>2, <1>4 DEF t

(* The return from the innermost call.                                     *)
LEMMA PopKeepsStack ==
    ASSUME NEW s \in Seq(StackFrame), WellFormed(s), s # << >>
    PROVE  Front(s) \in Seq(StackFrame) /\ WellFormed(Front(s))
  <1> DEFINE t == Front(s)
  <1>1. Len(s) \in Nat \ {0} /\ DOMAIN s = 1..Len(s)
    OBVIOUS
  <1>2. /\ t \in Seq(StackFrame) /\ Len(t) = Len(s) - 1
        /\ \A n \in 1..Len(s) - 1 : t[n] = s[n]
    BY FrontIsShorter
  <1> HIDE DEF t
  <1>3. DOMAIN t = 1..Len(s) - 1
    BY <1>1, <1>2
  <1>4. ASSUME NEW n \in 1..Len(s) - 1
        PROVE  /\ t[n].fn # "dispatch" => t[n].layer \in Layer
               /\ t[n].fn = "OnEvent" => n > 1 /\ t[n - 1].fn = "dispatch"
    <2>1. t[n] = s[n] /\ n \in DOMAIN s /\ (n > 1 => t[n - 1] = s[n - 1])
      BY <1>1, <1>2
    <2>2. QED
      BY <2>1 DEF WellFormed
  <1>5. QED
    BY <1>2, <1>3, <1>4 DEF WellFormed, t

(* Frames may change but for what they call and for whom.                  *)
LEMMA TouchKeepsStack ==
    ASSUME NEW s \in Seq(StackFrame), WellFormed(s), NEW t \in Seq(StackFrame),
           Len(t) = Len(s),
           \A n \in DOMAIN s : t[n].fn = s[n].fn /\ t[n].layer = s[n].layer
    PROVE  WellFormed(t)
  <1>1. Len(s) \in Nat /\ DOMAIN s = 1..Len(s) /\ DOMAIN t = DOMAIN s
    OBVIOUS
  <1>2. ASSUME NEW n \in 1..Len(s), n > 1
        PROVE  n - 1 \in 1..Len(s)
    BY <1>1, <1>2
  <1>3. QED
    BY <1>1, <1>2 DEF WellFormed

(* What a guard on the top of the stack says.                              *)
LEMMA TopOfStack ==
    ASSUME TypeOK, StackShape, NEW fn, In(fn)
    PROVE  /\ stack # << >> /\ Len(stack) \in DOMAIN stack /\ Top \in StackFrame
           /\ Top.fn = fn
           /\ fn # "dispatch" => Top.layer \in Layer
           /\ fn = "OnEvent" => Len(stack) > 1 /\ stack[Len(stack) - 1].fn = "dispatch"
  <1>1. stack \in Seq(StackFrame) /\ stack # << >> /\ Top.fn = fn
    BY DEF TypeOK, In
  <1>2. Len(stack) \in DOMAIN stack /\ Top \in StackFrame
    BY <1>1 DEF Top
  <1>3. QED
    BY <1>1, <1>2 DEF StackShape, WellFormed, Top

(* What every call the client makes has in common.                         *)
LEMMA ClientCallsType ==
    ASSUME TypeOK, NEW op, NEW broken \in SUBSET Rule, NEW builds \in BOOLEAN,
           ClientCalls(op, broken, builds)
    PROVE  /\ calls' \in Nat /\ misuse' \subseteq Rule
           /\ fault = "none" /\ op \in Used
    BY DEF TypeOK, ClientCalls
-----------------------------------------------------------------------------
(* The inductive invariant.                                                *)

Typed == TypeOK /\ StackShape

(* The application starts with empty arrays and no call in progress.       *)
LEMMA TypedInit == Init => Typed
  <1>1. SUFFICES ASSUME Init PROVE Typed
    OBVIOUS
  <1>2. << >> \in Seq(Layer) /\ << >> \in Seq(PhaseBucket) /\ << >> \in Seq(Phase)
        /\ << >> \in Seq(StackFrame) /\ << >> \in Seq(BindingEntry)
    OBVIOUS
  <1>3. Layers \in Seq(Layer) /\ Phase_Buckets \in Seq(PhaseBucket)
        /\ stack \in Seq(StackFrame)
    BY <1>1, <1>2 DEF Init
  <1>4. Bindings \in [Layer -> Seq(Phase)] /\ Bindings_Capacity \in [Layer -> Nat]
        /\ Destroy \in [Layer -> BOOLEAN] /\ Block \in [Layer -> Nat]
    BY <1>1, <1>2 DEF Init
  <1>5. live \in [Layer -> Int] /\ contexts \in [Phase -> Context \cup {NULL}]
    BY <1>1 DEF Init
  <1>6. pass \in [due: SUBSET BindingEntry, calls: Seq(BindingEntry)]
    BY <1>1, <1>2 DEF Init
  <1>7. calls \in Nat /\ misuse \subseteq Rule
    BY <1>1, BoundAssumption DEF Init
  <1>8. Capacity \in Nat /\ Phase_Capacity \in Nat /\ i \in Nat \ {0} /\ j \in Nat \ {0}
    BY <1>1 DEF Init
  <1>9. /\ pc \in {"setup", "frame", "phases", "sweep", "stopped", "teardown", "done"}
        /\ Running \in BOOLEAN /\ dangling \in BOOLEAN /\ freed \subseteq Layer
        /\ fault \in {"none", "bucket", "binding", "freed"}
    BY <1>1 DEF Init
  <1>10. TypeOK
    BY <1>3, <1>4, <1>5, <1>6, <1>7, <1>8, <1>9 DEF TypeOK
  <1>11. StackShape
    BY <1>1 DEF Init, StackShape, WellFormed
  <1>12. QED
    BY <1>10, <1>11 DEF Typed

(* Removing a layer, by the client or by the sweep of run_application.     *)
LEMMA DetachTyped ==
    ASSUME Typed, NEW l \in Layer, Detach(l), fault' = fault, Running' = Running,
           calls' \in Nat, misuse' \subseteq Rule
    PROVE  Typed'
  <1>1. TypeOK /\ StackShape
    BY DEF Typed
  <1>2. PICK k \in DOMAIN Layers :
            /\ Layers' = SwapRemove(Layers, k)
            /\ stack' = Append([n \in DOMAIN stack |->
                             [stack[n] EXCEPT !.due = @ \ ({l} \cup
                                IF k <= stack[n].i THEN {Last(Layers)} ELSE {})]],
                           Call("OnDettach", l))
    BY DEF Detach
  <1>3. Layers \in Seq(Layer) /\ stack \in Seq(StackFrame)
    BY <1>1 DEF TypeOK
  <1>4. Layers' \in Seq(Layer)
    BY <1>2, <1>3, SwapRemoveShrinks
  <1> DEFINE Due(n) == stack[n].due \ ({l} \cup
                          IF k <= stack[n].i THEN {Last(Layers)} ELSE {})
             t == [n \in DOMAIN stack |-> [stack[n] EXCEPT !.due = Due(n)]]
  <1>5. stack' = Append(t, Call("OnDettach", l))
    BY <1>2
  <1>6. ASSUME NEW n \in DOMAIN stack
        PROVE  t[n] \in StackFrame /\ t[n].fn = stack[n].fn /\ t[n].layer = stack[n].layer
    <2>1. stack[n] \in StackFrame
      BY <1>3
    <2>2. Due(n) \in SUBSET Layer
      BY <2>1 DEF StackFrame
    <2> HIDE DEF Due
    <2>3. t[n] = [stack[n] EXCEPT !.due = Due(n)]
      OBVIOUS
    <2>4. QED
      BY <2>1, <2>2, <2>3 DEF StackFrame
  <1>7. DOMAIN t = DOMAIN stack
    OBVIOUS
  <1> HIDE DEF Due
  <1>8. t = [n \in DOMAIN stack |-> t[n]]
    OBVIOUS
  <1> HIDE DEF t
  <1>9. Len(stack) \in Nat /\ DOMAIN stack = 1..Len(stack)
    BY <1>3
  <1>10. t \in Seq(StackFrame) /\ Len(t) = Len(stack)
    BY <1>6, <1>7, <1>8, <1>9
  <1>11. WellFormed(t)
    BY <1>1, <1>3, <1>6, <1>10, TouchKeepsStack DEF StackShape
  <1>12. stack' \in Seq(StackFrame) /\ WellFormed(stack')
    BY <1>5, <1>10, <1>11, CallIsFrame, PushKeepsStack DEF Callback
  <1>13. live' \in [Layer -> Int]
    <2>1. live \in [Layer -> Int]
      BY <1>1 DEF TypeOK
    <2>2. live' = [live EXCEPT ![l] = @ - 1]
      BY DEF Detach
    <2>3. QED
      BY <2>1, <2>2
  <1>14. UNCHANGED <<Capacity, Phase_Buckets, Phase_Capacity, layer, pc, i, j, dangling,
                     freed, contexts, pass>>
    BY DEF Detach
  <1>15. TypeOK'
    BY <1>1, <1>4, <1>12, <1>13, <1>14 DEF TypeOK, layer
  <1>16. QED
    BY <1>12, <1>15 DEF StackShape, Typed

(* add_layer up to its loop.                                               *)
LEMMA AddTyped == ASSUME Typed, NEW l \in Layer, add_layer(l) PROVE Typed'
  <1>1. TypeOK /\ StackShape
    BY DEF Typed
  <1>2. calls' \in Nat /\ misuse' \subseteq Rule
    BY <1>1, ClientCallsType DEF add_layer, Breaks, Rule
  <1>3. Layers \in Seq(Layer) /\ Capacity \in Nat /\ stack \in Seq(StackFrame)
    BY <1>1 DEF TypeOK
  <1>4. Layers' = Append(Layers, l) /\ Capacity' = Grow(Len(Layers), Capacity)
        /\ stack' = Append(stack, Call("register", l))
        /\ UNCHANGED <<Phase_Buckets, Phase_Capacity, layer, Running, pc, i, j, dangling,
                       freed, fault, contexts, live, pass>>
    BY DEF add_layer, Push
  <1>5. Layers' \in Seq(Layer) /\ Capacity' \in Nat
    <2>1. Len(Layers) \in Nat /\ Append(Layers, l) \in Seq(Layer)
      BY <1>3
    <2>2. Grow(Len(Layers), Capacity) \in Nat
      BY <1>3, <2>1, GrowMakesRoom
    <2>3. QED
      BY <1>4, <2>1, <2>2
  <1>6. stack' \in Seq(StackFrame) /\ WellFormed(stack')
    <2>1. Call("register", l) \in StackFrame /\ Call("register", l).fn = "register"
          /\ Call("register", l).layer = l
      BY CallIsFrame
    <2>2. QED
      BY <1>1, <1>3, <1>4, <2>1, PushKeepsStack DEF StackShape
  <1>7. TypeOK'
    BY <1>1, <1>2, <1>4, <1>5, <1>6 DEF TypeOK, layer
  <1>8. QED
    BY <1>6, <1>7 DEF StackShape, Typed

(* bind_layer_phase grows one layer's array.                               *)
LEMMA BindTyped ==
    ASSUME Typed, NEW l \in Layer, NEW p \in Phase, bind_layer_phase(l, p)
    PROVE  Typed'
  <1>1. TypeOK /\ StackShape
    BY DEF Typed
  <1>2. calls' \in Nat /\ misuse' \subseteq Rule
    BY <1>1, ClientCallsType DEF bind_layer_phase, Breaks, Rule
  <1>3. Bindings \in [Layer -> Seq(Phase)] /\ Bindings_Capacity \in [Layer -> Nat]
        /\ Block \in [Layer -> Nat]
    BY <1>1 DEF TypeOK
  <1>4. Bindings_Capacity' = [Bindings_Capacity EXCEPT ![l] = Grow(Len(Bindings[l]), @)]
        /\ Bindings' = [Bindings EXCEPT ![l] = Append(@, p)]
        /\ UNCHANGED <<registry, Destroy, Running, pc, i, j, stack, dangling, freed,
                       fault, contexts, live, pass>>
    BY DEF bind_layer_phase
  <1>5. \E moved \in BOOLEAN : Block' = [Block EXCEPT ![l] = IF moved THEN @ + 1 ELSE @]
    BY DEF bind_layer_phase
  <1>6. Bindings[l] \in Seq(Phase) /\ Len(Bindings[l]) \in Nat /\ Bindings_Capacity[l] \in Nat
    BY <1>3
  <1>7. Grow(Len(Bindings[l]), Bindings_Capacity[l]) \in Nat
    BY <1>6, GrowMakesRoom
  <1>8. Bindings_Capacity' \in [Layer -> Nat]
    BY <1>3, <1>4, <1>7
  <1>9. Bindings' \in [Layer -> Seq(Phase)]
    <2>1. Append(Bindings[l], p) \in Seq(Phase)
      BY <1>6
    <2>2. QED
      BY <1>3, <1>4, <2>1
  <1>10. Block' \in [Layer -> Nat]
    BY <1>3, <1>5
  <1>11. TypeOK'
    BY <1>1, <1>2, <1>4, <1>8, <1>9, <1>10 DEF TypeOK, registry
  <1>12. QED
    BY <1>1, <1>4, <1>11 DEF StackShape, Typed

(* bind_phase_ctx may insert a bucket.                                     *)
LEMMA ContextTyped ==
    ASSUME Typed, NEW p \in Phase, NEW ctx \in Context, bind_phase_ctx(p, ctx)
    PROVE  Typed'
  <1>1. TypeOK /\ StackShape
    BY DEF Typed
  <1>2. calls' \in Nat /\ misuse' \subseteq Rule
    BY <1>1, ClientCallsType DEF bind_phase_ctx, Breaks, Rule
  <1>3. Phase_Buckets \in Seq(PhaseBucket) /\ Phase_Capacity \in Nat
        /\ contexts \in [Phase -> Context \cup {NULL}] /\ dangling \in BOOLEAN
    BY <1>1 DEF TypeOK
  <1>4. PICK k \in Slots(Phase_Buckets, p) :
            /\ Phase_Buckets' = set_phase_context(Phase_Buckets, k, p, ctx)
            /\ Phase_Capacity' \in {Grow(Len(Phase_Buckets), Phase_Capacity), Phase_Capacity}
            /\ \E inserts \in BOOLEAN : MoveBuckets(inserts)
    BY DEF bind_phase_ctx, HasPhase
  <1>5. contexts' = [contexts EXCEPT ![p] = ctx]
        /\ UNCHANGED <<Layers, Capacity, layer, Running, pc, i, j, stack, freed, fault,
                       live, pass>>
    BY DEF bind_phase_ctx
  <1>6. Phase_Buckets' \in Seq(PhaseBucket)
    BY <1>3, <1>4, ContextKeepsBuckets
  <1>7. Phase_Capacity' \in Nat
    <2>1. Len(Phase_Buckets) \in Nat
      BY <1>3
    <2>2. QED
      BY <1>3, <1>4, <2>1, GrowMakesRoom
  <1>8. dangling' \in BOOLEAN
    BY <1>4 DEF MoveBuckets
  <1>9. contexts' \in [Phase -> Context \cup {NULL}]
    BY <1>3, <1>5
  <1>10. TypeOK'
    BY <1>1, <1>2, <1>5, <1>6, <1>7, <1>8, <1>9 DEF TypeOK, layer
  <1>11. QED
    BY <1>1, <1>5, <1>10 DEF StackShape, Typed

(* An event is raised.                                                     *)
LEMMA EventTyped == ASSUME Typed, application_event_callback PROVE Typed'
  <1>1. TypeOK /\ StackShape
    BY DEF Typed
  <1>2. calls' \in Nat /\ misuse' \subseteq Rule
    BY <1>1, ClientCallsType DEF application_event_callback, Breaks, Rule
  <1>3. Layers \in Seq(Layer) /\ stack \in Seq(StackFrame)
    BY <1>1 DEF TypeOK
  <1> DEFINE f == [Call("dispatch", NULL) EXCEPT !.due = ToSet(Layers)]
  <1>4. f \in StackFrame /\ f.fn = "dispatch"
    <2>1. Call("dispatch", NULL) \in StackFrame /\ Call("dispatch", NULL).fn = "dispatch"
      BY CallIsFrame
    <2>2. ToSet(Layers) \in SUBSET Layer
      BY <1>3 DEF ToSet
    <2>3. QED
      BY <2>1, <2>2 DEF StackFrame
  <1>5. stack' = Append(stack, f)
        /\ UNCHANGED <<registry, layer, Running, pc, i, j, dangling, freed, fault,
                       contexts, live, pass>>
    BY DEF application_event_callback, Push
  <1> HIDE DEF f
  <1>6. stack' \in Seq(StackFrame) /\ WellFormed(stack')
    BY <1>1, <1>3, <1>4, <1>5, PushKeepsStack DEF StackShape
  <1>7. TypeOK'
    BY <1>1, <1>2, <1>5, <1>6 DEF TypeOK, registry, layer
  <1>8. QED
    BY <1>6, <1>7 DEF StackShape, Typed

(* Everything the client may call.                                         *)
LEMMA ClientCallTyped == Typed /\ ClientCall => Typed'
  <1> SUFFICES ASSUME Typed, ClientCall PROVE Typed'
    OBVIOUS
  <1>1. TypeOK /\ StackShape
    BY DEF Typed
  <1>2. ASSUME NEW l \in Layer, remove_layer(l) PROVE Typed'
    <2>1. calls' \in Nat /\ misuse' \subseteq Rule
      BY <1>1, <1>2, ClientCallsType DEF remove_layer, Breaks, Rule
    <2>2. Detach(l) /\ fault' = fault /\ Running' = Running
      BY <1>2 DEF remove_layer, Detach
    <2>3. QED
      BY <2>1, <2>2, DetachTyped
  <1>3. ASSUME NEW l \in Layer, SetDestroy(l) PROVE Typed'
    <2>1. calls' \in Nat /\ misuse' \subseteq Rule
      BY <1>1, <1>3, ClientCallsType DEF SetDestroy
    <2>2. Destroy' \in [Layer -> BOOLEAN]
      BY <1>1, <1>3 DEF SetDestroy, TypeOK
    <2>3. TypeOK'
      BY <1>1, <1>3, <2>1, <2>2 DEF SetDestroy, TypeOK, registry
    <2>4. QED
      BY <1>1, <1>3, <2>3 DEF SetDestroy, StackShape, Typed
  <1>4. ASSUME Stop PROVE Typed'
    <2>1. calls' \in Nat /\ misuse' \subseteq Rule
      BY <1>1, <1>4, ClientCallsType DEF Stop
    <2>2. TypeOK'
      BY <1>1, <1>4, <2>1 DEF Stop, TypeOK, registry, layer
    <2>3. QED
      BY <1>1, <1>4, <2>2 DEF Stop, StackShape, Typed
  <1>5. QED
    BY <1>2, <1>3, <1>4, AddTyped, BindTyped, ContextTyped, EventTyped DEF ClientCall
-----------------------------------------------------------------------------
(* The library's own steps.                                                *)

(* A frame of the stack is replaced by one that calls the same function    *)
(* for the same layer.                                                     *)
LEMMA ReplaceKeepsStack ==
    ASSUME NEW s \in Seq(StackFrame), WellFormed(s), NEW n \in DOMAIN s,
           NEW f \in StackFrame, f.fn = s[n].fn, f.layer = s[n].layer
    PROVE  [s EXCEPT ![n] = f] \in Seq(StackFrame) /\ WellFormed([s EXCEPT ![n] = f])
  <1> DEFINE t == [s EXCEPT ![n] = f]
  <1>1. t \in Seq(StackFrame) /\ Len(t) = Len(s)
    OBVIOUS
  <1>2. \A m \in DOMAIN s : t[m].fn = s[m].fn /\ t[m].layer = s[m].layer
    OBVIOUS
  <1> HIDE DEF t
  <1>3. WellFormed(t)
    BY <1>1, <1>2, TouchKeepsStack
  <1>4. QED
    BY <1>1, <1>3 DEF t

(* add_layer registers one binding: where, and what becomes of the array.   *)
LEMMA RegisterStep ==
    ASSUME Typed, RegisterBinding
    PROVE  \E p \in Phase, b \in BindingPointer : \E k \in Slots(Phase_Buckets, p) :
            /\ Phase_Buckets' = register_binding(Phase_Buckets, k, p, b)
            /\ Phase_Capacity' = IF HasPhase(Phase_Buckets, k, p) THEN Phase_Capacity
                                 ELSE Grow(Len(Phase_Buckets), Phase_Capacity)
            /\ MoveBuckets(~HasPhase(Phase_Buckets, k, p))
  <1>1. TypeOK /\ StackShape
    BY DEF Typed
  <1>2. Top \in StackFrame /\ Top.layer \in Layer
    BY <1>1, TopOfStack DEF RegisterBinding
  <1>3. Bindings \in [Layer -> Seq(Phase)] /\ Block \in [Layer -> Nat]
    BY <1>1 DEF TypeOK
  <1> DEFINE p == Bindings[Top.layer][Top.i]
             b == [Layer |-> Top.layer, Index |-> Top.i, Block |-> Block[Top.layer]]
  <1>4. Top.i \in Nat \ {0} /\ Top.i <= Len(Bindings[Top.layer])
    BY <1>2 DEF RegisterBinding, StackFrame
  <1>5. p \in Phase
    <2>1. Bindings[Top.layer] \in Seq(Phase)
      BY <1>2, <1>3
    <2>2. Top.i \in DOMAIN Bindings[Top.layer]
      BY <1>4, <2>1
    <2>3. QED
      BY <2>1, <2>2
  <1>6. b \in BindingPointer
    BY <1>2, <1>3, <1>4 DEF BindingPointer
  <1>7. PICK k \in Slots(Phase_Buckets, p) :
            /\ Phase_Buckets' = register_binding(Phase_Buckets, k, p, b)
            /\ Phase_Capacity' = IF ~HasPhase(Phase_Buckets, k, p)
                                 THEN Grow(Len(Phase_Buckets), Phase_Capacity)
                                 ELSE Phase_Capacity
            /\ MoveBuckets(~HasPhase(Phase_Buckets, k, p))
    BY DEF RegisterBinding
  <1> HIDE DEF p, b
  <1>8. Phase_Capacity' = IF HasPhase(Phase_Buckets, k, p) THEN Phase_Capacity
                          ELSE Grow(Len(Phase_Buckets), Phase_Capacity)
    BY <1>7
  <1>9. QED
    BY <1>5, <1>6, <1>7, <1>8

(* The loop of add_layer.                                                  *)
LEMMA RegisterTyped == ASSUME Typed, RegisterBinding PROVE Typed'
  <1>1. TypeOK /\ StackShape
    BY DEF Typed
  <1>2. /\ stack # << >> /\ Len(stack) \in DOMAIN stack /\ Top \in StackFrame
        /\ Top = stack[Len(stack)]
    BY <1>1, TopOfStack DEF RegisterBinding, Top
  <1>3. Phase_Buckets \in Seq(PhaseBucket) /\ Phase_Capacity \in Nat
        /\ stack \in Seq(StackFrame) /\ dangling \in BOOLEAN
    BY <1>1 DEF TypeOK
  <1>4. PICK p \in Phase, b \in BindingPointer : \E k \in Slots(Phase_Buckets, p) :
            /\ Phase_Buckets' = register_binding(Phase_Buckets, k, p, b)
            /\ Phase_Capacity' = IF HasPhase(Phase_Buckets, k, p) THEN Phase_Capacity
                                 ELSE Grow(Len(Phase_Buckets), Phase_Capacity)
            /\ MoveBuckets(~HasPhase(Phase_Buckets, k, p))
    BY RegisterStep
  <1>5. stack' = [stack EXCEPT ![Len(stack)].i = @ + 1]
        /\ UNCHANGED <<Layers, Capacity, layer, Running, pc, i, j, freed, fault, client,
                       live, pass>>
    BY DEF RegisterBinding
  <1>6. Phase_Buckets' \in Seq(PhaseBucket)
    BY <1>3, <1>4, RegisterKeepsBuckets
  <1>7. Phase_Capacity' \in Nat
    <2>1. Len(Phase_Buckets) \in Nat
      BY <1>3
    <2>2. QED
      BY <1>3, <1>4, <2>1, GrowMakesRoom
  <1>8. dangling' \in BOOLEAN
    BY <1>4 DEF MoveBuckets
  <1>9. stack' \in Seq(StackFrame) /\ WellFormed(stack')
    <2> DEFINE f == [Top EXCEPT !.i = @ + 1]
    <2>1. f \in StackFrame /\ f.fn = Top.fn /\ f.layer = Top.layer
      BY <1>2 DEF StackFrame
    <2>2. stack' = [stack EXCEPT ![Len(stack)] = f]
      BY <1>2, <1>5
    <2> HIDE DEF f
    <2>3. QED
      BY <1>1, <1>2, <1>3, <2>1, <2>2, ReplaceKeepsStack DEF StackShape
  <1>10. TypeOK'
    BY <1>1, <1>5, <1>6, <1>7, <1>8, <1>9 DEF TypeOK, layer, client
  <1>11. QED
    BY <1>9, <1>10 DEF StackShape, Typed

(* add_layer calls OnAttach in place of its loop.                          *)
LEMMA CallOnAttachTyped == ASSUME Typed, CallOnAttach PROVE Typed'
  <1>1. TypeOK /\ StackShape
    BY DEF Typed
  <1>2. /\ stack # << >> /\ Len(stack) \in DOMAIN stack /\ Top \in StackFrame
        /\ Top.layer \in Layer /\ Top = stack[Len(stack)]
    BY <1>1, TopOfStack DEF Top, CallOnAttach
  <1>3. stack \in Seq(StackFrame) /\ live \in [Layer -> Int]
    BY <1>1 DEF TypeOK
  <1>4. /\ live' = [live EXCEPT ![Top.layer] = @ + 1]
        /\ stack' = [stack EXCEPT ![Len(stack)].fn = "OnAttach"]
        /\ UNCHANGED <<registry, layer, Running, pc, i, j, dangling, freed, fault, client,
                       pass>>
    BY DEF CallOnAttach
  <1>5. live' \in [Layer -> Int]
    BY <1>2, <1>3, <1>4
  <1> DEFINE f == [Top EXCEPT !.fn = "OnAttach"]
  <1>6. f \in StackFrame /\ f.fn = "OnAttach" /\ f.layer = Top.layer
    BY <1>2 DEF StackFrame, Callback
  <1>7. stack' = [stack EXCEPT ![Len(stack)] = f]
    BY <1>2, <1>4
  <1> HIDE DEF f
  <1>8. stack' \in Seq(StackFrame)
    BY <1>2, <1>3, <1>6, <1>7
  <1>9. WellFormed(stack')
    <2>1. PICK N \in Nat : N = Len(stack) /\ DOMAIN stack = 1..N /\ DOMAIN stack' = 1..N
      BY <1>3, <1>7
    <2>2. ASSUME NEW n \in 1..N
          PROVE  /\ stack'[n].fn # "dispatch" => stack'[n].layer \in Layer
                 /\ stack'[n].fn = "OnEvent" => n > 1 /\ stack'[n - 1].fn = "dispatch"
      <3>1. CASE n = N
        <4>1. stack'[n] = f
          BY <1>2, <1>7, <2>1, <3>1
        <4>2. QED
          BY <1>2, <1>6, <4>1
      <3>2. CASE n < N
        <4>1. \A m \in 1..N : m # N => stack'[m] = stack[m]
          BY <1>3, <1>7, <2>1
        <4>2. n # N /\ (n > 1 => n - 1 \in 1..N /\ n - 1 # N)
          BY <3>2
        <4>3. stack'[n] = stack[n] /\ (n > 1 => stack'[n - 1] = stack[n - 1])
          BY <2>1, <4>1, <4>2
        <4>4. QED
          BY <1>1, <2>1, <4>3 DEF StackShape, WellFormed
      <3>3. QED
        BY <2>1, <3>1, <3>2
    <2>3. QED
      BY <2>1, <2>2 DEF WellFormed
  <1>10. TypeOK'
    BY <1>1, <1>4, <1>5, <1>8 DEF TypeOK, registry, layer, client
  <1>11. QED
    BY <1>9, <1>10 DEF StackShape, Typed

(* Undefined behaviour leaves everything else as it is.                    *)
LEMMA FailsTyped ==
    ASSUME Typed, NEW kind \in {"bucket", "binding", "freed"}, Fails(kind)
    PROVE  Typed'
  <1>1. fault' \in {"none", "bucket", "binding", "freed"}
    BY DEF Fails
  <1>2. TypeOK'
    BY <1>1 DEF Typed, TypeOK, Fails, registry, layer, client
  <1>3. QED
    BY <1>2 DEF Typed, StackShape, Fails

(* Steps that only move the thread.                                        *)
LEMMA MoveTyped ==
    ASSUME Typed, UNCHANGED <<registry, layer, Running, stack, freed, fault, client, live>>,
           pc' \in {"setup", "frame", "phases", "sweep", "stopped", "teardown", "done"},
           i' \in Nat \ {0}, j' \in Nat \ {0}, dangling' \in BOOLEAN,
           pass' \in [due: SUBSET BindingEntry, calls: Seq(BindingEntry)]
    PROVE  Typed'
  <1>1. TypeOK'
    BY DEF Typed, TypeOK, registry, layer, client
  <1>2. QED
    BY <1>1 DEF Typed, StackShape

(* Steps that only return, or only call, and move the thread.              *)
LEMMA StackTyped ==
    ASSUME Typed, stack' \in Seq(StackFrame), WellFormed(stack'),
           UNCHANGED <<registry, layer, Running, pc, j, dangling, fault, client>>,
           i' \in Nat \ {0}, freed' \subseteq Layer, live' \in [Layer -> Int],
           pass' \in [due: SUBSET BindingEntry, calls: Seq(BindingEntry)]
    PROVE  Typed'
  <1>1. TypeOK'
    BY DEF Typed, TypeOK, registry, layer, client
  <1>2. QED
    BY <1>1 DEF Typed, StackShape

(* What the history calls a binding.                                       *)
LEMMA EntryType ==
    ASSUME TypeOK, NEW n \in DOMAIN Phase_Buckets, NEW m \in DOMAIN Phase_Buckets[n].Bindings
    PROVE  /\ Phase_Buckets[n].Bindings[m] \in BindingPointer
           /\ Entry(Phase_Buckets[n].Phase, Phase_Buckets[n].Bindings[m]) \in BindingEntry
  <1>1. Phase_Buckets \in Seq(PhaseBucket)
    BY DEF TypeOK
  <1>2. Phase_Buckets[n] \in PhaseBucket
    BY <1>1
  <1>3. Phase_Buckets[n].Phase \in Phase /\ Phase_Buckets[n].Bindings \in Seq(BindingPointer)
    BY <1>2 DEF PhaseBucket
  <1>4. Phase_Buckets[n].Bindings[m] \in BindingPointer
    BY <1>3
  <1>5. QED
    BY <1>3, <1>4 DEF BindingPointer, BindingEntry, Entry

(* What the buckets hold, as the history sees it.                          *)
LEMMA BoundType == TypeOK => Bound \subseteq BindingEntry
    BY EntryType DEF Bound, ToSet

(* The sweep of run_application removes a layer or passes it.              *)
LEMMA SweepTyped == ASSUME Typed, Sweep PROVE Typed'
  <1>1. TypeOK
    BY DEF Typed
  <1>2. i \in Nat \ {0} /\ j \in Nat \ {0} /\ Layers \in Seq(Layer) /\ dangling \in BOOLEAN
        /\ pc \in {"setup", "frame", "phases", "sweep", "stopped", "teardown", "done"}
        /\ pass \in [due: SUBSET BindingEntry, calls: Seq(BindingEntry)]
        /\ calls \in Nat /\ misuse \subseteq Rule
    BY <1>1 DEF TypeOK
  <1>3. CASE Detach(Layers[i]) /\ UNCHANGED <<calls, misuse>>
    <2>1. Layers[i] \in Layer
      BY <1>2 DEF Sweep
    <2>2. fault' = fault /\ Running' = Running
      BY <1>3 DEF Detach
    <2>3. QED
      BY <1>2, <1>3, <2>1, <2>2, DetachTyped
  <1>4. CASE i' = i + 1 /\ UNCHANGED <<registry, layer, Running, pc, j, stack, dangling,
                                       freed, fault, client, live, pass>>
    BY <1>2, <1>4, MoveTyped
  <1>5. QED
    BY <1>3, <1>4 DEF Sweep

(* Moves of the thread that leave the stack alone.                         *)
LEMMA LoopTyped ==
    ASSUME Typed,
           \/ RunApplication \/ BeginFrame \/ NextBucket \/ EndPhases \/ EndSweep
           \/ EndRun \/ DestroyApplication \/ EndTeardown
    PROVE  Typed'
  <1>1. TypeOK
    BY DEF Typed
  <1>2. i \in Nat \ {0} /\ j \in Nat \ {0} /\ dangling \in BOOLEAN
        /\ pc \in {"setup", "frame", "phases", "sweep", "stopped", "teardown", "done"}
        /\ pass \in [due: SUBSET BindingEntry, calls: Seq(BindingEntry)]
    BY <1>1 DEF TypeOK
  <1>3. /\ [due |-> {}, calls |-> << >>] \in [due: SUBSET BindingEntry, calls: Seq(BindingEntry)]
        /\ [due |-> Bound, calls |-> << >>] \in [due: SUBSET BindingEntry, calls: Seq(BindingEntry)]
    <2>1. << >> \in Seq(BindingEntry)
      OBVIOUS
    <2>2. QED
      BY <1>1, <2>1, BoundType
  <1>4. CASE RunApplication
    BY <1>2, <1>4, MoveTyped DEF RunApplication, Goto
  <1>5. CASE BeginFrame
    <2>1. pass' = [due |-> Bound, calls |-> << >>] /\ dangling' = FALSE
          /\ pc' = "phases" /\ i' = 1 /\ j' = 1
          /\ UNCHANGED <<registry, layer, Running, stack, freed, fault, client, live>>
      BY <1>5 DEF BeginFrame, Goto
    <2>2. pass' \in [due: SUBSET BindingEntry, calls: Seq(BindingEntry)]
      BY <1>3, <2>1
    <2>3. /\ pc' \in {"setup", "frame", "phases", "sweep", "stopped", "teardown", "done"}
          /\ i' \in Nat \ {0} /\ j' \in Nat \ {0}
      BY <2>1
    <2>4. dangling' \in BOOLEAN
      BY <2>1, Zenon
    <2>5. QED
      BY <2>1, <2>2, <2>3, <2>4, MoveTyped
  <1>6. CASE NextBucket
    BY <1>2, <1>6, MoveTyped DEF NextBucket
  <1>7. CASE EndPhases
    BY <1>2, <1>3, <1>7, MoveTyped DEF EndPhases, Goto
  <1>8. CASE EndSweep
    BY <1>2, <1>8, MoveTyped DEF EndSweep, Goto
  <1>9. CASE EndRun
    BY <1>2, <1>9, MoveTyped DEF EndRun, Goto
  <1>10. CASE DestroyApplication
    BY <1>2, <1>10, MoveTyped DEF DestroyApplication, Goto
  <1>11. CASE EndTeardown
    BY <1>2, <1>11, MoveTyped DEF EndTeardown, Goto
  <1>12. QED
    BY <1>4, <1>5, <1>6, <1>7, <1>8, <1>9, <1>10, <1>11

(* The return from the innermost call, and what it leaves of the stack.    *)
LEMMA PopTyped ==
    ASSUME Typed, stack # << >>, Pop
    PROVE  stack' \in Seq(StackFrame) /\ WellFormed(stack')
  <1>1. stack \in Seq(StackFrame) /\ WellFormed(stack) /\ stack' = Front(stack)
    BY DEF Typed, TypeOK, StackShape, Pop
  <1>2. QED
    BY <1>1, PopKeepsStack

(* Steps that call a function on behalf of a layer.                        *)
LEMMA CallTyped ==
    ASSUME Typed, NEW fn \in Callback \ {"OnEvent"}, NEW l \in Layer, Push(Call(fn, l))
    PROVE  stack' \in Seq(StackFrame) /\ WellFormed(stack')
  <1>1. stack \in Seq(StackFrame) /\ WellFormed(stack)
    BY DEF Typed, TypeOK, StackShape
  <1>2. stack' = Append(stack, Call(fn, l))
    BY DEF Push
  <1>3. Call(fn, l) \in StackFrame /\ Call(fn, l).fn = fn /\ Call(fn, l).layer = l
    BY CallIsFrame
  <1>4. QED
    BY <1>1, <1>2, <1>3, PushKeepsStack

(* The phase loop calls a callback and goes on when it returns.            *)
LEMMA PhaseTyped == ASSUME Typed, CallPhase \/ ReturnPhase PROVE Typed'
  <1>1. TypeOK
    BY DEF Typed
  <1>2. /\ i \in Nat \ {0} /\ j \in Nat \ {0} /\ freed \subseteq Layer
        /\ live \in [Layer -> Int] /\ dangling \in BOOLEAN
        /\ pc \in {"setup", "frame", "phases", "sweep", "stopped", "teardown", "done"}
        /\ pass \in [due: SUBSET BindingEntry, calls: Seq(BindingEntry)]
    BY <1>1 DEF TypeOK
  <1>3. ASSUME CallPhase, Fails("bucket") \/ Fails("binding") PROVE Typed'
    BY <1>3, FailsTyped
  <1>4. ASSUME CallPhase, ~Fails("bucket"), ~Fails("binding") PROVE Typed'
    <2> DEFINE b == Bucket.Bindings[j]
    <2>1. i \in DOMAIN Phase_Buckets
      <3>1. Phase_Buckets \in Seq(PhaseBucket)
        BY <1>1 DEF TypeOK
      <3>2. QED
        BY <1>2, <1>4, <3>1 DEF CallPhase
    <2>2. Phase_Buckets[i].Bindings \in Seq(BindingPointer)
      <3>1. Phase_Buckets[i] \in PhaseBucket
        BY <1>1, <2>1 DEF TypeOK
      <3>2. QED
        BY <3>1 DEF PhaseBucket
    <2>3. j \in DOMAIN Phase_Buckets[i].Bindings
      BY <1>2, <1>4, <2>2 DEF CallPhase, Bucket
    <2>4. b \in BindingPointer /\ Entry(Bucket.Phase, b) \in BindingEntry
      BY <1>1, <2>1, <2>3, EntryType DEF Bucket
    <2>5. /\ Push(Call("phase", b.Layer))
          /\ pass' = [pass EXCEPT !.calls = Append(@, Entry(Bucket.Phase, b))]
          /\ UNCHANGED <<registry, layer, Running, pc, i, j, dangling, freed, fault,
                         client, live>>
      BY <1>4 DEF CallPhase
    <2> HIDE DEF b
    <2>6. stack' \in Seq(StackFrame) /\ WellFormed(stack')
      <3>1. b.Layer \in Layer
        BY <2>4 DEF BindingPointer
      <3>2. QED
        BY <2>5, <3>1, CallTyped DEF Callback
    <2>7. pass' \in [due: SUBSET BindingEntry, calls: Seq(BindingEntry)]
      <3>1. Append(pass.calls, Entry(Bucket.Phase, b)) \in Seq(BindingEntry)
        BY <1>2, <2>4
      <3>2. QED
        BY <1>2, <2>5, <3>1
    <2>8. QED
      BY <1>2, <2>5, <2>6, <2>7, StackTyped
  <1>5. ASSUME ReturnPhase PROVE Typed'
    <2>1. stack' \in Seq(StackFrame) /\ WellFormed(stack')
      BY <1>5, PopTyped DEF ReturnPhase, In
    <2>2. j' \in Nat \ {0}
      BY <1>2, <1>5 DEF ReturnPhase
    <2>3. TypeOK'
      BY <1>1, <1>5, <2>1, <2>2 DEF ReturnPhase, TypeOK, registry, layer, client
    <2>4. QED
      BY <2>1, <2>3 DEF Typed, StackShape
  <1>6. QED
    BY <1>3, <1>4, <1>5

(* destroy_layer_registry's loop.                                          *)
LEMMA TeardownTyped == ASSUME Typed, Teardown \/ ReturnTeardown PROVE Typed'
  <1>1. TypeOK
    BY DEF Typed
  <1>2. /\ i \in Nat \ {0} /\ freed \subseteq Layer /\ live \in [Layer -> Int]
        /\ Layers \in Seq(Layer)
        /\ pass \in [due: SUBSET BindingEntry, calls: Seq(BindingEntry)]
    BY <1>1 DEF TypeOK
  <1>3. ASSUME Fails("freed") PROVE Typed'
    BY <1>3, FailsTyped
  <1>4. ASSUME Teardown, ~Fails("freed") PROVE Typed'
    <2>1. PICK l \in Layer : l = Layers[i]
      BY <1>2, <1>4 DEF Teardown
    <2>2. /\ live' = [live EXCEPT ![l] = @ - 1]
          /\ Push(Call("teardown", l))
          /\ UNCHANGED <<registry, layer, Running, pc, i, j, dangling, freed, fault, client,
                         pass>>
      BY <1>4, <2>1 DEF Teardown
    <2>3. live' \in [Layer -> Int]
      BY <1>2, <2>2
    <2>4. stack' \in Seq(StackFrame) /\ WellFormed(stack')
      BY <2>2, CallTyped DEF Callback
    <2>5. QED
      BY <1>2, <2>2, <2>3, <2>4, StackTyped
  <1>5. ASSUME ReturnTeardown PROVE Typed'
    <2>1. stack' \in Seq(StackFrame) /\ WellFormed(stack')
      BY <1>5, PopTyped DEF ReturnTeardown, In
    <2>2. Top.layer \in Layer
      BY <1>1, <1>5, TopOfStack DEF Typed, ReturnTeardown
    <2>3. freed' \subseteq Layer /\ i' \in Nat \ {0}
      BY <1>2, <1>5, <2>2 DEF ReturnTeardown
    <2>4. QED
      BY <1>2, <1>5, <2>1, <2>3, StackTyped DEF ReturnTeardown
  <1>6. QED
    BY <1>3, <1>4, <1>5

(* The dispatch loop calls a handler and goes on, or returns, after it.    *)
LEMMA DispatchTyped == ASSUME Typed, CallOnEvent \/ ReturnOnEvent \/ EndDispatch PROVE Typed'
  <1>1. TypeOK /\ StackShape
    BY DEF Typed
  <1>2. /\ i \in Nat \ {0} /\ freed \subseteq Layer /\ live \in [Layer -> Int]
        /\ Layers \in Seq(Layer) /\ stack \in Seq(StackFrame)
        /\ pass \in [due: SUBSET BindingEntry, calls: Seq(BindingEntry)]
    BY <1>1 DEF TypeOK
  <1>3. ASSUME Fails("freed") PROVE Typed'
    BY <1>3, FailsTyped
  <1>4. ASSUME CallOnEvent, ~Fails("freed") PROVE Typed'
    <2>1. /\ stack # << >> /\ Len(stack) \in DOMAIN stack /\ Top \in StackFrame
          /\ Top.fn = "dispatch" /\ Top = stack[Len(stack)]
      BY <1>1, <1>4, TopOfStack DEF CallOnEvent, Top
    <2>2. Top.i \in DOMAIN Layers
      BY <1>2, <1>4, <2>1 DEF CallOnEvent, StackFrame
    <2>3. PICK l \in Layer : l = Layers[Top.i]
      BY <1>2, <2>2
    <2>4. /\ stack' = Append([stack EXCEPT ![Len(stack)].seen = @ \cup {l}], Call("OnEvent", l))
          /\ UNCHANGED <<registry, layer, Running, pc, i, j, dangling, freed, fault,
                         client, live, pass>>
      BY <1>4, <2>3 DEF CallOnEvent
    <2> DEFINE f == [Top EXCEPT !.seen = @ \cup {l}]
               t == [stack EXCEPT ![Len(stack)] = f]
    <2>5. f \in StackFrame /\ f.fn = Top.fn /\ f.layer = Top.layer
      BY <2>1 DEF StackFrame
    <2>6. stack' = Append(t, Call("OnEvent", l))
      BY <2>1, <2>4
    <2> HIDE DEF f
    <2>7. t \in Seq(StackFrame) /\ WellFormed(t)
      BY <1>1, <1>2, <2>1, <2>5, ReplaceKeepsStack DEF StackShape
    <2>8. t # << >> /\ Len(t) = Len(stack) /\ t[Len(stack)] = f
      BY <1>2, <2>1
    <2> HIDE DEF t
    <2>9. Call("OnEvent", l) \in StackFrame /\ Call("OnEvent", l).layer = l
      BY CallIsFrame DEF Callback
    <2>10. stack' \in Seq(StackFrame) /\ WellFormed(stack')
      BY <2>1, <2>5, <2>6, <2>7, <2>8, <2>9, PushKeepsStack
    <2>11. QED
      BY <1>2, <2>4, <2>10, StackTyped
  <1>5. ASSUME ReturnOnEvent PROVE Typed'
    <2>1. /\ stack # << >> /\ Len(stack) > 1 /\ stack[Len(stack) - 1].fn = "dispatch"
      BY <1>1, <1>5, TopOfStack DEF ReturnOnEvent
    <2>2. PICK n \in Nat \ {0} : n = Len(stack) - 1
      <3>1. PICK N \in Nat : N = Len(stack) /\ N > 1
        BY <1>2, <2>1
      <3>2. N - 1 \in Nat \ {0}
        BY <3>1
      <3>3. QED
        BY <3>1, <3>2
    <2> DEFINE t == Front(stack)
    <2>3. /\ t \in Seq(StackFrame) /\ WellFormed(t) /\ Len(t) = n
          /\ \A m \in 1..n : t[m] = stack[m]
      BY <1>1, <1>2, <2>1, <2>2, PopKeepsStack, FrontIsShorter DEF StackShape
    <2>4. PICK Handled \in BOOLEAN :
            stack' = IF Handled THEN Front(t) ELSE [t EXCEPT ![n].i = @ + 1]
      BY <1>5, <2>2 DEF ReturnOnEvent
    <2> HIDE DEF t
    <2>5. n \in DOMAIN t /\ t # << >> /\ t[n] \in StackFrame
      BY <2>3
    <2>6. Front(t) \in Seq(StackFrame) /\ WellFormed(Front(t))
      BY <2>3, <2>5, PopKeepsStack
    <2> DEFINE f == [t[n] EXCEPT !.i = @ + 1]
    <2>7. f \in StackFrame /\ f.fn = t[n].fn /\ f.layer = t[n].layer
      BY <2>5 DEF StackFrame
    <2>8. [t EXCEPT ![n].i = @ + 1] = [t EXCEPT ![n] = f]
      BY <2>5
    <2> HIDE DEF f
    <2>9. stack' \in Seq(StackFrame) /\ WellFormed(stack')
      BY <2>3, <2>4, <2>5, <2>6, <2>7, <2>8, ReplaceKeepsStack
    <2>10. QED
      BY <1>2, <1>5, <2>9, StackTyped DEF ReturnOnEvent
  <1>6. ASSUME EndDispatch PROVE Typed'
    <2>1. stack' \in Seq(StackFrame) /\ WellFormed(stack')
      BY <1>6, PopTyped DEF EndDispatch, In
    <2>2. QED
      BY <1>2, <1>6, <2>1, StackTyped DEF EndDispatch
  <1>7. QED
    BY <1>3, <1>4, <1>5, <1>6

(* The end of add_layer and of remove_layer.                               *)
LEMMA ReturnTyped == ASSUME Typed, ReturnOnAttach \/ ReturnOnDettach PROVE Typed'
  <1>1. TypeOK /\ StackShape
    BY DEF Typed
  <1>2. /\ i \in Nat \ {0} /\ freed \subseteq Layer /\ live \in [Layer -> Int]
        /\ Phase_Buckets \in Seq(PhaseBucket)
        /\ pass \in [due: SUBSET BindingEntry, calls: Seq(BindingEntry)]
    BY <1>1 DEF TypeOK
  <1>3. ASSUME ReturnOnAttach PROVE Typed'
    <2>1. stack' \in Seq(StackFrame) /\ WellFormed(stack')
      BY <1>3, PopTyped DEF ReturnOnAttach, In
    <2>2. QED
      BY <1>2, <1>3, <2>1, StackTyped DEF ReturnOnAttach
  <1>4. ASSUME Fails("binding") PROVE Typed'
    BY <1>4, FailsTyped
  <1>5. ASSUME ReturnOnDettach, ~Fails("binding") PROVE Typed'
    <2>1. stack' \in Seq(StackFrame) /\ WellFormed(stack')
      BY <1>5, PopTyped DEF ReturnOnDettach, In
    <2>2. /\ Phase_Buckets' = [n \in DOMAIN Phase_Buckets |->
                                 remove_layer_phase_bucket(Phase_Buckets[n], Top.layer)]
          /\ pass' = [pass EXCEPT !.due = {e \in @ : e.Layer # Top.layer}
                                            \ MovedBehind(Top.layer)]
          /\ UNCHANGED <<Layers, Capacity, Phase_Capacity, layer, Running, pc, i, j,
                         dangling, freed, fault, client, live>>
      BY <1>5 DEF ReturnOnDettach
    <2>3. Phase_Buckets' \in Seq(PhaseBucket)
      <3>1. PICK N \in Nat : DOMAIN Phase_Buckets = 1..N
        BY <1>2
      <3>2. \A n \in 1..N : remove_layer_phase_bucket(Phase_Buckets[n], Top.layer) \in PhaseBucket
        BY <1>2, <3>1, RemoveKeepsBucket
      <3>3. QED
        BY <2>2, <3>1, <3>2
    <2>4. pass' \in [due: SUBSET BindingEntry, calls: Seq(BindingEntry)]
      BY <1>2, <2>2
    <2>5. TypeOK'
      BY <1>1, <2>1, <2>2, <2>3, <2>4 DEF TypeOK, layer, client
    <2>6. QED
      BY <2>1, <2>5 DEF Typed, StackShape
  <1>6. QED
    BY <1>3, <1>4, <1>5

(* Every step keeps the types and the shape of the stack.                  *)
LEMMA TypedNext == Typed /\ [Next]_vars => Typed'
  <1> SUFFICES ASSUME Typed, [Next]_vars PROVE Typed'
    OBVIOUS
  <1>1. CASE ClientCall
    BY <1>1, ClientCallTyped
  <1>2. CASE Step
    BY <1>2, RegisterTyped, CallOnAttachTyped, ReturnTyped, DispatchTyped, PhaseTyped,
       SweepTyped, LoopTyped, TeardownTyped DEF Step
  <1>3. CASE UNCHANGED vars
    <2>1. TypeOK'
      BY <1>3 DEF Typed, TypeOK, vars, registry, layer, client
    <2>2. QED
      BY <1>3, <2>1 DEF Typed, StackShape, vars
  <1>4. QED
    BY <1>1, <1>2, <1>3 DEF Next, Ended

-----------------------------------------------------------------------------
(* The buckets.                                                            *)

BucketsFit == /\ Len(Phase_Buckets) <= Phase_Capacity
              /\ \A n \in DOMAIN Phase_Buckets : Fits(Phase_Buckets[n])

(* The array of buckets makes room before a bucket is inserted.            *)
LEMMA RoomForBucket ==
    ASSUME Typed, NEW k, NEW p, Len(Phase_Buckets) <= Phase_Capacity,
           Len(Phase_Buckets') = IF HasPhase(Phase_Buckets, k, p) THEN Len(Phase_Buckets)
                                 ELSE Len(Phase_Buckets) + 1,
           Phase_Capacity' = IF HasPhase(Phase_Buckets, k, p) THEN Phase_Capacity
                             ELSE Grow(Len(Phase_Buckets), Phase_Capacity)
    PROVE  Len(Phase_Buckets') <= Phase_Capacity'
  <1>1. Len(Phase_Buckets) \in Nat /\ Phase_Capacity \in Nat
    BY DEF Typed, TypeOK
  <1>2. QED
    BY <1>1, GrowMakesRoom

(* What each step does to the buckets: nothing, or what one of the three   *)
(* operations on them does.                                                *)
LEMMA BucketsNext ==
    ASSUME Typed, [Next]_vars
    PROVE  /\ PhasesSorted => PhasesSorted'
           /\ BucketsFit => BucketsFit'
  <1>1. Phase_Buckets \in Seq(PhaseBucket) /\ Phase_Capacity \in Nat
    BY DEF Typed, TypeOK
  <1>2. CASE UNCHANGED <<Phase_Buckets, Phase_Capacity>>
    BY <1>2 DEF PhasesSorted, BucketsFit
  <1>3. CASE RegisterBinding
    <2>1. PICK p \in Phase, b \in BindingPointer : \E k \in Slots(Phase_Buckets, p) :
            /\ Phase_Buckets' = register_binding(Phase_Buckets, k, p, b)
            /\ Phase_Capacity' = IF HasPhase(Phase_Buckets, k, p) THEN Phase_Capacity
                                 ELSE Grow(Len(Phase_Buckets), Phase_Capacity)
      BY <1>3, RegisterStep
    <2>2. PICK k \in Slots(Phase_Buckets, p) :
            /\ Phase_Buckets' = register_binding(Phase_Buckets, k, p, b)
            /\ Phase_Capacity' = IF HasPhase(Phase_Buckets, k, p) THEN Phase_Capacity
                                 ELSE Grow(Len(Phase_Buckets), Phase_Capacity)
      BY <2>1
    <2>3. /\ Len(Phase_Buckets') = IF HasPhase(Phase_Buckets, k, p) THEN Len(Phase_Buckets)
                                   ELSE Len(Phase_Buckets) + 1
          /\ Sorted(Phase_Buckets) => Sorted(Phase_Buckets')
          /\ (\A n \in DOMAIN Phase_Buckets : Fits(Phase_Buckets[n]))
                => \A n \in DOMAIN Phase_Buckets' : Fits(Phase_Buckets'[n])
      BY <1>1, <2>2, RegisterKeepsBuckets
    <2>4. QED
      BY <2>2, <2>3, RoomForBucket DEF PhasesSorted, BucketsFit
  <1>4. ASSUME NEW p \in Phase, NEW ctx \in Context, bind_phase_ctx(p, ctx)
        PROVE  (PhasesSorted => PhasesSorted') /\ (BucketsFit => BucketsFit')
    <2>1. PICK k \in Slots(Phase_Buckets, p) :
            /\ Phase_Buckets' = set_phase_context(Phase_Buckets, k, p, ctx)
            /\ Phase_Capacity' = IF HasPhase(Phase_Buckets, k, p) THEN Phase_Capacity
                                 ELSE Grow(Len(Phase_Buckets), Phase_Capacity)
      BY <1>4 DEF bind_phase_ctx
    <2>2. /\ Len(Phase_Buckets') = IF HasPhase(Phase_Buckets, k, p) THEN Len(Phase_Buckets)
                                   ELSE Len(Phase_Buckets) + 1
          /\ Sorted(Phase_Buckets) => Sorted(Phase_Buckets')
          /\ (\A n \in DOMAIN Phase_Buckets : Fits(Phase_Buckets[n]))
                => \A n \in DOMAIN Phase_Buckets' : Fits(Phase_Buckets'[n])
      BY <1>1, <2>1, ContextKeepsBuckets
    <2>3. QED
      BY <2>1, <2>2, RoomForBucket DEF PhasesSorted, BucketsFit
  <1>5. CASE ReturnOnDettach
    <2>1. CASE Fails("binding")
      BY <1>2, <2>1 DEF Fails, registry
    <2>2. CASE ~Fails("binding")
      <3>1. /\ Phase_Buckets' = [n \in DOMAIN Phase_Buckets |->
                                   remove_layer_phase_bucket(Phase_Buckets[n], Top.layer)]
            /\ Phase_Capacity' = Phase_Capacity
        BY <1>5, <2>2 DEF ReturnOnDettach
      <3>2. PICK N \in Nat : DOMAIN Phase_Buckets = 1..N /\ N = Len(Phase_Buckets)
        BY <1>1
      <3>3. DOMAIN Phase_Buckets' = 1..N /\ Len(Phase_Buckets') = N
        BY <3>1, <3>2
      <3>4. \A n \in 1..N :
                /\ Phase_Buckets'[n].Phase = Phase_Buckets[n].Phase
                /\ Fits(Phase_Buckets[n]) => Fits(Phase_Buckets'[n])
        BY <1>1, <3>1, <3>2, RemoveKeepsBucket
      <3>5. QED
        BY <3>1, <3>2, <3>3, <3>4 DEF PhasesSorted, BucketsFit, Sorted
    <2>3. QED
      BY <2>1, <2>2
  <1>6. CASE ClientCall
    BY <1>2, <1>4, <1>6 DEF ClientCall, add_layer, remove_layer, Detach, SetDestroy,
       bind_layer_phase, application_event_callback, Stop, registry
  <1>7. CASE Step
    <2>1. CASE CallOnEvent \/ CallPhase \/ Teardown \/ Sweep
      BY <1>2, <2>1 DEF CallOnEvent, CallPhase, Teardown, Sweep, Detach, Fails, registry
    <2>2. CASE \/ CallOnAttach \/ ReturnOnAttach \/ ReturnOnEvent \/ EndDispatch \/ ReturnPhase
               \/ ReturnTeardown
      BY <1>2, <2>2 DEF CallOnAttach, ReturnOnAttach, ReturnOnEvent, EndDispatch, ReturnPhase,
         ReturnTeardown, registry
    <2>3. CASE \/ RunApplication \/ BeginFrame \/ NextBucket \/ EndPhases \/ EndSweep
               \/ EndRun \/ DestroyApplication \/ EndTeardown
      BY <1>2, <2>3 DEF RunApplication, BeginFrame, NextBucket, EndPhases, EndSweep, EndRun,
         DestroyApplication, EndTeardown, registry
    <2>4. QED
      BY <1>3, <1>5, <1>7, <2>1, <2>2, <2>3 DEF Step
  <1>8. CASE UNCHANGED vars
    BY <1>2, <1>8 DEF vars, registry
  <1>9. QED
    BY <1>6, <1>7, <1>8 DEF Next, Ended

(* A phase keeps the context last bound to it while buckets come and       *)
(* bindings go.                                                            *)
LEMMA ContextsNext ==
    ASSUME Typed, PhasesSorted, Follows(Phase_Buckets, contexts), [Next]_vars
    PROVE  Follows(Phase_Buckets, contexts)'
  <1>1. /\ Phase_Buckets \in Seq(PhaseBucket) /\ Sorted(Phase_Buckets)
        /\ contexts \in [Phase -> Context \cup {NULL}]
    BY DEF Typed, TypeOK, PhasesSorted
  <1>2. CASE UNCHANGED <<Phase_Buckets, contexts>>
    BY <1>2 DEF Follows
  <1>3. CASE RegisterBinding
    <2>1. PICK p \in Phase, b \in BindingPointer : \E k \in Slots(Phase_Buckets, p) :
            Phase_Buckets' = register_binding(Phase_Buckets, k, p, b)
      BY <1>3, RegisterStep
    <2>2. PICK k \in Slots(Phase_Buckets, p) :
            Phase_Buckets' = register_binding(Phase_Buckets, k, p, b)
      BY <2>1
    <2>3. contexts' = contexts
      BY <1>3 DEF RegisterBinding, client
    <2>4. Follows(register_binding(Phase_Buckets, k, p, b), contexts)
      BY <1>1, RegisterFollows
    <2>5. QED
      BY <2>2, <2>3, <2>4 DEF Follows
  <1>4. ASSUME NEW p \in Phase, NEW ctx \in Context, bind_phase_ctx(p, ctx)
        PROVE  Follows(Phase_Buckets, contexts)'
    <2>1. PICK k \in Slots(Phase_Buckets, p) :
            Phase_Buckets' = set_phase_context(Phase_Buckets, k, p, ctx)
      BY <1>4 DEF bind_phase_ctx
    <2>2. contexts' = [contexts EXCEPT ![p] = ctx]
      BY <1>4 DEF bind_phase_ctx
    <2>3. Follows(set_phase_context(Phase_Buckets, k, p, ctx), [contexts EXCEPT ![p] = ctx])
      BY <1>1, ContextFollows
    <2>4. QED
      BY <2>1, <2>2, <2>3 DEF Follows
  <1>5. CASE ReturnOnDettach
    <2>1. CASE Fails("binding")
      BY <1>2, <1>5, <2>1 DEF Fails, ReturnOnDettach, registry, client
    <2>2. CASE ~Fails("binding")
      <3>1. /\ Phase_Buckets' = [n \in DOMAIN Phase_Buckets |->
                                   remove_layer_phase_bucket(Phase_Buckets[n], Top.layer)]
            /\ contexts' = contexts
        BY <1>5, <2>2 DEF ReturnOnDettach, client
      <3>2. DOMAIN Phase_Buckets' = DOMAIN Phase_Buckets
        BY <3>1
      <3>3. \A n \in DOMAIN Phase_Buckets :
                /\ Phase_Buckets'[n].Phase = Phase_Buckets[n].Phase
                /\ Phase_Buckets'[n].Phase_Context = Phase_Buckets[n].Phase_Context
        <4>1. \A n \in DOMAIN Phase_Buckets : Phase_Buckets[n] \in PhaseBucket
          BY <1>1
        <4>2. QED
          BY <3>1, <4>1, RemoveKeepsBucket
      <3>4. QED
        BY <3>1, <3>2, <3>3 DEF Follows
    <2>3. QED
      BY <2>1, <2>2
  <1>6. CASE ClientCall
    BY <1>2, <1>4, <1>6 DEF ClientCall, ClientCalls, add_layer, remove_layer, Detach, SetDestroy,
       bind_layer_phase, application_event_callback, Stop, registry
  <1>7. CASE Step
    <2>1. CASE CallOnEvent \/ CallPhase \/ Teardown \/ Sweep
      BY <1>2, <2>1 DEF CallOnEvent, CallPhase, Teardown, Sweep, Detach, Fails, registry, client
    <2>2. CASE \/ CallOnAttach \/ ReturnOnAttach \/ ReturnOnEvent \/ EndDispatch \/ ReturnPhase
               \/ ReturnTeardown
      BY <1>2, <2>2 DEF CallOnAttach, ReturnOnAttach, ReturnOnEvent, EndDispatch, ReturnPhase,
         ReturnTeardown, registry, client
    <2>3. CASE \/ RunApplication \/ BeginFrame \/ NextBucket \/ EndPhases \/ EndSweep
               \/ EndRun \/ DestroyApplication \/ EndTeardown
      BY <1>2, <2>3 DEF RunApplication, BeginFrame, NextBucket, EndPhases, EndSweep, EndRun,
         DestroyApplication, EndTeardown, registry, client
    <2>4. QED
      BY <1>3, <1>5, <1>7, <2>1, <2>2, <2>3 DEF Step
  <1>8. CASE UNCHANGED vars
    BY <1>2, <1>8 DEF vars, registry, client
  <1>9. QED
    BY <1>6, <1>7, <1>8 DEF Next, Ended

-----------------------------------------------------------------------------
(* The arrays of the registry and of the layers.                           *)

LayersFit == Len(Layers) <= Capacity
BindingsFit == \A l \in Layer : Len(Bindings[l]) <= Bindings_Capacity[l]

(* The array of layers makes room before it takes one more.                *)
LEMMA LayersNext == ASSUME Typed, LayersFit, [Next]_vars PROVE LayersFit'
  <1>1. Layers \in Seq(Layer) /\ Len(Layers) \in Nat /\ Capacity \in Nat
    BY DEF Typed, TypeOK
  <1>2. CASE UNCHANGED <<Layers, Capacity>>
    BY <1>2 DEF LayersFit
  <1>3. ASSUME NEW l \in Layer, add_layer(l) PROVE LayersFit'
    <2>1. Layers' = Append(Layers, l) /\ Capacity' = Grow(Len(Layers), Capacity)
      BY <1>3 DEF add_layer
    <2>2. Len(Layers') = Len(Layers) + 1
      BY <1>1, <2>1
    <2>3. Len(Layers) + 1 <= Grow(Len(Layers), Capacity)
      BY <1>1, GrowMakesRoom DEF LayersFit
    <2>4. QED
      BY <2>1, <2>2, <2>3 DEF LayersFit
  <1>4. ASSUME NEW l, Detach(l) PROVE LayersFit'
    <2>1. PICK k \in DOMAIN Layers : Layers' = SwapRemove(Layers, k)
      BY <1>4 DEF Detach
    <2>2. Len(Layers') = Len(Layers) - 1
      BY <1>1, <2>1, SwapRemoveShrinks
    <2>3. Capacity' = Capacity
      BY <1>4 DEF Detach
    <2>4. QED
      BY <1>1, <2>2, <2>3 DEF LayersFit
  <1>5. CASE ClientCall
    BY <1>2, <1>3, <1>4, <1>5 DEF ClientCall, remove_layer, SetDestroy, bind_layer_phase,
       bind_phase_ctx, application_event_callback, Stop, registry
  <1>6. CASE Step
    <2>1. CASE CallOnEvent \/ CallPhase \/ Teardown \/ ReturnOnDettach
      BY <1>2, <2>1 DEF CallOnEvent, CallPhase, Teardown, ReturnOnDettach, Fails, registry
    <2>2. CASE Sweep
      BY <1>2, <1>4, <2>2 DEF Sweep, registry
    <2>3. CASE \/ RegisterBinding \/ CallOnAttach \/ ReturnOnAttach \/ ReturnOnEvent
               \/ EndDispatch \/ ReturnPhase \/ ReturnTeardown
      BY <1>2, <2>3 DEF RegisterBinding, CallOnAttach, ReturnOnAttach, ReturnOnEvent,
         EndDispatch, ReturnPhase, ReturnTeardown, registry
    <2>4. CASE \/ RunApplication \/ BeginFrame \/ NextBucket \/ EndPhases \/ EndSweep
               \/ EndRun \/ DestroyApplication \/ EndTeardown
      BY <1>2, <2>4 DEF RunApplication, BeginFrame, NextBucket, EndPhases, EndSweep, EndRun,
         DestroyApplication, EndTeardown, registry
    <2>5. QED
      BY <1>6, <2>1, <2>2, <2>3, <2>4 DEF Step
  <1>7. CASE UNCHANGED vars
    BY <1>2, <1>7 DEF vars, registry
  <1>8. QED
    BY <1>5, <1>6, <1>7 DEF Next, Ended

(* A layer's array of bindings makes room before it takes one more; once   *)
(* it has bindings nothing else touches it.                                *)
LEMMA BindingsNext == ASSUME Typed, BindingsFit, [Next]_vars PROVE BindingsFit'
  <1>1. Bindings \in [Layer -> Seq(Phase)] /\ Bindings_Capacity \in [Layer -> Nat]
    BY DEF Typed, TypeOK
  <1>2. CASE UNCHANGED <<Bindings, Bindings_Capacity>>
    BY <1>2 DEF BindingsFit
  <1>3. ASSUME NEW l \in Layer, NEW p \in Phase, bind_layer_phase(l, p)
        PROVE  BindingsFit'
    <2>1. /\ Bindings_Capacity' = [Bindings_Capacity EXCEPT ![l] = Grow(Len(Bindings[l]), @)]
          /\ Bindings' = [Bindings EXCEPT ![l] = Append(@, p)]
      BY <1>3 DEF bind_layer_phase
    <2>2. ASSUME NEW m \in Layer
          PROVE  Len(Bindings'[m]) <= Bindings_Capacity'[m]
      <3>1. CASE m = l
        <4>1. Bindings'[m] = Append(Bindings[l], p)
              /\ Bindings_Capacity'[m] = Grow(Len(Bindings[l]), Bindings_Capacity[l])
          BY <1>1, <2>1, <3>1
        <4>2. Bindings[l] \in Seq(Phase) /\ Bindings_Capacity[l] \in Nat
          BY <1>1
        <4>3. Len(Bindings[l]) \in Nat /\ Len(Append(Bindings[l], p)) = Len(Bindings[l]) + 1
          BY <4>2
        <4>4. Len(Bindings[l]) <= Bindings_Capacity[l]
          BY DEF BindingsFit
        <4>5. Len(Bindings[l]) + 1 <= Grow(Len(Bindings[l]), Bindings_Capacity[l])
          BY <4>2, <4>3, <4>4, GrowMakesRoom
        <4>6. QED
          BY <4>1, <4>3, <4>5
      <3>2. CASE m # l
        BY <1>1, <2>1, <3>2 DEF BindingsFit
      <3>3. QED
        BY <3>1, <3>2
    <2>3. QED
      BY <2>2 DEF BindingsFit
  <1>4. CASE ClientCall
    BY <1>2, <1>3, <1>4 DEF ClientCall, add_layer, remove_layer, Detach, SetDestroy,
       bind_phase_ctx, application_event_callback, Stop, layer
  <1>5. CASE Step
    <2>1. CASE CallOnEvent \/ CallPhase \/ Teardown \/ ReturnOnDettach \/ Sweep
      BY <1>2, <2>1 DEF CallOnEvent, CallPhase, Teardown, ReturnOnDettach, Sweep, Detach, Fails,
         layer
    <2>2. CASE \/ RegisterBinding \/ CallOnAttach \/ ReturnOnAttach \/ ReturnOnEvent
               \/ EndDispatch \/ ReturnPhase \/ ReturnTeardown
      BY <1>2, <2>2 DEF RegisterBinding, CallOnAttach, ReturnOnAttach, ReturnOnEvent,
         EndDispatch, ReturnPhase, ReturnTeardown, layer
    <2>3. CASE \/ RunApplication \/ BeginFrame \/ NextBucket \/ EndPhases \/ EndSweep
               \/ EndRun \/ DestroyApplication \/ EndTeardown
      BY <1>2, <2>3 DEF RunApplication, BeginFrame, NextBucket, EndPhases, EndSweep, EndRun,
         DestroyApplication, EndTeardown, layer
    <2>4. QED
      BY <1>5, <2>1, <2>2, <2>3 DEF Step
  <1>6. CASE UNCHANGED vars
    BY <1>2, <1>6 DEF vars, layer
  <1>7. QED
    BY <1>4, <1>5, <1>6 DEF Next, Ended

-----------------------------------------------------------------------------
(* What the frames of the stack owe: add_layer's loop is not interrupted,  *)
(* and an event that is being dispatched has still to reach the layers it  *)
(* is due to and has not called; below another call a dispatch is waiting  *)
(* for the handler of the layer at its index.                              *)
RegistersOnTop(s) == \A n \in DOMAIN s : s[n].fn = "register" => n = Len(s)

OwesEvents(s, L) ==
    \A n \in DOMAIN s : s[n].fn = "dispatch" =>
        \A l \in s[n].due \ s[n].seen :
            \E k \in DOMAIN L : /\ L[k] = l /\ s[n].i <= k
                                /\ n < Len(s) => s[n].i < k

Dispatches(s, L) == RegistersOnTop(s) /\ OwesEvents(s, L)

(* One more call, from a callback or from the loop, that may have appended *)
(* a layer.                                                                *)
LEMMA PushDispatches ==
    ASSUME NEW s \in Seq(StackFrame), NEW L \in Seq(Layer), Dispatches(s, L),
           NEW f \in StackFrame, s # << >> => s[Len(s)].fn \in Callback,
           NEW M \in Seq(Layer), \A k \in DOMAIN L : k \in DOMAIN M /\ M[k] = L[k],
           f.fn = "dispatch" => f.i = 1 /\ f.due = ToSet(M)
    PROVE  Dispatches(Append(s, f), M)
  <1> DEFINE t == Append(s, f)
  <1>1. /\ Len(s) \in Nat /\ DOMAIN s = 1..Len(s)
        /\ t \in Seq(StackFrame) /\ Len(t) = Len(s) + 1 /\ DOMAIN t = 1..Len(s) + 1
        /\ \A n \in 1..Len(s) : t[n] = s[n]
        /\ t[Len(s) + 1] = f
    OBVIOUS
  <1> HIDE DEF t
  <1>2. ASSUME NEW n \in DOMAIN s
        PROVE  s[n].fn # "register" /\ (s[n].fn = "dispatch" => n < Len(s))
    BY <1>1 DEF Dispatches, RegistersOnTop, Callback
  <1>3. RegistersOnTop(t)
    BY <1>1, <1>2 DEF RegistersOnTop
  <1>4. ASSUME NEW n \in DOMAIN t, t[n].fn = "dispatch", NEW l \in t[n].due \ t[n].seen
        PROVE  \E k \in DOMAIN M : M[k] = l /\ t[n].i <= k /\ (n < Len(t) => t[n].i < k)
    <2>1. CASE n \in DOMAIN s
      <3>1. t[n] = s[n] /\ n < Len(s)
        BY <1>1, <1>2, <1>4, <2>1
      <3>2. PICK k \in DOMAIN L : L[k] = l /\ s[n].i <= k /\ (n < Len(s) => s[n].i < k)
        BY <1>4, <2>1, <3>1 DEF Dispatches, OwesEvents
      <3>3. QED
        BY <3>1, <3>2
    <2>2. CASE n = Len(s) + 1
      <3>1. t[n] = f /\ f.i = 1 /\ l \in ToSet(M)
        BY <1>1, <1>4, <2>2
      <3>2. PICK k \in DOMAIN M : M[k] = l
        BY <3>1 DEF ToSet
      <3>3. k \in Nat /\ 1 <= k
        OBVIOUS
      <3>4. QED
        BY <1>1, <2>2, <3>1, <3>2, <3>3
    <2>3. QED
      BY <1>1, <1>4, <2>1, <2>2
  <1>5. QED
    BY <1>3, <1>4 DEF Dispatches, OwesEvents, t

(* The return from a call.                                                 *)
LEMMA PopDispatches ==
    ASSUME NEW s \in Seq(StackFrame), NEW L \in Seq(Layer), Dispatches(s, L), s # << >>
    PROVE  Dispatches(Front(s), L)
  <1> DEFINE t == Front(s)
  <1>1. PICK N \in Nat : N = Len(s) - 1 /\ Len(s) = N + 1 /\ DOMAIN s = 1..N + 1
    OBVIOUS
  <1>2. Len(t) = N /\ DOMAIN t = 1..N /\ \A n \in 1..N : t[n] = s[n]
    BY <1>1, FrontIsShorter
  <1> HIDE DEF t
  <1>3. RegistersOnTop(t)
    BY <1>1, <1>2 DEF Dispatches, RegistersOnTop
  <1>4. ASSUME NEW n \in DOMAIN t, t[n].fn = "dispatch", NEW l \in t[n].due \ t[n].seen
        PROVE  \E k \in DOMAIN L : L[k] = l /\ t[n].i <= k /\ (n < Len(t) => t[n].i < k)
    <2>1. n \in DOMAIN s /\ t[n] = s[n] /\ n < Len(s)
      BY <1>1, <1>2, <1>4
    <2>2. PICK k \in DOMAIN L : L[k] = l /\ s[n].i <= k /\ (n < Len(s) => s[n].i < k)
      BY <1>4, <2>1 DEF Dispatches, OwesEvents
    <2>3. QED
      BY <2>1, <2>2
  <1>5. QED
    BY <1>3, <1>4 DEF Dispatches, OwesEvents, t

(* A call that is no dispatch becomes another that is none.                *)
LEMMA TouchDispatches ==
    ASSUME NEW s \in Seq(StackFrame), NEW L \in Seq(Layer), Dispatches(s, L), s # << >>,
           NEW f \in StackFrame, f.fn # "dispatch"
    PROVE  Dispatches([s EXCEPT ![Len(s)] = f], L)
  <1> DEFINE t == [s EXCEPT ![Len(s)] = f]
  <1>1. Len(s) \in Nat \ {0} /\ DOMAIN s = 1..Len(s)
    OBVIOUS
  <1>2. /\ Len(t) = Len(s) /\ DOMAIN t = DOMAIN s
        /\ \A n \in DOMAIN s : n # Len(s) => t[n] = s[n]
        /\ t[Len(s)] = f
    BY <1>1
  <1> HIDE DEF t
  <1>3. RegistersOnTop(t)
    BY <1>1, <1>2 DEF Dispatches, RegistersOnTop
  <1>4. ASSUME NEW n \in DOMAIN t, t[n].fn = "dispatch", NEW l \in t[n].due \ t[n].seen
        PROVE  \E k \in DOMAIN L : L[k] = l /\ t[n].i <= k /\ (n < Len(t) => t[n].i < k)
    <2>1. n \in DOMAIN s /\ t[n] = s[n]
      BY <1>1, <1>2, <1>4
    <2>2. PICK k \in DOMAIN L : L[k] = l /\ s[n].i <= k /\ (n < Len(s) => s[n].i < k)
      BY <1>4, <2>1 DEF Dispatches, OwesEvents
    <2>3. QED
      BY <1>2, <2>1, <2>2
  <1>5. QED
    BY <1>3, <1>4 DEF Dispatches, OwesEvents, t

(* The top of the stack is a callback when the client makes a call.        *)
LEMMA ClientOnTop ==
    ASSUME Typed, NEW op, NEW broken, NEW builds, ClientCalls(op, broken, builds)
    PROVE  /\ fault = "none" /\ (stack # << >> => stack[Len(stack)].fn \in Callback)
           /\ (stack = << >> => pc = "setup")
           /\ misuse' = misuse \cup broken
    BY DEF ClientCalls, Top

(* A layer leaves the registry: a dispatch owes its event no longer to it, *)
(* nor to the last one if that moves to a place the dispatch has passed.   *)
LEMMA DetachDispatches ==
    ASSUME Typed, Dispatches(stack, Layers), NEW l \in Layer, Detach(l),
           stack # << >> => stack[Len(stack)].fn \in Callback
    PROVE  Dispatches(stack, Layers)'
  <1> DEFINE Due(n, k) == stack[n].due \ ({l} \cup
                             IF k <= stack[n].i THEN {Last(Layers)} ELSE {})
  <1>1. PICK k \in DOMAIN Layers :
            /\ Layers[k] = l /\ Layers' = SwapRemove(Layers, k)
            /\ stack' = Append([n \in DOMAIN stack |-> [stack[n] EXCEPT !.due = Due(n, k)]],
                               Call("OnDettach", l))
    BY DEF Detach
  <1>2. Layers \in Seq(Layer) /\ stack \in Seq(StackFrame)
    BY DEF Typed, TypeOK
  <1> DEFINE t == [n \in DOMAIN stack |-> [stack[n] EXCEPT !.due = Due(n, k)]]
  <1>3. ASSUME NEW n \in DOMAIN stack
        PROVE  /\ t[n] \in StackFrame /\ t[n].fn = stack[n].fn /\ t[n].i = stack[n].i
               /\ t[n].seen = stack[n].seen /\ t[n].due = Due(n, k)
    <2>1. stack[n] \in StackFrame
      BY <1>2
    <2>2. Due(n, k) \in SUBSET Layer
      BY <2>1 DEF StackFrame
    <2> HIDE DEF Due
    <2>3. t[n] = [stack[n] EXCEPT !.due = Due(n, k)]
      OBVIOUS
    <2>4. QED
      BY <2>1, <2>2, <2>3 DEF StackFrame
  <1>4. Last(Layers) = Layers[Len(Layers)]
    BY DEF Last
  <1>5. /\ Len(Layers) \in Nat \ {0} /\ DOMAIN Layers = 1..Len(Layers)
        /\ Layers' \in Seq(Layer) /\ DOMAIN Layers' = 1..Len(Layers) - 1
        /\ \A n \in 1..Len(Layers) - 1 : Layers'[n] = IF n = k THEN Layers[Len(Layers)]
                                                      ELSE Layers[n]
    BY <1>1, <1>2, SwapRemoveAt
  <1>6. PICK N \in Nat : N = Len(stack) /\ DOMAIN stack = 1..N
    BY <1>2
  <1>7. t \in Seq(StackFrame) /\ Len(t) = N /\ DOMAIN t = 1..N
    BY <1>3, <1>6
  <1>8. stack' = Append(t, Call("OnDettach", l))
    BY <1>1
  <1> HIDE DEF t
  <1>9. Call("OnDettach", l) \in StackFrame /\ Call("OnDettach", l).fn = "OnDettach"
    BY CallIsFrame DEF Callback
  <1>10. /\ Len(stack') = N + 1 /\ DOMAIN stack' = 1..N + 1
         /\ \A n \in 1..N : stack'[n] = t[n]
         /\ stack'[N + 1] = Call("OnDettach", l)
    BY <1>7, <1>8, <1>9
  <1>11. ASSUME NEW n \in 1..N
         PROVE  stack[n].fn # "register" /\ (stack[n].fn = "dispatch" => n < N)
    BY <1>6 DEF Dispatches, RegistersOnTop, Callback
  <1>12. RegistersOnTop(stack')
    BY <1>3, <1>6, <1>9, <1>10, <1>11 DEF RegistersOnTop
  <1>13. ASSUME NEW n \in DOMAIN stack', stack'[n].fn = "dispatch",
                NEW m \in stack'[n].due \ stack'[n].seen
         PROVE  \E h \in DOMAIN Layers' : /\ Layers'[h] = m /\ stack'[n].i <= h
                                          /\ n < Len(stack') => stack'[n].i < h
    <2>1. n \in 1..N
      BY <1>9, <1>10, <1>13
    <2>2. stack'[n] = t[n] /\ stack[n].fn = "dispatch" /\ n < N
      BY <1>3, <1>6, <1>10, <1>11, <1>13, <2>1
    <2>3. /\ stack'[n].i = stack[n].i /\ stack[n].i \in Nat
          /\ m \in stack[n].due \ stack[n].seen
          /\ m # l /\ (k <= stack[n].i => m # Layers[Len(Layers)])
      <3>1. stack[n] \in StackFrame
        BY <1>2, <1>6, <2>1
      <3>2. QED
        BY <1>3, <1>4, <1>6, <1>13, <2>1, <2>2, <3>1 DEF StackFrame
    <2>4. PICK h \in DOMAIN Layers : Layers[h] = m /\ stack[n].i < h
      BY <1>6, <2>1, <2>2, <2>3 DEF Dispatches, OwesEvents
    <2>5. h # k
      BY <1>1, <2>3, <2>4
    <2>6. CASE h < Len(Layers)
      <3>1. h \in DOMAIN Layers' /\ Layers'[h] = m
        BY <1>5, <2>4, <2>5, <2>6
      <3>2. QED
        BY <1>5, <2>3, <2>4, <3>1
    <2>7. CASE h = Len(Layers)
      <3>1. stack[n].i < k
        BY <1>5, <2>3, <2>4, <2>7
      <3>2. k \in DOMAIN Layers' /\ Layers'[k] = m
        BY <1>5, <2>4, <2>5, <2>7
      <3>3. QED
        BY <1>5, <2>3, <3>1, <3>2
    <2>8. QED
      BY <1>5, <2>4, <2>6, <2>7
  <1>14. QED
    BY <1>12, <1>13 DEF Dispatches, OwesEvents

(* The dispatch calls the layer at its index, which it then has called.    *)
LEMMA CallDispatches ==
    ASSUME Typed, Dispatches(stack, Layers), CallOnEvent
    PROVE  Dispatches(stack, Layers)'
  <1>1. TypeOK /\ StackShape /\ stack \in Seq(StackFrame) /\ Layers \in Seq(Layer)
    BY DEF Typed, TypeOK
  <1>2. CASE UNCHANGED <<stack, Layers>>
    BY <1>2 DEF Dispatches, RegistersOnTop, OwesEvents
  <1>3. CASE ~UNCHANGED <<stack, Layers>>
    <2>1. /\ stack # << >> /\ Len(stack) \in DOMAIN stack /\ Top \in StackFrame
          /\ Top.fn = "dispatch" /\ Top = stack[Len(stack)]
      BY <1>1, TopOfStack DEF CallOnEvent, Top
    <2>2. Top.i \in DOMAIN Layers
      BY <1>1, <2>1 DEF CallOnEvent, StackFrame
    <2>3. PICK m \in Layer : m = Layers[Top.i]
      BY <1>1, <2>2
    <2>4. /\ stack' = Append([stack EXCEPT ![Len(stack)].seen = @ \cup {m}], Call("OnEvent", m))
          /\ Layers' = Layers
      BY <1>3, <2>3 DEF CallOnEvent, Fails, registry
    <2> DEFINE f == [Top EXCEPT !.seen = @ \cup {m}]
               t == [stack EXCEPT ![Len(stack)] = f]
    <2>5. /\ f \in StackFrame /\ f.fn = "dispatch" /\ f.i = Top.i
          /\ f.due = Top.due /\ f.seen = Top.seen \cup {m}
      BY <2>1 DEF StackFrame
    <2>6. stack' = Append(t, Call("OnEvent", m))
      BY <2>1, <2>4
    <2> HIDE DEF f
    <2>7. PICK N \in Nat \ {0} : N = Len(stack) /\ DOMAIN stack = 1..N
      BY <1>1, <2>1
    <2>8. /\ t \in Seq(StackFrame) /\ Len(t) = N /\ DOMAIN t = 1..N /\ t[N] = f
          /\ \A n \in 1..N : n # N => t[n] = stack[n]
      BY <1>1, <2>5, <2>7
    <2> HIDE DEF t
    <2>9. Call("OnEvent", m) \in StackFrame /\ Call("OnEvent", m).fn = "OnEvent"
      BY CallIsFrame DEF Callback
    <2>10. /\ Len(stack') = N + 1 /\ DOMAIN stack' = 1..N + 1
           /\ \A n \in 1..N : stack'[n] = t[n]
           /\ stack'[N + 1] = Call("OnEvent", m)
      BY <2>6, <2>8, <2>9
    <2>11. RegistersOnTop(stack')
      <3>1. \A n \in 1..N : stack[n].fn # "register"
        BY <2>1, <2>7 DEF Dispatches, RegistersOnTop
      <3>2. QED
        BY <2>5, <2>8, <2>9, <2>10, <3>1 DEF RegistersOnTop
    <2>12. ASSUME NEW n \in DOMAIN stack', stack'[n].fn = "dispatch",
                  NEW l \in stack'[n].due \ stack'[n].seen
           PROVE  \E k \in DOMAIN Layers' : /\ Layers'[k] = l /\ stack'[n].i <= k
                                            /\ n < Len(stack') => stack'[n].i < k
      <3>1. n \in 1..N
        BY <2>9, <2>10, <2>12
      <3>2. CASE n < N
        <4>1. stack'[n] = stack[n] /\ n # N
          BY <2>8, <2>10, <3>1, <3>2
        <4>2. PICK k \in DOMAIN Layers : Layers[k] = l /\ stack[n].i <= k /\ stack[n].i < k
          BY <2>7, <2>12, <3>1, <3>2, <4>1 DEF Dispatches, OwesEvents
        <4>3. QED
          BY <2>4, <4>1, <4>2
      <3>3. CASE n = N
        <4>1. stack'[n] = f /\ stack[n] = Top
          BY <2>1, <2>7, <2>8, <2>10, <3>1, <3>3
        <4>2. l \in Top.due \ Top.seen /\ l # m /\ f.i = Top.i /\ Top.i \in Nat
          BY <1>1, <2>2, <2>5, <2>12, <4>1
        <4>3. PICK k \in DOMAIN Layers : Layers[k] = l /\ Top.i <= k
          BY <2>1, <2>7, <4>1, <4>2, <3>1 DEF Dispatches, OwesEvents
        <4>4. k # Top.i /\ k \in Nat
          BY <1>1, <2>3, <4>2, <4>3
        <4>5. Top.i < k
          BY <4>2, <4>3, <4>4
        <4>6. QED
          BY <2>4, <4>1, <4>2, <4>3, <4>5
      <3>4. QED
        BY <2>7, <3>1, <3>2, <3>3
    <2>13. QED
      BY <2>11, <2>12 DEF Dispatches, OwesEvents
  <1>4. QED
    BY <1>2, <1>3

(* The handler returns, and the dispatch goes on behind the layer or ends. *)
LEMMA ReturnDispatches ==
    ASSUME Typed, Dispatches(stack, Layers), ReturnOnEvent
    PROVE  Dispatches(stack, Layers)'
  <1>1. TypeOK /\ StackShape /\ stack \in Seq(StackFrame) /\ Layers \in Seq(Layer)
    BY DEF Typed, TypeOK
  <1>2. /\ stack # << >> /\ Len(stack) > 1 /\ stack[Len(stack) - 1].fn = "dispatch"
    BY <1>1, TopOfStack DEF ReturnOnEvent
  <1>3. PICK n \in Nat \ {0} : n = Len(stack) - 1 /\ Len(stack) = n + 1 /\ DOMAIN stack = 1..n + 1
    <2>1. PICK N \in Nat : N = Len(stack) /\ N > 1
      BY <1>1, <1>2
    <2>2. N - 1 \in Nat \ {0} /\ DOMAIN stack = 1..N
      BY <1>1, <2>1
    <2>3. QED
      BY <2>1, <2>2
  <1> DEFINE t == Front(stack)
  <1>4. /\ t \in Seq(StackFrame) /\ Len(t) = n /\ DOMAIN t = 1..n /\ t # << >>
        /\ \A m \in 1..n : t[m] = stack[m]
    BY <1>1, <1>2, <1>3, FrontIsShorter
  <1>5. Dispatches(t, Layers)
    BY <1>1, <1>2, PopDispatches
  <1>6. PICK Handled \in BOOLEAN :
            stack' = IF Handled THEN Front(t) ELSE [t EXCEPT ![n].i = @ + 1]
    BY <1>3 DEF ReturnOnEvent
  <1>7. Layers' = Layers
    BY DEF ReturnOnEvent, registry
  <1> HIDE DEF t
  <1>8. CASE Handled
    <2>1. Dispatches(Front(t), Layers)
      BY <1>1, <1>4, <1>5, PopDispatches
    <2>2. QED
      BY <1>6, <1>7, <1>8, <2>1 DEF Dispatches, RegistersOnTop, OwesEvents
  <1>9. CASE ~Handled
    <2> DEFINE f == [t[n] EXCEPT !.i = @ + 1]
               u == [t EXCEPT ![n] = f]
    <2>1. n \in DOMAIN t /\ t[n] \in StackFrame
      BY <1>4
    <2>2. /\ f.fn = t[n].fn /\ f.i = t[n].i + 1 /\ t[n].i \in Nat
          /\ f.due = t[n].due /\ f.seen = t[n].seen
      BY <2>1 DEF StackFrame
    <2>3. stack' = u
      BY <1>6, <1>9, <2>1
    <2> HIDE DEF f
    <2>4. Len(u) = n /\ DOMAIN u = 1..n /\ u[n] = f /\ \A m \in 1..n : m # n => u[m] = t[m]
      BY <1>4
    <2> HIDE DEF u
    <2>5. RegistersOnTop(u)
      BY <1>4, <1>5, <2>2, <2>4 DEF Dispatches, RegistersOnTop
    <2>6. ASSUME NEW m \in 1..n, u[m].fn = "dispatch", NEW l \in u[m].due \ u[m].seen
          PROVE  \E k \in DOMAIN Layers : /\ Layers[k] = l /\ u[m].i <= k
                                          /\ m < n => u[m].i < k
      <3>1. CASE m = n
        <4>1. m < Len(stack) /\ stack[m] = t[n] /\ m \in DOMAIN stack
          BY <1>3, <1>4, <3>1
        <4>2. PICK k \in DOMAIN Layers : Layers[k] = l /\ t[n].i < k
          BY <2>2, <2>4, <2>6, <3>1, <4>1 DEF Dispatches, OwesEvents
        <4>3. k \in Nat
          BY <1>1
        <4>4. t[n].i + 1 <= k
          BY <2>2, <4>2, <4>3
        <4>5. QED
          BY <2>2, <2>4, <3>1, <4>2, <4>4
      <3>2. CASE m # n
        <4>1. u[m] = t[m] /\ m \in DOMAIN t
          BY <1>4, <2>4, <3>2
        <4>2. QED
          BY <1>4, <1>5, <2>6, <4>1 DEF Dispatches, OwesEvents
      <3>3. QED
        BY <3>1, <3>2
    <2>7. Dispatches(u, Layers)
      BY <2>4, <2>5, <2>6 DEF Dispatches, OwesEvents
    <2>8. QED
      BY <1>7, <2>3, <2>7 DEF Dispatches, RegistersOnTop, OwesEvents
  <1>10. QED
    BY <1>8, <1>9

LEMMA DispatchesNext ==
    ASSUME Typed, Dispatches(stack, Layers), [Next]_vars
    PROVE  Dispatches(stack, Layers)'
  <1>1. /\ Typed' /\ TypeOK /\ StackShape /\ TypeOK'
        /\ stack \in Seq(StackFrame) /\ Layers \in Seq(Layer) /\ Layers' \in Seq(Layer)
    BY TypedNext DEF Typed, TypeOK
  <1>2. CASE UNCHANGED <<stack, Layers>>
    BY <1>2 DEF Dispatches, RegistersOnTop, OwesEvents
  <1>3. ASSUME Pop, stack # << >>, Layers' = Layers PROVE Dispatches(stack, Layers)'
    <2>1. Dispatches(Front(stack), Layers)
      BY <1>1, <1>3, PopDispatches
    <2>2. QED
      BY <1>3, <2>1 DEF Pop, Dispatches, RegistersOnTop, OwesEvents
  <1>4. ASSUME NEW f \in StackFrame, Push(f), stack # << >> => stack[Len(stack)].fn \in Callback,
               \A k \in DOMAIN Layers : k \in DOMAIN Layers' /\ Layers'[k] = Layers[k],
               f.fn = "dispatch" => f.i = 1 /\ f.due = ToSet(Layers')
        PROVE  Dispatches(stack, Layers)'
    <2>1. Dispatches(Append(stack, f), Layers')
      BY <1>1, <1>4, PushDispatches
    <2>2. QED
      BY <1>4, <2>1 DEF Push, Dispatches, RegistersOnTop, OwesEvents
  <1>5. ASSUME NEW fn \in Callback \cup {"register"}, NEW l \in Layer, Push(Call(fn, l)),
               stack # << >> => stack[Len(stack)].fn \in Callback,
               \A k \in DOMAIN Layers : k \in DOMAIN Layers' /\ Layers'[k] = Layers[k]
        PROVE  Dispatches(stack, Layers)'
    <2>1. Call(fn, l) \in StackFrame /\ Call(fn, l).fn # "dispatch"
      BY CallIsFrame DEF Callback
    <2>2. QED
      BY <1>4, <1>5, <2>1
  <1>6. CASE ClientCall
    <2>1. ASSUME NEW l \in Layer, add_layer(l) PROVE Dispatches(stack, Layers)'
      <3>1. stack # << >> => stack[Len(stack)].fn \in Callback
        BY <2>1, ClientOnTop DEF add_layer
      <3>2. Push(Call("register", l)) /\ Layers' = Append(Layers, l)
        BY <2>1 DEF add_layer
      <3>3. \A k \in DOMAIN Layers : k \in DOMAIN Layers' /\ Layers'[k] = Layers[k]
        BY <1>1, <3>2
      <3>4. QED
        BY <1>5, <3>1, <3>2, <3>3
    <2>2. ASSUME NEW l \in Layer, remove_layer(l) PROVE Dispatches(stack, Layers)'
      BY <2>2, DetachDispatches, ClientOnTop DEF remove_layer
    <2>3. ASSUME application_event_callback PROVE Dispatches(stack, Layers)'
      <3> DEFINE f == [Call("dispatch", NULL) EXCEPT !.due = ToSet(Layers)]
      <3>1. stack # << >> => stack[Len(stack)].fn \in Callback
        BY <2>3, ClientOnTop DEF application_event_callback
      <3>2. f \in StackFrame /\ f.i = 1 /\ f.due = ToSet(Layers)
        <4>1. Call("dispatch", NULL) \in StackFrame /\ Call("dispatch", NULL).i = 1
          BY CallIsFrame DEF Call
        <4>2. ToSet(Layers) \in SUBSET Layer
          BY <1>1 DEF ToSet
        <4>3. QED
          BY <4>1, <4>2 DEF StackFrame
      <3>3. Push(f) /\ Layers' = Layers
        BY <2>3 DEF application_event_callback, registry
      <3> HIDE DEF f
      <3>4. QED
        BY <1>4, <3>1, <3>2, <3>3
    <2>4. QED
      BY <1>2, <1>6, <2>1, <2>2, <2>3 DEF ClientCall, SetDestroy, bind_layer_phase,
         bind_phase_ctx, Stop, registry
  <1>7. CASE Step
    <2>1. CASE RegisterBinding \/ CallOnAttach
      <3>1. In("register")
        BY <2>1 DEF RegisterBinding, CallOnAttach
      <3>2. /\ stack # << >> /\ Len(stack) \in DOMAIN stack /\ Top \in StackFrame
            /\ Top.fn = "register" /\ Top = stack[Len(stack)]
        BY <1>1, <3>1, TopOfStack DEF Top
      <3>3. PICK f \in StackFrame : /\ f.fn \in {"register", "OnAttach"}
                                    /\ stack' = [stack EXCEPT ![Len(stack)] = f]
        <4>1. CASE RegisterBinding
          <5>1. stack' = [stack EXCEPT ![Len(stack)] = [Top EXCEPT !.i = @ + 1]]
            BY <3>2, <4>1 DEF RegisterBinding
          <5>2. [Top EXCEPT !.i = @ + 1] \in StackFrame /\ [Top EXCEPT !.i = @ + 1].fn = "register"
            BY <3>2 DEF StackFrame
          <5>3. QED
            BY <5>1, <5>2
        <4>2. CASE CallOnAttach
          <5>1. stack' = [stack EXCEPT ![Len(stack)] = [Top EXCEPT !.fn = "OnAttach"]]
            BY <3>2, <4>2 DEF CallOnAttach
          <5>2. /\ [Top EXCEPT !.fn = "OnAttach"] \in StackFrame
                /\ [Top EXCEPT !.fn = "OnAttach"].fn = "OnAttach"
            BY <3>2 DEF StackFrame, Callback
          <5>3. QED
            BY <5>1, <5>2
        <4>3. QED
          BY <2>1, <4>1, <4>2
      <3>4. Dispatches([stack EXCEPT ![Len(stack)] = f], Layers)
        BY <1>1, <3>2, <3>3, TouchDispatches
      <3>5. Layers' = Layers
        BY <2>1 DEF RegisterBinding, CallOnAttach, registry
      <3>6. QED
        BY <3>3, <3>4, <3>5 DEF Dispatches, RegistersOnTop, OwesEvents
    <2>2. CASE ReturnOnAttach \/ ReturnPhase \/ ReturnTeardown \/ EndDispatch
      BY <1>3, <2>2 DEF ReturnOnAttach, ReturnPhase, ReturnTeardown, EndDispatch, In, registry
    <2>3. CASE ReturnOnDettach
      <3>1. CASE Fails("binding")
        BY <1>2, <3>1 DEF Fails, registry
      <3>2. CASE ~Fails("binding")
        BY <1>3, <2>3, <3>2 DEF ReturnOnDettach, In
      <3>3. QED
        BY <3>1, <3>2
    <2>4. CASE CallPhase
      <3>1. CASE Fails("bucket") \/ Fails("binding")
        BY <1>2, <3>1 DEF Fails, registry
      <3>2. CASE ~(Fails("bucket") \/ Fails("binding"))
        <4>1. Push(Call("phase", Bucket.Bindings[j].Layer)) /\ Layers' = Layers /\ stack = << >>
          BY <2>4, <3>2 DEF CallPhase, At, registry
        <4>2. Bucket.Bindings[j].Layer \in Layer
          <5>1. j \in DOMAIN Bucket.Bindings /\ Bucket.Bindings \in Seq(BindingPointer)
            <6>1. i \in DOMAIN Phase_Buckets /\ Phase_Buckets \in Seq(PhaseBucket) /\ j \in Nat \ {0}
              <7>1. i \in Nat \ {0} /\ Phase_Buckets \in Seq(PhaseBucket) /\ j \in Nat \ {0}
                BY <1>1 DEF TypeOK
              <7>2. i <= Len(Phase_Buckets)
                BY <2>4 DEF CallPhase
              <7>3. QED
                BY <7>1, <7>2
            <6>2. Bucket \in PhaseBucket
              BY <6>1 DEF Bucket
            <6>3. Bucket.Bindings \in Seq(BindingPointer)
              BY <6>2 DEF PhaseBucket
            <6>4. QED
              BY <2>4, <3>2, <6>1, <6>3 DEF CallPhase
          <5>2. Bucket.Bindings[j] \in BindingPointer
            BY <5>1
          <5>3. QED
            BY <5>2 DEF BindingPointer
        <4>3. QED
          BY <1>5, <4>1, <4>2 DEF Callback
      <3>3. QED
        BY <3>1, <3>2
    <2>5. CASE Teardown
      <3>1. CASE Fails("freed")
        BY <1>2, <3>1 DEF Fails, registry
      <3>2. CASE ~Fails("freed")
        <4>1. Push(Call("teardown", Layers[i])) /\ Layers' = Layers /\ stack = << >>
          BY <2>5, <3>2 DEF Teardown, At, registry
        <4>2. Layers[i] \in Layer
          BY <1>1, <2>5 DEF Teardown, TypeOK
        <4>3. QED
          BY <1>5, <4>1, <4>2 DEF Callback
      <3>3. QED
        BY <3>1, <3>2
    <2>6. CASE Sweep
      <3>1. ASSUME NEW l \in Layer, Detach(l) PROVE Dispatches(stack, Layers)'
        BY <2>6, <3>1, DetachDispatches DEF Sweep, At
      <3>2. Layers[i] \in Layer
        BY <1>1, <2>6 DEF Sweep, TypeOK
      <3>3. QED
        BY <1>2, <2>6, <3>1, <3>2 DEF Sweep, registry
    <2>7. CASE CallOnEvent \/ ReturnOnEvent
      BY <2>7, CallDispatches, ReturnDispatches
    <2>8. CASE \/ RunApplication \/ BeginFrame \/ NextBucket \/ EndPhases \/ EndSweep
               \/ EndRun \/ DestroyApplication \/ EndTeardown
      BY <1>2, <2>8 DEF RunApplication, BeginFrame, NextBucket, EndPhases, EndSweep, EndRun,
         DestroyApplication, EndTeardown, registry
    <2>9. QED
      BY <1>7, <2>1, <2>2, <2>3, <2>4, <2>5, <2>6, <2>7, <2>8 DEF Step
  <1>8. CASE UNCHANGED vars
    BY <1>2, <1>8 DEF vars, registry
  <1>9. QED
    BY <1>6, <1>7, <1>8 DEF Next, Ended

LEMMA DispatchesInit == Init => Dispatches(stack, Layers)
    BY DEF Init, Dispatches, RegistersOnTop, OwesEvents

-----------------------------------------------------------------------------
(* What a step does to the calls in progress, for whatever reason it does. *)

SameCall(f, g) == f.fn = g.fn /\ f.layer = g.layer

(* From s to t one more call is made.                                      *)
Calls(s, t, fn, l) ==
    /\ Len(t) = Len(s) + 1 /\ DOMAIN t = 1..Len(s) + 1
    /\ \A n \in DOMAIN s : SameCall(t[n], s[n])
    /\ t[Len(s) + 1].fn = fn /\ t[Len(s) + 1].layer = l

(* From s to t calls return, or none does.                                 *)
Returns(s, t) ==
    /\ Len(t) <= Len(s)
    /\ \A n \in DOMAIN t : n \in DOMAIN s /\ SameCall(t[n], s[n])

LEMMA AppendCalls ==
    ASSUME NEW s \in Seq(StackFrame), NEW t \in Seq(StackFrame), Len(t) = Len(s),
           \A n \in DOMAIN s : SameCall(t[n], s[n]),
           NEW f \in StackFrame
    PROVE  Calls(s, Append(t, f), f.fn, f.layer)
  <1> DEFINE u == Append(t, f)
  <1>1. PICK N \in Nat : N = Len(s) /\ DOMAIN s = 1..N /\ Len(t) = N
    OBVIOUS
  <1>2. Len(u) = N + 1 /\ DOMAIN u = 1..N + 1 /\ u[N + 1] = f /\ \A n \in 1..N : u[n] = t[n]
    BY <1>1
  <1> HIDE DEF u
  <1>3. QED
    BY <1>1, <1>2 DEF Calls, SameCall, u

LEMMA PushCalls ==
    ASSUME Typed, NEW f \in StackFrame, Push(f)
    PROVE  Calls(stack, stack', f.fn, f.layer)
  <1>1. stack \in Seq(StackFrame) /\ stack' = Append(stack, f)
    BY DEF Typed, TypeOK, Push
  <1>2. QED
    BY <1>1, AppendCalls DEF SameCall

LEMMA DetachCalls ==
    ASSUME Typed, NEW l \in Layer, Detach(l)
    PROVE  Calls(stack, stack', "OnDettach", l)
  <1> DEFINE Due(n, k) == stack[n].due \ ({l} \cup
                             IF k <= stack[n].i THEN {Last(Layers)} ELSE {})
  <1>1. PICK k \in DOMAIN Layers :
            stack' = Append([n \in DOMAIN stack |-> [stack[n] EXCEPT !.due = Due(n, k)]],
                            Call("OnDettach", l))
    BY DEF Detach
  <1> DEFINE t == [n \in DOMAIN stack |-> [stack[n] EXCEPT !.due = Due(n, k)]]
  <1>2. stack \in Seq(StackFrame)
    BY DEF Typed, TypeOK
  <1>3. ASSUME NEW n \in DOMAIN stack
        PROVE  t[n] \in StackFrame /\ SameCall(t[n], stack[n])
    <2>1. stack[n] \in StackFrame
      BY <1>2
    <2>2. Due(n, k) \in SUBSET Layer
      BY <2>1 DEF StackFrame
    <2> HIDE DEF Due
    <2>3. t[n] = [stack[n] EXCEPT !.due = Due(n, k)]
      OBVIOUS
    <2>4. QED
      BY <2>1, <2>2, <2>3 DEF StackFrame, SameCall
  <1>4. stack' = Append(t, Call("OnDettach", l))
    BY <1>1
  <1>5. PICK N \in Nat : N = Len(stack) /\ DOMAIN stack = 1..N
    BY <1>2
  <1>6. t \in Seq(StackFrame) /\ Len(t) = Len(stack)
    BY <1>3, <1>5
  <1> HIDE DEF t
  <1>7. Call("OnDettach", l) \in StackFrame /\ Call("OnDettach", l).fn = "OnDettach"
        /\ Call("OnDettach", l).layer = l
    BY CallIsFrame DEF Callback
  <1>8. QED
    BY <1>2, <1>3, <1>4, <1>6, <1>7, AppendCalls

LEMMA OnEventCalls ==
    ASSUME Typed, CallOnEvent, ~Fails("freed")
    PROVE  Top.i \in DOMAIN Layers /\ Calls(stack, stack', "OnEvent", Layers[Top.i])
  <1>1. TypeOK /\ StackShape /\ stack \in Seq(StackFrame) /\ Layers \in Seq(Layer)
    BY DEF Typed, TypeOK
  <1>2. /\ stack # << >> /\ Len(stack) \in DOMAIN stack /\ Top \in StackFrame
        /\ Top.fn = "dispatch" /\ Top = stack[Len(stack)]
    BY <1>1, TopOfStack DEF CallOnEvent, Top
  <1>3. Top.i \in DOMAIN Layers
    BY <1>1, <1>2 DEF CallOnEvent, StackFrame
  <1>4. PICK m \in Layer : m = Layers[Top.i]
    BY <1>1, <1>3
  <1> DEFINE f == [Top EXCEPT !.seen = @ \cup {m}]
             t == [stack EXCEPT ![Len(stack)] = f]
  <1>5. f \in StackFrame /\ SameCall(f, Top)
    BY <1>2 DEF StackFrame, SameCall
  <1>6. stack' = Append(t, Call("OnEvent", m))
    BY <1>2, <1>4 DEF CallOnEvent
  <1> HIDE DEF f
  <1>7. t \in Seq(StackFrame) /\ Len(t) = Len(stack) /\ \A n \in DOMAIN stack : SameCall(t[n], stack[n])
    BY <1>1, <1>2, <1>5 DEF SameCall
  <1> HIDE DEF t
  <1>8. Call("OnEvent", m) \in StackFrame /\ Call("OnEvent", m).fn = "OnEvent"
        /\ Call("OnEvent", m).layer = m
    BY CallIsFrame DEF Callback
  <1>9. QED
    BY <1>1, <1>3, <1>4, <1>6, <1>7, <1>8, AppendCalls

(* CallPhase finds a binding, and calls its layer's callback.              *)
LEMMA PhaseCalls ==
    ASSUME Typed, CallPhase, ~Fails("bucket"), ~Fails("binding")
    PROVE  /\ i \in DOMAIN Phase_Buckets /\ j \in DOMAIN Bucket.Bindings
           /\ Bucket \in PhaseBucket /\ Bucket.Bindings[j] \in BindingPointer
           /\ Calls(stack, stack', "phase", Bucket.Bindings[j].Layer)
  <1>1. /\ TypeOK /\ i \in Nat \ {0} /\ j \in Nat \ {0} /\ Phase_Buckets \in Seq(PhaseBucket)
    BY DEF Typed, TypeOK
  <1>2. i \in DOMAIN Phase_Buckets
    BY <1>1 DEF CallPhase
  <1>3. Bucket \in PhaseBucket
    BY <1>1, <1>2 DEF Bucket
  <1>4. Bucket.Bindings \in Seq(BindingPointer)
    BY <1>3 DEF PhaseBucket
  <1>5. j \in DOMAIN Bucket.Bindings
    BY <1>1, <1>4 DEF CallPhase
  <1>6. Bucket.Bindings[j] \in BindingPointer
    BY <1>4, <1>5
  <1>7. PICK l \in Layer : l = Bucket.Bindings[j].Layer
    BY <1>6 DEF BindingPointer
  <1>8. Push(Call("phase", l))
    BY <1>7 DEF CallPhase
  <1>9. Call("phase", l) \in StackFrame /\ Call("phase", l).fn = "phase"
        /\ Call("phase", l).layer = l
    BY CallIsFrame DEF Callback
  <1>10. QED
    BY <1>2, <1>3, <1>5, <1>6, <1>7, <1>8, <1>9, PushCalls

LEMMA TeardownCalls ==
    ASSUME Typed, Teardown, ~Fails("freed")
    PROVE  i \in DOMAIN Layers /\ Calls(stack, stack', "teardown", Layers[i])
  <1>1. i \in DOMAIN Layers /\ Layers[i] \in Layer
    BY DEF Typed, TypeOK, Teardown
  <1>2. Push(Call("teardown", Layers[i]))
    BY DEF Teardown
  <1>3. Call("teardown", Layers[i]) \in StackFrame /\ Call("teardown", Layers[i]).fn = "teardown"
        /\ Call("teardown", Layers[i]).layer = Layers[i]
    BY <1>1, CallIsFrame DEF Callback
  <1>4. QED
    BY <1>1, <1>2, <1>3, PushCalls

(* The client's two calls that push a frame as they are.                   *)
LEMMA ClientPushes ==
    ASSUME Typed
    PROVE  /\ \A l \in Layer : add_layer(l) => Calls(stack, stack', "register", l)
           /\ application_event_callback => Calls(stack, stack', "dispatch", NULL)
  <1>1. ASSUME NEW l \in Layer, add_layer(l) PROVE Calls(stack, stack', "register", l)
    <2>1. Push(Call("register", l))
      BY <1>1 DEF add_layer
    <2>2. Call("register", l) \in StackFrame /\ Call("register", l).fn = "register"
          /\ Call("register", l).layer = l
      BY CallIsFrame
    <2>3. QED
      BY <2>1, <2>2, PushCalls
  <1>2. ASSUME application_event_callback PROVE Calls(stack, stack', "dispatch", NULL)
    <2> DEFINE f == [Call("dispatch", NULL) EXCEPT !.due = ToSet(Layers)]
    <2>1. Push(f)
      BY <1>2 DEF application_event_callback
    <2>2. f \in StackFrame /\ f.fn = "dispatch" /\ f.layer = NULL
      <3>1. Call("dispatch", NULL) \in StackFrame /\ Call("dispatch", NULL).fn = "dispatch"
            /\ Call("dispatch", NULL).layer = NULL
        BY CallIsFrame
      <3>2. ToSet(Layers) \in SUBSET Layer
        BY DEF Typed, TypeOK, ToSet
      <3>3. QED
        BY <3>1, <3>2 DEF StackFrame
    <2> HIDE DEF f
    <2>3. QED
      BY <2>1, <2>2, PushCalls
  <1>3. QED
    BY <1>1, <1>2

LEMMA PopReturns ==
    ASSUME Typed, Pop, stack # << >>
    PROVE  /\ Returns(stack, stack') /\ Len(stack') = Len(stack) - 1
           /\ Len(stack) \in Nat \ {0} /\ DOMAIN stack = 1..Len(stack)
           /\ DOMAIN stack' = 1..Len(stack) - 1
           /\ \A n \in 1..Len(stack) - 1 : stack'[n] = stack[n]
  <1>1. stack \in Seq(StackFrame) /\ stack' = Front(stack)
    BY DEF Typed, TypeOK, Pop
  <1>2. PICK N \in Nat : N = Len(stack) - 1 /\ Len(stack) = N + 1 /\ DOMAIN stack = 1..N + 1
    BY <1>1
  <1>3. Len(stack') = N /\ DOMAIN stack' = 1..N /\ \A n \in 1..N : stack'[n] = stack[n]
    BY <1>1, <1>2, FrontIsShorter
  <1>4. QED
    BY <1>2, <1>3 DEF Returns, SameCall

(* The handler, and perhaps its dispatch, return.                          *)
LEMMA OnEventReturns ==
    ASSUME Typed, ReturnOnEvent
    PROVE  /\ Returns(stack, stack')
           /\ \A n \in DOMAIN stack \ DOMAIN stack' : stack[n].fn \in {"OnEvent", "dispatch"}
  <1>1. TypeOK /\ StackShape /\ stack \in Seq(StackFrame)
    BY DEF Typed, TypeOK
  <1>2. /\ stack # << >> /\ Len(stack) > 1 /\ stack[Len(stack) - 1].fn = "dispatch"
        /\ stack[Len(stack)].fn = "OnEvent"
    BY <1>1, TopOfStack DEF ReturnOnEvent, Top
  <1>3. PICK n \in Nat \ {0} : n = Len(stack) - 1 /\ Len(stack) = n + 1 /\ DOMAIN stack = 1..n + 1
    <2>1. PICK N \in Nat : N = Len(stack) /\ N > 1
      BY <1>1, <1>2
    <2>2. N - 1 \in Nat \ {0} /\ DOMAIN stack = 1..N
      BY <1>1, <2>1
    <2>3. QED
      BY <2>1, <2>2
  <1> DEFINE t == Front(stack)
  <1>4. /\ t \in Seq(StackFrame) /\ Len(t) = n /\ DOMAIN t = 1..n /\ t # << >>
        /\ \A m \in 1..n : t[m] = stack[m]
    BY <1>1, <1>2, <1>3, FrontIsShorter
  <1>5. PICK Handled \in BOOLEAN :
            stack' = IF Handled THEN Front(t) ELSE [t EXCEPT ![n].i = @ + 1]
    BY <1>3 DEF ReturnOnEvent
  <1> HIDE DEF t
  <1>6. CASE Handled
    <2>1. PICK N \in Nat : N = n - 1 /\ n = N + 1
      BY <1>3
    <2>2. Len(Front(t)) = N /\ DOMAIN Front(t) = 1..N /\ \A m \in 1..N : Front(t)[m] = t[m]
      BY <1>4, <2>1, FrontIsShorter
    <2>3. stack' = Front(t)
      BY <1>5, <1>6
    <2>4. \A m \in 1..N : stack'[m] = stack[m] /\ m \in DOMAIN stack
      BY <1>2, <1>3, <1>4, <2>1, <2>2, <2>3
    <2>5. Len(stack') = N /\ DOMAIN stack' = 1..N /\ Len(stack') <= Len(stack)
      BY <1>3, <2>1, <2>2, <2>3
    <2>6. Returns(stack, stack')
      BY <2>4, <2>5 DEF Returns, SameCall
    <2>7. ASSUME NEW m \in DOMAIN stack \ DOMAIN stack' PROVE stack[m].fn \in {"OnEvent", "dispatch"}
      <3>1. m = Len(stack) \/ m = Len(stack) - 1
        BY <1>2, <1>3, <2>1, <2>5, <2>7
      <3>2. QED
        BY <1>2, <3>1
    <2>8. QED
      BY <2>6, <2>7
  <1>7. CASE ~Handled
    <2> DEFINE f == [t[n] EXCEPT !.i = @ + 1]
               u == [t EXCEPT ![n] = f]
    <2>1. n \in DOMAIN t /\ t[n] \in StackFrame
      BY <1>4
    <2>2. SameCall(f, t[n])
      BY <2>1 DEF StackFrame, SameCall
    <2>3. stack' = u
      BY <1>5, <1>7, <2>1
    <2> HIDE DEF f
    <2>4. Len(u) = n /\ DOMAIN u = 1..n /\ u[n] = f /\ \A m \in 1..n : m # n => u[m] = t[m]
      BY <1>4
    <2> HIDE DEF u
    <2>5. QED
      BY <1>2, <1>3, <1>4, <2>2, <2>3, <2>4 DEF Returns, SameCall
  <1>8. QED
    BY <1>6, <1>7

(* Steps of the library that neither call nor return from anything.        *)
LEMMA RegisterReturns ==
    ASSUME Typed, RegisterBinding
    PROVE  Returns(stack, stack') /\ Len(stack') = Len(stack) /\ DOMAIN stack' = DOMAIN stack
  <1>1. stack \in Seq(StackFrame) /\ Len(stack) \in Nat /\ DOMAIN stack = 1..Len(stack)
    BY DEF Typed, TypeOK
  <1>2. /\ Len(stack) \in DOMAIN stack /\ Top \in StackFrame /\ Top = stack[Len(stack)]
    BY TopOfStack DEF Typed, RegisterBinding, Top
  <1> DEFINE f == [Top EXCEPT !.i = @ + 1]
             u == [stack EXCEPT ![Len(stack)] = f]
  <1>3. stack' = u
    BY <1>2 DEF RegisterBinding
  <1>4. SameCall(f, Top)
    BY <1>2 DEF StackFrame, SameCall
  <1> HIDE DEF f
  <1>5. Len(u) = Len(stack) /\ DOMAIN u = DOMAIN stack
        /\ \A n \in DOMAIN stack : u[n] = IF n = Len(stack) THEN f ELSE stack[n]
    BY <1>1
  <1> HIDE DEF u
  <1>6. QED
    BY <1>1, <1>2, <1>3, <1>4, <1>5 DEF Returns, SameCall

-----------------------------------------------------------------------------
(* Teardown.                                                               *)

(* The layers destroy_layer_registry has freed, and those it has begun     *)
(* with, are the first of Layers.                                          *)
Released == IF pc = "done" THEN Len(Layers) ELSE IF pc = "teardown" THEN i - 1 ELSE 0
Begun == IF pc = "teardown" /\ stack # << >> THEN i ELSE Released

QuietTeardown ==
    /\ Begun <= Len(Layers)
    /\ freed = {Layers[k] : k \in 1..Released}
    /\ pc = "done" => stack = << >>
    /\ pc = "teardown" /\ stack # << >> =>
            Len(stack) = 1 /\ Top.fn = "teardown" /\ Top.layer = Layers[i]

TeardownFrames == \A n \in DOMAIN stack : stack[n].fn = "teardown" => pc = "teardown"

TearsDown ==
    /\ TeardownFrames
    /\ "quiet_teardown" \in misuse => pc \in {"teardown", "done"}
    /\ "quiet_teardown" \notin misuse => QuietTeardown

(* What a client call leaves alone, and that rules stay broken.            *)
LEMMA ClientLeaves ==
    ASSUME Typed, ClientCall
    PROVE  /\ UNCHANGED <<pc, i, j, freed, fault, pass>>
           /\ misuse \subseteq misuse'
           /\ fault = "none" /\ (stack # << >> => stack[Len(stack)].fn \in Callback)
           /\ (stack = << >> => pc = "setup")
  <1>1. PICK op, broken, builds : ClientCalls(op, broken, builds)
    BY DEF ClientCall, add_layer, remove_layer, SetDestroy, bind_layer_phase, bind_phase_ctx,
       application_event_callback, Stop
  <1>2. UNCHANGED <<pc, i, j, freed, fault, pass>>
    BY DEF ClientCall, add_layer, remove_layer, SetDestroy, bind_layer_phase, bind_phase_ctx,
       application_event_callback, Stop, Detach
  <1>3. QED
    BY <1>1, <1>2, ClientOnTop

LEMMA TeardownFramesNext ==
    ASSUME Typed, TeardownFrames, [Next]_vars
    PROVE  TeardownFrames'
  <1>1. ASSUME stack' = stack, pc' = pc PROVE TeardownFrames'
    BY <1>1 DEF TeardownFrames
  <1>2. ASSUME stack' = << >> PROVE TeardownFrames'
    BY <1>2 DEF TeardownFrames
  <1>3. ASSUME Returns(stack, stack'), pc' = pc PROVE TeardownFrames'
    BY <1>3 DEF TeardownFrames, Returns, SameCall
  <1>4. ASSUME NEW fn, NEW l, Calls(stack, stack', fn, l), pc' = pc,
               fn = "teardown" => pc = "teardown"
        PROVE  TeardownFrames'
    <2>1. stack \in Seq(StackFrame) /\ Len(stack) \in Nat /\ DOMAIN stack = 1..Len(stack)
      BY DEF Typed, TypeOK
    <2>2. QED
      BY <1>4, <2>1 DEF TeardownFrames, Calls, SameCall
  <1>5. ASSUME NEW l \in Layer, Detach(l) PROVE TeardownFrames'
    BY <1>4, <1>5, DetachCalls DEF Detach
  <1>6. CASE ClientCall
    <2>1. ASSUME NEW l \in Layer, add_layer(l) PROVE TeardownFrames'
      BY <1>4, <2>1, ClientPushes DEF add_layer
    <2>2. ASSUME application_event_callback PROVE TeardownFrames'
      BY <1>4, <2>2, ClientPushes DEF application_event_callback
    <2>3. QED
      BY <1>1, <1>5, <1>6, <2>1, <2>2 DEF ClientCall, remove_layer, SetDestroy,
         bind_layer_phase, bind_phase_ctx, Stop
  <1>7. CASE Step
    <2>1. CASE RegisterBinding
      BY <1>3, <2>1, RegisterReturns DEF RegisterBinding
    <2>2. CASE CallOnAttach
      <3>1. stack \in Seq(StackFrame) /\ Len(stack) \in Nat /\ DOMAIN stack = 1..Len(stack)
        BY DEF Typed, TypeOK
      <3>2. /\ Len(stack) \in DOMAIN stack /\ Top \in StackFrame /\ Top = stack[Len(stack)]
        BY <2>2, TopOfStack DEF Typed, CallOnAttach, Top
      <3>3. /\ stack' = [stack EXCEPT ![Len(stack)] = [Top EXCEPT !.fn = "OnAttach"]]
            /\ [Top EXCEPT !.fn = "OnAttach"].fn = "OnAttach" /\ pc' = pc
        BY <2>2, <3>2 DEF CallOnAttach, StackFrame
      <3>4. \A n \in DOMAIN stack' : n \in DOMAIN stack /\ stack'[n].fn \in {stack[n].fn, "OnAttach"}
        BY <3>1, <3>2, <3>3
      <3>5. QED
        BY <3>3, <3>4 DEF TeardownFrames
    <2>3. CASE ReturnOnAttach \/ ReturnPhase \/ ReturnTeardown \/ EndDispatch
      BY <1>3, <2>3, PopReturns DEF ReturnOnAttach, ReturnPhase, ReturnTeardown, EndDispatch, In
    <2>4. CASE ReturnOnDettach
      <3>1. CASE Fails("binding")
        BY <1>1, <3>1 DEF Fails
      <3>2. CASE ~Fails("binding")
        BY <1>3, <2>4, <3>2, PopReturns DEF ReturnOnDettach, In
      <3>3. QED
        BY <3>1, <3>2
    <2>5. CASE ReturnOnEvent
      BY <1>3, <2>5, OnEventReturns DEF ReturnOnEvent
    <2>6. CASE CallOnEvent
      <3>1. CASE Fails("freed")
        BY <1>1, <3>1 DEF Fails
      <3>2. CASE ~Fails("freed")
        <4>1. Calls(stack, stack', "OnEvent", Layers[Top.i])
          BY <2>6, <3>2, OnEventCalls
        <4>2. pc' = pc
          BY <2>6, <3>2 DEF CallOnEvent
        <4>3. QED
          BY <1>4, <4>1, <4>2
      <3>3. QED
        BY <3>1, <3>2
    <2>7. CASE CallPhase
      <3>1. CASE Fails("bucket") \/ Fails("binding")
        BY <1>1, <3>1 DEF Fails
      <3>2. CASE ~(Fails("bucket") \/ Fails("binding"))
        BY <1>4, <2>7, <3>2, PhaseCalls DEF CallPhase
      <3>3. QED
        BY <3>1, <3>2
    <2>8. CASE Teardown
      <3>1. CASE Fails("freed")
        BY <1>1, <3>1 DEF Fails
      <3>2. CASE ~Fails("freed")
        BY <1>4, <2>8, <3>2, TeardownCalls DEF Teardown, At
      <3>3. QED
        BY <3>1, <3>2
    <2>9. CASE Sweep
      <3>1. i \in DOMAIN Layers /\ Layers[i] \in Layer
        BY <2>9 DEF Typed, TypeOK, Sweep
      <3>2. QED
        BY <1>1, <1>5, <2>9, <3>1 DEF Sweep
    <2>10. CASE \/ RunApplication \/ BeginFrame \/ NextBucket \/ EndPhases \/ EndSweep
                \/ EndRun \/ DestroyApplication \/ EndTeardown
      <3>1. stack' = << >>
        BY <2>10 DEF RunApplication, BeginFrame, NextBucket, EndPhases, EndSweep, EndRun,
           DestroyApplication, EndTeardown, At
      <3>2. QED
        BY <1>2, <3>1
    <2>11. QED
      BY <1>7, <2>1, <2>2, <2>3, <2>4, <2>5, <2>6, <2>7, <2>8, <2>9, <2>10 DEF Step
  <1>8. CASE UNCHANGED vars
    BY <1>1, <1>8 DEF vars
  <1>9. QED
    BY <1>6, <1>7, <1>8 DEF Next, Ended

(* Before the teardown nothing is freed.                                   *)
LEMMA BeforeTeardown ==
    ASSUME Typed', TearsDown, TeardownFrames', freed' = freed,
           pc \notin {"teardown", "done"}, pc' \notin {"teardown", "done"},
           "quiet_teardown" \notin misuse'
    PROVE  TearsDown'
  <1>1. "quiet_teardown" \notin misuse
    BY DEF TearsDown
  <1>2. freed = {}
    <2>1. Released = 0
      BY DEF Released
    <2>2. QED
      BY <1>1, <2>1 DEF TearsDown, QuietTeardown
  <1>3. Released' = 0 /\ Begun' = 0 /\ Len(Layers') \in Nat
    BY DEF Released, Begun, Typed, TypeOK
  <1>4. freed' = {Layers'[k] : k \in 1..Released'}
    BY <1>2, <1>3
  <1>5. QED
    BY <1>3, <1>4 DEF TearsDown, QuietTeardown

(* What no rule is broken by.                                              *)
LEMMA StepBreaksNothing ==
    Typed /\ Step => misuse' = misuse
  BY DEF Step, RegisterBinding, CallOnAttach, ReturnOnAttach,
           ReturnOnDettach, CallOnEvent, ReturnOnEvent, EndDispatch, RunApplication, BeginFrame, CallPhase,
           ReturnPhase, NextBucket, EndPhases, Sweep, EndSweep, EndRun, DestroyApplication,
           Teardown, ReturnTeardown, EndTeardown, Detach, Fails, client

LEMMA TearsDownNext ==
    ASSUME Typed, TearsDown, [Next]_vars
    PROVE  TearsDown'
  <1>1. Typed' /\ TeardownFrames'
    BY TypedNext, TeardownFramesNext DEF TearsDown
  <1>2. /\ Layers \in Seq(Layer) /\ Len(Layers) \in Nat /\ DOMAIN Layers = 1..Len(Layers)
        /\ stack \in Seq(StackFrame) /\ Len(stack) \in Nat /\ DOMAIN stack = 1..Len(stack)
        /\ i \in Nat \ {0} /\ misuse \in SUBSET Rule
    BY DEF Typed, TypeOK
  <1>3. ASSUME "quiet_teardown" \in misuse', pc' \in {"teardown", "done"} PROVE TearsDown'
    BY <1>1, <1>3 DEF TearsDown
  <1>4. ASSUME UNCHANGED <<Layers, stack, pc, i, freed, misuse>> PROVE TearsDown'
    <2>1. Released' = Released /\ Begun' = Begun
      BY <1>4 DEF Released, Begun
    <2>2. QED
      BY <1>1, <1>4, <2>1 DEF TearsDown, QuietTeardown, Top
  <1>5. CASE ClientCall
    <2>1. /\ UNCHANGED <<pc, i, freed>> /\ misuse \subseteq misuse'
          /\ (stack # << >> => stack[Len(stack)].fn \in Callback) /\ (stack = << >> => pc = "setup")
      BY <1>5, ClientLeaves
    <2>2. CASE "quiet_teardown" \in misuse
      BY <1>3, <2>1, <2>2 DEF TearsDown
    <2>3. CASE "quiet_teardown" \notin misuse /\ pc \notin {"teardown", "done"}
      <3>1. "quiet_teardown" \notin misuse'
        <4>1. ASSUME NEW l \in Layer, add_layer(l) \/ remove_layer(l) \/ SetDestroy(l)
              PROVE  "quiet_teardown" \notin misuse'
          BY <2>3, <4>1 DEF add_layer, remove_layer, SetDestroy, ClientCalls, Breaks
        <4>2. ASSUME NEW l \in Layer, NEW p \in Phase, bind_layer_phase(l, p)
              PROVE  "quiet_teardown" \notin misuse'
          BY <2>3, <4>2 DEF bind_layer_phase, ClientCalls, Breaks
        <4>3. ASSUME NEW p \in Phase, NEW ctx \in Context, bind_phase_ctx(p, ctx)
              PROVE  "quiet_teardown" \notin misuse'
          BY <2>3, <4>3 DEF bind_phase_ctx, ClientCalls, Breaks
        <4>4. ASSUME application_event_callback \/ Stop
              PROVE  "quiet_teardown" \notin misuse'
          BY <2>3, <4>4 DEF application_event_callback, Stop, ClientCalls, Breaks
        <4>5. QED
          BY <1>5, <4>1, <4>2, <4>3, <4>4 DEF ClientCall
      <3>2. QED
        BY <1>1, <2>1, <2>3, <3>1, BeforeTeardown
    <2>4. CASE "quiet_teardown" \notin misuse /\ pc = "done"
      BY <2>1, <2>4 DEF TearsDown, QuietTeardown
    <2>5. CASE "quiet_teardown" \notin misuse /\ pc = "teardown"
      <3>1. ASSUME NEW l \in Layer, add_layer(l) \/ remove_layer(l) PROVE TearsDown'
        <4>1. "quiet_teardown" \in misuse'
          BY <2>5, <3>1 DEF add_layer, remove_layer, ClientCalls, Breaks
        <4>2. QED
          BY <1>3, <2>1, <2>5, <4>1
      <3>2. ASSUME application_event_callback PROVE TearsDown'
        <4>1. "quiet_teardown" \in misuse'
          BY <2>5, <3>2 DEF application_event_callback, ClientCalls, Breaks
        <4>2. QED
          BY <1>3, <2>1, <2>5, <4>1
      <3>3. ASSUME UNCHANGED <<Layers, stack>>,
                   "quiet_teardown" \notin misuse'
            PROVE  TearsDown'
        <4>1. Released' = Released /\ Begun' = Begun
          BY <2>1, <3>3 DEF Released, Begun
        <4>2. QED
          BY <1>1, <2>1, <2>5, <3>3, <4>1 DEF TearsDown, QuietTeardown, Top
      <3>4. ASSUME NEW l \in Layer, NEW p \in Phase, bind_layer_phase(l, p) PROVE TearsDown'
        <4>1. UNCHANGED <<Layers, stack>> /\ "quiet_teardown" \notin misuse'
          BY <2>5, <3>4 DEF bind_layer_phase, ClientCalls, Breaks, registry
        <4>2. QED
          BY <3>3, <4>1
      <3>5. ASSUME NEW ctx \in Context, NEW p \in Phase, bind_phase_ctx(p, ctx) PROVE TearsDown'
        <4>1. UNCHANGED <<Layers, stack>> /\ "quiet_teardown" \notin misuse'
          BY <2>5, <3>5 DEF bind_phase_ctx, ClientCalls, Breaks
        <4>2. QED
          BY <3>3, <4>1
      <3>6. ASSUME NEW l \in Layer, SetDestroy(l) PROVE TearsDown'
        <4>1. UNCHANGED <<Layers, stack>> /\ "quiet_teardown" \notin misuse'
          BY <2>5, <3>6 DEF SetDestroy, ClientCalls, registry
        <4>2. QED
          BY <3>3, <4>1
      <3>7. ASSUME Stop PROVE TearsDown'
        <4>1. UNCHANGED <<Layers, stack>> /\ "quiet_teardown" \notin misuse'
          BY <2>5, <3>7 DEF Stop, ClientCalls, registry
        <4>2. QED
          BY <3>3, <4>1
      <3>8. QED
        BY <1>5, <3>1, <3>2, <3>4, <3>5, <3>6, <3>7 DEF ClientCall
    <2>6. QED
      BY <2>2, <2>3, <2>4, <2>5
  <1>6. CASE Step
    <2>1. misuse' = misuse
      BY <1>6, StepBreaksNothing
    <2>2. CASE "quiet_teardown" \in misuse
      <3>1. pc \in {"teardown", "done"} /\ pc' \in {"teardown", "done"}
        <4>1. pc \in {"teardown", "done"}
          BY <2>2 DEF TearsDown
        <4>2. QED
          BY <1>6, <4>1 DEF Step, RegisterBinding, CallOnAttach, ReturnOnAttach,
           ReturnOnDettach, CallOnEvent, ReturnOnEvent, EndDispatch, RunApplication, BeginFrame,
           CallPhase, ReturnPhase, NextBucket, EndPhases, Sweep, EndSweep, EndRun,
           DestroyApplication, Teardown, ReturnTeardown, EndTeardown, Detach, Fails, At, Goto
      <3>2. QED
        BY <1>3, <2>1, <2>2, <3>1
    <2>3. CASE "quiet_teardown" \notin misuse /\ pc \notin {"teardown", "done"}
      <3>1. CASE DestroyApplication
        <4>1. pc' = "teardown" /\ i' = 1 /\ stack = << >> /\ stack' = << >> /\ freed' = freed
              /\ Layers' = Layers
          BY <3>1 DEF DestroyApplication, Goto, At, registry
        <4>2. Released = 0 /\ Released' = 0 /\ Begun' = 0
          BY <2>3, <4>1 DEF Released, Begun
        <4>3. freed = {}
          BY <2>3, <4>2 DEF TearsDown, QuietTeardown
        <4>4. QED
          BY <1>1, <1>2, <2>1, <2>3, <4>1, <4>2, <4>3 DEF TearsDown, QuietTeardown
      <3>2. CASE ~DestroyApplication
        <4>1. pc' \notin {"teardown", "done"}
          BY <1>6, <2>3, <3>2 DEF Step, RegisterBinding, CallOnAttach, ReturnOnAttach,
           ReturnOnDettach, CallOnEvent, ReturnOnEvent, EndDispatch, RunApplication, BeginFrame,
           CallPhase, ReturnPhase, NextBucket, EndPhases, Sweep, EndSweep, EndRun,
           Teardown, ReturnTeardown, EndTeardown, Detach, Fails, At, Goto
        <4>2. ~ReturnTeardown
          <5>1. ASSUME ReturnTeardown PROVE FALSE
            <6>1. stack # << >> /\ Len(stack) \in DOMAIN stack /\ stack[Len(stack)].fn = "teardown"
              BY <5>1, TopOfStack DEF Typed, ReturnTeardown, Top
            <6>2. QED
              BY <2>3, <6>1 DEF TearsDown, TeardownFrames
          <5>2. QED
            BY <5>1
        <4>3. freed' = freed
          BY <1>6, <3>2, <4>2 DEF Step, RegisterBinding, CallOnAttach, ReturnOnAttach,
           ReturnOnDettach, CallOnEvent, ReturnOnEvent, EndDispatch, RunApplication, BeginFrame,
           CallPhase, ReturnPhase, NextBucket, EndPhases, Sweep, EndSweep, EndRun,
           Teardown, EndTeardown, Detach, Fails
        <4>4. QED
          BY <1>1, <2>1, <2>3, <4>1, <4>3, BeforeTeardown
      <3>3. QED
        BY <3>1, <3>2
    <2>4. CASE "quiet_teardown" \notin misuse /\ pc = "done"
      <3>1. stack = << >>
        BY <2>4 DEF TearsDown, QuietTeardown
      <3>2. FALSE
        BY <1>6, <2>4, <3>1 DEF Step, RegisterBinding, CallOnAttach, ReturnOnAttach,
           ReturnOnDettach, CallOnEvent, ReturnOnEvent, EndDispatch, RunApplication, BeginFrame,
           CallPhase, ReturnPhase, NextBucket, EndPhases, Sweep, EndSweep, EndRun,
           DestroyApplication, Teardown, ReturnTeardown, EndTeardown, At, In
      <3>3. QED
        BY <3>2
    <2>5. CASE "quiet_teardown" \notin misuse /\ pc = "teardown"
      <3>1. /\ stack # << >> => Len(stack) = 1 /\ Top.fn = "teardown" /\ Top.layer = Layers[i]
            /\ Begun <= Len(Layers) /\ freed = {Layers[k] : k \in 1..Released}
            /\ Released = i - 1
        BY <2>5 DEF TearsDown, QuietTeardown, Released
      <3>2. CASE Teardown
        <4>1. CASE Fails("freed")
          BY <1>4, <4>1 DEF Fails, registry, client
        <4>2. CASE ~Fails("freed")
          <5>1. /\ i \in DOMAIN Layers /\ stack = << >> /\ Len(stack') = 1 /\ DOMAIN stack' = 1..1
                /\ stack'[1].fn = "teardown" /\ stack'[1].layer = Layers[i]
            BY <1>2, <3>2, <4>2, TeardownCalls DEF Calls, Teardown, At
          <5>2. UNCHANGED <<Layers, pc, i, freed, misuse>>
            BY <3>2, <4>2 DEF Teardown, registry, client
          <5>3. Released' = Released /\ Begun' = i /\ i <= Len(Layers)
            BY <1>2, <2>5, <5>1, <5>2 DEF Released, Begun
          <5>4. Top' = stack'[1]
            BY <5>1 DEF Top
          <5>5. QED
            BY <1>1, <2>5, <3>1, <5>1, <5>2, <5>3, <5>4 DEF TearsDown, QuietTeardown
        <4>3. QED
          BY <4>1, <4>2
      <3>3. CASE ReturnTeardown
        <4>1. /\ stack # << >> /\ pc' = pc /\ Layers' = Layers /\ i' = i + 1
              /\ freed' = freed \cup {Top.layer}
          BY <3>3 DEF ReturnTeardown, In, registry
        <4>2. Begun = i /\ i <= Len(Layers) /\ Top.layer = Layers[i] /\ Len(stack) = 1
          BY <2>5, <3>1, <4>1 DEF Begun
        <4>3. stack' = << >>
          <5>1. DOMAIN stack' = 1..0 /\ stack' \in Seq(StackFrame)
            <6>1. Pop
              BY <3>3 DEF ReturnTeardown
            <6>2. DOMAIN stack' = 1..Len(stack) - 1
              BY <4>1, <6>1, PopReturns
            <6>3. stack' \in Seq(StackFrame)
              BY <1>1 DEF Typed, TypeOK
            <6>4. QED
              BY <4>2, <6>2, <6>3
          <5>2. QED
            BY <5>1
        <4>4. Released' = i /\ Begun' = i
          BY <1>2, <2>5, <4>1, <4>3 DEF Released, Begun
        <4>5. 1..i = 1..(i - 1) \cup {i}
          BY <1>2
        <4>6. freed' = {Layers[k] : k \in 1..i}
          BY <3>1, <4>1, <4>2, <4>5
        <4>7. QED
          BY <1>1, <2>1, <2>5, <4>1, <4>2, <4>3, <4>4, <4>6 DEF TearsDown, QuietTeardown
      <3>4. CASE EndTeardown
        <4>1. /\ stack = << >> /\ stack' = << >> /\ pc' = "done" /\ Layers' = Layers
              /\ i > Len(Layers) /\ freed' = freed
          BY <3>4 DEF EndTeardown, At, Goto, registry
        <4>2. Begun = i - 1
          BY <2>5, <3>1, <4>1 DEF Begun
        <4>3. Released' = Len(Layers) /\ Begun' = Len(Layers) /\ i - 1 = Len(Layers)
          BY <1>2, <3>1, <4>1, <4>2 DEF Released, Begun
        <4>4. QED
          BY <1>1, <1>2, <2>1, <2>5, <3>1, <4>1, <4>3 DEF TearsDown, QuietTeardown
      <3>5. CASE ~(Teardown \/ ReturnTeardown \/ EndTeardown)
        BY <1>6, <2>5, <3>1, <3>5 DEF Step, RegisterBinding, CallOnAttach, ReturnOnAttach,
           ReturnOnDettach, CallOnEvent, ReturnOnEvent, EndDispatch, RunApplication, BeginFrame,
           CallPhase, ReturnPhase, NextBucket, EndPhases, Sweep, EndSweep, EndRun,
           DestroyApplication, At, In
      <3>6. QED
        BY <3>2, <3>3, <3>4, <3>5
    <2>6. QED
      BY <2>2, <2>3, <2>4, <2>5
  <1>7. CASE UNCHANGED vars
    BY <1>4, <1>7 DEF vars, registry, client
  <1>8. QED
    BY <1>5, <1>6, <1>7 DEF Next, Ended

(* Which steps change the array of layers.                                 *)
LEMMA LayersChange ==
    ASSUME Typed, [Next]_vars
    PROVE  \/ Layers' = Layers
           \/ \E l \in Layer : add_layer(l)
           \/ \E l \in Layer : Detach(l) /\ (remove_layer(l) \/ Sweep)
  <1>1. CASE ClientCall
    BY <1>1 DEF ClientCall, remove_layer, SetDestroy, bind_layer_phase,
       bind_phase_ctx, application_event_callback, Stop, registry
  <1>2. CASE Sweep
    <2>1. Layers[i] \in Layer
      BY <1>2 DEF Sweep, Typed, TypeOK
    <2>2. QED
      BY <1>2, <2>1 DEF Sweep, registry
  <1>3. CASE Step /\ ~Sweep
    BY <1>3 DEF Step, RegisterBinding, CallOnAttach, ReturnOnAttach, ReturnOnDettach, CallOnEvent,
       ReturnOnEvent, EndDispatch, RunApplication, BeginFrame, CallPhase, ReturnPhase, NextBucket,
       EndPhases, EndSweep, EndRun, DestroyApplication, Teardown, ReturnTeardown, EndTeardown,
       Fails, registry
  <1>4. CASE UNCHANGED vars
    BY <1>4 DEF vars, registry
  <1>5. QED
    BY <1>1, <1>2, <1>3, <1>4 DEF Next, Ended

LEMMA MisuseGrows == Typed /\ [Next]_vars => misuse \subseteq misuse'
  <1>1. Typed /\ ClientCall => misuse \subseteq misuse'
    BY ClientLeaves
  <1>2. UNCHANGED vars => misuse \subseteq misuse'
    BY DEF vars, client
  <1>3. QED
    BY <1>1, <1>2, StepBreaksNothing DEF Next, Ended

(* No layer is in the registry twice.                                      *)
AddedOnce ==
    "add_once" \notin misuse => \A m, n \in DOMAIN Layers : Layers[m] = Layers[n] => m = n

LEMMA AddedOnceNext ==
    ASSUME Typed, AddedOnce, [Next]_vars PROVE AddedOnce'
  <1>1. Layers \in Seq(Layer) /\ Len(Layers) \in Nat /\ DOMAIN Layers = 1..Len(Layers)
    BY DEF Typed, TypeOK
  <1>2. SUFFICES ASSUME "add_once" \notin misuse',
                        NEW m \in DOMAIN Layers', NEW n \in DOMAIN Layers',
                        Layers'[m] = Layers'[n]
                 PROVE  m = n
    BY DEF AddedOnce
  <1>3. \A h, k \in DOMAIN Layers : Layers[h] = Layers[k] => h = k
    BY <1>2, MisuseGrows DEF AddedOnce
  <1>4. CASE Layers' = Layers
    BY <1>2, <1>3, <1>4
  <1>5. ASSUME NEW l \in Layer, add_layer(l) PROVE m = n
    <2>1. ~Attached(l)
      BY <1>2, <1>5 DEF add_layer, ClientCalls, Breaks
    <2>2. \A k \in DOMAIN Layers : Layers[k] # l
      BY <2>1 DEF Attached, ToSet
    <2>3. PICK N \in Nat : N = Len(Layers) /\ DOMAIN Layers = 1..N
      BY <1>1
    <2>4. /\ DOMAIN Layers' = 1..N + 1 /\ Layers'[N + 1] = l
          /\ \A k \in 1..N : Layers'[k] = Layers[k]
      <3>1. Layers' = Append(Layers, l)
        BY <1>5 DEF add_layer
      <3>2. QED
        BY <1>1, <2>3, <3>1
    <2>5. QED
      BY <1>2, <1>3, <2>2, <2>3, <2>4
  <1>6. ASSUME NEW l \in Layer, Detach(l) PROVE m = n
    <2>1. PICK k \in DOMAIN Layers : Layers' = SwapRemove(Layers, k)
      BY <1>6 DEF Detach
    <2>2. /\ DOMAIN Layers' = 1..Len(Layers) - 1
          /\ \A h \in 1..Len(Layers) - 1 : Layers'[h] = IF h = k THEN Layers[Len(Layers)] ELSE Layers[h]
      BY <1>1, <2>1, SwapRemoveAt
    <2> DEFINE from(h) == IF h = k THEN Len(Layers) ELSE h
    <2>3. \A h \in DOMAIN Layers' : from(h) \in DOMAIN Layers /\ Layers'[h] = Layers[from(h)]
      BY <1>1, <2>2
    <2>4. from(m) = from(n)
      <3> HIDE DEF from
      <3>1. QED
        BY <1>2, <1>3, <2>3
    <2>5. QED
      BY <1>1, <1>2, <2>2, <2>4
  <1>7. QED
    BY <1>4, <1>5, <1>6, LayersChange

(* What a fault comes from.                                                *)
LEMMA FaultChange ==
    ASSUME Typed, [Next]_vars
    PROVE  \/ fault' = fault
           \/ /\ fault = "none" /\ fault' = "freed"
              /\ \/ CallOnEvent /\ Layers[Top.i] \in freed
                 \/ Teardown /\ Layers[i] \in freed
           \/ fault' = "bucket" /\ CallPhase /\ dangling
           \/ fault' = "binding" /\ CallPhase /\ ~dangling /\ Dangles(Bucket.Bindings[j])
           \/ fault' = "binding" /\ ReturnOnDettach
  <1>1. CASE ClientCall
    BY <1>1, ClientLeaves
  <1>2. CASE Step
    <2>1. CASE CallOnEvent
      <3>1. fault = "none"
        BY <2>1 DEF CallOnEvent, In
      <3>2. CASE Layers[Top.i] \in freed
        <4>1. Fails("freed")
          BY <2>1, <3>2 DEF CallOnEvent
        <4>2. fault' = "freed"
          BY <4>1 DEF Fails
        <4>3. QED
          BY <2>1, <3>1, <3>2, <4>2
      <3>3. CASE Layers[Top.i] \notin freed
        <4>1. fault' = fault
          BY <2>1, <3>3 DEF CallOnEvent
        <4>2. QED
          BY <4>1
      <3>4. QED
        BY <3>2, <3>3
    <2>2. CASE Teardown
      <3>1. fault = "none"
        BY <2>2 DEF Teardown, At
      <3>2. CASE Layers[i] \in freed
        <4>1. Fails("freed")
          BY <2>2, <3>2 DEF Teardown
        <4>2. fault' = "freed"
          BY <4>1 DEF Fails
        <4>3. QED
          BY <2>2, <3>1, <3>2, <4>2
      <3>3. CASE Layers[i] \notin freed
        <4>1. fault' = fault
          BY <2>2, <3>3 DEF Teardown
        <4>2. QED
          BY <4>1
      <3>4. QED
        BY <3>2, <3>3
    <2>3. CASE CallPhase
      <3>1. CASE dangling
        <4>1. Fails("bucket")
          BY <2>3, <3>1 DEF CallPhase
        <4>2. fault' = "bucket"
          BY <4>1 DEF Fails
        <4>3. QED
          BY <2>3, <3>1, <4>2
      <3>2. CASE ~dangling /\ Dangles(Bucket.Bindings[j])
        <4>1. Fails("binding")
          BY <2>3, <3>2 DEF CallPhase
        <4>2. fault' = "binding"
          BY <4>1 DEF Fails
        <4>3. QED
          BY <2>3, <3>2, <4>2
      <3>3. CASE ~dangling /\ ~Dangles(Bucket.Bindings[j])
        <4>1. fault' = fault
          BY <2>3, <3>3 DEF CallPhase
        <4>2. QED
          BY <4>1
      <3>4. QED
        BY <3>1, <3>2, <3>3
    <2>4. CASE ReturnOnDettach
      BY <2>4 DEF ReturnOnDettach, Fails
    <2>5. CASE ~(CallOnEvent \/ Teardown \/ CallPhase \/ ReturnOnDettach)
      BY <1>2, <2>5 DEF Step, RegisterBinding, CallOnAttach, ReturnOnAttach, 
       ReturnOnEvent, EndDispatch, RunApplication, BeginFrame, ReturnPhase, NextBucket,
       EndPhases, Sweep, Detach, EndSweep, EndRun, DestroyApplication, ReturnTeardown, EndTeardown
    <2>6. QED
      BY <2>1, <2>2, <2>3, <2>4, <2>5
  <1>3. CASE UNCHANGED vars
    BY <1>3 DEF vars
  <1>4. QED
    BY <1>1, <1>2, <1>3 DEF Next, Ended

(* No layer is used once it is freed.                                      *)
FreedSafe == "add_once" \notin misuse /\ "quiet_teardown" \notin misuse => fault # "freed"

LEMMA FreedSafeNext ==
    ASSUME Typed, TearsDown, AddedOnce, FreedSafe, [Next]_vars PROVE FreedSafe'
  <1>1. /\ Layers \in Seq(Layer) /\ Len(Layers) \in Nat /\ DOMAIN Layers = 1..Len(Layers)
        /\ i \in Nat \ {0}
    BY DEF Typed, TypeOK
  <1>2. SUFFICES ASSUME "add_once" \notin misuse', "quiet_teardown" \notin misuse',
                        fault' = "freed"
                 PROVE  FALSE
    BY DEF FreedSafe
  <1>3. "add_once" \notin misuse /\ "quiet_teardown" \notin misuse
    BY <1>2, MisuseGrows
  <1>4. /\ fault # "freed" /\ freed = {Layers[k] : k \in 1..Released}
        /\ Begun <= Len(Layers) /\ (pc = "done" => stack = << >>)
        /\ pc = "teardown" /\ stack # << >> => Top.fn = "teardown"
        /\ \A m, n \in DOMAIN Layers : Layers[m] = Layers[n] => m = n
    BY <1>3 DEF FreedSafe, TearsDown, QuietTeardown, AddedOnce
  <1>5. CASE CallOnEvent /\ Layers[Top.i] \in freed
    <2>1. stack # << >> /\ Top.fn = "dispatch"
      BY <1>5 DEF CallOnEvent, In
    <2>2. Released = 0
      BY <1>4, <2>1 DEF Released
    <2>3. QED
      BY <1>4, <1>5, <2>2
  <1>6. CASE Teardown /\ Layers[i] \in freed
    <2>1. pc = "teardown" /\ stack = << >> /\ i \in DOMAIN Layers
      BY <1>1, <1>6 DEF Teardown, At
    <2>2. Released = i - 1
      BY <2>1 DEF Released
    <2>3. PICK k \in 1..i - 1 : Layers[k] = Layers[i]
      BY <1>4, <1>6, <2>2
    <2>4. k \in DOMAIN Layers /\ k # i
      BY <1>1, <2>1, <2>3
    <2>5. QED
      BY <1>4, <2>1, <2>3, <2>4
  <1>7. QED
    BY <1>2, <1>4, <1>5, <1>6, FaultChange

-----------------------------------------------------------------------------
(* OnAttach and OnDettach calls.                                           *)

(* A layer is between its place in the array and its OnAttach.             *)
Adds(s, l) ==
    IF s # << >> /\ s[Len(s)].fn = "register" /\ s[Len(s)].layer = l THEN 1 ELSE 0

Remaining(L, b, l) == Cardinality({n \in DOMAIN L : b < n /\ L[n] = l})

AttachesLeft ==
    "quiet_teardown" \notin misuse =>
        \A l \in Layer : live[l] + Adds(stack, l) = Remaining(Layers, Begun, l)

LEMMA RemainingAre ==
    ASSUME NEW L \in Seq(Layer), NEW l \in Layer
    PROVE  /\ Remaining(L, 0, l) = Occurs(L, {l})
           /\ Remaining(L, Len(L), l) = 0
           /\ \A k \in DOMAIN L : Remaining(L, k, l) = Remaining(L, k - 1, l) - One(L[k], {l})
  <1>1. Len(L) \in Nat /\ DOMAIN L = 1..Len(L)
    OBVIOUS
  <1>2. {n \in DOMAIN L : 0 < n /\ L[n] = l} = Places(L, {l})
    BY <1>1 DEF Places
  <1>3. {n \in DOMAIN L : Len(L) < n /\ L[n] = l} = {}
    BY <1>1
  <1>4. ASSUME NEW k \in DOMAIN L
        PROVE  Remaining(L, k, l) = Remaining(L, k - 1, l) - One(L[k], {l})
    <2> DEFINE before == {n \in DOMAIN L : k - 1 < n /\ L[n] = l}
               after == {n \in DOMAIN L : k < n /\ L[n] = l}
    <2>1. after = before \ {k} /\ (k \in before <=> L[k] = l)
      BY <1>1
    <2>2. IsFiniteSet(before)
      <3>1. IsFiniteSet(1..Len(L)) /\ before \in SUBSET (1..Len(L))
        BY <1>1, FS_Interval
      <3>2. QED
        BY <3>1, FS_Subset
    <2> HIDE DEF before, after
    <2>3. /\ Cardinality(after) = IF k \in before THEN Cardinality(before) - 1
                                                  ELSE Cardinality(before)
          /\ Cardinality(before) \in Nat
      BY <2>1, <2>2, FS_RemoveElement, FS_CardinalityType
    <2>4. Cardinality(after) = Cardinality(before) - One(L[k], {l})
      BY <2>1, <2>3 DEF One
    <2>5. QED
      BY <2>4 DEF Remaining, before, after
  <1>5. QED
    BY <1>2, <1>3, <1>4, FS_EmptySet DEF Remaining, Occurs

(* When a call other than add_layer's loop is on top, no layer is being    *)
(* registered anywhere on the stack.                                       *)
NoneAdds(s) == \A n \in DOMAIN s : s[n].fn # "register"

LEMMA NoneRegisters ==
    ASSUME Typed, Dispatches(stack, Layers),
           stack # << >> => stack[Len(stack)].fn # "register"
    PROVE  NoneAdds(stack)
  BY DEF Dispatches, RegistersOnTop, NoneAdds, Typed, TypeOK

LEMMA AddsNone ==
    ASSUME NEW s \in Seq(StackFrame), NoneAdds(s), NEW l
    PROVE  Adds(s, l) = 0
  <1>1. CASE s = << >>
    BY <1>1 DEF Adds
  <1>2. CASE s # << >>
    <2>1. Len(s) \in DOMAIN s
      BY <1>2
    <2>2. QED
      BY <2>1 DEF Adds, NoneAdds
  <1>3. QED
    BY <1>1, <1>2

LEMMA CallsAdds ==
    ASSUME NEW s \in Seq(StackFrame), NEW t \in Seq(StackFrame), NEW fn, NEW m,
           Calls(s, t, fn, m), NEW l
    PROVE  Adds(t, l) = IF fn = "register" /\ m = l THEN 1 ELSE 0
  <1>1. Len(s) \in Nat /\ Len(t) = Len(s) + 1 /\ t # << >>
    BY DEF Calls
  <1>2. t[Len(t)].fn = fn /\ t[Len(t)].layer = m
    BY <1>1 DEF Calls
  <1>3. QED
    BY <1>1, <1>2 DEF Adds

LEMMA ReturnsAdds ==
    ASSUME NEW s, NEW t, NoneAdds(s), Returns(s, t)
    PROVE  NoneAdds(t)
  BY DEF NoneAdds, Returns, SameCall

(* Whether a layer is being registered is changed only by add_layer and    *)
(* when it calls OnAttach.                                                 *)
LEMMA AddsNext ==
    ASSUME Typed, Dispatches(stack, Layers), [Next]_vars, ~CallOnAttach,
           \A m \in Layer : ~add_layer(m), NEW l
    PROVE  Adds(stack', l) = Adds(stack, l)
  <1>1. /\ stack \in Seq(StackFrame) /\ stack' \in Seq(StackFrame) /\ Typed'
        /\ Len(stack) \in Nat /\ DOMAIN stack = 1..Len(stack)
    BY TypedNext DEF Typed, TypeOK
  <1>2. ASSUME stack # << >> => stack[Len(stack)].fn # "register"
        PROVE  Adds(stack, l) = 0
    <2>1. NoneAdds(stack)
      BY <1>2, NoneRegisters
    <2>2. QED
      BY <1>1, <2>1, AddsNone
  <1>3. ASSUME stack # << >> => stack[Len(stack)].fn # "register", Returns(stack, stack')
        PROVE  Adds(stack', l) = Adds(stack, l)
    <2>1. NoneAdds(stack)
      BY <1>3, NoneRegisters
    <2>2. NoneAdds(stack')
      BY <1>3, <2>1, ReturnsAdds
    <2>3. QED
      BY <1>1, <2>1, <2>2, AddsNone
  <1>4. ASSUME stack # << >> => stack[Len(stack)].fn # "register",
               NEW fn, NEW m, Calls(stack, stack', fn, m), fn # "register"
        PROVE  Adds(stack', l) = Adds(stack, l)
    BY <1>1, <1>2, <1>4, CallsAdds
  <1>5. ASSUME NEW m \in Layer, Detach(m), stack # << >> => stack[Len(stack)].fn # "register"
        PROVE  Adds(stack', l) = Adds(stack, l)
    BY <1>4, <1>5, DetachCalls
  <1>6. CASE UNCHANGED stack
    BY <1>6
  <1>7. CASE ClientCall
    <2>1. stack # << >> => stack[Len(stack)].fn # "register"
      BY <1>7, ClientLeaves DEF Callback
    <2>2. ASSUME application_event_callback PROVE Adds(stack', l) = Adds(stack, l)
      BY <1>4, <2>1, <2>2, ClientPushes
    <2>3. QED
      BY <1>5, <1>6, <1>7, <2>1, <2>2 DEF ClientCall, remove_layer, SetDestroy, bind_layer_phase,
         bind_phase_ctx, Stop
  <1>8. CASE Step
    <2>1. ASSUME NEW fn, In(fn), fn # "register"
          PROVE  stack # << >> => stack[Len(stack)].fn # "register"
      BY <2>1 DEF In, Top
    <2>2. CASE RegisterBinding
      <3>1. /\ Len(stack) \in DOMAIN stack /\ Returns(stack, stack') /\ Len(stack') = Len(stack)
            /\ DOMAIN stack' = DOMAIN stack /\ stack # << >>
        BY <2>2, RegisterReturns, TopOfStack DEF Typed, RegisterBinding
      <3>2. SameCall(stack'[Len(stack)], stack[Len(stack)]) /\ stack' # << >>
        BY <1>1, <3>1 DEF Returns
      <3>3. QED
        BY <3>1, <3>2 DEF Adds, SameCall
    <2>3. CASE ReturnOnAttach \/ ReturnPhase \/ ReturnTeardown \/ EndDispatch
      <3>1. Pop /\ stack # << >> /\ stack[Len(stack)].fn # "register"
        BY <2>3 DEF ReturnOnAttach, ReturnPhase, ReturnTeardown, EndDispatch, In, Top
      <3>2. QED
        BY <1>3, <3>1, PopReturns
    <2>4. CASE ReturnOnDettach
      <3>1. CASE Fails("binding")
        BY <1>6, <3>1 DEF Fails
      <3>2. CASE ~Fails("binding")
        <4>1. Pop /\ stack # << >> /\ stack[Len(stack)].fn # "register"
          BY <2>4, <3>2 DEF ReturnOnDettach, In, Top
        <4>2. QED
          BY <1>3, <4>1, PopReturns
      <3>3. QED
        BY <3>1, <3>2
    <2>5. CASE ReturnOnEvent
      <3>1. stack # << >> => stack[Len(stack)].fn # "register"
        BY <2>5 DEF ReturnOnEvent, In, Top
      <3>2. QED
        BY <1>3, <2>5, <3>1, OnEventReturns
    <2>6. CASE CallOnEvent
      <3>1. stack # << >> => stack[Len(stack)].fn # "register"
        BY <2>6 DEF CallOnEvent, In, Top
      <3>2. CASE Fails("freed")
        BY <1>6, <3>2 DEF Fails
      <3>3. CASE ~Fails("freed")
        <4>1. Calls(stack, stack', "OnEvent", Layers[Top.i])
          BY <2>6, <3>3, OnEventCalls
        <4>2. QED
          BY <1>4, <3>1, <4>1
      <3>4. QED
        BY <3>2, <3>3
    <2>7. CASE CallPhase
      <3>1. CASE Fails("bucket") \/ Fails("binding")
        BY <1>6, <3>1 DEF Fails
      <3>2. CASE ~(Fails("bucket") \/ Fails("binding"))
        <4>1. Calls(stack, stack', "phase", Bucket.Bindings[j].Layer)
          BY <2>7, <3>2, PhaseCalls
        <4>2. stack = << >>
          BY <2>7 DEF CallPhase, At
        <4>3. QED
          BY <1>4, <4>1, <4>2
      <3>3. QED
        BY <3>1, <3>2
    <2>8. CASE Teardown
      <3>1. CASE Fails("freed")
        BY <1>6, <3>1 DEF Fails
      <3>2. CASE ~Fails("freed")
        <4>1. Calls(stack, stack', "teardown", Layers[i])
          BY <2>8, <3>2, TeardownCalls
        <4>2. stack = << >>
          BY <2>8 DEF Teardown, At
        <4>3. QED
          BY <1>4, <4>1, <4>2
      <3>3. QED
        BY <3>1, <3>2
    <2>9. CASE Sweep
      <3>1. i \in DOMAIN Layers /\ Layers[i] \in Layer /\ stack = << >>
        BY <2>9 DEF Typed, TypeOK, Sweep, At
      <3>2. QED
        BY <1>5, <1>6, <2>9, <3>1 DEF Sweep
    <2>10. CASE \/ RunApplication \/ BeginFrame \/ NextBucket \/ EndPhases \/ EndSweep
                \/ EndRun \/ DestroyApplication \/ EndTeardown
      BY <1>6, <2>10 DEF RunApplication, BeginFrame, NextBucket, EndPhases, EndSweep, EndRun,
           DestroyApplication, EndTeardown
    <2>11. QED
      BY <1>8, <2>2, <2>3, <2>4, <2>5, <2>6, <2>7, <2>8, <2>9, <2>10 DEF Step
  <1>9. CASE UNCHANGED vars
    BY <1>6, <1>9 DEF vars
  <1>10. QED
    BY <1>7, <1>8, <1>9 DEF Next, Ended

(* A layer leaves the array and gets its OnDettach at once.                *)
LEMMA DetachLayers ==
    ASSUME Typed, NEW l \in Layer, Detach(l), NEW T
    PROVE  /\ Occurs(Layers', T) = Occurs(Layers, T) - One(l, T)
           /\ live' = [live EXCEPT ![l] = @ - 1]
  <1>1. Layers \in Seq(Layer)
    BY DEF Typed, TypeOK
  <1>2. PICK k \in DOMAIN Layers : Layers[k] = l /\ Layers' = SwapRemove(Layers, k)
    BY DEF Detach
  <1>3. /\ Len(Layers) \in Nat \ {0} /\ Layers' \in Seq(Layer)
        /\ DOMAIN Layers' = 1..Len(Layers) - 1
        /\ \A n \in 1..Len(Layers) - 1 : Layers'[n] = IF n = k THEN Layers[Len(Layers)]
                                                      ELSE Layers[n]
    BY <1>1, <1>2, SwapRemoveAt
  <1>4. Len(Layers') = Len(Layers) - 1
    <2>1. PICK N \in Nat : N = Len(Layers) - 1
      BY <1>3
    <2>2. QED
      BY <1>3, <2>1
  <1>5. Occurs(Layers', T) = Occurs(Layers, T) - One(l, T)
    <2>1. \A n \in DOMAIN Layers' : Layers'[n] = IF n = k THEN Layers[Len(Layers)] ELSE Layers[n]
      BY <1>3
    <2>2. Layers' \in Seq(Layer)
      BY <1>3
    <2>3. Occurs(Layers', T) = Occurs(Layers, T) - One(Layers[k], T)
      BY <1>1, <1>4, <2>1, <2>2, OccursRemove
    <2>4. QED
      BY <1>2, <2>3
  <1>6. QED
    BY <1>5 DEF Detach

LEMMA AddLayers ==
    ASSUME Typed, NEW l \in Layer, add_layer(l), NEW T
    PROVE  Occurs(Layers', T) = Occurs(Layers, T) + One(l, T)
  <1>1. Layers \in Seq(Layer) /\ Layers' = Append(Layers, l)
    BY DEF Typed, TypeOK, add_layer
  <1>2. Layers' \in Seq(Layer) /\ Len(Layers') = Len(Layers) + 1
    BY <1>1
  <1>3. Layers'[Len(Layers')] = l
    BY <1>1, <1>2
  <1>4. \A n \in DOMAIN Layers : Layers'[n] = Layers[n]
    BY <1>1
  <1>5. QED
    BY <1>1, <1>2, <1>3, <1>4, OccursLonger

LEMMA LiveChange ==
    ASSUME Typed, [Next]_vars
    PROVE  \/ live' = live
           \/ \E l \in Layer : Detach(l) /\ (remove_layer(l) \/ Sweep)
           \/ CallOnAttach
           \/ Teardown /\ ~Fails("freed")
  <1>1. CASE ClientCall
    BY <1>1 DEF ClientCall, add_layer, remove_layer, SetDestroy, bind_layer_phase,
       bind_phase_ctx, application_event_callback, Stop
  <1>2. CASE Sweep
    <2>1. Layers[i] \in Layer
      BY <1>2 DEF Sweep, Typed, TypeOK
    <2>2. QED
      BY <1>2, <2>1 DEF Sweep
  <1>3. CASE Step /\ ~Sweep /\ ~Teardown
    BY <1>3 DEF Step, RegisterBinding, CallOnAttach, ReturnOnAttach, ReturnOnDettach, CallOnEvent,
       ReturnOnEvent, EndDispatch, RunApplication, BeginFrame, CallPhase, ReturnPhase, NextBucket,
       EndPhases, EndSweep, EndRun, DestroyApplication, ReturnTeardown, EndTeardown, Fails
  <1>4. CASE Teardown /\ Fails("freed")
    BY <1>4 DEF Fails
  <1>5. CASE UNCHANGED vars
    BY <1>5 DEF vars
  <1>6. QED
    BY <1>1, <1>2, <1>3, <1>4, <1>5 DEF Next, Ended

(* Where the teardown is, by its steps.                                    *)
LEMMA BegunNext ==
    ASSUME Typed, TearsDown, "quiet_teardown" \notin misuse', [Next]_vars
    PROVE  /\ pc \in {"teardown", "done"} => Layers' = Layers
           /\ Begun \in Nat /\ Begun <= Len(Layers)
           /\ \/ Begun' = Begun
              \/ Teardown /\ ~Fails("freed") /\ i \in DOMAIN Layers /\ Begun = i - 1 /\ Begun' = i
  <1>1. /\ Layers \in Seq(Layer) /\ Len(Layers) \in Nat /\ DOMAIN Layers = 1..Len(Layers)
        /\ stack \in Seq(StackFrame) /\ Len(stack) \in Nat /\ DOMAIN stack = 1..Len(stack)
        /\ i \in Nat \ {0} /\ TypeOK
    BY DEF Typed, TypeOK
  <1>2. "quiet_teardown" \notin misuse
    BY MisuseGrows
  <1>3. /\ Begun <= Len(Layers) /\ (pc = "done" => stack = << >>)
        /\ pc = "teardown" /\ stack # << >> =>
             Len(stack) = 1 /\ Top.fn = "teardown" /\ Top.layer = Layers[i]
    BY <1>2 DEF TearsDown, QuietTeardown
  <1>4. Begun \in Nat
    BY <1>1 DEF Begun, Released
  <1>5. CASE ClientCall
    <2>1. pc' = pc /\ i' = i /\ (stack = << >> => pc = "setup")
      BY <1>5, ClientLeaves
    <2>2. CASE pc \notin {"teardown", "done"}
      BY <1>3, <1>4, <2>1, <2>2 DEF Begun, Released
    <2>3. CASE pc = "done"
      BY <1>3, <2>1, <2>3
    <2>4. CASE pc = "teardown"
      <3>1. \A l \in Layer : ~add_layer(l) /\ ~remove_layer(l)
        BY <1>2, <2>4 DEF add_layer, remove_layer, ClientCalls, Breaks
      <3>2. ~application_event_callback
        BY <1>2, <2>4 DEF application_event_callback, ClientCalls, Breaks
      <3>3. UNCHANGED <<Layers, stack>>
        BY <1>5, <3>1, <3>2 DEF ClientCall, SetDestroy, bind_layer_phase, bind_phase_ctx, Stop,
           registry
      <3>4. Begun' = Begun
        BY <2>1, <3>3 DEF Begun, Released
      <3>5. QED
        BY <1>3, <1>4, <3>3, <3>4
    <2>5. QED
      BY <2>2, <2>3, <2>4
  <1>6. CASE Step
    <2>1. CASE pc \notin {"teardown", "done"} /\ ~DestroyApplication
      <3>1. pc' \notin {"teardown", "done"}
        BY <1>6, <2>1 DEF Step, RegisterBinding, CallOnAttach, ReturnOnAttach,
           ReturnOnDettach, CallOnEvent, ReturnOnEvent, EndDispatch, RunApplication, BeginFrame,
           CallPhase, ReturnPhase, NextBucket, EndPhases, Sweep, EndSweep, EndRun,
           Teardown, ReturnTeardown, EndTeardown, Detach, Fails, At, Goto
      <3>2. Begun = 0 /\ Begun' = 0
        BY <2>1, <3>1 DEF Begun, Released
      <3>3. QED
        BY <1>3, <1>4, <2>1, <3>2
    <2>2. CASE pc \notin {"teardown", "done"} /\ DestroyApplication
      <3>1. pc' = "teardown" /\ stack' = << >> /\ i' = 1
        BY <2>2 DEF DestroyApplication, At, Goto
      <3>2. Begun = 0 /\ Begun' = 0
        BY <2>2, <3>1 DEF Begun, Released
      <3>3. QED
        BY <1>3, <1>4, <2>2, <3>2
    <2>3. CASE pc = "done"
      BY <1>3, <1>6, <2>3 DEF Step, RegisterBinding, CallOnAttach, ReturnOnAttach,
           ReturnOnDettach, CallOnEvent, ReturnOnEvent, EndDispatch, RunApplication, BeginFrame,
           CallPhase, ReturnPhase, NextBucket, EndPhases, Sweep, EndSweep, EndRun,
           DestroyApplication, Teardown, ReturnTeardown, EndTeardown, At, In
    <2>4. CASE pc = "teardown"
      <3>1. CASE Teardown /\ ~Fails("freed")
        <4>1. /\ i \in DOMAIN Layers /\ stack = << >> /\ Len(stack') = 1
          BY <1>1, <3>1, TeardownCalls DEF Calls, Teardown, At
        <4>2. stack' # << >> /\ pc' = pc /\ i' = i /\ Layers' = Layers
          BY <3>1, <4>1 DEF Teardown, registry
        <4>3. Begun = i - 1 /\ Begun' = i
          BY <2>4, <4>1, <4>2 DEF Begun, Released
        <4>4. QED
          BY <1>3, <1>4, <3>1, <4>1, <4>2, <4>3
      <3>2. CASE Teardown /\ Fails("freed")
        <4>1. Layers' = Layers /\ Begun' = Begun
          BY <3>2 DEF Fails, registry, Begun, Released
        <4>2. QED
          BY <1>3, <1>4, <4>1
      <3>3. CASE ReturnTeardown
        <4>1. /\ stack # << >> /\ pc' = pc /\ i' = i + 1 /\ Layers' = Layers /\ Pop
          BY <3>3 DEF ReturnTeardown, In, registry
        <4>2. DOMAIN stack' = 1..0
          <5>1. Len(stack) = 1
            BY <1>3, <2>4, <4>1
          <5>2. DOMAIN stack' = 1..Len(stack) - 1
            BY <4>1, PopReturns
          <5>3. QED
            BY <5>1, <5>2
        <4>3. stack' = << >>
          <5>1. stack' \in Seq(StackFrame)
            BY TypedNext DEF Typed, TypeOK
          <5>2. QED
            BY <4>2, <5>1
        <4>4. Begun = i /\ Begun' = i
          BY <1>1, <2>4, <4>1, <4>3 DEF Begun, Released
        <4>5. QED
          BY <1>3, <1>4, <4>1, <4>4
      <3>4. CASE EndTeardown
        <4>1. /\ stack = << >> /\ stack' = << >> /\ pc' = "done" /\ Layers' = Layers
              /\ i > Len(Layers)
          BY <3>4 DEF EndTeardown, At, Goto, registry
        <4>2. Begun = i - 1 /\ Begun' = Len(Layers)
          BY <2>4, <4>1 DEF Begun, Released
        <4>3. QED
          BY <1>1, <1>3, <1>4, <4>1, <4>2
      <3>5. CASE ~(Teardown \/ ReturnTeardown \/ EndTeardown)
        BY <1>3, <1>6, <2>4, <3>5 DEF Step, RegisterBinding, CallOnAttach, ReturnOnAttach,
           ReturnOnDettach, CallOnEvent, ReturnOnEvent, EndDispatch, RunApplication, BeginFrame,
           CallPhase, ReturnPhase, NextBucket, EndPhases, Sweep, EndSweep, EndRun,
           DestroyApplication, At, In
      <3>6. QED
        BY <3>1, <3>2, <3>3, <3>4, <3>5
    <2>5. QED
      BY <2>1, <2>2, <2>3, <2>4
  <1>7. CASE UNCHANGED vars
    BY <1>3, <1>4, <1>7 DEF vars, registry, Begun, Released
  <1>8. QED
    BY <1>5, <1>6, <1>7 DEF Next, Ended

LEMMA AttachesNext ==
    ASSUME Typed, Dispatches(stack, Layers), TearsDown, AttachesLeft, [Next]_vars
    PROVE  AttachesLeft'
  <1>1. /\ Layers \in Seq(Layer) /\ Layers' \in Seq(Layer) /\ live \in [Layer -> Int]
        /\ stack \in Seq(StackFrame) /\ stack' \in Seq(StackFrame)
    BY TypedNext DEF Typed, TypeOK
  <1>2. SUFFICES ASSUME "quiet_teardown" \notin misuse', NEW l \in Layer
                 PROVE  live'[l] + Adds(stack', l) = Remaining(Layers', Begun', l)
    BY DEF AttachesLeft
  <1>3. live[l] + Adds(stack, l) = Remaining(Layers, Begun, l)
    BY <1>2, MisuseGrows DEF AttachesLeft
  <1>4. /\ pc \in {"teardown", "done"} => Layers' = Layers
        /\ \/ Begun' = Begun
           \/ Teardown /\ ~Fails("freed") /\ i \in DOMAIN Layers /\ Begun = i - 1 /\ Begun' = i
    BY <1>2, BegunNext
  <1>5. /\ Adds(stack, l) \in Nat /\ Adds(stack', l) \in Nat /\ live[l] \in Int
        /\ Occurs(Layers, {l}) \in Nat /\ Occurs(Layers', {l}) \in Nat
    <2>1. Occurs(Layers, {l}) \in Nat /\ Occurs(Layers', {l}) \in Nat
      BY <1>1, OccursType
    <2>2. QED
      BY <1>1, <2>1 DEF Adds
  <1>6. /\ Remaining(Layers, 0, l) = Occurs(Layers, {l})
        /\ Remaining(Layers', 0, l) = Occurs(Layers', {l})
    BY <1>1, RemainingAre
  <1>7. ASSUME NEW m \in Layer, add_layer(m)
        PROVE  live'[l] + Adds(stack', l) = Remaining(Layers', Begun', l)
    <2>1. pc \notin {"teardown", "done"} /\ pc' = pc
      <3>1. "quiet_teardown" \notin misuse /\ pc # "teardown"
        BY <1>2, <1>7 DEF add_layer, ClientCalls, Breaks
      <3>2. pc = "done" => stack = << >>
        BY <3>1 DEF TearsDown, QuietTeardown
      <3>3. QED
        BY <1>7, <3>1, <3>2 DEF add_layer, ClientCalls
    <2>2. Begun = 0 /\ Begun' = 0
      BY <2>1 DEF Begun, Released
    <2>3. Adds(stack, l) = 0
      <3>1. stack # << >> => stack[Len(stack)].fn # "register"
        BY <1>7, ClientOnTop DEF add_layer, Callback
      <3>2. QED
        BY <1>1, <3>1, NoneRegisters, AddsNone
    <2>4. Adds(stack', l) = One(m, {l})
      <3>1. Calls(stack, stack', "register", m)
        BY <1>7, ClientPushes
      <3>2. QED
        BY <1>1, <3>1, CallsAdds DEF One
    <2>5. Occurs(Layers', {l}) = Occurs(Layers, {l}) + One(m, {l}) /\ live' = live
      BY <1>7, AddLayers DEF add_layer
    <2>6. QED
      BY <1>3, <1>5, <1>6, <2>2, <2>3, <2>4, <2>5
  <1>8. ASSUME NEW m \in Layer, Detach(m), remove_layer(m) \/ Sweep
        PROVE  live'[l] + Adds(stack', l) = Remaining(Layers', Begun', l)
    <2>1. pc \notin {"teardown", "done"} /\ pc' = pc
      <3>1. "quiet_teardown" \notin misuse
        BY <1>2, MisuseGrows
      <3>2. pc = "done" => stack = << >>
        BY <3>1 DEF TearsDown, QuietTeardown
      <3>3. pc # "teardown"
        BY <1>2, <1>8 DEF remove_layer, ClientCalls, Breaks, Sweep, At
      <3>4. pc # "done"
        BY <1>8, <3>2 DEF remove_layer, ClientCalls, Sweep, At
      <3>5. QED
        BY <1>8, <3>3, <3>4 DEF Detach
    <2>2. Begun = 0 /\ Begun' = 0
      BY <2>1 DEF Begun, Released
    <2>3. Adds(stack, l) = 0
      <3>1. stack # << >> => stack[Len(stack)].fn # "register"
        BY <1>8, ClientOnTop DEF remove_layer, Callback, Sweep, At
      <3>2. QED
        BY <1>1, <3>1, NoneRegisters, AddsNone
    <2>4. Adds(stack', l) = 0
      <3>1. Calls(stack, stack', "OnDettach", m)
        BY <1>8, DetachCalls
      <3>2. QED
        BY <1>1, <3>1, CallsAdds
    <2>5. /\ Occurs(Layers', {l}) = Occurs(Layers, {l}) - One(m, {l})
          /\ live' = [live EXCEPT ![m] = @ - 1]
      BY <1>8, DetachLayers
    <2>6. live'[l] = live[l] - One(m, {l})
      BY <1>1, <2>5 DEF One
    <2>7. One(m, {l}) \in Nat
      BY DEF One
    <2>8. QED
      BY <1>3, <1>5, <1>6, <2>2, <2>3, <2>4, <2>5, <2>6, <2>7
  <1>9. ASSUME CallOnAttach
        PROVE  live'[l] + Adds(stack', l) = Remaining(Layers', Begun', l)
    <2>1. /\ stack # << >> /\ Len(stack) \in DOMAIN stack /\ Top \in StackFrame
          /\ Top.layer \in Layer /\ Top = stack[Len(stack)] /\ Top.fn = "register"
      BY <1>9, TopOfStack DEF Typed, Top, CallOnAttach
    <2>2. /\ live' = [live EXCEPT ![Top.layer] = @ + 1] /\ Layers' = Layers
          /\ stack' = [stack EXCEPT ![Len(stack)] = [Top EXCEPT !.fn = "OnAttach"]]
          /\ [Top EXCEPT !.fn = "OnAttach"].fn = "OnAttach"
      BY <1>9, <2>1 DEF CallOnAttach, StackFrame, registry
    <2>3. Begun' = Begun
      <3>1. ~Teardown
        BY <2>1 DEF Teardown, At
      <3>2. QED
        BY <1>4, <3>1
    <2>4. Adds(stack, l) = One(Top.layer, {l})
      BY <2>1 DEF Adds, One
    <2>5. Adds(stack', l) = 0
      <3> DEFINE f == [Top EXCEPT !.fn = "OnAttach"]
      <3>1. f.fn = "OnAttach" /\ stack' = [stack EXCEPT ![Len(stack)] = f]
        BY <2>2
      <3> HIDE DEF f
      <3>2. stack' \in Seq(StackFrame) /\ DOMAIN stack' = DOMAIN stack
        BY <1>1, <3>1
      <3>3. Len(stack') = Len(stack)
        BY <1>1, <3>2
      <3>4. stack'[Len(stack)].fn = "OnAttach"
        BY <2>1, <3>1
      <3>5. QED
        BY <3>3, <3>4 DEF Adds
    <2>6. live'[l] = live[l] + One(Top.layer, {l})
      BY <1>1, <2>1, <2>2 DEF One
    <2>7. One(Top.layer, {l}) \in Nat
      BY DEF One
    <2>8. Remaining(Layers', Begun', l) = Remaining(Layers, Begun, l)
      BY <2>2, <2>3
    <2>9. QED
      BY <1>3, <1>5, <2>4, <2>5, <2>6, <2>7, <2>8
  <1>10. ASSUME Teardown, ~Fails("freed")
         PROVE  live'[l] + Adds(stack', l) = Remaining(Layers', Begun', l)
    <2>1. i \in DOMAIN Layers /\ stack = << >> /\ Calls(stack, stack', "teardown", Layers[i])
          /\ pc = "teardown"
      BY <1>10, TeardownCalls DEF Teardown, At
    <2>2. live' = [live EXCEPT ![Layers[i]] = @ - 1] /\ Layers' = Layers /\ pc' = pc /\ i' = i
      BY <1>10 DEF Teardown, registry
    <2>3. Adds(stack, l) = 0 /\ Adds(stack', l) = 0
      <3>1. Adds(stack, l) = 0
        BY <2>1 DEF Adds
      <3>2. Calls(stack, stack', "teardown", Layers[i])
        BY <2>1
      <3>3. Adds(stack', l) = 0
        BY <1>1, <3>2, CallsAdds
      <3>4. QED
        BY <3>1, <3>3
    <2>4. Begun = i - 1 /\ Begun' = i
      <3>1. Len(stack) = 0 /\ Len(stack') = 1
        BY <2>1 DEF Calls
      <3>2. stack' # << >>
        BY <3>1
      <3>3. QED
        BY <2>1, <2>2, <3>2 DEF Begun, Released
    <2>5. Remaining(Layers, i, l) = Remaining(Layers, i - 1, l) - One(Layers[i], {l})
      BY <1>1, <2>1, RemainingAre
    <2>6. live'[l] = live[l] - One(Layers[i], {l})
      BY <1>1, <2>1, <2>2 DEF One
    <2>7. One(Layers[i], {l}) \in Nat
      BY DEF One
    <2>8. QED
      BY <1>3, <1>5, <2>2, <2>3, <2>4, <2>5, <2>6, <2>7
  <1>11. ASSUME ~CallOnAttach, \A m \in Layer : ~add_layer(m), Layers' = Layers, live' = live,
                ~(Teardown /\ ~Fails("freed"))
         PROVE  live'[l] + Adds(stack', l) = Remaining(Layers', Begun', l)
    <2>1. Adds(stack', l) = Adds(stack, l) /\ Begun' = Begun
      BY <1>4, <1>11, AddsNext
    <2>2. QED
      BY <1>3, <1>11, <2>1
  <1>12. QED
    BY <1>7, <1>8, <1>9, <1>10, <1>11, LayersChange, LiveChange

(* What the theorems below rest on.                                        *)
Torn == Typed /\ Dispatches(stack, Layers) /\ TearsDown /\ AddedOnce /\ FreedSafe /\ AttachesLeft

LEMMA TornInit == Init => Torn
  <1> SUFFICES ASSUME Init PROVE Torn
    OBVIOUS
  <1>1. Layers = << >> /\ stack = << >> /\ pc = "setup" /\ freed = {} /\ misuse = {}
        /\ fault = "none" /\ live = [l \in Layer |-> 0]
    BY DEF Init
  <1>2. TearsDown
    BY <1>1 DEF TearsDown, TeardownFrames, QuietTeardown, Begun, Released
  <1>3. AttachesLeft
    <2>1. SUFFICES ASSUME NEW l \in Layer PROVE live[l] + Adds(stack, l) = Remaining(Layers, Begun, l)
      BY DEF AttachesLeft
    <2>2. << >> \in Seq(Layer) /\ Len(<< >>) = 0
      OBVIOUS
    <2>3. Remaining(<< >>, 0, l) = 0
      BY <2>2, RemainingAre
    <2>4. Begun = 0 /\ Adds(stack, l) = 0 /\ live[l] = 0
      BY <1>1 DEF Begun, Released, Adds
    <2>5. QED
      BY <1>1, <2>3, <2>4
  <1>4. AddedOnce /\ FreedSafe
    BY <1>1 DEF AddedOnce, FreedSafe
  <1>5. QED
    BY <1>2, <1>3, <1>4, TypedInit, DispatchesInit DEF Torn

LEMMA TornNext == Torn /\ [Next]_vars => Torn'
  BY TypedNext, DispatchesNext, TearsDownNext, AddedOnceNext, FreedSafeNext, AttachesNext DEF Torn

LEMMA BucketsChange ==
    ASSUME Typed, [Next]_vars
    PROVE  \/ Phase_Buckets' = Phase_Buckets
           \/ \E p \in Phase, ctx \in Context : bind_phase_ctx(p, ctx)
           \/ RegisterBinding
           \/ ReturnOnDettach /\ ~Fails("binding")
  <1>1. CASE ClientCall
    BY <1>1 DEF ClientCall, add_layer, remove_layer, Detach, SetDestroy, bind_layer_phase,
       application_event_callback, Stop, registry
  <1>2. CASE Step /\ ~RegisterBinding /\ ~ReturnOnDettach
    BY <1>2 DEF Step, CallOnAttach, ReturnOnAttach, CallOnEvent, ReturnOnEvent, EndDispatch,
       RunApplication, BeginFrame, CallPhase, ReturnPhase, NextBucket, EndPhases, Sweep, Detach,
       EndSweep, EndRun, DestroyApplication, Teardown, ReturnTeardown, EndTeardown, Fails, registry
  <1>3. CASE Fails("binding")
    BY <1>3 DEF Fails, registry
  <1>4. CASE UNCHANGED vars
    BY <1>4 DEF vars, registry
  <1>5. QED
    BY <1>1, <1>2, <1>3, <1>4 DEF Next, Ended

LEMMA BindingsChange ==
    ASSUME Typed, [Next]_vars
    PROVE  \/ Bindings' = Bindings /\ Block' = Block
           \/ \E l \in Layer, p \in Phase : bind_layer_phase(l, p)
  <1>1. CASE ClientCall
    BY <1>1 DEF ClientCall, add_layer, remove_layer, Detach, SetDestroy, bind_phase_ctx,
       application_event_callback, Stop, layer
  <1>2. CASE Step
    BY <1>2 DEF Step, RegisterBinding, CallOnAttach, ReturnOnAttach, ReturnOnDettach, CallOnEvent,
       ReturnOnEvent, EndDispatch,
       RunApplication, BeginFrame, CallPhase, ReturnPhase, NextBucket, EndPhases, Sweep, Detach,
       EndSweep, EndRun, DestroyApplication, Teardown, ReturnTeardown, EndTeardown, Fails, layer
  <1>3. CASE UNCHANGED vars
    BY <1>3 DEF vars, layer
  <1>4. QED
    BY <1>1, <1>2, <1>3 DEF Next, Ended

(* A layer's bindings are only ever appended to.                           *)
LEMMA BindingsGrow ==
    ASSUME Typed, [Next]_vars
    PROVE  \A l \in Layer : \A k \in DOMAIN Bindings[l] :
              k \in DOMAIN Bindings'[l] /\ Bindings'[l][k] = Bindings[l][k]
  <1>1. Bindings \in [Layer -> Seq(Phase)]
    BY DEF Typed, TypeOK
  <1>2. CASE Bindings' = Bindings
    BY <1>2
  <1>3. ASSUME NEW l \in Layer, NEW p \in Phase, bind_layer_phase(l, p)
        PROVE  \A m \in Layer : \A k \in DOMAIN Bindings[m] :
                  k \in DOMAIN Bindings'[m] /\ Bindings'[m][k] = Bindings[m][k]
    <2>1. Bindings' = [Bindings EXCEPT ![l] = Append(@, p)]
      BY <1>3 DEF bind_layer_phase
    <2>2. ASSUME NEW m \in Layer, m # l PROVE Bindings'[m] = Bindings[m]
      BY <1>1, <2>1, <2>2
    <2>3. Bindings'[l] = Append(Bindings[l], p) /\ Bindings[l] \in Seq(Phase)
      BY <1>1, <2>1
    <2>4. \A k \in DOMAIN Bindings[l] : k \in DOMAIN Bindings'[l] /\ Bindings'[l][k] = Bindings[l][k]
      BY <2>3
    <2>5. QED
      BY <2>2, <2>4
  <1>4. QED
    BY <1>2, <1>3, BindingsChange

(* What each of them writes.                                               *)
LEMMA RegisterWrites ==
    ASSUME Typed, Sorted(Phase_Buckets), RegisterBinding
    PROVE  LET p == Bindings[Top.layer][Top.i]
               b == [Layer |-> Top.layer, Index |-> Top.i, Block |-> Block[Top.layer]]
           IN  /\ stack # << >> /\ Top = stack[Len(stack)] /\ Top \in StackFrame
               /\ Top.fn = "register" /\ Top.layer \in Layer /\ Top.i \in DOMAIN Bindings[Top.layer]
               /\ p \in Phase /\ b \in BindingPointer
               /\ \A q : BindingsOf(Phase_Buckets', q)
                           = IF q = p THEN Append(BindingsOf(Phase_Buckets, p), b)
                             ELSE BindingsOf(Phase_Buckets, q)
  <1> DEFINE p == Bindings[Top.layer][Top.i]
             b == [Layer |-> Top.layer, Index |-> Top.i, Block |-> Block[Top.layer]]
  <1>1. /\ stack # << >> /\ Top = stack[Len(stack)] /\ Top \in StackFrame /\ Top.fn = "register"
        /\ Top.layer \in Layer
    BY TopOfStack DEF Typed, RegisterBinding, Top
  <1>2. Bindings[Top.layer] \in Seq(Phase) /\ Block[Top.layer] \in Nat /\ Top.i \in Nat \ {0}
        /\ Phase_Buckets \in Seq(PhaseBucket)
    BY <1>1 DEF Typed, TypeOK, StackFrame
  <1>3. Top.i \in DOMAIN Bindings[Top.layer]
    BY <1>2 DEF RegisterBinding
  <1>4. p \in Phase /\ b \in BindingPointer
    BY <1>1, <1>2, <1>3 DEF BindingPointer
  <1>5. PICK k \in Slots(Phase_Buckets, p) : Phase_Buckets' = register_binding(Phase_Buckets, k, p, b)
    BY DEF RegisterBinding
  <1> HIDE DEF p, b
  <1>6. \A q : BindingsOf(Phase_Buckets', q) = IF q = p THEN Append(BindingsOf(Phase_Buckets, p), b)
                                               ELSE BindingsOf(Phase_Buckets, q)
    BY <1>2, <1>4, <1>5, RegisterBindings
  <1>7. QED
    BY <1>1, <1>3, <1>4, <1>6 DEF p, b

LEMMA ContextWrites ==
    ASSUME Typed, Sorted(Phase_Buckets), NEW p \in Phase, NEW ctx \in Context, bind_phase_ctx(p, ctx)
    PROVE  \A q : BindingsOf(Phase_Buckets', q) = BindingsOf(Phase_Buckets, q)
  <1>1. PICK k \in Slots(Phase_Buckets, p) :
            Phase_Buckets' = set_phase_context(Phase_Buckets, k, p, ctx)
    BY DEF bind_phase_ctx
  <1>2. Phase_Buckets \in Seq(PhaseBucket)
    BY DEF Typed, TypeOK
  <1>3. QED
    BY <1>1, <1>2, ContextBindings

LEMMA DettachWrites ==
    ASSUME Typed, Sorted(Phase_Buckets), ReturnOnDettach, ~Fails("binding")
    PROVE  /\ stack # << >> /\ Top = stack[Len(stack)] /\ Top.fn = "OnDettach" /\ Top.layer \in Layer
           /\ Pop
           /\ \A q : /\ Leaves(BindingsOf(Phase_Buckets, q), BindingsOf(Phase_Buckets', q), Top.layer)
                     /\ BindingsOf(Phase_Buckets', q) \in Seq(BindingPointer)
  <1>1. /\ stack # << >> /\ Top = stack[Len(stack)] /\ Top.fn = "OnDettach" /\ Top.layer \in Layer
    BY TopOfStack DEF Typed, ReturnOnDettach, Top
  <1>2. /\ Phase_Buckets' = [n \in DOMAIN Phase_Buckets |->
                               remove_layer_phase_bucket(Phase_Buckets[n], Top.layer)]
        /\ Pop
    BY DEF ReturnOnDettach
  <1>3. Phase_Buckets \in Seq(PhaseBucket)
    BY DEF Typed, TypeOK
  <1>4. QED
    BY <1>1, <1>2, <1>3, RemoveBindings

-----------------------------------------------------------------------------
(* The frame's pointer to a bucket.                                        *)

(* While no phase callback makes a phase appear, the array of buckets is   *)
(* not moved under the frame: what a callback's add_layer registers goes   *)
(* to buckets that are there.                                              *)
BucketKept ==
    "phases_first" \notin misuse =>
        /\ fault # "bucket" /\ ~dangling
        /\ pc = "phases" =>
              \A l \in Layer : Adds(stack, l) = 1 => ToSet(Bindings[l]) \subseteq Phases

LEMMA HasItsPhase ==
    ASSUME Typed, Sorted(Phase_Buckets), NEW p \in Phases, NEW k \in Slots(Phase_Buckets, p)
    PROVE  HasPhase(Phase_Buckets, k, p)
  <1>1. Phase_Buckets \in Seq(PhaseBucket)
    BY DEF Typed, TypeOK
  <1>2. PICK n \in DOMAIN Phase_Buckets : Phase_Buckets[n].Phase = p
    BY DEF Phases
  <1>3. p \in Phase
    <2>1. Phase_Buckets[n] \in PhaseBucket
      BY <1>1
    <2>2. QED
      BY <1>2, <2>1 DEF PhaseBucket
  <1>4. QED
    BY <1>1, <1>2, <1>3, OtherBuckets

(* Registering in the bucket of a phase that has one.                      *)
LEMMA RegisterInPlace ==
    ASSUME Typed, Sorted(Phase_Buckets), RegisterBinding,
           Bindings[Top.layer][Top.i] \in Phases
    PROVE  dangling' = dangling /\ Phases' = Phases
  <1> DEFINE p == Bindings[Top.layer][Top.i]
             b == [Layer |-> Top.layer, Index |-> Top.i, Block |-> Block[Top.layer]]
  <1>1. Phase_Buckets \in Seq(PhaseBucket) /\ dangling \in BOOLEAN /\ b \in BindingPointer
    BY RegisterWrites DEF Typed, TypeOK
  <1>2. PICK k \in Slots(Phase_Buckets, p) :
            /\ Phase_Buckets' = register_binding(Phase_Buckets, k, p, b)
            /\ MoveBuckets(~HasPhase(Phase_Buckets, k, p))
    BY DEF RegisterBinding
  <1>3. HasPhase(Phase_Buckets, k, p)
    BY HasItsPhase
  <1>4. dangling' = dangling
    BY <1>1, <1>2, <1>3, Zenon DEF MoveBuckets
  <1>5. k \in DOMAIN Phase_Buckets /\ Phase_Buckets[k] \in PhaseBucket
    BY <1>1, <1>2, <1>3 DEF HasPhase, Slots
  <1> HIDE DEF p, b
  <1> DEFINE B == push_phase_bucket(Phase_Buckets[k], b)
  <1>6. B.Phase = Phase_Buckets[k].Phase
    BY <1>1, <1>5, PushKeepsBucket
  <1>7. Phase_Buckets' = [Phase_Buckets EXCEPT ![k] = B]
    BY <1>2, <1>3 DEF register_binding
  <1> HIDE DEF B
  <1>8. /\ DOMAIN Phase_Buckets' = DOMAIN Phase_Buckets
        /\ \A n \in DOMAIN Phase_Buckets : Phase_Buckets'[n].Phase = Phase_Buckets[n].Phase
    BY <1>5, <1>6, <1>7
  <1>9. QED
    BY <1>4, <1>8 DEF Phases

(* Which steps write Bucket, and when the thread moves.                    *)
LEMMA DanglingChange ==
    ASSUME Typed, [Next]_vars
    PROVE  \/ dangling' = dangling \/ dangling' = FALSE
           \/ \E p \in Phase, ctx \in Context : bind_phase_ctx(p, ctx)
           \/ RegisterBinding
  <1>1. CASE ClientCall
    BY <1>1 DEF ClientCall, add_layer, remove_layer, Detach, SetDestroy, bind_layer_phase,
       application_event_callback, Stop
  <1>2. CASE Step
    BY <1>2 DEF Step, CallOnAttach, ReturnOnAttach, ReturnOnDettach, CallOnEvent, ReturnOnEvent,
       EndDispatch, RunApplication, BeginFrame, CallPhase, ReturnPhase, NextBucket, EndPhases, Sweep,
       Detach, EndSweep, EndRun, DestroyApplication, Teardown, ReturnTeardown, EndTeardown, Fails
  <1>3. CASE UNCHANGED vars
    BY <1>3 DEF vars
  <1>4. QED
    BY <1>1, <1>2, <1>3 DEF Next, Ended

LEMMA PlaceChange ==
    ASSUME Typed, [Next]_vars
    PROVE  pc' = pc \/ (stack = << >> /\ stack' = << >>)
  <1>1. CASE ClientCall
    BY <1>1 DEF ClientCall, add_layer, remove_layer, Detach, SetDestroy, bind_layer_phase,
       bind_phase_ctx, application_event_callback, Stop
  <1>2. CASE Step
    BY <1>2 DEF Step, RegisterBinding, CallOnAttach, ReturnOnAttach, ReturnOnDettach, CallOnEvent,
       ReturnOnEvent, EndDispatch, RunApplication, BeginFrame, CallPhase, ReturnPhase, NextBucket,
       EndPhases, Sweep, Detach, EndSweep, EndRun, DestroyApplication, Teardown, ReturnTeardown,
       EndTeardown, Fails, At
  <1>3. CASE UNCHANGED vars
    BY <1>3 DEF vars
  <1>4. QED
    BY <1>1, <1>2, <1>3 DEF Next, Ended

(* The frame of add_layer's loop becomes that of the OnAttach it calls.    *)
LEMMA AttachTops ==
    ASSUME Typed, CallOnAttach
    PROVE  /\ Len(stack') = Len(stack) /\ stack' \in Seq(StackFrame) /\ stack # << >>
           /\ stack[Len(stack)].fn = "register" /\ stack'[Len(stack)].fn = "OnAttach"
           /\ \A n \in DOMAIN stack : n # Len(stack) => stack'[n] = stack[n]
           /\ \A l : Adds(stack', l) = 0
           /\ Top.layer \in Layer /\ stack[Len(stack)] = Top
  <1>1. /\ stack # << >> /\ Len(stack) \in DOMAIN stack /\ Top \in StackFrame
        /\ Top.layer \in Layer /\ Top = stack[Len(stack)] /\ Top.fn = "register"
        /\ stack \in Seq(StackFrame)
    BY TopOfStack DEF Typed, TypeOK, Top, CallOnAttach
  <1> DEFINE f == [Top EXCEPT !.fn = "OnAttach"]
  <1>2. f.fn = "OnAttach" /\ stack' = [stack EXCEPT ![Len(stack)] = f] /\ f \in StackFrame
    BY <1>1 DEF CallOnAttach, StackFrame, Callback
  <1> HIDE DEF f
  <1>3. stack' \in Seq(StackFrame) /\ DOMAIN stack' = DOMAIN stack
    BY <1>1, <1>2
  <1>4. Len(stack') = Len(stack)
    BY <1>1, <1>3
  <1>5. stack'[Len(stack)].fn = "OnAttach" /\ \A n \in DOMAIN stack : n # Len(stack) => stack'[n] = stack[n]
    BY <1>1, <1>2
  <1>6. \A l : Adds(stack', l) = 0
    BY <1>4, <1>5 DEF Adds
  <1>7. QED
    BY <1>1, <1>3, <1>4, <1>5, <1>6

(* A layer is being registered after a step that is not its registration's *)
(* first when it was before.                                               *)
LEMMA StillAdds ==
    ASSUME Typed, Dispatches(stack, Layers), [Next]_vars, NEW l \in Layer, Adds(stack', l) = 1,
           ~add_layer(l)
    PROVE  /\ Adds(stack, l) = 1 /\ stack # << >> /\ Top.fn = "register" /\ Top.layer = l
           /\ pc' = pc /\ Bindings' = Bindings
           /\ RegisterBinding \/ Phase_Buckets' = Phase_Buckets
  <1>1. ~CallOnAttach
    BY AttachTops
  <1>2. ASSUME NEW m \in Layer, add_layer(m) PROVE FALSE
    <2>1. Calls(stack, stack', "register", m)
      BY <1>2, ClientPushes
    <2>2. stack \in Seq(StackFrame) /\ stack' \in Seq(StackFrame)
      BY TypedNext DEF Typed, TypeOK
    <2>3. Adds(stack', l) = IF "register" = "register" /\ m = l THEN 1 ELSE 0
      BY <2>1, <2>2, CallsAdds
    <2>4. m = l
      BY <2>3
    <2>5. QED
      BY <1>2, <2>4
  <1>3. Adds(stack, l) = 1
    BY <1>1, <1>2, AddsNext
  <1>4. stack # << >> /\ Top.fn = "register" /\ Top.layer = l
    BY <1>3 DEF Adds, Top
  <1>5. pc' = pc
    BY <1>4, PlaceChange
  <1>6. ~ClientCall
    BY <1>4, ClientLeaves DEF Callback, Top
  <1>7. Bindings' = Bindings
    BY <1>6, BindingsChange DEF ClientCall
  <1>8. ~ReturnOnDettach
    BY <1>4 DEF ReturnOnDettach, In
  <1>9. RegisterBinding \/ Phase_Buckets' = Phase_Buckets
    BY <1>6, <1>8, BucketsChange DEF ClientCall
  <1>10. QED
    BY <1>3, <1>4, <1>5, <1>7, <1>9

LEMMA BucketKeptNext ==
    ASSUME Typed, Dispatches(stack, Layers), Sorted(Phase_Buckets), BucketKept, [Next]_vars
    PROVE  BucketKept'
  <1>1. SUFFICES ASSUME "phases_first" \notin misuse'
                 PROVE  /\ fault' # "bucket" /\ ~dangling'
                        /\ pc' = "phases" => \A l \in Layer :
                              Adds(stack', l) = 1 => ToSet(Bindings'[l]) \subseteq Phases'
    BY DEF BucketKept
  <1>2. /\ fault # "bucket" /\ ~dangling
        /\ pc = "phases" =>
              \A l \in Layer : Adds(stack, l) = 1 => ToSet(Bindings[l]) \subseteq Phases
    BY <1>1, MisuseGrows DEF BucketKept
  <1>3. fault' # "bucket"
    BY <1>2, FaultChange
  <1>4. ASSUME RegisterBinding, pc = "phases" PROVE dangling' = dangling /\ Phases' = Phases
    <2>1. Top.layer \in Layer /\ stack # << >> /\ Top.fn = "register" /\ Top.i \in DOMAIN Bindings[Top.layer]
      BY <1>4, RegisterWrites
    <2>2. Adds(stack, Top.layer) = 1
      BY <2>1 DEF Adds, Top
    <2>3. Bindings[Top.layer][Top.i] \in Phases
      BY <1>2, <1>4, <2>1, <2>2 DEF ToSet
    <2>4. QED
      BY <1>4, <2>3, RegisterInPlace
  <1>5. ~dangling'
    <2>1. dangling \in BOOLEAN /\ dangling' \in BOOLEAN
      BY TypedNext DEF Typed, TypeOK
    <2>2. ASSUME NEW inserts, MoveBuckets(inserts), pc # "phases" PROVE dangling' = dangling
      BY <2>1, <2>2, Zenon DEF MoveBuckets
    <2>3. ASSUME NEW p \in Phase, NEW ctx \in Context, bind_phase_ctx(p, ctx) PROVE dangling' = dangling
      <3>1. misuse' = misuse \cup Breaks("phases_first", pc = "phases" /\ p \notin Phases)
        BY <2>3, ClientOnTop DEF bind_phase_ctx
      <3>2. pc = "phases" => p \in Phases
        BY <1>1, <3>1 DEF Breaks
      <3>3. PICK k \in Slots(Phase_Buckets, p) : MoveBuckets(~HasPhase(Phase_Buckets, k, p))
        BY <2>3 DEF bind_phase_ctx
      <3>4. CASE pc = "phases"
        <4>1. HasPhase(Phase_Buckets, k, p)
          BY <3>2, <3>4, HasItsPhase
        <4>2. QED
          BY <2>1, <3>3, <4>1, Zenon DEF MoveBuckets
      <3>5. CASE pc # "phases"
        BY <2>2, <3>3, <3>5
      <3>6. QED
        BY <3>4, <3>5
    <2>4. ASSUME RegisterBinding, pc # "phases" PROVE dangling' = dangling
      <3>1. \E inserts : MoveBuckets(inserts)
        BY <2>4 DEF RegisterBinding
      <3>2. QED
        BY <2>2, <2>4, <3>1
    <2>5. QED
      BY <1>2, <1>4, <2>3, <2>4, DanglingChange
  <1>6. ASSUME pc' = "phases", NEW l \in Layer, Adds(stack', l) = 1
        PROVE  ToSet(Bindings'[l]) \subseteq Phases'
    <2>1. CASE add_layer(l)
      <3>1. misuse' = misuse \cup
              (Breaks("phases_first", pc = "phases" /\ ~ToSet(Bindings[l]) \subseteq Phases)
                 \cup Breaks("add_once", Attached(l) \/ Leaving(l))
                 \cup Breaks("quiet_teardown", pc = "teardown"))
        BY <2>1, ClientOnTop DEF add_layer
      <3>2. pc' = pc /\ Bindings' = Bindings /\ Phases' = Phases
        BY <2>1 DEF add_layer, layer, Phases
      <3>3. ToSet(Bindings[l]) \subseteq Phases
        BY <1>1, <1>6, <3>1, <3>2 DEF Breaks
      <3>4. QED
        BY <3>2, <3>3
    <2>2. CASE ~add_layer(l)
      <3>1. /\ Adds(stack, l) = 1 /\ pc' = pc /\ Bindings' = Bindings
            /\ RegisterBinding \/ Phase_Buckets' = Phase_Buckets
        BY <1>6, <2>2, StillAdds
      <3>2. Phases' = Phases
        BY <1>4, <1>6, <3>1 DEF Phases
      <3>3. QED
        BY <1>2, <1>6, <3>1, <3>2
    <2>3. QED
      BY <2>1, <2>2
  <1>7. QED
    BY <1>3, <1>5, <1>6

-----------------------------------------------------------------------------
(* The entries a layer has in the buckets, and those it should have.       *)

Mine(l, k) == {b \in BindingPointer : b.Layer = l /\ b.Index = k}
Removing(l) == {f \in StackFrame : f.layer = l /\ f.fn = "OnDettach"}

Registering(s, l, k) ==
    IF s # << >> /\ s[Len(s)].fn = "register" /\ s[Len(s)].layer = l /\ s[Len(s)].i <= k
    THEN 1 ELSE 0

(* Once for every time it is attached and for every OnDettach it is in.    *)
Owed(l) == Occurs(Layers, {l}) + Occurs(stack, Removing(l))

LEMMA CallsRemoving ==
    ASSUME NEW s \in Seq(StackFrame), NEW t \in Seq(StackFrame), NEW fn, NEW m,
           Calls(s, t, fn, m), NEW l
    PROVE  Occurs(t, Removing(l)) = Occurs(s, Removing(l))
                                      + IF fn = "OnDettach" /\ m = l THEN 1 ELSE 0
  <1>1. Len(s) \in Nat /\ Len(t) = Len(s) + 1 /\ DOMAIN t = 1..Len(s) + 1 /\ DOMAIN s = 1..Len(s)
    BY DEF Calls
  <1>2. \A n \in DOMAIN s : t[n] \in StackFrame /\ s[n] \in StackFrame /\ SameCall(t[n], s[n])
    BY <1>1 DEF Calls
  <1>3. \A n \in DOMAIN s : t[n] \in Removing(l) <=> s[n] \in Removing(l)
    BY <1>2 DEF SameCall, Removing
  <1>4. t[Len(t)] \in StackFrame /\ t[Len(t)].fn = fn /\ t[Len(t)].layer = m
    BY <1>1 DEF Calls
  <1>5. One(t[Len(t)], Removing(l)) = IF fn = "OnDettach" /\ m = l THEN 1 ELSE 0
    BY <1>4 DEF One, Removing
  <1>6. Occurs(t, Removing(l)) = Occurs(s, Removing(l)) + One(t[Len(t)], Removing(l))
    BY <1>1, <1>3, OccursLonger
  <1>7. QED
    BY <1>5, <1>6

LEMMA ReturnsRemoving ==
    ASSUME NEW s \in Seq(StackFrame), NEW t \in Seq(StackFrame), Returns(s, t),
           \A n \in DOMAIN s \ DOMAIN t : s[n].fn # "OnDettach", NEW l
    PROVE  Occurs(t, Removing(l)) = Occurs(s, Removing(l))
  <1>1. \A n \in DOMAIN t : n \in DOMAIN s /\ t[n] \in StackFrame /\ s[n] \in StackFrame
                            /\ SameCall(t[n], s[n])
    BY DEF Returns
  <1>2. \A n \in DOMAIN t : t[n] \in Removing(l) <=> s[n] \in Removing(l)
    BY <1>1 DEF SameCall, Removing
  <1>3. \A n \in DOMAIN s \ DOMAIN t : s[n] \notin Removing(l)
    BY DEF Removing
  <1>4. Places(t, Removing(l)) = Places(s, Removing(l))
    BY <1>1, <1>2, <1>3 DEF Places
  <1>5. QED
    BY <1>4 DEF Occurs

(* The top frame returns, which is not that of an OnDettach.               *)
LEMMA PopRemoving ==
    ASSUME Typed, [Next]_vars, Pop, stack # << >>, stack[Len(stack)].fn # "OnDettach", NEW l
    PROVE  Occurs(stack', Removing(l)) = Occurs(stack, Removing(l))
  <1>1. stack \in Seq(StackFrame) /\ stack' \in Seq(StackFrame)
    BY TypedNext DEF Typed, TypeOK
  <1>2. /\ Returns(stack, stack') /\ Len(stack) \in Nat \ {0} /\ DOMAIN stack = 1..Len(stack)
        /\ DOMAIN stack' = 1..Len(stack) - 1
    BY PopReturns
  <1>3. ASSUME NEW n \in DOMAIN stack \ DOMAIN stack' PROVE stack[n].fn # "OnDettach"
    <2>1. n = Len(stack)
      BY <1>2, <1>3
    <2>2. QED
      BY <2>1
  <1>4. QED
    BY <1>1, <1>2, <1>3, ReturnsRemoving

(* The OnDettach calls in progress change only when one is made or returns. *)
LEMMA RemovingNext ==
    ASSUME Typed, [Next]_vars, NEW l, ~(ReturnOnDettach /\ ~Fails("binding")),
           \A m \in Layer : ~Detach(m)
    PROVE  Occurs(stack', Removing(l)) = Occurs(stack, Removing(l))
  <1>1. stack \in Seq(StackFrame) /\ stack' \in Seq(StackFrame)
    BY TypedNext DEF Typed, TypeOK
  <1>2. ASSUME NEW fn, NEW m, Calls(stack, stack', fn, m), fn # "OnDettach"
        PROVE  Occurs(stack', Removing(l)) = Occurs(stack, Removing(l))
    <2>1. Occurs(stack', Removing(l)) = Occurs(stack, Removing(l)) + 0
      BY <1>1, <1>2, CallsRemoving
    <2>2. Occurs(stack, Removing(l)) \in Nat
      BY <1>1, OccursType
    <2>3. QED
      BY <2>1, <2>2
  <1>3. CASE UNCHANGED stack
    BY <1>3
  <1>4. CASE ClientCall
    <2>1. ASSUME NEW m \in Layer, add_layer(m)
          PROVE  Occurs(stack', Removing(l)) = Occurs(stack, Removing(l))
      BY <1>2, <2>1, ClientPushes
    <2>2. ASSUME application_event_callback
          PROVE  Occurs(stack', Removing(l)) = Occurs(stack, Removing(l))
      BY <1>2, <2>2, ClientPushes
    <2>3. QED
      BY <1>3, <1>4, <2>1, <2>2 DEF ClientCall, remove_layer, SetDestroy, bind_layer_phase,
         bind_phase_ctx, Stop
  <1>5. CASE Step
    <2>1. CASE RegisterBinding
      <3>1. Returns(stack, stack') /\ DOMAIN stack' = DOMAIN stack
        BY <2>1, RegisterReturns
      <3>2. QED
        BY <1>1, <3>1, ReturnsRemoving
    <2>2. CASE CallOnAttach
      <3>1. /\ Len(stack') = Len(stack)
            /\ stack[Len(stack)].fn = "register" /\ stack'[Len(stack)].fn = "OnAttach"
            /\ \A n \in DOMAIN stack : n # Len(stack) => stack'[n] = stack[n]
        BY <2>2, AttachTops
      <3>2. \A n \in DOMAIN stack : stack'[n] \in Removing(l) <=> stack[n] \in Removing(l)
        BY <3>1 DEF Removing
      <3>3. DOMAIN stack' = DOMAIN stack
        BY <1>1, <3>1
      <3>4. QED
        BY <3>2, <3>3, OccursSame
    <2>3. CASE ReturnOnAttach \/ ReturnPhase \/ ReturnTeardown \/ EndDispatch
      <3>1. Pop /\ stack # << >> /\ stack[Len(stack)].fn # "OnDettach"
        BY <2>3 DEF ReturnOnAttach, ReturnPhase, ReturnTeardown, EndDispatch, In, Top
      <3>2. QED
        BY <3>1, PopRemoving
    <2>4. CASE ReturnOnDettach
      BY <1>3, <2>4 DEF Fails
    <2>5. CASE ReturnOnEvent
      <3>1. /\ Returns(stack, stack')
            /\ \A n \in DOMAIN stack \ DOMAIN stack' : stack[n].fn # "OnDettach"
        BY <2>5, OnEventReturns
      <3>2. QED
        BY <1>1, <3>1, ReturnsRemoving
    <2>6. CASE CallOnEvent
      <3>1. CASE Fails("freed")
        BY <1>3, <3>1 DEF Fails
      <3>2. CASE ~Fails("freed")
        <4>1. Calls(stack, stack', "OnEvent", Layers[Top.i])
          BY <2>6, <3>2, OnEventCalls
        <4>2. QED
          BY <1>2, <4>1
      <3>3. QED
        BY <3>1, <3>2
    <2>7. CASE CallPhase
      <3>1. CASE Fails("bucket") \/ Fails("binding")
        BY <1>3, <3>1 DEF Fails
      <3>2. CASE ~(Fails("bucket") \/ Fails("binding"))
        <4>1. Calls(stack, stack', "phase", Bucket.Bindings[j].Layer)
          BY <2>7, <3>2, PhaseCalls
        <4>2. QED
          BY <1>2, <4>1
      <3>3. QED
        BY <3>1, <3>2
    <2>8. CASE Teardown
      <3>1. CASE Fails("freed")
        BY <1>3, <3>1 DEF Fails
      <3>2. CASE ~Fails("freed")
        <4>1. Calls(stack, stack', "teardown", Layers[i])
          BY <2>8, <3>2, TeardownCalls
        <4>2. QED
          BY <1>2, <4>1
      <3>3. QED
        BY <3>1, <3>2
    <2>9. CASE Sweep
      <3>1. Layers[i] \in Layer
        BY <2>9 DEF Typed, TypeOK, Sweep
      <3>2. QED
        BY <1>3, <2>9, <3>1 DEF Sweep
    <2>10. CASE \/ RunApplication \/ BeginFrame \/ NextBucket \/ EndPhases \/ EndSweep
                \/ EndRun \/ DestroyApplication \/ EndTeardown
      BY <1>3, <2>10 DEF RunApplication, BeginFrame, NextBucket, EndPhases, EndSweep, EndRun,
           DestroyApplication, EndTeardown
    <2>11. QED
      BY <1>5, <2>1, <2>2, <2>3, <2>4, <2>5, <2>6, <2>7, <2>8, <2>9, <2>10 DEF Step
  <1>6. CASE UNCHANGED vars
    BY <1>3, <1>6 DEF vars
  <1>7. QED
    BY <1>4, <1>5, <1>6 DEF Next, Ended

(* What is owed changes when add_layer is called and when OnDettach        *)
(* returns.                                                                *)
LEMMA OwedNext ==
    ASSUME Typed, [Next]_vars, NEW l \in Layer
    PROVE  /\ Owed(l) \in Nat
           /\ (\A m \in Layer : ~add_layer(m)) /\ ~(ReturnOnDettach /\ ~Fails("binding"))
                 => Owed(l)' = Owed(l)
           /\ \A m \in Layer : add_layer(m) => Owed(l)' = Owed(l) + One(m, {l})
           /\ ReturnOnDettach /\ ~Fails("binding") => Owed(l)' = Owed(l) - One(Top.layer, {l})
  <1>1. /\ stack \in Seq(StackFrame) /\ stack' \in Seq(StackFrame) /\ Layers \in Seq(Layer)
        /\ Occurs(Layers, {l}) \in Nat /\ Occurs(stack, Removing(l)) \in Nat
        /\ Occurs(Layers', {l}) \in Nat /\ Occurs(stack', Removing(l)) \in Nat
    BY TypedNext, OccursType DEF Typed, TypeOK
  <1>2. ASSUME NEW m \in Layer, Detach(m) PROVE Owed(l)' = Owed(l)
    <2>1. Occurs(Layers', {l}) = Occurs(Layers, {l}) - One(m, {l})
      BY <1>2, DetachLayers
    <2>2. Calls(stack, stack', "OnDettach", m)
      BY <1>2, DetachCalls
    <2>3. Occurs(stack', Removing(l)) = Occurs(stack, Removing(l)) + One(m, {l})
      BY <1>1, <2>2, CallsRemoving DEF One
    <2>4. One(m, {l}) \in Nat
      BY DEF One
    <2>5. QED
      BY <1>1, <2>1, <2>3, <2>4 DEF Owed
  <1>3. ASSUME NEW m \in Layer, add_layer(m) PROVE Owed(l)' = Owed(l) + One(m, {l})
    <2>1. Occurs(Layers', {l}) = Occurs(Layers, {l}) + One(m, {l})
      BY <1>3, AddLayers
    <2>2. Calls(stack, stack', "register", m)
      BY <1>3, ClientPushes
    <2>3. Occurs(stack', Removing(l)) = Occurs(stack, Removing(l)) + 0
      BY <1>1, <2>2, CallsRemoving
    <2>4. One(m, {l}) \in Nat
      BY DEF One
    <2>5. QED
      BY <1>1, <2>1, <2>3, <2>4 DEF Owed
  <1>4. ASSUME ReturnOnDettach, ~Fails("binding") PROVE Owed(l)' = Owed(l) - One(Top.layer, {l})
    <2>1. /\ stack # << >> /\ Top = stack[Len(stack)] /\ Top.fn = "OnDettach" /\ Pop
          /\ Layers' = Layers
      BY <1>4, TopOfStack DEF Typed, ReturnOnDettach, Top
    <2>2. /\ Len(stack') = Len(stack) - 1 /\ DOMAIN stack = 1..Len(stack)
          /\ Len(stack) \in Nat \ {0} /\ \A n \in DOMAIN stack' : stack[n] = stack'[n]
      BY <2>1, PopReturns
    <2>3. Len(stack) = Len(stack') + 1
      BY <1>1, <2>2
    <2>4. Occurs(stack, Removing(l)) = Occurs(stack', Removing(l)) + One(stack[Len(stack)], Removing(l))
      BY <1>1, <2>2, <2>3, OccursLonger
    <2>5. stack[Len(stack)] \in StackFrame
      BY <1>1, <2>1
    <2>6. One(stack[Len(stack)], Removing(l)) = One(Top.layer, {l})
      BY <2>1, <2>5 DEF One, Removing
    <2>7. One(Top.layer, {l}) \in Nat
      BY DEF One
    <2>8. QED
      BY <1>1, <2>1, <2>4, <2>6, <2>7 DEF Owed
  <1>5. ASSUME \A m \in Layer : ~add_layer(m), ~(ReturnOnDettach /\ ~Fails("binding"))
        PROVE  Owed(l)' = Owed(l)
    <2>1. CASE \E m \in Layer : Detach(m)
      BY <1>2, <2>1
    <2>2. CASE ~\E m \in Layer : Detach(m)
      <3>1. Layers' = Layers
        BY <1>5, <2>2, LayersChange
      <3>2. Occurs(stack', Removing(l)) = Occurs(stack, Removing(l))
        BY <1>5, <2>2, RemovingNext
      <3>3. QED
        BY <3>1, <3>2 DEF Owed
    <2>3. QED
      BY <2>1, <2>2
  <1>6. Owed(l) \in Nat
    BY <1>1 DEF Owed
  <1>7. QED
    BY <1>3, <1>4, <1>5, <1>6

(* Every entry is of the phase its layer bound at the entry's index.       *)
EntriesOwned ==
    \A p \in Phase : \A n \in DOMAIN BindingsOf(Phase_Buckets, p) :
        LET b == BindingsOf(Phase_Buckets, p)[n]
        IN  b.Index \in DOMAIN Bindings[b.Layer] /\ Bindings[b.Layer][b.Index] = p

BoundOnce ==
    "bind_once" \notin misuse =>
        \A l \in Layer : \A m, n \in DOMAIN Bindings[l] : Bindings[l][m] = Bindings[l][n] => m = n

(* An entry was there before, unless it is the one being registered.       *)
LEMMA EntriesFrom ==
    ASSUME Typed, Sorted(Phase_Buckets), [Next]_vars, NEW p \in Phase,
           NEW n \in DOMAIN BindingsOf(Phase_Buckets', p)
    PROVE  \/ \E m \in DOMAIN BindingsOf(Phase_Buckets, p) :
                 BindingsOf(Phase_Buckets', p)[n] = BindingsOf(Phase_Buckets, p)[m]
           \/ /\ RegisterBinding /\ p = Bindings[Top.layer][Top.i]
              /\ BindingsOf(Phase_Buckets', p)[n]
                   = [Layer |-> Top.layer, Index |-> Top.i, Block |-> Block[Top.layer]]
  <1> DEFINE s == BindingsOf(Phase_Buckets, p)
             t == BindingsOf(Phase_Buckets', p)
             b == [Layer |-> Top.layer, Index |-> Top.i, Block |-> Block[Top.layer]]
  <1>1. s \in Seq(BindingPointer)
    BY BindingsAt DEF Typed, TypeOK
  <1>2. CASE Phase_Buckets' = Phase_Buckets \/ \E q \in Phase, ctx \in Context : bind_phase_ctx(q, ctx)
    <2>1. t = s
      BY <1>2, ContextWrites
    <2>2. QED
      BY <2>1
  <1>3. CASE RegisterBinding
    <2>1. t = IF p = Bindings[Top.layer][Top.i] THEN Append(s, b) ELSE s
      BY <1>3, RegisterWrites
    <2> HIDE DEF s, t, b
    <2>2. CASE p = Bindings[Top.layer][Top.i]
      <3>1. t = Append(s, b) /\ n \in DOMAIN t
        BY <2>1, <2>2 DEF t
      <3>2. CASE n \in DOMAIN s
        <4>1. t[n] = s[n]
          BY <1>1, <3>1, <3>2
        <4>2. QED
          BY <3>2, <4>1 DEF s, t
      <3>3. CASE n \notin DOMAIN s
        <4>1. t[n] = b
          BY <1>1, <3>1, <3>3
        <4>2. QED
          BY <1>3, <2>2, <4>1 DEF t, b
      <3>4. QED
        BY <3>2, <3>3
    <2>3. CASE p # Bindings[Top.layer][Top.i]
      <3>1. t = s
        BY <2>1, <2>3
      <3>2. QED
        BY <3>1 DEF s, t
    <2>4. QED
      BY <2>2, <2>3
  <1>4. CASE ReturnOnDettach /\ ~Fails("binding")
    <2>1. Leaves(s, t, Top.layer)
      BY <1>4, DettachWrites
    <2> HIDE DEF s, t
    <2>2. n \in DOMAIN t
      BY DEF t
    <2>3. \E m \in DOMAIN s : t[n] = s[m]
      <3>1. CASE t = s
        BY <2>2, <3>1
      <3>2. CASE t # s
        <4>1. PICK k \in DOMAIN s : /\ DOMAIN t = 1..Len(s) - 1
                                    /\ \A x \in DOMAIN t : t[x] = IF x = k THEN s[Len(s)] ELSE s[x]
          BY <2>1, <3>2 DEF Leaves
        <4>2. Len(s) \in DOMAIN s /\ n \in DOMAIN s
          BY <1>1, <2>2, <4>1
        <4>3. t[n] = s[Len(s)] \/ t[n] = s[n]
          BY <2>2, <4>1
        <4>4. QED
          BY <4>2, <4>3
      <3>3. QED
        BY <3>1, <3>2
    <2>4. QED
      BY <2>3 DEF s, t
  <1>5. QED
    BY <1>2, <1>3, <1>4, BucketsChange

LEMMA EntriesOwnedNext ==
    ASSUME Typed, Sorted(Phase_Buckets), EntriesOwned, [Next]_vars
    PROVE  EntriesOwned'
  <1> SUFFICES ASSUME NEW p \in Phase, NEW n \in DOMAIN BindingsOf(Phase_Buckets', p)
               PROVE  LET b == BindingsOf(Phase_Buckets', p)[n]
                      IN  b.Index \in DOMAIN Bindings'[b.Layer] /\ Bindings'[b.Layer][b.Index] = p
    BY DEF EntriesOwned
  <1> DEFINE s == BindingsOf(Phase_Buckets, p)
             b == BindingsOf(Phase_Buckets', p)[n]
  <1>1. s \in Seq(BindingPointer)
    BY BindingsAt DEF Typed, TypeOK
  <1>2. b.Layer \in Layer /\ b.Index \in DOMAIN Bindings[b.Layer] /\ Bindings[b.Layer][b.Index] = p
    <2>1. CASE \E m \in DOMAIN s : b = s[m]
      <3>1. PICK m \in DOMAIN s : b = s[m]
        BY <2>1
      <3>2. s[m].Index \in DOMAIN Bindings[s[m].Layer] /\ Bindings[s[m].Layer][s[m].Index] = p
        BY DEF EntriesOwned
      <3>3. s[m] \in BindingPointer
        BY <1>1
      <3>4. QED
        BY <3>1, <3>2, <3>3 DEF BindingPointer
    <2>2. CASE /\ RegisterBinding /\ p = Bindings[Top.layer][Top.i]
               /\ b = [Layer |-> Top.layer, Index |-> Top.i, Block |-> Block[Top.layer]]
      <3>1. Top.layer \in Layer /\ Top.i \in DOMAIN Bindings[Top.layer]
        BY <2>2, RegisterWrites
      <3>2. b.Layer = Top.layer /\ b.Index = Top.i
        BY <2>2
      <3> HIDE DEF b
      <3>3. QED
        BY <2>2, <3>1, <3>2
    <2>3. QED
      BY <2>1, <2>2, EntriesFrom
  <1> HIDE DEF b
  <1>3. b.Index \in DOMAIN Bindings'[b.Layer] /\ Bindings'[b.Layer][b.Index] = p
    BY <1>2, BindingsGrow
  <1>4. QED
    BY <1>3 DEF b

LEMMA BoundOnceNext ==
    ASSUME Typed, BoundOnce, [Next]_vars PROVE BoundOnce'
  <1>1. SUFFICES ASSUME "bind_once" \notin misuse', NEW l \in Layer,
                        NEW m \in DOMAIN Bindings'[l], NEW n \in DOMAIN Bindings'[l],
                        Bindings'[l][m] = Bindings'[l][n]
                 PROVE  m = n
    BY DEF BoundOnce
  <1>2. \A x, y \in DOMAIN Bindings[l] : Bindings[l][x] = Bindings[l][y] => x = y
    BY <1>1, MisuseGrows DEF BoundOnce
  <1>3. Bindings \in [Layer -> Seq(Phase)]
    BY DEF Typed, TypeOK
  <1>4. CASE Bindings' = Bindings
    BY <1>1, <1>2, <1>4
  <1>5. ASSUME NEW a \in Layer, NEW p \in Phase, bind_layer_phase(a, p) PROVE m = n
    <2>1. Bindings' = [Bindings EXCEPT ![a] = Append(@, p)]
      BY <1>5 DEF bind_layer_phase
    <2>2. misuse' = misuse \cup (Breaks("bind_first", Attached(a) \/ Leaving(a))
                                   \cup Breaks("bind_once", p \in ToSet(Bindings[a])))
      BY <1>5, ClientOnTop DEF bind_layer_phase
    <2>3. p \notin ToSet(Bindings[a])
      BY <1>1, <2>2 DEF Breaks
    <2>4. CASE l = a
      <3>1. Bindings[l] \in Seq(Phase) /\ Bindings'[l] = Append(Bindings[l], p)
        BY <1>3, <2>1, <2>4
      <3>2. \A x \in DOMAIN Bindings[l] : Bindings[l][x] # p
        BY <2>3, <2>4 DEF ToSet
      <3> DEFINE s == Bindings[l]
      <3>3. s \in Seq(Phase) /\ \A x \in DOMAIN s : s[x] # p
        BY <3>1, <3>2
      <3>4. /\ m \in DOMAIN Append(s, p) /\ n \in DOMAIN Append(s, p)
            /\ Append(s, p)[m] = Append(s, p)[n]
        BY <1>1, <3>1
      <3>5. \A x, y \in DOMAIN s : s[x] = s[y] => x = y
        BY <1>2
      <3> HIDE DEF s
      <3>6. QED
        BY <3>3, <3>4, <3>5
    <2>5. CASE l # a
      <3>1. Bindings'[l] = Bindings[l]
        BY <1>3, <2>1, <2>5
      <3>2. QED
        BY <1>1, <1>2, <3>1
    <2>6. QED
      BY <2>4, <2>5
  <1>6. QED
    BY <1>4, <1>5, BindingsChange

(* Add_layer's loop is interrupted by nobody.                              *)
LEMMA RegisterOnly ==
    ASSUME Typed, [Next]_vars, stack # << >>, stack[Len(stack)].fn = "register"
    PROVE  RegisterBinding \/ CallOnAttach \/ UNCHANGED vars
  <1>1. Top.fn = "register"
    BY DEF Top
  <1>2. ~ClientCall
    BY ClientLeaves DEF Callback
  <1>3. Step => RegisterBinding \/ CallOnAttach
    BY <1>1 DEF Step, ReturnOnAttach, ReturnOnDettach, CallOnEvent,
       ReturnOnEvent, EndDispatch, RunApplication, BeginFrame, CallPhase, ReturnPhase, NextBucket,
       EndPhases, Sweep, EndSweep, EndRun, DestroyApplication, Teardown, ReturnTeardown,
       EndTeardown, In, At
  <1>4. QED
    BY <1>2, <1>3 DEF Next, Ended

(* Its index moves on.                                                     *)
LEMMA RegisterAdvances ==
    ASSUME Typed, RegisterBinding
    PROVE  /\ Len(stack') = Len(stack) /\ stack' # << >>
           /\ stack'[Len(stack)].fn = "register" /\ stack'[Len(stack)].layer = Top.layer
           /\ stack'[Len(stack)].i = Top.i + 1
  <1>1. /\ stack # << >> /\ Top \in StackFrame /\ Len(stack) \in DOMAIN stack /\ Top.fn = "register"
        /\ Top = stack[Len(stack)] /\ stack \in Seq(StackFrame)
    BY TopOfStack DEF Typed, TypeOK, RegisterBinding, Top
  <1> DEFINE f == [Top EXCEPT !.i = @ + 1]
  <1>2. stack' = [stack EXCEPT ![Len(stack)] = f]
    BY <1>1 DEF RegisterBinding
  <1>3. f.fn = "register" /\ f.layer = Top.layer /\ f.i = Top.i + 1
    BY <1>1 DEF StackFrame
  <1> HIDE DEF f
  <1>4. Len(stack') = Len(stack) /\ stack'[Len(stack)] = f
    BY <1>1, <1>2
  <1>5. stack' # << >>
    BY <1>1, <1>2
  <1>6. QED
    BY <1>3, <1>4, <1>5

Had(l, k) == Occurs(BindingsOf(Phase_Buckets, Bindings[l][k]), Mine(l, k)) + Registering(stack, l, k)

(* A layer has no more entries than it is owed, and all of them when it is *)
(* bound before it is added.                                               *)
Balanced ==
    "bind_once" \notin misuse =>
        \A l \in Layer : \A k \in DOMAIN Bindings[l] :
            /\ Had(l, k) <= Owed(l)
            /\ "bind_first" \notin misuse => Had(l, k) = Owed(l)

LEMMA BindingsAre ==
    ASSUME Typed, Sorted(Phase_Buckets)
    PROVE  \A p : /\ BindingsOf(Phase_Buckets, p) \in Seq(BindingPointer)
                  /\ \A T : Occurs(BindingsOf(Phase_Buckets, p), T) \in Nat
  <1>1. \A p : BindingsOf(Phase_Buckets, p) \in Seq(BindingPointer)
    BY BindingsAt DEF Typed, TypeOK
  <1>2. QED
    BY <1>1, OccursType

LEMMA RegisteringType == \A s, l, k : Registering(s, l, k) \in Nat
  BY DEF Registering

(* The bindings a layer has already, when it is being registered.          *)
LEMMA RegisterBalances ==
    ASSUME Typed, Sorted(Phase_Buckets), [Next]_vars, RegisterBinding,
           NEW l \in Layer, NEW k \in DOMAIN Bindings[l]
    PROVE  Bindings' = Bindings /\ Had(l, k)' = Had(l, k)
  <1> DEFINE p == Bindings[Top.layer][Top.i]
             q == Bindings[l][k]
             b == [Layer |-> Top.layer, Index |-> Top.i, Block |-> Block[Top.layer]]
             s == BindingsOf(Phase_Buckets, q)
             t == BindingsOf(Phase_Buckets', q)
  <1>1. /\ stack # << >> /\ Top = stack[Len(stack)] /\ Top \in StackFrame /\ Top.fn = "register"
        /\ b \in BindingPointer
        /\ t = IF q = p THEN Append(s, b) ELSE s
    BY RegisterWrites
  <1>2. Bindings' = Bindings
    BY DEF RegisterBinding, layer
  <1>3. Bindings[l] \in Seq(Phase) /\ s \in Seq(BindingPointer) /\ Occurs(s, Mine(l, k)) \in Nat
    BY BindingsAre DEF Typed, TypeOK
  <1>4. k \in Nat \ {0} /\ Top.i \in Nat \ {0}
    BY <1>1, <1>3 DEF StackFrame
  <1>5. /\ Len(stack') = Len(stack) /\ stack' # << >>
        /\ stack'[Len(stack)].fn = "register" /\ stack'[Len(stack)].layer = Top.layer
        /\ stack'[Len(stack)].i = Top.i + 1
    BY RegisterAdvances
  <1>6. Registering(stack, l, k) = IF Top.layer = l /\ Top.i <= k THEN 1 ELSE 0
    BY <1>1 DEF Registering
  <1>7. Registering(stack', l, k) = IF Top.layer = l /\ Top.i + 1 <= k THEN 1 ELSE 0
    BY <1>5 DEF Registering
  <1>8. b \in Mine(l, k) <=> Top.layer = l /\ Top.i = k
    BY <1>1 DEF Mine
  <1>9. Top.layer = l /\ Top.i = k => p = q
    OBVIOUS
  <1> HIDE DEF b, p, q, s, t
  <1>10. Occurs(t, Mine(l, k)) = Occurs(s, Mine(l, k)) + IF Top.layer = l /\ Top.i = k THEN 1 ELSE 0
    <2>1. CASE q = p
      <3>1. t \in Seq(BindingPointer) /\ Len(t) = Len(s) + 1 /\ t[Len(t)] = b
            /\ \A n \in DOMAIN s : t[n] = s[n]
        BY <1>1, <1>3, <2>1
      <3>2. Occurs(t, Mine(l, k)) = Occurs(s, Mine(l, k)) + One(b, Mine(l, k))
        BY <1>3, <3>1, OccursLonger
      <3>3. QED
        BY <1>8, <3>2 DEF One
    <2>2. CASE q # p
      BY <1>1, <1>3, <1>9, <2>2
    <2>3. QED
      BY <2>1, <2>2
  <1>11. /\ Had(l, k) = Occurs(s, Mine(l, k)) + Registering(stack, l, k)
         /\ Had(l, k)' = Occurs(t, Mine(l, k)) + Registering(stack', l, k)
    BY <1>2 DEF Had, s, t, q
  <1>12. QED
    BY <1>2, <1>3, <1>4, <1>6, <1>7, <1>10, <1>11

(* OnDettach returns: its layer loses one of its entries for each binding, *)
(* and has one less to have.                                               *)
LEMMA DettachBalances ==
    ASSUME Typed, Sorted(Phase_Buckets), Dispatches(stack, Layers), EntriesOwned, [Next]_vars,
           ReturnOnDettach, ~Fails("binding"),
           NEW l \in Layer, NEW k \in DOMAIN Bindings[l],
           \A m, n \in DOMAIN Bindings[l] : Bindings[l][m] = Bindings[l][n] => m = n,
           Had(l, k) <= Owed(l)
    PROVE  /\ Bindings' = Bindings /\ Had(l, k)' <= Owed(l)'
           /\ Had(l, k) = Owed(l) => Had(l, k)' = Owed(l)'
  <1> DEFINE q == Bindings[l][k]
             s == BindingsOf(Phase_Buckets, q)
             t == BindingsOf(Phase_Buckets', q)
             m == Top.layer
  <1>1. /\ stack # << >> /\ stack[Len(stack)].fn = "OnDettach" /\ m \in Layer
        /\ Pop /\ Leaves(s, t, m) /\ t \in Seq(BindingPointer)
    BY DettachWrites
  <1>2. Bindings' = Bindings
    BY DEF ReturnOnDettach, layer
  <1>3. /\ q \in Phase /\ s \in Seq(BindingPointer) /\ Occurs(s, Mine(l, k)) \in Nat
        /\ Occurs(t, Mine(l, k)) \in Nat
    <2>1. q \in Phase
      BY DEF Typed, TypeOK
    <2>2. s \in Seq(BindingPointer) /\ Occurs(s, Mine(l, k)) \in Nat
      BY BindingsAre
    <2> HIDE DEF s, t, q
    <2>3. Occurs(t, Mine(l, k)) \in Nat
      BY <1>1, OccursType
    <2>4. QED
      BY <2>1, <2>2, <2>3
  <1>4. /\ Owed(l)' = Owed(l) - One(m, {l}) /\ Owed(l) \in Nat /\ Owed(l)' \in Nat
    <2>1. Owed(l)' = Owed(l) - One(m, {l}) /\ Owed(l) \in Nat
      BY OwedNext
    <2>2. Occurs(Layers', {l}) \in Nat /\ Occurs(stack', Removing(l)) \in Nat
      BY TypedNext, OccursType DEF Typed, TypeOK
    <2>3. QED
      BY <2>1, <2>2 DEF Owed
  <1>5. Registering(stack, l, k) = 0
    BY <1>1 DEF Registering
  <1>6. Registering(stack', l, k) = 0
    <2>1. stack' \in Seq(StackFrame)
      BY TypedNext DEF Typed, TypeOK
    <2>2. NoneAdds(stack)
      BY <1>1, NoneRegisters
    <2>3. NoneAdds(stack')
      BY <1>1, <2>2, PopReturns, ReturnsAdds
    <2>4. Adds(stack', l) = 0
      BY <2>1, <2>3, AddsNone
    <2>5. QED
      BY <2>4 DEF Adds, Registering
  <1>7. /\ Had(l, k) = Occurs(s, Mine(l, k)) /\ Had(l, k)' = Occurs(t, Mine(l, k))
    BY <1>2, <1>3, <1>5, <1>6 DEF Had
  <1>8. ASSUME NEW n \in DOMAIN s, s[n].Layer = l PROVE s[n] \in Mine(l, k)
    <2>1. s[n].Index \in DOMAIN Bindings[l] /\ Bindings[l][s[n].Index] = Bindings[l][k]
      BY <1>3, <1>8 DEF EntriesOwned
    <2>2. s[n].Index = k
      BY <2>1
    <2>3. s[n] \in BindingPointer
      BY <1>3
    <2>4. QED
      BY <1>8, <2>2, <2>3 DEF Mine
  <1> HIDE DEF s, t, q, m
  <1>9. CASE \E n \in DOMAIN s : s[n].Layer = m
    <2>1. PICK x \in DOMAIN s : /\ s[x].Layer = m
                                /\ Len(t) = Len(s) - 1 /\ DOMAIN t = 1..Len(s) - 1
                                /\ \A n \in DOMAIN t : t[n] = IF n = x THEN s[Len(s)] ELSE s[n]
      BY <1>1, <1>9 DEF Leaves
    <2>2. Occurs(t, Mine(l, k)) = Occurs(s, Mine(l, k)) - One(s[x], Mine(l, k))
      BY <1>1, <1>3, <2>1, OccursRemove
    <2>3. One(s[x], Mine(l, k)) = One(m, {l})
      BY <1>8, <2>1 DEF One, Mine
    <2>4. One(m, {l}) \in Nat
      BY DEF One
    <2>5. QED
      BY <1>2, <1>3, <1>4, <1>7, <2>2, <2>3, <2>4
  <1>10. CASE ~\E n \in DOMAIN s : s[n].Layer = m
    <2>1. t = s
      BY <1>1, <1>10 DEF Leaves
    <2>2. CASE m = l
      <3>1. \A n \in DOMAIN s : s[n] \notin Mine(l, k)
        BY <1>10, <2>2 DEF Mine
      <3>2. Occurs(s, Mine(l, k)) = 0
        BY <1>3, <3>1, OccursType
      <3>3. Owed(l)' = Owed(l) - 1
        BY <1>4, <2>2 DEF One
      <3>4. QED
        BY <1>2, <1>3, <1>4, <1>7, <2>1, <3>2, <3>3
    <2>3. CASE m # l
      <3>1. Owed(l)' = Owed(l)
        BY <1>4, <2>3 DEF One
      <3>2. QED
        BY <1>2, <1>7, <2>1, <3>1
    <2>4. QED
      BY <2>2, <2>3
  <1>11. QED
    BY <1>9, <1>10

(* Add_layer owes the layer one more entry for each binding, and is about  *)
(* to register it.                                                         *)
LEMMA AddBalances ==
    ASSUME Typed, Sorted(Phase_Buckets), Dispatches(stack, Layers), [Next]_vars,
           NEW m \in Layer, add_layer(m), NEW l \in Layer, NEW k \in DOMAIN Bindings[l]
    PROVE  /\ Bindings' = Bindings /\ Had(l, k)' = Had(l, k) + One(m, {l})
           /\ Owed(l)' = Owed(l) + One(m, {l})
  <1>1. Bindings' = Bindings /\ Phase_Buckets' = Phase_Buckets
    BY DEF add_layer, layer
  <1>2. Owed(l)' = Owed(l) + One(m, {l})
    BY OwedNext
  <1>3. Registering(stack, l, k) = 0
    BY ClientLeaves DEF ClientCall, Callback, Registering
  <1>4. /\ stack' = Append(stack, Call("register", m)) /\ stack \in Seq(StackFrame)
        /\ Call("register", m).fn = "register" /\ Call("register", m).layer = m
        /\ Call("register", m).i = 1
    BY DEF add_layer, Push, Call, Typed, TypeOK
  <1>5. k \in Nat \ {0}
    BY DEF Typed, TypeOK
  <1> DEFINE f == Call("register", m)
  <1>6. stack' # << >> /\ stack'[Len(stack')] = f
    <2> HIDE DEF f
    <2>1. stack' = Append(stack, f)
      BY <1>4 DEF f
    <2>2. QED
      BY <1>4, <2>1
  <1>7. Registering(stack', l, k) = One(m, {l})
    BY <1>4, <1>5, <1>6 DEF Registering, One
  <1>8. Occurs(BindingsOf(Phase_Buckets, Bindings[l][k]), Mine(l, k)) \in Nat /\ One(m, {l}) \in Nat
    BY BindingsAre DEF One
  <1>9. QED
    BY <1>1, <1>2, <1>3, <1>7, <1>8 DEF Had

(* Nothing is registered for a binding that is new.                        *)
LEMMA BindBalances ==
    ASSUME Typed, Sorted(Phase_Buckets), EntriesOwned, [Next]_vars,
           NEW m \in Layer, NEW p \in Phase, bind_layer_phase(m, p),
           NEW l \in Layer, NEW k \in DOMAIN Bindings'[l], k \notin DOMAIN Bindings[l]
    PROVE  Had(l, k)' = 0 /\ ("bind_first" \notin misuse' => Owed(l)' = 0)
  <1>1. /\ Phase_Buckets' = Phase_Buckets /\ stack' = stack /\ Layers' = Layers
        /\ Bindings' = [Bindings EXCEPT ![m] = Append(@, p)]
        /\ misuse' = misuse \cup (Breaks("bind_first", Attached(m) \/ Leaving(m))
                                    \cup Breaks("bind_once", p \in ToSet(Bindings[m])))
    BY ClientOnTop DEF bind_layer_phase, registry
  <1>2. Registering(stack, l, k) = 0
    BY ClientLeaves DEF ClientCall, Callback, Registering
  <1>3. Bindings \in [Layer -> Seq(Phase)] /\ Bindings' \in [Layer -> Seq(Phase)]
    BY TypedNext DEF Typed, TypeOK
  <1>4. l = m
    BY <1>1, <1>3
  <1> DEFINE q == Bindings'[l][k]
             s == BindingsOf(Phase_Buckets, q)
  <1>5. q \in Phase /\ s \in Seq(BindingPointer)
    BY <1>3, BindingsAre
  <1>6. \A n \in DOMAIN s : s[n] \notin Mine(l, k)
    <2>1. \A n \in DOMAIN s : s[n].Index \in DOMAIN Bindings[s[n].Layer]
      BY <1>5 DEF EntriesOwned
    <2>2. QED
      BY <2>1 DEF Mine
  <1> HIDE DEF s, q
  <1>7. Occurs(s, Mine(l, k)) = 0
    BY <1>5, <1>6, OccursType
  <1>8. Had(l, k)' = 0
    BY <1>1, <1>2, <1>7 DEF Had, s, q
  <1>9. ASSUME "bind_first" \notin misuse' PROVE Owed(l)' = 0
    <2>1. ~Attached(l) /\ ~Leaving(l)
      BY <1>1, <1>4, <1>9 DEF Breaks
    <2>2. Layers \in Seq(Layer) /\ stack \in Seq(StackFrame)
      BY DEF Typed, TypeOK
    <2>3. Occurs(Layers, {l}) = 0
      <3>1. \A n \in DOMAIN Layers : Layers[n] \notin {l}
        BY <2>1 DEF Attached, ToSet
      <3>2. QED
        BY <2>2, <3>1, OccursType
    <2>4. Occurs(stack, Removing(l)) = 0
      <3>1. \A n \in DOMAIN stack : stack[n] \notin Removing(l)
        BY <2>1 DEF Leaving, Removing
      <3>2. QED
        BY <2>2, <3>1, OccursType
    <2>5. QED
      BY <1>1, <2>3, <2>4 DEF Owed
  <1>10. QED
    BY <1>8, <1>9

(* Any other step leaves the balance as it is.                             *)
LEMMA OthersBalance ==
    ASSUME Typed, Sorted(Phase_Buckets), Dispatches(stack, Layers), [Next]_vars,
           \A m \in Layer : ~add_layer(m), ~(ReturnOnDettach /\ ~Fails("binding")), ~RegisterBinding,
           NEW l \in Layer, NEW k \in DOMAIN Bindings[l]
    PROVE  Had(l, k)' = Had(l, k) /\ Owed(l)' = Owed(l)
  <1>1. Owed(l)' = Owed(l)
    BY OwedNext
  <1>2. Bindings'[l][k] = Bindings[l][k]
    BY BindingsGrow
  <1>3. \A q : BindingsOf(Phase_Buckets', q) = BindingsOf(Phase_Buckets, q)
    BY BucketsChange, ContextWrites
  <1>4. Registering(stack', l, k) = Registering(stack, l, k)
    <2>1. CASE stack # << >> /\ stack[Len(stack)].fn = "register"
      <3>1. CASE UNCHANGED vars
        BY <3>1 DEF vars
      <3>2. CASE CallOnAttach
        <4>1. Registering(stack', l, k) = 0
          BY <3>2, AttachTops DEF Adds, Registering
        <4>2. Registering(stack, l, k) = 0
          <5>1. Top.i > Len(Bindings[Top.layer]) /\ Top = stack[Len(stack)] /\ Top \in StackFrame
            BY <3>2, TopOfStack DEF Typed, CallOnAttach, Top
          <5>2. Bindings[l] \in Seq(Phase) /\ k <= Len(Bindings[l]) /\ k \in Nat
            BY DEF Typed, TypeOK
          <5>3. Top.i \in Nat
            BY <5>1 DEF StackFrame
          <5>4. Top.layer = l => ~(Top.i <= k)
            BY <5>1, <5>2, <5>3
          <5>5. QED
            BY <5>1, <5>4 DEF Registering
        <4>3. QED
          BY <4>1, <4>2
      <3>3. QED
        BY <2>1, <3>1, <3>2, RegisterOnly
    <2>2. CASE ~(stack # << >> /\ stack[Len(stack)].fn = "register")
      <3>1. Adds(stack, l) = 0 /\ Registering(stack, l, k) = 0
        BY <2>2 DEF Adds, Registering
      <3>2. ~CallOnAttach
        BY <2>2, AttachTops
      <3>3. Adds(stack', l) = 0
        BY <3>1, <3>2, AddsNext
      <3>4. Registering(stack', l, k) = 0
        BY <3>3 DEF Adds, Registering
      <3>5. QED
        BY <3>1, <3>4
    <2>3. QED
      BY <2>1, <2>2
  <1>5. QED
    BY <1>1, <1>2, <1>3, <1>4 DEF Had

LEMMA BalancedNext ==
    ASSUME Typed, Sorted(Phase_Buckets), Dispatches(stack, Layers), EntriesOwned, BoundOnce, Balanced,
           [Next]_vars
    PROVE  Balanced'
  <1>1. SUFFICES ASSUME "bind_once" \notin misuse', NEW l \in Layer, NEW k \in DOMAIN Bindings'[l]
                 PROVE  /\ Had(l, k)' <= Owed(l)'
                        /\ "bind_first" \notin misuse' => Had(l, k)' = Owed(l)'
    BY DEF Balanced
  <1>2. "bind_once" \notin misuse
    BY <1>1, MisuseGrows
  <1>3. ASSUME k \in DOMAIN Bindings[l]
        PROVE  /\ Had(l, k) <= Owed(l) /\ ("bind_first" \notin misuse' => Had(l, k) = Owed(l))
               /\ Had(l, k) \in Nat /\ Owed(l) \in Nat
    <2>1. Had(l, k) <= Owed(l) /\ ("bind_first" \notin misuse' => Had(l, k) = Owed(l))
      BY <1>2, <1>3, MisuseGrows DEF Balanced
    <2>2. Had(l, k) \in Nat
      BY BindingsAre, RegisteringType DEF Had
    <2>3. QED
      BY <2>1, <2>2, OwedNext
  <1>4. CASE k \in DOMAIN Bindings[l]
    <2>1. CASE \E m \in Layer : add_layer(m)
      <3>1. PICK m \in Layer : add_layer(m)
        BY <2>1
      <3>2. /\ Had(l, k)' = Had(l, k) + One(m, {l})
            /\ Owed(l)' = Owed(l) + One(m, {l})
        BY <1>4, <3>1, AddBalances
      <3>3. One(m, {l}) \in Nat
        BY DEF One
      <3>4. QED
        BY <1>3, <1>4, <3>2, <3>3
    <2>2. CASE RegisterBinding
      <3>1. Had(l, k)' = Had(l, k)
        BY <1>4, <2>2, RegisterBalances
      <3>2. (\A m \in Layer : ~add_layer(m)) /\ ~ReturnOnDettach
        <4>1. Top.fn = "register" /\ stack # << >>
          BY <2>2 DEF RegisterBinding, In
        <4>2. ~ClientCall
          BY <4>1, ClientLeaves DEF Callback, Top
        <4>3. QED
          BY <4>1, <4>2 DEF ClientCall, ReturnOnDettach, In
      <3>3. Owed(l)' = Owed(l)
        BY <3>2, OwedNext
      <3>4. QED
        BY <1>3, <1>4, <3>1, <3>3
    <2>3. CASE ReturnOnDettach /\ ~Fails("binding")
      <3>1. \A m, n \in DOMAIN Bindings[l] : Bindings[l][m] = Bindings[l][n] => m = n
        BY <1>2 DEF BoundOnce
      <3>2. /\ Had(l, k)' <= Owed(l)'
            /\ Had(l, k) = Owed(l) => Had(l, k)' = Owed(l)'
        BY <1>3, <1>4, <2>3, <3>1, DettachBalances
      <3>3. QED
        BY <1>3, <1>4, <3>2
    <2>4. CASE ~(\E m \in Layer : add_layer(m)) /\ ~RegisterBinding /\ ~(ReturnOnDettach /\ ~Fails("binding"))
      <3>1. Had(l, k)' = Had(l, k) /\ Owed(l)' = Owed(l)
        BY <1>4, <2>4, OthersBalance
      <3>2. QED
        BY <1>3, <1>4, <3>1
    <2>5. QED
      BY <2>1, <2>2, <2>3, <2>4
  <1>5. CASE k \notin DOMAIN Bindings[l]
    <2>1. PICK m \in Layer, p \in Phase : bind_layer_phase(m, p)
      BY <1>5, BindingsChange
    <2>2. Had(l, k)' = 0 /\ ("bind_first" \notin misuse' => Owed(l)' = 0)
      BY <1>5, <2>1, BindBalances
    <2>3. Owed(l)' \in Nat
      <3>1. Occurs(Layers', {l}) \in Nat /\ Occurs(stack', Removing(l)) \in Nat
        BY TypedNext, OccursType DEF Typed, TypeOK
      <3>2. QED
        BY <3>1 DEF Owed
    <2>4. QED
      BY <2>2, <2>3
  <1>6. QED
    BY <1>4, <1>5

(* The pointers in the buckets, and the one the frame follows, are good.   *)
Fresh ==
    "bind_first" \notin misuse /\ "bind_once" \notin misuse =>
        /\ fault # "binding"
        /\ \A p \in Phase : \A n \in DOMAIN BindingsOf(Phase_Buckets, p) :
              ~Dangles(BindingsOf(Phase_Buckets, p)[n])

(* A bucket has the bindings of its phase.                                 *)
LEMMA BucketIs ==
    ASSUME Typed, Sorted(Phase_Buckets), NEW m \in DOMAIN Phase_Buckets
    PROVE  /\ Phase_Buckets[m] \in PhaseBucket /\ Phase_Buckets[m].Phase \in Phase
           /\ Phase_Buckets[m].Bindings \in Seq(BindingPointer)
           /\ BindingsOf(Phase_Buckets, Phase_Buckets[m].Phase) = Phase_Buckets[m].Bindings
  <1>1. Phase_Buckets \in Seq(PhaseBucket)
    BY DEF Typed, TypeOK
  <1>2. Phase_Buckets[m] \in PhaseBucket
    BY <1>1
  <1>3. QED
    BY <1>1, <1>2, BindingsAt DEF PhaseBucket

(* The client moves the bindings of a layer only when no bucket points to  *)
(* them.                                                                   *)
LEMMA BindFresh ==
    ASSUME Typed, Sorted(Phase_Buckets), EntriesOwned, Balanced,
           NEW l \in Layer, NEW p \in Phase, bind_layer_phase(l, p),
           "bind_first" \notin misuse', "bind_once" \notin misuse
    PROVE  \A q \in Phase : \A n \in DOMAIN BindingsOf(Phase_Buckets, q) :
              BindingsOf(Phase_Buckets, q)[n].Layer # l
  <1>1. misuse' = misuse \cup (Breaks("bind_first", Attached(l) \/ Leaving(l))
                                 \cup Breaks("bind_once", p \in ToSet(Bindings[l])))
    BY ClientOnTop DEF bind_layer_phase
  <1>2. ~Attached(l) /\ ~Leaving(l) /\ "bind_first" \notin misuse
    BY <1>1 DEF Breaks
  <1>3. Layers \in Seq(Layer) /\ stack \in Seq(StackFrame) /\ Bindings \in [Layer -> Seq(Phase)]
    BY DEF Typed, TypeOK
  <1>4. Owed(l) = 0
    <2>1. \A n \in DOMAIN Layers : Layers[n] \notin {l}
      BY <1>2 DEF Attached, ToSet
    <2>2. \A n \in DOMAIN stack : stack[n] \notin Removing(l)
      BY <1>2 DEF Leaving, Removing
    <2>3. Occurs(Layers, {l}) = 0 /\ Occurs(stack, Removing(l)) = 0
      BY <1>3, <2>1, <2>2, OccursType
    <2>4. QED
      BY <2>3 DEF Owed
  <1>5. SUFFICES ASSUME NEW q \in Phase, NEW n \in DOMAIN BindingsOf(Phase_Buckets, q),
                        BindingsOf(Phase_Buckets, q)[n].Layer = l
                 PROVE  FALSE
    OBVIOUS
  <1> DEFINE s == BindingsOf(Phase_Buckets, q)
             k == s[n].Index
  <1>6. s \in Seq(BindingPointer)
    BY BindingsAre
  <1>7. k \in DOMAIN Bindings[l] /\ Bindings[l][k] = q
    BY <1>5 DEF EntriesOwned
  <1>8. s[n] \in Mine(l, k)
    BY <1>5, <1>6 DEF Mine
  <1> HIDE DEF k
  <1>9. n \in DOMAIN s /\ Occurs(s, Mine(l, k)) # 0 /\ Occurs(s, Mine(l, k)) \in Nat
    BY <1>6, <1>8, OccursType
  <1>10. Had(l, k) = Occurs(s, Mine(l, k)) + Registering(stack, l, k)
    BY <1>7 DEF Had
  <1>11. Had(l, k) = 0
    BY <1>2, <1>4, <1>7 DEF Balanced
  <1> HIDE DEF s
  <1>12. QED
    BY <1>9, <1>10, <1>11, RegisteringType

LEMMA FreshNext ==
    ASSUME Typed, Sorted(Phase_Buckets), EntriesOwned, Balanced, Fresh, [Next]_vars
    PROVE  Fresh'
  <1>1. SUFFICES ASSUME "bind_first" \notin misuse', "bind_once" \notin misuse'
                 PROVE  /\ fault' # "binding"
                        /\ \A p \in Phase : \A n \in DOMAIN BindingsOf(Phase_Buckets', p) :
                              LET b == BindingsOf(Phase_Buckets', p)[n]
                              IN  b.Block = Block'[b.Layer]
    BY DEF Fresh, Dangles
  <1>2. "bind_first" \notin misuse /\ "bind_once" \notin misuse
    BY <1>1, MisuseGrows
  <1>3. fault # "binding"
    BY <1>2 DEF Fresh
  <1>4. ASSUME NEW p \in Phase, NEW n \in DOMAIN BindingsOf(Phase_Buckets, p)
        PROVE  BindingsOf(Phase_Buckets, p)[n].Block = Block[BindingsOf(Phase_Buckets, p)[n].Layer]
    BY <1>2, <1>4 DEF Fresh, Dangles
  <1>5. \A m \in DOMAIN Phase_Buckets :
           /\ Phase_Buckets[m].Phase \in Phase
           /\ BindingsOf(Phase_Buckets, Phase_Buckets[m].Phase) = Phase_Buckets[m].Bindings
    BY BucketIs
  <1>6. \A m \in DOMAIN Phase_Buckets : \A n \in DOMAIN Phase_Buckets[m].Bindings :
           ~Dangles(Phase_Buckets[m].Bindings[n])
    BY <1>4, <1>5 DEF Dangles
  <1>7. fault' # "binding"
    <2>1. CASE CallPhase /\ ~dangling /\ Dangles(Bucket.Bindings[j]) /\ fault' = "binding"
      <3>1. i \in DOMAIN Phase_Buckets /\ j \in DOMAIN Phase_Buckets[i].Bindings
        <4>1. i \in Nat \ {0} /\ j \in Nat \ {0} /\ Phase_Buckets \in Seq(PhaseBucket)
          BY DEF Typed, TypeOK
        <4>2. i \in DOMAIN Phase_Buckets
          BY <2>1, <4>1 DEF CallPhase
        <4>3. Phase_Buckets[i].Bindings \in Seq(BindingPointer)
          BY <4>2, BucketIs
        <4>4. j <= Len(Phase_Buckets[i].Bindings)
          BY <2>1 DEF CallPhase, Bucket
        <4>5. QED
          BY <4>1, <4>2, <4>3, <4>4
      <3>2. QED
        BY <1>6, <2>1, <3>1 DEF Bucket
    <2>2. CASE ReturnOnDettach /\ fault' = "binding"
      <3>1. ~\E n \in DOMAIN Phase_Buckets : ReadsFreed(Phase_Buckets[n], Top.layer)
        BY <1>6 DEF ReadsFreed
      <3>2. fault' = fault
        BY <2>2, <3>1 DEF ReturnOnDettach
      <3>3. QED
        BY <1>3, <3>2
    <2>3. QED
      BY <1>3, <2>1, <2>2, FaultChange
  <1>8. ASSUME NEW p \in Phase, NEW n \in DOMAIN BindingsOf(Phase_Buckets', p)
        PROVE  LET b == BindingsOf(Phase_Buckets', p)[n]
               IN  b.Block = Block'[b.Layer]
    <2> DEFINE s == BindingsOf(Phase_Buckets, p)
               b == BindingsOf(Phase_Buckets', p)[n]
    <2>1. CASE \E m \in DOMAIN s : b = s[m]
      <3>1. PICK m \in DOMAIN s : b = s[m]
        BY <2>1
      <3>2. s[m].Block = Block[s[m].Layer]
        BY <1>4
      <3>3. Block'[s[m].Layer] = Block[s[m].Layer]
        <4>1. CASE Block' = Block
          BY <4>1
        <4>2. ASSUME NEW l \in Layer, NEW q \in Phase, bind_layer_phase(l, q)
              PROVE  Block'[s[m].Layer] = Block[s[m].Layer]
          <5>1. s[m].Layer # l
            BY <1>1, <1>2, <4>2, BindFresh
          <5>2. \E moved \in BOOLEAN : Block' = [Block EXCEPT ![l] = IF moved THEN @ + 1 ELSE @]
            BY <4>2 DEF bind_layer_phase
          <5>3. s[m] \in BindingPointer
            BY BindingsAre
          <5>4. s[m].Layer \in Layer /\ Block \in [Layer -> Nat]
            BY <5>3 DEF BindingPointer, Typed, TypeOK
          <5> HIDE DEF s
          <5>5. QED
            BY <5>1, <5>2, <5>4
        <4>3. QED
          BY <4>1, <4>2, BindingsChange
      <3> HIDE DEF b, s
      <3>4. b.Block = Block'[b.Layer]
        BY <3>1, <3>2, <3>3
      <3>5. QED
        BY <3>4 DEF b
    <2>2. CASE /\ RegisterBinding
               /\ b = [Layer |-> Top.layer, Index |-> Top.i, Block |-> Block[Top.layer]]
      <3>1. Block' = Block
        BY <2>2 DEF RegisterBinding, layer
      <3>2. b.Block = Block[Top.layer] /\ b.Layer = Top.layer
        BY <2>2
      <3>3. QED
        BY <3>1, <3>2
    <2>3. QED
      BY <2>1, <2>2, EntriesFrom
  <1>9. QED
    BY <1>7, <1>8
-----------------------------------------------------------------------------
(* What memory safety and the contents of the buckets rest on.             *)

Registered ==
    /\ Torn /\ PhasesSorted
    /\ BucketKept /\ EntriesOwned /\ BoundOnce /\ Balanced /\ Fresh

LEMMA RegisteredInit == Init => Registered
  <1> SUFFICES ASSUME Init PROVE Registered
    OBVIOUS
  <1>1. /\ Layers = << >> /\ stack = << >> /\ Phase_Buckets = << >> /\ pc = "setup"
        /\ fault = "none" /\ dangling = FALSE /\ Bindings = [l \in Layer |-> << >>]
    BY DEF Init
  <1>2. PhasesSorted
    BY <1>1 DEF PhasesSorted, Sorted
  <1>3. \A p : BindingsOf(Phase_Buckets, p) = << >>
    BY <1>1 DEF BindingsOf
  <1>4. BucketKept
    BY <1>1 DEF BucketKept
  <1>5. EntriesOwned /\ Fresh
    BY <1>1, <1>3 DEF EntriesOwned, Fresh
  <1>6. BoundOnce /\ Balanced
    BY <1>1 DEF BoundOnce, Balanced
  <1>7. QED
    BY <1>2, <1>4, <1>5, <1>6, TornInit DEF Registered

LEMMA RegisteredNext == Registered /\ [Next]_vars => Registered'
  <1> SUFFICES ASSUME Registered, [Next]_vars PROVE Registered'
    OBVIOUS
  <1>1. /\ Torn /\ Typed /\ Dispatches(stack, Layers) /\ PhasesSorted /\ Sorted(Phase_Buckets)
        /\ BucketKept /\ EntriesOwned /\ BoundOnce /\ Balanced /\ Fresh
    BY DEF Registered, Torn, PhasesSorted
  <1>2. Torn' /\ PhasesSorted'
    BY <1>1, TornNext, BucketsNext
  <1>3. BucketKept' /\ EntriesOwned' /\ BoundOnce' /\ Balanced' /\ Fresh'
    BY <1>1, BucketKeptNext, EntriesOwnedNext, BoundOnceNext, BalancedNext, FreshNext
  <1>4. QED
    BY <1>2, <1>3 DEF Registered

(* Places of the stack whose frame is add_layer's loop on that binding.    *)
LEMMA RegisteringCount ==
    ASSUME Typed, Dispatches(stack, Layers), NEW l, NEW k
    PROVE  Cardinality({n \in DOMAIN stack : stack[n].layer = l /\ stack[n].fn = "register"
                                               /\ stack[n].i <= k})
             = Registering(stack, l, k)
  <1> DEFINE places == {n \in DOMAIN stack : stack[n].layer = l /\ stack[n].fn = "register"
                                               /\ stack[n].i <= k}
  <1>1. /\ stack \in Seq(StackFrame)
        /\ \A n \in DOMAIN stack : stack[n].fn = "register" => n = Len(stack)
    BY DEF Typed, TypeOK, Dispatches, RegistersOnTop
  <1>2. CASE Registering(stack, l, k) = 1
    <2>1. /\ stack # << >> /\ stack[Len(stack)].fn = "register" /\ stack[Len(stack)].layer = l
          /\ stack[Len(stack)].i <= k
      BY <1>2 DEF Registering
    <2>2. Len(stack) \in DOMAIN stack
      BY <1>1, <2>1
    <2>3. places = {Len(stack)}
      BY <1>1, <2>1, <2>2
    <2>4. Cardinality({Len(stack)}) = 1
      BY FS_Singleton
    <2>5. QED
      BY <1>2, <2>3, <2>4
  <1>3. CASE Registering(stack, l, k) # 1
    <2>1. /\ Registering(stack, l, k) = 0
          /\ ~(stack # << >> /\ stack[Len(stack)].fn = "register"
                 /\ stack[Len(stack)].layer = l /\ stack[Len(stack)].i <= k)
      BY <1>3 DEF Registering
    <2>2. places = {}
      BY <1>1, <2>1
    <2>3. Cardinality({}) = 0
      BY FS_EmptySet
    <2>4. QED
      BY <2>1, <2>2, <2>3
  <1>4. QED
    BY <1>2, <1>3

-----------------------------------------------------------------------------
(* Theorems.                                                               *)

(* In every reachable state the variables have their types and the call    *)
(* stack its shape, whatever the client does within its API.               *)
THEOREM TypeCorrect == Spec => [](TypeOK /\ StackShape)
  <1>1. Init => Typed
    BY TypedInit
  <1>2. Typed /\ [Next]_vars => Typed'
    BY TypedNext
  <1>3. Typed => TypeOK /\ StackShape
    BY DEF Typed
  <1>4. QED
    BY <1>1, <1>2, <1>3, PTL DEF Spec

(* The buckets are in strictly ascending phase order in every reachable    *)
(* state: register_into_phase_bucket and bind_phase_ctx find the slot that *)
(* keeps them so, also when a callback calls them in mid-frame.            *)
THEOREM AlwaysSorted == Spec => []PhasesSorted
  <1> DEFINE IInv == Typed /\ PhasesSorted
  <1>1. Init => IInv
    <2>1. Init => PhasesSorted
      BY DEF Init, PhasesSorted, Sorted
    <2>2. QED
      BY <2>1, TypedInit
  <1>2. IInv /\ [Next]_vars => IInv'
    BY TypedNext, BucketsNext
  <1>3. QED
    BY <1>1, <1>2, PTL DEF Spec

(* In every reachable state a phase callback would get the context last    *)
(* bound to its phase by bind_phase_ctx, or NULL: the shift of the buckets *)
(* as one is inserted takes the contexts along, and a bucket inserted by   *)
(* register_into_phase_bucket starts with NULL.  That no other bucket      *)
(* could take the context needs the order of the buckets.                  *)
THEOREM ContextsFollow == Spec => []ContextFollowsPhase
  <1> DEFINE IInv == Typed /\ PhasesSorted /\ Follows(Phase_Buckets, contexts)
  <1>1. Init => IInv
    <2>1. Init => PhasesSorted /\ Follows(Phase_Buckets, contexts)
      BY DEF Init, PhasesSorted, Sorted, Follows
    <2>2. QED
      BY <2>1, TypedInit
  <1>2. IInv /\ [Next]_vars => IInv'
    BY TypedNext, BucketsNext, ContextsNext
  <1>3. IInv => ContextFollowsPhase
    BY DEF Follows, ContextFollowsPhase, Phases
  <1>4. QED
    BY <1>1, <1>2, <1>3, PTL DEF Spec

(* No array is ever used past its capacity, in any reachable state.        *)
THEOREM NeverOverrun == Spec => []NoOverrun
  <1> DEFINE IInv == Typed /\ BucketsFit /\ LayersFit /\ BindingsFit
  <1>1. Init => IInv
    <2>1. Init => BucketsFit /\ LayersFit /\ BindingsFit
      BY DEF Init, BucketsFit, LayersFit, BindingsFit
    <2>2. QED
      BY <2>1, TypedInit
  <1>2. IInv /\ [Next]_vars => IInv'
    BY TypedNext, BucketsNext, LayersNext, BindingsNext
  <1>3. IInv => NoOverrun
    BY DEF NoOverrun, BucketsFit, LayersFit, BindingsFit
  <1>4. QED
    BY <1>1, <1>2, <1>3, PTL DEF Spec

(* When application_event_callback returns without a layer having handled  *)
(* the event, its loop has called every layer that was attached when the   *)
(* event was raised, unless it was removed or moved behind the loop.       *)
(* Dispatches is inductive: a layer still due has a place in the array at  *)
(* or behind the index of every dispatch in progress, whatever is pushed   *)
(* on the stack above it.                                                  *)
THEOREM AlwaysReachesAll == Spec => DispatchReachesAll
  <1> DEFINE IInv == Typed /\ Dispatches(stack, Layers)
             Reaches == In("dispatch") /\ Len(stack') < Len(stack) => Top.due \subseteq Top.seen
  <1>1. Init => IInv
    BY TypedInit, DispatchesInit
  <1>2. IInv /\ [Next]_vars => IInv'
    BY TypedNext, DispatchesNext
  <1>3. IInv /\ [Next]_vars => [Reaches]_vars
    <2> SUFFICES ASSUME IInv, Next, In("dispatch"), Len(stack') < Len(stack)
                 PROVE  Top.due \subseteq Top.seen
      OBVIOUS
    <2>1. /\ TypeOK /\ StackShape /\ stack # << >> /\ Len(stack) \in DOMAIN stack
          /\ Top.fn = "dispatch" /\ Top \in StackFrame /\ Top = stack[Len(stack)]
          /\ stack \in Seq(StackFrame) /\ Layers \in Seq(Layer)
      BY TopOfStack DEF Typed, TypeOK, Top
    <2>2. Top.i > Len(Layers)
      <3>1. ASSUME CallOnEvent PROVE FALSE
        <4>1. CASE Fails("freed")
          BY <2>1, <4>1 DEF Fails
        <4>2. CASE ~Fails("freed")
          <5>1. PICK f : stack' = Append([stack EXCEPT ![Len(stack)].seen = @ \cup {Layers[Top.i]}], f)
            BY <3>1, <4>2 DEF CallOnEvent
          <5>2. Len(stack') = Len(stack) + 1
            BY <2>1, <5>1
          <5>3. QED
            BY <2>1, <5>2
        <4>3. QED
          BY <4>1, <4>2
      <3>2. ASSUME ClientCall PROVE FALSE
        BY <2>1, <3>2 DEF ClientCall, ClientCalls, add_layer, remove_layer, SetDestroy,
           bind_layer_phase, bind_phase_ctx, application_event_callback, Stop, Callback
      <3>3. ASSUME UNCHANGED vars PROVE FALSE
        BY <2>1, <3>3 DEF vars
      <3>4. CASE Step
        BY <2>1, <3>1, <3>4 DEF Step, RegisterBinding, CallOnAttach, ReturnOnAttach,
           ReturnOnDettach, ReturnOnEvent, EndDispatch, RunApplication, BeginFrame, CallPhase,
           ReturnPhase, NextBucket, EndPhases, Sweep, EndSweep, EndRun, DestroyApplication,
           Teardown, ReturnTeardown, EndTeardown, In, At
      <3>5. QED
        BY <3>2, <3>3, <3>4 DEF Next, Ended
    <2>3. ASSUME NEW l \in Top.due \ Top.seen PROVE FALSE
      <3>1. PICK k \in DOMAIN Layers : Top.i <= k
        BY <2>1 DEF Dispatches, OwesEvents
      <3>2. k <= Len(Layers) /\ k \in Nat /\ Len(Layers) \in Nat /\ Top.i \in Nat
        BY <2>1 DEF StackFrame
      <3>3. QED
        BY <2>2, <3>1, <3>2
    <2>4. QED
      BY <2>3
  <1>4. Spec => [][Reaches]_vars
    BY <1>1, <1>2, <1>3, PTL DEF Spec
  <1>5. QED
    BY <1>4 DEF DispatchReachesAll

(* When destroy_layer_registry is through, every layer in the array has    *)
(* been freed, and every layer that was ever attached had an OnDettach for *)
(* each of its OnAttach calls, if OnDettach leaves the registry alone in   *)
(* teardown.  AttachesLeft is what is inductive: the calls of OnAttach a   *)
(* layer is ahead by, and the one add_layer is about to make, are as many  *)
(* as its places in the array that teardown has still to come to.          *)
THEOREM AlwaysDetachesAll == Spec => []TeardownDetachesAll
  <1>1. Torn => TeardownDetachesAll
    <2> SUFFICES ASSUME Torn, pc = "done", Keeps({"quiet_teardown"})
                 PROVE  freed = ToSet(Layers) /\ \A l \in Layer : live[l] = 0
      BY DEF TeardownDetachesAll
    <2>1. "quiet_teardown" \notin misuse
      BY DEF Keeps
    <2>2. /\ freed = {Layers[k] : k \in 1..Released} /\ Released = Len(Layers) /\ Begun = Len(Layers)
          /\ stack = << >>
      BY <2>1 DEF Torn, TearsDown, QuietTeardown, Released, Begun
    <2>3. Layers \in Seq(Layer) /\ DOMAIN Layers = 1..Len(Layers) /\ live \in [Layer -> Int]
      BY DEF Torn, Typed, TypeOK
    <2>4. freed = ToSet(Layers)
      BY <2>2, <2>3 DEF ToSet
    <2>5. ASSUME NEW l \in Layer PROVE live[l] = 0
      <3>1. live[l] + Adds(stack, l) = Remaining(Layers, Len(Layers), l)
        BY <2>1, <2>2 DEF Torn, AttachesLeft
      <3>2. Adds(stack, l) = 0
        BY <2>2 DEF Adds
      <3>3. Remaining(Layers, Len(Layers), l) = 0
        BY <2>3, RemainingAre
      <3>4. live[l] \in Int
        BY <2>3
      <3>5. QED
        BY <3>1, <3>2, <3>3, <3>4
    <2>6. QED
      BY <2>4, <2>5
  <1>2. QED
    BY <1>1, TornInit, TornNext, PTL DEF Spec

(* The library follows no pointer into freed memory unless the client      *)
(* broke the rule for that kind of pointer.  For the bucket the frame is   *)
(* in, BucketKept: without a new phase realloc does not move the buckets.  *)
(* For the bindings, Fresh, by way of Balanced: a layer that is neither    *)
(* attached nor in its OnDettach is in no bucket, so binding it may move   *)
(* its array.  For the layers, FreedSafe: teardown frees the array's       *)
(* layers in order, and with none in it twice it never meets one again.    *)
THEOREM AlwaysMemorySafe == Spec => []MemorySafe
  <1>1. Registered => MemorySafe
    <2> SUFFICES ASSUME Registered PROVE MemorySafe
      OBVIOUS
    <2>1. "phases_first" \notin misuse => fault # "bucket"
      BY DEF Registered, BucketKept
    <2>2. "bind_first" \notin misuse /\ "bind_once" \notin misuse => fault # "binding"
      BY DEF Registered, Fresh
    <2>3. "add_once" \notin misuse /\ "quiet_teardown" \notin misuse => fault # "freed"
      BY DEF Registered, Torn, FreedSafe
    <2>4. QED
      BY <2>1, <2>2, <2>3 DEF MemorySafe, Keeps
  <1>2. QED
    BY <1>1, RegisteredInit, RegisteredNext, PTL DEF Spec

(* The buckets hold every binding of a layer once for each time the layer  *)
(* is attached or in its OnDettach, less what add_layer has still to       *)
(* register, if layers are bound before they are added and to a phase once *)
(* at most.  remove_layer takes the first entry of the layer only: that it *)
(* is the one it has to be needs EntriesOwned and BoundOnce.               *)
THEOREM BucketsAlwaysMatch == Spec => []BucketsMatchRegistry
  <1>1. ASSUME Registered PROVE BucketsMatchRegistry
    <2>1. /\ Typed /\ Dispatches(stack, Layers) /\ Sorted(Phase_Buckets) /\ EntriesOwned /\ Balanced
      BY <1>1 DEF Registered, Torn, PhasesSorted
    <2>2. SUFFICES ASSUME Keeps({"bind_first", "bind_once"})
                   PROVE  BucketsMatchRegistry
      BY DEF BucketsMatchRegistry
    <2>3. "bind_first" \notin misuse /\ "bind_once" \notin misuse
      BY <2>2 DEF Keeps
    <2>4. \A m \in DOMAIN Phase_Buckets :
             /\ Phase_Buckets[m].Phase \in Phase /\ Phase_Buckets[m].Bindings \in Seq(BindingPointer)
             /\ BindingsOf(Phase_Buckets, Phase_Buckets[m].Phase) = Phase_Buckets[m].Bindings
      BY <2>1, BucketIs
    <2>5. ASSUME NEW n \in DOMAIN Phase_Buckets, NEW b \in ToSet(Phase_Buckets[n].Bindings)
          PROVE  Bindings[b.Layer][b.Index] = Phase_Buckets[n].Phase
      <3>1. PICK m \in DOMAIN Phase_Buckets[n].Bindings : Phase_Buckets[n].Bindings[m] = b
        BY DEF ToSet
      <3>2. QED
        BY <2>1, <2>4, <3>1 DEF EntriesOwned
    <2>6. ASSUME NEW l \in Layer, NEW k \in DOMAIN Bindings[l], NEW n \in DOMAIN Phase_Buckets,
                 Phase_Buckets[n].Phase = Bindings[l][k]
          PROVE  Cardinality({m \in DOMAIN Phase_Buckets[n].Bindings :
                                 /\ Phase_Buckets[n].Bindings[m].Layer = l
                                 /\ Phase_Buckets[n].Bindings[m].Index = k})
                   + Cardinality({m \in DOMAIN stack : stack[m].layer = l /\ stack[m].fn = "register"
                                                         /\ stack[m].i <= k})
                   = Cardinality({m \in DOMAIN Layers : Layers[m] = l})
                       + Cardinality({m \in DOMAIN stack : stack[m].layer = l
                                                             /\ stack[m].fn = "OnDettach"})
      <3> DEFINE s == Phase_Buckets[n].Bindings
      <3>1. s \in Seq(BindingPointer) /\ BindingsOf(Phase_Buckets, Bindings[l][k]) = s
        BY <2>4, <2>6
      <3>2. stack \in Seq(StackFrame)
        BY <2>1 DEF Typed, TypeOK
      <3> HIDE DEF s
      <3>3. {m \in DOMAIN s : s[m].Layer = l /\ s[m].Index = k} = Places(s, Mine(l, k))
        BY <3>1 DEF Places, Mine
      <3>4. {m \in DOMAIN Layers : Layers[m] = l} = Places(Layers, {l})
        BY DEF Places
      <3>5. {m \in DOMAIN stack : stack[m].layer = l /\ stack[m].fn = "OnDettach"}
              = Places(stack, Removing(l))
        BY <3>2 DEF Places, Removing
      <3>6. Had(l, k) = Owed(l)
        BY <2>1, <2>3, <2>6 DEF Balanced
      <3>7. Occurs(s, Mine(l, k)) + Registering(stack, l, k)
              = Occurs(Layers, {l}) + Occurs(stack, Removing(l))
        BY <3>1, <3>6 DEF Had, Owed
      <3>8. Cardinality({m \in DOMAIN stack : stack[m].layer = l /\ stack[m].fn = "register"
                                                 /\ stack[m].i <= k}) = Registering(stack, l, k)
        BY <2>1, RegisteringCount
      <3>9. QED
        BY <3>3, <3>4, <3>5, <3>7, <3>8 DEF Occurs, s
    <2>7. QED
      BY <2>5, <2>6 DEF BucketsMatchRegistry, Count
  <1>2. QED
    BY <1>1, RegisteredInit, RegisteredNext, PTL DEF Spec

(* The layer of an entry that a frame calls is attached: the entry is one  *)
(* that its layer is owed, and no OnDettach is in progress.                *)
LEMMA PhaseAttached ==
    ASSUME Registered, "bind_once" \notin misuse, CallPhase, ~Fails("bucket"), ~Fails("binding")
    PROVE  /\ Bucket.Bindings[j].Layer \in ToSet(Layers)
           /\ Bucket.Bindings[j].Layer \in Layer
           /\ stack = << >> /\ Calls(stack, stack', "phase", Bucket.Bindings[j].Layer)
  <1> DEFINE b == Bucket.Bindings[j]
             s == Bucket.Bindings
  <1>1. /\ Typed /\ Sorted(Phase_Buckets) /\ EntriesOwned /\ Balanced /\ stack = << >>
    BY DEF Registered, Torn, PhasesSorted, CallPhase, At
  <1>2. /\ i \in DOMAIN Phase_Buckets /\ j \in DOMAIN s /\ Bucket \in PhaseBucket
        /\ b \in BindingPointer /\ Calls(stack, stack', "phase", b.Layer)
    BY <1>1, PhaseCalls
  <1>3. BindingsOf(Phase_Buckets, Bucket.Phase) = s /\ Bucket.Phase \in Phase
        /\ s \in Seq(BindingPointer) /\ b.Layer \in Layer
    <2>1. BindingsOf(Phase_Buckets, Phase_Buckets[i].Phase) = Phase_Buckets[i].Bindings
      BY <1>1, <1>2, BucketIs
    <2>2. QED
      BY <1>2, <2>1 DEF Bucket, PhaseBucket, BindingPointer
  <1>4. b.Index \in DOMAIN Bindings[b.Layer] /\ Bindings[b.Layer][b.Index] = Bucket.Phase
    BY <1>1, <1>2, <1>3 DEF EntriesOwned
  <1>5. s[j] \in Mine(b.Layer, b.Index)
    BY <1>2 DEF Mine
  <1>6. Occurs(s, Mine(b.Layer, b.Index)) # 0 /\ Occurs(s, Mine(b.Layer, b.Index)) \in Nat
    <2> HIDE DEF s, b
    <2>1. QED
      BY <1>2, <1>3, <1>5, OccursType
  <1>7. Had(b.Layer, b.Index) <= Owed(b.Layer)
    BY <1>1, <1>3, <1>4 DEF Balanced
  <1>8. Registering(stack, b.Layer, b.Index) = 0
    BY <1>1 DEF Registering
  <1>9. Owed(b.Layer) # 0
    <2>1. Had(b.Layer, b.Index) = Occurs(s, Mine(b.Layer, b.Index)) + 0
      BY <1>3, <1>4, <1>8 DEF Had
    <2> HIDE DEF s, b
    <2>2. QED
      BY <1>6, <1>7, <2>1
  <1>10. Occurs(stack, Removing(b.Layer)) = 0
    <2>1. stack \in Seq(StackFrame) /\ \A n \in DOMAIN stack : stack[n] \notin Removing(b.Layer)
      BY <1>1 DEF Typed, TypeOK
    <2>2. QED
      BY <2>1, OccursType
  <1>11. Occurs(Layers, {b.Layer}) # 0
    BY <1>9, <1>10 DEF Owed
  <1>12. PICK n \in DOMAIN Layers : Layers[n] \in {b.Layer}
    <2>1. Layers \in Seq(Layer)
      BY <1>1 DEF Typed, TypeOK
    <2>2. QED
      BY <1>11, <2>1, OccursType
  <1>13. b.Layer \in ToSet(Layers)
    BY <1>12 DEF ToSet
  <1>14. QED
    BY <1>1, <1>2, <1>3, <1>13

(* run_application calls no phase callback of a layer that is not attached *)
(* if no layer is bound to a phase twice, even when layers are bound after *)
(* they were added: an entry in a bucket is one that its layer is owed     *)
(* (Balanced), and with no OnDettach in progress it is owed for a place in *)
(* the array of layers.                                                    *)
THEOREM NeverCallsDetached == Spec => DetachedNeverCalled
  <1> DEFINE CallsAttached == At("phases") /\ stack' # << >> /\ Keeps({"bind_once"})
                        => Attached(stack'[1].layer)
  <1>1. ASSUME Registered, [Next]_vars, At("phases"), stack' # << >>, Keeps({"bind_once"})
        PROVE  Attached(stack'[1].layer)
    <2>1. /\ Typed /\ Sorted(Phase_Buckets) /\ EntriesOwned /\ Balanced /\ stack = << >>
          /\ pc = "phases" /\ fault = "none" /\ "bind_once" \notin misuse
      BY <1>1 DEF Registered, Torn, PhasesSorted, At, Keeps
    <2>2. CallPhase /\ ~Fails("bucket") /\ ~Fails("binding")
      <3>1. stack' # stack
        BY <1>1, <2>1
      <3>2. ~ClientCall
        BY <2>1, ClientLeaves
      <3>3. Step => CallPhase
        BY <2>1, <3>1 DEF Step, RegisterBinding, CallOnAttach, ReturnOnAttach, ReturnOnDettach,
           CallOnEvent, ReturnOnEvent, EndDispatch, RunApplication, BeginFrame, ReturnPhase,
           NextBucket, EndPhases, Sweep, EndSweep, EndRun, DestroyApplication, Teardown,
           ReturnTeardown, EndTeardown, In, At
      <3>4. ~Fails("bucket") /\ ~Fails("binding") /\ ~UNCHANGED vars
        BY <3>1 DEF Fails, vars
      <3>5. QED
        BY <1>1, <3>2, <3>3, <3>4 DEF Next, Ended
    <2>3. /\ Bucket.Bindings[j].Layer \in ToSet(Layers)
          /\ Calls(stack, stack', "phase", Bucket.Bindings[j].Layer)
      BY <1>1, <2>1, <2>2, PhaseAttached
    <2>4. stack'[1].layer = Bucket.Bindings[j].Layer
      <3>1. Len(stack) = 0
        BY <2>1
      <3>2. stack'[Len(stack) + 1].layer = Bucket.Bindings[j].Layer
        BY <2>3 DEF Calls
      <3>3. QED
        BY <3>1, <3>2
    <2>5. QED
      BY <2>3, <2>4 DEF Attached
  <1>2. Registered /\ [Next]_vars => [CallsAttached]_vars
    BY <1>1
  <1> HIDE DEF CallsAttached
  <1>3. Spec => [][CallsAttached]_vars
    BY <1>2, RegisteredInit, RegisteredNext, PTL DEF Spec
  <1>4. QED
    BY <1>3 DEF CallsAttached, DetachedNeverCalled

-----------------------------------------------------------------------------
(* The refinement of LayerLifecycle by an application whose client keeps   *)
(* every rule.  First the callbacks in progress, which the refinement      *)
(* mapping takes from the call stack.                                      *)

(* What a call contributes to the callbacks in progress.                   *)
Shown(f) == [fn |-> f.fn, layer |-> f.layer]
Piece(f) == IF f.fn \in Callback THEN << Shown(f) >> ELSE << >>
CallbackFrame == [fn: Callback, layer: Layer \cup {NULL}]

LEMMA PieceIs ==
    ASSUME NEW f \in StackFrame
    PROVE  Piece(f) \in Seq(CallbackFrame)
  <1>1. f.fn \in Callback => Shown(f) \in CallbackFrame
    BY DEF StackFrame, Shown, CallbackFrame
  <1>2. QED
    BY <1>1 DEF Piece

Pieces(s) == [n \in DOMAIN s |-> Piece(s[n])]

(* Reading the callbacks of a stack yields a sequence of them.             *)
LEMMA CallbacksAre ==
    /\ \A s : Callbacks(s) = FlattenSeq(Pieces(s))
    /\ Callbacks(<< >>) = << >>
    /\ \A s \in Seq(StackFrame) :
        /\ Pieces(s) \in Seq(Seq(CallbackFrame)) /\ Callbacks(s) \in Seq(CallbackFrame)
  <1>1. \A s : Callbacks(s) = FlattenSeq(Pieces(s))
    BY DEF Callbacks, Pieces, Piece, Shown
  <1>2. Pieces(<< >>) = << >>
    BY DEF Pieces
  <1>3. ASSUME NEW s \in Seq(StackFrame)
        PROVE  Pieces(s) \in Seq(Seq(CallbackFrame)) /\ Callbacks(s) \in Seq(CallbackFrame)
    <2>1. PICK n \in Nat : n = Len(s) /\ DOMAIN s = 1..n
      OBVIOUS
    <2>2. \A k \in 1..n : Piece(s[k]) \in Seq(CallbackFrame)
      BY <2>1, PieceIs
    <2>3. Pieces(s) \in Seq(Seq(CallbackFrame))
      BY <2>1, <2>2 DEF Pieces
    <2>4. QED
      BY <1>1, <2>3, FlattenType
  <1>4. QED
    BY <1>1, <1>2, <1>3, FlattenEmpty

(* Only the frames' functions and layers matter.                           *)
LEMMA CallbacksSame ==
    ASSUME NEW s \in Seq(StackFrame), NEW t \in Seq(StackFrame), Len(s) = Len(t),
           \A n \in DOMAIN t : SameCall(t[n], s[n])
    PROVE  Callbacks(t) = Callbacks(s)
  <1>1. DOMAIN s = DOMAIN t
    OBVIOUS
  <1>2. Pieces(t) = Pieces(s)
    BY <1>1 DEF Pieces, Piece, Shown, SameCall
  <1>3. QED
    BY <1>2, CallbacksAre

(* A call adds its callback, if it is one, behind the others.              *)
LEMMA CallbacksCalls ==
    ASSUME NEW s \in Seq(StackFrame), NEW t \in Seq(StackFrame), NEW fn, NEW l,
           Calls(s, t, fn, l)
    PROVE  Callbacks(t) = IF fn \in Callback
                          THEN Append(Callbacks(s), [fn |-> fn, layer |-> l])
                          ELSE Callbacks(s)
  <1>1. PICK n \in Nat : n = Len(s) /\ DOMAIN s = 1..n
    OBVIOUS
  <1>2. /\ Len(t) = n + 1 /\ DOMAIN t = 1..n + 1
        /\ \A k \in 1..n : SameCall(t[k], s[k])
        /\ t[n + 1].fn = fn /\ t[n + 1].layer = l
    BY <1>1 DEF Calls
  <1> DEFINE f == t[n + 1]
             a == Append(Pieces(s), Piece(f))
  <1>3. f \in StackFrame /\ f.fn = fn /\ f.layer = l
    BY <1>2
  <1>4. Piece(f) \in Seq(CallbackFrame) /\ Pieces(s) \in Seq(Seq(CallbackFrame))
    BY <1>3, PieceIs, CallbacksAre
  <1>5. Len(Pieces(s)) = n /\ \A k \in 1..n : Pieces(s)[k] = Piece(s[k])
    BY <1>1 DEF Pieces
  <1>6. /\ Len(a) = n + 1 /\ a \in Seq(Seq(CallbackFrame)) /\ DOMAIN a = 1..n + 1
        /\ (\A k \in 1..n : a[k] = Piece(s[k])) /\ a[n + 1] = Piece(f)
    <2> HIDE DEF f
    <2>1. QED
      BY <1>4, <1>5
  <1> HIDE DEF a
  <1>7. \A k \in 1..n : Piece(s[k]) = Piece(t[k])
    BY <1>2 DEF Piece, Shown, SameCall
  <1>8. \A k \in 1..n + 1 : a[k] = Piece(t[k])
    <2>1. ASSUME NEW k \in 1..n + 1 PROVE a[k] = Piece(t[k])
      <3>1. k = n + 1 \/ k \in 1..n
        OBVIOUS
      <3>2. QED
        BY <1>6, <1>7, <3>1
    <2>2. QED
      BY <2>1
  <1>9. Pieces(t) = a
    <2>1. a = [k \in 1..n + 1 |-> a[k]]
      BY <1>6
    <2>2. Pieces(t) = [k \in 1..n + 1 |-> Piece(t[k])]
      BY <1>2 DEF Pieces
    <2>3. QED
      BY <1>8, <2>1, <2>2
  <1>10. FlattenSeq(a) = FlattenSeq(Pieces(s)) \o Piece(f)
    <2>1. FlattenSeq(Pieces(s)) \in Seq(CallbackFrame)
      BY <1>4, FlattenType
    <2> HIDE DEF f
    <2>2. QED
      BY <1>4, <2>1, FlattenAppend DEF a
  <1>11. Callbacks(t) = Callbacks(s) \o Piece(f)
    BY <1>9, <1>10, CallbacksAre
  <1>12. Callbacks(s) \in Seq(CallbackFrame)
    BY CallbacksAre
  <1>13. CASE fn \in Callback
    <2>1. Piece(f) = << [fn |-> fn, layer |-> l] >>
      BY <1>3, <1>13 DEF Piece, Shown
    <2>2. [fn |-> fn, layer |-> l] \in CallbackFrame
      BY <1>3, <1>13 DEF StackFrame, CallbackFrame
    <2> DEFINE c == [fn |-> fn, layer |-> l]
    <2> HIDE DEF c, f
    <2>3. Callbacks(s) \o << c >> = Append(Callbacks(s), c)
      BY <1>12, <2>2 DEF c
    <2>4. QED
      BY <1>11, <1>13, <2>1, <2>3 DEF c
  <1>14. CASE fn \notin Callback
    <2>1. Piece(f) = << >>
      BY <1>3, <1>14 DEF Piece
    <2>2. Callbacks(s) \o << >> = Callbacks(s)
      BY <1>12
    <2>3. QED
      BY <1>11, <1>14, <2>1, <2>2
  <1>15. QED
    BY <1>13, <1>14

(* A client that keeps every rule of the specification breaks none.        *)
LEMMA NoMisuseNext ==
    ASSUME Rules = Rule, Typed, misuse = {}, [Next]_vars
    PROVE  misuse' = {}
  <1>1. ASSUME NEW op, NEW broken \in SUBSET Rule, NEW builds, ClientCalls(op, broken, builds)
        PROVE  misuse' = {}
    BY <1>1 DEF ClientCalls
  <1>2. ASSUME NEW rule \in Rule, NEW c PROVE Breaks(rule, c) \in SUBSET Rule
    BY DEF Breaks
  <1>3. /\ "bind_first" \in Rule /\ "bind_once" \in Rule /\ "phases_first" \in Rule
        /\ "add_once" \in Rule /\ "quiet_teardown" \in Rule
    BY DEF Rule
  <1>4. CASE ClientCall
    <2>1. ASSUME NEW l \in Layer, NEW p \in Phase, bind_layer_phase(l, p) PROVE misuse' = {}
      <3>1. Breaks("bind_first", Attached(l) \/ Leaving(l))
              \cup Breaks("bind_once", p \in ToSet(Bindings[l])) \in SUBSET Rule
        BY <1>2, <1>3
      <3>2. QED
        BY <1>1, <2>1, <3>1 DEF bind_layer_phase
    <2>2. ASSUME NEW p \in Phase, NEW ctx \in Context, bind_phase_ctx(p, ctx) PROVE misuse' = {}
      <3>1. Breaks("phases_first", pc = "phases" /\ p \notin Phases) \in SUBSET Rule
        BY <1>2, <1>3
      <3>2. QED
        BY <1>1, <2>2, <3>1 DEF bind_phase_ctx
    <2>3. ASSUME NEW l \in Layer, add_layer(l) PROVE misuse' = {}
      <3>1. Breaks("phases_first", pc = "phases" /\ ~ToSet(Bindings[l]) \subseteq Phases)
              \cup Breaks("add_once", Attached(l) \/ Leaving(l))
              \cup Breaks("quiet_teardown", pc = "teardown") \in SUBSET Rule
        BY <1>2, <1>3
      <3>2. QED
        BY <1>1, <2>3, <3>1 DEF add_layer
    <2>4. Breaks("quiet_teardown", pc = "teardown") \in SUBSET Rule /\ {} \in SUBSET Rule
      BY <1>2, <1>3
    <2>5. ASSUME NEW l \in Layer, remove_layer(l) PROVE misuse' = {}
      BY <1>1, <2>4, <2>5 DEF remove_layer
    <2>6. ASSUME application_event_callback PROVE misuse' = {}
      BY <1>1, <2>4, <2>6 DEF application_event_callback
    <2>7. ASSUME NEW l \in Layer, SetDestroy(l) PROVE misuse' = {}
      BY <1>1, <2>4, <2>7 DEF SetDestroy
    <2>8. ASSUME Stop PROVE misuse' = {}
      BY <1>1, <2>4, <2>8 DEF Stop
    <2>9. QED
      BY <1>4, <2>1, <2>2, <2>3, <2>5, <2>6, <2>7, <2>8 DEF ClientCall
  <1>5. CASE UNCHANGED vars
    BY <1>5 DEF vars, client
  <1>6. QED
    BY <1>4, <1>5, StepBreaksNothing DEF Next, Ended

(* A layer is owed its binding at most once: it is in the array at most    *)
(* once, or in at most one OnDettach.                                      *)
OwedOnce == "add_once" \notin misuse => \A l \in Layer : Owed(l) <= 1

(* A layer that is neither attached nor leaving is owed nothing.           *)
LEMMA OwedNone ==
    ASSUME Typed, NEW l \in Layer, ~Attached(l), ~Leaving(l)
    PROVE  Owed(l) = 0
  <1>1. Layers \in Seq(Layer) /\ stack \in Seq(StackFrame)
    BY DEF Typed, TypeOK
  <1>2. \A n \in DOMAIN Layers : Layers[n] \notin {l}
    BY DEF Attached, ToSet
  <1>3. \A n \in DOMAIN stack : stack[n] \notin Removing(l)
    BY DEF Leaving, Removing
  <1>4. Occurs(Layers, {l}) = 0
    BY <1>1, <1>2, OccursType
  <1>5. Occurs(stack, Removing(l)) = 0
    BY <1>1, <1>3, OccursType
  <1>6. QED
    BY <1>4, <1>5 DEF Owed

LEMMA OwedOnceNext ==
    ASSUME Typed, OwedOnce, [Next]_vars
    PROVE  OwedOnce'
  <1>1. SUFFICES ASSUME "add_once" \notin misuse', NEW l \in Layer PROVE Owed(l)' <= 1
    BY DEF OwedOnce
  <1>2. Owed(l) \in Nat /\ Owed(l) <= 1
    BY <1>1, MisuseGrows, OwedNext DEF OwedOnce
  <1>3. CASE ~(\E m \in Layer : add_layer(m)) /\ ~(ReturnOnDettach /\ ~Fails("binding"))
    BY <1>2, <1>3, OwedNext
  <1>4. ASSUME NEW m \in Layer, add_layer(m) PROVE Owed(l)' <= 1
    <2>1. Owed(l)' = Owed(l) + One(m, {l})
      BY <1>4, OwedNext
    <2>2. ~Attached(m) /\ ~Leaving(m)
      BY <1>1, <1>4 DEF add_layer, ClientCalls, Breaks
    <2>3. m = l => Owed(l) = 0
      BY <2>2, OwedNone
    <2>4. QED
      BY <1>2, <2>1, <2>3 DEF One
  <1>5. CASE ReturnOnDettach /\ ~Fails("binding")
    <2>1. Owed(l)' = Owed(l) - One(Top.layer, {l})
      BY <1>5, OwedNext
    <2>2. QED
      BY <1>2, <2>1 DEF One
  <1>6. QED
    BY <1>3, <1>4, <1>5

(* A layer that is being registered is in the array.                       *)
RegistersAttached == \A l \in Layer : Adds(stack, l) = 1 => l \in ToSet(Layers)

LEMMA RegistersAttachedNext ==
    ASSUME Typed, Dispatches(stack, Layers), RegistersAttached, [Next]_vars
    PROVE  RegistersAttached'
  <1>1. SUFFICES ASSUME NEW l \in Layer, Adds(stack', l) = 1 PROVE l \in ToSet(Layers')
    BY DEF RegistersAttached
  <1>2. Layers \in Seq(Layer)
    BY DEF Typed, TypeOK
  <1>3. CASE add_layer(l)
    <2>1. Layers' = Append(Layers, l)
      BY <1>3 DEF add_layer
    <2>2. Layers'[Len(Layers) + 1] = l /\ Len(Layers) + 1 \in DOMAIN Layers'
      BY <1>2, <2>1
    <2>3. QED
      BY <2>2 DEF ToSet
  <1>4. CASE ~add_layer(l)
    <2>1. Adds(stack, l) = 1 /\ stack # << >> /\ Top.fn = "register" /\ Top.layer = l
      BY <1>1, <1>4, StillAdds
    <2>2. ~ClientCall
      BY <2>1, ClientLeaves DEF Callback, Top
    <2>3. ~Sweep
      BY <2>1 DEF Sweep, At
    <2>4. Layers' = Layers
      BY <2>2, <2>3, LayersChange DEF ClientCall
    <2>5. QED
      BY <2>1, <2>4 DEF RegistersAttached
  <1>5. QED
    BY <1>3, <1>4

(* What a client that keeps every rule finds.                              *)
Lawful == Registered /\ misuse = {} /\ OwedOnce /\ RegistersAttached

LEMMA LawfulInit == Init => Lawful
  <1> SUFFICES ASSUME Init PROVE Lawful
    OBVIOUS
  <1>1. Registered /\ misuse = {}
    BY RegisteredInit DEF Init
  <1>2. Typed
    BY <1>1 DEF Registered, Torn
  <1>3. ASSUME NEW l \in Layer PROVE Owed(l) = 0
    <2>1. ~Attached(l) /\ ~Leaving(l)
      BY DEF Init, Attached, Leaving, ToSet
    <2>2. QED
      BY <1>2, <2>1, OwedNone
  <1>4. RegistersAttached
    BY DEF Init, RegistersAttached, Adds
  <1>5. OwedOnce
    BY <1>3 DEF OwedOnce
  <1>6. QED
    BY <1>1, <1>4, <1>5 DEF Lawful

LEMMA LawfulNext ==
    ASSUME Rules = Rule, Lawful, [Next]_vars
    PROVE  Lawful'
  <1>1. Registered /\ Typed /\ Dispatches(stack, Layers) /\ misuse = {} /\ OwedOnce /\ RegistersAttached
    BY DEF Lawful, Registered, Torn
  <1>2. Registered' /\ misuse' = {} /\ OwedOnce' /\ RegistersAttached'
    BY <1>1, RegisteredNext, NoMisuseNext, OwedOnceNext, RegistersAttachedNext
  <1>3. QED
    BY <1>2 DEF Lawful

(* The stages as functions of the state they are read from.                *)
LeavingIn(s, l) == \E n \in DOMAIN s : s[n].layer = l /\ s[n].fn \in {"OnDettach", "teardown"}
StageIn(gone, s, balance, l) ==
    IF l \in gone THEN "freed"
    ELSE IF LeavingIn(s, l) THEN "detaching"
    ELSE IF balance[l] = 1 THEN "attached" ELSE "detached"

(* They are the stages of the refinement mapping.                          *)
LEMMA StagesAre ==
    /\ [l \in Layer |-> StageOf(l)] = [l \in Layer |-> StageIn(freed, stack, live, l)]
    /\ [l \in Layer |-> StageOf(l)]' = [l \in Layer |-> StageIn(freed', stack', live', l)]
  <1>1. ASSUME NEW l \in Layer PROVE StageOf(l) = StageIn(freed, stack, live, l)
    BY DEF StageOf, StageIn, Leaving, LeavingIn
  <1>2. ASSUME NEW l \in Layer PROVE StageOf(l)' = StageIn(freed', stack', live', l)
    BY DEF StageOf, StageIn, Leaving, LeavingIn
  <1>3. QED
    BY <1>1, <1>2

(* A call makes a layer leave only if it is the layer's OnDettach.         *)
LEMMA LeavingCalls ==
    ASSUME NEW s \in Seq(StackFrame), NEW t \in Seq(StackFrame), NEW fn, NEW m,
           Calls(s, t, fn, m), NEW l
    PROVE  LeavingIn(t, l) <=> (LeavingIn(s, l) \/ (m = l /\ fn \in {"OnDettach", "teardown"}))
  <1>1. PICK n \in Nat : n = Len(s) /\ DOMAIN s = 1..n
    OBVIOUS
  <1>2. /\ DOMAIN t = 1..n + 1 /\ t[n + 1].fn = fn /\ t[n + 1].layer = m
        /\ \A k \in 1..n : t[k].fn = s[k].fn /\ t[k].layer = s[k].layer
    BY <1>1 DEF Calls, SameCall
  <1>3. ASSUME LeavingIn(t, l)
        PROVE  LeavingIn(s, l) \/ (m = l /\ fn \in {"OnDettach", "teardown"})
    <2>1. PICK k \in 1..n + 1 : t[k].layer = l /\ t[k].fn \in {"OnDettach", "teardown"}
      BY <1>2, <1>3 DEF LeavingIn
    <2>2. k = n + 1 \/ k \in 1..n
      OBVIOUS
    <2>3. QED
      BY <1>1, <1>2, <2>1, <2>2 DEF LeavingIn
  <1>4. ASSUME LeavingIn(s, l) PROVE LeavingIn(t, l)
    <2>1. PICK k \in 1..n : s[k].layer = l /\ s[k].fn \in {"OnDettach", "teardown"}
      BY <1>1, <1>4 DEF LeavingIn
    <2>2. k \in 1..n + 1
      OBVIOUS
    <2>3. QED
      BY <1>2, <2>1, <2>2 DEF LeavingIn
  <1>5. ASSUME m = l, fn \in {"OnDettach", "teardown"} PROVE LeavingIn(t, l)
    <2>1. n + 1 \in DOMAIN t
      BY <1>2
    <2>2. QED
      BY <1>2, <1>5, <2>1 DEF LeavingIn
  <1>6. QED
    BY <1>3, <1>4, <1>5

LEMMA LeavingSame ==
    ASSUME NEW s \in Seq(StackFrame), NEW t \in Seq(StackFrame), DOMAIN t = DOMAIN s,
           \A n \in DOMAIN s : SameCall(t[n], s[n]), NEW l
    PROVE  LeavingIn(t, l) <=> LeavingIn(s, l)
  BY DEF LeavingIn, SameCall

(* What the balances of a layer come to.                                   *)
LEMMA LawfulFacts ==
    ASSUME Lawful, NEW l \in Layer
    PROVE  /\ Typed /\ Dispatches(stack, Layers) /\ Layers \in Seq(Layer) /\ stack \in Seq(StackFrame)
           /\ Occurs(Layers, {l}) \in Nat /\ Occurs(stack, Removing(l)) \in Nat
           /\ Occurs(Layers, {l}) + Occurs(stack, Removing(l)) <= 1
           /\ QuietTeardown /\ TeardownFrames
           /\ live[l] + Adds(stack, l) = Remaining(Layers, Begun, l) /\ live[l] \in Int
  <1>1. /\ Registered /\ Torn /\ Typed /\ TearsDown /\ AttachesLeft /\ Dispatches(stack, Layers)
        /\ misuse = {} /\ OwedOnce
    BY DEF Lawful, Registered, Torn
  <1>2. Layers \in Seq(Layer) /\ stack \in Seq(StackFrame) /\ live \in [Layer -> Int]
    BY <1>1 DEF Typed, TypeOK
  <1>3. Occurs(Layers, {l}) \in Nat /\ Occurs(stack, Removing(l)) \in Nat
    BY <1>2, OccursType
  <1>4. Owed(l) <= 1
    BY <1>1 DEF OwedOnce
  <1>5. QuietTeardown /\ TeardownFrames
    BY <1>1 DEF TearsDown
  <1>6. live[l] + Adds(stack, l) = Remaining(Layers, Begun, l)
    BY <1>1 DEF AttachesLeft
  <1>7. QED
    BY <1>1, <1>2, <1>3, <1>4, <1>5, <1>6 DEF Owed

(* Only teardown's own callback runs during teardown.                      *)
LEMMA LawfulBusy ==
    ASSUME Lawful, stack # << >>, stack[Len(stack)].fn # "teardown"
    PROVE  pc \notin {"teardown", "done"}
  <1>1. Registered /\ Torn /\ TearsDown /\ misuse = {}
    BY DEF Lawful, Registered, Torn
  <1>2. QED
    BY <1>1 DEF TearsDown, QuietTeardown, Top

(* Before teardown the balance of a layer is 1 when it is in the array.    *)
LEMMA LawfulRunning ==
    ASSUME Lawful, pc \notin {"teardown", "done"}, NEW l \in Layer
    PROVE  /\ freed = {} /\ live[l] + Adds(stack, l) = Occurs(Layers, {l})
           /\ LeavingIn(stack, l) <=> Occurs(stack, Removing(l)) # 0
           /\ l \in ToSet(Layers) <=> Occurs(Layers, {l}) # 0
  <1>1. /\ Typed /\ Layers \in Seq(Layer) /\ stack \in Seq(StackFrame)
        /\ QuietTeardown /\ TeardownFrames
        /\ live[l] + Adds(stack, l) = Remaining(Layers, Begun, l)
    BY LawfulFacts
  <1>2. Released = 0 /\ Begun = 0
    BY DEF Released, Begun
  <1>3. freed = {}
    BY <1>1, <1>2 DEF QuietTeardown
  <1>4. Remaining(Layers, 0, l) = Occurs(Layers, {l})
    BY <1>1, RemainingAre
  <1>5. \A n \in DOMAIN stack : stack[n].fn # "teardown"
    BY <1>1 DEF TeardownFrames
  <1>6. LeavingIn(stack, l) <=> \E n \in DOMAIN stack : stack[n] \in Removing(l)
    <2>1. \A n \in DOMAIN stack : stack[n] \in StackFrame
      BY <1>1
    <2>2. \A n \in DOMAIN stack : stack[n] \in Removing(l) <=> stack[n].layer = l /\ stack[n].fn = "OnDettach"
      BY <2>1 DEF Removing
    <2>3. QED
      BY <1>5, <2>2 DEF LeavingIn
  <1>7. Occurs(stack, Removing(l)) = 0 <=> \A n \in DOMAIN stack : stack[n] \notin Removing(l)
    BY <1>1, OccursType
  <1>8. Occurs(Layers, {l}) = 0 <=> \A n \in DOMAIN Layers : Layers[n] \notin {l}
    BY <1>1, OccursType
  <1>9. l \in ToSet(Layers) <=> \E n \in DOMAIN Layers : Layers[n] = l
    BY DEF ToSet
  <1>10. QED
    BY <1>1, <1>2, <1>3, <1>4, <1>6, <1>7, <1>8, <1>9

(* A layer in the array that is not just being registered is attached.     *)
LEMMA LawfulAttached ==
    ASSUME Lawful, pc \notin {"teardown", "done"}, NEW l \in Layer, l \in ToSet(Layers),
           Adds(stack, l) = 0
    PROVE  /\ freed = {} /\ ~LeavingIn(stack, l) /\ live[l] = 1
           /\ StageIn(freed, stack, live, l) = "attached"
  <1>1. /\ Occurs(Layers, {l}) \in Nat /\ Occurs(stack, Removing(l)) \in Nat
        /\ Occurs(Layers, {l}) + Occurs(stack, Removing(l)) <= 1 /\ live[l] \in Int
    BY LawfulFacts
  <1>2. /\ freed = {} /\ live[l] + Adds(stack, l) = Occurs(Layers, {l})
        /\ LeavingIn(stack, l) <=> Occurs(stack, Removing(l)) # 0
        /\ Occurs(Layers, {l}) # 0
    BY LawfulRunning
  <1>3. freed = {} /\ ~LeavingIn(stack, l) /\ live[l] = 1
    BY <1>1, <1>2
  <1>4. QED
    BY <1>3 DEF StageIn

(* A layer whose OnAttach is to come has had none since its OnDettach.     *)
LEMMA LawfulRegistering ==
    ASSUME Lawful, NEW l \in Layer, Adds(stack, l) = 1
    PROVE  freed = {} /\ ~LeavingIn(stack, l) /\ live[l] = 0
  <1>1. stack # << >> /\ stack[Len(stack)].fn = "register"
    BY DEF Adds
  <1>2. pc \notin {"teardown", "done"}
    BY <1>1, LawfulBusy
  <1>3. /\ Occurs(Layers, {l}) \in Nat /\ Occurs(stack, Removing(l)) \in Nat
        /\ Occurs(Layers, {l}) + Occurs(stack, Removing(l)) <= 1 /\ live[l] \in Int
    BY LawfulFacts
  <1>4. /\ freed = {} /\ live[l] + Adds(stack, l) = Occurs(Layers, {l})
        /\ LeavingIn(stack, l) <=> Occurs(stack, Removing(l)) # 0
        /\ l \in ToSet(Layers) <=> Occurs(Layers, {l}) # 0
    BY <1>2, LawfulRunning
  <1>5. l \in ToSet(Layers)
    BY DEF Lawful, RegistersAttached
  <1>6. QED
    BY <1>3, <1>4, <1>5

(* When an OnDettach returns, nothing else of its layer is in progress.    *)
LEMMA LawfulReturned ==
    ASSUME Lawful, NEW l \in Layer, NEW s \in Seq(StackFrame), Calls(s, stack, "OnDettach", l)
    PROVE  freed = {} /\ ~LeavingIn(s, l) /\ live[l] = 0
  <1>1. stack \in Seq(StackFrame)
    BY LawfulFacts
  <1>2. Len(stack) = Len(s) + 1 /\ stack[Len(s) + 1].fn = "OnDettach" /\ Len(s) \in Nat
    BY DEF Calls
  <1>3. stack # << >> /\ stack[Len(stack)].fn = "OnDettach"
    BY <1>1, <1>2
  <1>4. pc \notin {"teardown", "done"} /\ Adds(stack, l) = 0
    BY <1>3, LawfulBusy DEF Adds
  <1>5. Occurs(stack, Removing(l)) = Occurs(s, Removing(l)) + 1
    <2>1. Occurs(stack, Removing(l)) = Occurs(s, Removing(l))
                                      + IF "OnDettach" = "OnDettach" /\ l = l THEN 1 ELSE 0
      BY <1>1, CallsRemoving
    <2>2. QED
      BY <2>1
  <1>6. /\ Occurs(Layers, {l}) \in Nat /\ Occurs(stack, Removing(l)) \in Nat
        /\ Occurs(Layers, {l}) + Occurs(stack, Removing(l)) <= 1 /\ live[l] \in Int
        /\ TeardownFrames
    BY LawfulFacts
  <1>7. Occurs(s, Removing(l)) \in Nat
        /\ (Occurs(s, Removing(l)) = 0 => \A n \in DOMAIN s : s[n] \notin Removing(l))
    BY OccursType
  <1>8. \A n \in DOMAIN s : s[n] \notin Removing(l)
    BY <1>5, <1>6, <1>7
  <1>9. \A n \in DOMAIN s : s[n].fn # "teardown"
    <2>1. \A n \in DOMAIN stack : stack[n].fn # "teardown"
      BY <1>4, <1>6 DEF TeardownFrames
    <2>2. \A n \in DOMAIN s : n \in DOMAIN stack /\ stack[n].fn = s[n].fn
      BY DEF Calls, SameCall
    <2>3. QED
      BY <2>1, <2>2
  <1>10. ~LeavingIn(s, l)
    <2>1. \A n \in DOMAIN s : s[n] \in StackFrame
      OBVIOUS
    <2>2. QED
      BY <1>8, <1>9, <2>1 DEF LeavingIn, Removing
  <1>11. freed = {} /\ live[l] + Adds(stack, l) = Occurs(Layers, {l})
    BY <1>4, LawfulRunning
  <1>12. QED
    BY <1>4, <1>5, <1>6, <1>7, <1>10, <1>11

(* The kinds of step of the abstract specification, from how the stages    *)
(* and the callbacks change: none, a callback is called, one returns.      *)
SameStages(gone, s, balance, gone2, s2, balance2) ==
    \A m \in Layer : StageIn(gone2, s2, balance2, m) = StageIn(gone, s, balance, m)

LEMMA Stutters ==
    ASSUME Callbacks(stack') = Callbacks(stack),
           SameStages(freed, stack, live, freed', stack', live')
    PROVE  UNCHANGED Lifecycle!vars
  <1>1. [l \in Layer |-> StageIn(freed', stack', live', l)]
            = [l \in Layer |-> StageIn(freed, stack, live, l)]
    BY DEF SameStages
  <1>2. [l \in Layer |-> StageOf(l)]' = [l \in Layer |-> StageOf(l)]
    BY <1>1, StagesAre
  <1>3. Callbacks(stack)' = Callbacks(stack)
    OBVIOUS
  <1>4. QED
    BY <1>2, <1>3 DEF Lifecycle!vars

LEMMA Enters ==
    ASSUME NEW fn, NEW l \in Layer, NEW before, NEW after,
           Callbacks(stack') = Append(Callbacks(stack), [fn |-> fn, layer |-> l]),
           StageIn(freed, stack, live, l) = before,
           StageIn(freed', stack', live', l) = after,
           \A m \in Layer \ {l} :
              StageIn(freed', stack', live', m) = StageIn(freed, stack, live, m)
    PROVE  Lifecycle!Enter(fn, l, before, after)
  <1> DEFINE stage == [m \in Layer |-> StageIn(freed, stack, live, m)]
             next == [m \in Layer |-> StageIn(freed', stack', live', m)]
  <1>1. next = [stage EXCEPT ![l] = after] /\ stage[l] = before
    OBVIOUS
  <1>2. [m \in Layer |-> StageOf(m)]' = next /\ [m \in Layer |-> StageOf(m)] = stage
    BY StagesAre
  <1>3. Callbacks(stack)' = Append(Callbacks(stack), [fn |-> fn, layer |-> l])
    OBVIOUS
  <1> HIDE DEF stage, next
  <1>4. QED
    BY <1>1, <1>2, <1>3 DEF Lifecycle!Enter

Returned(fn, stage) ==
    IF fn = "OnDettach" THEN "detached" ELSE IF fn = "teardown" THEN "freed" ELSE stage

(* The last callback in progress returns.                                  *)
LEMMA ReturnsFrom ==
    ASSUME NEW s \in Seq(StackFrame), NEW fn \in Callback, NEW l \in Layer,
           Callbacks(stack) = Append(Callbacks(s), [fn |-> fn, layer |-> l]),
           Callbacks(stack') = Callbacks(s),
           StageIn(freed', stack', live', l) = Returned(fn, StageIn(freed, stack, live, l)),
           \A m \in Layer \ {l} :
              StageIn(freed', stack', live', m) = StageIn(freed, stack, live, m)
    PROVE  Lifecycle!Return
  <1> DEFINE stage == [m \in Layer |-> StageIn(freed, stack, live, m)]
             next == [m \in Layer |-> StageIn(freed', stack', live', m)]
             c == Callbacks(s)
             r == [fn |-> fn, layer |-> l]
             d == Callbacks(stack)
  <1>1. next = [stage EXCEPT ![l] = Returned(fn, @)]
    OBVIOUS
  <1>2. [m \in Layer |-> StageOf(m)]' = next /\ [m \in Layer |-> StageOf(m)] = stage
    BY StagesAre
  <1>3. c \in Seq(CallbackFrame) /\ r \in CallbackFrame
    BY CallbacksAre DEF CallbackFrame
  <1>4. d = Append(c, r) /\ Callbacks(stack)' = c /\ r.fn = fn /\ r.layer = l
    OBVIOUS
  <1> HIDE DEF stage, next, c, r, d
  <1>5. d # << >> /\ d[Len(d)] = r /\ SubSeq(d, 1, Len(d) - 1) = c
    <2>1. Append(c, r) # << >> /\ Append(c, r)[Len(Append(c, r))] = r
      BY <1>3
    <2>2. SubSeq(Append(c, r), 1, Len(Append(c, r)) - 1) = c
      BY <1>3
    <2>3. QED
      BY <1>4, <2>1, <2>2
  <1>6. next = [stage EXCEPT ![d[Len(d)].layer] =
                    IF d[Len(d)].fn = "OnDettach" THEN "detached"
                    ELSE IF d[Len(d)].fn = "teardown" THEN "freed" ELSE @]
    BY <1>1, <1>4, <1>5 DEF Returned
  <1>7. Callbacks(stack)' = SubSeq(d, 1, Len(d) - 1)
    BY <1>4, <1>5
  <1>8. QED
    BY <1>2, <1>5, <1>6, <1>7 DEF Lifecycle!Return, d

(* A pop undoes a call.                                                    *)
LEMMA PopCalls ==
    ASSUME Typed, Pop, stack # << >>
    PROVE  /\ stack' \in Seq(StackFrame) /\ stack \in Seq(StackFrame)
           /\ Calls(stack', stack, stack[Len(stack)].fn, stack[Len(stack)].layer)
  <1>1. stack \in Seq(StackFrame) /\ stack' \in Seq(StackFrame)
    BY PopTyped DEF Typed, TypeOK
  <1>2. /\ Len(stack') = Len(stack) - 1 /\ Len(stack) \in Nat \ {0} /\ DOMAIN stack = 1..Len(stack)
        /\ DOMAIN stack' = 1..Len(stack) - 1
        /\ \A n \in 1..Len(stack) - 1 : stack'[n] = stack[n]
    BY PopReturns
  <1>3. PICK n \in Nat : n + 1 = Len(stack) /\ n = Len(stack')
    <2>1. Len(stack) - 1 \in Nat
      BY <1>2
    <2>2. QED
      BY <1>2, <2>1
  <1>4. DOMAIN stack = 1..n + 1 /\ DOMAIN stack' = 1..n /\ \A k \in 1..n : stack'[k] = stack[k]
    BY <1>2, <1>3
  <1>5. Calls(stack', stack, stack[n + 1].fn, stack[n + 1].layer)
    BY <1>3, <1>4 DEF Calls, SameCall
  <1>6. QED
    BY <1>1, <1>3, <1>5

(* Registrations and dispatches come and go unseen.                        *)
LEMMA HiddenCall ==
    ASSUME Typed, Typed', NEW fn, fn \notin Callback, NEW l,
           Calls(stack, stack', fn, l) \/ Calls(stack', stack, fn, l),
           UNCHANGED <<freed, live>>
    PROVE  UNCHANGED Lifecycle!vars
  <1>1. stack \in Seq(StackFrame) /\ stack' \in Seq(StackFrame)
    BY DEF Typed, TypeOK
  <1>2. fn # "OnDettach" /\ fn # "teardown"
    BY DEF Callback
  <1>3. CASE Calls(stack, stack', fn, l)
    <2>1. Callbacks(stack') = Callbacks(stack)
      BY <1>1, <1>3, CallbacksCalls
    <2>2. \A m : LeavingIn(stack', m) <=> LeavingIn(stack, m)
      BY <1>1, <1>2, <1>3, LeavingCalls
    <2>3. SameStages(freed, stack, live, freed', stack', live')
      BY <2>2 DEF SameStages, StageIn
    <2>4. QED
      BY <2>1, <2>3, Stutters
  <1>4. CASE Calls(stack', stack, fn, l)
    <2>1. Callbacks(stack') = Callbacks(stack)
      BY <1>1, <1>4, CallbacksCalls
    <2>2. \A m : LeavingIn(stack', m) <=> LeavingIn(stack, m)
      BY <1>1, <1>2, <1>4, LeavingCalls
    <2>3. SameStages(freed, stack, live, freed', stack', live')
      BY <2>2 DEF SameStages, StageIn
    <2>4. QED
      BY <2>1, <2>3, Stutters
  <1>5. QED
    BY <1>3, <1>4

(* So does a step that only moves a loop index of a frame.                 *)
LEMMA HiddenTouch ==
    ASSUME Typed, Typed', Len(stack') = Len(stack),
           \A n \in DOMAIN stack : SameCall(stack'[n], stack[n]),
           UNCHANGED <<freed, live>>
    PROVE  UNCHANGED Lifecycle!vars
  <1>1. stack \in Seq(StackFrame) /\ stack' \in Seq(StackFrame) /\ DOMAIN stack' = DOMAIN stack
    BY DEF Typed, TypeOK
  <1>2. Callbacks(stack') = Callbacks(stack)
    BY <1>1, CallbacksSame
  <1>3. \A m : LeavingIn(stack', m) <=> LeavingIn(stack, m)
    BY <1>1, LeavingSame
  <1>4. SameStages(freed, stack, live, freed', stack', live')
    BY <1>3 DEF SameStages, StageIn
  <1>5. QED
    BY <1>2, <1>4, Stutters

LEMMA HiddenMove ==
    ASSUME UNCHANGED <<stack, freed, live>>
    PROVE  UNCHANGED Lifecycle!vars
  <1>1. SameStages(freed, stack, live, freed', stack', live')
    BY DEF SameStages
  <1>2. QED
    BY <1>1, Stutters

(* A callback of an attached layer; the two that detach it change balance. *)
LEMMA EnterCall ==
    ASSUME Typed, Typed', NEW fn \in Callback, NEW l \in Layer, Calls(stack, stack', fn, l),
           StageIn(freed, stack, live, l) = "attached", freed' = freed,
           \A m \in Layer \ {l} : live'[m] = live[m],
           fn \notin {"OnDettach", "teardown"} => live' = live
    PROVE  Lifecycle!Enter(fn, l, "attached",
                           IF fn \in {"OnDettach", "teardown"} THEN "detaching" ELSE "attached")
  <1>1. stack \in Seq(StackFrame) /\ stack' \in Seq(StackFrame)
    BY DEF Typed, TypeOK
  <1>2. Callbacks(stack') = Append(Callbacks(stack), [fn |-> fn, layer |-> l])
    BY <1>1, CallbacksCalls
  <1>3. \A m : LeavingIn(stack', m)
                  <=> (LeavingIn(stack, m) \/ (l = m /\ fn \in {"OnDettach", "teardown"}))
    BY <1>1, LeavingCalls
  <1>4. \A m \in Layer \ {l} :
              StageIn(freed', stack', live', m) = StageIn(freed, stack, live, m)
    BY <1>3 DEF StageIn
  <1>5. l \notin freed
    BY DEF StageIn
  <1>6. StageIn(freed', stack', live', l)
            = IF fn \in {"OnDettach", "teardown"} THEN "detaching" ELSE "attached"
    <2>1. CASE fn \in {"OnDettach", "teardown"}
      <3>1. LeavingIn(stack', l)
        BY <1>3, <2>1
      <3>2. QED
        BY <1>5, <2>1, <3>1 DEF StageIn
    <2>2. CASE fn \notin {"OnDettach", "teardown"}
      <3>1. LeavingIn(stack', l) <=> LeavingIn(stack, l)
        BY <1>3, <2>2
      <3>2. StageIn(freed', stack', live', l) = StageIn(freed, stack, live, l)
        BY <2>2, <3>1 DEF StageIn
      <3>3. QED
        BY <2>2, <3>2
    <2>3. QED
      BY <2>1, <2>2
  <1>7. QED
    BY <1>2, <1>4, <1>6, Enters

(* The return of a callback that did not detach.                           *)
LEMMA PlainReturn ==
    ASSUME Typed, NEW s \in Seq(StackFrame), NEW fn \in Callback, NEW l \in Layer,
           Calls(s, stack, fn, l), fn \notin {"OnDettach", "teardown"},
           Callbacks(stack') = Callbacks(s), \A m : LeavingIn(stack', m) <=> LeavingIn(s, m),
           UNCHANGED <<freed, live>>
    PROVE  Lifecycle!Return
  <1>1. stack \in Seq(StackFrame)
    BY DEF Typed, TypeOK
  <1>2. Callbacks(stack) = Append(Callbacks(s), [fn |-> fn, layer |-> l])
    BY <1>1, CallbacksCalls
  <1>3. \A m : LeavingIn(stack, m) <=> LeavingIn(s, m)
    BY <1>1, LeavingCalls
  <1>4. \A m \in Layer : StageIn(freed', stack', live', m) = StageIn(freed, stack, live, m)
    BY <1>3 DEF StageIn
  <1>5. StageIn(freed', stack', live', l) = Returned(fn, StageIn(freed, stack, live, l))
    BY <1>4 DEF Returned
  <1>6. QED
    BY <1>2, <1>4, <1>5, ReturnsFrom

(* The end of a registration calls OnAttach.                               *)
LEMMA AttachStep ==
    ASSUME Lawful, CallOnAttach
    PROVE  \E l \in Layer : Lifecycle!Attach(l)
  <1> DEFINE l == Top.layer
  <1>1. Typed /\ stack \in Seq(StackFrame) /\ live \in [Layer -> Int]
    BY DEF Lawful, Registered, Torn, Typed, TypeOK
  <1>2. /\ Len(stack') = Len(stack) /\ stack' \in Seq(StackFrame) /\ stack # << >>
        /\ stack[Len(stack)].fn = "register" /\ stack'[Len(stack)].fn = "OnAttach"
        /\ \A n \in DOMAIN stack : n # Len(stack) => stack'[n] = stack[n]
        /\ l \in Layer /\ stack[Len(stack)] = Top
    BY <1>1, AttachTops
  <1>3. stack'[Len(stack)].layer = l /\ stack[Len(stack)].layer = l
    <2>1. stack' = [stack EXCEPT ![Len(stack)].fn = "OnAttach"]
      BY DEF CallOnAttach
    <2>2. stack[Len(stack)].layer = l /\ stack[Len(stack)] \in StackFrame
          /\ Len(stack) \in DOMAIN stack
      BY <1>1, <1>2
    <2>3. stack'[Len(stack)] = [stack[Len(stack)] EXCEPT !.fn = "OnAttach"]
      BY <2>1, <2>2
    <2>4. QED
      BY <2>2, <2>3 DEF StackFrame
  <1> DEFINE t == Front(stack)
  <1>4. PICK n \in Nat : n + 1 = Len(stack)
    <2>1. Len(stack) \in Nat /\ Len(stack) # 0
      BY <1>1, <1>2
    <2>2. Len(stack) - 1 \in Nat
      BY <2>1
    <2>3. QED
      BY <2>1, <2>2
  <1>5. t \in Seq(StackFrame) /\ Len(t) = n /\ DOMAIN t = 1..n /\ \A k \in 1..n : t[k] = stack[k]
    <2>1. Len(stack) - 1 = n
      BY <1>4
    <2>2. t \in Seq(StackFrame) /\ Len(t) = n /\ \A k \in 1..n : t[k] = stack[k]
      BY <1>1, <1>2, <2>1, FrontIsShorter
    <2>3. QED
      BY <2>2
  <1>6. DOMAIN stack = 1..n + 1 /\ DOMAIN stack' = 1..n + 1
    BY <1>1, <1>2, <1>4
  <1> HIDE DEF t, l
  <1>7. Calls(t, stack, "register", l)
    BY <1>2, <1>3, <1>4, <1>5, <1>6 DEF Calls, SameCall
  <1>8. Calls(t, stack', "OnAttach", l)
    BY <1>2, <1>3, <1>4, <1>5, <1>6 DEF Calls, SameCall
  <1>9. "register" \notin Callback /\ "OnAttach" \in Callback
    BY DEF Callback
  <1>10. Callbacks(stack) = Callbacks(t)
    BY <1>1, <1>5, <1>7, <1>9, CallbacksCalls
  <1>11. Callbacks(stack') = Append(Callbacks(t), [fn |-> "OnAttach", layer |-> l])
    BY <1>2, <1>5, <1>8, <1>9, CallbacksCalls
  <1>12. \A m : LeavingIn(stack, m) <=> LeavingIn(t, m)
    BY <1>1, <1>5, <1>7, LeavingCalls
  <1>13. \A m : LeavingIn(stack', m) <=> LeavingIn(t, m)
    BY <1>2, <1>5, <1>8, LeavingCalls
  <1>14. freed' = freed /\ live' = [live EXCEPT ![l] = @ + 1]
    BY DEF CallOnAttach, l
  <1>15. Adds(stack, l) = 1
    BY <1>2 DEF Adds, l
  <1>16. freed = {} /\ ~LeavingIn(stack, l) /\ live[l] = 0
    BY <1>2, <1>15, LawfulRegistering
  <1>17. live'[l] = 1 /\ \A m \in Layer \ {l} : live'[m] = live[m]
    BY <1>1, <1>2, <1>14, <1>16
  <1>18. /\ StageIn(freed, stack, live, l) = "detached"
         /\ StageIn(freed', stack', live', l) = "attached"
    BY <1>12, <1>13, <1>14, <1>16, <1>17 DEF StageIn
  <1>19. \A m \in Layer \ {l} : StageIn(freed', stack', live', m) = StageIn(freed, stack, live, m)
    BY <1>12, <1>13, <1>14, <1>17 DEF StageIn
  <1>20. Lifecycle!Enter("OnAttach", l, "detached", "attached")
    BY <1>2, <1>10, <1>11, <1>18, <1>19, Enters
  <1>21. QED
    BY <1>2, <1>20 DEF Lifecycle!Attach

(* remove_layer, called by the client or by the sweep, calls OnDettach.    *)
LEMMA DetachStep ==
    ASSUME Lawful, Typed', misuse' = {}, NEW l \in Layer, Detach(l), remove_layer(l) \/ Sweep
    PROVE  Lifecycle!Detach(l)
  <1>1. Typed /\ stack \in Seq(StackFrame) /\ live \in [Layer -> Int]
    BY DEF Lawful, Registered, Torn, Typed, TypeOK
  <1>2. /\ pc \notin {"teardown", "done"}
        /\ stack # << >> => stack[Len(stack)].fn # "register"
    <2>1. CASE Sweep
      BY <2>1 DEF Sweep, At
    <2>2. CASE remove_layer(l)
      <3>1. /\ stack # << >> => stack[Len(stack)].fn \in Callback
            /\ stack = << >> => pc = "setup"
            /\ pc # "teardown"
        BY <2>2 DEF remove_layer, ClientCalls, Top, Breaks
      <3>2. pc = "done" => stack = << >>
        BY LawfulFacts DEF QuietTeardown
      <3>3. QED
        BY <3>1, <3>2 DEF Callback
    <2>3. QED
      BY <2>1, <2>2
  <1>3. l \in ToSet(Layers)
    BY DEF Detach, ToSet
  <1>4. Adds(stack, l) = 0
    BY <1>2 DEF Adds
  <1>5. StageIn(freed, stack, live, l) = "attached"
    BY <1>2, <1>3, <1>4, LawfulAttached
  <1>6. Calls(stack, stack', "OnDettach", l) /\ "OnDettach" \in Callback
    BY <1>1, DetachCalls DEF Callback
  <1>7. freed' = freed /\ live' = [live EXCEPT ![l] = @ - 1]
    BY DEF Detach
  <1>8. Lifecycle!Enter("OnDettach", l, "attached",
            IF "OnDettach" \in {"OnDettach", "teardown"} THEN "detaching" ELSE "attached")
    BY <1>1, <1>5, <1>6, <1>7, EnterCall
  <1>9. QED
    BY <1>8 DEF Lifecycle!Detach

(* A dispatch calls OnEvent.                                               *)
LEMMA EventStep ==
    ASSUME Lawful, Typed', CallOnEvent, ~Fails("freed")
    PROVE  \E l \in Layer : Lifecycle!RaiseEvent(l)
  <1>1. Typed /\ Layers \in Seq(Layer) /\ stack \in Seq(StackFrame)
    BY DEF Lawful, Registered, Torn, Typed, TypeOK
  <1>2. Top.i \in DOMAIN Layers /\ Calls(stack, stack', "OnEvent", Layers[Top.i])
    BY <1>1, OnEventCalls
  <1>3. stack # << >> /\ stack[Len(stack)].fn = "dispatch"
    BY DEF CallOnEvent, In, Top
  <1> DEFINE l == Layers[Top.i]
  <1>4. l \in Layer /\ l \in ToSet(Layers)
    BY <1>1, <1>2 DEF ToSet
  <1> HIDE DEF l
  <1>5. pc \notin {"teardown", "done"} /\ Adds(stack, l) = 0
    BY <1>3, LawfulBusy DEF Adds
  <1>6. StageIn(freed, stack, live, l) = "attached"
    BY <1>4, <1>5, LawfulAttached
  <1>7. UNCHANGED <<freed, live>>
    BY DEF CallOnEvent, Fails
  <1>8. Calls(stack, stack', "OnEvent", l) /\ "OnEvent" \in Callback
    BY <1>2 DEF l, Callback
  <1>9. Lifecycle!Enter("OnEvent", l, "attached",
            IF "OnEvent" \in {"OnDettach", "teardown"} THEN "detaching" ELSE "attached")
    BY <1>1, <1>4, <1>6, <1>7, <1>8, EnterCall
  <1>10. QED
    BY <1>4, <1>9 DEF Lifecycle!RaiseEvent

(* The frame calls a phase callback, and nothing is in progress then.      *)
LEMMA PhaseStep ==
    ASSUME Lawful, Typed', CallPhase, ~Fails("bucket"), ~Fails("binding")
    PROVE  \E l \in Layer : Lifecycle!RunPhase(l)
  <1>1. Typed /\ Registered /\ "bind_once" \notin misuse
    BY DEF Lawful, Registered, Torn
  <1>2. PICK l \in Layer : l \in ToSet(Layers) /\ stack = << >> /\ Calls(stack, stack', "phase", l)
    BY <1>1, PhaseAttached
  <1>3. pc = "phases" /\ UNCHANGED <<freed, live>>
    BY DEF CallPhase, At, Fails
  <1>4. Adds(stack, l) = 0
    BY <1>2 DEF Adds
  <1>5. StageIn(freed, stack, live, l) = "attached"
    BY <1>2, <1>3, <1>4, LawfulAttached
  <1>6. "phase" \in Callback
    BY DEF Callback
  <1>7. Lifecycle!Enter("phase", l, "attached",
            IF "phase" \in {"OnDettach", "teardown"} THEN "detaching" ELSE "attached")
    BY <1>1, <1>2, <1>3, <1>5, <1>6, EnterCall
  <1>8. Callbacks(stack) = << >>
    BY <1>2, CallbacksAre
  <1>9. QED
    BY <1>7, <1>8 DEF Lifecycle!RunPhase

(* Teardown calls the OnDettach of a layer that is still attached, once.   *)
LEMMA TeardownStep ==
    ASSUME Lawful, Typed', Teardown, ~Fails("freed")
    PROVE  \E l \in Layer : Lifecycle!Teardown(l)
  <1> DEFINE l == Layers[i]
  <1>1. Typed /\ AddedOnce /\ misuse = {} /\ Layers \in Seq(Layer) /\ stack = << >> /\ pc = "teardown"
        /\ live \in [Layer -> Int]
    BY DEF Lawful, Registered, Torn, Typed, TypeOK, Teardown, At
  <1>2. i \in DOMAIN Layers /\ Calls(stack, stack', "teardown", l)
    BY <1>1, TeardownCalls
  <1>3. l \in Layer /\ l \notin freed /\ freed' = freed /\ live' = [live EXCEPT ![l] = @ - 1]
    BY <1>1, <1>2 DEF Teardown
  <1>4. ~LeavingIn(stack, l) /\ Adds(stack, l) = 0
    BY <1>1 DEF LeavingIn, Adds
  <1>5. Begun = i - 1
    BY <1>1 DEF Begun, Released
  <1>6. live[l] + Adds(stack, l) = Remaining(Layers, Begun, l) /\ live[l] \in Int
    BY <1>3, LawfulFacts
  <1>7. Remaining(Layers, i - 1, l) = 1
    <2>1. \A m, n \in DOMAIN Layers : Layers[m] = Layers[n] => m = n
      BY <1>1 DEF AddedOnce
    <2>2. DOMAIN Layers \subseteq Nat
      BY <1>1
    <2>3. {n \in DOMAIN Layers : i - 1 < n /\ Layers[n] = l} = {i}
      BY <1>2, <2>1, <2>2
    <2>4. QED
      BY <2>3, FS_Singleton DEF Remaining
  <1>8. live[l] = 1
    BY <1>4, <1>5, <1>6, <1>7
  <1>9. StageIn(freed, stack, live, l) = "attached"
    BY <1>3, <1>4, <1>8 DEF StageIn
  <1>10. "teardown" \in Callback
    BY DEF Callback
  <1> HIDE DEF l
  <1>11. \A m \in Layer \ {l} : live'[m] = live[m]
    BY <1>1, <1>3
  <1>12. Lifecycle!Enter("teardown", l, "attached",
            IF "teardown" \in {"OnDettach", "teardown"} THEN "detaching" ELSE "attached")
    BY <1>1, <1>2, <1>3, <1>9, <1>10, <1>11, EnterCall
  <1>13. Callbacks(stack) = << >>
    BY <1>1, CallbacksAre
  <1>14. QED
    BY <1>3, <1>12, <1>13 DEF Lifecycle!Teardown

(* OnAttach and a phase callback return.                                   *)
LEMMA PopStep ==
    ASSUME Lawful, ReturnOnAttach \/ ReturnPhase
    PROVE  Lifecycle!Return
  <1> DEFINE fn == Top.fn
             l == Top.layer
  <1>1. Typed /\ TypeOK /\ StackShape
    BY DEF Lawful, Registered, Torn, Typed
  <1>2. /\ stack # << >> /\ Pop /\ fn \in {"OnAttach", "phase"} /\ l \in Layer
        /\ UNCHANGED <<freed, live>>
    BY <1>1, TopOfStack DEF ReturnOnAttach, ReturnPhase, In
  <1>3. /\ stack' \in Seq(StackFrame) /\ stack \in Seq(StackFrame)
        /\ Calls(stack', stack, fn, l)
    BY <1>1, <1>2, PopCalls DEF Top
  <1>4. fn \in Callback /\ fn \notin {"OnDettach", "teardown"}
    BY <1>2 DEF Callback
  <1> HIDE DEF fn, l
  <1>5. QED
    BY <1>1, <1>2, <1>3, <1>4, PlainReturn

(* OnDettach returns in remove_layer: its layer may be added again.        *)
LEMMA DettachStep ==
    ASSUME Lawful, ReturnOnDettach, ~Fails("binding")
    PROVE  Lifecycle!Return
  <1> DEFINE l == Top.layer
  <1>1. Typed /\ TypeOK /\ StackShape
    BY DEF Lawful, Registered, Torn, Typed
  <1>2. /\ stack # << >> /\ Pop /\ Top.fn = "OnDettach" /\ l \in Layer
        /\ UNCHANGED <<freed, live>>
    BY <1>1, TopOfStack DEF ReturnOnDettach
  <1>3. /\ stack' \in Seq(StackFrame) /\ stack \in Seq(StackFrame)
        /\ Calls(stack', stack, "OnDettach", l)
    BY <1>1, <1>2, PopCalls DEF Top
  <1> HIDE DEF l
  <1>4. freed = {} /\ ~LeavingIn(stack', l) /\ live[l] = 0
    BY <1>2, <1>3, LawfulReturned
  <1>5. \A m : LeavingIn(stack, m) <=> (LeavingIn(stack', m) \/ l = m)
    BY <1>3, LeavingCalls
  <1>6. "OnDettach" \in Callback
    BY DEF Callback
  <1>7. Callbacks(stack) = Append(Callbacks(stack'), [fn |-> "OnDettach", layer |-> l])
    BY <1>3, <1>6, CallbacksCalls
  <1>8. \A m \in Layer \ {l} : StageIn(freed', stack', live', m) = StageIn(freed, stack, live, m)
    BY <1>2, <1>5 DEF StageIn
  <1>9. StageIn(freed', stack', live', l) = Returned("OnDettach", StageIn(freed, stack, live, l))
    BY <1>2, <1>4 DEF StageIn, Returned
  <1>10. QED
    BY <1>2, <1>3, <1>6, <1>7, <1>8, <1>9, ReturnsFrom

(* The OnDettach of teardown returns: its layer is freed.                  *)
LEMMA FreeStep ==
    ASSUME Lawful, ReturnTeardown
    PROVE  Lifecycle!Return
  <1> DEFINE l == Top.layer
  <1>1. Typed /\ TypeOK /\ StackShape
    BY DEF Lawful, Registered, Torn, Typed
  <1>2. /\ stack # << >> /\ Pop /\ Top.fn = "teardown" /\ l \in Layer
        /\ freed' = freed \cup {l} /\ live' = live
    BY <1>1, TopOfStack DEF ReturnTeardown
  <1>3. /\ stack' \in Seq(StackFrame) /\ stack \in Seq(StackFrame)
        /\ Calls(stack', stack, "teardown", l)
    BY <1>1, <1>2, PopCalls DEF Top
  <1> HIDE DEF l
  <1>4. \A m : LeavingIn(stack, m) <=> (LeavingIn(stack', m) \/ l = m)
    BY <1>3, LeavingCalls
  <1>5. "teardown" \in Callback
    BY DEF Callback
  <1>6. Callbacks(stack) = Append(Callbacks(stack'), [fn |-> "teardown", layer |-> l])
    BY <1>3, <1>5, CallbacksCalls
  <1>7. \A m \in Layer \ {l} : StageIn(freed', stack', live', m) = StageIn(freed, stack, live, m)
    BY <1>2, <1>4 DEF StageIn
  <1>8. StageIn(freed', stack', live', l) = Returned("teardown", StageIn(freed, stack, live, l))
    BY <1>2 DEF StageIn, Returned
  <1>9. QED
    BY <1>2, <1>3, <1>5, <1>6, <1>7, <1>8, ReturnsFrom

(* OnEvent returns to its dispatch, which goes on or ends with it.         *)
LEMMA EventReturnStep ==
    ASSUME Lawful, Typed', ReturnOnEvent
    PROVE  Lifecycle!Return
  <1> DEFINE l == Top.layer
             t == Front(stack)
  <1>1. Typed /\ TypeOK /\ StackShape /\ stack \in Seq(StackFrame) /\ stack' \in Seq(StackFrame)
    BY DEF Lawful, Registered, Torn, Typed, TypeOK
  <1>2. /\ stack # << >> /\ Len(stack) > 1 /\ stack[Len(stack) - 1].fn = "dispatch"
        /\ stack[Len(stack)].fn = "OnEvent" /\ stack[Len(stack)].layer = l /\ l \in Layer
    BY <1>1, TopOfStack DEF ReturnOnEvent, Top
  <1>3. PICK n \in Nat : n + 2 = Len(stack) /\ DOMAIN stack = 1..n + 2
    <2>1. PICK N \in Nat : N = Len(stack) /\ N > 1
      BY <1>1, <1>2
    <2>2. N - 2 \in Nat /\ DOMAIN stack = 1..N
      BY <1>1, <2>1
    <2>3. QED
      BY <2>1, <2>2
  <1>4. /\ t \in Seq(StackFrame) /\ Len(t) = n + 1 /\ DOMAIN t = 1..n + 1 /\ t # << >>
        /\ \A m \in 1..n + 1 : t[m] = stack[m]
    <2>1. Len(stack) - 1 = n + 1
      BY <1>3
    <2>2. t \in Seq(StackFrame) /\ Len(t) = n + 1
          /\ \A m \in 1..n + 1 : t[m] = stack[m]
      BY <1>1, <1>2, <2>1, FrontIsShorter
    <2> HIDE DEF t
    <2>3. DOMAIN t = 1..n + 1 /\ t # << >>
      BY <2>2
    <2>4. QED
      BY <2>2, <2>3
  <1>5. PICK Handled \in BOOLEAN :
            stack' = IF Handled THEN Front(t) ELSE [t EXCEPT ![n + 1].i = @ + 1]
    <2>1. Len(stack) - 1 = n + 1
      BY <1>3
    <2>2. QED
      BY <2>1 DEF ReturnOnEvent
  <1>6. UNCHANGED <<freed, live>>
    BY DEF ReturnOnEvent
  <1> HIDE DEF t, l
  <1>7. Calls(t, stack, "OnEvent", l)
    <2>1. Len(stack) = n + 1 + 1 /\ DOMAIN stack = 1..n + 1 + 1
      BY <1>3
    <2>2. stack[n + 1 + 1].fn = "OnEvent" /\ stack[n + 1 + 1].layer = l
      BY <1>2, <2>1
    <2>3. QED
      BY <1>4, <2>1, <2>2 DEF Calls, SameCall
  <1>8. Callbacks(stack') = Callbacks(t) /\ \A m : LeavingIn(stack', m) <=> LeavingIn(t, m)
    <2>1. CASE Handled
      <3>1. stack' = Front(t)
        BY <1>5, <2>1
      <3>2. Len(t) - 1 = n
        BY <1>4
      <3>3. Len(stack') = n /\ DOMAIN stack' = 1..n /\ \A m \in 1..n : stack'[m] = t[m]
        BY <1>4, <3>1, <3>2, FrontIsShorter
      <3>4. t[n + 1].fn = "dispatch"
        <4>1. Len(stack) - 1 = n + 1 /\ n + 1 \in 1..n + 1
          BY <1>3
        <4>2. QED
          BY <1>2, <1>4, <4>1
      <3>5. Calls(stack', t, "dispatch", t[n + 1].layer)
        BY <1>4, <3>3, <3>4 DEF Calls, SameCall
      <3>6. "dispatch" \notin Callback
        BY DEF Callback
      <3>7. Callbacks(stack') = Callbacks(t)
        <4>1. stack' \in Seq(StackFrame) /\ t \in Seq(StackFrame)
          BY <1>1, <1>4
        <4>2. Callbacks(t) = IF "dispatch" \in Callback
                             THEN Append(Callbacks(stack'), [fn |-> "dispatch", layer |-> t[n + 1].layer])
                             ELSE Callbacks(stack')
          BY <3>5, <4>1, CallbacksCalls
        <4>3. QED
          BY <3>6, <4>2
      <3>8. \A m : LeavingIn(t, m) <=> LeavingIn(stack', m)
        BY <1>1, <1>4, <3>5, LeavingCalls
      <3>9. QED
        BY <3>7, <3>8
    <2>2. CASE ~Handled
      <3>1. stack' = [t EXCEPT ![n + 1].i = @ + 1]
        BY <1>5, <2>2
      <3>2. DOMAIN stack' = DOMAIN t /\ Len(stack') = Len(t)
        BY <1>1, <1>4, <3>1
      <3>3. \A m \in DOMAIN t : SameCall(stack'[m], t[m])
        BY <1>4, <3>1 DEF SameCall, StackFrame
      <3>4. QED
        BY <1>1, <1>4, <3>2, <3>3, CallbacksSame, LeavingSame
    <2>3. QED
      BY <2>1, <2>2
  <1>9. "OnEvent" \in Callback /\ "OnEvent" \notin {"OnDettach", "teardown"}
    BY DEF Callback
  <1>10. QED
    BY <1>1, <1>2, <1>4, <1>6, <1>7, <1>8, <1>9, PlainReturn

Seen == [Lifecycle!Next]_(Lifecycle!vars)

(* Every step is one of the abstract specification or leaves it as it was. *)
LEMMA ClientSeen ==
    ASSUME Lawful, Typed', misuse' = {}, ClientCall
    PROVE  Seen
  <1>1. Typed
    BY DEF Lawful, Registered, Torn
  <1>2. ASSUME NEW l \in Layer, add_layer(l) PROVE Seen
    <2>1. Calls(stack, stack', "register", l)
      BY <1>1, <1>2, ClientPushes
    <2>2. UNCHANGED <<freed, live>>
      BY <1>2 DEF add_layer
    <2>3. "register" \notin Callback
      BY DEF Callback
    <2>4. UNCHANGED Lifecycle!vars
      BY <1>1, <2>1, <2>2, <2>3, HiddenCall
    <2>5. QED
      BY <2>4 DEF Seen
  <1>3. ASSUME NEW l \in Layer, remove_layer(l) PROVE Seen
    <2>1. Detach(l)
      BY <1>3 DEF remove_layer
    <2>2. Lifecycle!Detach(l)
      BY <1>3, <2>1, DetachStep
    <2>3. QED
      BY <2>2 DEF Seen, Lifecycle!Next
  <1>4. ASSUME application_event_callback PROVE Seen
    <2>1. Calls(stack, stack', "dispatch", NULL)
      BY <1>1, <1>4, ClientPushes
    <2>2. UNCHANGED <<freed, live>>
      BY <1>4 DEF application_event_callback
    <2>3. "dispatch" \notin Callback
      BY DEF Callback
    <2>4. UNCHANGED Lifecycle!vars
      BY <1>1, <2>1, <2>2, <2>3, HiddenCall
    <2>5. QED
      BY <2>4 DEF Seen
  <1>5. ASSUME UNCHANGED <<stack, freed, live>> PROVE Seen
    <2>1. UNCHANGED Lifecycle!vars
      BY <1>5, HiddenMove
    <2>2. QED
      BY <2>1 DEF Seen
  <1>6. (\E l \in Layer : add_layer(l)) \/ (\E l \in Layer : remove_layer(l))
        \/ application_event_callback \/ UNCHANGED <<stack, freed, live>>
    BY DEF ClientCall, SetDestroy, bind_layer_phase, bind_phase_ctx, Stop
  <1>7. QED
    BY <1>2, <1>3, <1>4, <1>5, <1>6

LEMMA StepSeen ==
    ASSUME Lawful, Typed', misuse' = {}, Step
    PROVE  Seen
  <1>1. Typed /\ TypeOK /\ StackShape /\ stack \in Seq(StackFrame)
    BY DEF Lawful, Registered, Torn, Typed, TypeOK
  <1>2. ASSUME UNCHANGED <<stack, freed, live>> PROVE Seen
    <2>1. UNCHANGED Lifecycle!vars
      BY <1>2, HiddenMove
    <2>2. QED
      BY <2>1 DEF Seen
  <1>3. \A kind : Fails(kind) => UNCHANGED <<stack, freed, live>>
    BY DEF Fails
  <1>4. CASE RegisterBinding
    <2>1. /\ Len(stack') = Len(stack) /\ DOMAIN stack' = DOMAIN stack /\ Returns(stack, stack')
          /\ UNCHANGED <<freed, live>>
      BY <1>1, <1>4, RegisterReturns DEF RegisterBinding
    <2>2. \A n \in DOMAIN stack : SameCall(stack'[n], stack[n])
      BY <2>1 DEF Returns
    <2>3. UNCHANGED Lifecycle!vars
      BY <1>1, <2>1, <2>2, HiddenTouch
    <2>4. QED
      BY <2>3 DEF Seen
  <1>5. CASE CallOnAttach
    BY <1>5, AttachStep DEF Seen, Lifecycle!Next
  <1>6. CASE ReturnOnAttach \/ ReturnPhase
    BY <1>6, PopStep DEF Seen, Lifecycle!Next
  <1>7. CASE ReturnOnDettach
    BY <1>2, <1>3, <1>7, DettachStep DEF Seen, Lifecycle!Next
  <1>8. CASE CallOnEvent
    BY <1>2, <1>3, <1>8, EventStep DEF Seen, Lifecycle!Next
  <1>9. CASE ReturnOnEvent
    BY <1>9, EventReturnStep DEF Seen, Lifecycle!Next
  <1>10. CASE EndDispatch
    <2>1. stack # << >> /\ Pop /\ Top.fn = "dispatch" /\ UNCHANGED <<freed, live>>
      BY <1>1, <1>10, TopOfStack DEF EndDispatch
    <2>2. Calls(stack', stack, "dispatch", Top.layer)
      BY <1>1, <2>1, PopCalls DEF Top
    <2>3. "dispatch" \notin Callback
      BY DEF Callback
    <2>4. UNCHANGED Lifecycle!vars
      BY <1>1, <2>1, <2>2, <2>3, HiddenCall
    <2>5. QED
      BY <2>4 DEF Seen
  <1>11. CASE CallPhase
    BY <1>2, <1>3, <1>11, PhaseStep DEF Seen, Lifecycle!Next
  <1>12. CASE Sweep
    <2>1. UNCHANGED <<stack, freed, live>> \/ Detach(Layers[i])
      BY <1>12 DEF Sweep
    <2>2. Layers[i] \in Layer
      BY <1>1, <1>12 DEF Sweep, TypeOK
    <2>3. Detach(Layers[i]) => Lifecycle!Detach(Layers[i])
      BY <1>12, <2>2, DetachStep
    <2>4. QED
      BY <1>2, <2>1, <2>2, <2>3 DEF Seen, Lifecycle!Next
  <1>13. CASE Teardown
    BY <1>2, <1>3, <1>13, TeardownStep DEF Seen, Lifecycle!Next
  <1>14. CASE ReturnTeardown
    BY <1>14, FreeStep DEF Seen, Lifecycle!Next
  <1>15. RunApplication \/ BeginFrame \/ NextBucket \/ EndPhases \/ EndSweep \/ EndRun
         \/ DestroyApplication \/ EndTeardown => UNCHANGED <<stack, freed, live>>
    BY DEF RunApplication, BeginFrame, NextBucket, EndPhases, EndSweep, EndRun,
       DestroyApplication, EndTeardown
  <1>16. QED
    BY <1>2, <1>4, <1>5, <1>6, <1>7, <1>8, <1>9, <1>10, <1>11, <1>12, <1>13, <1>14, <1>15 DEF Step

(* Nothing is attached when the application is created.                    *)
LEMMA LifecycleInit == Init => Lifecycle!Init
  <1> SUFFICES ASSUME Init PROVE Lifecycle!Init
    OBVIOUS
  <1>1. stack = << >> /\ freed = {} /\ \A l \in Layer : live[l] = 0
    BY DEF Init
  <1>2. \A l \in Layer : StageIn(freed, stack, live, l) = "detached"
    BY <1>1 DEF StageIn, LeavingIn
  <1>3. [l \in Layer |-> StageOf(l)] = [l \in Layer |-> "detached"]
    BY <1>2, StagesAre
  <1>4. Callbacks(stack) = << >>
    BY <1>1, CallbacksAre
  <1>5. QED
    BY <1>3, <1>4 DEF Lifecycle!Init

(* For a client that keeps every rule the application implements           *)
(* LayerLifecycle: OnAttach comes first, phase and event callbacks only    *)
(* between OnAttach and OnDettach, each OnDettach answers its own OnAttach *)
(* and a layer is freed when its last OnDettach has returned, whatever the *)
(* callbacks add, remove and raise from within one another.                *)
THEOREM ApplicationImplementsLifecycle ==
    ASSUME Rules = Rule
    PROVE  Spec => ImplementsLifecycle
  <1>1. Init => Lawful /\ Lifecycle!Init
    BY LawfulInit, LifecycleInit
  <1>2. Lawful /\ [Next]_vars => Lawful' /\ [Lifecycle!Next]_(Lifecycle!vars)
    <2> SUFFICES ASSUME Lawful, [Next]_vars
                 PROVE  Lawful' /\ [Lifecycle!Next]_(Lifecycle!vars)
      OBVIOUS
    <2>1. Lawful'
      BY LawfulNext
    <2>2. Typed' /\ misuse' = {}
      BY <2>1 DEF Lawful, Registered, Torn
    <2>3. CASE UNCHANGED vars
      <3>1. UNCHANGED <<stack, freed, live>>
        BY <2>3 DEF vars
      <3>2. QED
        BY <2>1, <3>1, HiddenMove
    <2>4. ClientCall \/ Step => Seen
      BY <2>2, ClientSeen, StepSeen
    <2>5. QED
      BY <2>1, <2>3, <2>4 DEF Next, Ended, Seen
  <1>3. QED
    BY <1>1, <1>2, PTL DEF Spec, ImplementsLifecycle, Lifecycle!Spec

-----------------------------------------------------------------------------
(* One frame of run_application: what its callbacks do to the buckets it   *)
(* walks through.                                                          *)

(* The frame calls a phase callback only from its loops, so that one is at *)
(* the bottom of the stack whenever anything is in progress there.         *)
PhaseFrames(s, place) ==
    /\ \A n \in DOMAIN s : s[n].fn = "phase" => n = 1
    /\ place = "phases" /\ s # << >> => s[1].fn = "phase"

(* A call made by anybody else, from a callback or outside of the frame.   *)
LEMMA PhaseFramesCall ==
    ASSUME NEW s \in Seq(StackFrame), NEW t \in Seq(StackFrame), NEW fn, NEW l,
           Calls(s, t, fn, l), NEW place, PhaseFrames(s, place),
           fn = "phase" => s = << >>,
           fn # "phase" => s # << >> \/ place # "phases"
    PROVE  PhaseFrames(t, place)
  <1>1. PICK n \in Nat : n = Len(s) /\ DOMAIN s = 1..n
    OBVIOUS
  <1>2. /\ DOMAIN t = 1..n + 1 /\ t[n + 1].fn = fn /\ \A k \in 1..n : t[k].fn = s[k].fn
    BY <1>1 DEF Calls, SameCall
  <1>3. s = << >> <=> n = 0
    BY <1>1
  <1>4. ASSUME NEW k \in 1..n + 1, t[k].fn = "phase" PROVE k = 1
    <2>1. k = n + 1 \/ k \in 1..n
      OBVIOUS
    <2>2. CASE k \in 1..n
      BY <1>1, <1>2, <1>4, <2>2 DEF PhaseFrames
    <2>3. CASE k = n + 1
      BY <1>2, <1>3, <1>4, <2>3
    <2>4. QED
      BY <2>1, <2>2, <2>3
  <1>5. ASSUME place = "phases" PROVE t[1].fn = "phase"
    <2>1. CASE n = 0
      BY <1>2, <1>3, <1>5, <2>1
    <2>2. CASE n # 0
      <3>1. 1 \in 1..n
        BY <2>2
      <3>2. QED
        BY <1>2, <1>3, <1>5, <2>2, <3>1 DEF PhaseFrames
    <2>3. QED
      BY <2>1, <2>2
  <1>6. QED
    BY <1>2, <1>4, <1>5 DEF PhaseFrames

(* And a return to one of the calls in progress.                           *)
LEMMA PhaseFramesReturn ==
    ASSUME NEW s \in Seq(StackFrame), NEW t \in Seq(StackFrame), Returns(s, t),
           NEW place, PhaseFrames(s, place)
    PROVE  PhaseFrames(t, place)
  <1>1. \A n \in DOMAIN t : n \in DOMAIN s /\ t[n].fn = s[n].fn
    BY DEF Returns, SameCall
  <1>2. t # << >> => 1 \in DOMAIN t /\ s # << >>
    <2>1. t # << >> => 1 \in DOMAIN t
      OBVIOUS
    <2>2. 1 \in DOMAIN t => s # << >>
      BY <1>1
    <2>3. QED
      BY <2>1, <2>2
  <1>3. QED
    BY <1>1, <1>2 DEF PhaseFrames

(* No step of the program disturbs that.                                   *)
LEMMA PhaseFramesNext ==
    ASSUME Typed, PhaseFrames(stack, pc), [Next]_vars
    PROVE  PhaseFrames(stack', pc')
  <1>1. stack \in Seq(StackFrame) /\ stack' \in Seq(StackFrame)
    BY TypedNext DEF Typed, TypeOK
  <1>2. ASSUME stack' = << >> PROVE PhaseFrames(stack', pc')
    BY <1>2 DEF PhaseFrames
  <1>3. ASSUME Returns(stack, stack'), pc' = pc PROVE PhaseFrames(stack', pc')
    BY <1>1, <1>3, PhaseFramesReturn
  <1>4. ASSUME NEW fn, NEW l, Calls(stack, stack', fn, l), pc' = pc,
               fn = "phase" => stack = << >>,
               fn # "phase" => stack # << >> \/ pc # "phases"
        PROVE  PhaseFrames(stack', pc')
    BY <1>1, <1>4, PhaseFramesCall
  <1>5. ASSUME stack' = stack PROVE PhaseFrames(stack', pc')
    <2>1. pc' = pc \/ stack' = << >>
      BY PlaceChange
    <2>2. QED
      BY <1>2, <1>5, <2>1
  <1>6. ASSUME NEW l \in Layer, Detach(l), stack # << >> \/ pc # "phases"
        PROVE  PhaseFrames(stack', pc')
    <2>1. Calls(stack, stack', "OnDettach", l) /\ pc' = pc
      BY <1>6, DetachCalls DEF Detach
    <2>2. QED
      BY <1>4, <1>6, <2>1
  <1>7. CASE ClientCall
    <2>1. stack # << >> \/ pc # "phases"
      BY <1>7, ClientLeaves
    <2>2. ASSUME NEW l \in Layer, add_layer(l) PROVE PhaseFrames(stack', pc')
      <3>1. Calls(stack, stack', "register", l) /\ pc' = pc
        BY <2>2, ClientPushes DEF add_layer
      <3>2. QED
        BY <1>4, <2>1, <3>1
    <2>3. ASSUME application_event_callback PROVE PhaseFrames(stack', pc')
      <3>1. Calls(stack, stack', "dispatch", NULL) /\ pc' = pc
        BY <2>3, ClientPushes DEF application_event_callback
      <3>2. QED
        BY <1>4, <2>1, <3>1
    <2>4. ASSUME NEW l \in Layer, remove_layer(l) PROVE PhaseFrames(stack', pc')
      BY <1>6, <2>1, <2>4 DEF remove_layer
    <2>5. stack' = stack \/ (\E l \in Layer : add_layer(l)) \/ application_event_callback
          \/ (\E l \in Layer : remove_layer(l))
      BY <1>7 DEF ClientCall, SetDestroy, bind_layer_phase, bind_phase_ctx, Stop
    <2>6. QED
      BY <1>5, <2>2, <2>3, <2>4, <2>5
  <1>8. CASE Step
    <2>1. CASE RegisterBinding
      BY <1>3, <2>1, RegisterReturns DEF RegisterBinding
    <2>2. CASE CallOnAttach
      <3>1. /\ Len(stack') = Len(stack) /\ stack # << >> /\ pc' = pc
            /\ stack[Len(stack)].fn = "register" /\ stack'[Len(stack)].fn = "OnAttach"
            /\ \A n \in DOMAIN stack : n # Len(stack) => stack'[n] = stack[n]
        BY <2>2, AttachTops DEF CallOnAttach
      <3>2. DOMAIN stack' = DOMAIN stack /\ 1 \in DOMAIN stack
        BY <1>1, <3>1
      <3>3. \A n \in DOMAIN stack' : stack'[n].fn = "phase" => n = 1
        BY <3>1, <3>2 DEF PhaseFrames
      <3>4. pc = "phases" => Len(stack) # 1
        BY <3>1, <3>2 DEF PhaseFrames
      <3>5. pc = "phases" => stack'[1].fn = "phase"
        BY <3>1, <3>2, <3>4 DEF PhaseFrames
      <3>6. QED
        BY <3>1, <3>3, <3>5 DEF PhaseFrames
    <2>3. CASE ReturnOnAttach \/ ReturnPhase \/ ReturnTeardown \/ EndDispatch
      BY <1>3, <2>3, PopReturns DEF ReturnOnAttach, ReturnPhase, ReturnTeardown, EndDispatch, In
    <2>4. CASE ReturnOnDettach
      <3>1. CASE Fails("binding")
        BY <1>5, <3>1 DEF Fails
      <3>2. CASE ~Fails("binding")
        BY <1>3, <2>4, <3>2, PopReturns DEF ReturnOnDettach, In
      <3>3. QED
        BY <3>1, <3>2
    <2>5. CASE ReturnOnEvent
      BY <1>3, <2>5, OnEventReturns DEF ReturnOnEvent
    <2>6. CASE CallOnEvent
      <3>1. CASE Fails("freed")
        BY <1>5, <3>1 DEF Fails
      <3>2. CASE ~Fails("freed")
        <4>1. Calls(stack, stack', "OnEvent", Layers[Top.i])
          BY <2>6, <3>2, OnEventCalls
        <4>2. pc' = pc /\ stack # << >>
          BY <2>6, <3>2 DEF CallOnEvent, In
        <4>3. QED
          BY <1>4, <4>1, <4>2
      <3>3. QED
        BY <3>1, <3>2
    <2>7. CASE CallPhase
      <3>1. CASE Fails("bucket") \/ Fails("binding")
        BY <1>5, <3>1 DEF Fails
      <3>2. CASE ~Fails("bucket") /\ ~Fails("binding")
        <4>1. Calls(stack, stack', "phase", Bucket.Bindings[j].Layer)
          BY <2>7, <3>2, PhaseCalls
        <4>2. pc' = pc /\ stack = << >>
          BY <2>7, <3>2 DEF CallPhase, At
        <4>3. QED
          BY <1>4, <4>1, <4>2
      <3>3. QED
        BY <3>1, <3>2
    <2>8. CASE Teardown
      <3>1. CASE Fails("freed")
        BY <1>5, <3>1 DEF Fails
      <3>2. CASE ~Fails("freed")
        <4>1. Calls(stack, stack', "teardown", Layers[i])
          BY <2>8, <3>2, TeardownCalls
        <4>2. pc' = pc /\ pc # "phases"
          BY <2>8, <3>2 DEF Teardown, At
        <4>3. QED
          BY <1>4, <4>1, <4>2
      <3>3. QED
        BY <3>1, <3>2
    <2>9. CASE Sweep
      <3>1. stack' = stack \/ Detach(Layers[i])
        BY <2>9 DEF Sweep
      <3>2. Layers[i] \in Layer /\ pc # "phases"
        BY <2>9 DEF Sweep, At, Typed, TypeOK
      <3>3. QED
        BY <1>5, <1>6, <3>1, <3>2
    <2>10. RunApplication \/ BeginFrame \/ NextBucket \/ EndPhases \/ EndSweep \/ EndRun
           \/ DestroyApplication \/ EndTeardown => stack' = stack
      BY DEF RunApplication, BeginFrame, NextBucket, EndPhases, EndSweep, EndRun,
         DestroyApplication, EndTeardown
    <2>11. QED
      BY <1>5, <1>8, <2>1, <2>2, <2>3, <2>4, <2>5, <2>6, <2>7, <2>8, <2>9, <2>10 DEF Step
  <1>9. CASE UNCHANGED vars
    BY <1>5, <1>9 DEF vars
  <1>10. QED
    BY <1>7, <1>8, <1>9 DEF Next, Ended

-----------------------------------------------------------------------------
(* The place a frame has reached: binding b of bucket a.  For buckets B,   *)
(* the bindings due and those called, what holds of that place.            *)

EntryAt(B, n, k) == Entry(B[n].Phase, B[n].Bindings[k])
Ahead(n, k, a, b) == a < n \/ (n = a /\ b <= k)

CalledOrAhead(B, due, called, a, b) ==
    \A e \in due : \/ e \in ToSet(called)
                   \/ \E n \in DOMAIN B : \E k \in DOMAIN B[n].Bindings :
                         EntryAt(B, n, k) = e /\ Ahead(n, k, a, b)
StillThere(B, due) ==
    \A e \in due : \E n \in DOMAIN B : \E k \in DOMAIN B[n].Bindings : EntryAt(B, n, k) = e
InOrder(B, called, a) ==
    /\ \A m \in DOMAIN called : \E n \in DOMAIN B : n <= a /\ B[n].Phase = called[m].Phase
    /\ \A m, n \in DOMAIN called : m <= n => called[m].Phase <= called[n].Phase
NeverAgain(B, due, called, a, b) ==
    \A m \in DOMAIN called : called[m] \in due =>
        /\ \A n \in DOMAIN called : called[n] = called[m] => n = m
        /\ \A n \in DOMAIN B : \A k \in DOMAIN B[n].Bindings :
              EntryAt(B, n, k) = called[m] => ~Ahead(n, k, a, b)

(* What the steps of a phase callback do to the buckets.                   *)
SamePhases(B, C) == DOMAIN C = DOMAIN B /\ \A n \in DOMAIN B : C[n].Phase = B[n].Phase
SameBindings(B, C) == \A n \in DOMAIN B : C[n].Bindings = B[n].Bindings
Extends(B, C) ==
    \A n \in DOMAIN B : \A k \in DOMAIN B[n].Bindings :
        k \in DOMAIN C[n].Bindings /\ C[n].Bindings[k] = B[n].Bindings[k]
(* No entry is in the buckets twice.                                       *)
Single(B) ==
    \A n, m \in DOMAIN B : \A k \in DOMAIN B[n].Bindings : \A h \in DOMAIN B[m].Bindings :
        EntryAt(B, n, k) = EntryAt(B, m, h) => n = m /\ k = h

(* Each of them keeps what holds of the place.                             *)
LEMMA OrderKept ==
    ASSUME NEW B, NEW C, SamePhases(B, C), NEW called, NEW a, InOrder(B, called, a)
    PROVE  InOrder(C, called, a)
  BY DEF InOrder, SamePhases

(* When bindings are registered at the end of buckets, none loses its      *)
(* place.                                                                  *)
LEMMA ExtendKeeps ==
    ASSUME NEW B, NEW C, SamePhases(B, C), Extends(B, C), NEW due, NEW called, NEW a, NEW b
    PROVE  /\ CalledOrAhead(B, due, called, a, b) => CalledOrAhead(C, due, called, a, b)
           /\ StillThere(B, due) => StillThere(C, due)
  <1>1. \A n \in DOMAIN B : \A k \in DOMAIN B[n].Bindings :
            n \in DOMAIN C /\ k \in DOMAIN C[n].Bindings /\ EntryAt(C, n, k) = EntryAt(B, n, k)
    BY DEF SamePhases, Extends, EntryAt
  <1>2. ASSUME StillThere(B, due) PROVE StillThere(C, due)
    <2>1. ASSUME NEW e \in due
          PROVE  \E n \in DOMAIN C : \E k \in DOMAIN C[n].Bindings : EntryAt(C, n, k) = e
      <3>1. PICK n \in DOMAIN B : \E k \in DOMAIN B[n].Bindings : EntryAt(B, n, k) = e
        BY <1>2 DEF StillThere
      <3>2. QED
        BY <1>1, <3>1
    <2>2. QED
      BY <2>1 DEF StillThere
  <1>3. ASSUME CalledOrAhead(B, due, called, a, b) PROVE CalledOrAhead(C, due, called, a, b)
    <2>1. ASSUME NEW e \in due, e \notin ToSet(called)
          PROVE  \E n \in DOMAIN C : \E k \in DOMAIN C[n].Bindings :
                    EntryAt(C, n, k) = e /\ Ahead(n, k, a, b)
      <3>1. PICK n \in DOMAIN B : \E k \in DOMAIN B[n].Bindings :
                    EntryAt(B, n, k) = e /\ Ahead(n, k, a, b)
        BY <1>3, <2>1 DEF CalledOrAhead
      <3>2. QED
        BY <1>1, <3>1
    <2>2. QED
      BY <2>1 DEF CalledOrAhead
  <1>4. QED
    BY <1>2, <1>3

(* When the buckets grow and stay without doubles of what is due, what was *)
(* called stays behind.                                                    *)
LEMMA ExtendPasses ==
    ASSUME NEW B, NEW C, SamePhases(B, C), Extends(B, C), NEW due, NEW called, NEW a, NEW b,
           StillThere(B, due), Single(C), NeverAgain(B, due, called, a, b)
    PROVE  NeverAgain(C, due, called, a, b)
  <1>1. \A n \in DOMAIN B : \A k \in DOMAIN B[n].Bindings :
            n \in DOMAIN C /\ k \in DOMAIN C[n].Bindings /\ EntryAt(C, n, k) = EntryAt(B, n, k)
    BY DEF SamePhases, Extends, EntryAt
  <1>2. ASSUME NEW m \in DOMAIN called, called[m] \in due,
               NEW n \in DOMAIN C, NEW k \in DOMAIN C[n].Bindings,
               EntryAt(C, n, k) = called[m]
        PROVE  ~Ahead(n, k, a, b)
    <2>1. PICK p \in DOMAIN B : \E h \in DOMAIN B[p].Bindings : EntryAt(B, p, h) = called[m]
      BY <1>2 DEF StillThere
    <2>2. PICK h \in DOMAIN B[p].Bindings : EntryAt(B, p, h) = called[m]
      BY <2>1
    <2>3. p \in DOMAIN C /\ h \in DOMAIN C[p].Bindings /\ EntryAt(C, p, h) = called[m]
      BY <1>1, <2>2
    <2>4. p = n /\ h = k
      BY <1>2, <2>3 DEF Single
    <2>5. ~Ahead(p, h, a, b)
      BY <1>2, <2>2 DEF NeverAgain
    <2>6. QED
      BY <2>4, <2>5
  <1>3. \A m \in DOMAIN called : called[m] \in due =>
            \A n \in DOMAIN called : called[n] = called[m] => n = m
    BY DEF NeverAgain
  <1>4. QED
    BY <1>2, <1>3 DEF NeverAgain

(* When a context changes, no binding does.                                *)
LEMMA SamePasses ==
    ASSUME NEW B, NEW C, SamePhases(B, C), SameBindings(B, C), NEW due, NEW called, NEW a, NEW b
    PROVE  /\ Extends(B, C)
           /\ NeverAgain(B, due, called, a, b) => NeverAgain(C, due, called, a, b)
  <1>1. \A n \in DOMAIN B : /\ DOMAIN C[n].Bindings = DOMAIN B[n].Bindings
                            /\ \A k \in DOMAIN B[n].Bindings : EntryAt(C, n, k) = EntryAt(B, n, k)
    BY DEF SamePhases, SameBindings, EntryAt
  <1>2. Extends(B, C)
    BY DEF SameBindings, Extends
  <1>3. DOMAIN C = DOMAIN B
    BY DEF SamePhases
  <1>4. ASSUME NeverAgain(B, due, called, a, b) PROVE NeverAgain(C, due, called, a, b)
    BY <1>1, <1>3, <1>4 DEF NeverAgain
  <1>5. QED
    BY <1>2, <1>4

(* remove_layer takes an entry of its layer out of each bucket.            *)
RemovesFrom(B, C, l) ==
    DOMAIN C = DOMAIN B /\ \A n \in DOMAIN B : Leaves(B[n].Bindings, C[n].Bindings, l)

(* Where the elements of such an array are afterwards, and were before.    *)
LEMMA LeavesPlaces ==
    ASSUME NEW s \in Seq(BindingPointer), NEW t \in Seq(BindingPointer), NEW l, Leaves(s, t, l)
    PROVE  /\ \A k \in DOMAIN s : s[k].Layer # l =>
                 \/ k \in DOMAIN t /\ t[k] = s[k]
                 \/ /\ k = Len(s)
                    /\ \E m \in DOMAIN t : t[m] = s[k] /\ m \in DOMAIN s /\ s[m].Layer = l
           /\ \A k \in DOMAIN t : \E h \in DOMAIN s : k <= h /\ t[k] = s[h]
  <1>1. PICK N \in Nat : N = Len(s) /\ DOMAIN s = 1..N
    OBVIOUS
  <1>2. CASE \E n \in DOMAIN s : s[n].Layer = l
    <2>1. PICK m \in DOMAIN s : /\ s[m].Layer = l
                                /\ Len(t) = Len(s) - 1 /\ DOMAIN t = 1..Len(s) - 1
                                /\ \A n \in DOMAIN t : t[n] = IF n = m THEN s[Len(s)] ELSE s[n]
      BY <1>2 DEF Leaves
    <2>2. DOMAIN t = 1..N - 1 /\ m \in 1..N /\ \A n \in 1..N - 1 : t[n] = IF n = m THEN s[N] ELSE s[n]
      BY <1>1, <2>1
    <2>3. ASSUME NEW k \in DOMAIN s, s[k].Layer # l
          PROVE  \/ k \in DOMAIN t /\ t[k] = s[k]
                 \/ /\ k = Len(s)
                    /\ \E h \in DOMAIN t : t[h] = s[k] /\ h \in DOMAIN s /\ s[h].Layer = l
      <3>1. k # m
        BY <2>1, <2>3
      <3>2. CASE k # N
        <4>1. k \in 1..N - 1
          BY <1>1, <3>2
        <4>2. QED
          BY <2>2, <3>1, <4>1
      <3>3. CASE k = N
        <4>1. m \in 1..N - 1
          BY <2>2, <3>1, <3>3
        <4>2. t[m] = s[k]
          BY <2>2, <3>3, <4>1
        <4>3. QED
          BY <1>1, <2>1, <2>2, <3>3, <4>1, <4>2
      <3>4. QED
        BY <3>2, <3>3
    <2>4. ASSUME NEW k \in DOMAIN t PROVE \E h \in DOMAIN s : k <= h /\ t[k] = s[h]
      <3>1. k \in 1..N - 1 /\ N \in DOMAIN s /\ k \in DOMAIN s /\ k <= N
        BY <1>1, <2>2
      <3>2. CASE k = m
        BY <2>2, <3>1, <3>2
      <3>3. CASE k # m
        BY <2>2, <3>1, <3>3
      <3>4. QED
        BY <3>2, <3>3
    <2>5. QED
      BY <2>3, <2>4
  <1>3. CASE ~\E n \in DOMAIN s : s[n].Layer = l
    <2>1. t = s
      BY <1>3 DEF Leaves
    <2>2. \A k \in DOMAIN s : k <= k
      BY <1>1
    <2>3. QED
      BY <2>1, <2>2
  <1>4. QED
    BY <1>2, <1>3

(* What is still due when a layer has left: not its own entries, nor the   *)
(* last of bucket a if that moved to place c or before.                    *)
Spares(B, due, after, l, a, c) ==
    /\ after \subseteq due /\ \A e \in after : e.Layer # l
    /\ a \in DOMAIN B /\ (\E n \in DOMAIN B[a].Bindings : n <= c /\ B[a].Bindings[n].Layer = l)
          => \A e \in after : e # Entry(B[a].Phase, Last(B[a].Bindings))

(* The elements of buckets have their types, and their places are numbers. *)
LEMMA BucketTypes ==
    ASSUME NEW B \in Seq(PhaseBucket), NEW n \in DOMAIN B
    PROVE  /\ n \in Nat /\ B[n].Phase \in Nat /\ B[n].Bindings \in Seq(BindingPointer)
           /\ DOMAIN B[n].Bindings = 1..Len(B[n].Bindings) /\ Len(B[n].Bindings) \in Nat
  <1>1. PICK N \in Nat : N = Len(B) /\ DOMAIN B = 1..N
    OBVIOUS
  <1>2. B[n] \in PhaseBucket
    OBVIOUS
  <1>3. B[n].Phase \in Phase /\ B[n].Bindings \in Seq(BindingPointer)
    BY <1>2 DEF PhaseBucket
  <1>4. PICK M \in Nat : M = Len(B[n].Bindings) /\ DOMAIN B[n].Bindings = 1..M
    BY <1>3
  <1>5. B[n].Phase \in Nat
    BY <1>3, PhaseAssumption
  <1>6. QED
    BY <1>1, <1>3, <1>4, <1>5

(* The places in a bucket.                                                 *)
LEMMA PlaceTypes ==
    ASSUME NEW B \in Seq(PhaseBucket), NEW n \in DOMAIN B, NEW k \in DOMAIN B[n].Bindings
    PROVE  k \in Nat /\ 1 <= k /\ k <= Len(B[n].Bindings)
  <1>1. PICK N \in Nat : N = Len(B[n].Bindings) /\ DOMAIN B[n].Bindings = 1..N
    BY BucketTypes
  <1>2. QED
    BY <1>1

(* Every such entry keeps a place, and one ahead when it had one ahead.    *)
StayAhead(B, C, after, a, b) ==
    \A e \in after : \A n \in DOMAIN B : \A k \in DOMAIN B[n].Bindings :
        EntryAt(B, n, k) = e =>
            \E h \in DOMAIN C[n].Bindings :
                EntryAt(C, n, h) = e /\ (Ahead(n, k, a, b) => Ahead(n, h, a, b))

LEMMA RemovePlaces ==
    ASSUME NEW B \in Seq(PhaseBucket), NEW C \in Seq(PhaseBucket), NEW l,
           SamePhases(B, C), RemovesFrom(B, C, l), NEW due, NEW after, NEW a \in Nat, NEW c \in Nat,
           Spares(B, due, after, l, a, c)
    PROVE  StayAhead(B, C, after, a, c + 1)
  <1> SUFFICES ASSUME NEW e \in after, NEW n \in DOMAIN B, NEW k \in DOMAIN B[n].Bindings,
                      EntryAt(B, n, k) = e
               PROVE  \E h \in DOMAIN C[n].Bindings :
                         /\ EntryAt(C, n, h) = e
                         /\ Ahead(n, k, a, c + 1) => Ahead(n, h, a, c + 1)
    BY DEF StayAhead
  <1> DEFINE s == B[n].Bindings
             t == C[n].Bindings
  <1>1. /\ s \in Seq(BindingPointer) /\ t \in Seq(BindingPointer) /\ Leaves(s, t, l)
        /\ C[n].Phase = B[n].Phase /\ n \in DOMAIN C /\ n \in Nat
    <2>1. n \in DOMAIN C /\ C[n].Phase = B[n].Phase /\ Leaves(s, t, l)
      BY DEF SamePhases, RemovesFrom
    <2>2. QED
      BY <2>1, BucketTypes
  <1>2. s[k].Layer = e.Layer /\ e = Entry(B[n].Phase, s[k])
    BY DEF EntryAt, Entry
  <1>3. s[k].Layer # l
    BY <1>2 DEF Spares
  <1>4. \A h \in DOMAIN t : t[h] = s[k] => EntryAt(C, n, h) = e
    BY <1>1, <1>2 DEF EntryAt
  <1>5. k \in Nat
    BY PlaceTypes
  <1>6. CASE k \in DOMAIN t /\ t[k] = s[k]
    BY <1>4, <1>6
  <1>7. ASSUME k = Len(s), NEW h \in DOMAIN t, t[h] = s[k], h \in DOMAIN s, s[h].Layer = l
        PROVE  \E g \in DOMAIN t : /\ EntryAt(C, n, g) = e
                                   /\ Ahead(n, k, a, c + 1) => Ahead(n, g, a, c + 1)
    <2>1. h \in Nat
      BY <1>7, PlaceTypes
    <2>2. ~(n = a /\ h <= c)
      <3>1. SUFFICES ASSUME n = a, h <= c PROVE FALSE
        OBVIOUS
      <3>2. e # Entry(B[a].Phase, Last(B[a].Bindings))
        BY <1>7, <3>1 DEF Spares
      <3>3. Last(B[a].Bindings) = s[k]
        BY <1>7, <3>1 DEF Last
      <3>4. QED
        BY <1>2, <3>1, <3>2, <3>3
    <2>3. Ahead(n, k, a, c + 1) => Ahead(n, h, a, c + 1)
      BY <1>1, <1>5, <2>1, <2>2 DEF Ahead
    <2>4. QED
      BY <1>4, <1>7, <2>3
  <1>8. QED
    <2>1. \/ k \in DOMAIN t /\ t[k] = s[k]
          \/ /\ k = Len(s)
             /\ \E m \in DOMAIN t : t[m] = s[k] /\ m \in DOMAIN s /\ s[m].Layer = l
      <3> HIDE DEF s, t
      <3>1. k \in DOMAIN s
        BY DEF s
      <3>2. QED
        BY <1>1, <1>3, <3>1, LeavesPlaces
    <2>2. QED
      BY <1>6, <1>7, <2>1

(* So what holds of the place holds of what is still due.                  *)
LEMMA RemovePasses ==
    ASSUME NEW B \in Seq(PhaseBucket), NEW C \in Seq(PhaseBucket), NEW l,
           SamePhases(B, C), RemovesFrom(B, C, l), NEW due, NEW after, NEW called,
           NEW a \in Nat, NEW c \in Nat, Spares(B, due, after, l, a, c)
    PROVE  /\ CalledOrAhead(B, due, called, a, c + 1) => CalledOrAhead(C, after, called, a, c + 1)
           /\ StillThere(B, due) => StillThere(C, after)
           /\ NeverAgain(B, due, called, a, c + 1) => NeverAgain(C, after, called, a, c + 1)
  <1>1. after \subseteq due /\ DOMAIN C = DOMAIN B
    BY DEF Spares, SamePhases
  <1>0. StayAhead(B, C, after, a, c + 1)
    BY RemovePlaces
  <1>2. ASSUME StillThere(B, due), NEW e \in after
        PROVE  \E n \in DOMAIN C : \E h \in DOMAIN C[n].Bindings : EntryAt(C, n, h) = e
    <2>1. PICK n \in DOMAIN B : \E k \in DOMAIN B[n].Bindings : EntryAt(B, n, k) = e
      BY <1>1, <1>2 DEF StillThere
    <2>2. PICK k \in DOMAIN B[n].Bindings : EntryAt(B, n, k) = e
      BY <2>1
    <2>3. PICK h \in DOMAIN C[n].Bindings :
              EntryAt(C, n, h) = e /\ (Ahead(n, k, a, c + 1) => Ahead(n, h, a, c + 1))
      BY <1>0, <1>2, <2>2 DEF StayAhead
    <2>4. n \in DOMAIN C
      BY <1>1
    <2>5. QED
      BY <2>3, <2>4
  <1>3. ASSUME CalledOrAhead(B, due, called, a, c + 1), NEW e \in after, e \notin ToSet(called)
        PROVE  \E n \in DOMAIN C : \E h \in DOMAIN C[n].Bindings :
                  EntryAt(C, n, h) = e /\ Ahead(n, h, a, c + 1)
    <2>1. PICK n \in DOMAIN B : \E k \in DOMAIN B[n].Bindings :
              EntryAt(B, n, k) = e /\ Ahead(n, k, a, c + 1)
      BY <1>1, <1>3 DEF CalledOrAhead
    <2>2. PICK k \in DOMAIN B[n].Bindings : EntryAt(B, n, k) = e /\ Ahead(n, k, a, c + 1)
      BY <2>1
    <2>3. PICK h \in DOMAIN C[n].Bindings :
              EntryAt(C, n, h) = e /\ (Ahead(n, k, a, c + 1) => Ahead(n, h, a, c + 1))
      BY <1>0, <1>3, <2>2 DEF StayAhead
    <2>4. n \in DOMAIN C
      BY <1>1
    <2>5. QED
      BY <2>2, <2>3, <2>4
  <1>4. ASSUME NeverAgain(B, due, called, a, c + 1), NEW m \in DOMAIN called, called[m] \in after,
               NEW n \in DOMAIN C, NEW k \in DOMAIN C[n].Bindings, EntryAt(C, n, k) = called[m],
               Ahead(n, k, a, c + 1)
        PROVE  FALSE
    <2> DEFINE s == B[n].Bindings
               t == C[n].Bindings
    <2>1. /\ s \in Seq(BindingPointer) /\ t \in Seq(BindingPointer) /\ Leaves(s, t, l)
          /\ C[n].Phase = B[n].Phase /\ n \in DOMAIN B
      <3>1. n \in DOMAIN B /\ C[n].Phase = B[n].Phase /\ Leaves(s, t, l)
        BY <1>4 DEF SamePhases, RemovesFrom
      <3>2. QED
        BY <1>4, <3>1, BucketTypes
    <2>2. PICK h \in DOMAIN s : k <= h /\ t[k] = s[h]
      <3> HIDE DEF s, t
      <3>1. k \in DOMAIN t
        BY <1>4 DEF t
      <3>2. QED
        BY <2>1, <3>1, LeavesPlaces
    <2>3. EntryAt(B, n, h) = called[m]
      BY <1>4, <2>1, <2>2 DEF EntryAt
    <2>4. k \in Nat /\ h \in Nat /\ n \in Nat
      BY <1>4, <2>1, <2>2, PlaceTypes, BucketTypes
    <2>5. Ahead(n, h, a, c + 1)
      BY <1>4, <2>2, <2>4 DEF Ahead
    <2>6. QED
      BY <1>1, <1>4, <2>1, <2>2, <2>3, <2>5 DEF NeverAgain
  <1>5. ASSUME NeverAgain(B, due, called, a, c + 1), NEW m \in DOMAIN called, called[m] \in after
        PROVE  \A n \in DOMAIN called : called[n] = called[m] => n = m
    BY <1>1, <1>5 DEF NeverAgain
  <1>6. QED
    BY <1>2, <1>3, <1>4, <1>5 DEF StillThere, CalledOrAhead, NeverAgain

(* The frame's own steps.  What is called is no longer ahead.              *)
LEMMA CallPasses ==
    ASSUME NEW B \in Seq(PhaseBucket), Sorted(B), NEW due, NEW called \in Seq(BindingEntry),
           NEW a \in DOMAIN B, NEW b \in DOMAIN B[a].Bindings, EntryAt(B, a, b) \in BindingEntry
    PROVE  LET now == Append(called, EntryAt(B, a, b))
           IN  /\ CalledOrAhead(B, due, called, a, b) => CalledOrAhead(B, due, now, a, b + 1)
               /\ InOrder(B, called, a) => InOrder(B, now, a)
               /\ NeverAgain(B, due, called, a, b) /\ Single(B)
                     => NeverAgain(B, due, now, a, b + 1)
  <1> DEFINE x == EntryAt(B, a, b)
             now == Append(called, x)
  <1>1. PICK N \in Nat : N = Len(called) /\ DOMAIN called = 1..N
    OBVIOUS
  <1>2. DOMAIN now = 1..N + 1 /\ now[N + 1] = x /\ \A m \in 1..N : now[m] = called[m]
    <2> HIDE DEF x
    <2>1. QED
      BY <1>1
  <1>3. /\ a \in Nat /\ b \in Nat
        /\ \A n \in DOMAIN B : n \in Nat /\ B[n].Phase \in Nat
        /\ \A n \in DOMAIN B : \A k \in DOMAIN B[n].Bindings : k \in Nat
    BY BucketTypes, PlaceTypes
  <1>4. x.Phase = B[a].Phase
    BY DEF EntryAt, Entry
  <1> HIDE DEF x, now
  <1>5. x \in ToSet(now) /\ ToSet(called) \subseteq ToSet(now)
    <2>1. N + 1 \in DOMAIN now /\ \A m \in 1..N : m \in DOMAIN now
      BY <1>2
    <2>2. QED
      BY <1>1, <1>2, <2>1 DEF ToSet
  <1>6. ASSUME CalledOrAhead(B, due, called, a, b) PROVE CalledOrAhead(B, due, now, a, b + 1)
    <2>1. ASSUME NEW e \in due, e \notin ToSet(now)
          PROVE  \E n \in DOMAIN B : \E k \in DOMAIN B[n].Bindings :
                    EntryAt(B, n, k) = e /\ Ahead(n, k, a, b + 1)
      <3>1. PICK n \in DOMAIN B : \E k \in DOMAIN B[n].Bindings :
                    EntryAt(B, n, k) = e /\ Ahead(n, k, a, b)
        BY <1>5, <1>6, <2>1 DEF CalledOrAhead
      <3>2. PICK k \in DOMAIN B[n].Bindings : EntryAt(B, n, k) = e /\ Ahead(n, k, a, b)
        BY <3>1
      <3>3. ~(n = a /\ k = b)
        BY <1>5, <2>1, <3>2 DEF x
      <3>4. k \in Nat /\ n \in Nat
        BY <1>3
      <3>5. Ahead(n, k, a, b + 1)
        BY <1>3, <3>2, <3>3, <3>4 DEF Ahead
      <3>6. QED
        BY <3>2, <3>5
    <2>2. QED
      BY <2>1 DEF CalledOrAhead
  <1>7. ASSUME InOrder(B, called, a) PROVE InOrder(B, now, a)
    <2>1. ASSUME NEW m \in 1..N PROVE called[m].Phase <= x.Phase /\ called[m].Phase \in Nat
      <3>1. PICK n \in DOMAIN B : n <= a /\ B[n].Phase = called[m].Phase
        BY <1>1, <1>7 DEF InOrder
      <3>2. n \in Nat /\ (n = a \/ n < a)
        BY <1>3, <3>1
      <3>3. n < a => B[n].Phase < B[a].Phase
        BY DEF Sorted
      <3>4. QED
        BY <1>3, <1>4, <3>1, <3>2, <3>3
    <2>2. x.Phase <= x.Phase
      BY <1>3, <1>4
    <2>3. ASSUME NEW m \in 1..N + 1, NEW n \in 1..N + 1, m <= n
          PROVE  now[m].Phase <= now[n].Phase
      <3>1. CASE n \in 1..N
        <4>1. m \in 1..N
          BY <2>3, <3>1
        <4>2. called[m].Phase <= called[n].Phase
          BY <1>1, <1>7, <2>3, <3>1, <4>1 DEF InOrder
        <4>3. QED
          BY <1>2, <3>1, <4>1, <4>2
      <3>2. CASE n = N + 1
        <4>1. m \in 1..N \/ m = N + 1
          OBVIOUS
        <4>2. QED
          BY <1>2, <2>1, <2>2, <3>2, <4>1
      <3>3. QED
        BY <3>1, <3>2
    <2>4. ASSUME NEW m \in 1..N + 1
          PROVE  \E n \in DOMAIN B : n <= a /\ B[n].Phase = now[m].Phase
      <3>1. CASE m \in 1..N
        BY <1>1, <1>2, <1>7, <3>1 DEF InOrder
      <3>2. CASE m = N + 1
        <4>1. a <= a
          BY <1>3
        <4>2. QED
          BY <1>2, <1>4, <3>2, <4>1
      <3>3. QED
        BY <3>1, <3>2
    <2>5. QED
      BY <1>2, <2>3, <2>4 DEF InOrder
  <1>8. ASSUME NeverAgain(B, due, called, a, b), Single(B)
        PROVE  NeverAgain(B, due, now, a, b + 1)
    <2>1. Ahead(a, b, a, b)
      BY <1>3 DEF Ahead
    <2>2. x \in due => \A m \in 1..N : called[m] # x
      <3>1. SUFFICES ASSUME x \in due, NEW m \in 1..N, called[m] = x PROVE FALSE
        OBVIOUS
      <3>2. \A n \in DOMAIN B : \A k \in DOMAIN B[n].Bindings :
                EntryAt(B, n, k) = called[m] => ~Ahead(n, k, a, b)
        BY <1>1, <1>8, <3>1 DEF NeverAgain
      <3>3. QED
        BY <2>1, <3>1, <3>2 DEF x
    <2>3. ASSUME NEW m \in 1..N + 1, now[m] \in due, NEW n \in 1..N + 1, now[n] = now[m]
          PROVE  n = m
      <3>1. (m \in 1..N \/ m = N + 1) /\ (n \in 1..N \/ n = N + 1)
        OBVIOUS
      <3>2. CASE m \in 1..N /\ n \in 1..N
        BY <1>1, <1>2, <1>8, <2>3, <3>2 DEF NeverAgain
      <3>3. CASE m = N + 1 /\ n \in 1..N
        BY <1>2, <2>2, <2>3, <3>3
      <3>4. CASE m \in 1..N /\ n = N + 1
        BY <1>2, <2>2, <2>3, <3>4
      <3>5. QED
        BY <3>1, <3>2, <3>3, <3>4
    <2>4. ASSUME NEW m \in 1..N + 1, now[m] \in due, NEW n \in DOMAIN B,
                 NEW k \in DOMAIN B[n].Bindings, EntryAt(B, n, k) = now[m]
          PROVE  ~Ahead(n, k, a, b + 1)
      <3>1. n \in Nat /\ k \in Nat
        BY <1>3
      <3>2. CASE m \in 1..N
        <4>1. ~Ahead(n, k, a, b)
          BY <1>1, <1>2, <1>8, <2>4, <3>2 DEF NeverAgain
        <4>2. QED
          BY <1>3, <3>1, <4>1 DEF Ahead
      <3>3. CASE m = N + 1
        <4>1. EntryAt(B, n, k) = x /\ EntryAt(B, a, b) = x /\ x \in due
          BY <1>2, <2>4, <3>3 DEF x
        <4>2. n = a /\ k = b
          BY <1>8, <4>1 DEF Single
        <4>3. QED
          BY <1>3, <4>2 DEF Ahead
      <3>4. m \in 1..N \/ m = N + 1
        OBVIOUS
      <3>5. QED
        BY <3>2, <3>3, <3>4
    <2>5. QED
      BY <1>2, <2>3, <2>4 DEF NeverAgain
  <1>9. QED
    BY <1>6, <1>7, <1>8 DEF now, x

(* The end of a bucket, and the beginning of the next.                     *)
LEMMA TurnPasses ==
    ASSUME NEW B \in Seq(PhaseBucket), NEW due, NEW called,
           NEW a \in DOMAIN B, NEW b \in Nat, Len(B[a].Bindings) < b
    PROVE  /\ CalledOrAhead(B, due, called, a, b) => CalledOrAhead(B, due, called, a + 1, 1)
           /\ InOrder(B, called, a) => InOrder(B, called, a + 1)
           /\ NeverAgain(B, due, called, a, b) => NeverAgain(B, due, called, a + 1, 1)
  <1>1. a \in Nat /\ \A n \in DOMAIN B : n \in Nat
    BY BucketTypes
  <1>2. \A n \in DOMAIN B : \A k \in DOMAIN B[n].Bindings : k \in Nat /\ 1 <= k
    BY PlaceTypes
  <1>3. \A n \in DOMAIN B : \A k \in DOMAIN B[n].Bindings :
            Ahead(n, k, a, b) <=> Ahead(n, k, a + 1, 1)
    <2>1. ASSUME NEW n \in DOMAIN B, NEW k \in DOMAIN B[n].Bindings
          PROVE  Ahead(n, k, a, b) <=> Ahead(n, k, a + 1, 1)
      <3>1. n = a => k < b
        <4>1. PICK M \in Nat : M = Len(B[n].Bindings)
          BY BucketTypes
        <4>2. k \in Nat /\ k <= M
          BY <4>1, PlaceTypes
        <4>3. n = a => M < b
          BY <4>1
        <4>4. QED
          BY <4>1, <4>2, <4>3
      <3>2. QED
        BY <1>1, <1>2, <3>1 DEF Ahead
    <2>2. QED
      BY <2>1
  <1>4. InOrder(B, called, a) => InOrder(B, called, a + 1)
    <2>1. \A n \in DOMAIN B : n <= a => n <= a + 1
      BY <1>1
    <2>2. QED
      BY <2>1 DEF InOrder
  <1>5. CalledOrAhead(B, due, called, a, b) => CalledOrAhead(B, due, called, a + 1, 1)
    BY <1>3 DEF CalledOrAhead
  <1>6. NeverAgain(B, due, called, a, b) => NeverAgain(B, due, called, a + 1, 1)
    BY <1>3 DEF NeverAgain
  <1>7. QED
    BY <1>4, <1>5, <1>6

(* One element of a set at most, one place.                                *)
LEMMA AtMostOne ==
    ASSUME NEW S, NEW s \in Seq(S), NEW T, Occurs(s, T) <= 1,
           NEW k \in DOMAIN s, NEW h \in DOMAIN s, s[k] \in T, s[h] \in T
    PROVE  k = h
  <1>1. k \in Places(s, T) /\ h \in Places(s, T)
    BY DEF Places
  <1>2. IsFiniteSet(Places(s, T)) /\ Occurs(s, T) \in Nat /\ Occurs(s, T) # 0
    BY OccursType
  <1>3. Cardinality(Places(s, T)) = 1
    BY <1>2 DEF Occurs
  <1>4. \E x : Places(s, T) = {x}
    BY <1>2, <1>3, FS_Singleton
  <1>5. QED
    BY <1>1, <1>4

(* A client that adds and binds once has each of its bindings in one place. *)
Doubling(broken) == {"add_once", "bind_once"} \cap broken # {}
Singles == ~Doubling(misuse) => Single(Phase_Buckets)

LEMMA EntriesSingle == Registered /\ OwedOnce => Singles
  <1> SUFFICES ASSUME Registered, OwedOnce, ~Doubling(misuse) PROVE Single(Phase_Buckets)
    BY DEF Singles
  <1>1. /\ Typed /\ Sorted(Phase_Buckets) /\ EntriesOwned /\ Balanced
        /\ "bind_once" \notin misuse /\ \A l \in Layer : Owed(l) <= 1
    BY DEF Registered, Torn, PhasesSorted, Doubling, OwedOnce
  <1>2. Phase_Buckets \in Seq(PhaseBucket) /\ stack \in Seq(StackFrame) /\ Layers \in Seq(Layer)
    BY <1>1 DEF Typed, TypeOK
  <1>3. SUFFICES ASSUME NEW n \in DOMAIN Phase_Buckets, NEW m \in DOMAIN Phase_Buckets,
                        NEW k \in DOMAIN Phase_Buckets[n].Bindings,
                        NEW h \in DOMAIN Phase_Buckets[m].Bindings,
                        EntryAt(Phase_Buckets, n, k) = EntryAt(Phase_Buckets, m, h)
                 PROVE  n = m /\ k = h
    BY DEF Single
  <1>4. /\ Phase_Buckets[n].Phase = Phase_Buckets[m].Phase
        /\ Phase_Buckets[n].Bindings[k].Layer = Phase_Buckets[m].Bindings[h].Layer
        /\ Phase_Buckets[n].Bindings[k].Index = Phase_Buckets[m].Bindings[h].Index
    BY <1>3 DEF EntryAt, Entry
  <1>5. n = m
    <2>1. n \in Nat /\ m \in Nat /\ Phase_Buckets[n].Phase \in Nat
      BY <1>2, BucketTypes
    <2>2. (n < m \/ m < n) => Phase_Buckets[n].Phase # Phase_Buckets[m].Phase
      <3>1. n < m => Phase_Buckets[n].Phase < Phase_Buckets[m].Phase
        BY <1>1 DEF Sorted
      <3>2. m < n => Phase_Buckets[m].Phase < Phase_Buckets[n].Phase
        BY <1>1 DEF Sorted
      <3>3. QED
        BY <1>4, <2>1, <3>1, <3>2
    <2>3. QED
      BY <1>4, <2>1, <2>2
  <1> DEFINE s == Phase_Buckets[n].Bindings
             l == s[k].Layer
             x == s[k].Index
             p == Phase_Buckets[n].Phase
  <1>6. s \in Seq(BindingPointer) /\ BindingsOf(Phase_Buckets, p) = s /\ p \in Phase
    BY <1>1, BucketIs
  <1>7. s[k] \in BindingPointer /\ s[h] \in BindingPointer /\ h \in DOMAIN s
    BY <1>5, <1>6
  <1>8. l \in Layer /\ s[k] \in Mine(l, x) /\ s[h] \in Mine(l, x)
    BY <1>4, <1>5, <1>7 DEF Mine, BindingPointer
  <1>9. x \in DOMAIN Bindings[l] /\ Bindings[l][x] = p
    BY <1>1, <1>6 DEF EntriesOwned
  <1>10. Occurs(s, Mine(l, x)) <= 1
    <2>1. Had(l, x) <= Owed(l) /\ Owed(l) <= 1
      BY <1>1, <1>8, <1>9 DEF Balanced
    <2>2. Had(l, x) = Occurs(s, Mine(l, x)) + Registering(stack, l, x)
      BY <1>6, <1>9 DEF Had
    <2>3. Registering(stack, l, x) \in Nat
      BY RegisteringType
    <2> HIDE DEF s, l, x
    <2>4. Occurs(s, Mine(l, x)) \in Nat
      BY <1>6, OccursType
    <2>5. Owed(l) \in Nat
      <3>1. Occurs(Layers, {l}) \in Nat /\ Occurs(stack, Removing(l)) \in Nat
        BY <1>2, OccursType
      <3>2. QED
        BY <3>1 DEF Owed
    <2>6. QED
      BY <2>1, <2>2, <2>3, <2>4, <2>5
  <1>11. k \in DOMAIN s
    OBVIOUS
  <1> HIDE DEF s, l, x
  <1>12. k = h
    BY <1>6, <1>7, <1>8, <1>10, <1>11, AtMostOne
  <1>13. QED
    BY <1>5, <1>12

(* A phase callback stays in progress until it returns itself.             *)
LEMMA PopStays ==
    ASSUME Typed, PhaseFrames(stack, "phases"), Pop, stack # << >>, Top.fn # "phase"
    PROVE  stack' # << >>
  <1>1. PICK N \in Nat \ {0} : N = Len(stack)
    BY PopReturns
  <1>2. DOMAIN stack' = 1..N - 1
    BY <1>1, PopReturns
  <1>3. N # 1
    BY <1>1 DEF PhaseFrames, Top
  <1>4. 1 \in DOMAIN stack'
    BY <1>1, <1>2, <1>3
  <1>5. QED
    BY <1>4

LEMMA CallStays ==
    ASSUME NEW s, NEW t \in Seq(StackFrame), NEW fn, NEW l, s \in Seq(StackFrame), Calls(s, t, fn, l)
    PROVE  t # << >>
  BY DEF Calls

LEMMA PhaseStays ==
    ASSUME Typed, PhaseFrames(stack, pc), pc = "phases", [Next]_vars, stack # << >>, ~ReturnPhase
    PROVE  stack' # << >>
  <1>1. stack \in Seq(StackFrame) /\ stack' \in Seq(StackFrame) /\ PhaseFrames(stack, "phases")
    BY TypedNext DEF Typed, TypeOK
  <1>2. ASSUME Pop, Top.fn # "phase" PROVE stack' # << >>
    BY <1>1, <1>2, PopStays
  <1>3. ASSUME NEW fn, NEW l, Calls(stack, stack', fn, l) PROVE stack' # << >>
    BY <1>1, <1>3, CallStays
  <1>4. CASE ClientCall
    <2>1. ASSUME NEW l \in Layer, add_layer(l) PROVE stack' # << >>
      BY <1>3, <2>1, ClientPushes
    <2>2. ASSUME application_event_callback PROVE stack' # << >>
      BY <1>3, <2>2, ClientPushes
    <2>3. ASSUME NEW l \in Layer, remove_layer(l) PROVE stack' # << >>
      BY <1>3, <2>3, DetachCalls DEF remove_layer
    <2>4. stack' = stack \/ (\E l \in Layer : add_layer(l)) \/ application_event_callback
          \/ (\E l \in Layer : remove_layer(l))
      BY <1>4 DEF ClientCall, SetDestroy, bind_layer_phase, bind_phase_ctx, Stop
    <2>5. QED
      BY <2>1, <2>2, <2>3, <2>4
  <1>5. CASE Step
    <2>1. CASE RegisterBinding
      BY <1>1, <2>1, RegisterReturns
    <2>2. CASE CallOnAttach
      BY <1>1, <2>2, AttachTops
    <2>3. CASE ReturnOnAttach \/ EndDispatch \/ ReturnOnDettach \/ ReturnTeardown
      <3>1. Top.fn # "phase" /\ (Pop \/ stack' = stack)
        BY <2>3 DEF ReturnOnAttach, EndDispatch, ReturnOnDettach, ReturnTeardown, In, Fails
      <3>2. QED
        BY <1>2, <3>1
    <2>4. CASE ReturnOnEvent
      <3>1. \A n \in DOMAIN stack \ DOMAIN stack' : stack[n].fn \in {"OnEvent", "dispatch"}
        BY <2>4, OnEventReturns
      <3>2. 1 \in DOMAIN stack /\ stack[1].fn = "phase"
        BY <1>1 DEF PhaseFrames
      <3>3. 1 \in DOMAIN stack'
        BY <3>1, <3>2
      <3>4. QED
        BY <3>3
    <2>5. CASE CallOnEvent
      <3>1. CASE Fails("freed")
        BY <3>1 DEF Fails
      <3>2. CASE ~Fails("freed")
        BY <1>3, <2>5, <3>2, OnEventCalls
      <3>3. QED
        BY <3>1, <3>2
    <2>6. ~(RunApplication \/ BeginFrame \/ CallPhase \/ NextBucket \/ EndPhases \/ Sweep
            \/ EndSweep \/ EndRun \/ DestroyApplication \/ Teardown \/ EndTeardown)
      BY DEF RunApplication, BeginFrame, CallPhase, NextBucket, EndPhases, Sweep, EndSweep, EndRun,
         DestroyApplication, Teardown, EndTeardown, At
    <2>7. QED
      BY <1>5, <2>1, <2>2, <2>3, <2>4, <2>5, <2>6 DEF Step
  <1>6. CASE UNCHANGED vars
    BY <1>6 DEF vars
  <1>7. QED
    BY <1>4, <1>5, <1>6 DEF Next, Ended

(* The steps that matter to the frame, and that the others do not.         *)
LEMMA FrameSteps ==
    ASSUME Typed, PhaseFrames(stack, pc), TeardownFrames, pc = "phases", [Next]_vars
    PROVE  \/ CallPhase /\ ~Fails("bucket") /\ ~Fails("binding")
           \/ ReturnPhase \/ NextBucket \/ EndPhases
           \/ ReturnOnDettach /\ ~Fails("binding")
           \/ RegisterBinding
           \/ \E p \in Phase, ctx \in Context : bind_phase_ctx(p, ctx)
           \/ UNCHANGED <<Phase_Buckets, pass, i, j>> /\ (stack' = << >> <=> stack = << >>)
  <1>1. SUFFICES ASSUME ~(CallPhase /\ ~Fails("bucket") /\ ~Fails("binding")),
                        ~ReturnPhase, ~NextBucket, ~EndPhases, ~RegisterBinding,
                        ~(ReturnOnDettach /\ ~Fails("binding")),
                        ~\E p \in Phase, ctx \in Context : bind_phase_ctx(p, ctx)
                 PROVE  UNCHANGED <<Phase_Buckets, pass, i, j>> /\ (stack' = << >> <=> stack = << >>)
    OBVIOUS
  <1>2. Phase_Buckets' = Phase_Buckets
    BY <1>1, BucketsChange
  <1>3. ASSUME NEW kind, Fails(kind) PROVE UNCHANGED <<pass, i, j, stack>>
    BY <1>3 DEF Fails
  <1>4. CASE ClientCall
    BY <1>2, <1>4, ClientLeaves, PhaseStays, <1>1
  <1>5. CASE Step /\ stack # << >>
    <2>0. ~ReturnTeardown
      <3>1. In("teardown") => Len(stack) \in DOMAIN stack /\ stack[Len(stack)].fn = "teardown"
        BY <1>5, TopOfStack DEF In, Top, Typed
      <3>2. QED
        BY <3>1 DEF ReturnTeardown, TeardownFrames
    <2>1. UNCHANGED <<pass, i, j>>
      BY <1>1, <1>3, <2>0, <1>5 DEF Step, RegisterBinding, CallOnAttach, ReturnOnAttach,
         ReturnOnDettach, CallOnEvent, ReturnOnEvent, EndDispatch, RunApplication, BeginFrame,
         CallPhase, ReturnPhase, NextBucket, EndPhases, Sweep, EndSweep, EndRun,
         DestroyApplication, Teardown, ReturnTeardown, EndTeardown, In, At, client
    <2>2. QED
      BY <1>1, <1>2, <1>5, <2>1, PhaseStays
  <1>6. CASE Step /\ stack = << >>
    <2>1. CallPhase
      BY <1>1, <1>6 DEF Step, RegisterBinding, CallOnAttach, ReturnOnAttach,
         ReturnOnDettach, CallOnEvent, ReturnOnEvent, EndDispatch, RunApplication, BeginFrame,
         ReturnPhase, NextBucket, EndPhases, Sweep, EndSweep, EndRun,
         DestroyApplication, Teardown, ReturnTeardown, EndTeardown, In, At
    <2>2. QED
      BY <1>1, <1>2, <1>3, <2>1
  <1>7. CASE UNCHANGED vars
    BY <1>7 DEF vars, registry
  <1>8. QED
    BY <1>4, <1>5, <1>6, <1>7 DEF Next, Ended

(* Where the frame is in its bucket: past the binding it is calling.       *)
Reached(s, b) == IF s = << >> THEN b ELSE b + 1

(* A frame at place b of bucket a, of whose bindings due are to be called. *)
Passing(B, due, called, a, b, broken) ==
    /\ CalledOrAhead(B, due, called, a, b)
    /\ StillThere(B, due)
    /\ InOrder(B, called, a)
    /\ ~Doubling(broken) => NeverAgain(B, due, called, a, b)

(* What holds between two steps of a frame.                                *)
FramePass ==
    pc = "phases" /\ "phases_first" \notin misuse =>
        Passing(Phase_Buckets, pass.due, pass.calls, i, Reached(stack, j), misuse)

(* The four ways in which such a frame goes on, and how it begins.         *)
LEMMA PassingSame ==
    ASSUME NEW B, NEW C, SamePhases(B, C), SameBindings(B, C), NEW due, NEW called, NEW a, NEW b,
           NEW broken, NEW after, broken \subseteq after, Passing(B, due, called, a, b, broken)
    PROVE  Passing(C, due, called, a, b, after)
  <1>1. /\ CalledOrAhead(B, due, called, a, b) /\ StillThere(B, due) /\ InOrder(B, called, a)
        /\ ~Doubling(after) => NeverAgain(B, due, called, a, b)
    BY DEF Passing, Doubling
  <1>2. /\ Extends(B, C)
        /\ NeverAgain(B, due, called, a, b) => NeverAgain(C, due, called, a, b)
    BY SamePasses
  <1>3. CalledOrAhead(C, due, called, a, b) /\ StillThere(C, due)
    BY <1>1, <1>2, ExtendKeeps
  <1>4. InOrder(C, called, a)
    BY <1>1, OrderKept
  <1>5. QED
    BY <1>1, <1>2, <1>3, <1>4 DEF Passing

LEMMA PassingExtends ==
    ASSUME NEW B, NEW C, SamePhases(B, C), Extends(B, C), NEW due, NEW called, NEW a, NEW b,
           NEW broken, NEW after, broken \subseteq after, Passing(B, due, called, a, b, broken),
           ~Doubling(after) => Single(C)
    PROVE  Passing(C, due, called, a, b, after)
  <1>1. /\ CalledOrAhead(B, due, called, a, b) /\ StillThere(B, due) /\ InOrder(B, called, a)
        /\ ~Doubling(after) => NeverAgain(B, due, called, a, b)
    BY DEF Passing, Doubling
  <1>2. ~Doubling(after) => NeverAgain(C, due, called, a, b)
    BY <1>1, ExtendPasses
  <1>3. CalledOrAhead(C, due, called, a, b) /\ StillThere(C, due)
    BY <1>1, ExtendKeeps
  <1>4. InOrder(C, called, a)
    BY <1>1, OrderKept
  <1>5. QED
    BY <1>2, <1>3, <1>4 DEF Passing

LEMMA PassingRemoves ==
    ASSUME NEW B \in Seq(PhaseBucket), NEW C \in Seq(PhaseBucket), NEW l,
           SamePhases(B, C), RemovesFrom(B, C, l), NEW due, NEW rest, NEW called,
           NEW a \in Nat, NEW c \in Nat, Spares(B, due, rest, l, a, c),
           NEW broken, NEW after, broken \subseteq after, Passing(B, due, called, a, c + 1, broken)
    PROVE  Passing(C, rest, called, a, c + 1, after)
  <1>1. /\ CalledOrAhead(B, due, called, a, c + 1) /\ StillThere(B, due) /\ InOrder(B, called, a)
        /\ ~Doubling(after) => NeverAgain(B, due, called, a, c + 1)
    BY DEF Passing, Doubling
  <1>2. /\ CalledOrAhead(C, rest, called, a, c + 1) /\ StillThere(C, rest)
        /\ ~Doubling(after) => NeverAgain(C, rest, called, a, c + 1)
    BY <1>1, RemovePasses
  <1>3. InOrder(C, called, a)
    BY <1>1, OrderKept
  <1>4. QED
    BY <1>2, <1>3 DEF Passing

LEMMA PassingBegins ==
    ASSUME NEW B \in Seq(PhaseBucket), NEW due, NEW broken,
           \A e \in due : \E n \in DOMAIN B : \E k \in DOMAIN B[n].Bindings : EntryAt(B, n, k) = e
    PROVE  Passing(B, due, << >>, 1, 1, broken)
  <1>1. \A n \in DOMAIN B : \A k \in DOMAIN B[n].Bindings : Ahead(n, k, 1, 1)
    <2>1. ASSUME NEW n \in DOMAIN B, NEW k \in DOMAIN B[n].Bindings PROVE Ahead(n, k, 1, 1)
      <3>1. n \in Nat /\ 1 <= n
        OBVIOUS
      <3>2. k \in Nat /\ 1 <= k
        BY PlaceTypes
      <3>3. QED
        BY <3>1, <3>2 DEF Ahead
    <2>2. QED
      BY <2>1
  <1>2. StillThere(B, due)
    BY DEF StillThere
  <1>3. CalledOrAhead(B, due, << >>, 1, 1)
    BY <1>1, <1>2 DEF StillThere, CalledOrAhead
  <1>4. QED
    BY <1>2, <1>3 DEF Passing, InOrder, NeverAgain

(* What a phase callback's add_layer, bind_phase_ctx and remove_layer do   *)
(* to the buckets, when no phase appears.                                  *)
LEMMA RegisterExtends ==
    ASSUME Registered, RegisterBinding, pc = "phases", "phases_first" \notin misuse
    PROVE  SamePhases(Phase_Buckets, Phase_Buckets') /\ Extends(Phase_Buckets, Phase_Buckets')
  <1> DEFINE p == Bindings[Top.layer][Top.i]
             b == [Layer |-> Top.layer, Index |-> Top.i, Block |-> Block[Top.layer]]
  <1>1. Typed /\ Sorted(Phase_Buckets) /\ BucketKept
    BY DEF Registered, Torn, PhasesSorted
  <1>2. Phase_Buckets \in Seq(PhaseBucket) /\ b \in BindingPointer
    BY <1>1, RegisterWrites DEF Typed, TypeOK
  <1>3. p \in Phases
    <2>1. Top.layer \in Layer /\ stack # << >> /\ Top.fn = "register" /\ Top.i \in DOMAIN Bindings[Top.layer]
      BY <1>1, RegisterWrites
    <2>2. Adds(stack, Top.layer) = 1
      BY <2>1 DEF Adds, Top
    <2>3. ToSet(Bindings[Top.layer]) \subseteq Phases
      BY <1>1, <2>1, <2>2 DEF BucketKept
    <2>4. QED
      BY <2>1, <2>3 DEF ToSet
  <1>4. PICK k \in Slots(Phase_Buckets, p) : Phase_Buckets' = register_binding(Phase_Buckets, k, p, b)
    BY DEF RegisterBinding
  <1> HIDE DEF p, b
  <1>5. HasPhase(Phase_Buckets, k, p)
    BY <1>1, <1>3, HasItsPhase
  <1>6. k \in DOMAIN Phase_Buckets /\ Phase_Buckets[k] \in PhaseBucket
    BY <1>2, <1>4, <1>5 DEF HasPhase, Slots
  <1> DEFINE B == Phase_Buckets[k]
             P == push_phase_bucket(B, b)
  <1>7. P.Phase = B.Phase
    BY <1>2, <1>6, PushKeepsBucket
  <1>8. P.Bindings = Append(B.Bindings, b) /\ B.Bindings \in Seq(BindingPointer)
    BY <1>6 DEF push_phase_bucket, PhaseBucket
  <1>9. Phase_Buckets' = [Phase_Buckets EXCEPT ![k] = P]
    BY <1>4, <1>5 DEF register_binding
  <1> HIDE DEF P
  <1>10. /\ DOMAIN Phase_Buckets' = DOMAIN Phase_Buckets /\ Phase_Buckets'[k] = P
         /\ \A n \in DOMAIN Phase_Buckets : n # k => Phase_Buckets'[n] = Phase_Buckets[n]
    BY <1>6, <1>9
  <1>11. SamePhases(Phase_Buckets, Phase_Buckets')
    BY <1>7, <1>10 DEF SamePhases
  <1>12. \A h \in DOMAIN B.Bindings : h \in DOMAIN P.Bindings /\ P.Bindings[h] = B.Bindings[h]
    BY <1>2, <1>8
  <1>13. \A n \in DOMAIN Phase_Buckets : \A h \in DOMAIN Phase_Buckets[n].Bindings :
            /\ h \in DOMAIN Phase_Buckets'[n].Bindings
            /\ Phase_Buckets'[n].Bindings[h] = Phase_Buckets[n].Bindings[h]
    <2>1. ASSUME NEW n \in DOMAIN Phase_Buckets, NEW h \in DOMAIN Phase_Buckets[n].Bindings
          PROVE  /\ h \in DOMAIN Phase_Buckets'[n].Bindings
                 /\ Phase_Buckets'[n].Bindings[h] = Phase_Buckets[n].Bindings[h]
      <3>1. CASE n = k
        BY <1>10, <1>12, <3>1
      <3>2. CASE n # k
        BY <1>10, <3>2
      <3>3. QED
        BY <3>1, <3>2
    <2>2. QED
      BY <2>1
  <1>14. QED
    BY <1>11, <1>13 DEF Extends

LEMMA ContextStays ==
    ASSUME Registered, NEW p \in Phase, NEW ctx \in Context, bind_phase_ctx(p, ctx),
           pc = "phases", "phases_first" \notin misuse'
    PROVE  SamePhases(Phase_Buckets, Phase_Buckets') /\ SameBindings(Phase_Buckets, Phase_Buckets')
  <1>1. Typed /\ Sorted(Phase_Buckets) /\ Phase_Buckets \in Seq(PhaseBucket)
    BY DEF Registered, Torn, PhasesSorted, Typed, TypeOK
  <1>2. misuse' = misuse \cup Breaks("phases_first", pc = "phases" /\ p \notin Phases)
    BY <1>1, ClientOnTop DEF bind_phase_ctx
  <1>3. p \in Phases
    BY <1>2 DEF Breaks
  <1>4. PICK k \in Slots(Phase_Buckets, p) :
            Phase_Buckets' = set_phase_context(Phase_Buckets, k, p, ctx)
    BY DEF bind_phase_ctx
  <1>5. HasPhase(Phase_Buckets, k, p)
    BY <1>1, <1>3, HasItsPhase
  <1>6. k \in DOMAIN Phase_Buckets /\ Phase_Buckets[k] \in PhaseBucket
    BY <1>1, <1>4, <1>5 DEF HasPhase, Slots
  <1> DEFINE P == [Phase_Buckets[k] EXCEPT !.Phase_Context = ctx]
  <1>7. P.Phase = Phase_Buckets[k].Phase /\ P.Bindings = Phase_Buckets[k].Bindings
    BY <1>6 DEF PhaseBucket
  <1>8. Phase_Buckets' = [Phase_Buckets EXCEPT ![k] = P]
    BY <1>4, <1>5 DEF set_phase_context
  <1> HIDE DEF P
  <1>9. /\ DOMAIN Phase_Buckets' = DOMAIN Phase_Buckets /\ Phase_Buckets'[k] = P
        /\ \A n \in DOMAIN Phase_Buckets : n # k => Phase_Buckets'[n] = Phase_Buckets[n]
    BY <1>6, <1>8
  <1>10. \A n \in DOMAIN Phase_Buckets :
            /\ Phase_Buckets'[n].Phase = Phase_Buckets[n].Phase
            /\ Phase_Buckets'[n].Bindings = Phase_Buckets[n].Bindings
    <2>1. ASSUME NEW n \in DOMAIN Phase_Buckets
          PROVE  /\ Phase_Buckets'[n].Phase = Phase_Buckets[n].Phase
                 /\ Phase_Buckets'[n].Bindings = Phase_Buckets[n].Bindings
      <3>1. CASE n = k
        BY <1>7, <1>9, <3>1
      <3>2. CASE n # k
        BY <1>9, <3>2
      <3>3. QED
        BY <3>1, <3>2
    <2>2. QED
      BY <2>1
  <1>11. QED
    BY <1>9, <1>10 DEF SamePhases, SameBindings

LEMMA DettachRemoves ==
    ASSUME Typed, ReturnOnDettach, ~Fails("binding"), pc = "phases"
    PROVE  /\ SamePhases(Phase_Buckets, Phase_Buckets')
           /\ RemovesFrom(Phase_Buckets, Phase_Buckets', Top.layer)
           /\ Spares(Phase_Buckets, pass.due, pass.due', Top.layer, i, j)
           /\ pass.calls' = pass.calls /\ i' = i /\ j' = j /\ misuse' = misuse /\ Pop
           /\ stack # << >> /\ Top.fn = "OnDettach"
  <1>1. /\ Phase_Buckets' = [n \in DOMAIN Phase_Buckets |->
                               remove_layer_phase_bucket(Phase_Buckets[n], Top.layer)]
        /\ pass' = [pass EXCEPT !.due = {e \in @ : e.Layer # Top.layer} \ MovedBehind(Top.layer)]
        /\ i' = i /\ j' = j /\ misuse' = misuse /\ Pop /\ stack # << >> /\ Top.fn = "OnDettach"
    BY DEF ReturnOnDettach, In, client
  <1>2. Phase_Buckets \in Seq(PhaseBucket)
        /\ pass \in [due: SUBSET BindingEntry, calls: Seq(BindingEntry)]
    BY DEF Typed, TypeOK
  <1>3. /\ DOMAIN Phase_Buckets' = DOMAIN Phase_Buckets
        /\ \A n \in DOMAIN Phase_Buckets :
              /\ Phase_Buckets[n] \in PhaseBucket
              /\ Phase_Buckets'[n] = remove_layer_phase_bucket(Phase_Buckets[n], Top.layer)
    BY <1>1, <1>2
  <1>4. SamePhases(Phase_Buckets, Phase_Buckets')
    <2>1. \A n \in DOMAIN Phase_Buckets : Phase_Buckets'[n].Phase = Phase_Buckets[n].Phase
      BY <1>3, RemoveKeepsBucket
    <2>2. QED
      BY <1>3, <2>1 DEF SamePhases
  <1>5. RemovesFrom(Phase_Buckets, Phase_Buckets', Top.layer)
    <2>1. \A n \in DOMAIN Phase_Buckets :
              Leaves(Phase_Buckets[n].Bindings, Phase_Buckets'[n].Bindings, Top.layer)
      BY <1>3, RemoveLeaves
    <2>2. QED
      BY <1>3, <2>1 DEF RemovesFrom
  <1>6. /\ pass.due' = {e \in pass.due : e.Layer # Top.layer} \ MovedBehind(Top.layer)
        /\ pass.calls' = pass.calls
    BY <1>1, <1>2
  <1>7. Spares(Phase_Buckets, pass.due, pass.due', Top.layer, i, j)
    <2>1. (\E n \in DOMAIN Phase_Buckets[i].Bindings :
              n <= j /\ Phase_Buckets[i].Bindings[n].Layer = Top.layer)
            => MovedBehind(Top.layer)
                 = {Entry(Phase_Buckets[i].Phase, Last(Phase_Buckets[i].Bindings))}
      BY DEF MovedBehind, Bucket
    <2>2. pass.due' \subseteq pass.due /\ \A e \in pass.due' : e.Layer # Top.layer
      BY <1>6
    <2>3. \A e \in pass.due' : e \notin MovedBehind(Top.layer)
      BY <1>6
    <2>4. QED
      BY <2>1, <2>2, <2>3 DEF Spares
  <1>8. QED
    BY <1>1, <1>4, <1>5, <1>6, <1>7

(* The frame's own steps.                                                  *)
LEMMA PhaseReturns ==
    ASSUME Typed, PhaseFrames(stack, pc), ReturnPhase
    PROVE  stack # << >> /\ stack' = << >> /\ j' = j + 1 /\ i' = i
           /\ Phase_Buckets' = Phase_Buckets /\ pass' = pass /\ misuse' = misuse
  <1>1. /\ stack # << >> /\ Top.fn = "phase" /\ Pop /\ j' = j + 1 /\ i' = i
        /\ Phase_Buckets' = Phase_Buckets /\ pass' = pass /\ misuse' = misuse
    BY DEF ReturnPhase, In, registry, client
  <1>2. /\ Len(stack') = Len(stack) - 1 /\ Len(stack) \in Nat \ {0} /\ DOMAIN stack = 1..Len(stack)
        /\ stack' \in Seq(StackFrame)
    BY <1>1, PopReturns, FrontIsShorter DEF Typed, TypeOK, Pop
  <1>3. Len(stack) = 1
    BY <1>1, <1>2 DEF PhaseFrames, Top
  <1>4. stack' = << >>
    BY <1>2, <1>3
  <1>5. QED
    BY <1>1, <1>4

LEMMA PhaseCalled ==
    ASSUME Registered, Singles, FramePass, pc = "phases", "phases_first" \notin misuse,
           CallPhase, ~Fails("bucket"), ~Fails("binding")
    PROVE  Passing(Phase_Buckets', pass.due', pass.calls', i', j' + 1, misuse') /\ stack' # << >>
  <1>1. /\ Typed /\ Sorted(Phase_Buckets) /\ Phase_Buckets \in Seq(PhaseBucket) /\ stack = << >>
        /\ stack \in Seq(StackFrame) /\ TypeOK
        /\ pass \in [due: SUBSET BindingEntry, calls: Seq(BindingEntry)]
    BY DEF Registered, Torn, PhasesSorted, Typed, TypeOK, CallPhase, At
  <1> DEFINE x == EntryAt(Phase_Buckets, i, j)
             called == pass.calls
             now == Append(called, x)
  <1>2. /\ i \in DOMAIN Phase_Buckets /\ j \in DOMAIN Phase_Buckets[i].Bindings
        /\ Bucket \in PhaseBucket /\ Bucket.Bindings[j] \in BindingPointer
        /\ Calls(stack, stack', "phase", Bucket.Bindings[j].Layer)
    BY <1>1, PhaseCalls DEF Bucket
  <1>3. x \in BindingEntry
    BY <1>1, <1>2, EntryType DEF EntryAt
  <1>4. /\ pass' = [pass EXCEPT !.calls = Append(@, x)]
        /\ Phase_Buckets' = Phase_Buckets /\ i' = i /\ j' = j /\ misuse' = misuse
        /\ stack' = Append(stack, Call("phase", Bucket.Bindings[j].Layer))
    BY DEF CallPhase, EntryAt, Bucket, registry, client, Push
  <1>5. pass.due' = pass.due /\ pass.calls' = now
    BY <1>1, <1>4
  <1>6. stack' # << >>
    BY <1>1, <1>4
  <1>7. /\ CalledOrAhead(Phase_Buckets, pass.due, called, i, j)
        /\ StillThere(Phase_Buckets, pass.due) /\ InOrder(Phase_Buckets, called, i)
        /\ ~Doubling(misuse) => /\ NeverAgain(Phase_Buckets, pass.due, called, i, j)
                                /\ Single(Phase_Buckets)
    BY <1>1 DEF FramePass, Passing, Reached, Singles
  <1>8. called \in Seq(BindingEntry)
    BY <1>1
  <1> HIDE DEF called
  <1>9. /\ CalledOrAhead(Phase_Buckets, pass.due, now, i, j + 1)
        /\ InOrder(Phase_Buckets, now, i)
        /\ ~Doubling(misuse) => NeverAgain(Phase_Buckets, pass.due, now, i, j + 1)
    BY <1>1, <1>2, <1>3, <1>7, <1>8, CallPasses
  <1> HIDE DEF now
  <1>10. Passing(Phase_Buckets, pass.due, now, i, j + 1, misuse)
    BY <1>7, <1>9 DEF Passing
  <1>11. QED
    BY <1>4, <1>5, <1>6, <1>10

LEMMA BucketEnds ==
    ASSUME Typed, FramePass, pc = "phases", "phases_first" \notin misuse, NextBucket
    PROVE  Passing(Phase_Buckets', pass.due', pass.calls', i', j', misuse') /\ stack' = << >>
  <1>1. /\ Phase_Buckets \in Seq(PhaseBucket) /\ stack = << >> /\ i \in Nat \ {0} /\ j \in Nat \ {0}
        /\ i <= Len(Phase_Buckets) /\ j > Len(Bucket.Bindings) /\ i' = i + 1 /\ j' = 1
        /\ Phase_Buckets' = Phase_Buckets /\ misuse' = misuse /\ stack' = stack /\ pass' = pass
    BY DEF Typed, TypeOK, NextBucket, At, registry, client
  <1>2. i \in DOMAIN Phase_Buckets
    BY <1>1
  <1>3. Len(Phase_Buckets[i].Bindings) < j
    <2>1. PICK N \in Nat : N = Len(Phase_Buckets[i].Bindings)
      BY <1>1, <1>2, BucketTypes
    <2>2. QED
      BY <1>1, <2>1 DEF Bucket
  <1>4. /\ CalledOrAhead(Phase_Buckets, pass.due, pass.calls, i, j)
        /\ StillThere(Phase_Buckets, pass.due) /\ InOrder(Phase_Buckets, pass.calls, i)
        /\ ~Doubling(misuse) => NeverAgain(Phase_Buckets, pass.due, pass.calls, i, j)
    BY <1>1 DEF FramePass, Passing, Reached
  <1>5. /\ CalledOrAhead(Phase_Buckets, pass.due, pass.calls, i + 1, 1)
        /\ InOrder(Phase_Buckets, pass.calls, i + 1)
        /\ ~Doubling(misuse) => NeverAgain(Phase_Buckets, pass.due, pass.calls, i + 1, 1)
    BY <1>1, <1>2, <1>3, <1>4, TurnPasses
  <1>6. Passing(Phase_Buckets, pass.due, pass.calls, i + 1, 1, misuse)
    BY <1>4, <1>5 DEF Passing
  <1>7. QED
    BY <1>1, <1>6

LEMMA FrameBegins ==
    ASSUME Typed, BeginFrame
    PROVE  Passing(Phase_Buckets', pass.due', pass.calls', i', j', misuse') /\ stack' = << >>
  <1>1. /\ Phase_Buckets \in Seq(PhaseBucket) /\ pass' = [due |-> Bound, calls |-> << >>]
        /\ i' = 1 /\ j' = 1 /\ Phase_Buckets' = Phase_Buckets /\ stack' = << >>
    BY DEF Typed, TypeOK, BeginFrame, At, Goto, registry
  <1>2. ASSUME NEW e \in Bound
        PROVE  \E n \in DOMAIN Phase_Buckets : \E k \in DOMAIN Phase_Buckets[n].Bindings :
                  EntryAt(Phase_Buckets, n, k) = e
    <2>1. PICK n \in DOMAIN Phase_Buckets :
              \E b \in ToSet(Phase_Buckets[n].Bindings) : e = Entry(Phase_Buckets[n].Phase, b)
      BY DEF Bound
    <2>2. PICK k \in DOMAIN Phase_Buckets[n].Bindings :
              e = Entry(Phase_Buckets[n].Phase, Phase_Buckets[n].Bindings[k])
      BY <2>1 DEF ToSet
    <2>3. QED
      BY <2>2 DEF EntryAt
  <1>3. Passing(Phase_Buckets, Bound, << >>, 1, 1, misuse')
    BY <1>1, <1>2, PassingBegins
  <1>4. QED
    BY <1>1, <1>3

(* Every step of the application keeps the frame's promise.                *)
LEMMA FramePassNext ==
    ASSUME Registered, Singles, Singles', PhaseFrames(stack, pc), FramePass, [Next]_vars
    PROVE  FramePass'
  <1>1. SUFFICES ASSUME pc' = "phases", "phases_first" \notin misuse'
                 PROVE  Passing(Phase_Buckets', pass.due', pass.calls', i', Reached(stack', j'), misuse')
    BY DEF FramePass
  <1>2. /\ Typed /\ TeardownFrames /\ Phase_Buckets \in Seq(PhaseBucket)
        /\ Phase_Buckets' \in Seq(PhaseBucket) /\ i \in Nat /\ j \in Nat
        /\ misuse \subseteq misuse' /\ "phases_first" \notin misuse
    BY <1>1, TypedNext, MisuseGrows DEF Registered, Torn, TearsDown, Typed, TypeOK
  <1>3. CASE pc # "phases"
    <2>1. stack = << >>
      BY <1>1, <1>2, <1>3, PlaceChange
    <2>2. BeginFrame
      BY <1>1, <1>3, <2>1 DEF Next, ClientCall, Step, Ended, vars, add_layer, remove_layer, Detach,
         SetDestroy, bind_layer_phase, bind_phase_ctx, application_event_callback, Stop,
         RegisterBinding, CallOnAttach, ReturnOnAttach, ReturnOnDettach, CallOnEvent, ReturnOnEvent,
         EndDispatch, RunApplication, CallPhase, ReturnPhase, NextBucket, EndPhases, Sweep, EndSweep,
         EndRun, DestroyApplication, Teardown, ReturnTeardown, EndTeardown, Fails, Goto
    <2>3. QED
      BY <1>2, <2>2, FrameBegins DEF Reached
  <1>4. CASE pc = "phases"
    <2> DEFINE c == Reached(stack, j)
    <2>1. Passing(Phase_Buckets, pass.due, pass.calls, i, c, misuse)
      BY <1>2, <1>4 DEF FramePass
    <2>2. CASE CallPhase /\ ~Fails("bucket") /\ ~Fails("binding")
      BY <1>2, <1>4, <2>2, PhaseCalled DEF Reached
    <2>3. CASE ReturnPhase
      BY <1>2, <2>1, <2>3, PhaseReturns DEF Reached
    <2>4. CASE NextBucket
      BY <1>2, <1>4, <2>4, BucketEnds DEF Reached
    <2>5. CASE EndPhases
      BY <1>1, <2>5 DEF EndPhases, Goto
    <2>6. CASE ReturnOnDettach /\ ~Fails("binding")
      <3>1. /\ SamePhases(Phase_Buckets, Phase_Buckets')
            /\ RemovesFrom(Phase_Buckets, Phase_Buckets', Top.layer)
            /\ Spares(Phase_Buckets, pass.due, pass.due', Top.layer, i, j)
            /\ pass.calls' = pass.calls /\ i' = i /\ j' = j /\ misuse' = misuse
            /\ stack # << >> /\ ~ReturnPhase
        BY <1>2, <1>4, <2>6, DettachRemoves DEF ReturnPhase, In
      <3>2. stack' # << >>
        BY <1>2, <1>4, <3>1, PhaseStays
      <3>3. Passing(Phase_Buckets, pass.due, pass.calls, i, j + 1, misuse)
        BY <2>1, <3>1 DEF Reached
      <3>4. Passing(Phase_Buckets', pass.due', pass.calls, i, j + 1, misuse)
        BY <1>2, <3>1, <3>3, PassingRemoves
      <3>5. QED
        BY <3>1, <3>2, <3>4 DEF Reached
    <2>7. CASE RegisterBinding
      <3>1. SamePhases(Phase_Buckets, Phase_Buckets') /\ Extends(Phase_Buckets, Phase_Buckets')
        BY <1>2, <1>4, <2>7, RegisterExtends
      <3>2. ~Doubling(misuse') => Single(Phase_Buckets')
        BY DEF Singles
      <3>3. /\ i' = i /\ j' = j /\ pass' = pass /\ stack # << >> /\ ~ReturnPhase
        BY <2>7 DEF RegisterBinding, In, ReturnPhase
      <3>4. stack' # << >>
        BY <1>2, <1>4, <3>3, PhaseStays
      <3>5. Passing(Phase_Buckets', pass.due, pass.calls, i, c, misuse')
        BY <1>2, <2>1, <3>1, <3>2, PassingExtends
      <3>6. QED
        BY <3>3, <3>4, <3>5 DEF Reached
    <2>8. ASSUME NEW p \in Phase, NEW ctx \in Context, bind_phase_ctx(p, ctx)
          PROVE  Passing(Phase_Buckets', pass.due', pass.calls', i', Reached(stack', j'), misuse')
      <3>1. /\ SamePhases(Phase_Buckets, Phase_Buckets')
            /\ SameBindings(Phase_Buckets, Phase_Buckets')
        BY <1>1, <1>4, <2>8, ContextStays
      <3>2. i' = i /\ j' = j /\ pass' = pass /\ stack' = stack
        BY <2>8 DEF bind_phase_ctx
      <3>3. Passing(Phase_Buckets', pass.due, pass.calls, i, c, misuse')
        BY <1>2, <2>1, <3>1, PassingSame
      <3>4. QED
        BY <3>2, <3>3
    <2>9. CASE UNCHANGED <<Phase_Buckets, pass, i, j>> /\ (stack' = << >> <=> stack = << >>)
      <3>1. SamePhases(Phase_Buckets, Phase_Buckets) /\ SameBindings(Phase_Buckets, Phase_Buckets)
        BY DEF SamePhases, SameBindings
      <3>2. Passing(Phase_Buckets, pass.due, pass.calls, i, c, misuse')
        BY <1>2, <2>1, <3>1, PassingSame
      <3>3. QED
        BY <2>9, <3>2 DEF Reached
    <2>10. QED
      BY <1>2, <1>4, <2>2, <2>3, <2>4, <2>5, <2>6, <2>7, <2>8, <2>9, FrameSteps
  <1>5. QED
    BY <1>3, <1>4

(* Past the last bucket nothing is ahead.                                  *)
LEMMA FrameEnds ==
    ASSUME Registered, FramePass, [Next]_vars, At("phases"), pc' = "sweep",
           "phases_first" \notin misuse
    PROVE  /\ \A e \in pass.due : e \in ToSet(pass.calls)
           /\ InOrder(Phase_Buckets, pass.calls, i)
           /\ ~Doubling(misuse) => NeverAgain(Phase_Buckets, pass.due, pass.calls, i, j)
  <1>1. /\ Typed /\ Phase_Buckets \in Seq(PhaseBucket) /\ i \in Nat
        /\ stack = << >> /\ pc = "phases" /\ fault = "none"
    BY DEF Registered, Torn, Typed, TypeOK, At
  <1>2. EndPhases
    <2>1. ~ClientCall
      BY <1>1, ClientLeaves
    <2>2. ~UNCHANGED vars
      BY <1>1 DEF vars
    <2>3. Step => EndPhases
      BY <1>1 DEF Step, RegisterBinding, CallOnAttach, ReturnOnAttach, ReturnOnDettach,
         CallOnEvent, ReturnOnEvent, EndDispatch, RunApplication, BeginFrame, CallPhase, ReturnPhase,
         NextBucket, Sweep, EndSweep, EndRun, DestroyApplication, Teardown,
         ReturnTeardown, EndTeardown, In, At, Fails
    <2>4. QED
      BY <2>1, <2>2, <2>3 DEF Next, Ended
  <1>3. /\ CalledOrAhead(Phase_Buckets, pass.due, pass.calls, i, j)
        /\ InOrder(Phase_Buckets, pass.calls, i)
        /\ ~Doubling(misuse) => NeverAgain(Phase_Buckets, pass.due, pass.calls, i, j)
    BY <1>1 DEF FramePass, Passing, Reached
  <1>4. \A n \in DOMAIN Phase_Buckets : \A k \in DOMAIN Phase_Buckets[n].Bindings : ~Ahead(n, k, i, j)
    <2>1. PICK N \in Nat : N = Len(Phase_Buckets) /\ DOMAIN Phase_Buckets = 1..N
      BY <1>1
    <2>2. i > N
      BY <1>2, <2>1 DEF EndPhases
    <2>3. \A n \in DOMAIN Phase_Buckets : ~(i < n) /\ n # i
      BY <1>1, <2>1, <2>2
    <2>4. QED
      BY <2>3 DEF Ahead
  <1>5. \A e \in pass.due : e \in ToSet(pass.calls)
    BY <1>3, <1>4 DEF CalledOrAhead
  <1>6. QED
    BY <1>3, <1>5

(* When a frame is through with its buckets it has called every binding    *)
(* that was registered when it began, in ascending phases and exactly once *)
(* if layers are added and bound once, except those of a removed layer and *)
(* one that its removal moved behind the loop.  FramePass is what is       *)
(* inductive: a due binding is called or ahead of the loop's place and     *)
(* still registered, what was called is of the buckets up to the loop's,   *)
(* and, as no binding is registered twice (EntriesSingle), not ahead.      *)
THEOREM FrameAlwaysCallsEach == Spec => FrameCallsEachBinding
  <1> DEFINE CallsEach ==
                At("phases") /\ pc' = "sweep" /\ Keeps({"phases_first"}) =>
                /\ \A e \in pass.due :
                    LET IsE(c) == c = e
                    IN  /\ e \in ToSet(pass.calls)
                        /\ Keeps({"add_once", "bind_once"}) => Count(pass.calls, IsE) = 1
                /\ \A m, n \in DOMAIN pass.calls :
                    m <= n => pass.calls[m].Phase <= pass.calls[n].Phase
  <1>1. Init => Registered /\ OwedOnce /\ PhaseFrames(stack, pc) /\ FramePass
    <2> SUFFICES ASSUME Init PROVE OwedOnce /\ PhaseFrames(stack, pc) /\ FramePass
      BY RegisteredInit
    <2>1. /\ Layers = << >> /\ stack = << >> /\ pc = "setup"
      BY DEF Init
    <2>2. PhaseFrames(stack, pc) /\ FramePass
      BY <2>1 DEF PhaseFrames, FramePass
    <2>3. ASSUME NEW l \in Layer PROVE Owed(l) = 0
      BY <2>1, OwedNone, TypedInit DEF Attached, Leaving, ToSet
    <2>4. QED
      BY <2>2, <2>3 DEF OwedOnce
  <1>2. Registered /\ OwedOnce /\ [Next]_vars => Registered' /\ OwedOnce'
    <2>1. Registered => Typed
      BY DEF Registered, Torn
    <2>2. QED
      BY <2>1, RegisteredNext, OwedOnceNext
  <1>3. Registered /\ PhaseFrames(stack, pc) /\ [Next]_vars => PhaseFrames(stack, pc)'
    <2>1. Registered => Typed
      BY DEF Registered, Torn
    <2>2. QED
      BY <2>1, PhaseFramesNext
  <1>4. Registered /\ Singles /\ Singles' /\ PhaseFrames(stack, pc) /\ FramePass /\ [Next]_vars
            => FramePass'
    BY FramePassNext
  <1>5. Registered /\ FramePass /\ [Next]_vars => [CallsEach]_vars
    <2> SUFFICES ASSUME Registered, FramePass, [Next]_vars, At("phases"), pc' = "sweep",
                        Keeps({"phases_first"})
                 PROVE  CallsEach
      OBVIOUS
    <2>1. "phases_first" \notin misuse
      BY DEF Keeps
    <2>2. /\ \A e \in pass.due : e \in ToSet(pass.calls)
          /\ InOrder(Phase_Buckets, pass.calls, i)
          /\ ~Doubling(misuse) => NeverAgain(Phase_Buckets, pass.due, pass.calls, i, j)
      BY <2>1, FrameEnds
    <2>3. ASSUME NEW e \in pass.due, Keeps({"add_once", "bind_once"})
          PROVE  Cardinality({n \in DOMAIN pass.calls : pass.calls[n] = e}) = 1
      <3>1. NeverAgain(Phase_Buckets, pass.due, pass.calls, i, j)
        BY <2>2, <2>3 DEF Keeps, Doubling
      <3>2. PICK m \in DOMAIN pass.calls : pass.calls[m] = e
        BY <2>2 DEF ToSet
      <3>3. {n \in DOMAIN pass.calls : pass.calls[n] = e} = {m}
        BY <3>1, <3>2 DEF NeverAgain
      <3>4. QED
        BY <3>3, FS_Singleton
    <2>4. \A m, n \in DOMAIN pass.calls : m <= n => pass.calls[m].Phase <= pass.calls[n].Phase
      BY <2>2 DEF InOrder
    <2>5. QED
      BY <2>2, <2>3, <2>4 DEF Count
  <1> HIDE DEF CallsEach
  <1>6. Registered /\ OwedOnce => Singles
    BY EntriesSingle
  <1>7. Spec => [][CallsEach]_vars
    BY <1>1, <1>2, <1>3, <1>4, <1>5, <1>6, PTL DEF Spec
  <1>8. QED
    BY <1>7 DEF CallsEach, FrameCallsEachBinding
=============================================================================
