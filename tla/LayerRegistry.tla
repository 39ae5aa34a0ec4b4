--------------------------- MODULE LayerRegistry ---------------------------
(***************************************************************************)
(* The data structures of layer.c: the registry's array of phase buckets,  *)
(* kept sorted by phase, each bucket an array of pointers to the bindings  *)
(* of the attached layers, and the doubling arrays all of it lives in.     *)
(*                                                                         *)
(* A C array with its Count is a sequence (Count is its length) beside its *)
(* Capacity.  A layer_binding* is the layer that owns the binding array,   *)
(* the index in it, and Block, the number of times realloc had moved that  *)
(* array when the pointer was taken: a pointer with an older Block dangles.*)
(***************************************************************************)
EXTENDS Integers, SequencesExt

CONSTANTS
    Layer,              \* the layers the client allocates
    Phase,              \* the phases it uses (layer_phase, a uint32_t)
    Context,            \* the phase contexts it binds
    NULL,               \* the context of a phase nobody bound one to
    InitialCapacity     \* capacity of an array after its first push (4)

ASSUME PhaseAssumption    == Phase \subseteq Nat
ASSUME CapacityAssumption == InitialCapacity \in Nat \ {0}

BindingPointer == [Layer: Layer, Index: Nat, Block: Nat]

PhaseBucket == [Phase: Phase, Bindings: Seq(BindingPointer), Capacity: Nat,
                Phase_Context: Context \cup {NULL}]

(* Definitions named Slip... are slips of the pen in the definition that   *)
(* follows, each caught by a property: README.md lists them.               *)

SlipGrow(Count, Capacity) ==        \* tests Count > Capacity
    IF Count <= Capacity THEN Capacity
    ELSE IF Capacity = 0 THEN InitialCapacity ELSE 2 * Capacity

(* The capacity after making room for one more element in an array.        *)
Grow(Count, Capacity) ==
    IF Count < Capacity THEN Capacity
    ELSE IF Capacity = 0 THEN InitialCapacity ELSE 2 * Capacity

push_phase_bucket(Bucket, Binding) ==
    [Bucket EXCEPT !.Bindings = Append(@, Binding),
                   !.Capacity = Grow(Len(Bucket.Bindings), @)]

SlipSwapRemove(s, k) ==             \* Count-- without the copy
    SubSeq(s, 1, Len(s) - 1)

(* The last element takes the place of the k-th.                           *)
SwapRemove(s, k) == SubSeq([s EXCEPT ![k] = s[Len(s)]], 1, Len(s) - 1)

SlipRemoveEntry(Bucket, l) ==       \* never finds the layer
    Bucket

(* Only the first entry of the layer leaves the bucket.                    *)
remove_layer_phase_bucket(Bucket, l) ==
    LET entries == {k \in DOMAIN Bucket.Bindings : Bucket.Bindings[k].Layer = l}
    IN  IF entries = {} THEN Bucket
        ELSE [Bucket EXCEPT !.Bindings = SwapRemove(@, Min(entries))]

SlipSlots(Buckets, p) ==            \* while (... Phase <= phase)
    {k \in 1..Len(Buckets) + 1 :
        /\ \A n \in 1..k - 1 : Buckets[n].Phase <= p
        /\ k <= Len(Buckets) => p < Buckets[k].Phase}

(* Where the search for a phase stops: the only k whose predecessors all   *)
(* have a lower phase and which is past the end or has no lower phase.     *)
Slots(Buckets, p) ==
    {k \in 1..Len(Buckets) + 1 :
        /\ \A n \in 1..k - 1 : Buckets[n].Phase < p
        /\ k <= Len(Buckets) => p <= Buckets[k].Phase}

HasPhase(Buckets, k, p) == k <= Len(Buckets) /\ Buckets[k].Phase = p

SlipInsertUnset(Buckets, k, p, ctx) ==      \* Phase_Context is left unset
    InsertAt(Buckets, k, [Phase |-> p, Bindings |-> << >>, Capacity |-> 0])

SlipInsertStale(Buckets, k, p, ctx) ==      \* or left as the shifted bucket's
    InsertAt(Buckets, k, [Phase |-> p, Bindings |-> << >>, Capacity |-> 0,
                          Phase_Context |-> IF k <= Len(Buckets)
                                            THEN Buckets[k].Phase_Context ELSE ctx])

(* The fields an inserted bucket is given once memmove has made room.      *)
InsertBucket(Buckets, k, p, ctx) ==
    InsertAt(Buckets, k, [Phase |-> p, Bindings |-> << >>, Capacity |-> 0,
                          Phase_Context |-> ctx])

(* One round of register_into_phase_bucket's loop, at slot k.              *)
register_binding(Buckets, k, p, Binding) ==
    LET found == IF HasPhase(Buckets, k, p) THEN Buckets
                 ELSE InsertBucket(Buckets, k, p, NULL)
    IN  [found EXCEPT ![k] = push_phase_bucket(@, Binding)]

(* What bind_phase_ctx does to the buckets, at slot k.                     *)
set_phase_context(Buckets, k, p, ctx) ==
    IF HasPhase(Buckets, k, p) THEN [Buckets EXCEPT ![k].Phase_Context = ctx]
    ELSE InsertBucket(Buckets, k, p, ctx)

(* What the operations keep true of buckets; see PhasesSorted, NoOverrun.  *)
Sorted(Buckets) ==
    \A m, n \in DOMAIN Buckets : m < n => Buckets[m].Phase < Buckets[n].Phase

Fits(Bucket) == Len(Bucket.Bindings) <= Bucket.Capacity
=============================================================================
