------------------------ MODULE LayerRegistryProofs ------------------------
(***************************************************************************)
(* Lemmas about the operators of LayerRegistry: what each does to the type *)
(* of the buckets, to their order and to their capacities, and to the      *)
(* bindings that the bucket of a phase has.                                *)
(***************************************************************************)
EXTENDS LayerRegistry, SequenceFacts, TLAPS

(* Arrays.                                                                 *)

(* An array that Grow has grown has room for one element more than it has. *)
LEMMA GrowMakesRoom ==
    ASSUME NEW Size \in Nat, NEW Cap \in Nat
    PROVE  /\ Grow(Size, Cap) \in Nat
           /\ Size <= Cap => Size + 1 <= Grow(Size, Cap)
    BY CapacityAssumption DEF Grow

(* All but the last element of a sequence: its type and its length.        *)
LEMMA FrontIsShorter ==
    ASSUME NEW S, NEW s \in Seq(S), s # << >>
    PROVE  /\ Front(s) \in Seq(S)
           /\ Len(Front(s)) = Len(s) - 1
           /\ \A n \in 1..Len(s) - 1 : Front(s)[n] = s[n]
  <1>1. PICK N \in Nat : N = Len(s) - 1 
    OBVIOUS
  <1>2. /\ SubSeq(s, 1, N) \in Seq(S) /\ Len(SubSeq(s, 1, N)) = N
        /\ \A n \in 1..N : SubSeq(s, 1, N)[n] = s[n]
    BY <1>1
  <1>3. QED
    BY <1>1, <1>2, Zenon DEF Front

(* A sequence without its k-th element, whose place the last one takes:    *)
(* its type, and that it is shorter by one.                                *)
LEMMA SwapRemoveShrinks ==
    ASSUME NEW S, NEW s \in Seq(S), NEW k, s # << >>
    PROVE  /\ SwapRemove(s, k) \in Seq(S)
           /\ Len(SwapRemove(s, k)) = Len(s) - 1
  <1>1. PICK N \in Nat : N = Len(s) - 1 
    OBVIOUS
  <1> DEFINE t == [s EXCEPT ![k] = s[Len(s)]]
  <1>2. CASE k \in 1..Len(s)
    <2>1. t \in Seq(S) /\ Len(t) = Len(s)
      BY <1>2
    <2> HIDE DEF t
    <2>2. SubSeq(t, 1, N) \in Seq(S) /\ Len(SubSeq(t, 1, N)) = N
      BY <1>1, <2>1
    <2>3. QED
      BY <1>1, <2>2, Zenon DEF SwapRemove, t
  <1>3. CASE k \notin 1..Len(s)
    <2>1. t = s
      BY <1>3
    <2>2. SubSeq(s, 1, N) \in Seq(S) /\ Len(SubSeq(s, 1, N)) = N
      BY <1>1
    <2>3. QED
      BY <1>1, <2>1, <2>2, Zenon DEF SwapRemove
  <1>4. QED
    BY <1>2, <1>3

-----------------------------------------------------------------------------
(* Buckets.                                                                *)

(* push_phase_bucket gives a bucket, of the same phase, that fits its      *)
(* capacity if it fitted before.                                           *)
LEMMA PushKeepsBucket ==
    ASSUME NEW B \in PhaseBucket, NEW b \in BindingPointer
    PROVE  /\ push_phase_bucket(B, b) \in PhaseBucket
           /\ push_phase_bucket(B, b).Phase = B.Phase
           /\ Fits(B) => Fits(push_phase_bucket(B, b))
  <1> DEFINE pushed == Append(B.Bindings, b)
             room == Grow(Len(B.Bindings), B.Capacity)
  <1>1. /\ B.Bindings \in Seq(BindingPointer) /\ B.Capacity \in Nat
        /\ Len(B.Bindings) \in Nat
    BY DEF PhaseBucket
  <1>2. pushed \in Seq(BindingPointer) /\ Len(pushed) = Len(B.Bindings) + 1
    BY <1>1
  <1>3. /\ room \in Nat
        /\ Len(B.Bindings) <= B.Capacity => Len(B.Bindings) + 1 <= room
    BY <1>1, GrowMakesRoom
  <1>4. push_phase_bucket(B, b) = [B EXCEPT !.Bindings = pushed, !.Capacity = room]
    BY DEF push_phase_bucket
  <1> HIDE DEF pushed, room
  <1>5. QED
    BY <1>2, <1>3, <1>4 DEF PhaseBucket, Fits

(* remove_layer_phase_bucket gives a bucket, of the same phase and         *)
(* context, that fits its capacity if it fitted before.                    *)
LEMMA RemoveKeepsBucket ==
    ASSUME NEW B \in PhaseBucket, NEW l
    PROVE  /\ remove_layer_phase_bucket(B, l) \in PhaseBucket
           /\ remove_layer_phase_bucket(B, l).Phase = B.Phase
           /\ remove_layer_phase_bucket(B, l).Phase_Context = B.Phase_Context
           /\ Fits(B) => Fits(remove_layer_phase_bucket(B, l))
  <1> DEFINE entries == {k \in DOMAIN B.Bindings : B.Bindings[k].Layer = l}
             rest == SwapRemove(B.Bindings, Min(entries))
  <1>1. /\ B.Bindings \in Seq(BindingPointer) /\ B.Capacity \in Nat
        /\ Len(B.Bindings) \in Nat
    BY DEF PhaseBucket
  <1>2. CASE entries = {}
    BY <1>2 DEF remove_layer_phase_bucket
  <1>3. CASE entries # {}
    <2>1. B.Bindings # << >>
      BY <1>3
    <2>2. rest \in Seq(BindingPointer) /\ Len(rest) = Len(B.Bindings) - 1
      BY <1>1, <2>1, SwapRemoveShrinks
    <2>3. remove_layer_phase_bucket(B, l) = [B EXCEPT !.Bindings = rest]
      BY <1>3 DEF remove_layer_phase_bucket
    <2> HIDE DEF rest
    <2>4. [B EXCEPT !.Bindings = rest] \in PhaseBucket
      BY <2>2 DEF PhaseBucket
    <2>5. Fits(B) => Fits([B EXCEPT !.Bindings = rest])
      BY <1>1, <2>2 DEF PhaseBucket, Fits
    <2>6. [B EXCEPT !.Bindings = rest].Phase = B.Phase
      BY DEF PhaseBucket
    <2>7. QED
      BY <2>3, <2>4, <2>5, <2>6
  <1>4. QED
    BY <1>2, <1>3

(* The buckets after an insertion: their number, and where each is, those  *)
(* before the place, the new one and the shifted ones.                     *)
LEMMA BucketsInserted ==
    ASSUME NEW Bs \in Seq(PhaseBucket), NEW p \in Phase,
           NEW ctx \in Context \cup {NULL}, NEW k \in 1..Len(Bs) + 1
    PROVE  LET new == [Phase |-> p, Bindings |-> << >>, Capacity |-> 0, Phase_Context |-> ctx]
               New == InsertBucket(Bs, k, p, ctx)
           IN  /\ new \in PhaseBucket /\ new.Phase = p /\ Fits(new)
               /\ new.Phase_Context = ctx
               /\ New \in Seq(PhaseBucket) /\ Len(New) = Len(Bs) + 1
               /\ \A n \in 1..Len(Bs) + 1 :
                    /\ n < k => New[n] = Bs[n]
                    /\ n = k => New[n] = new
                    /\ n > k => New[n] = Bs[n - 1]
  <1> DEFINE new == [Phase |-> p, Bindings |-> << >>, Capacity |-> 0, Phase_Context |-> ctx]
             New == InsertBucket(Bs, k, p, ctx)
  <1>1. new \in PhaseBucket /\ new.Phase = p /\ new.Phase_Context = ctx /\ Fits(new)
    BY DEF PhaseBucket, Fits
  <1>2. New = InsertAt(Bs, k, new)
    BY DEF InsertBucket
  <1> HIDE DEF new, New
  <1> DEFINE len == Len(Bs)
  <1>3. len \in Nat
    OBVIOUS
  <1> HIDE DEF len
  <1>4. PICK low \in Nat : low = k - 1
    BY <1>3 DEF len
  <1>5. PICK rest \in Nat : rest = len - low
    BY <1>3, <1>4 DEF len
  <1>6. low = k - 1 /\ len = Len(Bs) /\ rest = len - low /\ len \in Nat
    BY <1>3, <1>4, <1>5 DEF len
  <1> DEFINE before == SubSeq(Bs, 1, low)
             after == SubSeq(Bs, k, len)
  <1>7. /\ before \in Seq(PhaseBucket) /\ Len(before) = low
        /\ \A n \in 1..low : before[n] = Bs[n]
    BY <1>6
  <1>8. after \in Seq(PhaseBucket)
    BY <1>6
  <1>9. Len(after) = rest
    BY <1>6
  <1>10. \A n \in 1..rest : after[n] = Bs[n + low]
    BY <1>6
  <1>11. New = before \o << new >> \o after
    BY <1>2, <1>6, Zenon DEF InsertAt
  <1> HIDE DEF before, after
  <1> DEFINE both == before \o << new >> \o after
  <1>12. both \in Seq(PhaseBucket)
    BY <1>1, <1>7, <1>8
  <1>13. Len(both) = low + 1 + rest
    BY <1>7, <1>8, <1>9, SMTT(30)
  <1>14. \A n \in 1..low + 1 + rest :
            both[n] = IF n <= low THEN before[n]
                      ELSE IF n = low + 1 THEN new ELSE after[n - low - 1]
    BY <1>7, <1>8, <1>9, SMTT(30)
  <1> HIDE DEF both
  <1>15. ASSUME NEW n \in 1..Len(Bs) + 1
         PROVE  /\ n < k => both[n] = Bs[n]
                /\ n = k => both[n] = new
                /\ n > k => both[n] = Bs[n - 1]
    <2>1. CASE n < k
      BY <1>6, <1>7, <1>14, <2>1
    <2>2. CASE n = k
      BY <1>6, <1>14, <2>2
    <2>3. CASE n > k
      <3>1. PICK m \in 1..rest : m = n - low - 1
        BY <1>6, <2>3
      <3>2. both[n] = after[m] /\ after[m] = Bs[m + low] /\ m + low = n - 1
        BY <1>6, <1>10, <1>14, <2>3, <3>1
      <3>3. QED
        BY <2>3, <3>2
    <2>4. QED
      BY <2>1, <2>2, <2>3
  <1>16. Len(both) = Len(Bs) + 1
    BY <1>6, <1>13
  <1>17. New = both
    BY <1>11 DEF both
  <1>18. QED
    BY <1>1, <1>12, <1>15, <1>16, <1>17 DEF new, New

(* A bucket inserted at the slot the search finds, for a phase that has    *)
(* none: the buckets are still sorted and still fit, and are one more.     *)
LEMMA InsertKeepsBuckets ==
    ASSUME NEW Bs \in Seq(PhaseBucket), NEW p \in Phase,
           NEW ctx \in Context \cup {NULL}, NEW k \in Slots(Bs, p)
    PROVE  /\ InsertBucket(Bs, k, p, ctx) \in Seq(PhaseBucket)
           /\ Len(InsertBucket(Bs, k, p, ctx)) = Len(Bs) + 1
           /\ InsertBucket(Bs, k, p, ctx)[k].Phase = p
           /\ Sorted(Bs) /\ ~HasPhase(Bs, k, p) => Sorted(InsertBucket(Bs, k, p, ctx))
           /\ (\A n \in DOMAIN Bs : Fits(Bs[n]))
                => \A n \in DOMAIN InsertBucket(Bs, k, p, ctx) :
                        Fits(InsertBucket(Bs, k, p, ctx)[n])
  <1> DEFINE new == [Phase |-> p, Bindings |-> << >>, Capacity |-> 0, Phase_Context |-> ctx]
             New == InsertBucket(Bs, k, p, ctx)
  <1>1. /\ k \in 1..Len(Bs) + 1
        /\ \A n \in 1..k - 1 : Bs[n].Phase < p
        /\ k <= Len(Bs) => p <= Bs[k].Phase
    BY DEF Slots
  <1>2. new \in PhaseBucket /\ new.Phase = p /\ Fits(new)
    BY <1>1, BucketsInserted
  <1>3. /\ New \in Seq(PhaseBucket) /\ Len(New) = Len(Bs) + 1
        /\ \A n \in 1..Len(Bs) + 1 :
            /\ n < k => New[n] = Bs[n]
            /\ n = k => New[n] = new
            /\ n > k => New[n] = Bs[n - 1]
    BY <1>1, BucketsInserted
  <1> HIDE DEF new, New
  <1>4. Len(Bs) \in Nat /\ DOMAIN Bs = 1..Len(Bs) /\ DOMAIN New = 1..Len(Bs) + 1
    BY <1>3
  <1>5. New[k].Phase = p
    BY <1>1, <1>2, <1>3, <1>4
  <1>6. ASSUME Sorted(Bs), ~HasPhase(Bs, k, p)
        PROVE  Sorted(New)
    <2>1. \A n \in 1..Len(Bs) : Bs[n].Phase \in Nat
      <3>1. \A n \in 1..Len(Bs) : Bs[n] \in PhaseBucket
        OBVIOUS
      <3>2. QED
        BY <3>1, PhaseAssumption DEF PhaseBucket
    <2>2. p \in Nat
      BY PhaseAssumption
    <2>3. ASSUME NEW n \in 1..Len(Bs), k <= n
          PROVE  p < Bs[n].Phase
      <3>1. k \in 1..Len(Bs)
        BY <1>1, <1>4, <2>3
      <3>2. p < Bs[k].Phase
        BY <1>1, <1>4, <1>6, <2>1, <2>2, <3>1 DEF HasPhase
      <3>3. k < n => Bs[k].Phase < Bs[n].Phase
        BY <1>4, <1>6, <3>1 DEF Sorted
      <3>4. k = n \/ k < n
        BY <1>4, <2>3, <3>1
      <3>5. QED
        BY <2>1, <2>2, <3>1, <3>2, <3>3, <3>4
    <2>4. SUFFICES ASSUME NEW m \in 1..Len(Bs) + 1, NEW n \in 1..Len(Bs) + 1, m < n
                   PROVE  New[m].Phase < New[n].Phase
      BY <1>4 DEF Sorted
    <2>5. CASE n < k
      BY <1>1, <1>3, <1>4, <1>6, <2>4, <2>5 DEF Sorted
    <2>6. CASE n = k
      BY <1>1, <1>2, <1>3, <1>4, <2>4, <2>6
    <2>7. CASE m = k
      BY <1>1, <1>2, <1>3, <1>4, <2>3, <2>4, <2>7
    <2>8. CASE m < k /\ k < n
      <3>1. New[m] = Bs[m] /\ New[n] = Bs[n - 1] /\ m \in 1..Len(Bs) /\ n - 1 \in 1..Len(Bs)
        BY <1>1, <1>3, <1>4, <2>4, <2>8
      <3>2. Bs[m].Phase < p /\ p < Bs[n - 1].Phase
        BY <1>1, <1>4, <2>3, <2>8, <3>1
      <3>3. QED
        BY <2>1, <2>2, <3>1, <3>2
    <2>9. CASE k < m
      <3>1. PICK u \in 1..Len(Bs), v \in 1..Len(Bs) : u = m - 1 /\ v = n - 1
        BY <1>1, <1>4, <2>4, <2>9
      <3>2. New[m] = Bs[u] /\ New[n] = Bs[v] /\ u < v
        BY <1>1, <1>3, <1>4, <2>4, <2>9, <3>1
      <3>3. QED
        BY <1>4, <1>6, <3>2 DEF Sorted
    <2>10. QED
      BY <1>1, <1>4, <2>4, <2>5, <2>6, <2>7, <2>8, <2>9
  <1>7. ASSUME \A n \in DOMAIN Bs : Fits(Bs[n]), NEW n \in DOMAIN New
        PROVE  Fits(New[n])
    <2>1. CASE n <= k
      BY <1>1, <1>2, <1>3, <1>4, <1>7, <2>1
    <2>2. CASE n > k
      <3>1. PICK m \in 1..Len(Bs) : m = n - 1
        BY <1>1, <1>4, <1>7, <2>2
      <3>2. New[n] = Bs[m]
        BY <1>1, <1>3, <1>4, <1>7, <2>2, <3>1
      <3>3. QED
        BY <1>4, <1>7, <3>2
    <2>3. QED
      BY <1>1, <1>4, <1>7, <2>1, <2>2
  <1>8. QED
    BY <1>3, <1>5, <1>6, <1>7 DEF New

(* Replacing one bucket by another of the same phase.                      *)
(* A bucket replaced by one of the same phase: the buckets are still       *)
(* sorted, still fit, and are as many.                                     *)
LEMMA ReplaceKeepsBuckets ==
    ASSUME NEW Bs \in Seq(PhaseBucket), NEW k \in DOMAIN Bs, NEW B \in PhaseBucket,
           B.Phase = Bs[k].Phase, NEW New, New = [Bs EXCEPT ![k] = B]
    PROVE  /\ New \in Seq(PhaseBucket)
           /\ Len(New) = Len(Bs)
           /\ Sorted(Bs) => Sorted(New)
           /\ (\A n \in DOMAIN Bs : Fits(Bs[n])) /\ Fits(B) => \A n \in DOMAIN New : Fits(New[n])
  <1>1. Len(Bs) \in Nat /\ DOMAIN Bs = 1..Len(Bs) /\ k \in 1..Len(Bs)
    OBVIOUS
  <1>2. New \in Seq(PhaseBucket) /\ Len(New) = Len(Bs)
    BY <1>1
  <1>3. DOMAIN New = DOMAIN Bs /\ \A n \in DOMAIN Bs : New[n] = IF n = k THEN B ELSE Bs[n]
    BY <1>1
  <1>4. \A n \in DOMAIN Bs : New[n].Phase = Bs[n].Phase
    BY <1>3
  <1>5. Sorted(Bs) => Sorted(New)
    BY <1>3, <1>4 DEF Sorted
  <1>6. (\A n \in DOMAIN Bs : Fits(Bs[n])) /\ Fits(B) => \A n \in DOMAIN New : Fits(New[n])
    BY <1>3
  <1>7. QED
    BY <1>2, <1>5, <1>6

(* register_binding at the slot the search finds: the buckets are still    *)
(* sorted and still fit.                                                   *)
LEMMA RegisterKeepsBuckets ==
    ASSUME NEW Bs \in Seq(PhaseBucket), NEW p \in Phase, NEW b \in BindingPointer,
           NEW k \in Slots(Bs, p)
    PROVE  LET New == register_binding(Bs, k, p, b)
           IN  /\ New \in Seq(PhaseBucket)
               /\ Len(New) = IF HasPhase(Bs, k, p) THEN Len(Bs) ELSE Len(Bs) + 1
               /\ Sorted(Bs) => Sorted(New)
               /\ (\A n \in DOMAIN Bs : Fits(Bs[n])) => \A n \in DOMAIN New : Fits(New[n])
  <1> DEFINE found == IF HasPhase(Bs, k, p) THEN Bs ELSE InsertBucket(Bs, k, p, NULL)
  <1>1. k \in 1..Len(Bs) + 1
    BY DEF Slots
  <1>2. /\ found \in Seq(PhaseBucket)
        /\ Len(found) = IF HasPhase(Bs, k, p) THEN Len(Bs) ELSE Len(Bs) + 1
        /\ Sorted(Bs) => Sorted(found)
        /\ (\A n \in DOMAIN Bs : Fits(Bs[n])) => \A n \in DOMAIN found : Fits(found[n])
    BY InsertKeepsBuckets
  <1>3. k \in DOMAIN found
    BY <1>1, <1>2 DEF HasPhase
  <1> DEFINE B == push_phase_bucket(found[k], b)
             New == register_binding(Bs, k, p, b)
  <1>4. New = [found EXCEPT ![k] = B]
    BY DEF register_binding
  <1>5. found[k] \in PhaseBucket
    BY <1>2, <1>3
  <1>6. B \in PhaseBucket /\ B.Phase = found[k].Phase /\ (Fits(found[k]) => Fits(B))
    BY <1>5, PushKeepsBucket
  <1> HIDE DEF found, B, New
  <1>7. /\ New \in Seq(PhaseBucket) /\ Len(New) = Len(found)
        /\ Sorted(found) => Sorted(New)
        /\ (\A n \in DOMAIN found : Fits(found[n])) => \A n \in DOMAIN New : Fits(New[n])
    <2>1. found \in Seq(PhaseBucket)
      BY <1>2
    <2>2. /\ New \in Seq(PhaseBucket) /\ Len(New) = Len(found)
          /\ Sorted(found) => Sorted(New)
          /\ (\A n \in DOMAIN found : Fits(found[n])) /\ Fits(B)
                => \A n \in DOMAIN New : Fits(New[n])
      <3>1. B \in PhaseBucket /\ B.Phase = found[k].Phase
        BY <1>6
      <3>2. QED
        BY <1>3, <1>4, <2>1, <3>1, ReplaceKeepsBuckets, Zenon
    <2>3. (\A n \in DOMAIN found : Fits(found[n])) => Fits(B)
      BY <1>3, <1>6
    <2>4. QED
      BY <2>2, <2>3
  <1>8. QED
    BY <1>2, <1>7 DEF New

(* set_phase_context at the slot the search finds: the buckets are still   *)
(* sorted and still fit.                                                   *)
LEMMA ContextKeepsBuckets ==
    ASSUME NEW Bs \in Seq(PhaseBucket), NEW p \in Phase, NEW ctx \in Context,
           NEW k \in Slots(Bs, p)
    PROVE  LET New == set_phase_context(Bs, k, p, ctx)
           IN  /\ New \in Seq(PhaseBucket)
               /\ Len(New) = IF HasPhase(Bs, k, p) THEN Len(Bs) ELSE Len(Bs) + 1
               /\ Sorted(Bs) => Sorted(New)
               /\ (\A n \in DOMAIN Bs : Fits(Bs[n])) => \A n \in DOMAIN New : Fits(New[n])
  <1> DEFINE B == [Bs[k] EXCEPT !.Phase_Context = ctx]
  <1>1. CASE HasPhase(Bs, k, p)
    <2>1. k \in DOMAIN Bs
      BY <1>1 DEF Slots, HasPhase
    <2>2. Bs[k] \in PhaseBucket
      BY <2>1
    <2>3. B \in PhaseBucket /\ B.Phase = Bs[k].Phase /\ (Fits(Bs[k]) => Fits(B))
      BY <2>2 DEF PhaseBucket, Fits
    <2> DEFINE New == set_phase_context(Bs, k, p, ctx)
    <2>4. New = [Bs EXCEPT ![k] = B]
      BY <1>1 DEF set_phase_context
    <2> HIDE DEF B, New
    <2>5. /\ New \in Seq(PhaseBucket) /\ Len(New) = Len(Bs)
          /\ Sorted(Bs) => Sorted(New)
          /\ (\A n \in DOMAIN Bs : Fits(Bs[n])) => \A n \in DOMAIN New : Fits(New[n])
      BY <2>1, <2>3, <2>4, ReplaceKeepsBuckets
    <2>6. QED
      BY <1>1, <2>5 DEF New
  <1>2. CASE ~HasPhase(Bs, k, p)
    BY <1>2, InsertKeepsBuckets DEF set_phase_context
  <1>3. QED
    BY <1>1, <1>2

-----------------------------------------------------------------------------
(* Contexts.                                                               *)

(* The buckets have the contexts c gives their phases, and there is one    *)
(* for every phase that has a context.                                     *)
Follows(Bs, c) ==
    /\ \A n \in DOMAIN Bs : Bs[n].Phase_Context = c[Bs[n].Phase]
    /\ \A p \in Phase : c[p] # NULL => \E n \in DOMAIN Bs : Bs[n].Phase = p

(* Sorted buckets have one place at most for a phase, where the search     *)
(* ends.                                                                   *)
LEMMA OtherBuckets ==
    ASSUME NEW Bs \in Seq(PhaseBucket), Sorted(Bs), NEW p \in Phase, NEW k \in Slots(Bs, p)
    PROVE  \A n \in DOMAIN Bs : Bs[n].Phase = p => n = k /\ HasPhase(Bs, k, p)
  <1>1. DOMAIN Bs = 1..Len(Bs) /\ Len(Bs) \in Nat
    OBVIOUS
  <1>2. /\ k \in 1..Len(Bs) + 1
        /\ \A n \in 1..k - 1 : Bs[n].Phase < p
        /\ k <= Len(Bs) => p <= Bs[k].Phase
    BY DEF Slots
  <1>3. p \in Nat /\ \A n \in DOMAIN Bs : Bs[n].Phase \in Nat
    <2>1. \A n \in DOMAIN Bs : Bs[n] \in PhaseBucket
      OBVIOUS
    <2>2. QED
      BY <2>1, PhaseAssumption DEF PhaseBucket
  <1>4. SUFFICES ASSUME NEW n \in DOMAIN Bs, Bs[n].Phase = p
                 PROVE  n = k /\ HasPhase(Bs, k, p)
    OBVIOUS
  <1>5. n >= k
    BY <1>1, <1>2, <1>3, <1>4
  <1>6. k < n => Bs[k].Phase < Bs[n].Phase
    BY <1>1, <1>2, <1>4 DEF Sorted
  <1>7. n = k
    BY <1>1, <1>2, <1>3, <1>4, <1>5, <1>6
  <1>8. QED
    BY <1>1, <1>4, <1>7 DEF HasPhase

(* A bucket inserted with a context for a phase that has no bucket.        *)
LEMMA InsertFollows ==
    ASSUME NEW Bs \in Seq(PhaseBucket), Sorted(Bs), NEW p \in Phase,
           NEW ctx \in Context \cup {NULL}, NEW k \in Slots(Bs, p), ~HasPhase(Bs, k, p),
           NEW c \in [Phase -> Context \cup {NULL}], Follows(Bs, c)
    PROVE  Follows(InsertBucket(Bs, k, p, ctx), [c EXCEPT ![p] = ctx])
  <1> DEFINE new == [Phase |-> p, Bindings |-> << >>, Capacity |-> 0, Phase_Context |-> ctx]
             New == InsertBucket(Bs, k, p, ctx)
             d == [c EXCEPT ![p] = ctx]
  <1>1. k \in 1..Len(Bs) + 1 /\ Len(Bs) \in Nat /\ DOMAIN Bs = 1..Len(Bs)
    BY DEF Slots
  <1>2. new \in PhaseBucket /\ new.Phase = p /\ new.Phase_Context = ctx
    BY <1>1, BucketsInserted
  <1>3. /\ New \in Seq(PhaseBucket) /\ Len(New) = Len(Bs) + 1
        /\ \A n \in 1..Len(Bs) + 1 :
            /\ n < k => New[n] = Bs[n]
            /\ n = k => New[n] = new
            /\ n > k => New[n] = Bs[n - 1]
    BY <1>1, BucketsInserted
  <1> HIDE DEF new, New
  <1>4. DOMAIN New = 1..Len(Bs) + 1
    BY <1>1, <1>3
  <1>5. \A n \in DOMAIN Bs : Bs[n].Phase # p /\ Bs[n].Phase \in Phase
    <2>1. \A n \in DOMAIN Bs : Bs[n] \in PhaseBucket
      OBVIOUS
    <2>2. QED
      BY <2>1, OtherBuckets DEF PhaseBucket
  <1>6. d[p] = ctx /\ \A q \in Phase : q # p => d[q] = c[q]
    OBVIOUS
  <1> HIDE DEF d
  <1>7. ASSUME NEW n \in DOMAIN New PROVE New[n].Phase_Context = d[New[n].Phase]
    <2>1. CASE n = k
      BY <1>2, <1>3, <1>4, <1>6, <2>1
    <2>2. CASE n # k
      <3>1. PICK m \in DOMAIN Bs : New[n] = Bs[m]
        <4>1. CASE n < k
          BY <1>1, <1>3, <1>4, <4>1
        <4>2. CASE k < n
          <5>1. n - 1 \in DOMAIN Bs /\ New[n] = Bs[n - 1]
            BY <1>1, <1>3, <1>4, <4>2
          <5>2. QED
            BY <5>1
        <4>3. QED
          BY <1>1, <1>4, <2>2, <4>1, <4>2
      <3>2. QED
        BY <1>5, <1>6, <3>1 DEF Follows
    <2>3. QED
      BY <2>1, <2>2
  <1>8. ASSUME NEW q \in Phase, d[q] # NULL PROVE \E n \in DOMAIN New : New[n].Phase = q
    <2>1. CASE q = p
      BY <1>1, <1>2, <1>3, <1>4, <2>1
    <2>2. CASE q # p
      <3>1. PICK m \in 1..Len(Bs) : Bs[m].Phase = q
        BY <1>1, <1>6, <1>8, <2>2 DEF Follows
      <3>2. CASE m < k
        BY <1>1, <1>3, <1>4, <3>1, <3>2
      <3>3. CASE k <= m
        <4>1. m + 1 \in DOMAIN New /\ New[m + 1] = Bs[m]
          BY <1>1, <1>3, <1>4, <3>3
        <4>2. QED
          BY <3>1, <4>1
      <3>4. QED
        BY <1>1, <3>2, <3>3
    <2>3. QED
      BY <2>1, <2>2
  <1>9. QED
    BY <1>7, <1>8 DEF Follows, New, d

(* register_binding leaves the contexts as they were, and gives NULL to a  *)
(* phase that had no bucket.                                               *)
LEMMA RegisterFollows ==
    ASSUME NEW Bs \in Seq(PhaseBucket), Sorted(Bs), NEW p \in Phase, NEW b \in BindingPointer,
           NEW k \in Slots(Bs, p),
           NEW c \in [Phase -> Context \cup {NULL}], Follows(Bs, c)
    PROVE  Follows(register_binding(Bs, k, p, b), c)
  <1> DEFINE found == IF HasPhase(Bs, k, p) THEN Bs ELSE InsertBucket(Bs, k, p, NULL)
             New == register_binding(Bs, k, p, b)
  <1>1. found \in Seq(PhaseBucket)
    BY InsertKeepsBuckets
  <1>2. Follows(found, c)
    <2>1. CASE HasPhase(Bs, k, p)
      BY <2>1
    <2>2. CASE ~HasPhase(Bs, k, p)
      <3>1. c[p] = NULL
        BY <2>2, OtherBuckets DEF Follows
      <3>2. [c EXCEPT ![p] = NULL] = c
        BY <3>1
      <3>3. QED
        BY <2>2, <3>2, InsertFollows
    <2>3. QED
      BY <2>1, <2>2
  <1>3. New = [found EXCEPT ![k] = push_phase_bucket(found[k], b)]
    BY DEF register_binding
  <1> HIDE DEF found, New
  <1>4. DOMAIN New = DOMAIN found
    BY <1>3
  <1>5. \A n \in DOMAIN found : New[n].Phase = found[n].Phase
                                /\ New[n].Phase_Context = found[n].Phase_Context
    <2>1. \A n \in DOMAIN found : found[n] \in PhaseBucket
      BY <1>1
    <2>2. QED
      BY <1>3, <2>1 DEF push_phase_bucket, PhaseBucket
  <1>6. QED
    BY <1>2, <1>4, <1>5 DEF Follows, New

(* set_phase_context gives its phase the context and leaves the others.    *)
LEMMA ContextFollows ==
    ASSUME NEW Bs \in Seq(PhaseBucket), Sorted(Bs), NEW p \in Phase, NEW ctx \in Context,
           NEW k \in Slots(Bs, p),
           NEW c \in [Phase -> Context \cup {NULL}], Follows(Bs, c)
    PROVE  Follows(set_phase_context(Bs, k, p, ctx), [c EXCEPT ![p] = ctx])
  <1>1. CASE HasPhase(Bs, k, p)
    <2> DEFINE New == [Bs EXCEPT ![k].Phase_Context = ctx]
               d == [c EXCEPT ![p] = ctx]
    <2>1. /\ DOMAIN New = DOMAIN Bs
          /\ \A n \in DOMAIN Bs : New[n].Phase = Bs[n].Phase /\ Bs[n].Phase \in Phase
          /\ \A n \in DOMAIN Bs : New[n].Phase_Context = IF n = k THEN ctx
                                                         ELSE Bs[n].Phase_Context
      <3>1. \A n \in DOMAIN Bs : Bs[n] \in PhaseBucket
        OBVIOUS
      <3>2. QED
        BY <3>1 DEF PhaseBucket
    <2>2. d[p] = ctx /\ \A q \in Phase : q # p => d[q] = c[q]
      OBVIOUS
    <2> HIDE DEF New, d
    <2>3. k \in DOMAIN Bs /\ Bs[k].Phase = p
      BY <1>1 DEF HasPhase, Slots
    <2>4. \A n \in DOMAIN Bs : n # k => Bs[n].Phase # p
      BY OtherBuckets
    <2>5. Follows(New, d)
      BY <2>1, <2>2, <2>3, <2>4 DEF Follows
    <2>6. QED
      BY <1>1, <2>5 DEF set_phase_context, New, d
  <1>2. CASE ~HasPhase(Bs, k, p)
    BY <1>2, InsertFollows DEF set_phase_context
  <1>3. QED
    BY <1>1, <1>2

(* The last element takes the place of the k-th: where each then is.       *)
LEMMA SwapRemoveAt ==
    ASSUME NEW S, NEW s \in Seq(S), NEW k \in DOMAIN s
    PROVE  /\ Len(s) \in Nat \ {0} /\ DOMAIN s = 1..Len(s)
           /\ SwapRemove(s, k) \in Seq(S) /\ DOMAIN SwapRemove(s, k) = 1..Len(s) - 1
           /\ \A n \in 1..Len(s) - 1 : SwapRemove(s, k)[n] = IF n = k THEN s[Len(s)] ELSE s[n]
  <1>1. PICK N \in Nat : N = Len(s) - 1 /\ Len(s) = N + 1 /\ DOMAIN s = 1..N + 1
    OBVIOUS
  <1> DEFINE t == [s EXCEPT ![k] = s[Len(s)]]
  <1>2. t \in Seq(S) /\ Len(t) = N + 1
    BY <1>1
  <1>3. \A n \in 1..N : t[n] = IF n = k THEN s[Len(s)] ELSE s[n]
    BY <1>1
  <1> HIDE DEF t
  <1>4. SubSeq(t, 1, N) \in Seq(S) /\ Len(SubSeq(t, 1, N)) = N
    BY <1>2
  <1>5. \A n \in 1..N : SubSeq(t, 1, N)[n] = t[n]
    BY <1>2
  <1>6. SwapRemove(s, k) = SubSeq(t, 1, N)
    BY <1>1, Zenon DEF SwapRemove, t
  <1>7. QED
    BY <1>1, <1>3, <1>4, <1>5, <1>6

-----------------------------------------------------------------------------
(* The bindings a phase has in the buckets.                                *)

BindingsOf(Buckets, p) ==
    IF \E n \in DOMAIN Buckets : Buckets[n].Phase = p
    THEN Buckets[CHOOSE n \in DOMAIN Buckets : Buckets[n].Phase = p].Bindings ELSE << >>

(* In sorted buckets they are those of its only bucket.                    *)
LEMMA BindingsAt ==
    ASSUME NEW Bs \in Seq(PhaseBucket), Sorted(Bs)
    PROVE  /\ \A n \in DOMAIN Bs : BindingsOf(Bs, Bs[n].Phase) = Bs[n].Bindings
           /\ \A p : BindingsOf(Bs, p) \in Seq(BindingPointer)
  <1>1. /\ DOMAIN Bs = 1..Len(Bs) /\ Len(Bs) \in Nat
        /\ \A n \in DOMAIN Bs : Bs[n] \in PhaseBucket
    OBVIOUS
  <1>2. \A n \in DOMAIN Bs : Bs[n].Phase \in Nat /\ Bs[n].Bindings \in Seq(BindingPointer)
    BY <1>1, PhaseAssumption DEF PhaseBucket
  <1>3. ASSUME NEW m \in DOMAIN Bs, NEW n \in DOMAIN Bs, Bs[m].Phase = Bs[n].Phase
        PROVE  m = n
    <2>1. ~(m < n) /\ ~(n < m)
      BY <1>2, <1>3 DEF Sorted
    <2>2. QED
      BY <1>1, <2>1
  <1>4. ASSUME NEW n \in DOMAIN Bs PROVE BindingsOf(Bs, Bs[n].Phase) = Bs[n].Bindings
    <2> DEFINE m == CHOOSE m \in DOMAIN Bs : Bs[m].Phase = Bs[n].Phase
    <2>1. m \in DOMAIN Bs /\ Bs[m].Phase = Bs[n].Phase
      OBVIOUS
    <2>2. m = n
      BY <1>3, <2>1
    <2>3. QED
      BY <2>2 DEF BindingsOf
  <1>5. ASSUME NEW p PROVE BindingsOf(Bs, p) \in Seq(BindingPointer)
    <2>1. CASE \E n \in DOMAIN Bs : Bs[n].Phase = p
      <3>1. PICK n \in DOMAIN Bs : Bs[n].Phase = p
        BY <2>1
      <3>2. BindingsOf(Bs, p) = Bs[n].Bindings
        BY <1>4, <3>1
      <3>3. QED
        BY <1>2, <3>2
    <2>2. CASE ~\E n \in DOMAIN Bs : Bs[n].Phase = p
      BY <2>2 DEF BindingsOf
    <2>3. QED
      BY <2>1, <2>2
  <1>6. QED
    BY <1>4, <1>5

(* A phase has the same bindings when its bucket has, wherever it is; a    *)
(* bucket without bindings is as good as none.                             *)
LEMMA BindingsMatch ==
    ASSUME NEW Bs \in Seq(PhaseBucket), Sorted(Bs), NEW Cs \in Seq(PhaseBucket), Sorted(Cs), NEW p,
           \A n \in DOMAIN Bs : Bs[n].Phase = p =>
              \E m \in DOMAIN Cs : Cs[m].Phase = p /\ Cs[m].Bindings = Bs[n].Bindings,
           \A m \in DOMAIN Cs : Cs[m].Phase = p =>
              (\E n \in DOMAIN Bs : Bs[n].Phase = p) \/ Cs[m].Bindings = << >>
    PROVE  BindingsOf(Cs, p) = BindingsOf(Bs, p)
  <1>1. CASE \E n \in DOMAIN Bs : Bs[n].Phase = p
    <2>1. PICK n \in DOMAIN Bs : Bs[n].Phase = p
      BY <1>1
    <2>2. PICK m \in DOMAIN Cs : Cs[m].Phase = p /\ Cs[m].Bindings = Bs[n].Bindings
      BY <2>1
    <2>3. BindingsOf(Bs, p) = Bs[n].Bindings /\ BindingsOf(Cs, p) = Cs[m].Bindings
      BY <2>1, <2>2, BindingsAt
    <2>4. QED
      BY <2>2, <2>3
  <1>2. CASE ~\E n \in DOMAIN Bs : Bs[n].Phase = p
    <2>1. BindingsOf(Bs, p) = << >>
      BY <1>2 DEF BindingsOf
    <2>2. CASE \E m \in DOMAIN Cs : Cs[m].Phase = p
      <3>1. PICK m \in DOMAIN Cs : Cs[m].Phase = p
        BY <2>2
      <3>2. Cs[m].Bindings = << >> /\ BindingsOf(Cs, p) = Cs[m].Bindings
        BY <1>2, <3>1, BindingsAt
      <3>3. QED
        BY <2>1, <3>2
    <2>3. CASE ~\E m \in DOMAIN Cs : Cs[m].Phase = p
      BY <2>1, <2>3 DEF BindingsOf
    <2>4. QED
      BY <2>2, <2>3
  <1>3. QED
    BY <1>1, <1>2

(* A bucket inserted for a phase that had none changes no phase's bindings. *)
LEMMA InsertBindings ==
    ASSUME NEW Bs \in Seq(PhaseBucket), Sorted(Bs), NEW p \in Phase,
           NEW ctx \in Context \cup {NULL}, NEW k \in Slots(Bs, p), ~HasPhase(Bs, k, p)
    PROVE  LET New == InsertBucket(Bs, k, p, ctx)
           IN  /\ New \in Seq(PhaseBucket) /\ Sorted(New) /\ k \in DOMAIN New /\ New[k].Phase = p
               /\ \A q : BindingsOf(New, q) = BindingsOf(Bs, q)
  <1> DEFINE new == [Phase |-> p, Bindings |-> << >>, Capacity |-> 0, Phase_Context |-> ctx]
             New == InsertBucket(Bs, k, p, ctx)
  <1>1. k \in 1..Len(Bs) + 1 /\ Len(Bs) \in Nat /\ DOMAIN Bs = 1..Len(Bs)
    BY DEF Slots
  <1>2. /\ New \in Seq(PhaseBucket) /\ Len(New) = Len(Bs) + 1 /\ DOMAIN New = 1..Len(Bs) + 1
        /\ \A n \in 1..Len(Bs) + 1 : /\ n < k => New[n] = Bs[n]
                                     /\ n = k => New[n] = new
                                     /\ n > k => New[n] = Bs[n - 1]
    <2>1. New \in Seq(PhaseBucket) /\ Len(New) = Len(Bs) + 1
      BY InsertKeepsBuckets
    <2>2. \A n \in 1..Len(Bs) + 1 : /\ n < k => New[n] = Bs[n]
                                    /\ n = k => New[n] = new
                                    /\ n > k => New[n] = Bs[n - 1]
      BY <1>1, BucketsInserted
    <2> HIDE DEF new, New
    <2>3. DOMAIN New = 1..Len(Bs) + 1
      BY <2>1
    <2>4. QED
      BY <2>1, <2>2, <2>3
  <1>3. Sorted(New)
    BY InsertKeepsBuckets
  <1>4. new.Phase = p /\ new.Bindings = << >>
    OBVIOUS
  <1> HIDE DEF new, New
  <1>5. ASSUME NEW q PROVE BindingsOf(New, q) = BindingsOf(Bs, q)
    <2>1. ASSUME NEW n \in DOMAIN Bs, Bs[n].Phase = q
          PROVE  \E m \in DOMAIN New : New[m].Phase = q /\ New[m].Bindings = Bs[n].Bindings
      <3>1. CASE n < k
        <4>1. n \in DOMAIN New /\ New[n] = Bs[n]
          BY <1>1, <1>2, <3>1
        <4>2. QED
          BY <2>1, <4>1
      <3>2. CASE n >= k
        <4>1. n + 1 \in DOMAIN New /\ New[n + 1] = Bs[n]
          BY <1>1, <1>2, <3>2
        <4>2. QED
          BY <2>1, <4>1
      <3>3. QED
        BY <1>1, <3>1, <3>2
    <2>2. ASSUME NEW m \in DOMAIN New, New[m].Phase = q
          PROVE  (\E n \in DOMAIN Bs : Bs[n].Phase = q) \/ New[m].Bindings = << >>
      <3>1. CASE m < k
        BY <1>1, <1>2, <2>2, <3>1
      <3>2. CASE m = k
        BY <1>1, <1>2, <1>4, <2>2, <3>2
      <3>3. CASE m > k
        <4>1. m - 1 \in DOMAIN Bs /\ New[m] = Bs[m - 1]
          BY <1>1, <1>2, <3>3
        <4>2. QED
          BY <2>2, <4>1
      <3>4. QED
        BY <1>1, <1>2, <3>1, <3>2, <3>3
    <2>3. QED
      BY <1>2, <1>3, <2>1, <2>2, BindingsMatch
  <1>6. k \in DOMAIN New /\ New[k].Phase = p
    BY <1>1, <1>2, <1>4
  <1>7. QED
    BY <1>2, <1>3, <1>5, <1>6 DEF New

(* A bucket replaced by one of the same phase.                             *)
LEMMA ReplaceBindings ==
    ASSUME NEW Bs \in Seq(PhaseBucket), Sorted(Bs), NEW k \in DOMAIN Bs, NEW B \in PhaseBucket,
           B.Phase = Bs[k].Phase
    PROVE  LET New == [Bs EXCEPT ![k] = B]
           IN  /\ New \in Seq(PhaseBucket) /\ Sorted(New)
               /\ \A q : BindingsOf(New, q) = IF q = B.Phase THEN B.Bindings ELSE BindingsOf(Bs, q)
  <1> DEFINE New == [Bs EXCEPT ![k] = B]
  <1>1. New \in Seq(PhaseBucket) /\ Len(New) = Len(Bs) /\ Sorted(New)
    BY ReplaceKeepsBuckets
  <1>2. DOMAIN New = DOMAIN Bs /\ New[k] = B /\ \A n \in DOMAIN Bs : n # k => New[n] = Bs[n]
    OBVIOUS
  <1> HIDE DEF New
  <1>3. BindingsOf(New, B.Phase) = B.Bindings
    BY <1>1, <1>2, BindingsAt
  <1>4. ASSUME NEW q, q # B.Phase PROVE BindingsOf(New, q) = BindingsOf(Bs, q)
    <2>1. \A n \in DOMAIN Bs : Bs[n].Phase = q => New[n] = Bs[n]
      BY <1>2, <1>4
    <2>2. \A n \in DOMAIN New : New[n].Phase = q => New[n] = Bs[n]
      BY <1>2, <1>4
    <2>3. QED
      BY <1>1, <1>2, <2>1, <2>2, BindingsMatch
  <1>5. QED
    BY <1>1, <1>3, <1>4 DEF New

(* A layer is registered in its phase's bucket, behind what is there.      *)
LEMMA RegisterBindings ==
    ASSUME NEW Bs \in Seq(PhaseBucket), Sorted(Bs), NEW p \in Phase, NEW b \in BindingPointer,
           NEW k \in Slots(Bs, p)
    PROVE  \A q : BindingsOf(register_binding(Bs, k, p, b), q)
                    = IF q = p THEN Append(BindingsOf(Bs, p), b) ELSE BindingsOf(Bs, q)
  <1> DEFINE found == IF HasPhase(Bs, k, p) THEN Bs ELSE InsertBucket(Bs, k, p, NULL)
  <1>1. /\ found \in Seq(PhaseBucket) /\ Sorted(found) /\ k \in DOMAIN found /\ found[k].Phase = p
        /\ \A q : BindingsOf(found, q) = BindingsOf(Bs, q)
    <2>1. CASE HasPhase(Bs, k, p)
      <3>1. k \in DOMAIN Bs /\ Bs[k].Phase = p
        BY <2>1 DEF HasPhase, Slots
      <3>2. found = Bs
        BY <2>1
      <3> HIDE DEF found
      <3>3. QED
        BY <3>1, <3>2
    <2>2. CASE ~HasPhase(Bs, k, p)
      <3>1. found = InsertBucket(Bs, k, p, NULL)
        BY <2>2
      <3> HIDE DEF found
      <3>2. NULL \in Context \cup {NULL}
        OBVIOUS
      <3>3. QED
        BY <2>2, <3>1, <3>2, InsertBindings
    <2>3. QED
      BY <2>1, <2>2
  <1>2. register_binding(Bs, k, p, b) = [found EXCEPT ![k] = push_phase_bucket(found[k], b)]
    BY DEF register_binding
  <1> HIDE DEF found
  <1> DEFINE B == push_phase_bucket(found[k], b)
  <1>3. B \in PhaseBucket /\ B.Phase = p
    BY <1>1, PushKeepsBucket
  <1>4. B.Bindings = Append(found[k].Bindings, b)
    <2>1. found[k] \in PhaseBucket
      BY <1>1
    <2>2. QED
      BY <2>1 DEF push_phase_bucket, PhaseBucket
  <1>5. found[k].Bindings = BindingsOf(Bs, p)
    BY <1>1, BindingsAt
  <1> HIDE DEF B
  <1>6. \A q : BindingsOf([found EXCEPT ![k] = B], q)
                 = IF q = B.Phase THEN B.Bindings ELSE BindingsOf(found, q)
    BY <1>1, <1>3, ReplaceBindings
  <1>7. QED
    BY <1>1, <1>2, <1>3, <1>4, <1>5, <1>6 DEF B

(* A context leaves the bindings alone.                                    *)
LEMMA ContextBindings ==
    ASSUME NEW Bs \in Seq(PhaseBucket), Sorted(Bs), NEW p \in Phase, NEW ctx \in Context,
           NEW k \in Slots(Bs, p)
    PROVE  \A q : BindingsOf(set_phase_context(Bs, k, p, ctx), q) = BindingsOf(Bs, q)
  <1>1. CASE HasPhase(Bs, k, p)
    <2>1. k \in DOMAIN Bs /\ Bs[k].Phase = p /\ Bs[k] \in PhaseBucket
      BY <1>1 DEF HasPhase, Slots
    <2> DEFINE B == [Bs[k] EXCEPT !.Phase_Context = ctx]
    <2>2. B \in PhaseBucket /\ B.Phase = p /\ B.Bindings = Bs[k].Bindings
      BY <2>1 DEF PhaseBucket
    <2>3. set_phase_context(Bs, k, p, ctx) = [Bs EXCEPT ![k] = B]
      BY <1>1 DEF set_phase_context
    <2>4. Bs[k].Bindings = BindingsOf(Bs, p)
      BY <2>1, BindingsAt
    <2> HIDE DEF B
    <2>5. \A q : BindingsOf([Bs EXCEPT ![k] = B], q)
                   = IF q = B.Phase THEN B.Bindings ELSE BindingsOf(Bs, q)
      BY <2>1, <2>2, ReplaceBindings
    <2>6. QED
      BY <2>2, <2>3, <2>4, <2>5
  <1>2. CASE ~HasPhase(Bs, k, p)
    <2>1. set_phase_context(Bs, k, p, ctx) = InsertBucket(Bs, k, p, ctx)
      BY <1>2 DEF set_phase_context
    <2>2. QED
      BY <1>2, <2>1, InsertBindings
  <1>3. QED
    BY <1>1, <1>2

(* remove_layer takes one entry of the layer out of a bucket that has any. *)
Leaves(s, t, l) ==
    IF \E n \in DOMAIN s : s[n].Layer = l
    THEN \E k \in DOMAIN s : /\ s[k].Layer = l
                             /\ Len(t) = Len(s) - 1 /\ DOMAIN t = 1..Len(s) - 1
                             /\ \A n \in DOMAIN t : t[n] = IF n = k THEN s[Len(s)] ELSE s[n]
    ELSE t = s

LEMMA RemoveLeaves ==
    ASSUME NEW B \in PhaseBucket, NEW l
    PROVE  Leaves(B.Bindings, remove_layer_phase_bucket(B, l).Bindings, l)
  <1> DEFINE s == B.Bindings
             entries == {k \in DOMAIN s : s[k].Layer = l}
  <1>1. s \in Seq(BindingPointer) /\ DOMAIN s = 1..Len(s) /\ Len(s) \in Nat
    BY DEF PhaseBucket
  <1>2. CASE entries = {}
    BY <1>2 DEF remove_layer_phase_bucket, Leaves
  <1>3. CASE entries # {}
    <2>1. entries \in SUBSET Nat
      BY <1>1
    <2>2. \E x \in entries : \A y \in entries : x <= y
      BY <1>3, <2>1, LeastNumber
    <2>3. Min(entries) \in entries
      BY <2>2 DEF Min
    <2>4. remove_layer_phase_bucket(B, l).Bindings = SwapRemove(s, Min(entries))
      BY <1>3 DEF remove_layer_phase_bucket, PhaseBucket
    <2>5. PICK k \in DOMAIN s : k = Min(entries) /\ s[k].Layer = l
      BY <2>3
    <2> DEFINE t == SwapRemove(s, k)
    <2>6. /\ t \in Seq(BindingPointer) /\ DOMAIN t = 1..Len(s) - 1
          /\ \A n \in 1..Len(s) - 1 : t[n] = IF n = k THEN s[Len(s)] ELSE s[n]
      BY <1>1, SwapRemoveAt
    <2>7. Len(t) = Len(s) - 1
      <3> HIDE DEF t, s
      <3>1. PICK N \in Nat : N = Len(s)
        BY <1>1
      <3>2. QED
        BY <2>6, <3>1
    <2>8. remove_layer_phase_bucket(B, l).Bindings = t
      BY <2>4, <2>5
    <2> HIDE DEF t, s
    <2>9. QED
      BY <2>5, <2>6, <2>7, <2>8 DEF Leaves, s
  <1>4. QED
    BY <1>2, <1>3

LEMMA RemoveBindings ==
    ASSUME NEW Bs \in Seq(PhaseBucket), Sorted(Bs), NEW l
    PROVE  LET New == [n \in DOMAIN Bs |-> remove_layer_phase_bucket(Bs[n], l)]
           IN  \A q : /\ Leaves(BindingsOf(Bs, q), BindingsOf(New, q), l)
                      /\ BindingsOf(New, q) \in Seq(BindingPointer)
  <1> DEFINE New == [n \in DOMAIN Bs |-> remove_layer_phase_bucket(Bs[n], l)]
  <1>1. /\ DOMAIN Bs = 1..Len(Bs) /\ Len(Bs) \in Nat /\ DOMAIN New = DOMAIN Bs
        /\ \A n \in DOMAIN Bs : /\ Bs[n] \in PhaseBucket
                                /\ New[n] = remove_layer_phase_bucket(Bs[n], l)
    OBVIOUS
  <1>2. \A n \in DOMAIN Bs : New[n] \in PhaseBucket /\ New[n].Phase = Bs[n].Phase
    BY <1>1, RemoveKeepsBucket
  <1>3. New \in Seq(PhaseBucket)
    BY <1>1, <1>2
  <1> HIDE DEF New
  <1>4. Sorted(New)
    BY <1>1, <1>2 DEF Sorted
  <1>5. ASSUME NEW q PROVE Leaves(BindingsOf(Bs, q), BindingsOf(New, q), l)
    <2>1. CASE \E n \in DOMAIN Bs : Bs[n].Phase = q
      <3>1. PICK n \in DOMAIN Bs : Bs[n].Phase = q
        BY <2>1
      <3>2. BindingsOf(Bs, q) = Bs[n].Bindings /\ BindingsOf(New, q) = New[n].Bindings
        BY <1>1, <1>2, <1>3, <1>4, <3>1, BindingsAt
      <3>3. QED
        BY <1>1, <3>2, RemoveLeaves
    <2>2. CASE ~\E n \in DOMAIN Bs : Bs[n].Phase = q
      <3>1. BindingsOf(Bs, q) = << >> /\ BindingsOf(New, q) = << >>
        BY <1>1, <1>2, <2>2 DEF BindingsOf
      <3>2. QED
        BY <3>1 DEF Leaves
    <2>3. QED
      BY <2>1, <2>2
  <1>6. \A q : BindingsOf(New, q) \in Seq(BindingPointer)
    BY <1>3, <1>4, BindingsAt
  <1>7. QED
    BY <1>5, <1>6 DEF New
-----------------------------------------------------------------------------
(* Which steps write to the phases' and to the layers' bindings.           *)
=============================================================================
