---------------------------- MODULE SequenceFacts ----------------------------
(***************************************************************************)
(* Facts the proofs keep needing: a set of natural numbers that is not     *)
(* empty has a least element, which serves for the smallest descriptor and *)
(* for induction on a number; how the number of places at which a sequence *)
(* has an element of some set changes with the sequence; and what          *)
(* FlattenSeq does, which is defined by a recursive function.              *)
(***************************************************************************)
EXTENDS Integers, SequencesExt, SequenceTheorems, FiniteSetTheorems, WellFoundedInduction,
        TLAPS

Below == {pair \in Nat \X Nat : pair[1] < pair[2]}

LEMMA BelowWellFounded == IsWellFoundedOn(Below, Nat)
  <1>1. Below = OpToRel(<, Nat)
    BY Zenon DEF Below, OpToRel
  <1>2. QED
    BY <1>1, NatLessThanWellFounded, Zenon

LEMMA LeastNumber ==
    ASSUME NEW T \in SUBSET Nat, T # {}
    PROVE  \E x \in T : \A y \in T : x <= y
  <1>1. ASSUME NEW x \in Nat, NEW y \in Nat, y < x PROVE <<y, x>> \in Below
    <2>1. <<y, x>> \in Nat \X Nat /\ <<y, x>>[1] = y /\ <<y, x>>[2] = x
      OBVIOUS
    <2>2. QED
      BY <1>1, <2>1 DEF Below
  <1>2. PICK x \in T : \A y \in T : ~ (<<y, x>> \in Below)
    BY BelowWellFounded, WFMin
  <1>3. ASSUME NEW y \in T PROVE x <= y
    <2>1. ~ (y < x) /\ x \in Nat /\ y \in Nat
      BY <1>1, <1>2, <1>3
    <2>2. QED
      BY <2>1
  <1>4. QED
    BY <1>2, <1>3

-----------------------------------------------------------------------------
(* How many places of a sequence hold an element of a set.                 *)
Places(s, T) == {n \in DOMAIN s : s[n] \in T}
Occurs(s, T) == Cardinality(Places(s, T))
One(x, T) == IF x \in T THEN 1 ELSE 0

LEMMA OccursType ==
    ASSUME NEW S, NEW s \in Seq(S), NEW T
    PROVE  /\ IsFiniteSet(Places(s, T)) /\ Occurs(s, T) \in Nat
           /\ Occurs(s, T) = 0 <=> \A n \in DOMAIN s : s[n] \notin T
  <1>1. Len(s) \in Nat /\ DOMAIN s = 1..Len(s)
    OBVIOUS
  <1>2. IsFiniteSet(1..Len(s))
    BY <1>1, FS_Interval
  <1>3. Places(s, T) \in SUBSET (1..Len(s))
    BY <1>1 DEF Places
  <1>4. IsFiniteSet(Places(s, T))
    BY <1>2, <1>3, FS_Subset
  <1>5. Occurs(s, T) \in Nat
    BY <1>4, FS_CardinalityType DEF Occurs
  <1>6. Occurs(s, T) = 0 <=> Places(s, T) = {}
    BY <1>4, FS_EmptySet DEF Occurs
  <1>7. QED
    BY <1>4, <1>5, <1>6 DEF Places

(* Two sequences with such elements at the same places.                    *)
LEMMA OccursSame ==
    ASSUME NEW s, NEW t, NEW T, DOMAIN t = DOMAIN s,
           \A n \in DOMAIN s : t[n] \in T <=> s[n] \in T
    PROVE  Occurs(t, T) = Occurs(s, T)
  <1>1. Places(t, T) = Places(s, T)
    BY DEF Places
  <1>2. QED
    BY <1>1 DEF Occurs

(* One element more at the end.                                            *)
LEMMA OccursLonger ==
    ASSUME NEW S, NEW s \in Seq(S), NEW t \in Seq(S), NEW T, Len(t) = Len(s) + 1,
           \A n \in DOMAIN s : t[n] \in T <=> s[n] \in T
    PROVE  Occurs(t, T) = Occurs(s, T) + One(t[Len(t)], T)
  <1>1. PICK N \in Nat : N = Len(s) /\ DOMAIN s = 1..N /\ DOMAIN t = 1..N + 1 /\ Len(t) = N + 1
    OBVIOUS
  <1>2. IsFiniteSet(Places(s, T)) /\ N + 1 \notin Places(s, T) /\ Occurs(s, T) \in Nat
    <2>1. N + 1 \notin Places(s, T)
      BY <1>1 DEF Places
    <2>2. QED
      BY <2>1, OccursType
  <1>3. CASE t[N + 1] \in T
    <2>1. Places(t, T) = Places(s, T) \cup {N + 1}
      BY <1>1, <1>3 DEF Places
    <2>2. Cardinality(Places(s, T) \cup {N + 1}) = Cardinality(Places(s, T)) + 1
      BY <1>2, FS_AddElement
    <2>3. QED
      BY <1>1, <1>3, <2>1, <2>2 DEF Occurs, One
  <1>4. CASE t[N + 1] \notin T
    <2>1. Places(t, T) = Places(s, T)
      BY <1>1, <1>4 DEF Places
    <2>2. QED
      BY <1>1, <1>2, <1>4, <2>1 DEF Occurs, One
  <1>5. QED
    BY <1>3, <1>4

(* One element changed.                                                    *)
LEMMA OccursChange ==
    ASSUME NEW S, NEW s \in Seq(S), NEW t \in Seq(S), NEW T, NEW k \in DOMAIN s,
           Len(t) = Len(s), \A n \in DOMAIN s : n # k => t[n] = s[n]
    PROVE  Occurs(t, T) = Occurs(s, T) - One(s[k], T) + One(t[k], T)
  <1>1. DOMAIN t = DOMAIN s
    OBVIOUS
  <1> DEFINE rest == Places(s, T) \ {k}
  <1>2. IsFiniteSet(Places(s, T)) /\ IsFiniteSet(Places(t, T))
    BY OccursType
  <1>3. IsFiniteSet(rest) /\ Cardinality(rest) \in Nat
    BY <1>2, FS_RemoveElement, FS_CardinalityType
  <1>4. rest = Places(t, T) \ {k}
    BY <1>1 DEF Places
  <1>5. ASSUME NEW u \in {s, t}
        PROVE  Occurs(u, T) = Cardinality(rest) + One(u[k], T)
    <2>1. CASE u[k] \in T
      <3>1. Places(u, T) = rest \cup {k} /\ k \notin rest
        BY <1>1, <1>4, <1>5, <2>1 DEF Places
      <3>2. Cardinality(rest \cup {k}) = Cardinality(rest) + 1
        BY <1>3, <3>1, FS_AddElement
      <3>3. QED
        BY <2>1, <3>1, <3>2 DEF Occurs, One
    <2>2. CASE u[k] \notin T
      <3>1. Places(u, T) = rest
        BY <1>1, <1>4, <1>5, <2>2 DEF Places
      <3>2. QED
        BY <1>3, <2>2, <3>1 DEF Occurs, One
    <2>3. QED
      BY <2>1, <2>2
  <1>6. One(s[k], T) \in Nat /\ One(t[k], T) \in Nat
    BY DEF One
  <1>7. Occurs(s, T) = Cardinality(rest) + One(s[k], T)
        /\ Occurs(t, T) = Cardinality(rest) + One(t[k], T)
    BY <1>5
  <1>8. QED
    BY <1>3, <1>6, <1>7

(* One element taken out, its place taken by the last.                     *)
LEMMA OccursRemove ==
    ASSUME NEW S, NEW s \in Seq(S), NEW t \in Seq(S), NEW T, NEW k \in DOMAIN s,
           Len(t) = Len(s) - 1,
           \A n \in DOMAIN t : t[n] = IF n = k THEN s[Len(s)] ELSE s[n]
    PROVE  Occurs(t, T) = Occurs(s, T) - One(s[k], T)
  <1>1. PICK N \in Nat : /\ N = Len(t) /\ DOMAIN t = 1..N /\ Len(s) = N + 1
                         /\ DOMAIN s = 1..N + 1
    OBVIOUS
  <1> DEFINE u == [s EXCEPT ![k] = s[N + 1]]
  <1>2. /\ u \in Seq(S) /\ Len(u) = N + 1 /\ DOMAIN u = 1..N + 1
        /\ \A n \in 1..N + 1 : u[n] = IF n = k THEN s[N + 1] ELSE s[n]
    BY <1>1
  <1> HIDE DEF u
  <1>3. Occurs(u, T) = Occurs(s, T) - One(s[k], T) + One(u[k], T)
    BY <1>1, <1>2, OccursChange
  <1>4. Occurs(u, T) = Occurs(t, T) + One(u[N + 1], T)
    <2>1. \A n \in DOMAIN t : u[n] = t[n]
      BY <1>1, <1>2
    <2>2. QED
      BY <1>1, <1>2, <2>1, OccursLonger
  <1>5. u[k] = s[N + 1] /\ u[N + 1] = s[N + 1]
    BY <1>1, <1>2
  <1>6. One(s[k], T) \in Nat /\ One(s[N + 1], T) \in Nat
    BY DEF One
  <1>7. Occurs(s, T) \in Nat /\ Occurs(t, T) \in Nat /\ Occurs(u, T) \in Nat
    BY <1>2, OccursType
  <1>8. QED
    BY <1>3, <1>4, <1>5, <1>6, <1>7

-----------------------------------------------------------------------------
(* Sequences joined.                                                       *)

LEMMA ConcatIs ==
    ASSUME NEW S, NEW s \in Seq(S), NEW t \in Seq(S)
    PROVE  /\ s \o t \in Seq(S) /\ Len(s \o t) = Len(s) + Len(t)
           /\ \A x \in 1..Len(s) : (s \o t)[x] = s[x]
           /\ \A x \in 1..Len(t) : (s \o t)[Len(s) + x] = t[x]
    BY ConcatProperties

(* FlattenSeq, which is defined by a recursive function.                   *)

Flattens(f, ss, n) == f = [i \in 1..n |-> IF i = 1 THEN ss[i] ELSE f[i - 1] \o ss[i]]

LEMMA FlattensAt ==
    ASSUME NEW f, NEW ss, NEW n \in Nat, Flattens(f, ss, n), NEW i \in 1..n
    PROVE  f[i] = IF i = 1 THEN ss[i] ELSE f[i - 1] \o ss[i]
  <1> DEFINE g == [j \in 1..n |-> IF j = 1 THEN ss[j] ELSE f[j - 1] \o ss[j]]
  <1>1. g[i] = IF i = 1 THEN ss[i] ELSE f[i - 1] \o ss[i]
    OBVIOUS
  <1>2. f = g
    BY DEF Flattens
  <1> HIDE DEF g
  <1>3. QED
    BY <1>1, <1>2

(* By the least length for which it would not exist.                       *)
LEMMA FlattensExists ==
    ASSUME NEW ss, NEW n \in Nat
    PROVE  \E f : Flattens(f, ss, n)
  <1> DEFINE Bad == {m \in Nat : ~\E f : Flattens(f, ss, m)}
  <1>1. 0 \notin Bad
    <2> DEFINE f == [i \in 1..0 |-> 0]
    <2>1. f = [i \in 1..0 |-> IF i = 1 THEN ss[i] ELSE f[i - 1] \o ss[i]]
      OBVIOUS
    <2> HIDE DEF f
    <2>2. Flattens(f, ss, 0)
      BY <2>1 DEF Flattens
    <2>3. QED
      BY <2>2
  <1>2. ASSUME NEW m \in Nat, m \notin Bad
        PROVE  m + 1 \notin Bad
    <2>1. PICK f : Flattens(f, ss, m)
      BY <1>2
    <2> DEFINE g == [i \in 1..m + 1 |-> IF i <= m THEN f[i]
                                        ELSE IF i = 1 THEN ss[i] ELSE f[i - 1] \o ss[i]]
    <2>2. ASSUME NEW i \in 1..m + 1
          PROVE  g[i] = IF i = 1 THEN ss[i] ELSE g[i - 1] \o ss[i]
      <3>1. i # 1 => i - 1 \in 1..m + 1 /\ i - 1 <= m
        OBVIOUS
      <3>2. i # 1 => g[i - 1] = f[i - 1]
        BY <3>1
      <3>3. CASE i <= m
        <4>1. i \in 1..m /\ g[i] = f[i]
          BY <3>3
        <4> HIDE DEF g
        <4>2. f[i] = IF i = 1 THEN ss[i] ELSE f[i - 1] \o ss[i]
          BY <2>1, <4>1, FlattensAt
        <4>3. QED
          BY <3>2, <4>1, <4>2
      <3>4. CASE ~(i <= m)
        <4>1. g[i] = IF i = 1 THEN ss[i] ELSE f[i - 1] \o ss[i]
          BY <3>4
        <4> HIDE DEF g
        <4>2. QED
          BY <3>2, <4>1
      <3>5. QED
        BY <3>3, <3>4
    <2>3. g = [i \in 1..m + 1 |-> g[i]]
      OBVIOUS
    <2> HIDE DEF g
    <2>4. Flattens(g, ss, m + 1)
      BY <2>2, <2>3 DEF Flattens
    <2>5. QED
      BY <2>4
  <1>3. ASSUME Bad # {} PROVE FALSE
    <2>1. PICK m \in Bad : \A k \in Bad : m <= k
      <3>1. Bad \in SUBSET Nat
        OBVIOUS
      <3> HIDE DEF Bad
      <3>2. QED
        BY <1>3, <3>1, LeastNumber
    <2>2. m \in Nat
      OBVIOUS
    <2> HIDE DEF Bad
    <2>3. m # 0 /\ m - 1 \notin Bad
      BY <1>1, <2>1, <2>2
    <2>4. m - 1 \in Nat /\ (m - 1) + 1 = m
      BY <2>2, <2>3
    <2>5. QED
      BY <1>2, <2>3, <2>4
  <1>4. QED
    BY <1>3

(* Sequences that agree so far are flattened alike so far.                 *)
LEMMA FlattensAgree ==
    ASSUME NEW f, NEW ss, NEW n \in Nat, Flattens(f, ss, n),
           NEW g, NEW tt, NEW m \in Nat, Flattens(g, tt, m),
           n <= m, \A i \in 1..n : ss[i] = tt[i]
    PROVE  \A i \in 1..n : f[i] = g[i]
  <1> DEFINE Bad == {i \in 1..n : f[i] # g[i]}
  <1>1. ASSUME Bad # {} PROVE FALSE
    <2>1. Bad \in SUBSET Nat
      OBVIOUS
    <2>2. PICK i \in Bad : \A j \in Bad : i <= j
      <3> HIDE DEF Bad
      <3>1. QED
        BY <1>1, <2>1, LeastNumber
    <2>3. i \in 1..n /\ i \in 1..m
      OBVIOUS
    <2>4. f[i] = IF i = 1 THEN ss[i] ELSE f[i - 1] \o ss[i]
      BY <2>3, FlattensAt
    <2>5. g[i] = IF i = 1 THEN tt[i] ELSE g[i - 1] \o tt[i]
      BY <2>3, FlattensAt
    <2>6. i # 1 => i - 1 \in 1..n /\ ~(i <= i - 1)
      BY <2>3
    <2>7. i # 1 => f[i - 1] = g[i - 1]
      BY <2>2, <2>6
    <2>8. f[i] = g[i]
      BY <2>3, <2>4, <2>5, <2>7
    <2>9. QED
      BY <2>2, <2>8
  <1>2. QED
    BY <1>1

LEMMA FlattenIs ==
    ASSUME NEW ss, NEW n \in Nat, Len(ss) = n, n > 0
    PROVE  \E f : Flattens(f, ss, n) /\ FlattenSeq(ss) = f[n]
  <1> DEFINE f == CHOOSE f : f = [i \in 1..Len(ss) |-> IF i = 1 THEN ss[i] ELSE f[i - 1] \o ss[i]]
  <1>1. FlattenSeq(ss) = f[n]
    BY DEF FlattenSeq
  <1>2. \E g : g = [i \in 1..Len(ss) |-> IF i = 1 THEN ss[i] ELSE g[i - 1] \o ss[i]]
    BY FlattensExists DEF Flattens
  <1>3. f = [i \in 1..Len(ss) |-> IF i = 1 THEN ss[i] ELSE f[i - 1] \o ss[i]]
    BY <1>2
  <1> HIDE DEF f
  <1>4. Flattens(f, ss, n)
    BY <1>3 DEF Flattens
  <1>5. QED
    BY <1>1, <1>4

LEMMA FlattenEmpty == FlattenSeq(<< >>) = << >>
    BY DEF FlattenSeq

(* It makes sequences of what its sequences are of.                        *)
LEMMA FlattenType ==
    ASSUME NEW S, NEW ss \in Seq(Seq(S))
    PROVE  FlattenSeq(ss) \in Seq(S)
  <1>1. PICK n \in Nat : n = Len(ss)
    OBVIOUS
  <1>2. CASE n = 0
    <2>1. ss = << >> /\ << >> \in Seq(S)
      BY <1>1, <1>2, EmptySeq
    <2>2. QED
      BY <2>1, FlattenEmpty
  <1>3. CASE n # 0
    <2>1. PICK f : Flattens(f, ss, n) /\ FlattenSeq(ss) = f[n]
      BY <1>1, <1>3, FlattenIs
    <2> DEFINE Bad == {k \in 1..n : f[k] \notin Seq(S)}
    <2>2. ASSUME Bad # {} PROVE FALSE
      <3>1. Bad \in SUBSET Nat
        OBVIOUS
      <3>2. PICK k \in Bad : \A m \in Bad : k <= m
        <4> HIDE DEF Bad
        <4>1. QED
          BY <2>2, <3>1, LeastNumber
      <3>3. k \in 1..n /\ f[k] \notin Seq(S)
        OBVIOUS
      <3>4. f[k] = IF k = 1 THEN ss[k] ELSE f[k - 1] \o ss[k]
        BY <2>1, <3>3, FlattensAt
      <3>5. ss[k] \in Seq(S)
        BY <1>1, <3>3
      <3>6. k # 1 /\ k - 1 \in 1..n /\ ~(k <= k - 1)
        BY <3>3, <3>4, <3>5
      <3>7. f[k - 1] \in Seq(S)
        BY <3>2, <3>6
      <3>8. f[k - 1] \o ss[k] \in Seq(S)
        BY <3>5, <3>7, ConcatIs
      <3>9. QED
        BY <3>3, <3>4, <3>6, <3>8
    <2>3. n \in 1..n
      BY <1>3
    <2>4. QED
      BY <2>1, <2>2, <2>3
  <1>4. QED
    BY <1>2, <1>3

(* What FlattenSeq does with one more sequence.                            *)
LEMMA FlattenAppend ==
    ASSUME NEW S, NEW ss \in Seq(Seq(S)), NEW s \in Seq(S), FlattenSeq(ss) \in Seq(S)
    PROVE  /\ FlattenSeq(Append(ss, s)) = FlattenSeq(ss) \o s
           /\ FlattenSeq(Append(ss, s)) \in Seq(S)
  <1> DEFINE tt == Append(ss, s)
  <1>1. PICK n \in Nat : n = Len(ss)
    OBVIOUS
  <1>2. /\ tt \in Seq(Seq(S)) /\ Len(tt) = n + 1 /\ tt[n + 1] = s
        /\ \A i \in 1..n : tt[i] = ss[i]
    BY <1>1
  <1> HIDE DEF tt
  <1>3. PICK g : Flattens(g, tt, n + 1) /\ FlattenSeq(tt) = g[n + 1]
    BY <1>2, FlattenIs
  <1>4. n + 1 \in 1..n + 1 /\ n + 1 \in Nat
    OBVIOUS
  <1>5. g[n + 1] = IF n + 1 = 1 THEN s ELSE g[(n + 1) - 1] \o s
    BY <1>2, <1>3, <1>4, FlattensAt
  <1>6. CASE n = 0
    <2>1. ss = << >>
      BY <1>1, <1>6, EmptySeq
    <2>2. FlattenSeq(tt) = s
      BY <1>3, <1>5, <1>6
    <2>3. FlattenSeq(ss) = << >>
      BY <2>1, FlattenEmpty
    <2>4. << >> \o s = s
      OBVIOUS
    <2>5. QED
      BY <2>2, <2>3, <2>4 DEF tt
  <1>7. CASE n # 0
    <2>1. PICK f : Flattens(f, ss, n) /\ FlattenSeq(ss) = f[n]
      BY <1>1, <1>7, FlattenIs
    <2>2. n \in 1..n /\ (n + 1) - 1 = n /\ n <= n + 1
      BY <1>7
    <2>3. \A i \in 1..n : f[i] = g[i]
      <3>1. \A i \in 1..n : ss[i] = tt[i]
        BY <1>2
      <3>2. n <= n /\ n <= n + 1 /\ n + 1 \in Nat
        OBVIOUS
      <3>3. Flattens(f, ss, n) /\ Flattens(g, tt, n + 1)
        BY <1>3, <2>1
      <3>4. QED
        <4>1. \A F, T, G, U : \A M \in Nat :
                /\ Flattens(F, T, n) /\ Flattens(G, U, M) /\ n <= M
                /\ \A i \in 1..n : T[i] = U[i]
                => \A i \in 1..n : F[i] = G[i]
          BY FlattensAgree
        <4>2. QED
          BY <3>1, <3>2, <3>3, <4>1
    <2>4. FlattenSeq(tt) = FlattenSeq(ss) \o s
      <3>1. g[n] = f[n] /\ n + 1 # 1
        BY <1>7, <2>2, <2>3
      <3>2. g[n + 1] = g[n] \o s
        BY <1>5, <2>2, <3>1
      <3>3. QED
        BY <1>3, <2>1, <3>1, <3>2
    <2>5. QED
      BY <2>4, ConcatIs DEF tt
  <1>8. QED
    BY <1>6, <1>7
=============================================================================
