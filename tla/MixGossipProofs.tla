-------------------------- MODULE MixGossipProofs --------------------------
(***************************************************************************)
(* Theorems about the stagger nodes (StaggerGossip) and about populations  *)
(* of all three kinds of node (MixGossip), for every peer graph, every     *)
(* assignment of kinds to nodes and every set of keys.                     *)
(*                                                                         *)
(* Absorbing a batch and sorting it by kind are folds over sequences.  The *)
(* first section shows that the fold of the community modules runs through *)
(* its sequence from element to element, by induction over a set of        *)
(* numbers; the second uses it for the operators of the model.  The steps  *)
(* of both specifications are then described by what they do to the stores *)
(* (StoreStep) and to the queues (Emits, Moves, Takes), and the parts of   *)
(* the invariants are shown to be kept by whatever does only that.         *)
(***************************************************************************)
EXTENDS MixGossip, FiniteSetTheorems, WellFoundedInduction, TLAPS

-----------------------------------------------------------------------------
(***************************************************************************)
(* Folds over sequences                                                    *)
(***************************************************************************)

\* Every nonempty set of numbers has a least element.
LEMMA LeastNumber ==
  ASSUME NEW T \in SUBSET Nat, T # {}
  PROVE  \E x \in T : \A y \in T : x <= y
<1> DEFINE R == {ss \in Nat \X Nat : ss[1] < ss[2]}
<1>1. IsWellFoundedOn(R, Nat)
  <2>1. OpToRel(<, Nat) = R
    BY Zenon DEF OpToRel
  <2> QED
    BY <2>1, NatLessThanWellFounded, Zenon
<1> HIDE DEF R
<1>2. PICK x \in T : \A y \in T : ~ (<<y, x>> \in R)
  BY <1>1, WFMin, Zenon
<1>3. \A y \in T : ~ (y < x)
  BY <1>2 DEF R
<1> QED
  BY <1>2, <1>3

\* Induction over a set: a set that holds 0, and with every number the next
\* one, holds all of them.
LEMMA SetInduction ==
  ASSUME NEW S, 0 \in S, \A n \in Nat : n \in S => n + 1 \in S
  PROVE  Nat \subseteq S
<1> DEFINE T == Nat \ S
<1> SUFFICES ASSUME T # {} PROVE FALSE
  OBVIOUS
<1>1. PICK x \in T : \A y \in T : x <= y
  <2>1. T \in SUBSET Nat
    OBVIOUS
  <2> HIDE DEF T
  <2> QED
    BY <2>1, LeastNumber
<1>2. x # 0 /\ x \in Nat
  OBVIOUS
<1>3. x - 1 \in Nat /\ ~ (x <= x - 1)
  BY <1>2
<1>4. x - 1 \in S
  BY <1>1, <1>3
<1> QED
  BY <1>2, <1>3, <1>4

\* Max, of the community modules, of a set of indices.
LEMMA MaxFacts ==
  ASSUME NEW n \in Nat, NEW s \in SUBSET (1 .. n), s # {}
  PROVE  Max(s) \in s /\ \A y \in s : Max(s) >= y
<1> DEFINE T == {n - y : y \in s}
<1>1. PICK d \in T : \A e \in T : d <= e
  <2>1. \A y \in s : n - y \in Nat
    OBVIOUS
  <2>2. T \subseteq Nat /\ T # {}
    BY <2>1
  <2> HIDE DEF T
  <2> QED
    BY <2>2, LeastNumber
<1>2. PICK x \in s : d = n - x
  OBVIOUS
<1>3. ASSUME NEW y \in s PROVE x >= y
  <2>1. n - y \in T
    OBVIOUS
  <2>2. d <= n - y
    BY <2>1, <1>1
  <2> QED
    BY <1>2, <2>2
<1> QED
  BY <1>2, <1>3 DEF Max

\* f solves the equation by which the community modules define a fold over the
\* indices in D: st takes a value and the next element to the next value.
FoldOf(f, D, base, seq, st) ==
  \A s \in SUBSET D : f[s] = IF s = {} THEN base ELSE st[<<f[s \ {Max(s)}], seq[Max(s)]>>]

\* A fold over a sequence has a value for every set of its indices.
LEMMA FoldExists ==
  ASSUME NEW V, NEW base \in V, NEW I, NEW seq \in Seq(I), NEW st \in [V \X I -> V]
  PROVE  \E f \in [SUBSET (1 .. Len(seq)) -> V] : FoldOf(f, 1 .. Len(seq), base, seq, st)
<1> DEFINE P(n) == n <= Len(seq) => \E f \in [SUBSET (1 .. n) -> V] : FoldOf(f, 1 .. n, base, seq, st)
           S == {n \in Nat : P(n)}
<1>1. P(0)
  <2> DEFINE f == [s \in SUBSET (1 .. 0) |-> base]
  <2>1. f \in [SUBSET (1 .. 0) -> V]
    OBVIOUS
  <2>2. FoldOf(f, 1 .. 0, base, seq, st)
    BY DEF FoldOf
  <2> HIDE DEF f
  <2> QED
    BY <2>1, <2>2
<1>2. ASSUME NEW n \in Nat, P(n) PROVE P(n + 1)
  <2> SUFFICES ASSUME n + 1 <= Len(seq)
               PROVE  \E f \in [SUBSET (1 .. n + 1) -> V] : FoldOf(f, 1 .. n + 1, base, seq, st)
    OBVIOUS
  <2>0. n <= Len(seq) /\ Len(seq) \in Nat
    OBVIOUS
  <2>1. PICK g \in [SUBSET (1 .. n) -> V] : FoldOf(g, 1 .. n, base, seq, st)
    BY <1>2, <2>0, Zenon
  <2> DEFINE f == [s \in SUBSET (1 .. n + 1) |->
                     IF n + 1 \in s THEN st[<<g[s \ {n + 1}], seq[n + 1]>>] ELSE g[s]]
  <2>2. seq[n + 1] \in I
    OBVIOUS
  <2>3. ASSUME NEW s \in SUBSET (1 .. n + 1)
        PROVE  /\ f[s] \in V
               /\ f[s] = IF s = {} THEN base ELSE st[<<f[s \ {Max(s)}], seq[Max(s)]>>]
    <3>1. CASE n + 1 \in s
      <4>1. Max(s) = n + 1
        <5>1. n + 1 \in Nat /\ s # {}
          BY <3>1
        <5>2. Max(s) \in s /\ \A y \in s : Max(s) >= y
          BY <5>1, MaxFacts
        <5>3. Max(s) \in 1 .. n + 1 /\ Max(s) >= n + 1
          BY <3>1, <5>2
        <5> HIDE DEF f
        <5> QED
          BY <5>3
      <4>2. s \ {n + 1} \in SUBSET (1 .. n) /\ s \ {n + 1} \in SUBSET (1 .. n + 1)
        OBVIOUS
      <4>3. f[s \ {n + 1}] = g[s \ {n + 1}] /\ g[s \ {n + 1}] \in V
        BY <4>2
      <4>4. f[s] = st[<<g[s \ {n + 1}], seq[n + 1]>>]
        BY <3>1
      <4>5. <<g[s \ {n + 1}], seq[n + 1]>> \in V \X I
        BY <2>2, <4>3
      <4>6. f[s] \in V
        BY <4>4, <4>5
      <4> HIDE DEF f
      <4> QED
        BY <3>1, <4>1, <4>3, <4>4, <4>6
    <3>2. CASE n + 1 \notin s
      <4>1. s \in SUBSET (1 .. n)
        BY <3>2
      <4>2. f[s] = g[s]
        BY <3>2
      <4>3. CASE s = {}
        BY <4>1, <4>2, <4>3, <2>1 DEF FoldOf
      <4>4. CASE s # {}
        <5>1. Max(s) \in s
          BY <4>1, <4>4, MaxFacts
        <5>2. s \ {Max(s)} \in SUBSET (1 .. n) /\ s \ {Max(s)} \in SUBSET (1 .. n + 1)
              /\ n + 1 \notin s \ {Max(s)}
          BY <3>2, <4>1
        <5>3. f[s \ {Max(s)}] = g[s \ {Max(s)}]
          BY <5>2
        <5>4. g[s] = st[<<g[s \ {Max(s)}], seq[Max(s)]>>]
          BY <4>1, <4>4, <2>1 DEF FoldOf
        <5>5. g[s] \in V
          BY <4>1
        <5> HIDE DEF f
        <5> QED
          BY <4>2, <4>4, <5>3, <5>4, <5>5
      <4> QED
        BY <4>3, <4>4
    <3> QED
      BY <3>1, <3>2
  <2>4. f \in [SUBSET (1 .. n + 1) -> V]
    <3>1. \A s \in SUBSET (1 .. n + 1) : f[s] \in V
      BY <2>3
    <3> QED
      BY <3>1
  <2>5. FoldOf(f, 1 .. n + 1, base, seq, st)
    BY <2>3 DEF FoldOf
  <2> HIDE DEF f
  <2> QED
    BY <2>4, <2>5
<1>3. P(Len(seq))
  <2> HIDE DEF P
  <2>1. 0 \in S /\ \A n \in Nat : n \in S => n + 1 \in S
    BY <1>1, <1>2
  <2>2. Nat \subseteq S
    <3> HIDE DEF S
    <3> QED
      BY <2>1, SetInduction
  <2>3. Len(seq) \in Nat
    OBVIOUS
  <2> QED
    BY <2>2, <2>3
<1>4. Len(seq) <= Len(seq)
  OBVIOUS
<1> QED
  BY <1>3, <1>4, Zenon

\* The initial intervals of the indices are what a fold goes through.
LEMMA MaxOfInterval ==
  ASSUME NEW i \in Nat, i # 0
  PROVE  Max(1 .. i) = i /\ (1 .. i) \ {Max(1 .. i)} = 1 .. (i - 1)
<1>1. 1 .. i \in SUBSET (1 .. i) /\ 1 .. i # {}
  OBVIOUS
<1>2. Max(1 .. i) \in 1 .. i /\ \A y \in 1 .. i : Max(1 .. i) >= y
  BY <1>1, MaxFacts
<1> HIDE DEF Max
<1>3. Max(1 .. i) >= i
  BY <1>2
<1>4. Max(1 .. i) = i
  BY <1>2, <1>3
<1> QED
  BY <1>4

\* They are sets of indices.
LEMMA InitialInterval ==
  ASSUME NEW n \in Nat, NEW i \in 1 .. n
  PROVE  i \in Nat /\ i # 0 /\ 1 .. i \in SUBSET (1 .. n) /\ 1 .. i # {}
  OBVIOUS

\* The values a fold goes through, one for each prefix of the sequence: F is
\* the function by which the community modules define it.
FoldsBy(F, V, base, seq, st) ==
  /\ F[{}] = base
  /\ \A s \in SUBSET (1 .. Len(seq)) : s # {} /\ F[s \ {Max(s)}] \in V =>
       F[s] = st[<<F[s \ {Max(s)}], seq[Max(s)]>>]

\* F folds the sequence by way of the values h.
Goes(F, V, base, seq, st) ==
  \E h \in [0 .. Len(seq) -> V] :
    /\ h[0] = base
    /\ \A i \in 1 .. Len(seq) : h[i] = st[<<h[i - 1], seq[i]>>]
    /\ F[1 .. Len(seq)] = h[Len(seq)]

\* The defining function of a fold has such values, one after the other.
LEMMA FoldRun ==
  ASSUME NEW V, NEW base \in V, NEW I, NEW seq \in Seq(I), NEW st \in [V \X I -> V], NEW F,
         FoldsBy(F, V, base, seq, st)
  PROVE  Goes(F, V, base, seq, st)
<1> USE DEF FoldsBy
<1>1. Len(seq) \in Nat /\ \A i \in 1 .. Len(seq) : seq[i] \in I
  OBVIOUS
<1>2. ASSUME NEW i \in 1 .. Len(seq), F[1 .. (i - 1)] \in V
      PROVE  F[1 .. i] = st[<<F[1 .. (i - 1)], seq[i]>>]
  <2>1. i \in Nat /\ i # 0 /\ 1 .. i \in SUBSET (1 .. Len(seq)) /\ 1 .. i # {}
    BY <1>1, InitialInterval
  <2>2. Max(1 .. i) = i /\ (1 .. i) \ {Max(1 .. i)} = 1 .. (i - 1)
    BY <2>1, MaxOfInterval
  <2> QED
    BY <1>2, <2>1, <2>2
<1>3. ASSUME NEW v \in V, NEW x \in I PROVE st[<<v, x>>] \in V
  OBVIOUS
<1> DEFINE P(i) == i <= Len(seq) => F[1 .. i] \in V
           S == {i \in Nat : P(i)}
<1>4. P(0)
  <2>1. 1 .. 0 = {}
    OBVIOUS
  <2> QED
    BY <2>1
<1>5. ASSUME NEW i \in Nat, P(i) PROVE P(i + 1)
  <2> SUFFICES ASSUME i + 1 <= Len(seq) PROVE F[1 .. (i + 1)] \in V
    OBVIOUS
  <2>1. i + 1 \in 1 .. Len(seq) /\ (i + 1) - 1 = i /\ i <= Len(seq)
    BY <1>1
  <2>2. F[1 .. i] \in V
    BY <1>5, <2>1
  <2>3. F[1 .. (i + 1)] = st[<<F[1 .. i], seq[i + 1]>>]
    BY <1>2, <2>1, <2>2
  <2> QED
    BY <1>1, <1>3, <2>1, <2>2, <2>3
<1> HIDE DEF P
<1>6. 0 \in S /\ \A i \in Nat : i \in S => i + 1 \in S
  BY <1>4, <1>5
<1>7. \A i \in 0 .. Len(seq) : F[1 .. i] \in V
  <2>1. Nat \subseteq S
    <3> HIDE DEF S
    <3> QED
      BY <1>6, SetInduction
  <2>2. \A i \in Nat : P(i)
    BY <2>1
  <2> QED
    BY <1>1, <2>2 DEF P
<1> DEFINE h == [i \in 0 .. Len(seq) |-> F[1 .. i]]
<1>8. h \in [0 .. Len(seq) -> V]
  BY <1>7
<1>9. h[0] = base
  <2>1. 1 .. 0 = {}
    OBVIOUS
  <2> QED
    BY <1>1, <2>1
<1>10. ASSUME NEW i \in 1 .. Len(seq) PROVE h[i] = st[<<h[i - 1], seq[i]>>]
  <2>1. i - 1 \in 0 .. Len(seq) /\ i \in 0 .. Len(seq)
    BY <1>1
  <2>2. F[1 .. i] = st[<<F[1 .. (i - 1)], seq[i]>>]
    BY <1>2, <1>7, <2>1
  <2> QED
    BY <2>1, <2>2
<1>11. F[1 .. Len(seq)] = h[Len(seq)]
  BY <1>1
<1> HIDE DEF h
<1> QED
  BY <1>8, <1>9, <1>10, <1>11 DEF Goes

-----------------------------------------------------------------------------
(***************************************************************************)
(* Absorbing a batch                                                       *)
(***************************************************************************)

\* What a fold over the items of a batch goes through.
Absorption == [state : State, fresh : Seq(Item)]

\* One item of a batch leads from one to the next.
LEMMA AbsorbItemType ==
  ASSUME NEW acc \in Absorption, NEW it \in Item PROVE AbsorbItem(acc, it) \in Absorption
  BY DEF Absorption, AbsorbItem, Item, State, Version

\* Absorbing a batch goes from item to item.
LEMMA AbsorbRun ==
  ASSUME NEW m \in State, NEW items \in Seq(Item)
  PROVE  \E h \in [0 .. Len(items) -> Absorption] :
           /\ h[0] = [state |-> m, fresh |-> << >>]
           /\ \A i \in 1 .. Len(items) : h[i] = AbsorbItem(h[i - 1], items[i])
           /\ AbsorbItems(m, items) = h[Len(items)]
<1> DEFINE start == [state |-> m, fresh |-> << >>]
           D == 1 .. Len(items)
           Eq(sol) == sol = [s \in SUBSET DOMAIN items |->
                           IF s = {} THEN start ELSE AbsorbItem(sol[s \ {Max(s)}], items[Max(s)])]
           step == [x \in Absorption \X Item |-> AbsorbItem(x[1], x[2])]
           run == CHOOSE sol : Eq(sol)
<1>1. start \in Absorption
  BY DEF Absorption
<1>2. step \in [Absorption \X Item -> Absorption]
  BY AbsorbItemType
<1>3. DOMAIN items = D /\ Len(items) \in Nat /\ \A i \in D : items[i] \in Item
  OBVIOUS
<1>4. ASSUME NEW v \in Absorption, NEW x \in Item PROVE step[<<v, x>>] = AbsorbItem(v, x)
  OBVIOUS
<1>5. PICK sol \in [SUBSET D -> Absorption] : FoldOf(sol, D, start, items, step)
  BY <1>1, <1>2, FoldExists
<1>6. ASSUME NEW s \in SUBSET D, s # {} PROVE Max(s) \in D /\ s \ {Max(s)} \in SUBSET D
  BY <1>3, <1>6, MaxFacts
<1> HIDE DEF start, D, step
<1>7. Eq(sol)
  <2>1. ASSUME NEW s \in SUBSET D, s # {}
        PROVE  sol[s] = AbsorbItem(sol[s \ {Max(s)}], items[Max(s)])
    BY <1>3, <1>4, <1>5, <1>6, <2>1 DEF FoldOf
  <2>2. sol[{}] = start
    BY <1>5 DEF FoldOf
  <2> QED
    BY <1>3, <2>1, <2>2
<1>8. Eq(run)
  BY <1>7, Zenon
<1>9. AbsorbItems(m, items) = run[DOMAIN items]
  BY Zenon DEF AbsorbItems, FoldLeft, MapThenFoldSet, start
<1>10. run[{}] = start
  BY <1>3, <1>8
<1>11. ASSUME NEW s \in SUBSET D, s # {}, run[s \ {Max(s)}] \in Absorption
       PROVE  run[s] = step[<<run[s \ {Max(s)}], items[Max(s)]>>]
  <2>1. run[s] = AbsorbItem(run[s \ {Max(s)}], items[Max(s)])
    <3> HIDE DEF run
    <3> QED
      BY <1>3, <1>8, <1>11
  <2> HIDE DEF run
  <2> QED
    BY <1>3, <1>4, <1>6, <1>11, <2>1
<1> HIDE DEF run
<1>12. PICK h \in [0 .. Len(items) -> Absorption] :
         /\ h[0] = start
         /\ \A i \in 1 .. Len(items) : h[i] = step[<<h[i - 1], items[i]>>]
         /\ run[1 .. Len(items)] = h[Len(items)]
  <2>1. FoldsBy(run, Absorption, start, items, step)
    BY <1>10, <1>11 DEF D, FoldsBy
  <2>2. Goes(run, Absorption, start, items, step)
    BY <1>1, <1>2, <2>1, FoldRun, Zenon
  <2> QED
    BY <2>2, Zenon DEF Goes
<1>13. ASSUME NEW i \in 1 .. Len(items) PROVE h[i] = AbsorbItem(h[i - 1], items[i])
  <2>1. h[i - 1] \in Absorption
    BY <1>3, <1>12
  <2> QED
    BY <1>3, <1>4, <1>12, <2>1 DEF D
<1> QED
  BY <1>3, <1>9, <1>12, <1>13 DEF start, D

\* What absorbing the first n items of a batch into m has come to.
Absorbed(m, items, n, a) ==
  /\ \A k \in Key : a.state[k] >= m[k] /\ (a.state[k] # m[k] => Carries(a.fresh, ItemOf(k, a.state[k])))
  /\ \A i \in 1 .. n : items[i].ts <= a.state[items[i].key]
  /\ \A j \in DOMAIN a.fresh :
       /\ \E i \in 1 .. n : items[i] = a.fresh[j]
       /\ m[a.fresh[j].key] < a.fresh[j].ts
       /\ a.fresh[j].ts <= a.state[a.fresh[j].key]
  /\ \A i, j \in DOMAIN a.fresh :
       i < j /\ a.fresh[i].key = a.fresh[j].key => a.fresh[i].ts < a.fresh[j].ts

\* What an item is made of.
LEMMA ItemParts == \A x \in Item : x.key \in Key /\ x.ts \in Nat /\ x = ItemOf(x.key, x.ts)
  BY DEF Item, ItemOf

\* One more item of a batch.
LEMMA AbsorbStep ==
  ASSUME NEW m \in State, NEW items \in Seq(Item), NEW a \in Absorption,
         NEW n \in Nat, n + 1 <= Len(items), Absorbed(m, items, n, a)
  PROVE  Absorbed(m, items, n + 1, AbsorbItem(a, items[n + 1]))
<1> DEFINE it == items[n + 1]
           b == AbsorbItem(a, it)
<1>1. it \in Item /\ it.key \in Key /\ it.ts \in Nat
  <2>1. it \in Item
    OBVIOUS
  <2> QED
    BY <2>1, ItemParts
<1>2. a.state \in State /\ a.fresh \in Seq(Item) /\ \A k \in Key : a.state[k] \in Int /\ m[k] \in Int
  BY DEF Absorption, State, Version, Absent
<1>3. \A j \in DOMAIN a.fresh : a.fresh[j] \in Item /\ a.fresh[j].key \in Key /\ a.fresh[j].ts \in Nat
  <2>1. \A j \in DOMAIN a.fresh : a.fresh[j] \in Item
    BY <1>2
  <2> QED
    BY <2>1, ItemParts
<1>4. \A i \in 1 .. n : items[i] \in Item /\ items[i].key \in Key /\ items[i].ts \in Nat
  <2>1. \A i \in 1 .. n : items[i] \in Item
    OBVIOUS
  <2> QED
    BY <2>1, ItemParts
<1>5. n + 1 \in 1 .. n + 1 /\ \A i \in 1 .. n + 1 : i \in 1 .. n \/ i = n + 1
  OBVIOUS
<1>6. \A i \in 1 .. n : i \in 1 .. n + 1
  OBVIOUS
<1>7. CASE ~ (it.ts > a.state[it.key])
  <2>1. b = a
    BY <1>7 DEF AbsorbItem, Supersedes
  <2>2. it.ts <= a.state[it.key]
    BY <1>1, <1>2, <1>7
  <2> HIDE DEF b
  <2>3. \A i \in 1 .. n + 1 : items[i].ts <= b.state[items[i].key]
    BY <1>5, <2>1, <2>2 DEF Absorbed
  <2>4. \A j \in DOMAIN b.fresh : \E i \in 1 .. n + 1 : items[i] = b.fresh[j]
    BY <1>6, <2>1, Zenon DEF Absorbed
  <2> HIDE DEF it
  <2>5. Absorbed(m, items, n + 1, b)
    BY <2>1, <2>3, <2>4 DEF Absorbed
  <2> QED
    BY <2>5 DEF b, it
<1>8. CASE it.ts > a.state[it.key]
  <2>1. b.state = [a.state EXCEPT ![it.key] = it.ts] /\ b.fresh = Append(a.fresh, it)
    BY <1>8 DEF AbsorbItem, Supersedes
  <2> DEFINE len == Len(a.fresh)
  <2>2. /\ len \in Nat /\ DOMAIN a.fresh = 1 .. len /\ DOMAIN b.fresh = 1 .. len + 1
        /\ b.fresh[len + 1] = it /\ \A j \in 1 .. len : b.fresh[j] = a.fresh[j]
    BY <1>1, <1>2, <2>1
  <2>3. \A k \in Key : b.state[k] = IF k = it.key THEN it.ts ELSE a.state[k]
    BY <1>2, <2>1 DEF State
  <2>4. \A k \in Key : b.state[k] >= a.state[k]
    BY <1>1, <1>2, <1>8, <2>3
  <2>5. len + 1 \in 1 .. len + 1 /\ \A j \in 1 .. len + 1 : j \in 1 .. len \/ j = len + 1
    BY <2>2
  <2>6. \A j \in 1 .. len : j \in 1 .. len + 1 /\ j < len + 1
    BY <2>2
  <2> HIDE DEF b, it, len
  <2>7. ASSUME NEW k \in Key
        PROVE  b.state[k] >= m[k] /\ (b.state[k] # m[k] => Carries(b.fresh, ItemOf(k, b.state[k])))
    <3>1. a.state[k] >= m[k] /\ b.state[k] \in Int
      BY <1>1, <1>2, <2>3 DEF Absorbed
    <3>2. b.state[k] >= m[k]
      BY <1>2, <2>4, <3>1
    <3>3. CASE k = it.key
      <4>1. it = ItemOf(k, b.state[k])
        BY <1>1, <2>3, <3>3, ItemParts
      <4> QED
        BY <2>2, <2>5, <3>2, <4>1 DEF Carries
    <3>4. CASE k # it.key
      <4>1. b.state[k] = a.state[k]
        BY <2>3, <3>4
      <4>2. a.state[k] # m[k] => Carries(a.fresh, ItemOf(k, a.state[k]))
        BY DEF Absorbed
      <4>3. Carries(a.fresh, ItemOf(k, a.state[k])) => Carries(b.fresh, ItemOf(k, a.state[k]))
        BY <2>2, <2>6 DEF Carries
      <4> QED
        BY <3>2, <4>1, <4>2, <4>3
    <3> QED
      BY <3>3, <3>4
  <2>8. ASSUME NEW i \in 1 .. n + 1 PROVE items[i].ts <= b.state[items[i].key]
    <3>1. CASE i \in 1 .. n
      <4>1. items[i].ts <= a.state[items[i].key] /\ a.state[items[i].key] <= b.state[items[i].key]
        BY <1>2, <1>4, <2>4, <3>1 DEF Absorbed
      <4>2. b.state[items[i].key] \in Int
        <5>1. items[i].key \in Key
          BY <1>4, <3>1
        <5> QED
          BY <1>1, <1>2, <2>3, <5>1
      <4> QED
        BY <1>2, <1>4, <3>1, <4>1, <4>2
    <3>2. CASE i = n + 1
      BY <1>1, <2>3, <3>2 DEF it
    <3> QED
      BY <1>5, <3>1, <3>2
  <2>9. ASSUME NEW j \in DOMAIN b.fresh
        PROVE  /\ \E i \in 1 .. n + 1 : items[i] = b.fresh[j]
               /\ m[b.fresh[j].key] < b.fresh[j].ts
               /\ b.fresh[j].ts <= b.state[b.fresh[j].key]
    <3>1. CASE j \in 1 .. len
      <4>1. \E i \in 1 .. n : items[i] = a.fresh[j]
        BY <2>2, <3>1 DEF Absorbed
      <4>2. m[a.fresh[j].key] < a.fresh[j].ts /\ a.fresh[j].ts <= a.state[a.fresh[j].key]
        BY <2>2, <3>1 DEF Absorbed
      <4>3. a.state[a.fresh[j].key] <= b.state[a.fresh[j].key] /\ b.state[a.fresh[j].key] \in Int
        BY <1>1, <1>2, <1>3, <2>2, <2>3, <2>4, <3>1
      <4>4. a.fresh[j].ts <= b.state[a.fresh[j].key]
        BY <1>2, <1>3, <2>2, <3>1, <4>2, <4>3
      <4> QED
        BY <1>6, <2>2, <3>1, <4>1, <4>2, <4>4
    <3>2. CASE j = len + 1
      <4>1. b.fresh[j] = items[n + 1]
        BY <2>2, <3>2 DEF it
      <4>2. m[it.key] < it.ts
        BY <1>1, <1>2, <1>8 DEF Absorbed
      <4>3. it.ts <= b.state[it.key]
        BY <1>1, <2>3
      <4> QED
        BY <1>5, <4>1, <4>2, <4>3 DEF it
    <3> QED
      BY <2>2, <2>5, <3>1, <3>2
  <2>10. ASSUME NEW i \in DOMAIN b.fresh, NEW j \in DOMAIN b.fresh,
                i < j, b.fresh[i].key = b.fresh[j].key
         PROVE  b.fresh[i].ts < b.fresh[j].ts
    <3>1. i \in 1 .. len
      BY <2>2, <2>10
    <3>2. CASE j \in 1 .. len
      BY <2>2, <2>10, <3>1, <3>2 DEF Absorbed
    <3>3. CASE j = len + 1
      <4>1. b.fresh[i] = a.fresh[i] /\ b.fresh[j] = it /\ a.fresh[i].key = it.key
        BY <2>2, <2>10, <3>1, <3>3
      <4>2. a.fresh[i].ts <= a.state[it.key]
        BY <2>2, <3>1, <4>1 DEF Absorbed
      <4> QED
        BY <1>1, <1>2, <1>3, <1>8, <2>2, <3>1, <4>1, <4>2
    <3> QED
      BY <2>2, <2>5, <3>2, <3>3
  <2>11. Absorbed(m, items, n + 1, b)
    BY <2>7, <2>8, <2>9, <2>10 DEF Absorbed
  <2> QED
    BY <2>11 DEF b, it
<1> QED
  BY <1>7, <1>8

\* What absorbing a batch stores and what it finds fresh.
LEMMA AbsorbFacts ==
  ASSUME NEW m \in State, NEW items \in Seq(Item)
  PROVE  /\ AbsorbItems(m, items) \in Absorption
         /\ Absorbed(m, items, Len(items), AbsorbItems(m, items))
<1>1. PICK h \in [0 .. Len(items) -> Absorption] :
        /\ h[0] = [state |-> m, fresh |-> << >>]
        /\ \A i \in 1 .. Len(items) : h[i] = AbsorbItem(h[i - 1], items[i])
        /\ AbsorbItems(m, items) = h[Len(items)]
  BY AbsorbRun
<1> DEFINE P(i) == i <= Len(items) => Absorbed(m, items, i, h[i])
           S == {i \in Nat : P(i)}
<1>2. P(0)
  BY <1>1 DEF Absorbed, State, Version, Absent
<1>3. ASSUME NEW i \in Nat, P(i) PROVE P(i + 1)
  <2> SUFFICES ASSUME i + 1 <= Len(items) PROVE Absorbed(m, items, i + 1, h[i + 1])
    OBVIOUS
  <2>1. i <= Len(items) /\ i + 1 \in 1 .. Len(items) /\ (i + 1) - 1 = i /\ h[i] \in Absorption
    OBVIOUS
  <2>2. Absorbed(m, items, i, h[i])
    BY <1>3, <2>1
  <2>3. h[i + 1] = AbsorbItem(h[i], items[i + 1])
    BY <1>1, <2>1
  <2> QED
    BY <2>1, <2>2, <2>3, AbsorbStep
<1> HIDE DEF P
<1>4. 0 \in S /\ \A i \in Nat : i \in S => i + 1 \in S
  BY <1>2, <1>3
<1>5. Nat \subseteq S
  <2> HIDE DEF S
  <2> QED
    BY <1>4, SetInduction
<1>6. P(Len(items))
  BY <1>5
<1> QED
  BY <1>1, <1>6 DEF P

-----------------------------------------------------------------------------
(***************************************************************************)
(* Sorting a batch by kind                                                 *)
(***************************************************************************)

\* What a joined queue carries.
LEMMA CarriesJoined ==
  ASSUME NEW a \in Seq(Item), NEW b \in Seq(Item), NEW it
  PROVE  /\ a \o b \in Seq(Item)
         /\ Carries(a \o b, it) <=> Carries(a, it) \/ Carries(b, it)
<1>1. a \o b \in Seq(Item) /\ Len(a) \in Nat /\ Len(b) \in Nat /\ Len(a \o b) = Len(a) + Len(b)
  OBVIOUS
<1>2. \A i \in 1 .. Len(a) : (a \o b)[i] = a[i]
  OBVIOUS
<1>3. \A i \in 1 .. Len(b) : (a \o b)[Len(a) + i] = b[i]
  OBVIOUS
<1>4. /\ DOMAIN a = 1 .. Len(a) /\ DOMAIN b = 1 .. Len(b)
      /\ DOMAIN (a \o b) = 1 .. Len(a) + Len(b)
  BY <1>1
<1> DEFINE c == a \o b
<1> HIDE DEF c
<1>5. ASSUME Carries(a, it) PROVE Carries(c, it)
  <2>1. \A i \in 1 .. Len(a) : i \in 1 .. Len(a) + Len(b)
    BY <1>1
  <2> QED
    BY <1>2, <1>4, <1>5, <2>1, Zenon DEF Carries, c
<1>6. ASSUME Carries(b, it) PROVE Carries(c, it)
  <2>1. \A i \in 1 .. Len(b) : Len(a) + i \in 1 .. Len(a) + Len(b)
    BY <1>1
  <2> QED
    BY <1>3, <1>4, <1>6, <2>1, Zenon DEF Carries, c
<1>7. ASSUME Carries(c, it) PROVE Carries(a, it) \/ Carries(b, it)
  <2>1. PICK i \in 1 .. Len(a) + Len(b) : c[i] = it
    BY <1>4, <1>7 DEF Carries, c
  <2>2. CASE i <= Len(a)
    <3>1. i \in 1 .. Len(a)
      BY <1>1, <2>2
    <3> QED
      BY <1>2, <1>4, <2>1, <3>1, Zenon DEF Carries, c
  <2>3. CASE i > Len(a)
    <3>1. i - Len(a) \in 1 .. Len(b) /\ Len(a) + (i - Len(a)) = i
      BY <1>1, <2>3
    <3>2. b[i - Len(a)] = it
      BY <1>3, <2>1, <3>1 DEF c
    <3> QED
      BY <1>4, <3>1, <3>2, Zenon DEF Carries
  <2> QED
    BY <1>1, <2>2, <2>3
<1> QED
  BY <1>1, <1>5, <1>6, <1>7 DEF c

\* Picking the items of one kind goes from item to item.
LEMMA OfKindRun ==
  ASSUME NEW items \in Seq(Item), NEW kind
  PROVE  \E h \in [0 .. Len(items) -> Seq(Item)] :
           /\ h[0] = << >>
           /\ \A i \in 1 .. Len(items) :
                h[i] = IF KindOf[items[i].key] = kind THEN Append(h[i - 1], items[i]) ELSE h[i - 1]
           /\ OfKind(items, kind) = h[Len(items)]
<1> DEFINE Taken(acc, x) == IF KindOf[x.key] = kind THEN Append(acc, x) ELSE acc
           D == 1 .. Len(items)
           Eqn(sol) == sol = [s \in SUBSET DOMAIN items |->
                                IF s = {} THEN << >> ELSE Taken(sol[s \ {Max(s)}], items[Max(s)])]
           step == [x \in Seq(Item) \X Item |-> Taken(x[1], x[2])]
           run == CHOOSE sol : Eqn(sol)
<1>1. << >> \in Seq(Item)
  OBVIOUS
<1>2. step \in [Seq(Item) \X Item -> Seq(Item)]
  OBVIOUS
<1>3. DOMAIN items = D /\ Len(items) \in Nat /\ \A i \in D : items[i] \in Item
  OBVIOUS
<1>4. ASSUME NEW v \in Seq(Item), NEW x \in Item PROVE step[<<v, x>>] = Taken(v, x)
  OBVIOUS
<1>5. PICK sol \in [SUBSET D -> Seq(Item)] : FoldOf(sol, D, << >>, items, step)
  BY <1>1, <1>2, FoldExists
<1>6. ASSUME NEW s \in SUBSET D, s # {} PROVE Max(s) \in D /\ s \ {Max(s)} \in SUBSET D
  BY <1>3, <1>6, MaxFacts
<1>7. OfKind(items, kind) = run[DOMAIN items]
  BY Zenon DEF OfKind, FoldLeft, MapThenFoldSet
<1> HIDE DEF Taken, D, step
<1>8. Eqn(sol)
  <2>1. ASSUME NEW s \in SUBSET D, s # {}
        PROVE  sol[s] = Taken(sol[s \ {Max(s)}], items[Max(s)])
    BY <1>3, <1>4, <1>5, <1>6, <2>1 DEF FoldOf
  <2>2. sol[{}] = << >>
    BY <1>5 DEF FoldOf
  <2> QED
    BY <1>3, <2>1, <2>2
<1>9. Eqn(run)
  BY <1>8, Zenon
<1>10. run[{}] = << >>
  BY <1>3, <1>9
<1>11. ASSUME NEW s \in SUBSET D, s # {}, run[s \ {Max(s)}] \in Seq(Item)
       PROVE  run[s] = step[<<run[s \ {Max(s)}], items[Max(s)]>>]
  <2>1. run[s] = Taken(run[s \ {Max(s)}], items[Max(s)])
    <3> HIDE DEF run
    <3> QED
      BY <1>3, <1>9, <1>11
  <2> HIDE DEF run
  <2> QED
    BY <1>3, <1>4, <1>6, <1>11, <2>1
<1> HIDE DEF run
<1>12. PICK h \in [0 .. Len(items) -> Seq(Item)] :
         /\ h[0] = << >>
         /\ \A i \in 1 .. Len(items) : h[i] = step[<<h[i - 1], items[i]>>]
         /\ run[1 .. Len(items)] = h[Len(items)]
  <2>1. FoldsBy(run, Seq(Item), << >>, items, step)
    BY <1>10, <1>11 DEF D, FoldsBy
  <2>2. Goes(run, Seq(Item), << >>, items, step)
    BY <1>1, <1>2, <2>1, FoldRun, Zenon
  <2> QED
    BY <2>2, Zenon DEF Goes
<1>13. ASSUME NEW i \in 1 .. Len(items) PROVE h[i] = Taken(h[i - 1], items[i])
  <2>1. i - 1 \in 0 .. Len(items)
    BY <1>3
  <2>2. h[i - 1] \in Seq(Item) /\ items[i] \in Item
    BY <1>3, <1>12, <2>1 DEF D
  <2>3. h[i] = step[<<h[i - 1], items[i]>>]
    BY <1>12
  <2> QED
    BY <1>4, <2>2, <2>3
<1> QED
  BY <1>3, <1>7, <1>12, <1>13 DEF Taken, D

\* What is picked of a sequence by its kind.
Picked(items, kind, n, r) ==
  /\ r \in Seq(Item)
  /\ \A it \in Item :
       Carries(r, it) <=> \E i \in 1 .. n : items[i] = it /\ KindOf[it.key] = kind

\* What a queue carries with one more item at its end.
LEMMA CarriesAppended ==
  ASSUME NEW a \in Seq(Item), NEW x \in Item, NEW it
  PROVE  Carries(Append(a, x), it) <=> Carries(a, it) \/ x = it
<1> DEFINE c == Append(a, x)
<1>1. /\ Len(a) \in Nat /\ DOMAIN a = 1 .. Len(a) /\ DOMAIN c = 1 .. Len(a) + 1
      /\ c[Len(a) + 1] = x /\ \A i \in 1 .. Len(a) : c[i] = a[i]
  OBVIOUS
<1> HIDE DEF c
<1>2. Carries(c, it) <=> Carries(a, it) \/ x = it
  <2>1. /\ Len(a) + 1 \in 1 .. Len(a) + 1
        /\ \A i \in 1 .. Len(a) + 1 : i \in 1 .. Len(a) \/ i = Len(a) + 1
        /\ \A i \in 1 .. Len(a) : i \in 1 .. Len(a) + 1
    BY <1>1
  <2> QED
    BY <1>1, <2>1 DEF Carries
<1> QED
  BY <1>2 DEF c

\* The items of one kind are those items.
LEMMA OfKindFacts ==
  ASSUME NEW items \in Seq(Item), NEW kind
  PROVE  /\ OfKind(items, kind) \in Seq(Item)
         /\ \A it \in Item :
              Carries(OfKind(items, kind), it) <=> Carries(items, it) /\ KindOf[it.key] = kind
<1>1. PICK h \in [0 .. Len(items) -> Seq(Item)] :
        /\ h[0] = << >>
        /\ \A i \in 1 .. Len(items) :
             h[i] = IF KindOf[items[i].key] = kind THEN Append(h[i - 1], items[i]) ELSE h[i - 1]
        /\ OfKind(items, kind) = h[Len(items)]
  BY OfKindRun
<1> DEFINE P(i) == i <= Len(items) => Picked(items, kind, i, h[i])
           S == {i \in Nat : P(i)}
<1>2. P(0)
  BY <1>1 DEF Picked, Carries
<1>3. ASSUME NEW i \in Nat, P(i) PROVE P(i + 1)
  <2> SUFFICES ASSUME i + 1 <= Len(items) PROVE Picked(items, kind, i + 1, h[i + 1])
    OBVIOUS
  <2>1. /\ i <= Len(items) /\ i + 1 \in 1 .. Len(items) /\ (i + 1) - 1 = i
        /\ h[i] \in Seq(Item) /\ h[i + 1] \in Seq(Item) /\ items[i + 1] \in Item
    OBVIOUS
  <2>2. Picked(items, kind, i, h[i])
    BY <1>3, <2>1
  <2>3. h[i + 1] = IF KindOf[items[i + 1].key] = kind THEN Append(h[i], items[i + 1]) ELSE h[i]
    BY <1>1, <2>1
  <2>4. /\ i + 1 \in 1 .. i + 1
        /\ \A j \in 1 .. i + 1 : j \in 1 .. i \/ j = i + 1
        /\ \A j \in 1 .. i : j \in 1 .. i + 1
    OBVIOUS
  <2>5. \A it \in Item :
          Carries(h[i + 1], it)
            <=> (Carries(h[i], it) \/ (items[i + 1] = it /\ KindOf[it.key] = kind))
    BY <2>1, <2>3, CarriesAppended
  <2> QED
    BY <2>1, <2>2, <2>4, <2>5 DEF Picked
<1> HIDE DEF P
<1>4. 0 \in S /\ \A i \in Nat : i \in S => i + 1 \in S
  BY <1>2, <1>3
<1>5. Nat \subseteq S
  <2> HIDE DEF S
  <2> QED
    BY <1>4, SetInduction
<1>6. P(Len(items))
  BY <1>5
<1>7. DOMAIN items = 1 .. Len(items) /\ Len(items) \in Nat
  OBVIOUS
<1>8. Picked(items, kind, Len(items), OfKind(items, kind))
  BY <1>1, <1>6, <1>7 DEF P
<1> QED
  BY <1>7, <1>8 DEF Picked, Carries

\* Sorting a batch by kind loses nothing and adds nothing.
LEMMA FromMixedFacts ==
  ASSUME NEW items \in Seq(Item)
  PROVE  /\ FromMixed(items) \in Seq(Item)
         /\ \A it \in Item : Carries(FromMixed(items), it) <=> Carries(items, it)
         /\ items # << >> => FromMixed(items) # << >>
<1> DEFINE a == OfKind(items, "ChanAnns")
           u == OfKind(items, "ChanUpdates")
           n == OfKind(items, "NodeAnns")
<1>1. a \in Seq(Item) /\ u \in Seq(Item) /\ n \in Seq(Item)
  BY OfKindFacts
<1>2. \A it \in Item : /\ Carries(a, it) <=> Carries(items, it) /\ KindOf[it.key] = "ChanAnns"
                       /\ Carries(u, it) <=> Carries(items, it) /\ KindOf[it.key] = "ChanUpdates"
                       /\ Carries(n, it) <=> Carries(items, it) /\ KindOf[it.key] = "NodeAnns"
  BY OfKindFacts
<1> HIDE DEF a, u, n
<1>3. a \o u \in Seq(Item) /\ \A it \in Item : Carries(a \o u, it) <=> Carries(a, it) \/ Carries(u, it)
  BY <1>1, CarriesJoined
<1>4. /\ (a \o u) \o n \in Seq(Item)
      /\ \A it \in Item : Carries((a \o u) \o n, it) <=> Carries(a \o u, it) \/ Carries(n, it)
  BY <1>1, <1>3, CarriesJoined
<1>5. \A it \in Item : KindOf[it.key] \in {"ChanAnns", "ChanUpdates", "NodeAnns"}
  BY KeyAssumption, ItemParts DEF AllKinds
<1>6. FromMixed(items) = (a \o u) \o n
  BY DEF FromMixed, a, u, n
<1>7. \A it \in Item : Carries(FromMixed(items), it) <=> Carries(items, it)
  BY <1>2, <1>3, <1>4, <1>5, <1>6
<1>8. ASSUME items # << >> PROVE FromMixed(items) # << >>
  <2>1. 1 \in DOMAIN items /\ items[1] \in Item
    BY <1>8
  <2>2. Carries(FromMixed(items), items[1])
    BY <1>7, <2>1 DEF Carries
  <2> QED
    BY <2>2 DEF Carries
<1> QED
  BY <1>4, <1>6, <1>7, <1>8

-----------------------------------------------------------------------------
(***************************************************************************)
(* Cutting a queue into chunks                                             *)
(***************************************************************************)

\* Division, as the sizes of sub-batches use it.
LEMMA DivFacts ==
  ASSUME NEW a \in Nat, NEW b \in Nat, b > 0
  PROVE  /\ a \div b \in Nat
         /\ b * (a \div b) <= a
         /\ a < b * (a \div b) + b
  BY Z3

\* Division rounded up.
LEMMA CeilDivFacts ==
  ASSUME NEW a \in Nat, NEW b \in Nat, b > 0
  PROVE  /\ CeilDiv(a, b) \in Nat
         /\ CeilDiv(a, b) * b >= a
         /\ CeilDiv(a, b) * b < a + b
<1> DEFINE q == (a + b - 1) \div b
<1>1. a + b - 1 \in Nat
  OBVIOUS
<1>2. q \in Nat /\ b * q <= a + b - 1 /\ a + b - 1 < b * q + b
  BY <1>1, DivFacts
<1>3. q * b = b * q /\ q * b \in Nat
  BY <1>2
<1> HIDE DEF q
<1> QED
  BY <1>2, <1>3 DEF CeilDiv, q

\* Factors may be compared by their products.
LEMMA ProductLess ==
  ASSUME NEW a \in Int, NEW b \in Int, NEW c \in Nat, c > 0, a * c < b * c
  PROVE  a < b
  BY Z3

\* A sub-batch is never empty.
LEMMA SizeFacts ==
  ASSUME NEW batch \in Nat, batch > 0
  PROVE  LET size == CalculateSubBatchSize(Stagger, TrickleDelay, MinBatchSize, batch)
         IN  size \in Nat /\ size > 0
<1> DEFINE computed == CeilDiv(batch * Seconds(TrickleDelay), Seconds(Stagger))
<1>1. Stagger \in Nat /\ Stagger > 0 /\ TrickleDelay \in Nat /\ MinBatchSize \in Nat /\ MinBatchSize > 0
  BY StaggerAssumption
<1>2. CASE TrickleDelay >= Stagger
  BY <1>1, <1>2 DEF CalculateSubBatchSize
<1>3. CASE ~ (TrickleDelay >= Stagger)
  <2>1. Seconds(Stagger) \in Nat /\ Seconds(Stagger) > 0 /\ Seconds(TrickleDelay) \in Nat
    BY <1>1, <1>3, StaggerAssumption, DivFacts DEF Divides, Seconds
  <2>2. batch * Seconds(TrickleDelay) \in Nat
    BY <2>1
  <2>3. computed \in Nat
    BY <2>1, <2>2, CeilDivFacts
  <2> HIDE DEF computed
  <2> QED
    BY <1>1, <1>3, <2>3 DEF CalculateSubBatchSize, computed
<1> QED
  BY <1>2, <1>3

\* Where the chunks of a queue of a given length lie in it.
LEMMA ChunkBounds ==
  ASSUME NEW len \in Nat, len > 0, NEW size \in Nat, size > 0
  PROVE  LET n == Chunks(size, len)
             last(i) == IF i * size < len THEN i * size ELSE len
         IN  /\ n \in Nat /\ n > 0
             /\ \A i \in 1 .. n :
                  /\ (i - 1) * size + 1 \in 1 .. len /\ last(i) \in 1 .. len
                  /\ (i - 1) * size + 1 <= last(i)
             /\ \A j \in 1 .. len : \E i \in 1 .. n : (i - 1) * size + 1 <= j /\ j <= last(i)
<1> DEFINE n == Chunks(size, len)
           last(i) == IF i * size < len THEN i * size ELSE len
<1>1. n \in Nat /\ n * size >= len /\ n * size < len + size
  BY CeilDivFacts DEF Chunks
<1> HIDE DEF n
<1>2. n > 0
  <2>1. n # 0
    BY <1>1
  <2> QED
    BY <1>1, <2>1
<1>3. ASSUME NEW i \in 1 .. n
      PROVE  /\ (i - 1) * size + 1 \in 1 .. len /\ last(i) \in 1 .. len
             /\ (i - 1) * size + 1 <= last(i)
  <2>1. i - 1 \in Nat /\ (i - 1) * size \in Nat /\ i * size = (i - 1) * size + size
    <3>1. i - 1 \in Nat
      BY <1>1
    <3> QED
      BY <1>1, <3>1, Z3
  <2>2. i * size <= n * size
    BY <1>1, Z3
  <2>3. (i - 1) * size < len
    BY <1>1, <2>1, <2>2
  <2> QED
    BY <1>1, <2>1, <2>3
<1>4. ASSUME NEW j \in 1 .. len PROVE \E i \in 1 .. n : (i - 1) * size + 1 <= j /\ j <= last(i)
  <2> DEFINE i == CeilDiv(j, size)
  <2>1. i \in Nat /\ i * size >= j /\ i * size < j + size
    BY CeilDivFacts
  <2> HIDE DEF i
  <2>2. i # 0
    BY <2>1
  <2>3. i * size = (i - 1) * size + size /\ (i - 1) * size \in Int
    BY <2>1, Z3
  <2>4. (i - 1) * size + 1 <= j /\ j <= last(i)
    BY <2>1, <2>3
  <2>5. (i - 1) * size < n * size
    BY <1>1, <2>3, <2>4
  <2>6. i - 1 < n
    BY <1>1, <2>1, <2>5, ProductLess
  <2> QED
    BY <1>1, <2>1, <2>2, <2>4, <2>6
<1> QED
  BY <1>1, <1>2, <1>3, <1>4 DEF n

\* A part of a queue carries the items at its places.
LEMMA PieceFacts ==
  ASSUME NEW s \in Seq(Item), NEW a \in 1 .. Len(s), NEW b \in 1 .. Len(s), a <= b
  PROVE  /\ SubSeq(s, a, b) \in Seq(Item) /\ SubSeq(s, a, b) # << >>
         /\ \A it : Carries(SubSeq(s, a, b), it) <=> \E j \in a .. b : s[j] = it
<1> DEFINE p == SubSeq(s, a, b)
<1>1. Len(s) \in Nat /\ a \in Nat /\ b \in Nat
  OBVIOUS
<1>2. p \in Seq(Item) /\ Len(p) = b - a + 1 /\ \A i \in 1 .. b - a + 1 : p[i] = s[a + i - 1]
  OBVIOUS
<1> HIDE DEF p
<1>3. DOMAIN p = 1 .. b - a + 1 /\ p # << >>
  BY <1>1, <1>2
<1>4. ASSUME NEW it PROVE Carries(p, it) <=> \E j \in a .. b : s[j] = it
  <2>1. \A j \in a .. b : j - a + 1 \in 1 .. b - a + 1 /\ a + (j - a + 1) - 1 = j
    BY <1>1
  <2>2. \A i \in 1 .. b - a + 1 : a + i - 1 \in a .. b
    BY <1>1
  <2>3. ASSUME NEW j \in a .. b, s[j] = it PROVE Carries(p, it)
    <3>1. p[j - a + 1] = s[a + (j - a + 1) - 1]
      BY <1>2, <2>1
    <3>2. p[j - a + 1] = it
      BY <2>1, <2>3, <3>1
    <3> QED
      BY <1>3, <2>1, <3>2, Zenon DEF Carries
  <2>4. ASSUME NEW i \in 1 .. b - a + 1, p[i] = it PROVE \E j \in a .. b : s[j] = it
    BY <1>2, <2>2, <2>4, Zenon
  <2> QED
    BY <1>3, <2>3, <2>4, Zenon DEF Carries
<1> QED
  BY <1>2, <1>3, <1>4 DEF p

\* Cutting a queue into chunks loses nothing and adds nothing, and no chunk
\* is empty.
LEMMA ChunkedFacts ==
  ASSUME NEW s \in Seq(Item), s # << >>
  PROVE  /\ Chunked(s) \in Seq(Seq(Item) \ {<< >>}) /\ Chunked(s) # << >>
         /\ \A it \in Item : Carries(s, it) <=> \E i \in DOMAIN Chunked(s) : Carries(Chunked(s)[i], it)
<1> DEFINE size == CalculateSubBatchSize(Stagger, TrickleDelay, MinBatchSize, Len(s))
           n == Chunks(size, Len(s))
           first(i) == (i - 1) * size + 1
           last(i) == IF i * size < Len(s) THEN i * size ELSE Len(s)
           piece(i) == SubSeq(s, first(i), last(i))
<1>1. Len(s) \in Nat /\ Len(s) > 0 /\ DOMAIN s = 1 .. Len(s)
  OBVIOUS
<1>2. size \in Nat /\ size > 0
  BY <1>1, SizeFacts
<1> HIDE DEF size
<1>3. n \in Nat /\ n > 0
  BY <1>1, <1>2, ChunkBounds
<1>4. \A i \in 1 .. n : first(i) \in 1 .. Len(s) /\ last(i) \in 1 .. Len(s) /\ first(i) <= last(i)
  BY <1>1, <1>2, ChunkBounds
<1>5. \A j \in 1 .. Len(s) : \E i \in 1 .. n : first(i) <= j /\ j <= last(i)
  BY <1>1, <1>2, ChunkBounds
<1>6. Chunked(s) = [i \in 1 .. n |-> FromMixed(piece(i))]
  BY DEF Chunked, size
<1> HIDE DEF n, first, last
<1>7. ASSUME NEW i \in 1 .. n
      PROVE  /\ FromMixed(piece(i)) \in Seq(Item) \ {<< >>}
             /\ \A it \in Item : Carries(FromMixed(piece(i)), it)
                                   <=> \E j \in first(i) .. last(i) : s[j] = it
  <2>1. /\ piece(i) \in Seq(Item) /\ piece(i) # << >>
        /\ \A it : Carries(piece(i), it) <=> \E j \in first(i) .. last(i) : s[j] = it
    BY <1>4, PieceFacts
  <2> HIDE DEF piece
  <2> QED
    BY <2>1, FromMixedFacts
<1> HIDE DEF piece
<1>8. Chunked(s) \in Seq(Seq(Item) \ {<< >>}) /\ Chunked(s) # << >> /\ DOMAIN Chunked(s) = 1 .. n
  <2> DEFINE X == Seq(Item) \ {<< >>}
             chunk(i) == FromMixed(piece(i))
  <2>1. \A i \in 1 .. n : chunk(i) \in X
    BY <1>7
  <2>2. Chunked(s) = [i \in 1 .. n |-> chunk(i)]
    BY <1>6
  <2> HIDE DEF X, chunk
  <2>3. Chunked(s) \in Seq(X) /\ Len(Chunked(s)) = n
    BY <1>3, <2>1, <2>2
  <2>4. Chunked(s) # << >> /\ DOMAIN Chunked(s) = 1 .. n
    BY <1>3, <2>2, <2>3
  <2> QED
    BY <2>3, <2>4 DEF X
<1>9. ASSUME NEW it \in Item
      PROVE  Carries(s, it) <=> \E i \in DOMAIN Chunked(s) : Carries(Chunked(s)[i], it)
  <2>1. ASSUME Carries(s, it) PROVE \E i \in 1 .. n : Carries(Chunked(s)[i], it)
    <3>1. PICK j \in 1 .. Len(s) : s[j] = it
      BY <1>1, <2>1 DEF Carries
    <3>2. PICK i \in 1 .. n : first(i) <= j /\ j <= last(i)
      BY <1>5
    <3>3. j \in first(i) .. last(i)
      BY <1>4, <3>2
    <3> QED
      BY <1>6, <1>7, <3>1, <3>3
  <2>2. ASSUME NEW i \in 1 .. n, Carries(Chunked(s)[i], it) PROVE Carries(s, it)
    <3>1. PICK j \in first(i) .. last(i) : s[j] = it
      BY <1>6, <1>7, <2>2
    <3>2. j \in 1 .. Len(s)
      BY <1>1, <1>4
    <3> QED
      BY <1>1, <3>1, <3>2 DEF Carries
  <2> QED
    BY <1>8, <2>1, <2>2
<1> QED
  BY <1>8, <1>9

-----------------------------------------------------------------------------
(***************************************************************************)
(* The stores                                                              *)
(***************************************************************************)

\* Some originator of k has version v of it, or a newer one.
Issued(k, v) == \E o \in Origins[k] : v <= store[o][k]

\* What every gossip protocol keeps true of the stores.
StoresOK ==
  /\ store \in [Node -> State]
  /\ now \in Nat
  /\ \A n \in Node, k \in Key : store[n][k] <= now /\ Issued(k, store[n][k])

\* What the steps do to the stores.  n originates k.
Published(n, k) ==
  /\ n \in Origins[k]
  /\ MayStamp(store[n], k)
  /\ store' = [store EXCEPT ![n] = Stamped(@, k, now)]
  /\ now' = now

\* s is the store of n with some newer versions.
Newer(n, s) ==
  /\ s \in State
  /\ \A k \in Key : s[k] # store[n][k] => s[k] > store[n][k] /\ Issued(k, s[k])

\* n learns some.
Learned(n) ==
  /\ \E s \in State : Newer(n, s) /\ store' = [store EXCEPT ![n] = s]
  /\ now' = now

\* Nothing changes but the time.
Kept == store' = store /\ (now' = now \/ (now < MaxTime /\ now' = now + 1))

\* Any of these.
StoreStep ==
  \/ \E n \in Node, k \in Key : Published(n, k)
  \/ \E n \in Node : Learned(n)
  \/ Kept

\* What a store and its entries are.
LEMMA StoreTypes ==
  ASSUME StoresOK, NEW n \in Node, NEW k \in Key
  PROVE  store[n] \in State /\ store[n][k] \in Version /\ store[n][k] \in Int
  BY DEF StoresOK, State, Version, Absent

\* Stamping replaces one entry, by a version that is not in the future.
LEMMA StampFacts ==
  ASSUME NEW m \in State, NEW k \in Key, NEW t \in Nat
  PROVE  /\ StampOf(k, t) \in Nat
         /\ StampOf(k, t) <= t
         /\ Stamped(m, k, t) \in State
         /\ Stamped(m, k, t)[k] = StampOf(k, t)
         /\ \A j \in Key : j # k => Stamped(m, k, t)[j] = m[j]
  BY DEF StampOf, Stamped, State, Version

\* Every key has an originator, and it is a node.
LEMMA OriginIsNode == ASSUME NEW k \in Key PROVE Origins[k] # {} /\ Origins[k] \subseteq Node
  BY KeyAssumption

\* An origination replaces one entry, by a version that is not older.
LEMMA PublishedFacts ==
  ASSUME StoresOK, NEW n \in Node, NEW k \in Key, Published(n, k)
  PROVE  /\ StampOf(k, now) \in Nat /\ StampOf(k, now) <= now
         /\ StampOf(k, now) >= store[n][k]
         /\ store' \in [Node -> State]
         /\ store'[n][k] = StampOf(k, now)
         /\ \A j \in Key : j # k => store'[n][j] = store[n][j]
         /\ \A m \in Node : m # n => store'[m] = store[m]
<1>1. store[n] \in State /\ store[n][k] \in Int /\ now \in Nat /\ store[n][k] <= now
  BY StoreTypes DEF StoresOK
<1>2. /\ StampOf(k, now) \in Nat /\ StampOf(k, now) <= now
      /\ Stamped(store[n], k, now) \in State
      /\ Stamped(store[n], k, now)[k] = StampOf(k, now)
      /\ \A j \in Key : j # k => Stamped(store[n], k, now)[j] = store[n][j]
  BY <1>1, StampFacts
<1>3. StampOf(k, now) >= store[n][k]
  <2>1. CASE KindOf[k] = "ChanAnns"
    <3>1. store[n][k] = Absent
      BY <2>1 DEF Published, MayStamp
    <3> QED
      BY <1>2, <3>1 DEF Absent
  <2>2. CASE KindOf[k] # "ChanAnns"
    BY <1>1, <2>2 DEF StampOf
  <2> QED
    BY <2>1, <2>2
<1>4. /\ store' \in [Node -> State]
      /\ store'[n] = Stamped(store[n], k, now)
      /\ \A m \in Node : m # n => store'[m] = store[m]
  BY <1>2 DEF Published, StoresOK
<1> QED
  BY <1>2, <1>3, <1>4

\* Learning changes one node's store.
LEMMA LearnedFacts ==
  ASSUME StoresOK, NEW n \in Node, Learned(n)
  PROVE  /\ store' \in [Node -> State]
         /\ Newer(n, store'[n])
         /\ \A m \in Node : m # n => store'[m] = store[m]
<1>1. PICK s \in State : Newer(n, s) /\ store' = [store EXCEPT ![n] = s]
  BY DEF Learned
<1> QED
  BY <1>1 DEF StoresOK

\* No store falls back.
LEMMA StoresGrow ==
  ASSUME StoresOK, StoreStep, NEW n \in Node, NEW k \in Key
  PROVE  /\ store'[n][k] >= store[n][k] /\ store'[n][k] \in Int
<1>1. store[n][k] \in Int
  BY StoreTypes
<1>2. ASSUME NEW o \in Node, NEW j \in Key, Published(o, j)
      PROVE  store'[n][k] >= store[n][k] /\ store'[n][k] \in Int
  BY <1>1, <1>2, PublishedFacts
<1>3. ASSUME NEW o \in Node, Learned(o) PROVE store'[n][k] >= store[n][k] /\ store'[n][k] \in Int
  <2>1. CASE o = n
    <3>1. Newer(n, store'[n])
      BY <1>3, <2>1, LearnedFacts
    <3>2. store'[n][k] \in Int
      BY <3>1 DEF Newer, State, Version, Absent
    <3> QED
      BY <1>1, <3>1, <3>2 DEF Newer
  <2>2. CASE o # n
    BY <1>1, <1>3, <2>2, LearnedFacts
  <2> QED
    BY <2>1, <2>2
<1>4. CASE Kept
  BY <1>1, <1>4 DEF Kept
<1> QED
  BY <1>2, <1>3, <1>4 DEF StoreStep

\* What is issued stays issued.
LEMMA IssuedStays ==
  ASSUME StoresOK, StoreStep, NEW k \in Key, NEW v \in Int, Issued(k, v)
  PROVE  Issued(k, v)'
<1>1. PICK o \in Origins[k] : v <= store[o][k]
  BY DEF Issued
<1>2. o \in Node
  BY <1>1, OriginIsNode
<1>3. v <= store'[o][k]
  <2>1. store[o][k] \in Int /\ store'[o][k] \in Int /\ store'[o][k] >= store[o][k]
    BY <1>2, StoreTypes, StoresGrow
  <2> QED
    BY <1>1, <2>1
<1> QED
  BY <1>1, <1>3 DEF Issued

\* Whatever is issued is at most the current second.
LEMMA IssuedIsPast ==
  ASSUME StoresOK, NEW k \in Key, NEW v \in Int, Issued(k, v)
  PROVE  v <= now
<1>1. PICK o \in Origins[k] : v <= store[o][k]
  BY DEF Issued
<1>2. o \in Node /\ store[o][k] \in Int
  BY <1>1, OriginIsNode, StoreTypes
<1> QED
  BY <1>1, <1>2 DEF StoresOK

\* What holds of the stores is kept by every such step.
LEMMA StoresStep == StoresOK /\ StoreStep => StoresOK'
<1> SUFFICES ASSUME StoresOK, StoreStep PROVE StoresOK'
  OBVIOUS
<1>1. store \in [Node -> State] /\ now \in Nat
  BY DEF StoresOK
<1>2. store' \in [Node -> State]
  BY <1>1, PublishedFacts, LearnedFacts DEF StoreStep, Kept
<1>3. now' \in Nat /\ now' >= now
  BY <1>1 DEF StoreStep, Kept, Published, Learned
<1>4. ASSUME NEW n \in Node, NEW k \in Key PROVE store'[n][k] <= now' /\ Issued(k, store[n][k])'
  <2>1. store[n][k] \in Int /\ store[n][k] <= now /\ Issued(k, store[n][k]) /\ store'[n][k] \in Int
    BY StoreTypes, StoresGrow DEF StoresOK
  <2>2. CASE store'[n][k] = store[n][k]
    <3>1. Issued(k, store[n][k])'
      <4> DEFINE v == store[n][k]
      <4>1. PICK w \in Int : w = store[n][k]
        BY <2>1
      <4>2. Issued(k, w)
        BY <2>1, <4>1
      <4>3. Issued(k, w)'
        BY <4>2, IssuedStays
      <4> QED
        BY <2>2, <4>1, <4>3 DEF Issued
    <3> QED
      BY <1>1, <1>3, <2>1, <2>2, <3>1
  <2>3. ASSUME NEW o \in Node, NEW j \in Key, Published(o, j), store'[n][k] # store[n][k]
        PROVE  store'[n][k] <= now' /\ Issued(k, store[n][k])'
    <3>1. n = o /\ k = j
      BY <2>3, PublishedFacts
    <3>2. now' = now /\ n \in Origins[k]
      BY <2>3, <3>1 DEF Published
    <3>3. store'[n][k] \in Nat /\ store'[n][k] <= now
      BY <2>3, <3>1, PublishedFacts
    <3> QED
      BY <3>2, <3>3 DEF Issued
  <2>4. ASSUME NEW o \in Node, Learned(o), store'[n][k] # store[n][k]
        PROVE  store'[n][k] <= now' /\ Issued(k, store[n][k])'
    <3>1. n = o
      BY <2>4, LearnedFacts
    <3>2. Issued(k, store'[n][k])
      BY <2>4, <3>1, LearnedFacts DEF Newer
    <3>3. PICK w \in Int : w = store'[n][k]
      BY <2>1
    <3>4. Issued(k, w)
      BY <3>2, <3>3
    <3>5. w <= now /\ now' = now
      BY <2>4, <3>4, IssuedIsPast DEF Learned
    <3>6. Issued(k, w)'
      BY <3>4, IssuedStays
    <3> QED
      BY <3>3, <3>5, <3>6 DEF Issued
  <2> QED
    BY <2>2, <2>3, <2>4 DEF StoreStep, Kept
<1> QED
  BY <1>2, <1>3, <1>4 DEF StoresOK

\* Every such step is a step of the abstract specification.
LEMMA PromiseInit == store = [n \in Node |-> Nothing] /\ now = 0 => Promise!Init
  BY DEF Promise!Init, Nothing, Promise!Nothing, Absent, Promise!Absent

\* And every such step is one of the promise's.
LEMMA PromiseStep == StoresOK /\ StoreStep => [Promise!Next]_(Promise!vars)
<1> SUFFICES ASSUME StoresOK, StoreStep PROVE [Promise!Next]_(Promise!vars)
  OBVIOUS
<1>1. ASSUME NEW n \in Node, NEW k \in Key, Published(n, k) PROVE Promise!Next
  <2>1. StampOf(k, now) >= store[n][k]
    BY <1>1, PublishedFacts
  <2>2. StampOf(k, now) = Promise!StampOf(k, now)
    BY DEF StampOf, Promise!StampOf
  <2>3. Stamped(store[n], k, now) = Promise!Stamped(store[n], k, now)
    BY <2>2 DEF Stamped, Promise!Stamped
  <2>4. Promise!Publish(n, k)
    BY <1>1, <2>1, <2>2, <2>3 DEF Published, Promise!Publish
  <2> QED
    BY <2>4 DEF Promise!Next
<1>2. ASSUME NEW n \in Node, Learned(n) PROVE Promise!Next
  <2>1. PICK s \in State : Newer(n, s) /\ store' = [store EXCEPT ![n] = s]
    BY <1>2 DEF Learned
  <2>2. \A k \in Key : s[k] \in Version /\ s[k] \in Int /\ s[k] <= now
    <3> SUFFICES ASSUME NEW k \in Key PROVE s[k] \in Version /\ s[k] \in Int /\ s[k] <= now
      OBVIOUS
    <3>1. s[k] \in Version /\ s[k] \in Int
      BY <2>1 DEF State, Version, Absent
    <3>2. Issued(k, s[k])
      BY <2>1 DEF Newer, StoresOK
    <3> QED
      BY <3>1, <3>2, IssuedIsPast
  <2>3. s \in [Key -> Promise!Past]
    <3>1. \A k \in Key : s[k] \in Promise!Past
      BY <2>2 DEF Version, Absent, Promise!Past, Promise!Absent, StoresOK
    <3> QED
      BY <2>1, <3>1 DEF State
  <2>4. \A k \in Key : s[k] # store[n][k] => s[k] > store[n][k] /\ Promise!Issued(k, s[k])
    BY <2>1 DEF Newer, Issued, Promise!Issued
  <2>5. Promise!Learn(n)
    BY <1>2, <2>1, <2>3, <2>4 DEF Promise!Learn, Learned
  <2> QED
    BY <2>5 DEF Promise!Next
<1>3. CASE Kept
  BY <1>3 DEF Kept, Promise!Elapse, Promise!Next, Promise!vars
<1> QED
  BY <1>1, <1>2, <1>3 DEF StoreStep

-----------------------------------------------------------------------------
(***************************************************************************)
(* What is queued and what is on its way                                   *)
(***************************************************************************)

\* The parts of the type invariant.
MsgTypes == \A m \in msgs : m.to \in Node /\ m.items \in Seq(Item) /\ m.items # << >>

PendingTypes == pending \in [Node -> Seq(Item)]

TrainTypes == trains \in [Node -> SUBSET (Seq(Seq(Item) \ {<< >>}) \ {<< >>})]

QueueTypes == MsgTypes /\ PendingTypes /\ TrainTypes

OnTheWay(p, it) == \E m \in msgs : m.to = p /\ Carries(m.items, it)

\* Only issued versions are queued or on their way.
OnlyIssued ==
  \A n \in Node, it \in Item : Waiting(n, it) \/ OnTheWay(n, it) => Issued(it.key, it.ts)

\* What is queued at n is not newer than what n stores, and what n forwards
\* is queued in order.
QueueOK(n) ==
  /\ \A i \in DOMAIN pending[n] : pending[n][i].ts <= store[n][pending[n][i].key]
  /\ \A i, j \in DOMAIN pending[n] :
       i < j /\ pending[n][i].key = pending[n][j].key /\ n \notin Origins[pending[n][i].key] =>
         pending[n][i].ts < pending[n][j].ts

\* HandedOn, for one node, peer and key.
HandedAt(n, p, k) ==
  \/ store[p][k] >= store[n][k]
  \/ Waiting(n, ItemOf(k, store[n][k]))
  \/ OnTheWay(p, ItemOf(k, store[n][k]))

\* What the steps do to the queues.  n issues the item v.
Emits(n, v) ==
  /\ \A q \in Node, it \in Item :
       /\ Waiting(q, it) => Waiting(q, it)'
       /\ OnTheWay(q, it) => OnTheWay(q, it)'
       /\ Waiting(q, it)' => Waiting(q, it) \/ (q = n /\ it = v)
       /\ OnTheWay(q, it)' => OnTheWay(q, it) \/ (q \in Peers[n] /\ it = v)
  /\ Waiting(n, v)' \/ \A p \in Peers[n] : OnTheWay(p, v)'

\* n sends on some of what waits.
Moves(n) ==
  \A q \in Node, it \in Item :
    /\ Waiting(q, it)' => Waiting(q, it)
    /\ OnTheWay(q, it) => OnTheWay(q, it)'
    /\ Waiting(q, it) => Waiting(q, it)' \/ (q = n /\ \A p \in Peers[n] : OnTheWay(p, it)')
    /\ OnTheWay(q, it)' => OnTheWay(q, it) \/ (q \in Peers[n] /\ Waiting(n, it))

\* n takes what a batch brings it.
Takes(n, items) ==
  \A q \in Node, it \in Item :
    /\ Waiting(q, it) => Waiting(q, it)'
    /\ OnTheWay(q, it)' => OnTheWay(q, it)
    /\ Waiting(q, it)' => Waiting(q, it) \/ (q = n /\ Carries(items, it))
    /\ OnTheWay(q, it) => OnTheWay(q, it)' \/ (q = n /\ Carries(items, it))

\* What is new to n waits at n.
Queues(n) ==
  \A v \in Item : store'[n][v.key] = v.ts /\ store[n][v.key] # v.ts => Waiting(n, v)'

\* A peer is another node.
LEMMA PeerIsNode == ASSUME NEW n \in Node, NEW p \in Peers[n] PROVE p \in Node /\ p # n
  BY StaggerAssumption

\* A broadcast puts its items on the way to every peer, and nothing else.
LEMMA BroadcastFacts ==
  ASSUME NEW n \in Node, NEW items \in Seq(Item), items # << >>, MsgTypes,
         msgs' = msgs \cup Broadcast(n, items)
  PROVE  /\ MsgTypes'
         /\ \A q \in Node, it \in Item :
              OnTheWay(q, it)' <=> OnTheWay(q, it) \/ (q \in Peers[n] /\ Carries(items, it))
<1>1. ASSUME NEW m \in msgs' PROVE m.to \in Node /\ m.items \in Seq(Item) /\ m.items # << >>
  <2>1. CASE m \in msgs
    BY <2>1 DEF MsgTypes
  <2>2. CASE m \notin msgs
    <3>1. PICK p \in Peers[n] : m = Batch(p, items)
      BY <2>2 DEF Broadcast
    <3>2. m.to = p /\ m.items = items
      BY <3>1 DEF Batch
    <3> QED
      BY <3>2, PeerIsNode
  <2> QED
    BY <2>1, <2>2
<1>2. ASSUME NEW q \in Node, NEW it \in Item
      PROVE  OnTheWay(q, it)' <=> OnTheWay(q, it) \/ (q \in Peers[n] /\ Carries(items, it))
  <2>1. ASSUME OnTheWay(q, it)' PROVE OnTheWay(q, it) \/ (q \in Peers[n] /\ Carries(items, it))
    <3>1. PICK m \in msgs' : m.to = q /\ Carries(m.items, it)
      BY <2>1 DEF OnTheWay
    <3>2. CASE m \in msgs
      BY <3>1, <3>2 DEF OnTheWay
    <3>3. CASE m \notin msgs
      <4>1. PICK p \in Peers[n] : m = Batch(p, items)
        BY <3>3 DEF Broadcast
      <4>2. m.to = p /\ m.items = items
        BY <4>1 DEF Batch
      <4> QED
        BY <3>1, <4>2
    <3> QED
      BY <3>2, <3>3
  <2>2. ASSUME OnTheWay(q, it) PROVE OnTheWay(q, it)'
    BY <2>2 DEF OnTheWay
  <2>3. ASSUME q \in Peers[n], Carries(items, it) PROVE OnTheWay(q, it)'
    <3>1. Batch(q, items) \in msgs' /\ Batch(q, items).to = q /\ Batch(q, items).items = items
      BY <2>3 DEF Broadcast, Batch
    <3> QED
      BY <2>3, <3>1 DEF OnTheWay
  <2> QED
    BY <2>1, <2>2, <2>3
<1> QED
  BY <1>1, <1>2 DEF MsgTypes

\* Nothing waits or travels otherwise when the queues stay as they are.
LEMMA WaitingSame ==
  ASSUME UNCHANGED <<pending, trains>>, NEW n, NEW it PROVE Waiting(n, it)' <=> Waiting(n, it)
  BY DEF Waiting

\* Nor does it with the mailboxes.
LEMMA OnTheWaySame ==
  ASSUME UNCHANGED msgs, NEW n, NEW it PROVE OnTheWay(n, it)' <=> OnTheWay(n, it)
  BY DEF OnTheWay

\* A node whose queue grows by what is carried on either side.
LEMMA WaitingGrows ==
  ASSUME PendingTypes, NEW n \in Node, NEW a \in Seq(Item), NEW b \in Seq(Item),
         \/ a = pending[n] \/ b = pending[n],
         pending' = [pending EXCEPT ![n] = a \o b], trains' = trains
  PROVE  /\ PendingTypes'
         /\ \A q \in Node, it \in Item :
              Waiting(q, it)' <=> Waiting(q, it) \/ (q = n /\ (Carries(a, it) \/ Carries(b, it)))
<1>1. a \o b \in Seq(Item) /\ \A it : Carries(a \o b, it) <=> Carries(a, it) \/ Carries(b, it)
  BY CarriesJoined
<1>2. pending'[n] = a \o b /\ \A q \in Node : q # n => pending'[q] = pending[q]
  BY DEF PendingTypes
<1>3. PendingTypes'
  BY <1>1 DEF PendingTypes
<1>4. ASSUME NEW q \in Node, NEW it \in Item
      PROVE  Waiting(q, it)' <=> Waiting(q, it) \/ (q = n /\ (Carries(a, it) \/ Carries(b, it)))
  <2>1. Carries(pending[q], it)' <=> Carries(pending'[q], it)
    BY DEF Carries
  <2>2. CASE q = n
    BY <1>1, <1>2, <2>1, <2>2 DEF Waiting
  <2>3. CASE q # n
    BY <1>2, <2>1, <2>3 DEF Waiting
  <2> QED
    BY <2>2, <2>3
<1> QED
  BY <1>3, <1>4

\* An origination, of either kind of node.
LEMMA OriginateEffect ==
  ASSUME StoresOK, QueueTypes, NEW n \in Node, NEW k \in Key, Originate(n, k)
  PROVE  /\ Published(n, k) /\ QueueTypes'
         /\ \E v \in Item : v = ItemOf(k, StampOf(k, now)) /\ Emits(n, v)
<1>1. Published(n, k)
  BY DEF Originate, Published
<1>2. PICK v \in Item : v = ItemOf(k, StampOf(k, now))
  <2>1. StampOf(k, now) \in Nat
    BY <1>1, PublishedFacts
  <2> QED
    BY <2>1 DEF Item, ItemOf
<1> DEFINE one == << v >>
<1>3. one \in Seq(Item) /\ one # << >> /\ \A it : Carries(one, it) <=> it = v
  BY <1>2 DEF Carries
<1>4. trains' = trains
  BY DEF Originate
<1>5. CASE OriginateCln(n, k)
  <2>1. msgs' = msgs \cup Broadcast(n, one) /\ pending' = pending
    BY <1>2, <1>5 DEF OriginateCln
  <2>2. \A q \in Node, it \in Item : Waiting(q, it)' <=> Waiting(q, it)
    BY <1>4, <2>1, WaitingSame
  <2> HIDE DEF one
  <2>3. MsgTypes'
    BY <1>3, <2>1, BroadcastFacts DEF QueueTypes
  <2>4. \A q \in Node, it \in Item :
          OnTheWay(q, it)' <=> OnTheWay(q, it) \/ (q \in Peers[n] /\ Carries(one, it))
    BY <1>3, <2>1, BroadcastFacts DEF QueueTypes
  <2>5. QueueTypes'
    BY <1>4, <2>1, <2>3 DEF QueueTypes, PendingTypes, TrainTypes
  <2>6. \A p \in Peers[n] : OnTheWay(p, v)'
    <3>1. Carries(one, v)
      BY <1>3
    <3>2. \A p \in Peers[n] : p \in Node
      BY PeerIsNode
    <3> QED
      BY <1>2, <2>4, <3>1, <3>2, Zenon
  <2>7. Emits(n, v)
    BY <1>3, <2>2, <2>4, <2>6, Zenon DEF Emits
  <2> QED
    BY <1>1, <1>2, <2>5, <2>7
<1>6. CASE OriginateLnd(n, k)
  <2>1. msgs' = msgs /\ pending' = [pending EXCEPT ![n] = one \o pending[n]] /\ pending[n] \in Seq(Item)
    BY <1>2, <1>6 DEF OriginateLnd, QueueTypes, PendingTypes
  <2>2. \A q \in Node, it \in Item : OnTheWay(q, it)' <=> OnTheWay(q, it)
    BY <2>1, OnTheWaySame
  <2> HIDE DEF one
  <2>3. PendingTypes'
    BY <1>3, <1>4, <2>1, WaitingGrows DEF QueueTypes
  <2>4. \A q \in Node, it \in Item :
          Waiting(q, it)' <=> Waiting(q, it) \/ (q = n /\ (Carries(one, it) \/ Carries(pending[n], it)))
    BY <1>3, <1>4, <2>1, WaitingGrows DEF QueueTypes
  <2>5. QueueTypes'
    BY <1>4, <2>1, <2>3 DEF QueueTypes, MsgTypes, TrainTypes
  <2>6. \A it : Carries(pending[n], it) => Waiting(n, it)
    BY DEF Waiting
  <2>7. Waiting(n, v)'
    <3>1. Carries(one, v)
      BY <1>3
    <3> QED
      BY <1>2, <2>4, <3>1, Zenon
  <2>8. Emits(n, v)
    BY <1>3, <2>2, <2>4, <2>6, <2>7, Zenon DEF Emits
  <2> QED
    BY <1>1, <1>2, <2>5, <2>8
<1> QED
  BY <1>5, <1>6 DEF Originate

\* A tick of either kind of node.
LEMMA TickEffect ==
  ASSUME QueueTypes, NEW n \in Node, TickCln(n) \/ TickLnd(n)
  PROVE  QueueTypes' /\ Moves(n) /\ pending' = [pending EXCEPT ![n] = << >>]
<1> DEFINE queue == pending[n]
<1>1. queue \in Seq(Item) /\ queue # << >> /\ pending' = [pending EXCEPT ![n] = << >>]
  BY DEF TickCln, TickLnd, QueueTypes, PendingTypes
<1>2. PendingTypes' /\ pending'[n] = << >> /\ \A q \in Node : q # n => pending'[q] = pending[q]
  BY <1>1 DEF QueueTypes, PendingTypes
<1>3. MsgTypes /\ PendingTypes /\ TrainTypes
  BY DEF QueueTypes
<1>4. \A q \in Node, it \in Item : Carries(pending[q], it)' <=> (q # n /\ Carries(pending[q], it))
  BY <1>2 DEF Carries
<1>5. CASE TickCln(n)
  <2> DEFINE batch == FromMixed(queue)
  <2>1. msgs' = msgs \cup Broadcast(n, batch) /\ trains' = trains
    BY <1>5 DEF TickCln
  <2>2. batch \in Seq(Item) /\ batch # << >> /\ \A it \in Item : Carries(batch, it) <=> Carries(queue, it)
    BY <1>1, FromMixedFacts
  <2> HIDE DEF batch
  <2>3. MsgTypes'
    BY <1>3, <2>1, <2>2, BroadcastFacts
  <2>4. \A q \in Node, it \in Item :
          OnTheWay(q, it)' <=> OnTheWay(q, it) \/ (q \in Peers[n] /\ Carries(batch, it))
    BY <1>3, <2>1, <2>2, BroadcastFacts
  <2>5. TrainTypes'
    BY <1>3, <2>1 DEF TrainTypes
  <2>6. \A q \in Node, it \in Item :
          /\ Waiting(q, it)' => Waiting(q, it)
          /\ Waiting(q, it) => Waiting(q, it)' \/ (q = n /\ Carries(queue, it))
    BY <1>4, <2>1 DEF Waiting
  <2>7. \A it : Carries(queue, it) => Waiting(n, it)
    BY DEF Waiting
  <2>8. Moves(n)
    BY <2>2, <2>4, <2>6, <2>7, PeerIsNode DEF Moves
  <2> QED
    BY <1>1, <1>2, <2>3, <2>5, <2>8 DEF QueueTypes
<1>6. CASE TickLnd(n)
  <2> DEFINE chunks == Chunked(queue)
  <2>1. /\ msgs' = msgs \cup Broadcast(n, Head(chunks))
        /\ trains' = [trains EXCEPT ![n] = @ \cup ({Tail(chunks)} \ {<< >>})]
    BY <1>6 DEF TickLnd
  <2>2. chunks \in Seq(Seq(Item) \ {<< >>}) /\ chunks # << >>
    BY <1>1, ChunkedFacts
  <2>3. \A it \in Item : Carries(queue, it) <=> \E i \in DOMAIN chunks : Carries(chunks[i], it)
    BY <1>1, ChunkedFacts
  <2> HIDE DEF chunks
  <2>4. /\ Head(chunks) \in Seq(Item) \ {<< >>} /\ Tail(chunks) \in Seq(Seq(Item) \ {<< >>})
        /\ 1 \in DOMAIN chunks /\ Head(chunks) = chunks[1]
    BY <2>2
  <2>5. \A i \in DOMAIN Tail(chunks) : i + 1 \in DOMAIN chunks /\ Tail(chunks)[i] = chunks[i + 1]
    BY <2>2
  <2>6. \A i \in DOMAIN chunks : i = 1 \/ (i - 1 \in DOMAIN Tail(chunks) /\ Tail(chunks)[i - 1] = chunks[i])
    BY <2>2
  <2>7. MsgTypes'
    BY <1>3, <2>1, <2>4, BroadcastFacts
  <2>8. \A q \in Node, it \in Item :
          OnTheWay(q, it)' <=> OnTheWay(q, it) \/ (q \in Peers[n] /\ Carries(Head(chunks), it))
    BY <1>3, <2>1, <2>4, BroadcastFacts
  <2>9. TrainTypes'
    BY <1>3, <2>1, <2>4 DEF TrainTypes
  <2>10. /\ \A q \in Node : q # n => trains'[q] = trains[q]
         /\ trains'[n] = trains[n] \cup ({Tail(chunks)} \ {<< >>})
    BY <1>3, <2>1 DEF TrainTypes
  <2>11. ASSUME NEW q \in Node, NEW it \in Item
         PROVE  /\ Waiting(q, it)' => Waiting(q, it)
                /\ Waiting(q, it) => Waiting(q, it)' \/ (q = n /\ Carries(Head(chunks), it))
    <3>1. CASE q # n
      BY <1>4, <2>10, <3>1 DEF Waiting
    <3>2. CASE q = n
      <4>1. ASSUME NEW i \in DOMAIN Tail(chunks), Carries(Tail(chunks)[i], it) PROVE Waiting(n, it)
        BY <2>3, <2>5, <4>1, Zenon DEF Waiting
      <4>2. ASSUME Waiting(n, it)' PROVE Waiting(n, it)
        <5>1. PICK t \in trains'[n] : \E i \in DOMAIN t : Carries(t[i], it)
          BY <1>4, <4>2 DEF Waiting
        <5> QED
          BY <2>10, <4>1, <5>1 DEF Waiting
      <4>3. ASSUME NEW i \in DOMAIN Tail(chunks), Carries(Tail(chunks)[i], it) PROVE Waiting(n, it)'
        <5>1. Tail(chunks) # << >>
          BY <4>3
        <5>2. Tail(chunks) \in trains'[n]
          BY <2>10, <5>1
        <5> QED
          BY <4>3, <5>2 DEF Waiting
      <4>4. ASSUME Carries(queue, it) PROVE Waiting(n, it)' \/ Carries(Head(chunks), it)
        <5>1. PICK i \in DOMAIN chunks : Carries(chunks[i], it)
          BY <2>3, <4>4
        <5>2. CASE i = 1
          BY <2>4, <5>1, <5>2
        <5>3. CASE i # 1
          <6>1. i - 1 \in DOMAIN Tail(chunks) /\ Tail(chunks)[i - 1] = chunks[i]
            BY <2>6, <5>3
          <6>2. Carries(Tail(chunks)[i - 1], it)
            BY <5>1, <6>1
          <6> QED
            BY <4>3, <6>1, <6>2
        <5> QED
          BY <5>2, <5>3
      <4>5. ASSUME Waiting(n, it) PROVE Waiting(n, it)' \/ Carries(Head(chunks), it)
        <5>1. CASE Carries(queue, it)
          BY <4>4, <5>1
        <5>2. CASE \E t \in trains[n] : \E i \in DOMAIN t : Carries(t[i], it)
          BY <2>10, <5>2 DEF Waiting
        <5> QED
          BY <4>5, <5>1, <5>2 DEF Waiting
      <4> QED
        BY <3>2, <4>2, <4>5
    <3> QED
      BY <3>1, <3>2
  <2>12. ASSUME NEW it \in Item, Carries(Head(chunks), it) PROVE Waiting(n, it)
    <3>1. Carries(queue, it)
      BY <2>3, <2>4, <2>12
    <3> QED
      BY <3>1 DEF Waiting
  <2>13. Moves(n)
    BY <2>8, <2>11, <2>12, PeerIsNode DEF Moves
  <2> QED
    BY <1>1, <1>2, <2>7, <2>9, <2>13 DEF QueueTypes
<1> QED
  BY <1>5, <1>6

\* A trickled chunk.
LEMMA SendEffect ==
  ASSUME QueueTypes, NEW n \in Node, NEW t \in trains[n], SendBatch(n, t)
  PROVE  QueueTypes' /\ Moves(n) /\ pending' = pending
<1>1. MsgTypes /\ PendingTypes /\ TrainTypes
  BY DEF QueueTypes
<1>2. /\ msgs' = msgs \cup Broadcast(n, Head(t))
      /\ trains' = [trains EXCEPT ![n] = (@ \ {t}) \cup ({Tail(t)} \ {<< >>})]
      /\ pending' = pending
  BY DEF SendBatch
<1>3. t \in Seq(Seq(Item) \ {<< >>}) /\ t # << >>
  BY <1>1 DEF TrainTypes
<1>4. /\ Head(t) \in Seq(Item) \ {<< >>} /\ Tail(t) \in Seq(Seq(Item) \ {<< >>})
      /\ 1 \in DOMAIN t /\ Head(t) = t[1]
  BY <1>3
<1>5. \A i \in DOMAIN Tail(t) : i + 1 \in DOMAIN t /\ Tail(t)[i] = t[i + 1]
  BY <1>3
<1>6. \A i \in DOMAIN t : i = 1 \/ (i - 1 \in DOMAIN Tail(t) /\ Tail(t)[i - 1] = t[i])
  BY <1>3
<1>7. MsgTypes'
  BY <1>1, <1>2, <1>4, BroadcastFacts
<1>8. \A q \in Node, it \in Item :
        OnTheWay(q, it)' <=> OnTheWay(q, it) \/ (q \in Peers[n] /\ Carries(Head(t), it))
  BY <1>1, <1>2, <1>4, BroadcastFacts
<1>9. TrainTypes'
  BY <1>1, <1>2, <1>4 DEF TrainTypes
<1>10. /\ \A q \in Node : q # n => trains'[q] = trains[q]
       /\ trains'[n] = (trains[n] \ {t}) \cup ({Tail(t)} \ {<< >>})
  BY <1>1, <1>2 DEF TrainTypes
<1>11. ASSUME NEW q \in Node, NEW it \in Item
       PROVE  /\ Waiting(q, it)' => Waiting(q, it)
              /\ Waiting(q, it) => Waiting(q, it)' \/ (q = n /\ Carries(Head(t), it))
  <2>1. Carries(pending[q], it)' <=> Carries(pending[q], it)
    BY <1>2 DEF Carries
  <2>2. CASE q # n
    BY <1>10, <2>1, <2>2 DEF Waiting
  <2>3. CASE q = n
    <3>1. ASSUME NEW i \in DOMAIN Tail(t), Carries(Tail(t)[i], it) PROVE Waiting(n, it)
      BY <1>5, <3>1, Zenon DEF Waiting
    <3>2. ASSUME NEW i \in DOMAIN Tail(t), Carries(Tail(t)[i], it) PROVE Waiting(n, it)'
      <4>1. Tail(t) # << >>
        BY <3>2
      <4>2. Tail(t) \in trains'[n]
        BY <1>10, <4>1
      <4> QED
        BY <3>2, <4>2 DEF Waiting
    <3>3. ASSUME Waiting(n, it)' PROVE Waiting(n, it)
      <4>1. CASE Carries(pending[n], it)
        BY <4>1 DEF Waiting
      <4>2. CASE \E u \in trains'[n] : \E i \in DOMAIN u : Carries(u[i], it)
        <5>1. PICK u \in trains'[n] : \E i \in DOMAIN u : Carries(u[i], it)
          BY <4>2
        <5> QED
          BY <1>10, <3>1, <5>1 DEF Waiting
      <4> QED
        BY <2>1, <2>3, <3>3, <4>1, <4>2 DEF Waiting
    <3>4. ASSUME NEW u \in trains[n], NEW i \in DOMAIN u, Carries(u[i], it)
          PROVE  Waiting(n, it)' \/ Carries(Head(t), it)
      <4>1. CASE u # t
        BY <1>10, <3>4, <4>1 DEF Waiting
      <4>2. CASE u = t /\ i = 1
        BY <1>4, <3>4, <4>2
      <4>3. CASE u = t /\ i # 1
        <5>1. i - 1 \in DOMAIN Tail(t) /\ Tail(t)[i - 1] = t[i]
          BY <1>6, <4>3
        <5>2. Carries(Tail(t)[i - 1], it)
          BY <3>4, <4>3, <5>1
        <5> QED
          BY <3>2, <5>1, <5>2
      <4> QED
        BY <4>1, <4>2, <4>3
    <3> QED
      BY <2>1, <2>3, <3>3, <3>4 DEF Waiting
  <2> QED
    BY <2>2, <2>3
<1>12. ASSUME NEW it \in Item, Carries(Head(t), it) PROVE Waiting(n, it)
  BY <1>4, <1>12 DEF Waiting
<1>13. Moves(n)
  BY <1>8, <1>11, <1>12, PeerIsNode DEF Moves
<1> QED
  BY <1>1, <1>2, <1>7, <1>9, <1>13 DEF QueueTypes, PendingTypes

\* A batch of issued versions is absorbed.
LEMMA AbsorbEffect ==
  ASSUME StoresOK, NEW n \in Node, NEW items \in Seq(Item),
         \A it \in Item : Carries(items, it) => Issued(it.key, it.ts),
         store' = [store EXCEPT ![n] = AbsorbItems(store[n], items).state], now' = now
  PROVE  /\ Learned(n)
         /\ store'[n] = AbsorbItems(store[n], items).state
         /\ \A it \in Item : Carries(items, it) => store'[n][it.key] >= it.ts
         /\ \A k \in Key : store'[n][k] # store[n][k] => \E it \in Item : Carries(items, it) /\ it.key = k
<1> DEFINE a == AbsorbItems(store[n], items)
<1>1. store[n] \in State /\ store \in [Node -> State]
  BY DEF StoresOK
<1>2. a \in Absorption /\ Absorbed(store[n], items, Len(items), a)
  BY <1>1, AbsorbFacts
<1>3. DOMAIN items = 1 .. Len(items) /\ \A i \in 1 .. Len(items) : items[i] \in Item
  OBVIOUS
<1> HIDE DEF a
<1>4. a.state \in State /\ a.fresh \in Seq(Item) /\ \A k \in Key : a.state[k] \in Int /\ store[n][k] \in Int
  BY <1>1, <1>2 DEF Absorption, State, Version, Absent
<1>5. store'[n] = a.state
  BY <1>1 DEF a
<1>6. ASSUME NEW it \in Item, Carries(items, it) PROVE a.state[it.key] >= it.ts
  <2>1. PICK i \in 1 .. Len(items) : items[i] = it
    BY <1>3, <1>6 DEF Carries
  <2>2. it.ts <= a.state[it.key]
    BY <1>2, <2>1 DEF Absorbed
  <2> QED
    BY <1>4, <2>2, ItemParts
<1>7. ASSUME NEW k \in Key, a.state[k] # store[n][k]
      PROVE  /\ a.state[k] > store[n][k] /\ Issued(k, a.state[k])
             /\ \E it \in Item : Carries(items, it) /\ it.key = k
  <2>1. a.state[k] >= store[n][k] /\ Carries(a.fresh, ItemOf(k, a.state[k]))
    BY <1>2, <1>7 DEF Absorbed
  <2>2. PICK j \in DOMAIN a.fresh : a.fresh[j] = ItemOf(k, a.state[k])
    BY <2>1 DEF Carries
  <2>3. PICK i \in 1 .. Len(items) : items[i] = a.fresh[j]
    BY <1>2 DEF Absorbed
  <2>4. items[i] \in Item /\ Carries(items, items[i])
    BY <1>3 DEF Carries
  <2>5. items[i].key = k /\ items[i].ts = a.state[k]
    BY <2>2, <2>3 DEF ItemOf
  <2> QED
    BY <1>4, <1>7, <2>1, <2>4, <2>5
<1>8. Newer(n, a.state)
  BY <1>4, <1>7 DEF Newer
<1>9. Learned(n)
  BY <1>4, <1>8 DEF Learned, a
<1> QED
  BY <1>5, <1>6, <1>7, <1>9 DEF a

\* What is fresh joins the queue.
LEMMA QueueEffect ==
  ASSUME StoresOK, PendingTypes, NEW n \in Node, NEW items \in Seq(Item),
         store' = [store EXCEPT ![n] = AbsorbItems(store[n], items).state],
         pending' = [pending EXCEPT ![n] = @ \o AbsorbItems(store[n], items).fresh],
         trains' = trains
  PROVE  /\ PendingTypes'
         /\ \A q \in Node, it \in Item :
              /\ Waiting(q, it) => Waiting(q, it)'
              /\ Waiting(q, it)' => Waiting(q, it) \/ (q = n /\ Carries(items, it))
         /\ Queues(n)
         /\ QueueOK(n) => QueueOK(n)'
<1> DEFINE a == AbsorbItems(store[n], items)
<1>0. PICK old \in Seq(Item) : old = pending[n]
  BY DEF PendingTypes
<1>1. store[n] \in State /\ store \in [Node -> State] /\ old \in Seq(Item)
  BY DEF StoresOK
<1>2. a \in Absorption /\ Absorbed(store[n], items, Len(items), a)
  BY <1>1, AbsorbFacts
<1>3. DOMAIN items = 1 .. Len(items) /\ \A i \in 1 .. Len(items) : items[i] \in Item
  OBVIOUS
<1>4. pending' = [pending EXCEPT ![n] = old \o a.fresh] /\ store'[n] = a.state
  BY <1>0, <1>1
<1> HIDE DEF a
<1>5. a.state \in State /\ a.fresh \in Seq(Item) /\ \A k \in Key : a.state[k] \in Int /\ store[n][k] \in Int
  BY <1>1, <1>2 DEF Absorption, State, Version, Absent
<1>6. pending'[n] = old \o a.fresh
  BY <1>4 DEF PendingTypes
<1>7. PICK fresh \in Seq(Item) : a.fresh = fresh
  BY <1>5
<1>8. old = pending[n]
  BY <1>0
<1>9. PendingTypes'
  BY <1>1, <1>4, <1>7, <1>8, WaitingGrows
<1>10. \A q \in Node, it \in Item :
         Waiting(q, it)' <=> Waiting(q, it) \/ (q = n /\ (Carries(old, it) \/ Carries(fresh, it)))
  <2>1. pending' = [pending EXCEPT ![n] = old \o fresh]
    BY <1>4, <1>7
  <2> QED
    BY <1>8, <2>1, WaitingGrows, Zenon
<1>11. \A it : Carries(fresh, it) => Carries(items, it)
  <2>1. \A j \in DOMAIN fresh : \E i \in DOMAIN items : items[i] = fresh[j]
    BY <1>2, <1>3, <1>7 DEF Absorbed
  <2> QED
    BY <2>1, Zenon DEF Carries
<1>12. \A it : Carries(old, it) => Waiting(n, it)
  BY <1>8 DEF Waiting
<1>13. ASSUME NEW v \in Item, store'[n][v.key] = v.ts, store[n][v.key] # v.ts PROVE Waiting(n, v)'
  <2>1. v.key \in Key /\ v = ItemOf(v.key, v.ts)
    BY ItemParts
  <2>2. Carries(a.fresh, ItemOf(v.key, a.state[v.key]))
    BY <1>2, <1>4, <1>13, <2>1 DEF Absorbed
  <2>3. Carries(fresh, v)
    BY <1>4, <1>7, <1>13, <2>1, <2>2
  <2> QED
    BY <1>10, <2>3, Zenon
<1>14. ASSUME QueueOK(n) PROVE QueueOK(n)'
  <2> DEFINE len == Len(old)
             joined == old \o fresh
  <2>1. /\ len \in Nat /\ Len(fresh) \in Nat /\ DOMAIN old = 1 .. len /\ DOMAIN fresh = 1 .. Len(fresh)
        /\ DOMAIN joined = 1 .. len + Len(fresh)
        /\ \A i \in 1 .. len : joined[i] = old[i]
    BY <1>1, <1>7
  <2>2. \A i \in 1 .. Len(fresh) : joined[len + i] = fresh[i]
    BY <1>1, <1>7
  <2>3. \A i \in DOMAIN old : old[i] \in Item /\ old[i].key \in Key /\ old[i].ts \in Nat
    <3>1. \A i \in DOMAIN old : old[i] \in Item
      BY <1>1
    <3> QED
      BY <3>1, ItemParts
  <2>4. \A i \in DOMAIN fresh : fresh[i] \in Item /\ fresh[i].key \in Key /\ fresh[i].ts \in Nat
    <3>1. \A i \in DOMAIN fresh : fresh[i] \in Item
      BY <1>7
    <3> QED
      BY <3>1, ItemParts
  <2> HIDE DEF len, joined
  <2>5. ASSUME NEW i \in 1 .. len + Len(fresh)
        PROVE  \/ i \in 1 .. len
               \/ i - len \in 1 .. Len(fresh) /\ joined[i] = fresh[i - len]
    <3>1. CASE i <= len
      BY <2>1, <3>1
    <3>2. CASE i > len
      <4>1. i - len \in 1 .. Len(fresh) /\ len + (i - len) = i
        BY <2>1, <3>2
      <4> QED
        BY <2>2, <4>1
    <3> QED
      BY <2>1, <3>1, <3>2
  <2>6. ASSUME NEW i \in 1 .. len + Len(fresh) PROVE joined[i].ts <= a.state[joined[i].key]
    <3>1. CASE i \in 1 .. len
      <4>1. old[i].ts <= store[n][old[i].key] /\ old[i].key \in Key /\ old[i].ts \in Nat
        BY <1>8, <1>14, <2>1, <2>3, <3>1 DEF QueueOK
      <4>2. a.state[old[i].key] >= store[n][old[i].key]
        BY <1>2, <4>1 DEF Absorbed
      <4>3. old[i].ts <= a.state[old[i].key]
        BY <1>5, <4>1, <4>2
      <4> QED
        BY <2>1, <3>1, <4>3
    <3>2. CASE i - len \in 1 .. Len(fresh) /\ joined[i] = fresh[i - len]
      BY <1>2, <1>7, <2>1, <3>2 DEF Absorbed
    <3> QED
      BY <2>5, <3>1, <3>2
  <2>7. ASSUME NEW i \in 1 .. len + Len(fresh), NEW j \in 1 .. len + Len(fresh),
               i < j, joined[i].key = joined[j].key, n \notin Origins[joined[i].key]
        PROVE  joined[i].ts < joined[j].ts
    <3>1. CASE i \in 1 .. len /\ j \in 1 .. len
      BY <1>8, <1>14, <2>1, <2>7, <3>1 DEF QueueOK
    <3>2. CASE i \in 1 .. len /\ j - len \in 1 .. Len(fresh) /\ joined[j] = fresh[j - len]
      <4>1. old[i].ts <= store[n][old[i].key] /\ old[i].key \in Key /\ old[i].ts \in Nat
        BY <1>8, <1>14, <2>1, <2>3, <3>2 DEF QueueOK
      <4>2. store[n][fresh[j - len].key] < fresh[j - len].ts /\ fresh[j - len].ts \in Nat
        BY <1>2, <1>7, <2>1, <2>4, <3>2 DEF Absorbed
      <4>3. joined[i] = old[i]
        BY <2>1, <3>2
      <4>4. PICK k \in Key : k = old[i].key
        BY <4>1
      <4>5. fresh[j - len].key = k
        BY <2>7, <3>2, <4>3, <4>4
      <4>6. old[i].ts <= store[n][k] /\ store[n][k] < fresh[j - len].ts /\ store[n][k] \in Int
        BY <1>5, <4>1, <4>2, <4>4, <4>5
      <4>7. old[i].ts < fresh[j - len].ts
        BY <4>1, <4>2, <4>6
      <4> QED
        BY <3>2, <4>3, <4>7
    <3>3. CASE i - len \in 1 .. Len(fresh) /\ joined[i] = fresh[i - len]
      <4>1. j - len \in 1 .. Len(fresh) /\ joined[j] = fresh[j - len] /\ i - len < j - len
        <5>1. i \in Int /\ j \in Int /\ len \in Int /\ i - len >= 1
          BY <2>1, <3>3
        <5>2. ~ (j \in 1 .. len)
          BY <2>7, <5>1
        <5> QED
          BY <2>5, <2>7, <5>1, <5>2
      <4>2. fresh[i - len].key = fresh[j - len].key
        BY <2>7, <3>3, <4>1
      <4>3. fresh[i - len].ts < fresh[j - len].ts
        BY <1>2, <1>7, <2>1, <3>3, <4>1, <4>2 DEF Absorbed
      <4> QED
        BY <3>3, <4>1, <4>3
    <3> QED
      BY <2>5, <3>1, <3>2, <3>3
  <2>8. pending'[n] = joined /\ DOMAIN joined = 1 .. len + Len(fresh)
    BY <1>6, <1>7, <2>1 DEF joined
  <2> QED
    BY <1>4, <2>6, <2>7, <2>8 DEF QueueOK
<1> QED
  BY <1>9, <1>10, <1>11, <1>12, <1>13, <1>14 DEF Queues

\* The queue of a node stays as it was, or is emptied.
LEMMA QueueOKStays ==
  ASSUME StoresOK, StoreStep, PendingTypes, NEW n \in Node, QueueOK(n),
         pending'[n] = pending[n] \/ pending'[n] = << >>
  PROVE  QueueOK(n)'
<1>1. CASE pending'[n] = << >>
  BY <1>1 DEF QueueOK
<1>2. CASE pending'[n] = pending[n]
  <2>1. ASSUME NEW i \in DOMAIN pending[n] PROVE pending[n][i].ts <= store'[n][pending[n][i].key]
    <3>1. pending[n][i] \in Item
      BY DEF PendingTypes
    <3> DEFINE it == pending[n][i]
    <3> HIDE DEF it
    <3>2. it.key \in Key /\ it.ts \in Nat
      BY <3>1, ItemParts DEF it
    <3>3. it.ts <= store[n][it.key]
      BY DEF QueueOK, it
    <3>4. /\ store[n][it.key] \in Int /\ store'[n][it.key] \in Int
          /\ store'[n][it.key] >= store[n][it.key]
      BY <3>2, StoreTypes, StoresGrow
    <3>5. it.ts <= store'[n][it.key]
      BY <3>2, <3>3, <3>4
    <3> QED
      BY <3>5 DEF it
  <2> QED
    BY <1>2, <2>1 DEF QueueOK
<1> QED
  BY <1>1, <1>2

\* An LND node puts what it originates in front.
LEMMA QueueOKOwn ==
  ASSUME StoresOK, PendingTypes, NEW n \in Node, QueueOK(n), NEW k \in Key, Published(n, k),
         pending'[n] = << ItemOf(k, StampOf(k, now)) >> \o pending[n]
  PROVE  QueueOK(n)'
<1> DEFINE old == pending[n]
           new == pending'[n]
<1>1. PICK v \in Item : v = ItemOf(k, StampOf(k, now))
  <2>1. StampOf(k, now) \in Nat
    BY PublishedFacts
  <2> QED
    BY <2>1 DEF Item, ItemOf
<1>2. v.key = k /\ v.ts = StampOf(k, now) /\ v.ts \in Nat /\ n \in Origins[k]
  BY <1>1, ItemParts DEF ItemOf, Published
<1>3. old \in Seq(Item) /\ new = << v >> \o old
  BY <1>1 DEF PendingTypes
<1> HIDE DEF old, new
<1>4. DOMAIN old = 1 .. Len(old) /\ Len(old) \in Nat /\ DOMAIN new = 1 .. Len(old) + 1 /\ new[1] = v
  BY <1>3
<1>5. \A i \in 2 .. Len(old) + 1 : i - 1 \in DOMAIN old /\ new[i] = old[i - 1]
  BY <1>3
<1>6. \A i \in DOMAIN old : old[i] \in Item /\ old[i].key \in Key /\ old[i].ts \in Nat
  <2>1. \A i \in DOMAIN old : old[i] \in Item
    BY <1>3
  <2> QED
    BY <2>1, ItemParts
<1>7. \A i \in DOMAIN old : old[i].ts <= store'[n][old[i].key]
  <2> SUFFICES ASSUME NEW i \in DOMAIN old PROVE old[i].ts <= store'[n][old[i].key]
    OBVIOUS
  <2>1. old[i].ts <= store[n][old[i].key] /\ old[i].key \in Key /\ old[i].ts \in Nat
    BY <1>6 DEF QueueOK, old
  <2>2. StoreStep
    BY DEF StoreStep
  <2>3. /\ store[n][old[i].key] \in Int /\ store'[n][old[i].key] \in Int
        /\ store'[n][old[i].key] >= store[n][old[i].key]
    BY <2>1, <2>2, StoreTypes, StoresGrow
  <2> QED
    BY <2>1, <2>3
<1>8. store'[n][k] = v.ts
  BY <1>2, PublishedFacts
<1>9. \A i \in DOMAIN new : i = 1 \/ i \in 2 .. Len(old) + 1
  BY <1>4
<1>10. ASSUME NEW i \in DOMAIN new PROVE new[i].ts <= store'[n][new[i].key]
  <2>1. CASE i = 1
    BY <1>2, <1>4, <1>8, <2>1
  <2>2. CASE i \in 2 .. Len(old) + 1
    BY <1>5, <1>7, <2>2
  <2> QED
    BY <1>9, <2>1, <2>2
<1>11. ASSUME NEW i \in DOMAIN new, NEW j \in DOMAIN new, i < j,
              new[i].key = new[j].key, n \notin Origins[new[i].key]
       PROVE  new[i].ts < new[j].ts
  <2>1. i # 1
    BY <1>2, <1>4, <1>11
  <2>2. i \in 2 .. Len(old) + 1 /\ j \in 2 .. Len(old) + 1
    BY <1>4, <1>9, <1>11, <2>1
  <2>3. /\ new[i] = old[i - 1] /\ new[j] = old[j - 1] /\ i - 1 < j - 1
        /\ i - 1 \in DOMAIN old /\ j - 1 \in DOMAIN old
    BY <1>5, <1>11, <2>2
  <2> QED
    BY <1>11, <2>3 DEF QueueOK, old
<1> QED
  BY <1>10, <1>11 DEF QueueOK, new

\* A batch is taken out of the mailboxes.
LEMMA MsgTaken ==
  ASSUME MsgTypes, NEW m \in msgs, msgs' = msgs \ {m}
  PROVE  /\ MsgTypes'
         /\ \A q \in Node, it \in Item :
              /\ OnTheWay(q, it)' => OnTheWay(q, it)
              /\ OnTheWay(q, it) => OnTheWay(q, it)' \/ (q = m.to /\ Carries(m.items, it))
  BY DEF MsgTypes, OnTheWay

\* What a batch carries is issued.
LEMMA CarriedIsIssued ==
  ASSUME OnlyIssued, MsgTypes, NEW m \in msgs
  PROVE  \A it \in Item : Carries(m.items, it) => Issued(it.key, it.ts)
<1>1. m.to \in Node
  BY DEF MsgTypes
<1> QED
  BY <1>1 DEF OnlyIssued, OnTheWay

\* recv of a CLN or LND node, for a batch.
LEMMA RecvEffect ==
  ASSUME StoresOK, QueueTypes, OnlyIssued, NEW m \in msgs, Recv(m)
  PROVE  /\ m.to \in Node
         /\ Learned(m.to) /\ QueueTypes' /\ Takes(m.to, m.items) /\ Queues(m.to)
         /\ \A it \in Item : Carries(m.items, it) => store'[m.to][it.key] >= it.ts
         /\ QueueOK(m.to) => QueueOK(m.to)'
         /\ \A n \in Node : n # m.to => pending'[n] = pending[n]
         /\ trains' = trains
<1>1. PICK n \in Node : n = m.to
  BY DEF QueueTypes, MsgTypes
<1>2. PICK items \in Seq(Item) : items = m.items
  BY DEF QueueTypes, MsgTypes
<1>3. /\ msgs' = msgs \ {m}
      /\ store' = [store EXCEPT ![n] = AbsorbItems(store[n], items).state]
      /\ pending' = [pending EXCEPT ![n] = @ \o AbsorbItems(store[n], items).fresh]
      /\ now' = now /\ trains' = trains
  BY <1>1, <1>2 DEF Recv
<1>4. \A it \in Item : Carries(items, it) => Issued(it.key, it.ts)
  BY <1>2, CarriedIsIssued DEF QueueTypes
<1>5. Learned(n) /\ \A it \in Item : Carries(items, it) => store'[n][it.key] >= it.ts
  BY <1>3, <1>4, AbsorbEffect
<1>6. /\ PendingTypes' /\ Queues(n) /\ (QueueOK(n) => QueueOK(n)')
      /\ \A q \in Node, it \in Item :
              /\ Waiting(q, it) => Waiting(q, it)'
              /\ Waiting(q, it)' => Waiting(q, it) \/ (q = n /\ Carries(items, it))
  BY <1>3, QueueEffect DEF QueueTypes
<1>7. /\ MsgTypes'
      /\ \A q \in Node, it \in Item :
           /\ OnTheWay(q, it)' => OnTheWay(q, it)
           /\ OnTheWay(q, it) => OnTheWay(q, it)' \/ (q = n /\ Carries(items, it))
  BY <1>1, <1>2, <1>3, MsgTaken DEF QueueTypes
<1>8. QueueTypes'
  BY <1>3, <1>6, <1>7 DEF QueueTypes, TrainTypes
<1>9. Takes(n, items)
  BY <1>6, <1>7, Zenon DEF Takes
<1>10. \A q \in Node : q # n => pending'[q] = pending[q]
  BY <1>3 DEF QueueTypes, PendingTypes
<1> QED
  BY <1>1, <1>2, <1>3, <1>5, <1>6, <1>8, <1>9, <1>10

\* What is carried and queued after a step was so before it, or is issued.
LEMMA IssuedStep ==
  ASSUME StoresOK, StoreStep, OnlyIssued,
         \A n \in Node, it \in Item : Waiting(n, it)' \/ OnTheWay(n, it)' =>
           \/ \E q \in Node : Waiting(q, it) \/ OnTheWay(q, it)
           \/ Issued(it.key, it.ts)
           \/ Issued(it.key, it.ts)'
  PROVE  OnlyIssued'
<1> SUFFICES ASSUME NEW n \in Node, NEW it \in Item, Waiting(n, it)' \/ OnTheWay(n, it)'
             PROVE  Issued(it.key, it.ts)'
  BY DEF OnlyIssued
<1>1. it.key \in Key /\ it.ts \in Int
  BY ItemParts
<1>2. Issued(it.key, it.ts) \/ Issued(it.key, it.ts)'
  BY DEF OnlyIssued
<1> QED
  BY <1>1, <1>2, IssuedStays

\* So it is when a node originates,
LEMMA EmitsIssued ==
  ASSUME StoresOK, OnlyIssued, NEW n \in Node, NEW k \in Key, Published(n, k),
         NEW v \in Item, v = ItemOf(k, StampOf(k, now)), Emits(n, v)
  PROVE  OnlyIssued'
<1>1. StoreStep
  BY DEF StoreStep
<1>2. Issued(v.key, v.ts)'
  <2>1. v.key = k /\ v.ts = StampOf(k, now) /\ v.ts \in Nat
    BY ItemParts DEF ItemOf
  <2>2. store'[n][k] = v.ts /\ n \in Origins[k]
    BY <2>1, PublishedFacts DEF Published
  <2> QED
    BY <2>1, <2>2 DEF Issued
<1>3. \A q \in Node, it \in Item : Waiting(q, it)' \/ OnTheWay(q, it)' =>
        (Waiting(q, it) \/ OnTheWay(q, it)) \/ it = v
  BY Zenon DEF Emits
<1> QED
  BY <1>1, <1>2, <1>3, IssuedStep

\* sends on what waits,
LEMMA MovesIssued ==
  ASSUME StoresOK, Kept, OnlyIssued, NEW n \in Node, Moves(n)
  PROVE  OnlyIssued'
<1>1. StoreStep
  BY DEF StoreStep
<1>2. \A q \in Node, it \in Item : Waiting(q, it)' \/ OnTheWay(q, it)' =>
        (Waiting(q, it) \/ OnTheWay(q, it)) \/ Waiting(n, it)
  BY Zenon DEF Moves
<1> QED
  BY <1>1, <1>2, IssuedStep

\* or takes what a batch brings it.
LEMMA TakesIssued ==
  ASSUME StoresOK, StoreStep, OnlyIssued, NEW n \in Node, NEW items, Takes(n, items),
         \A it \in Item : Carries(items, it) => Issued(it.key, it.ts)
  PROVE  OnlyIssued'
<1>1. \A q \in Node, it \in Item : Waiting(q, it)' \/ OnTheWay(q, it)' =>
        (Waiting(q, it) \/ OnTheWay(q, it)) \/ Issued(it.key, it.ts)
  BY Zenon DEF Takes
<1> QED
  BY <1>1, IssuedStep

\* What n owes its peer p it still owes, has sent or has handed over.
LEMMA HandedStep ==
  ASSUME StoresOK, StoreStep, NEW n \in Node, NEW p \in Peers[n], NEW k \in Key, HandedAt(n, p, k),
         \A it \in Item : it.key = k /\ it.ts = store'[n][k] =>
           \/ Waiting(n, it)' \/ OnTheWay(p, it)'
           \/ /\ store'[n][k] = store[n][k]
              /\ Waiting(n, it) \/ OnTheWay(p, it) =>
                   Waiting(n, it)' \/ OnTheWay(p, it)' \/ store'[p][k] >= it.ts
  PROVE  HandedAt(n, p, k)'
<1>1. p \in Node
  BY PeerIsNode
<1>2. /\ store[n][k] \in Int /\ store[p][k] \in Int /\ store'[n][k] \in Version
      /\ store'[p][k] \in Version /\ store'[p][k] \in Int /\ store'[p][k] >= store[p][k]
  <2>1. store' \in [Node -> State]
    BY StoresStep DEF StoresOK
  <2> QED
    BY <1>1, <2>1, StoreTypes, StoresGrow DEF State
<1>3. CASE store'[n][k] = Absent
  BY <1>2, <1>3 DEF HandedAt, Version, Absent
<1>4. CASE store'[n][k] # Absent
  <2>1. PICK it \in Item : it = ItemOf(k, store'[n][k])
    <3>1. store'[n][k] \in Nat
      BY <1>2, <1>4 DEF Version
    <3> QED
      BY <3>1 DEF Item, ItemOf
  <2>2. it.key = k /\ it.ts = store'[n][k] /\ it.ts \in Nat
    BY <2>1, ItemParts DEF ItemOf
  <2>3. HandedAt(n, p, k)' <=>
          (store'[p][k] >= store'[n][k] \/ Waiting(n, it)' \/ OnTheWay(p, it)')
    BY <2>1 DEF HandedAt, Waiting, OnTheWay
  <2>4. CASE Waiting(n, it)' \/ OnTheWay(p, it)'
    BY <2>3, <2>4
  <2>5. CASE /\ store'[n][k] = store[n][k]
             /\ Waiting(n, it) \/ OnTheWay(p, it) =>
                  Waiting(n, it)' \/ OnTheWay(p, it)' \/ store'[p][k] >= it.ts
    <3>1. store[p][k] >= store[n][k] \/ Waiting(n, it) \/ OnTheWay(p, it)
      BY <2>1, <2>5 DEF HandedAt
    <3>2. CASE store[p][k] >= store[n][k]
      <4>1. store'[p][k] >= store'[n][k]
        BY <1>2, <2>5, <3>2
      <4> QED
        BY <2>3, <4>1
    <3>3. CASE Waiting(n, it) \/ OnTheWay(p, it)
      BY <2>2, <2>3, <2>5, <3>3
    <3> QED
      BY <3>1, <3>2, <3>3
  <2> QED
    BY <2>2, <2>4, <2>5
<1> QED
  BY <1>3, <1>4

\* So it is when a node originates,
LEMMA EmitsHanded ==
  ASSUME StoresOK, NEW n \in Node, NEW p \in Peers[n], NEW k \in Key, HandedAt(n, p, k),
         NEW o \in Node, NEW j \in Key, Published(o, j),
         NEW v \in Item, v = ItemOf(j, StampOf(j, now)), Emits(o, v)
  PROVE  HandedAt(n, p, k)'
<1>1. StoreStep
  BY DEF StoreStep
<1>2. p \in Node
  BY PeerIsNode
<1>3. ASSUME NEW it \in Item, it.key = k, it.ts = store'[n][k]
      PROVE  \/ Waiting(n, it)' \/ OnTheWay(p, it)'
             \/ /\ store'[n][k] = store[n][k]
                /\ Waiting(n, it) \/ OnTheWay(p, it) => Waiting(n, it)' \/ OnTheWay(p, it)'
  <2>1. Waiting(n, it) \/ OnTheWay(p, it) => Waiting(n, it)' \/ OnTheWay(p, it)'
    BY <1>2, Zenon DEF Emits
  <2>2. CASE n = o /\ k = j
    <3>1. store'[n][k] = StampOf(k, now)
      BY <2>2, PublishedFacts
    <3>2. it = v
      BY <1>3, <2>2, <3>1, ItemParts
    <3>3. Waiting(o, v)' \/ \A q \in Peers[o] : OnTheWay(q, v)'
      BY Zenon DEF Emits
    <3> QED
      BY <2>2, <3>2, <3>3
  <2>3. CASE ~ (n = o /\ k = j)
    <3>1. store'[n][k] = store[n][k]
      BY <2>3, PublishedFacts
    <3> QED
      BY <2>1, <3>1
  <2> QED
    BY <2>2, <2>3
<1> QED
  BY <1>1, <1>3, HandedStep

\* sends on what waits,
LEMMA MovesHanded ==
  ASSUME StoresOK, NEW n \in Node, NEW p \in Peers[n], NEW k \in Key, HandedAt(n, p, k),
         NEW o \in Node, Kept, Moves(o)
  PROVE  HandedAt(n, p, k)'
<1>1. StoreStep /\ store' = store
  BY DEF StoreStep, Kept
<1>2. p \in Node
  BY PeerIsNode
<1>3. \A it \in Item : Waiting(n, it) \/ OnTheWay(p, it) => Waiting(n, it)' \/ OnTheWay(p, it)'
  BY <1>2, Zenon DEF Moves
<1> QED
  BY <1>1, <1>3, HandedStep

\* or takes what a batch brings it.
LEMMA TakesHanded ==
  ASSUME StoresOK, NEW n \in Node, NEW p \in Peers[n], NEW k \in Key, HandedAt(n, p, k),
         NEW o \in Node, Learned(o), NEW items, Takes(o, items),
         \A it \in Item : Carries(items, it) => store'[o][it.key] >= it.ts,
         n = o => Queues(o)
  PROVE  HandedAt(n, p, k)'
<1>1. StoreStep
  BY DEF StoreStep
<1>2. p \in Node
  BY PeerIsNode
<1>3. ASSUME NEW it \in Item, it.key = k, it.ts = store'[n][k]
      PROVE  \/ Waiting(n, it)' \/ OnTheWay(p, it)'
             \/ /\ store'[n][k] = store[n][k]
                /\ Waiting(n, it) \/ OnTheWay(p, it) =>
                     Waiting(n, it)' \/ OnTheWay(p, it)' \/ store'[p][k] >= it.ts
  <2>1. Waiting(n, it) \/ OnTheWay(p, it) =>
          Waiting(n, it)' \/ OnTheWay(p, it)' \/ (p = o /\ Carries(items, it))
    BY <1>2, Zenon DEF Takes
  <2>2. p = o /\ Carries(items, it) => store'[p][k] >= it.ts
    BY <1>3
  <2>3. CASE store'[n][k] = store[n][k]
    BY <2>1, <2>2, <2>3
  <2>4. CASE store'[n][k] # store[n][k]
    <3>1. n = o
      BY <2>4, LearnedFacts
    <3>2. Waiting(n, it)'
      BY <1>3, <2>4, <3>1 DEF Queues
    <3> QED
      BY <3>2
  <2> QED
    BY <2>3, <2>4
<1> QED
  BY <1>1, <1>3, HandedStep

-----------------------------------------------------------------------------
(***************************************************************************)
(* The stagger nodes by themselves                                         *)
(***************************************************************************)

\* The inductive invariant.  HandedOn rests on nothing but what the steps do to
\* the queues; the order of a queue rests on what is queued being no newer than
\* what is stored (QueueOK); that the stores keep the promise rests on nothing
\* being on its way that nobody has issued.
StaggerInv ==
  /\ StoresOK
  /\ QueueTypes
  /\ OnlyIssued
  /\ \A n \in Node : QueueOK(n)
  /\ \A n \in Node : \A p \in Peers[n] : \A k \in Key : HandedAt(n, p, k)

\* The empty state.
LEMMA NothingStored == Nothing \in State /\ \A k \in Key : Nothing[k] = Absent
  BY DEF Nothing, State, Version, Absent

\* Nothing is stored, queued or sent in the beginning.
LEMMA StaggerInit == Init => StaggerInv
<1> SUFFICES ASSUME Init PROVE StaggerInv
  OBVIOUS
<1>1. \A n \in Node : store[n] \in State /\ \A k \in Key : store[n][k] = Absent
  BY NothingStored DEF Init
<1>2. StoresOK
  <2>1. \A k \in Key : Issued(k, Absent)
    BY <1>1, OriginIsNode DEF Issued, Absent
  <2>2. store \in [Node -> State] /\ now = 0
    BY NothingStored DEF Init
  <2> QED
    BY <1>1, <2>1, <2>2 DEF StoresOK, Absent
<1>3. QueueTypes
  BY DEF Init, QueueTypes, MsgTypes, PendingTypes, TrainTypes
<1>4. OnlyIssued
  BY DEF Init, OnlyIssued, Waiting, OnTheWay, Carries
<1>5. \A n \in Node : QueueOK(n)
  BY DEF Init, QueueOK
<1>6. \A n \in Node : \A p \in Peers[n] : \A k \in Key : HandedAt(n, p, k)
  BY <1>1, PeerIsNode DEF HandedAt, Absent
<1> QED
  BY <1>2, <1>3, <1>4, <1>5, <1>6 DEF StaggerInv

\* Every step of the stagger nodes is one of the steps the promise knows.
LEMMA StaggerStores == StaggerInv /\ [Next]_vars => StoreStep
<1> SUFFICES ASSUME StaggerInv, [Next]_vars PROVE StoreStep
  OBVIOUS
<1>1. ASSUME NEW n \in Node, NEW k \in Key, Originate(n, k) PROVE StoreStep
  BY <1>1 DEF Originate, Published, StoreStep
<1>2. ASSUME NEW m \in msgs, Recv(m) PROVE StoreStep
  <2>1. m.to \in Node /\ Learned(m.to)
    BY <1>2, RecvEffect DEF StaggerInv
  <2> QED
    BY <2>1 DEF StoreStep
<1>3. CASE UNCHANGED <<store, now>>
  BY <1>3 DEF StoreStep, Kept
<1>4. CASE Elapse
  BY <1>4 DEF Elapse, StoreStep, Kept
<1> QED
  BY <1>1, <1>2, <1>3, <1>4 DEF Next, vars, TickCln, TickLnd, SendBatch

\* Every step of the stagger nodes keeps the invariant.
LEMMA StaggerStep == StaggerInv /\ [Next]_vars => StaggerInv'
<1> SUFFICES ASSUME StaggerInv, [Next]_vars PROVE StaggerInv'
  OBVIOUS
<1>1. /\ StoresOK /\ QueueTypes /\ OnlyIssued /\ PendingTypes
      /\ \A n \in Node : QueueOK(n)
      /\ \A n \in Node : \A p \in Peers[n] : \A k \in Key : HandedAt(n, p, k)
  BY DEF StaggerInv, QueueTypes
<1>2. StoreStep /\ StoresOK'
  BY <1>1, StaggerStores, StoresStep
<1>3. ASSUME NEW o \in Node, NEW j \in Key, Originate(o, j) PROVE StaggerInv'
  <2>1. Published(o, j) /\ QueueTypes'
    BY <1>1, <1>3, OriginateEffect
  <2>2. PICK v \in Item : v = ItemOf(j, StampOf(j, now)) /\ Emits(o, v)
    BY <1>1, <1>3, OriginateEffect
  <2>3. OnlyIssued'
    BY <1>1, <2>1, <2>2, EmitsIssued
  <2>4. \A n \in Node : QueueOK(n)'
    <3> SUFFICES ASSUME NEW n \in Node PROVE QueueOK(n)'
      OBVIOUS
    <3>1. \/ pending'[n] = pending[n]
          \/ n = o /\ pending'[n] = << ItemOf(j, StampOf(j, now)) >> \o pending[n]
      BY <1>1, <1>3 DEF Originate, OriginateCln, OriginateLnd, PendingTypes
    <3> QED
      BY <1>1, <1>2, <2>1, <3>1, QueueOKStays, QueueOKOwn
  <2>5. \A n \in Node : \A p \in Peers[n] : \A k \in Key : HandedAt(n, p, k)'
    BY <1>1, <2>1, <2>2, EmitsHanded
  <2> QED
    BY <1>2, <2>1, <2>3, <2>4, <2>5 DEF StaggerInv
<1>4. ASSUME NEW m \in msgs, Recv(m) PROVE StaggerInv'
  <2>1. /\ m.to \in Node
        /\ Learned(m.to) /\ QueueTypes' /\ Takes(m.to, m.items) /\ Queues(m.to)
        /\ \A it \in Item : Carries(m.items, it) => store'[m.to][it.key] >= it.ts
        /\ QueueOK(m.to) => QueueOK(m.to)'
        /\ \A n \in Node : n # m.to => pending'[n] = pending[n]
    BY <1>1, <1>4, RecvEffect
  <2>2. OnlyIssued'
    <3>1. \A it \in Item : Carries(m.items, it) => Issued(it.key, it.ts)
      BY <1>1, CarriedIsIssued DEF QueueTypes
    <3> QED
      BY <1>1, <1>2, <2>1, <3>1, TakesIssued
  <2>3. \A n \in Node : QueueOK(n)'
    <3> SUFFICES ASSUME NEW n \in Node PROVE QueueOK(n)'
      OBVIOUS
    <3>1. CASE n = m.to
      BY <1>1, <2>1, <3>1
    <3>2. CASE n # m.to
      BY <1>1, <1>2, <2>1, <3>2, QueueOKStays
    <3> QED
      BY <3>1, <3>2
  <2>4. \A n \in Node : \A p \in Peers[n] : \A k \in Key : HandedAt(n, p, k)'
    BY <1>1, <2>1, TakesHanded
  <2> QED
    BY <1>2, <2>1, <2>2, <2>3, <2>4 DEF StaggerInv
<1>5. ASSUME NEW o \in Node, Kept, QueueTypes', Moves(o),
             pending' = pending \/ pending' = [pending EXCEPT ![o] = << >>]
      PROVE  StaggerInv'
  <2>1. OnlyIssued'
    BY <1>1, <1>5, MovesIssued
  <2>2. \A n \in Node : QueueOK(n)'
    <3> SUFFICES ASSUME NEW n \in Node PROVE QueueOK(n)'
      OBVIOUS
    <3>1. pending'[n] = pending[n] \/ pending'[n] = << >>
      BY <1>1, <1>5 DEF PendingTypes
    <3> QED
      BY <1>1, <1>2, <3>1, QueueOKStays
  <2>3. \A n \in Node : \A p \in Peers[n] : \A k \in Key : HandedAt(n, p, k)'
    BY <1>1, <1>5, MovesHanded
  <2> QED
    BY <1>2, <1>5, <2>1, <2>2, <2>3 DEF StaggerInv
<1>6. ASSUME NEW o \in Node, TickCln(o) \/ TickLnd(o) PROVE StaggerInv'
  <2>1. QueueTypes' /\ Moves(o) /\ pending' = [pending EXCEPT ![o] = << >>]
    BY <1>1, <1>6, TickEffect
  <2>2. Kept
    BY <1>6 DEF TickCln, TickLnd, Kept
  <2> QED
    BY <1>5, <2>1, <2>2
<1>7. ASSUME NEW o \in Node, NEW t \in trains[o], SendBatch(o, t) PROVE StaggerInv'
  <2>1. QueueTypes' /\ Moves(o) /\ pending' = pending
    BY <1>1, <1>7, SendEffect
  <2>2. Kept
    BY <1>7 DEF SendBatch, Kept
  <2> QED
    BY <1>5, <2>1, <2>2
<1>8. CASE Elapse \/ UNCHANGED vars
  <2>1. Kept /\ UNCHANGED <<msgs, pending, trains>>
    BY <1>8 DEF Elapse, vars, Kept
  <2>2. QueueTypes'
    BY <1>1, <2>1 DEF QueueTypes, MsgTypes, PendingTypes, TrainTypes
  <2>3. \A n \in Node, it \in Item :
          (Waiting(n, it)' <=> Waiting(n, it)) /\ (OnTheWay(n, it)' <=> OnTheWay(n, it))
    BY <2>1, WaitingSame, OnTheWaySame
  <2>4. ASSUME NEW o \in Node PROVE Moves(o)
    BY <2>3, Zenon DEF Moves
  <2>5. CASE Node = {}
    BY <1>2, <2>2, <2>5 DEF StaggerInv, OnlyIssued
  <2> QED
    BY <1>5, <2>1, <2>2, <2>4, <2>5
<1> QED
  BY <1>3, <1>4, <1>6, <1>7, <1>8 DEF Next

\* The invariant of the stagger nodes holds in every reachable state.
THEOREM StaggerInvariance == Spec => []StaggerInv
  BY StaggerInit, StaggerStep, PTL DEF Spec

\* Every reachable state of the stagger nodes is well typed.
THEOREM StaggerTypes == Spec => []TypeOK
<1>1. StaggerInv => TypeOK
  BY DEF StaggerInv, StoresOK, QueueTypes, MsgTypes, PendingTypes, TrainTypes, TypeOK
<1> QED
  BY <1>1, StaggerInvariance, PTL

\* What a CLN or LND node has to forward (on_*_recv pushing onto pending) is
\* queued oldest first and never twice, whatever batches come in whatever order.
THEOREM QueuesInOrder == Spec => []ForwardedInOrder
<1>1. StaggerInv => ForwardedInOrder
  BY DEF StaggerInv, QueueOK, ForwardedInOrder
<1> QED
  BY <1>1, StaggerInvariance, PTL

\* No version stops on its way through stagger nodes: what n has and its peer p
\* lacks is queued at n, in a chunk that still has to be sent, or on its way to p,
\* at every moment between recv, tick and send_batch.
THEOREM NothingStops == Spec => []HandedOn
<1>1. StaggerInv => HandedOn
  BY DEF StaggerInv, HandedAt, OnTheWay, HandedOn
<1> QED
  BY <1>1, StaggerInvariance, PTL

\* When nothing is queued, scheduled or on its way, peers have the same view:
\* the population has converged once it falls silent.
THEOREM StaggerAgrees == Spec => []QuietMeansAgreed
<1>1. StaggerInv => QuietMeansAgreed
  <2> SUFFICES ASSUME StaggerInv, msgs = {}, \A n \in Node : pending[n] = << >> /\ trains[n] = {},
                      NEW n \in Node, NEW p \in Peers[n]
               PROVE  store[n] = store[p]
    BY DEF QuietMeansAgreed
  <2>1. p \in Node /\ n \in Peers[p]
    BY StaggerAssumption
  <2>2. \A it : ~ Waiting(n, it) /\ ~ Waiting(p, it) /\ ~ OnTheWay(n, it) /\ ~ OnTheWay(p, it)
    BY <2>1 DEF Waiting, OnTheWay, Carries
  <2>3. \A k \in Key : store[p][k] >= store[n][k] /\ store[n][k] >= store[p][k]
    BY <2>1, <2>2 DEF StaggerInv, HandedAt
  <2>4. store[n] \in [Key -> Version] /\ store[p] \in [Key -> Version]
    BY <2>1 DEF StaggerInv, StoresOK, State
  <2>5. \A k \in Key : store[n][k] = store[p][k]
    BY <2>3, <2>4 DEF Version, Absent
  <2> QED
    BY <2>4, <2>5
<1> QED
  BY <1>1, StaggerInvariance, PTL

\* The stagger nodes implement GossipPromise: each step originates one version,
\* lets one node learn newer issued versions, lets time pass, or shows nothing.
THEOREM StaggerKeepsPromise == Spec => KeepsPromise
<1>1. Init => Promise!Init
  BY PromiseInit DEF Init
<1>2. StaggerInv /\ [Next]_vars => [Promise!Next]_(Promise!vars)
  BY StaggerStores, PromiseStep DEF StaggerInv
<1> QED
  BY <1>1, <1>2, StaggerInvariance, PTL DEF Spec, KeepsPromise, Promise!Spec

-----------------------------------------------------------------------------
(***************************************************************************)
(* What sketch nodes send and schedule                                     *)
(***************************************************************************)

\* A batch of a sketch node carries each of its entries once.
LEMMA AsItemsFacts ==
  ASSUME NEW m, m.items \in State
  PROVE  /\ AsItems(m) \in Seq(Item)
         /\ \A it \in Item : Carries(AsItems(m), it) <=> m.items[it.key] = it.ts
<1> DEFINE K == {k \in Key : m.items[k] # Absent}
           S == {ItemOf(k, m.items[k]) : k \in K}
           f == [k \in K |-> ItemOf(k, m.items[k])]
           c == Cardinality(S)
           s == SetToSeq(S)
<1>1. IsFiniteSet(K)
  BY KeyAssumption, FS_Subset
<1>2. f \in Surjection(K, S)
  BY DEF Surjection
<1>3. IsFiniteSet(S)
  <2> HIDE DEF K, S, f
  <2> QED
    BY <1>1, <1>2, FS_Surjection
<1>4. \A k \in Key : m.items[k] \in Nat \/ m.items[k] = Absent
  BY DEF State, Version
<1>5. S \subseteq Item
  BY <1>4 DEF Item, ItemOf
<1>6. \A it \in Item : it \in S <=> m.items[it.key] = it.ts
  <2> SUFFICES ASSUME NEW it \in Item PROVE it \in S <=> m.items[it.key] = it.ts
    OBVIOUS
  <2>1. it.key \in Key /\ it.ts \in Nat /\ it = ItemOf(it.key, it.ts)
    BY ItemParts
  <2>2. ASSUME it \in S PROVE m.items[it.key] = it.ts
    <3>1. PICK k \in K : it = ItemOf(k, m.items[k])
      BY <2>2
    <3> QED
      BY <3>1 DEF ItemOf
  <2>3. ASSUME m.items[it.key] = it.ts PROVE it \in S
    <3>1. it.key \in K
      BY <2>1, <2>3 DEF Absent
    <3> QED
      BY <2>1, <2>3, <3>1
  <2> QED
    BY <2>2, <2>3
<1> HIDE DEF K, S, f
<1>7. c \in Nat /\ ExistsBijection(1 .. c, S)
  BY <1>3, FS_CardinalityType
<1> HIDE DEF c
<1>8. s \in [1 .. c -> S] /\ IsInjective(s)
  <2>1. \E g \in [1 .. c -> S] : IsInjective(g)
    BY <1>7 DEF ExistsBijection, Bijection, Injection
  <2> QED
    BY <2>1, Zenon DEF SetToSeq, c
<1> HIDE DEF s
<1>9. s \in Surjection(1 .. c, S)
  <2>1. s \in Injection(1 .. c, S)
    BY <1>8 DEF Injection
  <2>2. Cardinality(1 .. c) = c
    BY <1>7, FS_Interval
  <2> QED
    BY <1>3, <2>1, <2>2, FS_Injection DEF c
<1>10. s \in Seq(Item) /\ DOMAIN s = 1 .. c
  BY <1>5, <1>7, <1>8
<1>11. \A it : Carries(s, it) <=> it \in S
  BY <1>8, <1>9, <1>10 DEF Carries, Surjection
<1> QED
  BY <1>6, <1>10, <1>11 DEF AsItems, s, S, K

\* The dedup state of the sketch nodes is the same one.
LEMMA SketchNames ==
  /\ Sket!State = State /\ Sket!Nothing = Nothing /\ Sket!Absent = Absent
  /\ \A m, k, t : Sket!StampOf(k, t) = StampOf(k, t) /\ Sket!Stamped(m, k, t) = Stamped(m, k, t)
                  /\ Sket!MayStamp(m, k) = MayStamp(m, k)
  /\ \A m, items : Sket!Absorb(m, items) = Absorb(m, items)
  /\ \A m, S : Sket!Select(m, S) = Select(m, S)
  BY DEF Sket!State, State, Sket!Version, Version, Sket!Absent, Absent, Sket!Nothing, Nothing,
         Sket!StampOf, StampOf, Sket!Stamped, Stamped, Sket!MayStamp, MayStamp,
         Sket!Absorb, Absorb, Sket!Supersedes, Supersedes, Sket!Select, Select

\* Where a key gets to: it gets to where it starts, and on from there.
LEMMA ReachedStart == ASSUME NEW k \in Key PROVE Started(k) \subseteq Reached[k]
<1>1. Started(k) \subseteq Node
  BY OriginIsNode DEF Started
<1> QED
  BY <1>1 DEF Reached

\* It gets on to every peer it is passed to.
LEMMA ReachedOn ==
  ASSUME NEW k \in Key, NEW n \in Reached[k], NEW p \in Peers[n], Passes(n, p)
  PROVE  p \in Reached[k]
<1>1. n \in Node
  BY DEF Reached
<1>2. p \in Node
  BY <1>1, PeerIsNode
<1> QED
  BY <1>1, <1>2 DEF Reached

\* The two sketch nodes of a sketch or an inventory; a gossip goes where its
\* keys get to, and is issued.
GoodWire(m) ==
  /\ m.type = "gossip" =>
       /\ m \in Sket!GossipMsg
       /\ \A k \in Key : m.items[k] # Absent => m.to \in Reached[k]
  /\ m.type # "gossip" =>
       /\ m \in Sket!SketchMsg \cup Sket!InventoryMsg
       /\ IsSketch(m.from) /\ m.to \in Peers[m.from]

\* What m carries is issued.
WireIssued(m) == m.type = "gossip" => \A k \in Key : m.items[k] # Absent => Issued(k, m.items[k])

\* This holds of what is sent and of what is scheduled, and only a sketch node
\* has something scheduled.
WiresOK ==
  /\ \A m \in wires : GoodWire(m) /\ WireIssued(m)
  /\ \A m \in scheduled : GoodWire(m) /\ m.type # "gossip" /\ IsSketch(m.to)

\* A key is stored where it gets to,
StoresReach == \A n \in Node, k \in Key : store[n][k] # Absent => n \in Reached[k]

\* and queued and sent only there, and only by stagger nodes.
QueuesReach ==
  \A n \in Node, it \in Item :
    /\ Waiting(n, it) => ~IsSketch(n)
    /\ Waiting(n, it) \/ OnTheWay(n, it) => n \in Reached[it.key]

\* OwedIsHandedOn, for one sketch node, peer and key.
OwedAt(n, p, k) ==
  \/ store[p][k] >= store[n][k]
  \/ \E m \in wires : m.type = "gossip" /\ m.to = p /\ m.items[k] = store[n][k]

\* The inductive invariant.  Where a key gets to is closed under what the queues
\* and the messages of both kinds can do, so that has to be known of all of
\* them and not of the stores alone.  What a sketch node owes it owes unchanged
\* until it originates again, because nobody else issues the key.
MixInv ==
  /\ StoresOK
  /\ QueueTypes
  /\ OnlyIssued
  /\ WiresOK
  /\ StoresReach
  /\ QueuesReach
  /\ \A n \in Node : \A p \in Peers[n] : \A k \in Key :
       /\ ~IsSketch(n) => HandedAt(n, p, k)
       /\ IsSketch(n) /\ Owes(n, k) => OwedAt(n, p, k)

\* What a message of a sketch node is made of.
LEMMA WireTypes ==
  ASSUME NEW m, GoodWire(m)
  PROVE  /\ m.to \in Node
         /\ m.type = "gossip" => m.items \in State
         /\ m.type # "gossip" => m.from \in Node /\ m.type \in {"sketch", "inventory"}
  BY SketchNames DEF GoodWire, Sket!GossipMsg, Sket!SketchMsg, Sket!InventoryMsg

-----------------------------------------------------------------------------
(***************************************************************************)
(* The parts of the invariant, step by step                                *)
(***************************************************************************)

\* What is issued stays issued on the wires, too.
LEMMA WiresStep ==
  ASSUME StoresOK, StoreStep, WiresOK,
         \A m \in wires' : m \in wires \/ (GoodWire(m) /\ (WireIssued(m) \/ WireIssued(m)')),
         \A m \in scheduled' :
           m \in scheduled \/ (m \in wires /\ m.type # "gossip" /\ IsSketch(m.to))
  PROVE  WiresOK'
<1>1. ASSUME NEW m \in wires' PROVE GoodWire(m) /\ WireIssued(m)'
  <2>1. GoodWire(m) /\ (WireIssued(m) \/ WireIssued(m)')
    BY DEF WiresOK
  <2>2. ASSUME WireIssued(m), m.type = "gossip", NEW k \in Key, m.items[k] # Absent
        PROVE  Issued(k, m.items[k])'
    <3>1. PICK v \in Int : v = m.items[k]
      BY <2>1, <2>2, WireTypes DEF State, Version, Absent
    <3>2. Issued(k, v)
      BY <2>2, <3>1 DEF WireIssued
    <3>3. Issued(k, v)'
      BY <3>2, IssuedStays
    <3> QED
      BY <3>1, <3>3 DEF Issued
  <2> QED
    BY <2>1, <2>2 DEF WireIssued
<1>2. ASSUME NEW m \in scheduled' PROVE GoodWire(m) /\ m.type # "gossip" /\ IsSketch(m.to)
  BY DEF WiresOK
<1> QED
  BY <1>1, <1>2 DEF WiresOK

\* What a sketch node owes a peer it has sent or handed over, too; nobody else
\* issues it.
LEMMA OwedStep ==
  ASSUME StoresOK, StoreStep, WiresOK,
         NEW n \in Node, NEW p \in Peers[n], NEW k \in Key, IsSketch(n), Owes(n, k), OwedAt(n, p, k),
         \A m \in wires : m.type = "gossip" /\ m \notin wires' =>
           \A j \in Key : store'[m.to][j] >= m.items[j],
         Published(n, k) /\ store'[n][k] # store[n][k] =>
           \E m \in wires' : m.type = "gossip" /\ m.to = p /\ m.items[k] = store'[n][k]
  PROVE  OwedAt(n, p, k)'
<1>1. p \in Node
  BY PeerIsNode
<1>2. /\ store[n][k] \in Int /\ store'[n][k] \in Int
      /\ store[p][k] \in Int /\ store'[p][k] \in Int /\ store'[p][k] >= store[p][k]
  BY <1>1, StoreTypes, StoresGrow
<1>3. CASE Published(n, k) /\ store'[n][k] # store[n][k]
  BY <1>3 DEF OwedAt
<1>4. CASE store'[n][k] = store[n][k]
  <2>1. CASE store[p][k] >= store[n][k]
    <3>1. store'[p][k] >= store'[n][k]
      BY <1>2, <1>4, <2>1
    <3> QED
      BY <3>1 DEF OwedAt
  <2>2. ASSUME NEW m \in wires, m.type = "gossip", m.to = p, m.items[k] = store[n][k]
        PROVE  OwedAt(n, p, k)'
    <3>1. CASE m \in wires'
      BY <1>4, <2>2, <3>1 DEF OwedAt
    <3>2. CASE m \notin wires'
      <4>1. store'[p][k] >= store'[n][k]
        BY <1>4, <2>2, <3>2
      <4> QED
        BY <4>1 DEF OwedAt
    <3> QED
      BY <3>1, <3>2
  <2> QED
    BY <2>1, <2>2 DEF OwedAt
<1>5. ASSUME store'[n][k] # store[n][k] PROVE Published(n, k)
  <2>1. ASSUME NEW o \in Node, NEW j \in Key, Published(o, j) PROVE o = n /\ j = k
    BY <1>5, <2>1, PublishedFacts
  <2>2. ASSUME NEW o \in Node, Learned(o) PROVE FALSE
    <3>1. o = n
      BY <1>5, <2>2, LearnedFacts
    <3>2. store'[n][k] > store[n][k] /\ Issued(k, store'[n][k])
      BY <1>5, <2>2, <3>1, LearnedFacts DEF Newer
    <3>3. Origins[k] = {n}
      BY DEF Owes
    <3>4. store'[n][k] <= store[n][k]
      BY <3>2, <3>3 DEF Issued
    <3> QED
      BY <1>2, <3>2, <3>4
  <2> QED
    BY <1>5, <2>1, <2>2 DEF StoreStep, Kept
<1> QED
  BY <1>3, <1>4, <1>5

\* The stores, when a key is originated and when some are learned.
LEMMA PublishedReach ==
  ASSUME StoresOK, StoresReach, NEW o \in Node, NEW j \in Key, Published(o, j)
  PROVE  StoresReach' /\ o \in Reached[j]
<1>1. o \in Reached[j]
  BY ReachedStart DEF Started, Published
<1>2. ASSUME NEW n \in Node, NEW k \in Key, store'[n][k] # Absent PROVE n \in Reached[k]
  <2>1. CASE n = o /\ k = j
    BY <1>1, <2>1
  <2>2. CASE ~ (n = o /\ k = j)
    <3>1. store'[n][k] = store[n][k]
      BY <2>2, PublishedFacts
    <3> QED
      BY <1>2, <3>1 DEF StoresReach
  <2> QED
    BY <2>1, <2>2
<1> QED
  BY <1>1, <1>2 DEF StoresReach, Reached, Started, Passes, IsSketch

\* So they are when a node learns what gets to it.
LEMMA LearnedReach ==
  ASSUME StoresOK, StoresReach, NEW o \in Node, Learned(o),
         \A k \in Key : store'[o][k] # store[o][k] => o \in Reached[k]
  PROVE  StoresReach'
<1>1. ASSUME NEW n \in Node, NEW k \in Key, store'[n][k] # Absent PROVE n \in Reached[k]
  <2>1. CASE store'[n][k] = store[n][k]
    BY <1>1, <2>1 DEF StoresReach
  <2>2. CASE store'[n][k] # store[n][k]
    <3>1. n = o
      BY <2>2, LearnedFacts
    <3> QED
      BY <2>2, <3>1
  <2> QED
    BY <2>1, <2>2
<1> QED
  BY <1>1 DEF StoresReach

\* The queues, when n issues, sends on or takes.
LEMMA EmitsReach ==
  ASSUME QueuesReach, NEW n \in Node, ~IsSketch(n), NEW v \in Item, n \in Reached[v.key], Emits(n, v)
  PROVE  QueuesReach'
<1>1. \A p \in Peers[n] : p \in Reached[v.key]
  BY ReachedOn, ItemParts DEF Passes
<1>2. ASSUME NEW q \in Node, NEW it \in Item
      PROVE  /\ Waiting(q, it)' => ~IsSketch(q)
             /\ Waiting(q, it)' \/ OnTheWay(q, it)' => q \in Reached[it.key]
  <2>1. /\ Waiting(q, it)' => Waiting(q, it) \/ (q = n /\ it = v)
        /\ OnTheWay(q, it)' => OnTheWay(q, it) \/ (q \in Peers[n] /\ it = v)
    BY Zenon DEF Emits
  <2> QED
    BY <1>1, <2>1 DEF QueuesReach
<1> QED
  BY <1>2 DEF QueuesReach

\* When a node sends on what waits, its peers are reached, too.
LEMMA MovesReach ==
  ASSUME QueuesReach, NEW n \in Node, Moves(n)
  PROVE  QueuesReach'
<1>1. ASSUME NEW q \in Node, NEW it \in Item
      PROVE  /\ Waiting(q, it)' => ~IsSketch(q)
             /\ Waiting(q, it)' \/ OnTheWay(q, it)' => q \in Reached[it.key]
  <2>1. /\ Waiting(q, it)' => Waiting(q, it)
        /\ OnTheWay(q, it)' => OnTheWay(q, it) \/ (q \in Peers[n] /\ Waiting(n, it))
    BY Zenon DEF Moves
  <2>2. q \in Peers[n] /\ Waiting(n, it) => q \in Reached[it.key]
    BY ReachedOn, ItemParts DEF QueuesReach, Passes
  <2> QED
    BY <2>1, <2>2 DEF QueuesReach
<1> QED
  BY <1>1 DEF QueuesReach

\* What a node takes has got to it.
LEMMA TakesReach ==
  ASSUME QueuesReach, NEW n \in Node, NEW items, Takes(n, items),
         \A it \in Item : Carries(items, it) => n \in Reached[it.key],
         IsSketch(n) => UNCHANGED <<pending, trains>>
  PROVE  QueuesReach'
<1>1. ASSUME NEW q \in Node, NEW it \in Item
      PROVE  /\ Waiting(q, it)' => ~IsSketch(q)
             /\ Waiting(q, it)' \/ OnTheWay(q, it)' => q \in Reached[it.key]
  <2>1. /\ Waiting(q, it)' => Waiting(q, it) \/ (q = n /\ Carries(items, it))
        /\ OnTheWay(q, it)' => OnTheWay(q, it)
    BY Zenon DEF Takes
  <2>2. IsSketch(n) => (Waiting(q, it)' <=> Waiting(q, it))
    BY WaitingSame
  <2> QED
    BY <2>1, <2>2 DEF QueuesReach
<1> QED
  BY <1>1 DEF QueuesReach

-----------------------------------------------------------------------------
(***************************************************************************)
(* The invariant, kind of step by kind of step                             *)
(***************************************************************************)

\* The stagger nodes do nothing.
QueuesSame == UNCHANGED <<msgs, pending, trains>>

\* Nothing is queued or sent when only the sketch nodes act.
LEMMA QueuesSameFacts ==
  ASSUME QueueTypes, QueuesSame
  PROVE  /\ QueueTypes'
         /\ \A q \in Node, it \in Item :
              (Waiting(q, it)' <=> Waiting(q, it)) /\ (OnTheWay(q, it)' <=> OnTheWay(q, it))
<1>1. QueueTypes'
  BY DEF QueuesSame, QueueTypes, MsgTypes, PendingTypes, TrainTypes
<1> QED
  BY <1>1, WaitingSame, OnTheWaySame DEF QueuesSame

\* A stagger node originates.
LEMMA MixEmits ==
  ASSUME MixInv, NEW n \in Node, NEW k \in Key, ~IsSketch(n), Originate(n, k), UNCHANGED sketchVars
  PROVE  MixInv' /\ StoreStep
<1>1. Published(n, k) /\ QueueTypes' /\ StoreStep
  BY OriginateEffect DEF MixInv, StoreStep
<1>2. PICK v \in Item : v = ItemOf(k, StampOf(k, now)) /\ Emits(n, v)
  BY OriginateEffect DEF MixInv
<1>3. StoresOK'
  BY <1>1, StoresStep DEF MixInv
<1>4. OnlyIssued'
  BY <1>1, <1>2, EmitsIssued DEF MixInv
<1>5. WiresOK'
  BY <1>1, WiresStep DEF MixInv, sketchVars, WiresOK
<1>6. StoresReach' /\ n \in Reached[k]
  BY <1>1, PublishedReach DEF MixInv
<1>7. QueuesReach'
  <2>1. v.key = k
    BY <1>2 DEF ItemOf
  <2> QED
    BY <1>2, <1>6, <2>1, EmitsReach DEF MixInv
<1>8. ASSUME NEW m \in Node, NEW p \in Peers[m], NEW j \in Key
      PROVE  /\ ~IsSketch(m) => HandedAt(m, p, j)'
             /\ IsSketch(m) /\ Owes(m, j) => OwedAt(m, p, j)'
  <2>1. ~IsSketch(m) => HandedAt(m, p, j)'
    BY <1>1, <1>2, EmitsHanded DEF MixInv
  <2>2. ASSUME IsSketch(m), Owes(m, j) PROVE OwedAt(m, p, j)'
    <3>1. store'[m] = store[m]
      BY <1>1, <2>2, PublishedFacts DEF MixInv
    <3> QED
      BY <1>1, <2>2, <3>1, OwedStep DEF MixInv, sketchVars
  <2> QED
    BY <2>1, <2>2
<1> QED
  BY <1>1, <1>3, <1>4, <1>5, <1>6, <1>7, <1>8 DEF MixInv

\* A stagger node sends on what waits.
LEMMA MixMoves ==
  ASSUME MixInv, NEW n \in Node, Kept, QueueTypes', Moves(n), UNCHANGED sketchVars
  PROVE  MixInv' /\ StoreStep
<1>1. StoreStep
  BY DEF StoreStep
<1>2. StoresOK'
  BY <1>1, StoresStep DEF MixInv
<1>3. OnlyIssued'
  BY MovesIssued DEF MixInv
<1>4. WiresOK'
  BY <1>1, WiresStep DEF MixInv, sketchVars, WiresOK
<1>5. StoresReach'
  BY DEF MixInv, StoresReach, Kept
<1>6. QueuesReach'
  BY MovesReach DEF MixInv
<1>7. ASSUME NEW m \in Node, NEW p \in Peers[m], NEW j \in Key
      PROVE  /\ ~IsSketch(m) => HandedAt(m, p, j)'
             /\ IsSketch(m) /\ Owes(m, j) => OwedAt(m, p, j)'
  <2>1. ~IsSketch(m) => HandedAt(m, p, j)'
    BY MovesHanded DEF MixInv
  <2>2. IsSketch(m) /\ Owes(m, j) => OwedAt(m, p, j)'
    BY DEF MixInv, OwedAt, Kept, sketchVars
  <2> QED
    BY <2>1, <2>2
<1> QED
  BY <1>1, <1>2, <1>3, <1>4, <1>5, <1>6, <1>7 DEF MixInv

\* Some node absorbs what a batch, or a gossip of a sketch node, brings it.
Absorbs(n, items) ==
  /\ Learned(n) /\ QueueTypes' /\ Takes(n, items)
  /\ IF IsSketch(n) THEN UNCHANGED <<pending, trains>> ELSE Queues(n)
  /\ \A it \in Item : Carries(items, it) =>
       Issued(it.key, it.ts) /\ n \in Reached[it.key] /\ store'[n][it.key] >= it.ts
  /\ \A k \in Key : store'[n][k] # store[n][k] => n \in Reached[k]
  /\ scheduled' = scheduled /\ wires' \subseteq wires
  /\ \A m \in wires : m.type = "gossip" /\ m \notin wires' =>
       \A j \in Key : store'[m.to][j] >= m.items[j]

\* Such a step keeps the invariant.
LEMMA MixTakes ==
  ASSUME MixInv, NEW n \in Node, NEW items, Absorbs(n, items)
  PROVE  MixInv' /\ StoreStep
<1>1. StoreStep /\ Learned(n) /\ Takes(n, items) /\ QueueTypes'
  BY DEF StoreStep, Absorbs
<1>2. StoresOK'
  BY <1>1, StoresStep DEF MixInv
<1>3. OnlyIssued'
  BY <1>1, TakesIssued DEF MixInv, Absorbs
<1>4. WiresOK'
  BY <1>1, WiresStep DEF MixInv, Absorbs, WiresOK
<1>5. StoresReach'
  BY <1>1, LearnedReach DEF MixInv, Absorbs
<1>6. QueuesReach'
  BY <1>1, TakesReach DEF MixInv, Absorbs
<1>7. ASSUME NEW m \in Node, NEW p \in Peers[m], NEW j \in Key
      PROVE  /\ ~IsSketch(m) => HandedAt(m, p, j)'
             /\ IsSketch(m) /\ Owes(m, j) => OwedAt(m, p, j)'
  <2>1. ~IsSketch(m) => HandedAt(m, p, j)'
    BY <1>1, TakesHanded DEF MixInv, Absorbs
  <2>2. ASSUME IsSketch(m), Owes(m, j) PROVE OwedAt(m, p, j)'
    <3>1. ~ (Published(m, j) /\ store'[m][j] # store[m][j])
      <4> SUFFICES ASSUME Published(m, j), store'[m][j] # store[m][j] PROVE FALSE
        OBVIOUS
      <4>1. m = n
        BY <1>1, LearnedFacts DEF MixInv
      <4>2. store'[m][j] > store[m][j] /\ Issued(j, store'[m][j])
        BY <1>1, <4>1, LearnedFacts DEF Newer, MixInv
      <4>3. store'[m][j] <= store[m][j]
        BY <2>2, <4>2 DEF Owes, Issued
      <4>4. store[m][j] \in Int /\ store'[m][j] \in Int
        BY <1>1, StoreTypes, StoresGrow DEF MixInv
      <4> QED
        BY <4>2, <4>3, <4>4
    <3> QED
      BY <1>1, <2>2, <3>1, OwedStep DEF MixInv, Absorbs
  <2> QED
    BY <2>1, <2>2
<1> QED
  BY <1>1, <1>2, <1>3, <1>4, <1>5, <1>6, <1>7 DEF MixInv

\* The sketch nodes and the clock, as long as no store changes.
Exchanges ==
  /\ Kept /\ QueuesSame
  /\ \A m \in wires' : m \in wires \/ (GoodWire(m) /\ WireIssued(m))
  /\ \A m \in wires : m.type = "gossip" => m \in wires'
  /\ \A m \in scheduled' : m \in scheduled \/ (m \in wires /\ m.type # "gossip" /\ IsSketch(m.to))

\* Such a step keeps the invariant.
LEMMA MixExchanges == ASSUME MixInv, Exchanges PROVE MixInv' /\ StoreStep
<1>1. StoreStep
  BY DEF StoreStep, Exchanges
<1>2. StoresOK'
  BY <1>1, StoresStep DEF MixInv
<1>3. QueueTypes' /\ \A q \in Node, it \in Item :
        (Waiting(q, it)' <=> Waiting(q, it)) /\ (OnTheWay(q, it)' <=> OnTheWay(q, it))
  BY QueuesSameFacts DEF MixInv, Exchanges
<1>4. OnlyIssued'
  BY <1>1, <1>3, IssuedStep DEF MixInv
<1>5. WiresOK'
  BY <1>1, WiresStep DEF MixInv, Exchanges
<1>6. StoresReach'
  BY DEF MixInv, StoresReach, Exchanges, Kept
<1>7. QueuesReach'
  BY <1>3 DEF MixInv, QueuesReach
<1>8. ASSUME NEW m \in Node, NEW p \in Peers[m], NEW j \in Key
      PROVE  /\ ~IsSketch(m) => HandedAt(m, p, j)'
             /\ IsSketch(m) /\ Owes(m, j) => OwedAt(m, p, j)'
  <2>1. ASSUME ~IsSketch(m) PROVE HandedAt(m, p, j)'
    <3>1. \A it \in Item : Waiting(m, it) \/ OnTheWay(p, it) => Waiting(m, it)' \/ OnTheWay(p, it)'
      BY <1>3, PeerIsNode
    <3>2. store' = store
      BY DEF Exchanges, Kept
    <3> QED
      BY <1>1, <2>1, <3>1, <3>2, HandedStep DEF MixInv
  <2>2. IsSketch(m) /\ Owes(m, j) => OwedAt(m, p, j)'
    BY DEF MixInv, OwedAt, Exchanges, Kept
  <2> QED
    BY <2>1, <2>2
<1> QED
  BY <1>1, <1>2, <1>3, <1>4, <1>5, <1>6, <1>7, <1>8 DEF MixInv

\* A sketch node originates, and may flood.
LEMMA MixFloods ==
  ASSUME MixInv, NEW n \in Node, NEW k \in Key, IsSketch(n), Sket!Originate(n, k), QueuesSame
  PROVE  MixInv' /\ StoreStep
<1>1. Published(n, k) /\ StoreStep
  <2>1. Published(n, k)
    BY SketchNames DEF Sket!Originate, Published
  <2> QED
    BY <2>1 DEF StoreStep
<1>2. StampOf(k, now) \in Nat /\ store'[n][k] = StampOf(k, now) /\ n \in Origins[k]
  BY <1>1, PublishedFacts DEF MixInv, Published
<1>3. StoresOK'
  BY <1>1, StoresStep DEF MixInv
<1>4. QueueTypes' /\ \A q \in Node, it \in Item :
        (Waiting(q, it)' <=> Waiting(q, it)) /\ (OnTheWay(q, it)' <=> OnTheWay(q, it))
  BY QueuesSameFacts DEF MixInv
<1>5. OnlyIssued'
  BY <1>1, <1>4, IssuedStep DEF MixInv
<1>6. PICK v \in Nat : v = StampOf(k, now)
  BY <1>2
<1>7. PICK flood \in [Peers[n] -> Sket!GossipMsg] :
        \A p \in Peers[n] :
          /\ flood[p] = Sket!Gossip(p, [Nothing EXCEPT ![k] = v])
          /\ flood[p].type = "gossip" /\ flood[p].to = p /\ flood[p].items[k] = v
          /\ \A j \in Key : j # k => flood[p].items[j] = Absent
  <2> DEFINE f == [p \in Peers[n] |-> Sket!Gossip(p, [Nothing EXCEPT ![k] = v])]
  <2>1. [Nothing EXCEPT ![k] = v] \in State
    BY <1>6, NothingStored DEF State, Version
  <2>2. ASSUME NEW p \in Peers[n]
        PROVE  /\ f[p] \in Sket!GossipMsg
               /\ f[p] = Sket!Gossip(p, [Nothing EXCEPT ![k] = v])
               /\ f[p].type = "gossip" /\ f[p].to = p /\ f[p].items[k] = v
               /\ \A j \in Key : j # k => f[p].items[j] = Absent
    <3>1. p \in Node
      BY PeerIsNode
    <3> QED
      BY <2>1, <3>1, SketchNames DEF Sket!Gossip, Sket!GossipMsg, Nothing
  <2>3. f \in [Peers[n] -> Sket!GossipMsg]
    BY <2>2
  <2> HIDE DEF f
  <2> QED
    BY <2>2, <2>3
<1>8. /\ scheduled' = scheduled
      /\ wires' = wires \cup IF FloodOnOriginate THEN {flood[p] : p \in Peers[n]} ELSE {}
  <2>1. wires' = wires \cup
                  IF FloodOnOriginate
                  THEN {Sket!Gossip(p, [Nothing EXCEPT ![k] = v]) : p \in Peers[n]}
                  ELSE {}
    <3>1. Sket!Nothing = Nothing /\ Sket!StampOf(k, now) = v
      BY <1>6, SketchNames
    <3> QED
      BY <3>1, Zenon DEF Sket!Originate
  <2>2. {Sket!Gossip(p, [Nothing EXCEPT ![k] = v]) : p \in Peers[n]} = {flood[p] : p \in Peers[n]}
    <3>1. \A p \in Peers[n] : flood[p] = Sket!Gossip(p, [Nothing EXCEPT ![k] = v])
      BY <1>7
    <3> DEFINE g(p) == Sket!Gossip(p, [Nothing EXCEPT ![k] = v])
    <3>2. \A p \in Peers[n] : flood[p] = g(p)
      BY <3>1
    <3> HIDE DEF g
    <3>3. {g(p) : p \in Peers[n]} = {flood[p] : p \in Peers[n]}
      BY <3>2
    <3> QED
      BY <3>3 DEF g
  <2> QED
    BY <2>1, <2>2 DEF Sket!Originate
<1>9. ASSUME FloodOnOriginate, NEW p \in Peers[n] PROVE GoodWire(flood[p]) /\ WireIssued(flood[p])'
  <2>1. p \in Reached[k]
    <3>1. p \in Node /\ n \in Peers[p]
      BY StaggerAssumption
    <3>2. p \in Started(k)
      BY <1>2, <1>9, <3>1 DEF Started
    <3> QED
      BY <3>2, ReachedStart
  <2>2. GoodWire(flood[p])
    BY <1>7, <2>1 DEF GoodWire
  <2>3. Issued(k, v)'
    BY <1>2, <1>6 DEF Issued
  <2>4. ASSUME NEW j \in Key, flood[p].items[j] # Absent PROVE Issued(j, flood[p].items[j])'
    <3>1. j = k /\ flood[p].items[j] = v
      BY <1>7, <2>4
    <3> QED
      BY <2>3, <3>1
  <2> QED
    BY <2>2, <2>4 DEF WireIssued
<1>10. WiresOK'
  <2>1. \A m \in wires' : m \in wires \/ (GoodWire(m) /\ WireIssued(m)')
    BY <1>8, <1>9
  <2> QED
    BY <1>1, <1>8, <2>1, WiresStep DEF MixInv
<1>11. StoresReach'
  BY <1>1, PublishedReach DEF MixInv
<1>12. QueuesReach'
  BY <1>4 DEF MixInv, QueuesReach
<1>13. ASSUME NEW m \in Node, NEW p \in Peers[m], NEW j \in Key
       PROVE  /\ ~IsSketch(m) => HandedAt(m, p, j)'
              /\ IsSketch(m) /\ Owes(m, j) => OwedAt(m, p, j)'
  <2>1. ASSUME ~IsSketch(m) PROVE HandedAt(m, p, j)'
    <3>1. \A it \in Item : Waiting(m, it) \/ OnTheWay(p, it) => Waiting(m, it)' \/ OnTheWay(p, it)'
      BY <1>4, PeerIsNode
    <3>2. store'[m] = store[m]
      BY <1>1, <2>1, PublishedFacts DEF MixInv
    <3> QED
      BY <1>1, <2>1, <3>1, <3>2, HandedStep DEF MixInv
  <2>2. ASSUME IsSketch(m), Owes(m, j) PROVE OwedAt(m, p, j)'
    <3>1. ASSUME store'[m][j] # store[m][j]
          PROVE  \E w \in wires' : w.type = "gossip" /\ w.to = p /\ w.items[j] = store'[m][j]
      <4>1. m = n /\ j = k
        BY <1>1, <3>1, PublishedFacts DEF MixInv
      <4>2. flood[p] \in wires'
        BY <1>8, <2>2, <4>1 DEF Owes
      <4> QED
        BY <1>2, <1>6, <1>7, <4>1, <4>2
    <3>2. wires \subseteq wires'
      BY <1>8
    <3> QED
      BY <1>1, <2>2, <3>1, <3>2, OwedStep DEF MixInv
  <2> QED
    BY <2>1, <2>2
<1> QED
  BY <1>1, <1>3, <1>4, <1>5, <1>10, <1>11, <1>12, <1>13 DEF MixInv

-----------------------------------------------------------------------------
(***************************************************************************)
(* What each action is                                                     *)
(***************************************************************************)

\* recv of any node, for a batch of a stagger node.
LEMMA RecvBatchStep ==
  ASSUME MixInv, NEW m \in msgs, RecvBatch(m)
  PROVE  MixInv' /\ StoreStep
<1>1. PICK n \in Node : n = m.to
  BY DEF MixInv, QueueTypes, MsgTypes
<1>2. PICK items \in Seq(Item) : items = m.items
  BY DEF MixInv, QueueTypes, MsgTypes
<1>3. \A it \in Item : Carries(items, it) => Issued(it.key, it.ts) /\ n \in Reached[it.key]
  <2>1. \A it \in Item : Carries(items, it) => OnTheWay(n, it)
    BY <1>1, <1>2 DEF OnTheWay
  <2> QED
    BY <2>1 DEF MixInv, OnlyIssued, QueuesReach
<1>4. /\ store' = [store EXCEPT ![n] = AbsorbItems(store[n], items).state]
      /\ msgs' = msgs \ {m} /\ now' = now /\ trains' = trains
  BY <1>1, <1>2 DEF RecvBatch, Recv, AbsorbBatch
<1>5. /\ Learned(n)
      /\ \A it \in Item : Carries(items, it) => store'[n][it.key] >= it.ts
      /\ \A k \in Key : store'[n][k] # store[n][k] => \E it \in Item : Carries(items, it) /\ it.key = k
  BY <1>3, <1>4, AbsorbEffect DEF MixInv
<1>6. QueueTypes' /\ Takes(n, items)
      /\ IF IsSketch(n) THEN UNCHANGED <<pending, trains>> ELSE Queues(n)
  <2>1. CASE Recv(m)
    BY <1>1, <1>2, <2>1, RecvEffect DEF MixInv, Recv, IsSketch
  <2>2. CASE IsSketch(m.to) /\ AbsorbBatch(m)
    <3>1. pending' = pending /\ trains' = trains
      BY <2>2 DEF AbsorbBatch
    <3>2. \A q \in Node, it \in Item : Waiting(q, it)' <=> Waiting(q, it)
      BY <3>1, WaitingSame
    <3>3. /\ MsgTypes'
          /\ \A q \in Node, it \in Item :
               /\ OnTheWay(q, it)' => OnTheWay(q, it)
               /\ OnTheWay(q, it) => OnTheWay(q, it)' \/ (q = n /\ Carries(items, it))
      BY <1>1, <1>2, <1>4, MsgTaken DEF MixInv, QueueTypes
    <3>4. QueueTypes'
      BY <3>1, <3>3 DEF MixInv, QueueTypes, PendingTypes, TrainTypes
    <3>5. Takes(n, items)
      BY <3>2, <3>3, Zenon DEF Takes
    <3> QED
      BY <1>1, <2>2, <3>1, <3>4, <3>5
  <2> QED
    BY <2>1, <2>2 DEF RecvBatch
<1>7. scheduled' = scheduled /\ wires' = wires
  BY DEF RecvBatch, sketchVars
<1>8. Absorbs(n, items)
  BY <1>3, <1>5, <1>6, <1>7 DEF Absorbs
<1> QED
  BY <1>8, MixTakes

\* What a gossip of a sketch node carries.
LEMMA WireCarries ==
  ASSUME MixInv, NEW m \in wires, m.type = "gossip"
  PROVE  /\ m.to \in Node /\ m.items \in State /\ AsItems(m) \in Seq(Item)
         /\ \A it \in Item : Carries(AsItems(m), it) =>
              Issued(it.key, it.ts) /\ m.to \in Reached[it.key]
         /\ \A it \in Item : Carries(AsItems(m), it) <=> m.items[it.key] = it.ts
         /\ \A k \in Key : m.items[k] # Absent =>
              Issued(k, m.items[k]) /\ m.to \in Reached[k] /\ ItemOf(k, m.items[k]) \in Item
<1>1. GoodWire(m) /\ WireIssued(m)
  BY DEF MixInv, WiresOK
<1>2. m.to \in Node /\ m.items \in State
  BY <1>1, WireTypes
<1>3. /\ AsItems(m) \in Seq(Item)
      /\ \A it \in Item : Carries(AsItems(m), it) <=> m.items[it.key] = it.ts
  BY <1>2, AsItemsFacts
<1>4. \A k \in Key : m.items[k] # Absent =>
        Issued(k, m.items[k]) /\ m.to \in Reached[k] /\ ItemOf(k, m.items[k]) \in Item
  BY <1>1, <1>2 DEF GoodWire, WireIssued, State, Version, Item, ItemOf
<1>5. \A it \in Item : it.key \in Key /\ it.ts # Absent
  BY ItemParts DEF Absent
<1>6. ASSUME NEW it \in Item, Carries(AsItems(m), it)
      PROVE  Issued(it.key, it.ts) /\ m.to \in Reached[it.key]
  <2>1. m.items[it.key] = it.ts
    BY <1>3, <1>6
  <2> QED
    BY <1>4, <1>5, <2>1
<1> QED
  BY <1>2, <1>3, <1>4, <1>6

\* recv of a CLN or LND node, for what a sketch node broadcasts.
LEMMA RecvWireStep ==
  ASSUME MixInv, NEW m \in wires, RecvWire(m)
  PROVE  MixInv' /\ StoreStep
<1>1. m.type = "gossip" /\ ~IsSketch(m.to)
  BY DEF RecvWire
<1>2. PICK n \in Node : n = m.to
  BY <1>1, WireCarries
<1>3. PICK items \in Seq(Item) : items = AsItems(m)
  BY <1>1, WireCarries
<1>4. \A it \in Item : Carries(items, it) => Issued(it.key, it.ts) /\ n \in Reached[it.key]
  BY <1>1, <1>2, <1>3, WireCarries
<1>5. /\ store' = [store EXCEPT ![n] = AbsorbItems(store[n], items).state]
      /\ pending' = [pending EXCEPT ![n] = @ \o AbsorbItems(store[n], items).fresh]
      /\ wires' = wires \ {m} /\ now' = now /\ trains' = trains /\ msgs' = msgs
      /\ scheduled' = scheduled
  BY <1>2, <1>3 DEF RecvWire
<1>6. /\ Learned(n)
      /\ \A it \in Item : Carries(items, it) => store'[n][it.key] >= it.ts
      /\ \A k \in Key : store'[n][k] # store[n][k] => \E it \in Item : Carries(items, it) /\ it.key = k
  BY <1>4, <1>5, AbsorbEffect DEF MixInv
<1>7. /\ PendingTypes' /\ Queues(n)
      /\ \A q \in Node, it \in Item :
           /\ Waiting(q, it) => Waiting(q, it)'
           /\ Waiting(q, it)' => Waiting(q, it) \/ (q = n /\ Carries(items, it))
  BY <1>5, QueueEffect DEF MixInv, QueueTypes
<1>8. \A q \in Node, it \in Item : OnTheWay(q, it)' <=> OnTheWay(q, it)
  BY <1>5, OnTheWaySame
<1>9. QueueTypes' /\ Takes(n, items)
  BY <1>5, <1>7, <1>8 DEF MixInv, QueueTypes, MsgTypes, TrainTypes, Takes
<1>10. \A j \in Key : store'[n][j] >= m.items[j]
  <2> SUFFICES ASSUME NEW j \in Key PROVE store'[n][j] >= m.items[j]
    OBVIOUS
  <2>1. CASE m.items[j] = Absent
    <3>1. store' \in [Node -> State]
      BY <1>6, LearnedFacts DEF MixInv
    <3> QED
      BY <2>1, <3>1 DEF State, Version, Absent
  <2>2. CASE m.items[j] # Absent
    <3>1. PICK it \in Item : it = ItemOf(j, m.items[j])
      BY <1>1, <2>2, WireCarries
    <3>2. it.key = j /\ it.ts = m.items[j]
      BY <3>1 DEF ItemOf
    <3>3. Carries(items, it)
      BY <1>1, <1>3, <3>2, WireCarries
    <3> QED
      BY <1>6, <3>2, <3>3
  <2> QED
    BY <2>1, <2>2
<1>11. Absorbs(n, items)
  BY <1>1, <1>2, <1>4, <1>5, <1>6, <1>7, <1>9, <1>10 DEF Absorbs
<1> QED
  BY <1>11, MixTakes

\* recv of a sketch node, for what another one broadcasts.
LEMMA RecvGossipStep ==
  ASSUME MixInv, NEW m \in wires, IsSketch(m.to), Sket!RecvGossip(m), QueuesSame
  PROVE  MixInv' /\ StoreStep
<1>1. m.type = "gossip"
  BY DEF Sket!RecvGossip
<1>2. PICK n \in Node : n = m.to
  BY <1>1, WireCarries
<1>3. PICK g \in State : g = m.items
  BY <1>1, WireCarries
<1>4. /\ store' = [store EXCEPT ![n] = Absorb(store[n], g)]
      /\ wires' = wires \ {m} /\ now' = now /\ scheduled' = scheduled
  BY <1>2, <1>3, SketchNames DEF Sket!RecvGossip
<1>5. PICK s \in State : s = Absorb(store[n], g)
  BY <1>3 DEF Absorb, MixInv, StoresOK, State
<1>6. ASSUME NEW k \in Key
      PROVE  /\ s[k] >= g[k]
             /\ s[k] # store[n][k] => s[k] > store[n][k] /\ s[k] = g[k] /\ g[k] # Absent
  <2>1. store[n][k] \in Version /\ g[k] \in Version
    BY <1>3, StoreTypes DEF MixInv, State
  <2> QED
    BY <1>5, <2>1 DEF Absorb, Supersedes, Version, Absent
<1>7. Newer(n, s) /\ \A k \in Key : s[k] # store[n][k] => n \in Reached[k]
  <2>1. \A k \in Key : g[k] # Absent => Issued(k, g[k]) /\ n \in Reached[k]
    BY <1>1, <1>2, <1>3, WireCarries
  <2> QED
    BY <1>6, <2>1 DEF Newer
<1>8. Learned(n) /\ store'[n] = s
  BY <1>4, <1>5, <1>7 DEF Learned, MixInv, StoresOK
<1>9. QueueTypes' /\ Takes(n, << >>)
  BY QueuesSameFacts DEF MixInv, Takes
<1>10. Absorbs(n, << >>)
  BY <1>2, <1>3, <1>4, <1>6, <1>7, <1>8, <1>9 DEF Absorbs, Carries, QueuesSame
<1> QED
  BY <1>10, MixTakes

\* What a sketch node m.to has may go to another one.
LEMMA AnswerIsGood ==
  ASSUME MixInv, NEW from \in Node, NEW to \in Peers[from], IsSketch(from), IsSketch(to),
         NEW s \in State, \A k \in Key : s[k] # Absent => s[k] = store[to][k]
  PROVE  GoodWire(Sket!Gossip(from, s)) /\ WireIssued(Sket!Gossip(from, s))
<1>1. to \in Node /\ from \in Peers[to]
  BY StaggerAssumption
<1>2. \A k \in Key : s[k] # Absent => from \in Reached[k] /\ Issued(k, s[k])
  <2>1. \A k \in Key : s[k] # Absent => to \in Reached[k] /\ Issued(k, s[k])
    BY <1>1 DEF MixInv, StoresReach, StoresOK
  <2> QED
    BY <1>1, <2>1, ReachedOn DEF Passes
<1>3. /\ Sket!Gossip(from, s).type = "gossip" /\ Sket!Gossip(from, s).to = from
      /\ Sket!Gossip(from, s).items = s /\ Sket!Gossip(from, s) \in Sket!GossipMsg
  BY SketchNames DEF Sket!Gossip, Sket!GossipMsg
<1> QED
  BY <1>2, <1>3 DEF GoodWire, WireIssued

\* What the diff says side B is ahead on is what B stores.
LEMMA DiffSent ==
  ASSUME NEW from \in Node, NEW to \in Node, NEW kind, store[to] \in State
  PROVE  /\ Sket!SketchDiff(from, to, kind).b_newer \in State
         /\ \A k \in Key : Sket!SketchDiff(from, to, kind).b_newer[k] # Absent =>
              Sket!SketchDiff(from, to, kind).b_newer[k] = store[to][k]
<1> DEFINE Part(s) == s \in State /\ \A k \in Key : s[k] # Absent => s[k] = store[to][k]
<1>1. Part(Sket!Nothing) /\ \A S : Part(Sket!Select(store[to], S))
  BY SketchNames, NothingStored DEF Select, State, Version
<1> HIDE DEF Part
<1>2. \A a, K, which : Part(Sket!Diff(a, store[to], K, which).b_newer)
  BY <1>1 DEF Sket!Diff
<1>3. \A a, K, which : Part(Sket!Reorient(Sket!Diff(store[to], a, K, which)).b_newer)
  BY <1>1 DEF Sket!Diff, Sket!Reorient
<1>4. Part(Sket!SketchDiff(from, to, kind).b_newer)
  BY <1>2, <1>3, Zenon DEF Sket!SketchDiff, Sket!ComputeDiff
<1> QED
  BY <1>4 DEF Part

\* The delayed handler of a sketch.
LEMMA HandleSketchStep ==
  ASSUME MixInv, NEW m \in scheduled, Sket!HandleSketch(m), QueuesSame
  PROVE  MixInv' /\ StoreStep
<1>1. GoodWire(m) /\ m.type = "sketch" /\ IsSketch(m.to)
  BY DEF MixInv, WiresOK, Sket!HandleSketch
<1>2. IsSketch(m.from) /\ m.from \in Node /\ m.to \in Peers[m.from]
  BY <1>1, WireTypes DEF GoodWire
<1>3. PICK d : d = Sket!SketchDiff(m.from, m.to, m.kind)
  OBVIOUS
<1>4. m.to \in Node /\ m.from \in Peers[m.to] /\ store[m.to] \in State
  BY <1>2, StaggerAssumption DEF MixInv, StoresOK
<1>5. d.b_newer \in State /\ \A k \in Key : d.b_newer[k] # Absent => d.b_newer[k] = store[m.to][k]
  BY <1>2, <1>3, <1>4, DiffSent
<1>6. \A g \in Sket!Reply(m, d) : GoodWire(g) /\ WireIssued(g)
  BY <1>1, <1>2, <1>5, AnswerIsGood DEF Sket!Reply
<1>7. \A g \in Sket!FollowUp(m, d) : GoodWire(g) /\ WireIssued(g)
  <2> SUFFICES ASSUME NEW g \in Sket!FollowUp(m, d) PROVE GoodWire(g) /\ WireIssued(g)
    OBVIOUS
  <2>1. PICK keys \in SUBSET Key : g = Sket!Inventory(m.to, m.from, keys)
    BY DEF Sket!FollowUp
  <2>2. g \in Sket!InventoryMsg /\ g.type = "inventory" /\ g.from = m.to /\ g.to = m.from
    BY <1>2, <1>4, <2>1 DEF Sket!Inventory, Sket!InventoryMsg
  <2> QED
    BY <1>1, <1>4, <2>2 DEF GoodWire, WireIssued
<1>8. /\ scheduled' = scheduled \ {m} /\ store' = store /\ now' = now
      /\ wires' = wires \cup IF Sket!Overflows(d, m.kind) THEN {} ELSE Sket!Reply(m, d) \cup Sket!FollowUp(m, d)
  BY <1>3 DEF Sket!HandleSketch
<1>9. \A g \in wires' : g \in wires \/ g \in Sket!Reply(m, d) \/ g \in Sket!FollowUp(m, d)
  BY <1>8
<1>10. wires \subseteq wires'
  BY <1>8
<1>11. Exchanges
  BY <1>6, <1>7, <1>8, <1>9, <1>10 DEF Exchanges, Kept
<1> QED
  BY <1>11, MixExchanges

\* The delayed handler of an inventory.
LEMMA HandleInventoryStep ==
  ASSUME MixInv, NEW m \in scheduled, Sket!HandleInventory(m), QueuesSame
  PROVE  MixInv' /\ StoreStep
<1>1. GoodWire(m) /\ m.type = "inventory" /\ IsSketch(m.to)
  BY DEF MixInv, WiresOK, Sket!HandleInventory
<1>2. IsSketch(m.from) /\ m.from \in Node /\ m.to \in Peers[m.from]
  BY <1>1, WireTypes DEF GoodWire
<1>3. PICK s : s = Sket!Select(store[m.to], m.keys)
  OBVIOUS
<1>4. store[m.to] \in State
  BY <1>2, StaggerAssumption DEF MixInv, StoresOK
<1>5. s \in State /\ \A k \in Key : s[k] # Absent => s[k] = store[m.to][k]
  BY <1>3, <1>4, SketchNames DEF Select, State, Version
<1>6. GoodWire(Sket!Gossip(m.from, s)) /\ WireIssued(Sket!Gossip(m.from, s))
  BY <1>1, <1>2, <1>5, AnswerIsGood
<1>7. /\ scheduled' = scheduled \ {m} /\ store' = store /\ now' = now
      /\ wires' = wires \cup IF s # Sket!Nothing THEN {Sket!Gossip(m.from, s)} ELSE {}
  BY <1>3 DEF Sket!HandleInventory
<1>8. Exchanges
  BY <1>6, <1>7 DEF Exchanges, Kept
<1> QED
  BY <1>8, MixExchanges

\* A sketch node's tick for one peer.
LEMMA TickSketchStep ==
  ASSUME MixInv, NEW n \in Node, NEW p \in Node, IsSketch(n), Sket!Tick(n, p), QueuesSame
  PROVE  MixInv' /\ StoreStep
<1>1. p \in Peers[n] /\ scheduled' = scheduled /\ store' = store /\ now' = now
  BY DEF Sket!Tick
<1>2. wires' = wires \cup {Sket!Sketch(n, p, kind) : kind \in Kind}
  BY DEF Sket!Tick
<1>3. ASSUME NEW kind \in Kind
      PROVE  GoodWire(Sket!Sketch(n, p, kind)) /\ WireIssued(Sket!Sketch(n, p, kind))
  BY <1>1 DEF Sket!Sketch, Sket!SketchMsg, GoodWire, WireIssued
<1>4. Exchanges
  BY <1>1, <1>2, <1>3 DEF Exchanges, Kept
<1> QED
  BY <1>4, MixExchanges

\* Every step of a mixed population keeps the invariant, and does to the
\* stores what the promise knows.
LEMMA MixStep == MixInv /\ [MixNext]_mixVars => MixInv' /\ StoreStep
<1> SUFFICES ASSUME MixInv, [MixNext]_mixVars PROVE MixInv' /\ StoreStep
  OBVIOUS
<1>1. ASSUME NEW n \in Node, NEW k \in Key, MixOriginate(n, k) PROVE MixInv' /\ StoreStep
  BY <1>1, MixEmits, MixFloods DEF MixOriginate, staggerVars, QueuesSame
<1>2. ASSUME NEW m \in msgs, RecvBatch(m) PROVE MixInv' /\ StoreStep
  BY <1>2, RecvBatchStep
<1>3. ASSUME NEW m \in wires, RecvWire(m) PROVE MixInv' /\ StoreStep
  BY <1>3, RecvWireStep
<1>4. ASSUME NEW m \in wires, Ignore(m) PROVE MixInv' /\ StoreStep
  <2>1. Exchanges
    BY <1>4 DEF Ignore, staggerVars, Exchanges, Kept, QueuesSame
  <2> QED
    BY <2>1, MixExchanges
<1>5. ASSUME NEW m \in wires, RecvSketchNode(m) PROVE MixInv' /\ StoreStep
  <2>1. IsSketch(m.to) /\ QueuesSame
    BY <1>5 DEF RecvSketchNode, staggerVars, QueuesSame
  <2>2. CASE Sket!RecvGossip(m)
    BY <2>1, <2>2, RecvGossipStep
  <2>3. CASE Sket!RecvDelayed(m)
    <3>1. Exchanges
      BY <2>1, <2>3 DEF Sket!RecvDelayed, Exchanges, Kept
    <3> QED
      BY <3>1, MixExchanges
  <2> QED
    BY <1>5, <2>2, <2>3 DEF RecvSketchNode
<1>6. ASSUME NEW n \in Node, TickStagger(n) PROVE MixInv' /\ StoreStep
  <2>1. QueueTypes' /\ Moves(n) /\ UNCHANGED sketchVars
    BY <1>6, TickEffect DEF TickStagger, MixInv
  <2>2. Kept
    BY <1>6 DEF TickStagger, TickCln, TickLnd, Kept
  <2> QED
    BY <2>1, <2>2, MixMoves
<1>7. ASSUME NEW n \in Node, NEW t \in trains[n], SendTrickled(n, t) PROVE MixInv' /\ StoreStep
  <2>1. QueueTypes' /\ Moves(n) /\ UNCHANGED sketchVars
    BY <1>7, SendEffect DEF SendTrickled, MixInv
  <2>2. Kept
    BY <1>7 DEF SendTrickled, SendBatch, Kept
  <2> QED
    BY <2>1, <2>2, MixMoves
<1>8. ASSUME NEW n \in Node, NEW p \in Node, TickSketch(n, p) PROVE MixInv' /\ StoreStep
  BY <1>8, TickSketchStep DEF TickSketch, staggerVars, QueuesSame
<1>9. ASSUME NEW m \in scheduled, HandleSketch(m) PROVE MixInv' /\ StoreStep
  BY <1>9, HandleSketchStep DEF HandleSketch, staggerVars, QueuesSame
<1>10. ASSUME NEW m \in scheduled, HandleInventory(m) PROVE MixInv' /\ StoreStep
  BY <1>10, HandleInventoryStep DEF HandleInventory, staggerVars, QueuesSame
<1>11. CASE MixElapse \/ UNCHANGED mixVars
  <2>1. Exchanges
    BY <1>11 DEF MixElapse, mixVars, staggerVars, sketchVars, Exchanges, Kept, QueuesSame
  <2> QED
    BY <2>1, MixExchanges
<1> QED
  BY <1>1, <1>2, <1>3, <1>4, <1>5, <1>6, <1>7, <1>8, <1>9, <1>10, <1>11 DEF MixNext

\* Nothing is stored, queued, sent or scheduled in the beginning.
LEMMA MixStart == MixInit => MixInv
<1> SUFFICES ASSUME MixInit PROVE MixInv
  OBVIOUS
<1>1. StaggerInv
  BY StaggerInit DEF MixInit
<1>2. wires = {} /\ scheduled = {}
  BY DEF MixInit, Sket!Init
<1>3. \A n \in Node : store[n] \in State /\ \A k \in Key : store[n][k] = Absent
  BY NothingStored DEF MixInit, Init
<1>4. StoresReach
  BY <1>3 DEF StoresReach
<1>5. QueuesReach
  BY DEF MixInit, Init, QueuesReach, Waiting, OnTheWay, Carries
<1>6. WiresOK
  BY <1>2 DEF WiresOK
<1>7. ASSUME NEW n \in Node, NEW p \in Peers[n], NEW k \in Key PROVE OwedAt(n, p, k)
  <2>1. p \in Node
    BY PeerIsNode
  <2> QED
    BY <1>3, <2>1 DEF OwedAt, Absent
<1> QED
  BY <1>1, <1>4, <1>5, <1>6, <1>7 DEF StaggerInv, MixInv

\* The invariant of the mixed population holds in every reachable state.
THEOREM MixInvariance == MixSpec => []MixInv
  BY MixStart, MixStep, PTL DEF MixSpec

\* Every reachable state of a mixed population is well typed.
THEOREM MixTypes == MixSpec => []MixTypeOK
<1>1. MixInv => MixTypeOK
  <2> SUFFICES ASSUME MixInv PROVE MixTypeOK
    OBVIOUS
  <2>1. TypeOK
    BY DEF MixInv, StoresOK, QueueTypes, MsgTypes, PendingTypes, TrainTypes, TypeOK
  <2>2. /\ \A m \in wires : m \in Sket!GossipMsg \cup Sket!SketchMsg \cup Sket!InventoryMsg
        /\ \A m \in scheduled : m \in Sket!SketchMsg \cup Sket!InventoryMsg
    BY DEF MixInv, WiresOK, GoodWire
  <2>3. store \in [Node -> Sket!State] /\ now \in Nat
    BY SketchNames DEF MixInv, StoresOK
  <2> QED
    BY <2>1, <2>2, <2>3 DEF MixTypeOK, Sket!TypeOK
<1> QED
  BY <1>1, MixInvariance, PTL

\* Sketch nodes are no bridge (SketchNode::recv absorbs and never broadcasts):
\* whatever the graph, a key is stored only where CLN and LND nodes flood it, or
\* reconciliation carries it, from its originators.
THEOREM NoBridge == MixSpec => []StaysAmongSketches
<1>1. MixInv => StaysAmongSketches
  BY DEF MixInv, StoresReach, StaysAmongSketches
<1> QED
  BY <1>1, MixInvariance, PTL

\* What a node owes its peer and the peer lacks waits at the node or is on its
\* way: also from a stagger node to a sketch node, and with flood_on_originate
\* from a sketch node to a stagger node.
THEOREM OwedArrives == MixSpec => []OwedIsHandedOn
<1>1. MixInv => OwedIsHandedOn
  <2> SUFFICES ASSUME MixInv, NEW n \in Node, NEW p \in Peers[n], NEW k \in Key, Owes(n, k)
               PROVE  \/ store[p][k] >= store[n][k]
                      \/ Waiting(n, ItemOf(k, store[n][k]))
                      \/ \E m \in msgs : m.to = p /\ Carries(m.items, ItemOf(k, store[n][k]))
                      \/ \E m \in wires : m.type = "gossip" /\ m.to = p /\ m.items[k] = store[n][k]
    BY DEF OwedIsHandedOn, ItemOf
  <2>1. CASE IsSketch(n)
    BY <2>1 DEF MixInv, OwedAt
  <2>2. CASE ~IsSketch(n)
    BY <2>2 DEF MixInv, HandedAt, OnTheWay
  <2> QED
    BY <2>1, <2>2
<1> QED
  BY <1>1, MixInvariance, PTL

\* The mixed population, over both kinds of node and of message, implements
\* GossipPromise, too.
THEOREM MixKeepsPromise == MixSpec => KeepsPromise
<1>1. MixInit => Promise!Init
  BY PromiseInit DEF MixInit, Init
<1>2. MixInv /\ [MixNext]_mixVars => [Promise!Next]_(Promise!vars)
  BY MixStep, PromiseStep DEF MixInv
<1> QED
  BY <1>1, <1>2, MixInvariance, PTL DEF MixSpec, KeepsPromise, Promise!Spec

=============================================================================
