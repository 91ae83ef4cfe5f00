---------------------------- MODULE ReplayProofs ----------------------------
(***************************************************************************)
(* Theorems about ReplayWindows, for every topology, trace and length of   *)
(* the run: the rate limit, the deadline, and the index of the entities    *)
(* with free windows.                                                      *)
(***************************************************************************)
EXTENDS ReplayWindows, FiniteSetTheorems, SequenceTheorems, TLAPS

\* The quotient of a division by a positive number.
LEMMA DivFacts ==
  ASSUME NEW a \in Nat, NEW b \in Nat, b > 0
  PROVE  /\ a \div b \in Nat
         /\ b * (a \div b) <= a
         /\ a < b * (a \div b) + b
  BY Z3

\* A number of the w-th interval of length b has the quotient w.
LEMMA QuotientOf ==
  ASSUME NEW a \in Nat, NEW b \in Nat, b > 0, NEW w \in Nat, w * b <= a, a < w * b + b
  PROVE  a \div b = w
<1> DEFINE q == a \div b
<1>1. q \in Nat /\ b * q <= a /\ a < b * q + b
  BY DivFacts
<1> HIDE DEF q
<1>2. ~(q < w)
  <2>1. SUFFICES ASSUME q + 1 <= w PROVE FALSE
    BY <1>1
  <2>2. b * (q + 1) <= b * w
    BY <2>1, <1>1, Z3
  <2> QED
    BY <1>1, <2>2, Z3
<1>3. ~(w < q)
  <2>1. SUFFICES ASSUME w + 1 <= q PROVE FALSE
    BY <1>1
  <2>2. b * (w + 1) <= b * q
    BY <2>1, <1>1, Z3
  <2> QED
    BY <1>1, <2>2, Z3
<1> QED
  BY <1>1, <1>2, <1>3 DEF q

LEMMA WindowsType == NumWindows \in Nat /\ NumWindows > 0 /\ Window \subseteq Nat
<1>1. MaxSecs \div WindowSecs \in Nat
  BY ReplayAssumption, DivFacts
<1> QED
  BY <1>1 DEF NumWindows, Window

\* A window starts before the run is over.
LEMMA WindowStarts ==
  ASSUME NEW w \in Window
  PROVE  WindowStart(w) \in Nat /\ WindowStart(w) < MaxSecs
<1> DEFINE q == MaxSecs \div WindowSecs
<1>1. q \in Nat /\ WindowSecs * q <= MaxSecs
  BY ReplayAssumption, DivFacts
<1>2. w \in Nat /\ (w = 0 \/ w + 1 <= q)
  BY <1>1, WindowsType DEF Window, NumWindows
<1> HIDE DEF q
<1>3. w * WindowSecs \in Nat
  BY <1>2, ReplayAssumption, Z3
<1>4. CASE w = 0
  BY <1>3, <1>4, ReplayAssumption, Z3 DEF WindowStart
<1>5. CASE w + 1 <= q
  <2>1. WindowSecs * (w + 1) <= WindowSecs * q
    BY <1>1, <1>2, <1>5, ReplayAssumption, Z3
  <2>2. w * WindowSecs < MaxSecs
    BY <2>1, <1>1, <1>2, ReplayAssumption, Z3
  <2> QED
    BY <2>2, <1>3 DEF WindowStart
<1> QED
  BY <1>2, <1>4, <1>5

\* The jitter stays in the window it was drawn for, and before the deadline.
LEMMA JitterInWindow ==
  ASSUME NEW w \in Window, NEW delay \in Jittered(w)
  PROVE  /\ delay \in Nat
         /\ delay < MaxSecs
         /\ delay \div WindowSecs = w
<1>1. w \in Nat /\ WindowStart(w) \in Nat /\ WindowStart(w) < MaxSecs
  BY WindowStarts, WindowsType
<1>2. WindowEnd(w) \in Nat /\ WindowEnd(w) <= MaxSecs /\ WindowEnd(w) <= WindowStart(w) + WindowSecs
      /\ WindowStart(w) < WindowEnd(w)
  BY <1>1, ReplayAssumption DEF WindowEnd
<1>3. delay \in WindowStart(w) .. WindowEnd(w) - 1
  BY <1>2 DEF Jittered
<1>4. delay \in Nat /\ WindowStart(w) <= delay /\ delay < WindowStart(w) + WindowSecs
      /\ delay < MaxSecs
  BY <1>1, <1>2, <1>3, ReplayAssumption
<1>5. w * WindowSecs <= delay /\ delay < w * WindowSecs + WindowSecs
  BY <1>4 DEF WindowStart
<1>6. delay \div WindowSecs = w
  BY <1>1, <1>4, <1>5, ReplayAssumption, QuotientOf
<1> QED
  BY <1>4, <1>6

\* What swap_remove leaves.
LEMMA SwapRemoveFacts ==
  ASSUME NEW S, NEW s \in Seq(S), NEW p \in 1 .. Len(s)
  PROVE  /\ SwapRemove(s, p) \in Seq(S)
         /\ Len(SwapRemove(s, p)) = Len(s) - 1
         /\ \A i \in 1 .. Len(s) - 1 :
              SwapRemove(s, p)[i] = IF i = p THEN s[Len(s)] ELSE s[i]
<1> DEFINE t == [s EXCEPT ![p] = s[Len(s)]]
<1>1. t \in Seq(S) /\ Len(t) = Len(s)
  OBVIOUS
<1>2. \A i \in 1 .. Len(s) : t[i] = IF i = p THEN s[Len(s)] ELSE s[i]
  OBVIOUS
<1> HIDE DEF t
<1>3. SwapRemove(s, p) = SubSeq(t, 1, Len(s) - 1)
  BY DEF SwapRemove, t
<1>4. Len(s) \in Nat /\ Len(s) >= 1
  OBVIOUS
<1>5. /\ SubSeq(t, 1, Len(s) - 1) \in Seq(S)
      /\ Len(SubSeq(t, 1, Len(s) - 1)) = Len(s) - 1
      /\ \A i \in 1 .. Len(s) - 1 : SubSeq(t, 1, Len(s) - 1)[i] = t[i]
  BY <1>1, <1>4
<1> QED
  BY <1>2, <1>3, <1>4, <1>5

\* Taking an entity out of a list keeps the index of places exact.
LEMMA EvictFacts ==
  ASSUME NEW S, NEW s \in Seq(S), NEW pos, NEW e \in Elements(s),
         DOMAIN pos = Elements(s), \A i \in 1 .. Len(s) : pos[s[i]] = i
  PROVE  LET r == SwapRemove(s, pos[e])
             q == [x \in DOMAIN pos \ {e} |-> IF x = s[Len(s)] THEN pos[e] ELSE pos[x]]
         IN  /\ r \in Seq(S)
             /\ Elements(r) = Elements(s) \ {e}
             /\ DOMAIN q = Elements(r)
             /\ \A i \in 1 .. Len(r) : q[r[i]] = i
<1> DEFINE n == Len(s)
           p == pos[e]
           r == SwapRemove(s, pos[e])
           q == [x \in DOMAIN pos \ {e} |-> IF x = s[Len(s)] THEN pos[e] ELSE pos[x]]
<1>1. p \in 1 .. n /\ s[p] = e
  BY DEF Elements
<1>2. n \in Nat /\ n >= 1
  BY <1>1
<1>3. /\ r \in Seq(S) /\ Len(r) = n - 1
      /\ \A i \in 1 .. n - 1 : r[i] = IF i = p THEN s[n] ELSE s[i]
  BY <1>1, SwapRemoveFacts
<1>4. \A i, j \in 1 .. n : s[i] = s[j] => i = j
  OBVIOUS
<1> HIDE DEF n, p, r
<1>5. ASSUME NEW i \in 1 .. n - 1
      PROVE  r[i] \in Elements(s) \ {e}
  <2>1. i \in 1 .. n /\ n \in 1 .. n
    BY <1>2
  <2>2. CASE i = p
    <3>1. r[i] = s[n] /\ n # p
      BY <1>3, <2>2, <1>2
    <3> QED
      BY <3>1, <2>1, <1>1, <1>4 DEF Elements, n
  <2>3. CASE i # p
    <3>1. r[i] = s[i]
      BY <1>3, <2>3
    <3> QED
      BY <3>1, <2>1, <2>3, <1>1, <1>4 DEF Elements, n
  <2> QED
    BY <2>2, <2>3
<1>6. ASSUME NEW x \in Elements(s) \ {e}
      PROVE  \E i \in 1 .. n - 1 : r[i] = x
  <2>1. PICK j \in 1 .. n : s[j] = x
    BY DEF Elements, n
  <2>2. j # p
    BY <2>1, <1>1
  <2>3. CASE j = n
    <3>1. p \in 1 .. n - 1
      BY <1>1, <1>2, <2>2, <2>3
    <3> QED
      BY <3>1, <1>3, <2>1, <2>3
  <2>4. CASE j # n
    <3>1. j \in 1 .. n - 1
      BY <1>2, <2>4
    <3> QED
      BY <3>1, <1>3, <2>1, <2>2
  <2> QED
    BY <2>3, <2>4
<1>7. Elements(r) = Elements(s) \ {e}
  <2>1. Elements(r) = {r[i] : i \in 1 .. n - 1}
    BY <1>3 DEF Elements
  <2> QED
    BY <2>1, <1>5, <1>6
<1>8. DOMAIN q = Elements(r)
  BY <1>7
<1>9. ASSUME NEW i \in 1 .. n - 1
      PROVE  q[r[i]] = i
  <2>1. i \in 1 .. n /\ n \in 1 .. n /\ i # n
    BY <1>2
  <2>2. r[i] \in DOMAIN pos \ {e}
    BY <1>5
  <2>3. q[r[i]] = IF r[i] = s[n] THEN p ELSE pos[r[i]]
    BY <2>2 DEF n, p
  <2>4. CASE i = p
    BY <2>3, <2>4, <1>3
  <2>5. CASE i # p
    <3>1. r[i] = s[i] /\ s[i] # s[n]
      BY <1>3, <1>4, <2>1, <2>5
    <3>2. pos[s[i]] = i
      BY <2>1 DEF n
    <3> QED
      BY <2>3, <3>1, <3>2
  <2> QED
    BY <2>4, <2>5
<1> QED
  BY <1>3, <1>7, <1>8, <1>9 DEF r

----------------------------------------------------------------------------
\* The three tables are functions of the class.
Tables ==
    /\ used = [c \in Class |-> used[c]]
    /\ hasFree = [c \in Class |-> hasFree[c]]
    /\ hasFreePos = [c \in Class |-> hasFreePos[c]]
    /\ \A c \in Class : hasFree[c] \in Seq(Entity(c))

\* What is waiting names an entity of its class, if any.
Homes ==
    \A i \in DOMAIN loaded : loaded[i].home \in Entity(loaded[i].class) \cup {NoHome}

\* The window of every placed event is marked as used.
Recorded ==
    \A i \in DOMAIN surviving :
        surviving[i].delay \div WindowSecs \in used[surviving[i].class][surviving[i].home]

IInv ==
    /\ TypeOK /\ Tables /\ Homes
    /\ HasFreeExact /\ Recorded /\ RateLimit /\ WithinRun

\* A function on 1 .. n is a sequence.
LEMMA SeqOfFunction ==
  ASSUME NEW S, NEW n \in Nat, NEW f \in [1 .. n -> S]
  PROVE  f \in Seq(S) /\ Len(f) = n
  BY SeqDef, LenProperties

LEMMA InitIInv == Init => IInv
<1> SUFFICES ASSUME Init PROVE IInv
  OBVIOUS
<1> USE DEF Init
<1>1. PICK nodes \in Listing(Node), scids \in Listing(Scid) :
        hasFree = [c \in Class |-> IF c = "NodeAnn" THEN nodes ELSE scids]
  OBVIOUS
<1>2. ASSUME NEW S, IsFiniteSet(S), NEW l \in Listing(S)
      PROVE  /\ l \in Seq(S) /\ Elements(l) = S
             /\ \A i \in 1 .. Len(l) : PositionIn(l)[l[i]] = i
             /\ DOMAIN PositionIn(l) = S
  <2>1. /\ l \in [1 .. Cardinality(S) -> S] /\ Elements(l) = S
        /\ \A i, j \in DOMAIN l : l[i] = l[j] => i = j
    BY DEF Listing
  <2>0. Cardinality(S) \in Nat
    BY <1>2, FS_CardinalityType
  <2>2. l \in Seq(S)
    BY <2>0, <2>1, SeqOfFunction
  <2>3. DOMAIN l = 1 .. Len(l)
    BY <2>2
  <2>4. ASSUME NEW i \in 1 .. Len(l)
        PROVE  PositionIn(l)[l[i]] = i
    <3>1. l[i] \in Elements(l)
      BY DEF Elements
    <3>2. (CHOOSE j \in 1 .. Len(l) : l[j] = l[i]) = i
      BY <2>1, <2>3
    <3> QED
      BY <3>1, <3>2 DEF PositionIn
  <2> QED
    BY <2>1, <2>2, <2>4 DEF PositionIn
<1>3. ASSUME NEW c \in Class
      PROVE  /\ hasFree[c] \in Seq(Entity(c)) /\ Elements(hasFree[c]) = Entity(c)
             /\ \A i \in 1 .. Len(hasFree[c]) : hasFreePos[c][hasFree[c][i]] = i
             /\ DOMAIN hasFreePos[c] = Entity(c)
  <2>1. /\ hasFree[c] = IF c = "NodeAnn" THEN nodes ELSE scids
        /\ hasFreePos[c] = PositionIn(hasFree[c])
    BY <1>1
  <2>2. hasFree[c] \in Listing(Entity(c)) /\ IsFiniteSet(Entity(c))
    BY <2>1, ReplayAssumption DEF Entity
  <2> QED
    BY <2>1, <2>2, <1>2
<1>4. ASSUME NEW c \in Class, NEW e \in Entity(c)
      PROVE  used[c][e] = {} /\ ~IsFull(c, e)
  <2>1. used[c][e] = {}
    OBVIOUS
  <2>2. 0 \in Window
    BY WindowsType DEF Window
  <2> QED
    BY <2>1, <2>2 DEF IsFull
<1>5. Tables
  <2>1. used = [c \in Class |-> used[c]] /\ hasFreePos = [c \in Class |-> hasFreePos[c]]
    OBVIOUS
  <2>2. hasFree = [c \in Class |-> hasFree[c]]
    BY <1>1
  <2> QED
    BY <2>1, <2>2, <1>3 DEF Tables
<1>6. TypeOK
  <2>1. \A c \in Class : used[c] \in [Entity(c) -> SUBSET Window]
    OBVIOUS
  <2>2. loaded \in Seq(Event) /\ surviving \in Seq(Event) /\ Len(surviving) = 0
        /\ DOMAIN surviving = {}
    OBVIOUS
  <2>3. \A c \in Class : Elements(hasFree[c]) \subseteq Entity(c)
    BY <1>3
  <2>4. rotor \in [Scid \cup Stranger -> {0, 1}] /\ emitted \in 0 .. Len(surviving)
    BY <2>2
  <2> QED
    BY <2>1, <2>2, <2>3, <2>4 DEF TypeOK
<1>7. HasFreeExact
  <2>1. \A c \in Class : Elements(hasFree[c]) = {e \in Entity(c) : ~IsFull(c, e)}
    BY <1>3, <1>4
  <2> QED
    BY <1>3, <2>1 DEF HasFreeExact
<1> QED
  BY <1>5, <1>6, <1>7 DEF IInv, Homes, Recorded, RateLimit, WithinRun

----------------------------------------------------------------------------
\* A row that is read changes nothing but the list of what waits.
LEMMA LoadIInv == IInv /\ LoadRow => IInv'
<1> SUFFICES ASSUME IInv, LoadRow PROVE IInv'
  OBVIOUS
<1> USE DEF IInv
<1>1. PICK k \in Kind, gap \in Gap : \E id \in RowId(k) :
        LET delay == IF loaded = <<>> THEN gap ELSE loaded[Len(loaded)].asked + gap
            d     == IF k = "ChanUpd" THEN rotor[id] ELSE 0
        IN  IF delay > MaxSecs
            THEN phase' = "reshape" /\ UNCHANGED <<loaded, rotor, read>>
            ELSE /\ loaded' = Append(loaded,
                      [class |-> ClassOf(k, d),
                       home |-> IF id \in Stranger THEN NoHome ELSE id,
                       delay |-> delay, asked |-> delay,
                       deferred |-> FALSE, reassigned |-> FALSE])
                 /\ rotor' = IF k = "ChanUpd" THEN [rotor EXCEPT ![id] = Flip(@)] ELSE rotor
                 /\ read' = read + 1
                 /\ UNCHANGED phase
  BY DEF LoadRow
<1>a. PICK id \in RowId(k) :
        LET delay == IF loaded = <<>> THEN gap ELSE loaded[Len(loaded)].asked + gap
            d     == IF k = "ChanUpd" THEN rotor[id] ELSE 0
        IN  IF delay > MaxSecs
            THEN phase' = "reshape" /\ UNCHANGED <<loaded, rotor, read>>
            ELSE /\ loaded' = Append(loaded,
                      [class |-> ClassOf(k, d),
                       home |-> IF id \in Stranger THEN NoHome ELSE id,
                       delay |-> delay, asked |-> delay,
                       deferred |-> FALSE, reassigned |-> FALSE])
                 /\ rotor' = IF k = "ChanUpd" THEN [rotor EXCEPT ![id] = Flip(@)] ELSE rotor
                 /\ read' = read + 1
                 /\ UNCHANGED phase
  BY <1>1
<1>2. UNCHANGED <<overflow, used, hasFree, hasFreePos, surviving, dropped, out, emitted>>
      /\ phase = "load"
  BY DEF LoadRow
<1>3. CASE UNCHANGED <<loaded, rotor, read>> /\ phase' = "reshape"
  BY <1>2, <1>3 DEF TypeOK, Tables, Homes, HasFreeExact, Recorded, RateLimit, WithinRun, IsFull
<1>4. ASSUME NEW delay \in Nat, NEW d \in {0, 1},
             d = IF k = "ChanUpd" THEN rotor[id] ELSE 0,
             loaded' = Append(loaded,
                  [class |-> ClassOf(k, d),
                   home |-> IF id \in Stranger THEN NoHome ELSE id,
                   delay |-> delay, asked |-> delay,
                   deferred |-> FALSE, reassigned |-> FALSE]),
             rotor' = IF k = "ChanUpd" THEN [rotor EXCEPT ![id] = Flip(@)] ELSE rotor,
             read' = read + 1, UNCHANGED phase
      PROVE  IInv'
  <2> DEFINE ev == [class |-> ClassOf(k, d),
                    home |-> IF id \in Stranger THEN NoHome ELSE id,
                    delay |-> delay, asked |-> delay,
                    deferred |-> FALSE, reassigned |-> FALSE]
  <2>1. ClassOf(k, d) \in Class
    BY DEF ClassOf, Class, Kind
  <2>2. ev.home \in Entity(ev.class) \cup {NoHome}
    BY DEF RowId, Entity, ClassOf, Kind
  <2>3. ev \in Event
    BY <2>1, <2>2 DEF Event, Entity
  <2>4. loaded \in Seq(Event) /\ loaded' = Append(loaded, ev)
    BY <1>4 DEF TypeOK
  <2> HIDE DEF ev
  <2>5. loaded' \in Seq(Event)
    BY <2>3, <2>4
  <2>6. Homes'
    BY <2>2, <2>4, <1>2 DEF Homes
  <2>7. rotor' \in [Scid \cup Stranger -> {0, 1}]
    <3>1. rotor \in [Scid \cup Stranger -> {0, 1}]
      BY DEF TypeOK
    <3>2. CASE k = "ChanUpd"
      <4>1. rotor' = [rotor EXCEPT ![id] = Flip(rotor[id])]
        BY <1>4, <3>2
      <4>2. id \in Scid \cup Stranger
        BY <3>2 DEF RowId
      <4>3. Flip(rotor[id]) \in {0, 1}
        BY <3>1, <4>2 DEF Flip
      <4> QED
        BY <3>1, <4>1, <4>3
    <3>3. CASE k # "ChanUpd"
      BY <1>4, <3>1, <3>3
    <3> QED
      BY <3>2, <3>3
  <2>8. read' \in Nat
    BY <1>4 DEF TypeOK
  <2>9. TypeOK'
    BY <1>2, <1>4, <2>5, <2>7, <2>8 DEF TypeOK
  <2> QED
    BY <1>2, <2>6, <2>9 DEF Tables, HasFreeExact, Recorded, RateLimit, WithinRun, IsFull
<1> DEFINE delay == IF loaded = <<>> THEN gap ELSE loaded[Len(loaded)].asked + gap
           d     == IF k = "ChanUpd" THEN rotor[id] ELSE 0
<1>5. delay \in Nat
  <2>1. loaded \in Seq(Event) /\ gap \in Nat
    BY ReplayAssumption DEF TypeOK
  <2>2. ASSUME loaded # <<>> PROVE loaded[Len(loaded)].asked \in Nat
    <3>1. Len(loaded) \in 1 .. Len(loaded)
      BY <2>1, <2>2
    <3>2. loaded[Len(loaded)] \in Event
      BY <2>1, <3>1
    <3> QED
      BY <3>2 DEF Event
  <2> QED
    BY <2>1, <2>2
<1>6. d \in {0, 1}
  BY DEF TypeOK, RowId, Kind
<1>7. CASE delay > MaxSecs
  BY <1>a, <1>3, <1>7
<1>8. CASE ~(delay > MaxSecs)
  <2> HIDE DEF delay, d
  <2>1. d = IF k = "ChanUpd" THEN rotor[id] ELSE 0
    BY DEF d
  <2>2. /\ loaded' = Append(loaded,
             [class |-> ClassOf(k, d),
              home |-> IF id \in Stranger THEN NoHome ELSE id,
              delay |-> delay, asked |-> delay,
              deferred |-> FALSE, reassigned |-> FALSE])
        /\ rotor' = IF k = "ChanUpd" THEN [rotor EXCEPT ![id] = Flip(@)] ELSE rotor
        /\ read' = read + 1 /\ UNCHANGED phase
    BY <1>a, <1>8 DEF delay, d
  <2> QED
    BY <1>4, <1>5, <1>6, <2>1, <2>2
<1> QED
  BY <1>7, <1>8

----------------------------------------------------------------------------
\* The window of a row is one of the windows.
LEMMA PreferredType ==
  ASSUME NEW ev \in Event
  PROVE  Preferred(ev) \in Window
<1>1. ev.delay \in Nat
  BY DEF Event
<1>2. ev.delay \div WindowSecs \in Nat
  BY <1>1, ReplayAssumption, DivFacts
<1> QED
  BY <1>2, WindowsType DEF Preferred, Window

\* The index stays exact when window w of entity e of class c is taken.
LEMMA IndexIInv ==
  ASSUME IInv, NEW c \in Class, NEW e \in Entity(c), NEW w \in Window, ~IsFull(c, e),
         used' = [used EXCEPT ![c][e] = @ \cup {w}],
         IF used[c][e] \cup {w} = Window THEN Evict(c, e) ELSE UNCHANGED <<hasFree, hasFreePos>>
  PROVE  Tables' /\ HasFreeExact' /\ \A d \in Class : used'[d] \in [Entity(d) -> SUBSET Window]
<1> USE DEF IInv
<1>1. \A d \in Class : used[d] \in [Entity(d) -> SUBSET Window]
  BY DEF TypeOK
<1>2. used' = [used EXCEPT ![c] = [used[c] EXCEPT ![e] = used[c][e] \cup {w}]]
  OBVIOUS
<1>3. DOMAIN used = Class
  BY DEF Tables
<1>4. /\ used' = [d \in Class |-> used'[d]]
      /\ used'[c] = [used[c] EXCEPT ![e] = used[c][e] \cup {w}]
      /\ \A d \in Class \ {c} : used'[d] = used[d]
  BY <1>2, <1>3
<1>5. \A d \in Class : used'[d] \in [Entity(d) -> SUBSET Window]
  BY <1>1, <1>4
<1>6. used'[c][e] = used[c][e] \cup {w} /\ \A x \in Entity(c) \ {e} : used'[c][x] = used[c][x]
  BY <1>1, <1>4
<1>7. /\ \A d \in Class \ {c} : \A x : IsFull(d, x)' <=> IsFull(d, x)
      /\ \A x \in Entity(c) \ {e} : IsFull(c, x)' <=> IsFull(c, x)
      /\ IsFull(c, e)' <=> used[c][e] \cup {w} = Window
  BY <1>4, <1>6 DEF IsFull
<1>8. CASE used[c][e] \cup {w} # Window
  <2>1. UNCHANGED <<hasFree, hasFreePos>>
    BY <1>8
  <2>2. \A d \in Class : \A x \in Entity(d) : IsFull(d, x)' <=> IsFull(d, x)
    BY <1>7, <1>8
  <2>3. Tables'
    BY <1>4, <2>1 DEF Tables
  <2>4. HasFreeExact'
    BY <2>1, <2>2 DEF HasFreeExact
  <2> QED
    BY <1>5, <2>3, <2>4
<1>9. CASE used[c][e] \cup {w} = Window
  <2> DEFINE s == hasFree[c]
             pos == hasFreePos[c]
             r == SwapRemove(s, pos[e])
             q == [x \in DOMAIN pos \ {e} |-> IF x = s[Len(s)] THEN pos[e] ELSE pos[x]]
  <2>1. s \in Seq(Entity(c)) /\ DOMAIN hasFree = Class /\ DOMAIN hasFreePos = Class
    BY DEF Tables
  <2>2. /\ e \in Elements(s) /\ DOMAIN pos = Elements(s)
        /\ \A i \in 1 .. Len(s) : pos[s[i]] = i
    BY DEF HasFreeExact
  <2>3. hasFree' = [hasFree EXCEPT ![c] = r] /\ hasFreePos' = [hasFreePos EXCEPT ![c] = q]
    BY <1>9, <2>2 DEF Evict
  <2>4. /\ r \in Seq(Entity(c))
        /\ Elements(r) = Elements(s) \ {e}
        /\ DOMAIN q = Elements(r)
        /\ \A i \in 1 .. Len(r) : q[r[i]] = i
    <3> HIDE DEF s, pos
    <3> QED
      BY <2>1, <2>2, EvictFacts
  <2> HIDE DEF r, q
  <2>5. /\ hasFree'[c] = r /\ hasFreePos'[c] = q
        /\ \A d \in Class \ {c} : hasFree'[d] = hasFree[d] /\ hasFreePos'[d] = hasFreePos[d]
        /\ hasFree' = [d \in Class |-> hasFree'[d]]
        /\ hasFreePos' = [d \in Class |-> hasFreePos'[d]]
    BY <2>1, <2>3
  <2>6. Tables'
    BY <1>4, <2>4, <2>5 DEF Tables
  <2>7. ASSUME NEW d \in Class
        PROVE  /\ Elements(hasFree'[d]) = {x \in Entity(d) : ~IsFull(d, x)'}
               /\ DOMAIN hasFreePos'[d] = Elements(hasFree'[d])
               /\ \A i \in 1 .. Len(hasFree'[d]) : hasFreePos'[d][hasFree'[d][i]] = i
    <3>1. CASE d # c
      <4>1. hasFree'[d] = hasFree[d] /\ hasFreePos'[d] = hasFreePos[d]
        BY <2>5, <3>1
      <4>2. \A x : IsFull(d, x)' <=> IsFull(d, x)
        BY <1>7, <3>1
      <4>3. /\ Elements(hasFree[d]) = {x \in Entity(d) : ~IsFull(d, x)}
            /\ DOMAIN hasFreePos[d] = Elements(hasFree[d])
            /\ \A i \in 1 .. Len(hasFree[d]) : hasFreePos[d][hasFree[d][i]] = i
        BY DEF HasFreeExact
      <4> QED
        BY <4>1, <4>2, <4>3
    <3>2. CASE d = c
      <4>1. Elements(s) = {x \in Entity(c) : ~IsFull(c, x)}
        BY DEF HasFreeExact
      <4>2. Elements(r) = {x \in Entity(c) : ~IsFull(c, x)'}
        BY <4>1, <2>4, <1>7, <1>9
      <4> QED
        BY <3>2, <4>2, <2>4, <2>5
    <3> QED
      BY <3>1, <3>2
  <2>8. HasFreeExact'
    BY <2>7 DEF HasFreeExact, IsFull
  <2> QED
    BY <1>5, <2>6, <2>8
<1> QED
  BY <1>8, <1>9

\* The event at the head of what waits.
LEMMA HeadFacts ==
  ASSUME IInv, loaded # <<>>
  PROVE  /\ Head(loaded) \in Event
         /\ Head(loaded).class \in Class
         /\ Head(loaded).home \in Entity(Head(loaded).class) \cup {NoHome}
         /\ Tail(loaded) \in Seq(Event)
         /\ Len(loaded) = Len(Tail(loaded)) + 1
         /\ \A i \in DOMAIN Tail(loaded) :
              Tail(loaded)[i].home \in Entity(Tail(loaded)[i].class) \cup {NoHome}
<1>1. loaded \in Seq(Event)
  BY DEF IInv, TypeOK
<1>2. /\ Head(loaded) = loaded[1] /\ 1 \in DOMAIN loaded /\ Tail(loaded) \in Seq(Event)
      /\ Len(Tail(loaded)) = Len(loaded) - 1 /\ Len(loaded) \in Nat
      /\ \A i \in DOMAIN Tail(loaded) : i + 1 \in DOMAIN loaded /\ Tail(loaded)[i] = loaded[i + 1]
  BY <1>1
<1>3. Head(loaded) \in Event
  BY <1>1, <1>2
<1>4. Head(loaded).class \in Class
  BY <1>3 DEF Event
<1> QED
  BY <1>2, <1>3, <1>4 DEF IInv, Homes

\* What Placed changes of an event.
LEMMA PlacedFacts ==
  ASSUME NEW ev \in Event, NEW e \in Node \cup Scid, NEW w, NEW delay \in Nat,
         overflow \in BOOLEAN
  PROVE  LET n == Placed(ev, e, w, delay)
         IN  n \in Event /\ n.class = ev.class /\ n.home = e /\ n.delay = delay
<1> DEFINE moved == ev.home = NoHome \/ overflow
           late == ~moved /\ w # Preferred(ev)
<1>1. moved \in BOOLEAN /\ late \in BOOLEAN
  BY Zenon
<1>2. Placed(ev, e, w, delay) = [ev EXCEPT !.home = e, !.delay = delay, !.reassigned = moved,
                                           !.deferred = late]
  BY Zenon DEF Placed
<1> HIDE DEF moved, late
<1> QED
  BY <1>1, <1>2 DEF Event

LEMMA PlaceIInv == IInv /\ Place => IInv'
<1> SUFFICES ASSUME IInv, Place PROVE IInv'
  OBVIOUS
<1> DEFINE ev == Head(loaded)
           c == ev.class
<1>1. /\ ev \in Event /\ c \in Class /\ ev.home \in Entity(c) \cup {NoHome}
      /\ Tail(loaded) \in Seq(Event)
      /\ \A i \in DOMAIN Tail(loaded) :
           Tail(loaded)[i].home \in Entity(Tail(loaded)[i].class) \cup {NoHome}
  BY HeadFacts DEF Place
<1>2. PICK e \in Candidates(ev) :
        /\ ~IsFull(c, e)
        /\ \E w \in Choices(c, e, ev) :
             /\ used' = [used EXCEPT ![c][e] = @ \cup {w}]
             /\ IF used[c][e] \cup {w} = Window THEN Evict(c, e)
                ELSE UNCHANGED <<hasFree, hasFreePos>>
             /\ \E delay \in Jittered(w) :
                  surviving' = Append(surviving, Placed(ev, e, w, delay))
  BY DEF Place
<1>3. PICK w \in Choices(c, e, ev) :
        /\ used' = [used EXCEPT ![c][e] = @ \cup {w}]
        /\ IF used[c][e] \cup {w} = Window THEN Evict(c, e)
           ELSE UNCHANGED <<hasFree, hasFreePos>>
        /\ \E delay \in Jittered(w) : surviving' = Append(surviving, Placed(ev, e, w, delay))
  BY <1>2
<1>4. PICK delay \in Jittered(w) : surviving' = Append(surviving, Placed(ev, e, w, delay))
  BY <1>3
<1>5. /\ loaded' = Tail(loaded) /\ overflow' = FALSE
      /\ UNCHANGED <<phase, rotor, dropped, out, emitted, read>>
  BY DEF Place
<1> DEFINE n == Placed(ev, e, w, delay)
<1> HIDE DEF ev, c, n
<1>6. e \in Entity(c)
  <2>1. Elements(hasFree[c]) \subseteq Entity(c)
    BY <1>1 DEF IInv, TypeOK
  <2>2. CASE ev.home # NoHome /\ ~overflow
    BY <1>1, <2>2 DEF Candidates
  <2>3. CASE ~(ev.home # NoHome /\ ~overflow)
    BY <2>1, <2>3 DEF Candidates, c
  <2> QED
    BY <2>2, <2>3
<1>7. w \in Window /\ w \notin used[c][e]
  BY <1>1, PreferredType DEF Choices, RandomFree
<1>8. Tables' /\ HasFreeExact' /\ \A d \in Class : used'[d] \in [Entity(d) -> SUBSET Window]
  BY <1>1, <1>2, <1>3, <1>6, <1>7, IndexIInv
<1>9. \A d \in Class : \A x : used[d][x] \subseteq used'[d][x] \/ x \notin Entity(d)
  <2>1. DOMAIN used = Class /\ \A d \in Class : DOMAIN used[d] = Entity(d)
    BY DEF IInv, Tables, TypeOK
  <2> QED
    BY <1>1, <1>3, <1>6, <2>1
<1>10. used'[c][e] = used[c][e] \cup {w}
  <2>1. DOMAIN used = Class /\ \A d \in Class : DOMAIN used[d] = Entity(d)
    BY DEF IInv, Tables, TypeOK
  <2> QED
    BY <1>1, <1>3, <1>6, <2>1
<1>11. delay \in Nat /\ delay < MaxSecs /\ delay \div WindowSecs = w
  BY <1>7, JitterInWindow
<1>12. n \in Event /\ n.class = c /\ n.home = e /\ n.delay = delay
  <2>1. e \in Node \cup Scid
    BY <1>6 DEF Entity
  <2>2. overflow \in BOOLEAN
    BY DEF IInv, TypeOK
  <2> QED
    BY <2>1, <2>2, <1>1, <1>11, PlacedFacts DEF n, c
<1>13. /\ surviving \in Seq(Event) /\ surviving' \in Seq(Event)
       /\ DOMAIN surviving = 1 .. Len(surviving)
       /\ Len(surviving) \in Nat
       /\ Len(surviving') = Len(surviving) + 1
       /\ DOMAIN surviving' = 1 .. Len(surviving) + 1
       /\ surviving'[Len(surviving) + 1] = n
       /\ \A i \in DOMAIN surviving : surviving'[i] = surviving[i]
  <2>1. surviving \in Seq(Event) /\ surviving' = Append(surviving, n)
    BY <1>4 DEF IInv, TypeOK, n
  <2> QED
    BY <2>1, <1>12
<1>14. \A i \in DOMAIN surviving' : i \in DOMAIN surviving \/ i = Len(surviving) + 1
  BY <1>13
<1>15. /\ \A i \in DOMAIN surviving : /\ surviving[i].home \in Entity(surviving[i].class)
                                      /\ surviving[i].class \in Class
  <2>1. \A i \in DOMAIN surviving : surviving[i] \in Event
    BY <1>13
  <2> QED
    BY <2>1 DEF IInv, TypeOK, Event
<1>16. Recorded'
  <2>1. ASSUME NEW i \in DOMAIN surviving'
        PROVE  surviving'[i].delay \div WindowSecs
                 \in used'[surviving'[i].class][surviving'[i].home]
    <3>1. CASE i \in DOMAIN surviving
      BY <3>1, <1>9, <1>13, <1>15 DEF IInv, Recorded
    <3>2. CASE i = Len(surviving) + 1
      BY <3>2, <1>10, <1>11, <1>12, <1>13
    <3> QED
      BY <3>1, <3>2, <1>14
  <2> QED
    BY <2>1 DEF Recorded
<1>17. RateLimit'
  <2>1. ASSUME NEW i \in DOMAIN surviving
        PROVE  ~(/\ surviving[i].class = c /\ surviving[i].home = e
                 /\ surviving[i].delay \div WindowSecs = w)
    BY <1>7 DEF IInv, Recorded
  <2>2. ASSUME NEW i \in DOMAIN surviving', NEW j \in DOMAIN surviving',
               surviving'[i].class = surviving'[j].class,
               surviving'[i].home = surviving'[j].home,
               surviving'[i].delay \div WindowSecs = surviving'[j].delay \div WindowSecs
        PROVE  i = j
    <3>1. CASE i \in DOMAIN surviving /\ j \in DOMAIN surviving
      BY <2>2, <3>1, <1>13 DEF IInv, RateLimit
    <3>2. CASE i \in DOMAIN surviving /\ j = Len(surviving) + 1
      BY <2>1, <2>2, <3>2, <1>11, <1>12, <1>13
    <3>3. CASE j \in DOMAIN surviving /\ i = Len(surviving) + 1
      BY <2>1, <2>2, <3>3, <1>11, <1>12, <1>13
    <3> QED
      BY <3>1, <3>2, <3>3, <1>14
  <2> QED
    BY <2>2 DEF RateLimit
<1>18. WithinRun'
  BY <1>11, <1>12, <1>13, <1>14 DEF IInv, WithinRun
<1>19. Homes'
  BY <1>1, <1>5 DEF Homes
<1>20. TypeOK'
  <2>1. \A i \in DOMAIN surviving' : surviving'[i].home \in Entity(surviving'[i].class)
    BY <1>6, <1>12, <1>13, <1>14, <1>15
  <2>2. \A d \in Class : Elements(hasFree'[d]) \subseteq Entity(d)
    BY <1>8 DEF HasFreeExact
  <2>3. emitted' \in 0 .. Len(surviving')
    BY <1>5, <1>13 DEF IInv, TypeOK
  <2>4. loaded' \in Seq(Event) /\ surviving' \in Seq(Event)
    BY <1>1, <1>5, <1>13
  <2> QED
    BY <1>5, <1>8, <2>1, <2>2, <2>3, <2>4 DEF IInv, TypeOK
<1> QED
  BY <1>8, <1>16, <1>17, <1>18, <1>19, <1>20 DEF IInv

----------------------------------------------------------------------------
LEMMA StepIInv == IInv /\ [Next]_vars => IInv'
<1> SUFFICES ASSUME IInv, [Next]_vars PROVE IInv'
  OBVIOUS
<1>1. CASE LoadRow
  BY <1>1, LoadIInv
<1>2. CASE Place
  BY <1>2, PlaceIInv
<1>3. ASSUME UNCHANGED <<used, hasFree, hasFreePos, surviving>>
      PROVE  Tables' /\ HasFreeExact' /\ Recorded' /\ RateLimit' /\ WithinRun'
  BY <1>3 DEF IInv, Tables, HasFreeExact, Recorded, RateLimit, WithinRun, IsFull
<1>4. CASE \/ EndOfTrace \/ FindFull \/ EndOfReshape \/ EmitTuples \/ EndOfEmit
           \/ UNCHANGED vars
  <2>1. UNCHANGED <<used, hasFree, hasFreePos, surviving, loaded, rotor, read, dropped>>
    BY <1>4 DEF EndOfTrace, FindFull, EndOfReshape, EmitTuples, EndOfEmit, vars
  <2>2. Homes'
    BY <2>1 DEF IInv, Homes
  <2>3. phase' \in {"load", "reshape", "emit", "done"}
    BY <1>4 DEF IInv, TypeOK, EndOfTrace, FindFull, EndOfReshape, EmitTuples, EndOfEmit, vars
  <2>4. overflow' \in BOOLEAN
    BY <1>4 DEF IInv, TypeOK, EndOfTrace, FindFull, EndOfReshape, EmitTuples, EndOfEmit, vars
  <2>5. emitted' \in 0 .. Len(surviving')
    <3>1. surviving \in Seq(Event) /\ emitted \in 0 .. Len(surviving) /\ Len(surviving) \in Nat
      BY DEF IInv, TypeOK
    <3>2. emitted' = emitted \/ (emitted' = emitted + 1 /\ emitted < Len(surviving))
      BY <1>4 DEF EndOfTrace, FindFull, EndOfReshape, EmitTuples, EndOfEmit, vars
    <3> QED
      BY <2>1, <3>1, <3>2
  <2>6. TypeOK'
    BY <2>1, <2>3, <2>4, <2>5 DEF IInv, TypeOK
  <2> QED
    BY <1>3, <2>1, <2>2, <2>6 DEF IInv
<1>5. CASE Drop
  <2>1. /\ UNCHANGED <<used, hasFree, hasFreePos, surviving, phase, rotor, read, emitted>>
        /\ loaded' = Tail(loaded) /\ dropped' = dropped + 1 /\ overflow' = FALSE
        /\ loaded # <<>>
    BY <1>5 DEF Drop
  <2>4. /\ Tail(loaded) \in Seq(Event)
        /\ \A i \in DOMAIN Tail(loaded) :
             Tail(loaded)[i].home \in Entity(Tail(loaded)[i].class) \cup {NoHome}
    BY <2>1, HeadFacts, Zenon
  <2>2. loaded' \in Seq(Event) /\ Homes'
    <3> DEFINE rest == Tail(loaded)
    <3>1. loaded' = rest
      BY <2>1
    <3> HIDE DEF rest
    <3>2. rest \in Seq(Event)
          /\ \A i \in DOMAIN rest : rest[i].home \in Entity(rest[i].class) \cup {NoHome}
      BY <2>4 DEF rest
    <3> QED
      BY <3>1, <3>2 DEF Homes
  <2>5. overflow' \in BOOLEAN /\ dropped' \in Nat
    <3>1. dropped \in Nat /\ dropped' = dropped + 1
      BY <2>1 DEF IInv, TypeOK
    <3>2. dropped' \in Nat
      BY <3>1
    <3>3. overflow' \in BOOLEAN
      BY <2>1, Zenon
    <3> QED
      BY <3>2, <3>3
  <2> DEFINE rest == loaded'
  <2>6. rest \in Seq(Event)
    BY <2>2
  <2> HIDE DEF rest
  <2>3. TypeOK'
    <3>1. /\ UNCHANGED <<used, hasFree, hasFreePos, surviving, phase, rotor, read, emitted>>
          /\ loaded' = rest
      BY <2>1 DEF rest
    <3> QED
      BY <2>5, <2>6, <3>1 DEF IInv, TypeOK
  <2> QED
    BY <1>3, <2>1, <2>2, <2>3 DEF IInv
<1> QED
  BY <1>1, <1>2, <1>4, <1>5 DEF Next, Progress, Done

----------------------------------------------------------------------------
\* What the driver is handed for an event.
Origination == [delay : Nat, origin : Node, class : Class, home : Node \cup Scid]

Once(s) == \A p, q \in 1 .. Len(s) : s[p] = s[q] => p = q

\* The books of the events: what was read is waiting, placed or dropped, and
\* what has been handed out is what the placed ones up to the last emitted
\* are to leave.
Accounted ==
    /\ out \in Seq(Origination)
    /\ read = Len(loaded) + Len(surviving) + dropped
    /\ \A i \in 1 .. emitted : LeavesAll(surviving[i])
    /\ \A t \in Elements(out) : \E i \in 1 .. emitted : IsOf(t, surviving[i])
    /\ Once(out)
    /\ phase = "done" => emitted = Len(surviving)

\* One origination, or two different ones, as a sequence.
LEMMA Singleton ==
  ASSUME NEW t \in Origination
  PROVE  <<t>> \in Seq(Origination) /\ Elements(<<t>>) = {t} /\ Once(<<t>>)
  BY DEF Elements, Once

LEMMA Couple ==
  ASSUME NEW t \in Origination, NEW u \in Origination, t # u
  PROVE  <<t, u>> \in Seq(Origination) /\ Elements(<<t, u>>) = {t, u} /\ Once(<<t, u>>)
<1>1. /\ <<t, u>> \in Seq(Origination) /\ Len(<<t, u>>) = 2
      /\ <<t, u>>[1] = t /\ <<t, u>>[2] = u
  OBVIOUS
<1>2. 1 .. 2 = {1, 2}
  OBVIOUS
<1> QED
  BY <1>1, <1>2 DEF Elements, Once

\* A placed event leaves exactly the nodes it belongs to, each once.  That is
\* where the two ends of a channel have to be different.
LEMMA TuplesFacts ==
  ASSUME NEW ev \in Event, ev.home \in Entity(ev.class)
  PROVE  /\ Tuples(ev) \in Seq(Origination)
         /\ Elements(Tuples(ev)) = {Tuple(ev, n) : n \in Belongs(ev)}
         /\ Once(Tuples(ev))
<1>1. ev.class \in Class /\ ev.delay \in Nat
  BY DEF Event
<1>2. ASSUME NEW n \in Node, ev.home \in Node \cup Scid
      PROVE  Tuple(ev, n) \in Origination /\ Tuple(ev, n).origin = n
  BY <1>1, <1>2 DEF Tuple, Origination
<1>3. ASSUME NEW d \in {0, 1}, NEW x \in Scid PROVE Owner[<<x, d>>] \in Node
  BY ReplayAssumption
<1>4. CASE ev.class = "NodeAnn"
  <2>1. ev.home \in Node
    BY <1>4 DEF Entity
  <2>2. Tuples(ev) = <<Tuple(ev, ev.home)>>
    BY <1>4, <2>1, Zenon DEF Tuples
  <2>3. Belongs(ev) = {ev.home}
    BY <1>4 DEF Belongs
  <2>4. {Tuple(ev, n) : n \in Belongs(ev)} = {Tuple(ev, ev.home)}
    BY <2>3, Zenon
  <2> QED
    BY <1>2, <2>1, <2>2, <2>4, Singleton
<1>5. CASE ev.class = "ChanAnn"
  <2> DEFINE a == Owner[<<ev.home, 0>>]
             b == Owner[<<ev.home, 1>>]
  <2>1. ev.home \in Scid
    BY <1>5 DEF Entity
  <2>2. ev.class # "NodeAnn"
    BY <1>5
  <2>3. Tuples(ev) = <<Tuple(ev, a), Tuple(ev, b)>>
    BY <1>5, <2>1, <2>2, Zenon DEF Tuples
  <2>4. Belongs(ev) = {a, b}
    BY <1>5, <2>2 DEF Belongs, Side
  <2>5. a \in Node /\ b \in Node /\ a # b
    BY <1>3, <2>1, ReplayAssumption
  <2> HIDE DEF a, b
  <2>6. Tuple(ev, a) \in Origination /\ Tuple(ev, b) \in Origination /\ Tuple(ev, a) # Tuple(ev, b)
    BY <1>2, <2>1, <2>5
  <2>7. {Tuple(ev, n) : n \in Belongs(ev)} = {Tuple(ev, a), Tuple(ev, b)}
    BY <2>4, Zenon
  <2> QED
    BY <2>3, <2>6, <2>7, Couple
<1>6. CASE ev.class # "NodeAnn" /\ ev.class # "ChanAnn"
  <2> DEFINE a == Owner[<<ev.home, IF ev.class = "ChanUpd0" THEN 0 ELSE 1>>]
  <2>1. ev.home \in Scid
    BY <1>6 DEF Entity
  <2>2. Tuples(ev) = <<Tuple(ev, a)>>
    BY <1>6, <2>1, Zenon DEF Tuples
  <2>3. Belongs(ev) = {a}
    <3>1. CASE ev.class = "ChanUpd0"
      BY <3>1 DEF Belongs, Side
    <3>2. CASE ev.class = "ChanUpd1"
      BY <3>2 DEF Belongs, Side
    <3> QED
      BY <1>1, <1>6, <3>1, <3>2 DEF Class
  <2>4. a \in Node
    BY <1>3, <2>1
  <2> HIDE DEF a
  <2>5. {Tuple(ev, n) : n \in Belongs(ev)} = {Tuple(ev, a)}
    BY <2>3, Zenon
  <2> QED
    BY <1>2, <2>1, <2>2, <2>4, <2>5, Singleton
<1> QED
  BY <1>4, <1>5, <1>6

\* What is handed out stays so, and twice only if it was handed out before.
LEMMA OutGrows ==
  ASSUME NEW S, NEW s \in Seq(S), NEW u \in Seq(S)
  PROVE  /\ s \o u \in Seq(S)
         /\ Elements(s \o u) = Elements(s) \cup Elements(u)
         /\ Once(s) /\ Once(u) /\ Elements(s) \cap Elements(u) = {} => Once(s \o u)
<1> DEFINE m == Len(s)
           n == Len(u)
           w == s \o u
<1>1. /\ Len(w) = m + n /\ m \in Nat /\ n \in Nat
      /\ \A i \in 1 .. m : w[i] = s[i]
      /\ \A i \in 1 .. n : w[m + i] = u[i]
      /\ w \in Seq(S)
  OBVIOUS
<1> HIDE DEF m, n, w
<1>2. \A i \in 1 .. m + n : i \in 1 .. m \/ (i - m \in 1 .. n /\ i = m + (i - m))
  BY <1>1
<1>3. \A i \in 1 .. m : i \in 1 .. m + n
  BY <1>1
<1>4. \A i \in 1 .. n : m + i \in 1 .. m + n
  BY <1>1
<1>5. \A i \in 1 .. m + n :
        \/ i \in 1 .. m /\ w[i] = s[i]
        \/ i - m \in 1 .. n /\ w[i] = u[i - m]
  BY <1>1, <1>2
<1>6. Elements(w) \subseteq Elements(s) \cup Elements(u)
  BY <1>1, <1>5 DEF Elements, m, n
<1>7. Elements(s) \cup Elements(u) \subseteq Elements(w)
  BY <1>1, <1>3, <1>4 DEF Elements, m, n
<1>8. ASSUME Once(s), Once(u), Elements(s) \cap Elements(u) = {},
             NEW p \in 1 .. m + n, NEW q \in 1 .. m + n, w[p] = w[q]
      PROVE  p = q
  <2>1. \A i \in 1 .. m : s[i] \in Elements(s)
    BY DEF Elements, m
  <2>2. \A i \in 1 .. n : u[i] \in Elements(u)
    BY DEF Elements, n
  <2>3. CASE p \in 1 .. m /\ w[p] = s[p]
    <3>1. CASE q \in 1 .. m /\ w[q] = s[q]
      BY <1>8, <2>3, <3>1 DEF Once, m
    <3>2. CASE q - m \in 1 .. n /\ w[q] = u[q - m]
      BY <1>8, <2>1, <2>2, <2>3, <3>2
    <3> QED
      BY <1>5, <3>1, <3>2
  <2>4. CASE p - m \in 1 .. n /\ w[p] = u[p - m]
    <3>1. CASE q \in 1 .. m /\ w[q] = s[q]
      BY <1>8, <2>1, <2>2, <2>4, <3>1
    <3>2. CASE q - m \in 1 .. n /\ w[q] = u[q - m]
      <4>1. p - m = q - m
        BY <1>8, <2>4, <3>2 DEF Once, n
      <4> QED
        BY <1>1, <4>1
    <3> QED
      BY <1>5, <3>1, <3>2
  <2> QED
    BY <1>5, <2>3, <2>4
<1> QED
  BY <1>1, <1>6, <1>7, <1>8 DEF Once, w

LEMMA StepAccounted == IInv /\ IInv' /\ Accounted /\ [Next]_vars => Accounted'
<1> SUFFICES ASSUME IInv, IInv', Accounted, [Next]_vars PROVE Accounted'
  OBVIOUS
<1>1. /\ loaded \in Seq(Event) /\ surviving \in Seq(Event) /\ emitted \in 0 .. Len(surviving)
      /\ Len(loaded) \in Nat /\ Len(surviving) \in Nat /\ dropped \in Nat /\ read \in Nat
      /\ emitted \in Nat
  BY DEF IInv, TypeOK
<1>2. surviving' \in Seq(Event)
  BY DEF IInv, TypeOK
<1>3. CASE LoadRow
  <2>1. UNCHANGED <<surviving, dropped, out, emitted>> /\ phase' # "done"
    BY <1>3 DEF LoadRow
  <2>2. read' = Len(loaded') + Len(surviving) + dropped
    <3>1. CASE UNCHANGED <<loaded, rotor, read>>
      BY <3>1 DEF Accounted
    <3>2. CASE \E r : loaded' = Append(loaded, r) /\ read' = read + 1
      BY <1>1, <3>2 DEF Accounted
    <3> QED
      BY <1>3, <3>1, <3>2 DEF LoadRow
  <2> QED
    BY <2>1, <2>2 DEF Accounted, LeavesAll
<1>4. CASE Place
  <2>1. /\ loaded # <<>> /\ loaded' = Tail(loaded) /\ phase' # "done"
        /\ UNCHANGED <<dropped, out, emitted, read>>
        /\ \E n : surviving' = Append(surviving, n)
    BY <1>4 DEF Place
  <2>2. /\ Len(loaded) = Len(loaded') + 1 /\ Len(surviving') = Len(surviving) + 1
        /\ \A i \in 1 .. Len(surviving) : surviving'[i] = surviving[i]
        /\ Len(loaded') \in Nat
    BY <1>1, <2>1
  <2>3. read' = Len(loaded') + Len(surviving') + dropped'
    BY <1>1, <2>1, <2>2 DEF Accounted
  <2>4. \A i \in 1 .. emitted : surviving'[i] = surviving[i]
    BY <1>1, <2>2
  <2> QED
    BY <2>1, <2>3, <2>4 DEF Accounted, LeavesAll
<1>5. CASE Drop
  <2>1. /\ loaded # <<>> /\ loaded' = Tail(loaded) /\ dropped' = dropped + 1 /\ phase' # "done"
        /\ UNCHANGED <<surviving, out, emitted, read>>
    BY <1>5 DEF Drop
  <2>2. Len(loaded) = Len(loaded') + 1 /\ Len(loaded') \in Nat
    BY <1>1, <2>1
  <2> QED
    BY <1>1, <2>1, <2>2 DEF Accounted, LeavesAll
<1>6. CASE EmitTuples
  <2> DEFINE ev == surviving[emitted + 1]
  <2>1. /\ emitted < Len(surviving) /\ emitted' = emitted + 1 /\ out' = out \o Tuples(ev)
        /\ phase' # "done" /\ UNCHANGED <<surviving, loaded, dropped, read>>
    BY <1>6 DEF EmitTuples
  <2>2. emitted + 1 \in DOMAIN surviving
    BY <1>1, <2>1
  <2>3. ev \in Event /\ ev.home \in Entity(ev.class)
    BY <1>1, <2>2 DEF IInv, TypeOK
  <2> HIDE DEF ev
  <2>4. /\ Tuples(ev) \in Seq(Origination) /\ Once(Tuples(ev))
        /\ Elements(Tuples(ev)) = {Tuple(ev, n) : n \in Belongs(ev)}
    BY <2>3, TuplesFacts
  <2>5. \A t \in Elements(Tuples(ev)) : IsOf(t, ev)
    BY <2>4 DEF IsOf, Tuple
  <2>6. ASSUME NEW t \in Elements(out), t \in Elements(Tuples(ev)) PROVE FALSE
    <3>1. PICK i \in 1 .. emitted : IsOf(t, surviving[i])
      BY DEF Accounted
    <3>2. /\ surviving[i].class = ev.class /\ surviving[i].home = ev.home
          /\ surviving[i].delay = ev.delay
      BY <2>5, <2>6, <3>1 DEF IsOf, Tuple
    <3>3. i \in DOMAIN surviving /\ i # emitted + 1
      BY <1>1, <3>1
    <3> QED
      BY <2>2, <3>2, <3>3 DEF IInv, RateLimit, ev
  <2>7. /\ out' \in Seq(Origination) /\ Once(out')
        /\ Elements(out') = Elements(out) \cup Elements(Tuples(ev))
    BY <2>1, <2>4, <2>6, OutGrows DEF Accounted
  <2>8. ASSUME NEW i \in 1 .. emitted' PROVE LeavesAll(surviving[i])'
    <3>1. CASE i = emitted + 1
      BY <2>1, <2>4, <2>7, <3>1 DEF ev, LeavesAll
    <3>2. CASE i # emitted + 1
      <4>1. i \in 1 .. emitted
        BY <1>1, <2>1, <3>2
      <4> QED
        BY <2>1, <2>7, <4>1 DEF Accounted, LeavesAll
    <3> QED
      BY <3>1, <3>2
  <2>9. ASSUME NEW t \in Elements(out') PROVE \E i \in 1 .. emitted' : IsOf(t, surviving'[i])
    <3>1. CASE t \in Elements(out)
      <4>1. PICK i \in 1 .. emitted : IsOf(t, surviving[i])
        BY <3>1 DEF Accounted
      <4>2. i \in 1 .. emitted'
        BY <1>1, <2>1
      <4> QED
        BY <2>1, <4>1, <4>2
    <3>2. CASE t \in Elements(Tuples(ev))
      <4>1. emitted + 1 \in 1 .. emitted'
        BY <1>1, <2>1
      <4> QED
        BY <2>1, <2>5, <3>2, <4>1 DEF ev
    <3> QED
      BY <2>7, <3>1, <3>2
  <2> QED
    BY <2>1, <2>7, <2>8, <2>9 DEF Accounted
<1>7. CASE EndOfEmit
  BY <1>7 DEF EndOfEmit, Accounted, LeavesAll
<1>8. CASE EndOfTrace \/ FindFull \/ EndOfReshape \/ UNCHANGED vars
  BY <1>8 DEF EndOfTrace, FindFull, EndOfReshape, vars, Accounted, LeavesAll
<1> QED
  BY <1>3, <1>4, <1>5, <1>6, <1>7, <1>8 DEF Next, Progress, Done

----------------------------------------------------------------------------
(* The strengthened invariant: the tables are exact and record every event *)
(* that was placed.                                                        *)
THEOREM Inductive == Spec => []IInv
<1>1. Init => IInv
  BY InitIInv
<1>2. IInv /\ [Next]_vars => IInv'
  BY StepIInv
<1> QED
  BY <1>1, <1>2, PTL DEF Spec

(* The tables of Capacity and the lists of events keep their types, and    *)
(* every placed event names an entity of its class.                        *)
THEOREM TypeCorrect == Spec => []TypeOK
<1>1. IInv => TypeOK
  BY DEF IInv
<1> QED
  BY <1>1, Inductive, PTL

(* The rate limit: no window of an entity holds two events of a class.     *)
THEOREM RateLimited == Spec => []RateLimit
<1>1. IInv => RateLimit
  BY DEF IInv
<1> QED
  BY <1>1, Inductive, PTL

(* has_free lists exactly the entities with room, has_free_pos their       *)
(* places: swap_remove never takes another entity out.                     *)
THEOREM FreeListExact == Spec => []HasFreeExact
<1>1. IInv => HasFreeExact
  BY DEF IInv
<1> QED
  BY <1>1, Inductive, PTL

(* No jittered time reaches the deadline.                                  *)
THEOREM AllWithinRun == Spec => []WithinRun
<1>1. IInv => WithinRun
  BY DEF IInv
<1> QED
  BY <1>1, Inductive, PTL

(* No event is lost: what was read is waiting, placed or counted as        *)
(* dropped, and in the end every placed one has left the nodes it belongs  *)
(* to, all of them and each once.  The last needs the rate limit: two      *)
(* placed events never make the same origination.                          *)
THEOREM EventsAreKept == Spec => []NothingLost
<1>1. Init => Accounted
  BY DEF Init, Accounted, Elements, Once
<1>2. IInv /\ IInv' /\ Accounted /\ [Next]_vars => Accounted'
  BY StepAccounted
<1>3. IInv /\ Accounted => NothingLost
  <2> SUFFICES ASSUME IInv, Accounted PROVE NothingLost
    OBVIOUS
  <2>1. DOMAIN surviving = 1 .. Len(surviving)
    BY DEF IInv, TypeOK
  <2>2. DOMAIN out = 1 .. Len(out)
    BY DEF Accounted
  <2>3. \A p \in DOMAIN out : out[p] \in Elements(out)
    BY <2>2 DEF Elements
  <2> QED
    BY <2>1, <2>2, <2>3 DEF Accounted, NothingLost, Once
<1> QED
  BY <1>1, <1>2, <1>3, Inductive, PTL DEF Spec

(* An event is dropped only if no entity of its class has room.            *)
THEOREM DropsAreNeeded == Spec => NoNeedlessDrop
<1>1. ASSUME IInv, [Next]_vars, dropped' # dropped
      PROVE  \A e \in Entity(Head(loaded).class) : IsFull(Head(loaded).class, e)
  <2>1. Drop
    <3>1. CASE LoadRow
      BY <1>1, <3>1 DEF LoadRow
    <3>2. CASE Place
      BY <1>1, <3>2 DEF Place
    <3>3. CASE \/ EndOfTrace \/ FindFull \/ EndOfReshape \/ EmitTuples \/ EndOfEmit
               \/ UNCHANGED vars
      BY <1>1, <3>3 DEF EndOfTrace, FindFull, EndOfReshape, EmitTuples, EndOfEmit, vars
    <3> QED
      BY <1>1, <3>1, <3>2, <3>3 DEF Next, Progress, Done
  <2>2. loaded # <<>> /\ Candidates(Head(loaded)) = {}
    BY <2>1 DEF Drop
  <2>3. Elements(hasFree[Head(loaded).class]) = {}
    BY <2>2 DEF Candidates
  <2>4. Head(loaded).class \in Class
    BY <1>1, <2>2, HeadFacts
  <2> QED
    BY <1>1, <2>3, <2>4 DEF IInv, HasFreeExact
<1>2. IInv /\ [Next]_vars =>
        [dropped' # dropped =>
           \A e \in Entity(Head(loaded).class) : IsFull(Head(loaded).class, e)]_vars
  BY <1>1
<1> QED
  BY <1>2, Inductive, PTL DEF Spec, NoNeedlessDrop

=============================================================================
