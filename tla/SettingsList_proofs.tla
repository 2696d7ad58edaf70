------------------------- MODULE SettingsList_proofs -------------------------
(***************************************************************************)
(* Proofs of the properties of SettingsList, and that it implements        *)
(* SettingsRegistry.                                                       *)
(***************************************************************************)
EXTENDS SettingsListInv, FiniteSetTheorems, SequenceTheorems, TLAPS

-----------------------------------------------------------------------------
(* Induction over a set of naturals                                          *)

\* Every nonempty set of naturals has a least element.
LEMMA Least ==
    ASSUME NEW S \in SUBSET Nat, S # {}
    PROVE  \E m \in S : \A k \in S : m <= k
<1> DEFINE T == {1..n : n \in S}
           R == StrictSubsetOrdering(Nat)
<1>1. T \subseteq FiniteSubsetsOf(Nat) /\ T # {}
  <2>1. \A n \in S : IsFiniteSet(1..n)
    BY FS_Interval
  <2>2. \A n \in S : 1..n \in SUBSET Nat
    OBVIOUS
  <2> QED
    BY <2>1, <2>2 DEF FiniteSubsetsOf
<1>2. IsWellFoundedOn(R, FiniteSubsetsOf(Nat))
  BY FS_StrictSubsetOrderingWellFounded
<1>3. \E x \in T : \A y \in T : <<y, x>> \notin R
  <2> HIDE DEF T, R
  <2> QED
    BY <1>1, <1>2, WFMin
<1>4. PICK m \in S : \A k \in S : <<1..k, 1..m>> \notin R
  BY <1>3
<1>5. ASSUME NEW k \in S, k < m PROVE FALSE
  <2>1. 1..k \subseteq 1..m /\ 1..k # 1..m
    <3>1. m \in 1..m /\ m \notin 1..k
      BY <1>5
    <3> QED
      BY <1>5, <3>1
  <2>2. <<1..k, 1..m>> \in (SUBSET Nat) \X (SUBSET Nat)
    OBVIOUS
  <2> QED
    BY <1>4, <2>1, <2>2 DEF StrictSubsetOrdering
<1> QED
  BY <1>4, <1>5

\* What holds of 0 and goes on holds of all naturals up to n.
LEMMA Induct ==
    ASSUME NEW n \in Nat, NEW S, 0 \in S,
           \A k \in 0..(n - 1) : k \in S => k + 1 \in S
    PROVE  0..n \subseteq S
<1> DEFINE F == 0..n \ S
<1> SUFFICES ASSUME F # {} PROVE FALSE
  OBVIOUS
<1>1. F \in SUBSET Nat
  OBVIOUS
<1>2. PICK m \in F : \A k \in F : m <= k
  <2> HIDE DEF F
  <2> QED
    BY <1>1, Least
<1>3. m \in 1..n /\ m - 1 \in 0..(n - 1) /\ m - 1 \in Nat
  BY <1>2
<1>4. m - 1 \in S
  BY <1>2, <1>3
<1> QED
  BY <1>2, <1>3, <1>4

\* f is defined on 0..n by its value c at 0 and the step g.
Recurs(f, n, D, c, g) ==
    /\ f \in [0..n -> D]
    /\ f[0] = c
    /\ \A k \in 1..n : f[k] = g[<<k, f[k - 1]>>]

\* A function may be defined by recursion on 0..n.
LEMMA Recursion ==
    ASSUME NEW n \in Nat, NEW D, NEW c \in D, NEW g \in [(0..n) \X D -> D]
    PROVE  \E f : Recurs(f, n, D, c, g)
<1> DEFINE Has(m) == \E f : Recurs(f, m, D, c, g)
           S == {m \in 0..n : Has(m)}
<1>1. Has(0)
  <2>1. Recurs([k \in 0..0 |-> c], 0, D, c, g)
    BY DEF Recurs
  <2> QED
    BY <2>1
<1>2. ASSUME NEW m \in 0..(n - 1), Has(m) PROVE Has(m + 1)
  <2>1. PICK f : Recurs(f, m, D, c, g)
    BY <1>2
  <2> DEFINE h == [k \in 0..(m + 1) |-> IF k = m + 1 THEN g[<<m + 1, f[m]>>] ELSE f[k]]
  <2>2. h \in [0..(m + 1) -> D] /\ \A k \in 0..m : h[k] = f[k]
    BY <2>1 DEF Recurs
  <2>3. h[m + 1] = g[<<m + 1, h[m]>>]
    <3>1. m \in 0..m /\ m \in Nat /\ m + 1 \in 0..(m + 1)
      OBVIOUS
    <3>2. h[m] = f[m]
      BY <2>2, <3>1
    <3> QED
      BY <3>1, <3>2
  <2>4. Recurs(h, m + 1, D, c, g)
    <3> HIDE DEF h
    <3>1. ASSUME NEW k \in 1..(m + 1) PROVE h[k] = g[<<k, h[k - 1]>>]
      <4>1. CASE k = m + 1
        BY <2>3, <4>1
      <4>2. CASE k # m + 1
        <5>1. k \in 1..m /\ k \in 0..m /\ k - 1 \in 0..m
          BY <4>2
        <5> QED
          BY <2>1, <2>2, <5>1 DEF Recurs
      <4> QED
        BY <4>1, <4>2
    <3> QED
      BY <2>1, <2>2, <3>1 DEF Recurs
  <2> HIDE DEF h
  <2> QED
    BY <2>4
<1> HIDE DEF Has
<1>3. 0..n \subseteq S
  <2>1. 0 \in S
    BY <1>1
  <2>2. \A m \in 0..(n - 1) : m \in S => m + 1 \in S
    BY <1>2
  <2> HIDE DEF S
  <2> QED
    BY <2>1, <2>2, Induct
<1>4. Has(n)
  BY <1>3
<1> QED
  BY <1>4 DEF Has

-----------------------------------------------------------------------------
(* The list the pointers lead through                                        *)

Address == Node \cup {NULL}
Pointers == head \in Address /\ next \in [Node -> Address]
Hop(n) == IF n = NULL THEN NULL ELSE next[n]

\* Position satisfies its defining equation.
LEMMA PositionIs ==
    Pointers => /\ DOMAIN Position = 1..(Cardinality(Node) + 1)
                /\ \A k \in 1..(Cardinality(Node) + 1) :
                     Position[k] = IF k = 1 THEN head ELSE Hop(Position[k - 1])
<1> DEFINE n == Cardinality(Node)
           Body(f) == [k \in 1..(n + 1) |->
               IF k = 1 THEN head
               ELSE LET m == f[k - 1] IN IF m = NULL THEN NULL ELSE next[m]]
<1> SUFFICES ASSUME Pointers PROVE Position = Body(Position)
  BY DEF Hop
<1>1. n \in Nat
  BY FS_CardinalityType, HeapAssumption
<1> DEFINE g == [x \in (0..n) \X Address |-> Hop(x[2])]
<1>2. g \in [(0..n) \X Address -> Address]
  BY DEF Pointers, Address, Hop
<1>3. PICK f : Recurs(f, n, Address, head, g)
  <2> HIDE DEF g, n
  <2>1. head \in Address
    BY DEF Pointers
  <2> QED
    BY <1>1, <1>2, <2>1, Recursion
<1> DEFINE h == [k \in 1..(n + 1) |-> f[k - 1]]
<1> HIDE DEF n
<1>4. h = Body(h)
  <2>1. ASSUME NEW k \in 1..(n + 1) PROVE h[k] = Body(h)[k]
    <3>1. k - 1 \in 0..n /\ h[k] = f[k - 1]
      BY <1>1, <2>1
    <3>2. CASE k = 1
      BY <1>1, <1>3, <2>1, <3>1, <3>2 DEF Recurs
    <3>3. CASE k # 1
      <4>1. k - 1 \in 1..n /\ k - 1 \in 1..(n + 1) /\ k - 2 \in 0..n /\ k - 1 # 0 /\ (k - 1) - 1 = k - 2
        BY <1>1, <2>1, <3>3
      <4>2. f[k - 1] = g[<<k - 1, f[k - 2]>>]
        BY <1>3, <3>1, <4>1 DEF Recurs
      <4>3. f[k - 2] \in Address /\ h[k - 1] = f[k - 2]
        BY <1>3, <4>1 DEF Recurs
      <4>4. g[<<k - 1, f[k - 2]>>] = Hop(f[k - 2])
        BY <3>1, <4>3
      <4> QED
        BY <2>1, <3>1, <3>3, <4>2, <4>3, <4>4 DEF Hop
    <3> QED
      BY <3>2, <3>3
  <2> QED
    BY <2>1, Zenon
<1> HIDE DEF h
<1>5. Position = CHOOSE f1 : f1 = Body(f1)
  BY Zenon DEF Position, n
<1> QED
  <2> HIDE DEF Body
  <2> QED
    BY <1>4, <1>5, Zenon

\* A sequence without repetition is no longer than there are nodes.
LEMMA Short ==
    ASSUME NEW q \in Seq(Node), \A j, k \in DOMAIN q : q[j] = q[k] => j = k
    PROVE  Len(q) <= Cardinality(Node)
<1>1. Len(q) \in Nat /\ DOMAIN q = 1..Len(q) /\ q \in [1..Len(q) -> Node]
  OBVIOUS
<1>2. q \in Injection(1..Len(q), Node)
  BY <1>1 DEF Injection, IsInjective
<1>3. IsFiniteSet(Node)
  BY HeapAssumption
<1>4. Cardinality(1..Len(q)) <= Cardinality(Node)
  BY <1>2, <1>3, FS_Injection
<1>5. Cardinality(1..Len(q)) = Len(q)
  <2>1. 1 \in Int /\ Len(q) \in Int
    BY <1>1
  <2>2. Cardinality(1..Len(q)) = IF 1 > Len(q) THEN 0 ELSE Len(q) - 1 + 1
    BY <2>1, FS_Interval
  <2> QED
    BY <1>1, <2>2
<1> QED
  BY <1>4, <1>5

\* There is one list that the pointers lead through.
LEMMA OrderIs == Pointers => \A q \in Seq(Node) : Chain(q) => Order = q
<1> SUFFICES ASSUME Pointers, NEW q \in Seq(Node), Chain(q) PROVE Order = q
  OBVIOUS
<1> DEFINE M == Cardinality(Node) + 1
           L == Len(q)
           At(k) == IF k <= L THEN q[k] ELSE NULL
           S == {k \in 0..(M - 1) : Position[k + 1] = At(k + 1)}
<1>1. M \in Nat /\ M > 0 /\ L \in Nat /\ L < M
  BY Short, FS_CardinalityType, HeapAssumption DEF Chain
<1>2. DOMAIN q = 1..L /\ \A k \in 1..L : q[k] \in Node /\ q[k] # NULL
  BY HeapAssumption
<1>3. /\ DOMAIN Position = 1..M
      /\ \A k \in 1..M : Position[k] = IF k = 1 THEN head ELSE Hop(Position[k - 1])
  BY PositionIs
<1> HIDE DEF M, L
<1>4. \A k \in 1..L : next[q[k]] = IF k = L THEN NULL ELSE q[k + 1]
  BY <1>2 DEF Chain, L
<1>5. head = At(1)
  BY <1>1, <1>2 DEF Chain, L
<1>6. 0 \in S
  BY <1>1, <1>3, <1>5
<1>7. ASSUME NEW k \in 0..((M - 1) - 1), k \in S PROVE k + 1 \in S
  <2> DEFINE i == k + 1
  <2>1. i \in 1..M /\ i \in Nat /\ i >= 1 /\ i + 1 \in 1..M /\ i + 1 # 1 /\ i \in 0..(M - 1)
        /\ (i + 1) - 1 = i
    BY <1>1, <1>7
  <2>2. Position[i] = At(i)
    BY <1>7
  <2> HIDE DEF i
  <2>3. Position[i + 1] = Hop(At(i))
    BY <1>3, <2>1, <2>2
  <2>4. Hop(At(i)) = At(i + 1)
    <3>1. CASE i <= L
      BY <1>1, <1>2, <1>4, <2>1, <3>1 DEF Hop
    <3>2. CASE ~(i <= L)
      BY <1>1, <2>1, <3>2 DEF Hop
    <3> QED
      BY <3>1, <3>2
  <2>5. i \in S
    BY <2>1, <2>3, <2>4
  <2> QED
    BY <2>5 DEF i
<1>8. 0..(M - 1) \subseteq S
  <2>1. M - 1 \in Nat
    BY <1>1
  <2> HIDE DEF S
  <2> QED
    BY <1>6, <1>7, <2>1, Induct
<1>9. \A k \in 1..M : Position[k] = At(k)
  <2> SUFFICES ASSUME NEW k \in 1..M PROVE Position[k] = At(k)
    OBVIOUS
  <2>1. k - 1 \in 0..(M - 1) /\ (k - 1) + 1 = k
    BY <1>1
  <2>2. k - 1 \in S
    BY <1>8, <2>1
  <2> QED
    BY <2>1, <2>2
<1>10. {k \in DOMAIN Position : Position[k] # NULL} = 1..L
  <2>1. \A k \in 1..M : Position[k] # NULL <=> k <= L
    BY <1>1, <1>2, <1>9
  <2> QED
    BY <1>1, <1>3, <2>1
<1>11. \A k \in 1..L : Position[k] = q[k]
  BY <1>1, <1>9
<1> QED
  <2>1. Order = [k \in 1..L |-> q[k]]
    BY <1>10, <1>11 DEF Order
  <2> QED
    BY <1>2, <2>1

-----------------------------------------------------------------------------
(* What the list holds of the heap                                           *)

\* total[k] is the sum of the first k of n numbers.
Sums(total, n, number) ==
    /\ total \in [0..n -> Nat] /\ total[0] = 0
    /\ \A k \in 1..n : total[k] = total[k - 1] + number[k]

LEMMA SumsAgree ==
    ASSUME NEW n \in Nat, NEW m \in Nat, n <= m, NEW s, NEW t, NEW u, NEW v,
           Sums(s, n, u), Sums(t, m, v), \A k \in 1..n : u[k] = v[k]
    PROVE  s[n] = t[n]
<1> DEFINE S == {k \in 0..n : s[k] = t[k]}
<1>1. 0 \in S
  BY DEF Sums
<1>2. ASSUME NEW k \in 0..(n - 1), k \in S PROVE k + 1 \in S
  <2>1. k + 1 \in 1..n /\ k + 1 \in 1..m /\ (k + 1) - 1 = k /\ k + 1 \in 0..n
    OBVIOUS
  <2>2. s[k + 1] = s[k] + u[k + 1] /\ t[k + 1] = t[k] + v[k + 1]
    BY <2>1 DEF Sums
  <2>3. s[k + 1] = t[k + 1]
    BY <1>2, <2>1, <2>2
  <2> QED
    BY <2>1, <2>3
<1>3. 0..n \subseteq S
  <2> HIDE DEF S
  <2> QED
    BY <1>1, <1>2, Induct
<1> QED
  BY <1>3

Weights == [k \in DOMAIN Order |-> Units(Order[k])]

\* GivenBack adds up the units of the settings in the list.
LEMMA GivenBackIs ==
    Order \in Seq(Node) /\ (\A k \in DOMAIN Order : Units(Order[k]) \in Nat)
        => Sums(GivenBack, Len(Order), Weights)
<1> DEFINE n == Len(Order)
           Body(f) == [k \in 0..n |-> IF k = 0 THEN 0 ELSE f[k - 1] + Units(Order[k])]
           g == [x \in (0..n) \X Nat |->
                    IF x[1] = 0 THEN 0 ELSE x[2] + Units(Order[x[1]])]
<1> SUFFICES ASSUME Order \in Seq(Node),
                    \A k \in DOMAIN Order : Units(Order[k]) \in Nat
             PROVE  Sums(GivenBack, Len(Order), Weights)
  OBVIOUS
<1>1. n \in Nat /\ DOMAIN Order = 1..n
  OBVIOUS
<1> HIDE DEF n
<1>2. \A k \in 1..n : Units(Order[k]) \in Nat
  BY <1>1
<1>3. g \in [(0..n) \X Nat -> Nat]
  BY <1>1, <1>2
<1>4. PICK f : Recurs(f, n, Nat, 0, g)
  <2> HIDE DEF g
  <2> QED
    BY <1>1, <1>3, Recursion
<1>5. /\ f \in [0..n -> Nat] /\ f[0] = 0
      /\ \A k \in 1..n : f[k] = f[k - 1] + Units(Order[k])
  <2>1. f \in [0..n -> Nat] /\ f[0] = 0 /\ \A k \in 1..n : f[k] = g[<<k, f[k - 1]>>]
    BY <1>4 DEF Recurs
  <2>2. ASSUME NEW k \in 1..n PROVE g[<<k, f[k - 1]>>] = f[k - 1] + Units(Order[k])
    BY <1>1, <2>1
  <2> QED
    BY <2>1, <2>2
<1>6. f = Body(f)
  <2>1. ASSUME NEW k \in 0..n PROVE f[k] = Body(f)[k]
    BY <1>1, <1>5
  <2>2. f = [k \in 0..n |-> f[k]]
    BY <1>5
  <2> QED
    BY <2>1, <2>2, Zenon
<1>7. GivenBack = CHOOSE f1 : f1 = Body(f1)
  BY Zenon DEF GivenBack, n
<1>8. GivenBack = Body(GivenBack)
  <2> HIDE DEF Body
  <2> QED
    BY <1>6, <1>7, Zenon
<1> DEFINE K(k) == GivenBack[k] = f[k]
           S == {k \in 0..n : K(k)}
<1>9. 0 \in S
  BY <1>1, <1>5, <1>8
<1>10. \A k \in 0..(n - 1) : k \in S => k + 1 \in S
  <2> SUFFICES ASSUME NEW k \in 0..(n - 1), K(k) PROVE K(k + 1)
    BY <1>1
  <2>1. k + 1 \in 1..n /\ k + 1 \in 0..n /\ (k + 1) - 1 = k /\ k + 1 # 0
    BY <1>1
  <2>2. GivenBack[k + 1] = GivenBack[k] + Units(Order[k + 1])
    BY <1>8, <2>1
  <2> QED
    BY <1>5, <2>1, <2>2
<1>11. 0..n \subseteq S
  <2> HIDE DEF S
  <2> QED
    BY <1>1, <1>9, <1>10, Induct
<1>12. GivenBack = f
  <2>1. GivenBack = [k \in 0..n |-> GivenBack[k]]
    BY <1>8
  <2>2. \A k \in 0..n : GivenBack[k] = f[k]
    BY <1>11
  <2> QED
    BY <1>5, <2>1, <2>2
<1> QED
  BY <1>1, <1>5, <1>12 DEF Sums, Weights, n

-----------------------------------------------------------------------------
(* The types                                                                 *)

LEMMA Owns ==
    TypeOK => \A n \in Node : us[n] # NULL =>
        us[n] \in Setting /\ us[n].size \in Nat /\ Units(n) \in Nat
<1> SUFFICES ASSUME TypeOK, NEW n \in Node, us[n] # NULL
             PROVE  us[n] \in Setting /\ us[n].size \in Nat /\ Units(n) \in Nat
  OBVIOUS
<1>1. us[n] \in Setting
  BY DEF TypeOK
<1>2. us[n].size \in Nat
  BY <1>1, HeapAssumption DEF Setting
<1>3. \A b \in Blocks : BlockUnits(n, b) \in Nat
  BY <1>2, HeapAssumption DEF BlockUnits
<1> QED
  BY <1>1, <1>2, <1>3 DEF Units, Blocks

LEMMA ListedNodes ==
    Linked /\ Owned =>
        /\ Order \in Seq(Node) /\ Len(Order) \in Nat /\ DOMAIN Order = 1..Len(Order)
        /\ Listed \subseteq Node
        /\ \A n \in Listed : us[n] # NULL
        /\ \A k \in 1..Len(Order) : Order[k] \in Node /\ Order[k] \in Listed
BY DEF Linked, Owned, Listed

LEMMA TotalIs ==
    TypeOK /\ Linked /\ Owned =>
        /\ Sums(GivenBack, Len(Order), Weights)
        /\ GivenBack[Len(Order)] \in Nat
<1> SUFFICES ASSUME TypeOK, Linked, Owned
             PROVE  /\ Sums(GivenBack, Len(Order), Weights)
                    /\ GivenBack[Len(Order)] \in Nat
  OBVIOUS
<1>1. Order \in Seq(Node) /\ Len(Order) \in Nat
  BY DEF Linked
<1>2. \A k \in DOMAIN Order : Units(Order[k]) \in Nat
  BY ListedNodes, Owns
<1>3. Sums(GivenBack, Len(Order), Weights)
  BY <1>1, <1>2, GivenBackIs
<1> QED
  BY <1>1, <1>3 DEF Sums

LEMMA TypeInit == Init => TypeOK
BY HeapAssumption DEF Init, TypeOK, Call, Steps, Context

LEMMA TypeStep ==
    ASSUME TypeOK, ListInv, [Next]_vars
    PROVE  TypeOK'
<1>1. /\ head \in Address /\ tail \in Address /\ next \in [Node -> Address]
      /\ us \in [Node -> Setting \cup {NULL}]
      /\ changed \subseteq Node /\ left \in 0..HeapSize /\ add \in Call
      /\ ctx \in [Iter -> Context]
      /\ seen \in [Iter -> Seq(Node)] /\ due \in [Iter -> SUBSET Node]
  BY DEF TypeOK, Address
<1>2. Listed \subseteq Node
  BY ListedNodes DEF ListInv
<1>3. add.step # "idle" =>
          add.node \in Node /\ add.id \in Id /\ add.key \in Key /\ add.size \in Size
  BY DEF ListInv, Adding
<1>4. /\ StructSize \in Nat /\ HeapSize \in Nat
      /\ \A m \in Size : m \in Nat
  BY HeapAssumption
<1> DEFINE TypeOK2 ==
      /\ head \in Address /\ tail \in Address /\ next \in [Node -> Address]
      /\ us \in [Node -> Setting \cup {NULL}]
      /\ changed \subseteq Node /\ left \in 0..HeapSize /\ add \in Call
      /\ ctx \in [Iter -> Context]
      /\ seen \in [Iter -> Seq(Node)] /\ due \in [Iter -> SUBSET Node]
<1> SUFFICES TypeOK2'
  BY DEF TypeOK, Address
<1>5. CASE \E id \in Id, key \in Key, size \in Size : Add(id, key, size)
  BY <1>1, <1>5 DEF Add, list, Call, Steps
<1>6. CASE AddStruct
  <2>1. add.node \in Node /\ [id |-> add.id, key |-> add.key, size |-> add.size,
                              blocks |-> {"struct"}] \in Setting
    BY <1>3, <1>6 DEF AddStruct, Setting, Blocks
  <2>2. us' \in [Node -> Setting \cup {NULL}] /\ next' \in [Node -> Address]
    BY <1>1, <1>6, <2>1 DEF AddStruct, Address
  <2>3. left' \in 0..HeapSize
    BY <1>1, <1>4, <1>6 DEF AddStruct, Available
  <2>4. add' \in Call
    BY <1>1, <1>6 DEF AddStruct, Call, Steps
  <2> QED
    BY <1>1, <1>6, <2>2, <2>3, <2>4 DEF AddStruct
<1>7. CASE \E b \in {"data", "default"} : AddBlock(b)
  <2>1. PICK b \in {"data", "default"} : AddBlock(b)
    BY <1>7
  <2>2. add.node \in Node /\ us[add.node] \in Setting
    <3>1. add.node \in Node /\ us[add.node] # NULL
      BY <1>3, <2>1 DEF AddBlock, ListInv, Owned, Allocated
    <3> QED
      BY <1>1, <3>1
  <2>3. us' \in [Node -> Setting \cup {NULL}]
    BY <1>1, <2>1, <2>2 DEF AddBlock, Setting, Blocks
  <2>4. left' \in 0..HeapSize
    <3>1. add.size \in Nat
      BY <1>3, <1>4, <2>1 DEF AddBlock
    <3> QED
      BY <1>1, <1>4, <2>1, <3>1 DEF AddBlock, Available
  <2>5. add' \in Call
    BY <1>1, <2>1 DEF AddBlock, AfterBlock, FirstStep, Call, Steps
  <2> QED
    BY <1>1, <2>1, <2>3, <2>4, <2>5 DEF AddBlock, list
<1>8. CASE LinkFirst \/ SetHead \/ LinkNext \/ SetTail
  <2>1. add.node \in Node /\ add' = [add EXCEPT !.step = add'.step]
        /\ add'.step \in Steps
    BY <1>1, <1>3, <1>8 DEF LinkFirst, SetHead, LinkNext, SetTail, Call, Steps
  <2>2. add' \in Call
    BY <1>1, <2>1 DEF Call
  <2> QED
    BY <1>1, <1>8, <2>1, <2>2 DEF LinkFirst, SetHead, LinkNext, SetTail, Address
<1>9. CASE \E n \in Node, on \in BOOLEAN : Flag(n, on)
  BY <1>1, <1>9 DEF Flag, list
<1>10. CASE \E i \in Iter, use \in {"all", "changed"} : IterStart(i, use)
  <2>1. PICK i \in Iter, use \in {"all", "changed"} : IterStart(i, use)
    BY <1>10
  <2>2. ctx' \in [Iter -> Context]
    BY <1>1, <2>1 DEF IterStart, Context
  <2> QED
    BY <1>1, <1>2, <2>1, <2>2 DEF IterStart, list
<1>11. CASE \E i \in Iter : IterNext(i)
  <2>1. PICK i \in Iter : IterNext(i)
    BY <1>11
  <2>2. Following(ctx[i]) \in Address
    BY <1>1 DEF Following, Context, Address
  <2>3. ctx' \in [Iter -> Context]
    <3> DEFINE n == Following(ctx[i])
               c == [ctx[i] EXCEPT !.start = FALSE, !.at = n]
    <3>1. ctx' = [ctx EXCEPT ![i] = c]
      BY <1>1, <2>1 DEF IterNext
    <3>2. c \in Context
      <4>1. n \in Address /\ ctx[i] \in Context
        BY <1>1, <2>2
      <4> HIDE DEF n
      <4> QED
        BY <4>1 DEF Context, Address
    <3> HIDE DEF c
    <3> QED
      BY <1>1, <3>1, <3>2
  <2>4. seen' \in [Iter -> Seq(Node)]
    BY <1>1, <2>1, <2>2 DEF IterNext, Address
  <2> QED
    BY <1>1, <2>1, <2>3, <2>4 DEF IterNext, list
<1>12. CASE Free
  <2>1. left' = HeapSize
    <3>1. left + GivenBack[Len(Order)] = HeapSize
      <4>1. Pending = 0
        BY <1>12 DEF Free, Pending
      <4> QED
        BY <1>1, <4>1, TotalIs DEF ListInv, Balance
    <3> QED
      BY <1>12, <3>1 DEF Free
  <2> QED
    BY <1>1, <1>4, <1>12, <2>1 DEF Free, Context, Address
<1>13. CASE UNCHANGED vars
  BY <1>1, <1>13 DEF vars
<1> QED
  BY <1>5, <1>6, <1>7, <1>8, <1>9, <1>10, <1>11, <1>12, <1>13 DEF Next

-----------------------------------------------------------------------------
(* The list at each step                                                     *)

LEMMA TypedPointers == TypeOK => Pointers
BY DEF TypeOK, Pointers, Address

LEMMA PointersNext ==
    ASSUME TypeOK'
    PROVE  \A q \in Seq(Node) : Chain(q)' => Order' = q
<1>1. (TypeOK => Pointers)'
  BY TypedPointers, PTL
<1>2. (Pointers => \A q \in Seq(Node) : Chain(q) => Order = q)'
  BY OrderIs, PTL
<1> QED
  BY <1>1, <1>2

LEMMA OrderStays ==
    ASSUME TypeOK', Linked, Owned, head' = head, \A n \in Listed : next'[n] = next[n]
    PROVE  Order' = Order /\ Listed' = Listed /\ Chain(Order)'
<1>1. PICK q : q = Order
  OBVIOUS
<1>2. q \in Seq(Node) /\ Chain(q) /\ \A k \in DOMAIN q : q[k] \in Listed
  BY <1>1 DEF Linked, Listed
<1>3. Chain(q)'
  BY <1>2 DEF Chain
<1>4. Order' = q
  BY <1>2, <1>3, PointersNext
<1> QED
  BY <1>1, <1>3, <1>4 DEF Listed

\* The one write that links the new setting behind the last.
LEMMA OrderGrows ==
    ASSUME TypeOK, TypeOK', ListInv, LinkNext \/ SetHead
    PROVE  Order' = Append(Order, add.node) /\ Chain(Order)'
<1>1. PICK p : p = Order
  OBVIOUS
<1>2. PICK n : n = add.node
  OBVIOUS
<1>3. /\ p \in Seq(Node) /\ Chain(p) /\ \A k \in DOMAIN p : p[k] # n
      /\ n \in Node /\ next[n] = NULL
  BY <1>1, <1>2 DEF ListInv, Linked, Adding, Listed, LinkNext, SetHead, Allocated
<1> DEFINE L == Len(p)
<1>4. PICK q : q = Append(p, n)
  OBVIOUS
<1>5. /\ L \in Nat /\ DOMAIN p = 1..L /\ q \in Seq(Node) /\ Len(q) = L + 1
      /\ DOMAIN q = 1..(L + 1) /\ q[L + 1] = n /\ \A k \in 1..L : q[k] = p[k]
  BY <1>3, <1>4
<1>6. \A j, k \in DOMAIN q : q[j] = q[k] => j = k
  BY <1>3, <1>5 DEF Chain
<1>7. CASE SetHead
  <2>1. p = <<>> /\ q = <<n>>
    BY <1>1, <1>4, <1>7 DEF ListInv, Linked, SetHead
  <2>2. head' = n /\ next' = next
    BY <1>2, <1>7 DEF SetHead
  <2>3. Chain(q)'
    BY <1>3, <1>6, <2>1, <2>2 DEF Chain
  <2> QED
    BY <1>1, <1>2, <1>4, <1>5, <2>3, PointersNext
<1>8. CASE LinkNext
  <2>1. p # <<>> /\ L > 0 /\ tail = p[L] /\ L \in DOMAIN p /\ p[L] \in Node
    <3>1. p # <<>> /\ tail = End(p)
      BY <1>1, <1>8 DEF ListInv, Linked, LinkNext
    <3> QED
      BY <1>3, <1>5, <3>1 DEF End
  <2>2. head' = head /\ next' = [next EXCEPT ![p[L]] = n] /\ next \in [Node -> Address]
    <3>1. next \in [Node -> Address]
      BY DEF TypeOK, Address
    <3> QED
      BY <1>2, <1>8, <2>1, <3>1 DEF LinkNext, Last
  <2>3. ASSUME NEW k \in 1..(L + 1)
        PROVE  next'[q[k]] = IF k = L + 1 THEN NULL ELSE q[k + 1]
    BY <1>3, <1>5, <2>1, <2>2 DEF Chain
  <2>4. head' = q[1] /\ q # <<>>
    BY <1>3, <1>5, <2>1, <2>2 DEF Chain
  <2>5. Chain(q)'
    BY <1>5, <1>6, <2>3, <2>4 DEF Chain
  <2> QED
    BY <1>1, <1>2, <1>4, <1>5, <2>5, PointersNext
<1> QED
  BY <1>7, <1>8

LEMMA OrderEmpty ==
    ASSUME TypeOK', head' = NULL
    PROVE  Order' = <<>> /\ Listed' = {} /\ Chain(Order)'
<1>1. <<>> \in Seq(Node) /\ Chain(<<>>)'
  BY DEF Chain
<1>2. Order' = <<>>
  BY <1>1, PointersNext
<1> QED
  BY <1>1, <1>2 DEF Listed

Grows == LinkNext \/ SetHead

\* Every other step leaves the list and its settings alone, unless it frees them.
LEMMA Steady ==
    ASSUME TypeOK, TypeOK', ListInv, [Next]_vars, ~Grows, ~Free
    PROVE  /\ Order' = Order /\ Listed' = Listed /\ Chain(Order)'
           /\ \A n \in Listed : us'[n] = us[n]
<1>1. Linked /\ Owned /\ Adding
  BY DEF ListInv
<1>2. Listed \subseteq Node /\ \A n \in Listed : us[n] # NULL
  BY <1>1, ListedNodes
<1>3. next \in [Node -> Address] /\ us \in [Node -> Setting \cup {NULL}]
  BY DEF TypeOK, Address
<1>4. head' = head /\ (\A n \in Listed : next'[n] = next[n] /\ us'[n] = us[n])
  <2>1. CASE AddStruct
    <3>1. add.node \notin Listed
      BY <1>1, <1>2, <2>1 DEF AddStruct, Adding
    <3> QED
      BY <1>2, <1>3, <2>1, <3>1 DEF AddStruct
  <2>2. ASSUME NEW b \in {"data", "default"}, AddBlock(b)
        PROVE  head' = head /\ (\A n \in Listed : next'[n] = next[n] /\ us'[n] = us[n])
    <3>1. add.node \notin Listed
      BY <1>1, <2>2 DEF AddBlock, Adding, Allocated
    <3> QED
      BY <1>2, <1>3, <2>2, <3>1 DEF AddBlock, list
  <2>3. CASE LinkFirst \/ SetTail
    BY <2>3 DEF LinkFirst, SetTail
  <2>4. CASE \E id \in Id, key \in Key, size \in Size : Add(id, key, size)
    BY <2>4 DEF Add, list
  <2>5. CASE \E n \in Node, on \in BOOLEAN : Flag(n, on)
    BY <2>5 DEF Flag, list
  <2>6. CASE \/ \E i \in Iter, use \in {"all", "changed"} : IterStart(i, use)
             \/ \E i \in Iter : IterNext(i)
    BY <2>6 DEF IterStart, IterNext, list
  <2>7. CASE UNCHANGED vars
    BY <2>7 DEF vars
  <2> QED
    BY <2>1, <2>2, <2>3, <2>4, <2>5, <2>6, <2>7 DEF Next, Grows
<1> QED
  BY <1>1, <1>4, OrderStays

LEMMA Grown ==
    ASSUME TypeOK, TypeOK', ListInv, Grows
    PROVE  /\ Order' = Append(Order, add.node) /\ Chain(Order)'
           /\ add.node \in Node /\ add.node \notin Listed
           /\ Listed' = Listed \cup {add.node} /\ us' = us
           /\ Len(Order') = Len(Order) + 1 /\ DOMAIN Order' = 1..(Len(Order) + 1)
           /\ Order'[Len(Order) + 1] = add.node
           /\ \A k \in 1..Len(Order) : Order'[k] = Order[k]
<1>1. Order' = Append(Order, add.node) /\ Chain(Order)'
  BY OrderGrows DEF Grows
<1>2. /\ add.node \in Node /\ add.node \notin Listed /\ us' = us
      /\ Order \in Seq(Node) /\ Len(Order) \in Nat /\ DOMAIN Order = 1..Len(Order)
  BY DEF ListInv, Linked, Adding, Allocated, Grows, LinkNext, SetHead
<1>3. /\ Len(Order') = Len(Order) + 1 /\ DOMAIN Order' = 1..(Len(Order) + 1)
      /\ Order'[Len(Order) + 1] = add.node
      /\ \A k \in 1..Len(Order) : Order'[k] = Order[k]
  BY <1>1, <1>2
<1>4. Listed' = {Order'[k] : k \in 1..(Len(Order) + 1)}
  BY <1>3 DEF Listed
<1>5. Listed = {Order[k] : k \in 1..Len(Order)}
  BY <1>2 DEF Listed
<1> QED
  BY <1>1, <1>2, <1>3, <1>4, <1>5

LEMMA Emptied ==
    ASSUME TypeOK', Free
    PROVE  /\ Order' = <<>> /\ Listed' = {} /\ Chain(Order)'
           /\ \A n \in Node : us'[n] = NULL
BY OrderEmpty DEF Free

LEMMA LinkedStep ==
    ASSUME TypeOK, TypeOK', ListInv, [Next]_vars
    PROVE  Linked'
<1>1. /\ Order \in Seq(Node) /\ Len(Order) \in Nat /\ DOMAIN Order = 1..Len(Order)
      /\ head = IF Order = <<>> THEN NULL ELSE Order[1]
      /\ Linked /\ Adding /\ add \in Call
  BY DEF ListInv, Linked, Chain, TypeOK
<1>2. CASE LinkNext
  <2>1. Order # <<>> /\ tail = Order[Len(Order)] /\ tail' = tail /\ add'.step = "tail"
        /\ add'.node = add.node
    BY <1>1, <1>2 DEF Linked, LinkNext, End, Call
  <2>2. Len(Order) > 0 /\ Len(Order) \in 1..Len(Order)
    BY <1>1, <2>1
  <2>3. Order' \in Seq(Node) /\ Chain(Order)' /\ Order'[Len(Order)] = Order[Len(Order)]
        /\ Len(Order') = Len(Order) + 1 /\ Order'[Len(Order) + 1] = add.node
    BY <1>1, <1>2, <2>2, Grown DEF Grows
  <2>4. Order' # <<>> /\ Len(Order') > 1 /\ Len(Order') - 1 = Len(Order)
    BY <1>1, <2>2, <2>3
  <2> QED
    BY <2>1, <2>3, <2>4 DEF Linked, End
<1>3. CASE SetHead
  <2>1. Order = <<>> /\ tail' = add.node /\ add'.step = "idle"
    BY <1>1, <1>3 DEF Linked, SetHead, Call
  <2>2. Order' \in Seq(Node) /\ Chain(Order)' /\ Len(Order') = 1 /\ Order'[1] = add.node
    <3>1. Len(Order) = 0 /\ Grows
      BY <1>1, <1>3, <2>1 DEF Grows
    <3>2. Order' = Append(Order, add.node) /\ add.node \in Node /\ Chain(Order)'
      BY <3>1, Grown
    <3> QED
      BY <1>1, <3>1, <3>2
  <2> QED
    BY <2>1, <2>2 DEF Linked, End
<1>4. CASE Free
  <2>1. Order' = <<>> /\ Chain(Order)' /\ add'.step = "idle"
    BY <1>4, Emptied DEF Free
  <2>2. Order' \in Seq(Node)
    BY <2>1
  <2> QED
    BY <2>1, <2>2 DEF Linked
<1>5. CASE ~Grows /\ ~Free
  <2>1. Order' = Order /\ Chain(Order)'
    BY <1>5, Steady
  <2>2. CASE LinkFirst
    BY <1>1, <2>1, <2>2 DEF LinkFirst, Linked, Call
  <2>3. CASE SetTail
    BY <1>1, <2>1, <2>3 DEF SetTail, Linked, Call, End
  <2>4. CASE AddStruct
    BY <1>1, <2>1, <2>4 DEF AddStruct, Linked, Call, End
  <2>5. CASE \E b \in {"data", "default"} : AddBlock(b)
    <3>1. PICK b \in {"data", "default"} : AddBlock(b)
      BY <2>5
    <3>2. add'.step = AfterBlock(b) /\ tail' = tail /\ add.step = b
      BY <1>1, <3>1 DEF AddBlock, list, Call
    <3>3. head # NULL <=> Order # <<>>
      BY <1>1, HeapAssumption
    <3> QED
      BY <1>1, <2>1, <3>2, <3>3 DEF AfterBlock, FirstStep, Linked, End
  <2>6. CASE \E id \in Id, key \in Key, size \in Size : Add(id, key, size)
    BY <1>1, <2>1, <2>6 DEF Add, list, Linked, End
  <2>7. CASE /\ UNCHANGED <<tail, add>>
    BY <1>1, <2>1, <2>7 DEF Linked, End
  <2> QED
    BY <1>5, <2>2, <2>3, <2>4, <2>5, <2>6, <2>7
       DEF Next, Grows, Flag, IterStart, IterNext, list, vars
<1> QED
  BY <1>2, <1>3, <1>4, <1>5 DEF Grows

LEMMA AddingStep ==
    ASSUME TypeOK, TypeOK', ListInv, [Next]_vars
    PROVE  Adding'
<1>1. /\ Adding /\ Owned /\ add \in Call /\ next \in [Node -> Address]
      /\ us \in [Node -> Setting \cup {NULL}]
  BY DEF ListInv, TypeOK, Address
<1>2. CASE Grows
  <2>1. add.node \in Node /\ us' = us
    BY <1>2, Grown
  <2>2. CASE SetHead
    BY <1>1, <2>2 DEF SetHead, Adding, Call, Allocated
  <2>3. CASE LinkNext
    <3>1. add.step = "link_next" /\ add'.step = "tail"
          /\ add' = [add EXCEPT !.step = "tail"]
      BY <1>1, <2>3 DEF LinkNext, Call
    <3>2. add'.node = add.node /\ add'.id = add.id /\ add'.key = add.key
          /\ add'.size = add.size
      BY <1>1, <3>1 DEF Call
    <3> QED
      BY <1>1, <2>1, <3>1, <3>2 DEF Adding, Allocated, BlocksAt
  <2> QED
    BY <1>2, <2>2, <2>3 DEF Grows
<1>3. CASE Free
  BY <1>3 DEF Free, Adding, Allocated
<1>4. CASE ~Grows /\ ~Free
  <2>1. Listed' = Listed /\ \A n \in Listed : us'[n] = us[n]
    BY <1>4, Steady
  <2>2. \A id, key : IsNew(id, key) => IsNew(id, key)'
    BY <2>1 DEF IsNew
  <2>3. CASE \E id \in Id, key \in Key, size \in Size : Add(id, key, size)
    <3>1. PICK id \in Id, key \in Key, size \in Size : Add(id, key, size)
      BY <2>3
    <3>2. PICK n \in Node :
              /\ us[n] = NULL
              /\ add' = [step |-> "struct", node |-> n,
                         id |-> id, key |-> key, size |-> size]
      BY <3>1 DEF Add
    <3>3. IsNew(id, key)' /\ us' = us
      BY <2>2, <3>1 DEF Add
    <3>4. add'.step = "struct" /\ add'.node = n /\ add'.id = id /\ add'.key = key
          /\ add'.size = size
      BY <3>2
    <3>5. IsNew(add.id, add.key)'
      BY <3>3, <3>4 DEF IsNew
    <3> QED
      BY <3>2, <3>3, <3>4, <3>5 DEF Adding, Allocated
  <2>4. CASE AddStruct \/ LinkFirst \/ \E b \in {"data", "default"} : AddBlock(b)
    <3>1. /\ add'.node = add.node /\ add'.id = add.id /\ add'.key = add.key
          /\ add'.size = add.size /\ add.step \notin {"idle", "tail"}
      BY <1>1, <2>4 DEF AddStruct, LinkFirst, AddBlock, Call
    <3>2. IsNew(add.id, add.key)'
      BY <1>1, <2>1, <3>1 DEF Adding, IsNew
    <3>3. add.node \in Node /\ add.node \notin Listed'
      BY <1>1, <2>1, <3>1 DEF Adding, Owned, Allocated, ListInv, Call, Steps
    <3>4. CASE AddStruct
      <4>1. add'.step = "data" /\ next'[add.node] = NULL
            /\ us'[add.node] = [id |-> add.id, key |-> add.key, size |-> add.size,
                                blocks |-> {"struct"}]
        BY <1>1, <3>3, <3>4 DEF AddStruct, Call
      <4> QED
        BY <1>1, <3>1, <3>2, <3>3, <4>1 DEF Adding, Allocated, BlocksAt
    <3>5. ASSUME NEW b \in {"data", "default"}, AddBlock(b) PROVE Adding'
      <4>1. add.step = b /\ next' = next
            /\ us[add.node] = [id |-> add.id, key |-> add.key, size |-> add.size,
                               blocks |-> BlocksAt(b)]
            /\ next[add.node] = NULL
        BY <1>1, <3>5 DEF AddBlock, Adding, Allocated, list
      <4>2. us'[add.node] = [id |-> add.id, key |-> add.key, size |-> add.size,
                             blocks |-> BlocksAt(b) \cup {b}]
        <5>1. us'[add.node] = [us[add.node] EXCEPT !.blocks = us[add.node].blocks \cup {b}]
          BY <1>1, <3>3, <3>5 DEF AddBlock
        <5> DEFINE B == BlocksAt(b)
        <5>2. us[add.node] = [id |-> add.id, key |-> add.key, size |-> add.size,
                              blocks |-> B]
          BY <4>1
        <5>3. us'[add.node] = [id |-> add.id, key |-> add.key, size |-> add.size,
                               blocks |-> B \cup {b}]
          <6> HIDE DEF B
          <6> QED
            BY <5>1, <5>2
        <5> QED
          BY <5>3
      <4>3. add'.step = AfterBlock(b)
        BY <1>1, <3>5 DEF AddBlock, Call
      <4>4. add'.step \in Allocated \ {"tail", "data", "head"}
            /\ BlocksAt(b) \cup {b} = BlocksAt(add'.step)
        BY <4>3 DEF AfterBlock, FirstStep, Allocated, BlocksAt, Blocks
      <4> QED
        BY <1>1, <3>1, <3>2, <3>3, <4>1, <4>2, <4>4 DEF Adding, Allocated
    <3>6. CASE LinkFirst
      <4>1. add.step = "link_first" /\ add'.step = "head" /\ us' = us /\ next' = next
        BY <1>1, <3>6 DEF LinkFirst, Call
      <4> QED
        BY <1>1, <3>1, <3>2, <3>3, <4>1 DEF Adding, Allocated, BlocksAt
    <3> QED
      BY <2>4, <3>4, <3>5, <3>6
  <2>5. CASE SetTail
    BY <1>1, <2>5 DEF SetTail, Adding, Call, Allocated
  <2>6. CASE UNCHANGED <<add, us, next>>
    <3>1. add.step \notin {"idle", "tail"} => IsNew(add.id, add.key)'
      BY <1>1, <2>1, <2>6 DEF Adding, IsNew
    <3> QED
      BY <1>1, <2>1, <2>6, <3>1 DEF Adding
  <2> QED
    BY <1>4, <2>3, <2>4, <2>5, <2>6
       DEF Next, Grows, Flag, IterStart, IterNext, list, vars
<1> QED
  BY <1>2, <1>3, <1>4

LEMMA OwnedStep ==
    ASSUME TypeOK, TypeOK', ListInv, [Next]_vars
    PROVE  Owned'
<1>1. /\ Adding /\ Owned /\ add \in Call /\ us \in [Node -> Setting \cup {NULL}]
  BY DEF ListInv, TypeOK
<1>2. CASE Grows
  <2>1. /\ Listed' = Listed \cup {add.node} /\ us' = us /\ add.node \in Node
        /\ add.step \in Allocated /\ add'.node = add.node
        /\ add'.step \in {"idle", "tail"}
    BY <1>1, <1>2, Grown DEF Grows, LinkNext, SetHead, Allocated, Call
  <2> QED
    BY <1>1, <2>1 DEF Owned
<1>3. CASE Free
  BY <1>1, <1>3, Emptied DEF Free, Owned, Allocated
<1>4. CASE ~Grows /\ ~Free
  <2>1. Listed' = Listed
    BY <1>4, Steady
  <2>2. CASE AddStruct \/ \E b \in {"data", "default"} : AddBlock(b)
    <3>1. add'.node = add.node /\ add.node \in Node /\ add'.step \in Allocated
      BY <1>1, <2>2
         DEF AddStruct, AddBlock, Adding, Call, AfterBlock, FirstStep, Allocated
    <3>2. ASSUME NEW n \in Node, n # add.node PROVE us'[n] = us[n]
      BY <1>1, <2>2, <3>2 DEF AddStruct, AddBlock
    <3>3. us'[add.node] # NULL
      <4>1. us' \in [Node -> Setting \cup {NULL}] /\ add'.step \in Allocated /\ Adding'
        BY <3>1, AddingStep DEF TypeOK
      <4>2. us'[add.node] = [id |-> add'.id, key |-> add'.key, size |-> add'.size,
                             blocks |-> BlocksAt(add'.step)]
        BY <3>1, <4>1 DEF Adding
      <4>3. add'.id \in Id /\ add'.key \in Key /\ add'.size \in Size
        BY <4>1 DEF Adding, Allocated
      <4>4. us'[add.node] \in Setting
        BY <4>2, <4>3 DEF Setting, BlocksAt, Blocks
      <4> QED
        BY <4>4, NullAssumption
    <3> QED
      <4>1. ASSUME NEW n \in Node
            PROVE  us'[n] # NULL <=>
                       n \in Listed' \/ (add'.step \in Allocated /\ n = add'.node)
        <5>1. CASE n = add.node
          BY <3>1, <3>3, <5>1
        <5>2. CASE n # add.node
          BY <1>1, <2>1, <3>1, <3>2, <5>2 DEF Owned
        <5> QED
          BY <5>1, <5>2
      <4> QED
        BY <4>1 DEF Owned
  <2>3. CASE LinkFirst
    BY <1>1, <2>1, <2>3 DEF LinkFirst, Owned, Call, Allocated
  <2>6. CASE SetTail
    <3>1. add.node \in Listed
      <4>1. Len(Order) > 1 /\ End(Order) = add.node /\ Order \in Seq(Node)
        BY <2>6 DEF SetTail, ListInv, Linked
      <4>2. Len(Order) \in DOMAIN Order
        BY <4>1
      <4> QED
        BY <4>1, <4>2 DEF Listed, End
    <3> QED
      BY <1>1, <2>1, <2>6, <3>1 DEF SetTail, Owned, Call, Allocated
  <2>4. CASE \E id \in Id, key \in Key, size \in Size : Add(id, key, size)
    BY <1>1, <2>1, <2>4 DEF Add, Owned, Allocated
  <2>5. CASE UNCHANGED <<add, us>>
    BY <1>1, <2>1, <2>5 DEF Owned
  <2> QED
    BY <1>4, <2>2, <2>3, <2>4, <2>5, <2>6
       DEF Next, Grows, Flag, IterStart, IterNext, list, vars
<1> QED
  BY <1>2, <1>3, <1>4

LEMMA WholeStep ==
    ASSUME TypeOK, TypeOK', ListInv, [Next]_vars
    PROVE  ListedAreWhole'
<1>1. ListedAreWhole /\ Adding
  BY DEF ListInv
<1>2. CASE Grows
  <2>1. Listed' = Listed \cup {add.node} /\ us' = us
    BY <1>2, Grown
  <2>2. add.step \in {"link_next", "head"}
    BY <1>2 DEF Grows, LinkNext, SetHead
  <2>3. us[add.node] = [id |-> add.id, key |-> add.key, size |-> add.size,
                        blocks |-> Blocks] /\ IsNew(add.id, add.key)
    BY <1>1, <2>2 DEF Adding, Allocated, BlocksAt
  <2>4. us[add.node].blocks = Blocks /\ us[add.node].id = add.id
        /\ us[add.node].key = add.key
    BY <2>3
  <2> QED
    BY <1>1, <2>1, <2>3, <2>4 DEF ListedAreWhole, IsNew
<1>3. CASE Free
  BY <1>3, Emptied DEF ListedAreWhole
<1>4. CASE ~Grows /\ ~Free
  BY <1>1, <1>4, Steady DEF ListedAreWhole
<1> QED
  BY <1>2, <1>3, <1>4

-----------------------------------------------------------------------------
(* The balance of the heap                                                   *)

LEMMA UnitsKept ==
    ASSUME NEW n, us'[n] = us[n]
    PROVE  Units(n)' = Units(n)
BY DEF Units, BlockUnits, Freed

\* The settings that stay in the list hold what they held.
LEMMA TotalKept ==
    ASSUME TypeOK, TypeOK', ListInv, Linked', Owned',
           Len(Order) <= Len(Order)',
           \A k \in 1..Len(Order) : Order'[k] = Order[k],
           \A n \in Listed : us'[n] = us[n]
    PROVE  /\ Sums(GivenBack', Len(Order'), Weights')
           /\ GivenBack'[Len(Order)] = GivenBack[Len(Order)]
           /\ GivenBack[Len(Order)] \in Nat
<1>1. (TypeOK /\ Linked /\ Owned => Sums(GivenBack, Len(Order), Weights))'
  BY TotalIs, PTL
<1>2. Sums(GivenBack', Len(Order'), Weights')
  BY <1>1
<1>3. Sums(GivenBack, Len(Order), Weights) /\ GivenBack[Len(Order)] \in Nat
  BY TotalIs DEF ListInv
<1>4. /\ Len(Order) \in Nat /\ Len(Order') \in Nat
      /\ DOMAIN Order = 1..Len(Order) /\ DOMAIN Order' = 1..Len(Order')
  BY DEF ListInv, Linked
<1>5. ASSUME NEW k \in 1..Len(Order) PROVE Weights[k] = Weights'[k]
  <2>1. PICK n : n = Order[k]
    OBVIOUS
  <2>2. n \in Listed /\ Order'[k] = n
    BY <1>4, <2>1 DEF Listed
  <2>3. Units(n)' = Units(n)
    BY <2>2, UnitsKept
  <2>4. k \in 1..Len(Order')
    BY <1>4
  <2>5. Weights[k] = Units(n)
    BY <1>4, <2>1 DEF Weights
  <2>6. Weights'[k] = Units(n)'
    BY <1>4, <2>2, <2>4 DEF Weights
  <2> QED
    BY <2>3, <2>5, <2>6
<1> DEFINE G == GivenBack'  W == Weights'  m == Len(Order')
<1>6. GivenBack[Len(Order)] = G[Len(Order)]
  <2>1. Len(Order) \in Nat /\ m \in Nat /\ Len(Order) <= m
    BY <1>4
  <2>2. Sums(G, m, W)
    BY <1>2
  <2>3. \A k \in 1..Len(Order) : Weights[k] = W[k]
    BY <1>5
  <2> HIDE DEF G, W, m
  <2> QED
    BY <1>3, <2>1, <2>2, <2>3, SumsAgree
<1> QED
  BY <1>2, <1>3, <1>6

LEMMA PendingIs ==
    TypeOK /\ Adding => Pending \in Nat /\ (add.step \in Allocated => add.size \in Nat)
BY HeapAssumption DEF Pending, Adding, TypeOK, Allocated

LEMMA BalanceStep ==
    ASSUME TypeOK, TypeOK', ListInv, [Next]_vars
    PROVE  Balance'
<1>1. /\ Adding /\ Balance /\ add \in Call /\ left \in Nat /\ StructSize \in Nat
      /\ Linked' /\ Owned' /\ Len(Order) \in Nat
      /\ add.step # "idle" => add.size \in Nat
  <2>1. Linked' /\ Owned'
    BY LinkedStep, OwnedStep
  <2>2. Adding /\ Balance /\ Len(Order) \in Nat
    BY DEF ListInv, Linked
  <2>3. add \in Call /\ left \in Nat /\ StructSize \in Nat
    BY HeapAssumption DEF TypeOK
  <2>4. add.step # "idle" => add.size \in Nat
    BY <2>2, HeapAssumption DEF Adding
  <2> QED
    BY <2>1, <2>2, <2>3, <2>4
<1>2. CASE Grows
  <2>1. /\ Len(Order') = Len(Order) + 1 /\ DOMAIN Order' = 1..(Len(Order) + 1)
        /\ Order'[Len(Order) + 1] = add.node /\ us' = us /\ add.node \in Node
        /\ \A k \in 1..Len(Order) : Order'[k] = Order[k]
    BY <1>2, Grown
  <2>2. /\ Sums(GivenBack', Len(Order'), Weights')
        /\ GivenBack'[Len(Order)] = GivenBack[Len(Order)]
        /\ GivenBack[Len(Order)] \in Nat
    BY <1>1, <2>1, TotalKept
  <2>3. GivenBack'[Len(Order')] = GivenBack[Len(Order)] + Weights'[Len(Order) + 1]
    <3> DEFINE L == Len(Order)
    <3>1. L + 1 \in 1..Len(Order') /\ (L + 1) - 1 = L
      BY <1>1, <2>1
    <3> QED
      BY <2>1, <2>2, <3>1 DEF Sums
  <2>4. add.step \in {"link_next", "head"} /\ add'.step \in {"idle", "tail"}
        /\ left' = left
    BY <1>1, <1>2 DEF Grows, LinkNext, SetHead, Call
  <2>5. Weights'[Len(Order) + 1] = StructSize + 2 * add.size
    <3>1. PICK n : n = add.node
      OBVIOUS
    <3>2. Weights'[Len(Order) + 1] = Units(n)'
      BY <1>1, <2>1, <3>1 DEF Weights
    <3>3. Units(n)' = Units(n)
      BY <2>1, UnitsKept
    <3>4. us[n] = [id |-> add.id, key |-> add.key, size |-> add.size, blocks |-> Blocks]
      BY <1>1, <2>4, <3>1 DEF Adding, Allocated, BlocksAt
    <3>5. us[n].size = add.size /\ us[n].blocks = Blocks
      BY <3>4
    <3>6. Units(n) = StructSize + add.size + add.size
      BY <3>5 DEF Units, BlockUnits, Freed, Blocks
    <3> QED
      BY <1>1, <2>4, <3>2, <3>3, <3>6
  <2>6. Pending = StructSize + 2 * add.size /\ Pending' = 0
    BY <2>4 DEF Pending
  <2> QED
    BY <1>1, <2>2, <2>3, <2>4, <2>5, <2>6 DEF Balance
<1>3. CASE Free
  <2>1. Order' = <<>> /\ Pending' = 0 /\ left' = left + GivenBack[Len(Order)]
        /\ Pending = 0
    BY <1>3, Emptied DEF Free, Pending
  <2>2. (TypeOK /\ Linked /\ Owned => Sums(GivenBack, Len(Order), Weights))'
    BY TotalIs, PTL
  <2>3. GivenBack'[Len(Order')] = 0
    BY <1>1, <2>1, <2>2 DEF Sums
  <2>4. GivenBack[Len(Order)] \in Nat
    BY TotalIs DEF ListInv
  <2> QED
    BY <1>1, <2>1, <2>3, <2>4 DEF Balance
<1>4. CASE ~Grows /\ ~Free
  <2>1. Order' = Order /\ \A n \in Listed : us'[n] = us[n]
    BY <1>4, Steady
  <2>2. GivenBack'[Len(Order')] = GivenBack[Len(Order)] /\ GivenBack[Len(Order)] \in Nat
    BY <1>1, <2>1, TotalKept
  <2>3. left' + Pending' = left + Pending /\ left' \in Nat /\ Pending \in Nat
        /\ Pending' \in Nat
    <3>1. CASE AddStruct
      <4>1. add.step = "struct" /\ add'.step = "data" /\ left' = left - StructSize
            /\ StructSize <= left
        BY <1>1, <3>1 DEF AddStruct, Available, Call
      <4>2. Pending = 0 /\ Pending' = StructSize
        BY <4>1 DEF Pending
      <4> QED
        BY <1>1, <4>1, <4>2
    <3>2. CASE \E b \in {"data", "default"} : AddBlock(b)
      <4>1. PICK b \in {"data", "default"} : AddBlock(b)
        BY <3>2
      <4>2. /\ add.step = b /\ left' = left - add.size /\ add.size <= left
            /\ add' = [add EXCEPT !.step = AfterBlock(b)]
        BY <4>1 DEF AddBlock, Available
      <4>3. add'.step = AfterBlock(b) /\ add'.size = add.size /\ add.size \in Nat
        BY <1>1, <4>2 DEF Call
      <4>4. CASE b = "data"
        <5>1. Pending = StructSize /\ Pending' = StructSize + add.size
          BY <4>2, <4>3, <4>4 DEF Pending, AfterBlock
        <5> QED
          BY <1>1, <4>2, <4>3, <5>1
      <4>5. CASE b = "default"
        <5>1. Pending = StructSize + add.size /\ Pending' = StructSize + 2 * add.size
          BY <4>2, <4>3, <4>5 DEF Pending, AfterBlock, FirstStep
        <5> QED
          BY <1>1, <4>2, <4>3, <5>1
      <4> QED
        BY <4>4, <4>5
    <3>3. CASE LinkFirst \/ SetTail
      BY <1>1, <3>3 DEF LinkFirst, SetTail, Pending, Call
    <3>4. CASE \E id \in Id, key \in Key, size \in Size : Add(id, key, size)
      BY <1>1, <3>4 DEF Add, Pending
    <3>5. CASE UNCHANGED <<add, left>>
      BY <1>1, <3>5, PendingIs DEF Pending, ListInv
    <3> QED
      BY <1>4, <3>1, <3>2, <3>3, <3>4, <3>5
         DEF Next, Grows, Flag, IterStart, IterNext, list, vars
  <2> QED
    BY <1>1, <2>2, <2>3 DEF Balance
<1> QED
  BY <1>2, <1>3, <1>4

-----------------------------------------------------------------------------
(* The iterators                                                             *)

\* What other steps do to an iterator leaves it where it is.
LEMMA IteratorKept ==
    ASSUME NEW i \in Iter, NEW p \in 0..Len(Order), IsAt(i, p),
           Len(Order) \in Nat, Len(Order') \in Nat, Len(Order) <= Len(Order)',
           \A k \in 1..Len(Order) : Order'[k] = Order[k],
           Listed \subseteq Listed', due'[i] \subseteq due[i],
           ctx[i].use = "changed" => due'[i] \subseteq changed',
           ctx'[i] = ctx[i], seen'[i] = seen[i]
    PROVE  p \in 0..Len(Order)' /\ IsAt(i, p)'
<1>1. \A k \in 1..p : Order'[k] = Order[k]
  OBVIOUS
<1>2. Upto(i, p)'
  BY <1>1 DEF IsAt, Upto
<1>3. p > 0 => Order'[p] = Order[p]
  BY <1>1
<1> QED
  BY <1>1, <1>2, <1>3 DEF IsAt

LEMMA FollowingIs ==
    ASSUME ListInv, NEW i \in Iter, NEW p \in 0..Len(Order), IsAt(i, p),
           ctx[i].start \/ ctx[i].at # NULL
    PROVE  Following(ctx[i]) = IF p = Len(Order) THEN NULL ELSE Order[p + 1]
<1>1. /\ Order \in Seq(Node) /\ Len(Order) \in Nat /\ DOMAIN Order = 1..Len(Order)
      /\ Chain(Order)
  BY DEF ListInv, Linked
<1>2. CASE ctx[i].start
  <2>1. p = 0 /\ ctx[i].at = NULL
    BY <1>2 DEF IsAt
  <2>2. Following(ctx[i]) = head
    BY <1>2, <2>1 DEF Following
  <2>3. head = IF Len(Order) = 0 THEN NULL ELSE Order[1]
    BY <1>1 DEF Chain
  <2> QED
    BY <1>1, <2>1, <2>2, <2>3
<1>3. CASE ~ctx[i].start
  <2>1. ctx[i].at # NULL /\ p > 0 /\ ctx[i].at = Order[p]
    BY <1>3 DEF IsAt
  <2>2. Following(ctx[i]) = next[Order[p]]
    BY <2>1 DEF Following
  <2>3. p \in DOMAIN Order
    BY <1>1, <2>1
  <2>4. next[Order[p]] = IF p = Len(Order) THEN NULL ELSE Order[p + 1]
    BY <1>1, <2>3 DEF Chain
  <2> QED
    BY <2>2, <2>4
<1> QED
  BY <1>2, <1>3

\* Where an iterator goes, it returns what it has to.
LEMMA IteratorNext ==
    ASSUME TypeOK, TypeOK', ListInv, NEW i \in Iter, IterNext(i),
           Order' = Order, Listed' = Listed
    PROVE  \E p \in 0..Len(Order)' : IsAt(i, p)'
<1> DEFINE n == Following(ctx[i])
<1>1. PICK p \in 0..Len(Order) : IsAt(i, p)
  BY DEF ListInv, Iterating, IterNext
<1>2. /\ Order \in Seq(Node) /\ Len(Order) \in Nat /\ DOMAIN Order = 1..Len(Order)
      /\ Chain(Order) /\ ctx \in [Iter -> Context] /\ seen \in [Iter -> Seq(Node)]
      /\ \A k \in 1..Len(Order) : Order[k] \in Node /\ Order[k] # NULL
      /\ Listed = {Order[k] : k \in 1..Len(Order)}
  BY HeapAssumption DEF ListInv, Linked, TypeOK, Listed
<1>3. /\ ctx'[i] = [ctx[i] EXCEPT !.start = FALSE, !.at = n]
      /\ seen'[i] = IF n # NULL /\ Returned(i, n) THEN Append(seen[i], n) ELSE seen[i]
      /\ due' = due /\ changed' = changed
  BY <1>2 DEF IterNext, list
<1>4. ctx'[i].use = ctx[i].use /\ ~ctx'[i].start /\ ctx'[i].at = n
      /\ ctx[i] \in Context /\ ctx[i].use \in {"all", "changed"}
  BY <1>2, <1>3 DEF Context, IterNext
<1> DEFINE L == Len(Order)
<1>5. CASE ~ctx[i].start /\ ctx[i].at = NULL
  <2>1. n = NULL /\ ctx'[i].at = ctx[i].at /\ seen'[i] = seen[i]
    BY <1>3, <1>4, <1>5 DEF Following
  <2> HIDE DEF n
  <2>2. IsAt(i, p)'
    BY <1>1, <1>3, <1>4, <1>5, <2>1 DEF IsAt, Upto
  <2> QED
    BY <2>2
<1>6. CASE ctx[i].start \/ ctx[i].at # NULL
  <2>1. n = IF p = L THEN NULL ELSE Order[p + 1]
    BY <1>1, <1>6, FollowingIs
  <2> HIDE DEF n
  <2>3. CASE p = L
    <3>1. n = NULL /\ seen'[i] = seen[i]
      BY <1>3, <2>1, <2>3
    <3>2. Upto(i, p)'
      BY <1>1, <1>3, <1>4, <3>1 DEF IsAt, Upto
    <3>3. due[i] \subseteq Listed
      BY <1>1, <1>4 DEF IsAt, Upto
    <3>4. IsAt(i, p)'
      BY <1>2, <1>3, <1>4, <2>3, <3>1, <3>2, <3>3 DEF IsAt
    <3> QED
      BY <3>4
  <2>4. CASE p # L
    <3>1. p + 1 \in 0..L /\ p + 1 \in 1..L /\ p + 1 > 0 /\ p \in Nat
      <4>1. L \in Nat /\ p \in 0..L
        BY <1>2
      <4> HIDE DEF L
      <4> QED
        BY <2>4, <4>1
    <3>2. n = Order[p + 1] /\ n # NULL /\ \A k \in 1..p : Order[k] # n
      <4>1. n = Order[p + 1]
        BY <2>1, <2>4
      <4> QED
        BY <1>2, <3>1, <4>1 DEF Chain
    <3>3. CASE ctx[i].use = "all"
      <4>1. /\ Len(seen[i]) = p /\ (\A k \in 1..p : seen[i][k] = Order[k])
            /\ due[i] \subseteq Listed
        BY <1>1, <3>3 DEF IsAt, Upto
      <4>2. seen'[i] = Append(seen[i], n)
        BY <1>3, <3>2, <3>3 DEF Returned
      <4>3. Len(seen'[i]) = p + 1 /\ \A k \in 1..(p + 1) : seen'[i][k] = Order[k]
        BY <1>2, <3>1, <3>2, <4>1, <4>2
      <4>4. Upto(i, p + 1)'
        BY <1>3, <1>4, <3>3, <4>1, <4>3 DEF Upto
      <4> QED
        BY <1>4, <3>1, <3>2, <4>4 DEF IsAt
    <3>4. CASE ctx[i].use = "changed"
      <4>1. /\ \A j, k \in DOMAIN seen[i] : j # k => seen[i][j] # seen[i][k]
            /\ \A k \in DOMAIN seen[i] : \E j \in 1..p : seen[i][k] = Order[j]
            /\ due[i] \subseteq Listed \cap changed
            /\ \A j \in 1..p : Order[j] \in due[i] =>
                   \E k \in DOMAIN seen[i] : seen[i][k] = Order[j]
        BY <1>1, <3>4 DEF IsAt, Upto
      <4>2. CASE n \notin changed
        <5>1. seen'[i] = seen[i] /\ n \notin due[i]
          BY <1>3, <3>4, <4>1, <4>2 DEF Returned
        <5>2. \A j \in 1..(p + 1) : Order[j] \in due[i] => j \in 1..p
          BY <3>1, <3>2, <5>1
        <5>3. \A k \in DOMAIN seen[i] : \E j \in 1..(p + 1) : seen[i][k] = Order[j]
          <6> SUFFICES ASSUME NEW k \in DOMAIN seen[i]
                       PROVE  \E j \in 1..(p + 1) : seen[i][k] = Order[j]
            OBVIOUS
          <6>1. PICK j \in 1..p : seen[i][k] = Order[j]
            BY <4>1
          <6>2. j \in 1..(p + 1)
            BY <3>1
          <6> QED
            BY <6>1, <6>2
        <5>4. \A j \in 1..(p + 1) : Order[j] \in due[i] =>
                  \E k \in DOMAIN seen[i] : seen[i][k] = Order[j]
          BY <4>1, <5>2
        <5>5. Upto(i, p + 1)'
          <6> DEFINE r == seen'[i]  o == Order'  d == due'[i]
          <6>1. r = seen[i] /\ o = Order /\ d = due[i] /\ ctx'[i].use # "all"
            BY <1>3, <1>4, <3>4, <5>1
          <6>2. d \subseteq Listed' \cap changed'
            BY <1>3, <4>1, <6>1
          <6> HIDE DEF r, o, d
          <6>3. /\ \A j, k \in DOMAIN r : j # k => r[j] # r[k]
                /\ \A k \in DOMAIN r : \E j \in 1..(p + 1) : r[k] = o[j]
                /\ \A j \in 1..(p + 1) : o[j] \in d =>
                       \E k \in DOMAIN r : r[k] = o[j]
            BY <4>1, <5>3, <5>4, <6>1
          <6> QED
            BY <6>1, <6>2, <6>3 DEF Upto, r, o, d
        <5> QED
          BY <1>4, <3>1, <3>2, <5>5 DEF IsAt
      <4>3. CASE n \in changed
        <5> DEFINE m == Len(seen[i])
        <5>1. seen'[i] = Append(seen[i], n)
          BY <1>3, <3>2, <3>4, <4>3 DEF Returned
        <5>2. /\ m \in Nat /\ DOMAIN seen[i] = 1..m /\ DOMAIN seen'[i] = 1..(m + 1)
              /\ seen'[i][m + 1] = n /\ \A k \in 1..m : seen'[i][k] = seen[i][k]
          BY <1>2, <3>1, <3>2, <5>1
        <5>3. \A k \in 1..m : seen[i][k] # n
          <6> SUFFICES ASSUME NEW k \in 1..m PROVE seen[i][k] # n
            OBVIOUS
          <6>1. PICK j \in 1..p : seen[i][k] = Order[j]
            BY <4>1, <5>2
          <6> QED
            BY <3>2, <6>1
        <5> HIDE DEF m
        <5>4. \A j, k \in 1..(m + 1) : j # k => seen'[i][j] # seen'[i][k]
          <6> SUFFICES ASSUME NEW j \in 1..(m + 1), NEW k \in 1..(m + 1), j # k
                       PROVE  seen'[i][j] # seen'[i][k]
            OBVIOUS
          <6>1. CASE j = m + 1
            <7>1. k \in 1..m
              BY <5>2, <6>1
            <7> QED
              BY <5>2, <5>3, <6>1, <7>1
          <6>2. CASE k = m + 1
            <7>1. j \in 1..m
              BY <5>2, <6>2
            <7> QED
              BY <5>2, <5>3, <6>2, <7>1
          <6>3. CASE j # m + 1 /\ k # m + 1
            <7>1. j \in 1..m /\ k \in 1..m
              BY <5>2, <6>3
            <7> QED
              BY <4>1, <5>2, <7>1
          <6> QED
            BY <6>1, <6>2, <6>3
        <5>5. \A k \in 1..(m + 1) : \E j \in 1..(p + 1) : seen'[i][k] = Order[j]
          <6> SUFFICES ASSUME NEW k \in 1..(m + 1)
                       PROVE  \E j \in 1..(p + 1) : seen'[i][k] = Order[j]
            OBVIOUS
          <6>1. CASE k = m + 1
            BY <3>1, <3>2, <5>2, <6>1
          <6>2. CASE k # m + 1
            <7>1. k \in 1..m
              BY <5>2, <6>2
            <7>2. PICK j \in 1..p : seen[i][k] = Order[j]
              BY <4>1, <5>2, <7>1
            <7> QED
              BY <3>1, <5>2, <7>1, <7>2
          <6> QED
            BY <6>1, <6>2
        <5>6. \A j \in 1..(p + 1) : Order[j] \in due[i] =>
                  \E k \in 1..(m + 1) : seen'[i][k] = Order[j]
          <6> SUFFICES ASSUME NEW j \in 1..(p + 1), Order[j] \in due[i]
                       PROVE  \E k \in 1..(m + 1) : seen'[i][k] = Order[j]
            OBVIOUS
          <6>1. CASE j = p + 1
            BY <3>2, <5>2, <6>1
          <6>2. CASE j # p + 1
            <7>1. j \in 1..p
              BY <3>1, <6>2
            <7>2. PICK k \in 1..m : seen[i][k] = Order[j]
              BY <4>1, <5>2, <7>1
            <7> QED
              BY <5>2, <7>2
          <6> QED
            BY <6>1, <6>2
        <5>7. Upto(i, p + 1)'
          <6> DEFINE r == seen'[i]  o == Order'  d == due'[i]
          <6>1. o = Order /\ d = due[i] /\ ctx'[i].use # "all" /\ DOMAIN r = 1..(m + 1)
            BY <1>3, <1>4, <3>4, <5>2
          <6>2. d \subseteq Listed' \cap changed'
            BY <1>3, <4>1, <6>1
          <6>3. /\ \A j, k \in DOMAIN r : j # k => r[j] # r[k]
                /\ \A k \in DOMAIN r : \E j \in 1..(p + 1) : r[k] = o[j]
                /\ \A j \in 1..(p + 1) : o[j] \in d =>
                       \E k \in DOMAIN r : r[k] = o[j]
            BY <5>4, <5>5, <5>6, <6>1
          <6> HIDE DEF r, o, d
          <6> QED
            BY <6>1, <6>2, <6>3 DEF Upto, r, o, d
        <5> QED
          BY <1>4, <3>1, <3>2, <5>7 DEF IsAt
      <4> QED
        BY <4>2, <4>3
    <3> QED
      BY <1>4, <3>3, <3>4
  <2> QED
    BY <2>3, <2>4
<1> QED
  BY <1>5, <1>6

LEMMA IteratingStep ==
    ASSUME TypeOK, TypeOK', ListInv, [Next]_vars
    PROVE  Iterating'
<1>1. /\ Iterating /\ Owned /\ Len(Order) \in Nat /\ ctx \in [Iter -> Context]
      /\ seen \in [Iter -> Seq(Node)] /\ due \in [Iter -> SUBSET Node]
  BY DEF ListInv, Linked, TypeOK
<1> SUFFICES ASSUME NEW i \in Iter, ctx'[i].use # "unused"
             PROVE  \E p \in 0..Len(Order)' : IsAt(i, p)'
  BY DEF Iterating
<1> DEFINE Same == ctx'[i] = ctx[i] /\ seen'[i] = seen[i]
           Fewer == /\ due'[i] \subseteq due[i]
                    /\ ctx[i].use = "changed" => due'[i] \subseteq changed'
<1>2. ctx'[i] = ctx[i] => \E p \in 0..Len(Order) : IsAt(i, p)
  BY <1>1 DEF Iterating
<1>3. ctx'[i] = ctx[i] =>
          due[i] \subseteq Listed /\ (ctx[i].use = "changed" => due[i] \subseteq changed)
  <2> SUFFICES ASSUME ctx'[i] = ctx[i]
               PROVE  /\ due[i] \subseteq Listed
                      /\ ctx[i].use = "changed" => due[i] \subseteq changed
    OBVIOUS
  <2>1. PICK p \in 0..Len(Order) : IsAt(i, p)
    BY <1>2
  <2>2. ctx[i].use \in {"all", "changed"}
    BY <1>1 DEF Context
  <2> QED
    BY <2>1, <2>2 DEF IsAt, Upto
<1>4. CASE Grows
  <2>1. /\ Len(Order)' = Len(Order) + 1 /\ Listed \subseteq Listed'
        /\ \A k \in 1..Len(Order) : Order'[k] = Order[k]
    BY <1>4, Grown
  <2>2. ctx' = ctx /\ seen' = seen /\ due' = due /\ changed' = changed
    BY <1>4 DEF Grows, LinkNext, SetHead
  <2>3. PICK p \in 0..Len(Order) : IsAt(i, p)
    BY <1>2, <2>2
  <2> QED
    BY <1>1, <1>3, <2>1, <2>2, <2>3, IteratorKept
<1>5. CASE Free
  BY <1>5 DEF Free
<1>6. CASE ~Grows /\ ~Free
  <2>1. Order' = Order /\ Listed' = Listed
    BY <1>6, Steady
  <2>2. ASSUME Same, Fewer PROVE \E p \in 0..Len(Order)' : IsAt(i, p)'
    <3>1. PICK p \in 0..Len(Order) : IsAt(i, p)
      BY <1>2, <2>2
    <3> QED
      BY <1>1, <2>1, <2>2, <3>1, IteratorKept
  <2>3. CASE AddStruct
    <3>1. add.node \notin Listed
      BY <1>1, <2>3, ListedNodes DEF AddStruct, ListInv, Adding
    <3>2. Same /\ due' = due /\ changed' = changed \ {add.node}
      BY <2>3 DEF AddStruct
    <3>3. Fewer
      BY <1>3, <3>1, <3>2
    <3> QED
      BY <2>2, <3>2, <3>3
  <2>4. ASSUME NEW n \in Node, NEW on \in BOOLEAN, Flag(n, on)
        PROVE  \E p \in 0..Len(Order)' : IsAt(i, p)'
    <3>1. Same
      BY <2>4 DEF Flag
    <3>2. /\ due'[i] = IF ctx[i].use = "changed" /\ ~on THEN due[i] \ {n} ELSE due[i]
          /\ changed' = IF on THEN changed \cup {n} ELSE changed \ {n}
      BY <2>4 DEF Flag
    <3>3. Fewer
      BY <1>3, <3>1, <3>2
    <3> QED
      BY <2>2, <3>1, <3>3
  <2>5. ASSUME NEW j \in Iter, NEW use \in {"all", "changed"}, IterStart(j, use)
        PROVE  \E p \in 0..Len(Order)' : IsAt(i, p)'
    <3>1. changed' = changed
      BY <2>5 DEF IterStart
    <3>2. CASE i = j
      <4>1. /\ ctx'[i].use = use /\ ctx'[i].start /\ ctx'[i].at = NULL /\ seen'[i] = <<>>
            /\ due'[i] = IF use = "all" THEN Listed ELSE Listed \cap changed
        BY <1>1, <2>5, <3>2 DEF IterStart
      <4>2. IsAt(i, 0)'
        BY <2>1, <3>1, <4>1 DEF IsAt, Upto
      <4> QED
        BY <1>1, <2>1, <4>2
    <3>3. CASE i # j
      <4>1. Same /\ due'[i] = due[i]
        BY <1>1, <2>5, <3>3 DEF IterStart
      <4> QED
        BY <1>3, <2>2, <3>1, <4>1
    <3> QED
      BY <3>2, <3>3
  <2>6. ASSUME NEW j \in Iter, IterNext(j)
        PROVE  \E p \in 0..Len(Order)' : IsAt(i, p)'
    <3>1. changed' = changed /\ due' = due
      BY <2>6 DEF IterNext
    <3>2. CASE i = j
      BY <2>1, <2>6, <3>2, IteratorNext
    <3>3. CASE i # j
      <4>1. Same
        BY <1>1, <2>6, <3>3 DEF IterNext
      <4> QED
        BY <1>3, <2>2, <3>1, <4>1
    <3> QED
      BY <3>2, <3>3
  <2>7. CASE UNCHANGED <<changed, ctx, seen, due>>
    BY <1>3, <2>2, <2>7
  <2> QED
    BY <1>6, <2>3, <2>4, <2>5, <2>6, <2>7
       DEF Next, Grows, Add, AddBlock, LinkFirst, SetTail, list, vars
<1> QED
  BY <1>4, <1>5, <1>6

-----------------------------------------------------------------------------
(* The invariants                                                            *)

LEMMA InvInit == Init => ListInv
<1> SUFFICES ASSUME Init PROVE ListInv
  OBVIOUS
<1>1. TypeOK /\ Pointers
  BY TypeInit, TypedPointers
<1>2. Order = <<>>
  <2>1. <<>> \in Seq(Node) /\ Chain(<<>>)
    BY DEF Init, Chain
  <2> QED
    BY <1>1, <2>1, OrderIs
<1>3. Listed = {}
  BY <1>2 DEF Listed
<1>4. Linked
  <2>1. Order \in Seq(Node) /\ Chain(Order)
    BY <1>2 DEF Init, Chain
  <2> QED
    BY <1>2, <2>1 DEF Init, Linked
<1>5. Owned /\ Adding /\ ListedAreWhole /\ Iterating
  BY <1>3 DEF Init, Owned, Adding, Allocated, ListedAreWhole, Iterating
<1>6. Balance
  <2>1. GivenBack[Len(Order)] = 0
    BY <1>1, <1>2, <1>4, <1>5, TotalIs DEF Sums
  <2> QED
    BY <2>1, HeapAssumption DEF Init, Balance, Pending
<1> QED
  BY <1>4, <1>5, <1>6 DEF ListInv

LEMMA InvStep ==
    ASSUME TypeOK, ListInv, [Next]_vars
    PROVE  TypeOK' /\ ListInv'
<1>1. TypeOK'
  BY TypeStep
<1> QED
  BY <1>1, AddingStep, LinkedStep, WholeStep, OwnedStep, BalanceStep, IteratingStep
     DEF ListInv

\* The pointers are a list, the heap is in balance and the iterators are where
\* they should be, at every step of every add, iteration and teardown.
THEOREM ListInvariant == Spec => [](TypeOK /\ ListInv)
<1>1. Init => TypeOK /\ ListInv
  BY TypeInit, InvInit
<1>2. TypeOK /\ ListInv /\ [Next]_vars => (TypeOK /\ ListInv)'
  BY InvStep
<1> QED
  BY <1>1, <1>2, PTL DEF Spec

\* Every variable holds a value of its type, and the heap never gives more than
\* it has nor gets back more than it gave.
THEOREM TypeCorrect == Spec => []TypeOK
BY ListInvariant, PTL

\* Whatever the step an add is at, a setting that a reader finds has its buffers
\* and an id and a key of its own.
THEOREM WholeInList == Spec => []ListedAreWhole
<1>1. ListInv => ListedAreWhole
  BY DEF ListInv
<1> QED
  BY <1>1, ListInvariant, PTL

\* After a teardown the heap is whole.
THEOREM HeapWhole == Spec => []NothingLeaks
<1>1. TypeOK /\ ListInv => NothingLeaks
  <2> SUFFICES ASSUME TypeOK, ListInv, head = NULL, add.step = "idle"
               PROVE  left = HeapSize
    BY DEF NothingLeaks
  <2>1. Order = <<>>
    BY HeapAssumption DEF ListInv, Linked, Chain
  <2>2. GivenBack[Len(Order)] = 0 /\ Pending = 0
    BY <2>1, TotalIs DEF ListInv, Sums, Pending
  <2> QED
    BY <2>2 DEF ListInv, Balance, TypeOK
<1> QED
  BY <1>1, ListInvariant, PTL

\* An iterator over all settings returns a prefix of the list, and all that was
\* there when it started once it has ended.
THEOREM IterationComplete == Spec => []IterationIsComplete
<1>1. TypeOK /\ ListInv => IterationIsComplete
  <2> SUFFICES ASSUME TypeOK, ListInv, NEW i \in Iter, ctx[i].use = "all"
               PROVE  /\ Len(seen[i]) <= Len(Order)
                      /\ \A k \in DOMAIN seen[i] : seen[i][k] = Order[k]
                      /\ Ended(i) => \A n \in due[i] :
                             \E k \in DOMAIN seen[i] : seen[i][k] = n
    BY DEF IterationIsComplete
  <2>1. PICK p \in 0..Len(Order) : IsAt(i, p)
    BY DEF ListInv, Iterating
  <2>2. Len(seen[i]) = p /\ \A k \in 1..p : seen[i][k] = Order[k]
    BY <2>1 DEF IsAt, Upto
  <2>3. DOMAIN seen[i] = 1..p /\ Len(Order) \in Nat
    BY <2>2 DEF TypeOK, ListInv, Linked
  <2>4. Ended(i) => \A n \in due[i] : \E k \in 1..p : n = Order[k]
    BY <2>1 DEF IsAt, Ended
  <2> QED
    BY <2>2, <2>3, <2>4
<1> QED
  BY <1>1, ListInvariant, PTL

\* An iterator over the changed settings returns none twice, and once it has
\* ended each that was flagged from its start on.
THEOREM ChangedReturned == Spec => []ChangedAreReturned
<1>1. TypeOK /\ ListInv => ChangedAreReturned
  <2> SUFFICES ASSUME TypeOK, ListInv, NEW i \in Iter, ctx[i].use = "changed"
               PROVE  /\ \A j, k \in DOMAIN seen[i] : j # k => seen[i][j] # seen[i][k]
                      /\ Ended(i) => \A n \in due[i] :
                             \E k \in DOMAIN seen[i] : seen[i][k] = n
    BY DEF ChangedAreReturned
  <2>1. PICK p \in 0..Len(Order) : IsAt(i, p)
    BY DEF ListInv, Iterating
  <2>2. /\ \A j, k \in DOMAIN seen[i] : j # k => seen[i][j] # seen[i][k]
        /\ \A j \in 1..p : Order[j] \in due[i] =>
               \E k \in DOMAIN seen[i] : seen[i][k] = Order[j]
    BY <2>1 DEF IsAt, Upto
  <2>3. Ended(i) => \A n \in due[i] : \E k \in 1..p : n = Order[k]
    BY <2>1 DEF IsAt, Ended
  <2> QED
    BY <2>2, <2>3
<1> QED
  BY <1>1, ListInvariant, PTL

-----------------------------------------------------------------------------
(* The pointers implement the registry                                       *)

Settings == [k \in DOMAIN Order |->
                [id |-> us[Order[k]].id, key |-> us[Order[k]].key]]
Iters == [i \in Iter |-> PositionOf(i)]

\* The registry's view of an iterator that is at the p-th setting.
ViewAt(i, p) ==
    IF ctx[i].use = "unused" THEN [state |-> "unused", pos |-> 0]
    ELSE IF ctx[i].start THEN [state |-> "started", pos |-> 0]
    ELSE IF ctx[i].at = NULL THEN [state |-> "ended", pos |-> 0]
    ELSE [state |-> "within", pos |-> p]

Here(i, p) ==
    ctx[i].use # "unused" /\ ~ctx[i].start /\ ctx[i].at # NULL =>
        p \in DOMAIN Order /\ ctx[i].at = Order[p]

LEMMA PositionIsView ==
    Linked => \A i \in Iter : \A p \in Nat : Here(i, p) => PositionOf(i) = ViewAt(i, p)
<1> SUFFICES ASSUME Linked, NEW i \in Iter, NEW p \in Nat, Here(i, p)
             PROVE  PositionOf(i) = ViewAt(i, p)
  OBVIOUS
<1>1. CASE ctx[i].use = "unused" \/ ctx[i].start \/ ctx[i].at = NULL
  BY <1>1 DEF PositionOf, ViewAt, Ended
<1>2. CASE ctx[i].use # "unused" /\ ~ctx[i].start /\ ctx[i].at # NULL
  <2>1. p \in DOMAIN Order /\ ctx[i].at = Order[p]
    BY <1>2 DEF Here
  <2>2. \A k \in DOMAIN Order : Order[k] = Order[p] => k = p
    BY <2>1 DEF Linked, Chain
  <2>3. (CHOOSE k \in DOMAIN Order : Order[k] = ctx[i].at) = p
    BY <2>1, <2>2
  <2> QED
    BY <1>2, <2>3 DEF PositionOf, ViewAt, Ended
<1> QED
  BY <1>1, <1>2

LEMMA PositionIsViewNext ==
    (Linked => \A i \in Iter : \A p \in Nat : Here(i, p) => PositionOf(i) = ViewAt(i, p))'
BY PositionIsView, PTL

LEMMA IsHere ==
    ListInv => /\ \A i \in Iter : \E p \in Nat : Here(i, p)
               /\ \A i \in Iter : \A p \in 0..Len(Order) : IsAt(i, p) => Here(i, p)
<1> SUFFICES ASSUME ListInv, NEW i \in Iter
             PROVE  /\ \E p \in Nat : Here(i, p)
                    /\ \A p \in 0..Len(Order) : IsAt(i, p) => Here(i, p)
  OBVIOUS
<1>1. ASSUME NEW p \in 0..Len(Order), IsAt(i, p) PROVE Here(i, p)
  BY <1>1 DEF IsAt, Here, ListInv, Linked
<1>2. ctx[i].use # "unused" => \E p \in 0..Len(Order) : IsAt(i, p)
  BY DEF ListInv, Iterating
<1>3. ctx[i].use = "unused" => Here(i, 0)
  BY DEF Here
<1> QED
  BY <1>1, <1>2, <1>3

LEMMA ViewKept ==
    ASSUME ListInv, ListInv', NEW j \in Iter, ctx'[j] = ctx[j],
           \A k \in DOMAIN Order : k \in DOMAIN Order' /\ Order'[k] = Order[k]
    PROVE  PositionOf(j)' = PositionOf(j)
<1>1. PICK q \in Nat : Here(j, q)
  BY IsHere
<1>2. Here(j, q)'
  BY <1>1 DEF Here
<1>3. ViewAt(j, q)' = ViewAt(j, q)
  BY DEF ViewAt
<1>4. PositionOf(j) = ViewAt(j, q)
  BY <1>1, PositionIsView DEF ListInv
<1>5. PositionOf(j)' = ViewAt(j, q)'
  BY <1>2, PositionIsViewNext DEF ListInv
<1> QED
  BY <1>3, <1>4, <1>5

LEMMA SettingsKept ==
    ASSUME ListInv, Order' = Order, \A n \in Listed : us'[n] = us[n]
    PROVE  Settings' = Settings
<1>1. \A k \in DOMAIN Order : us'[Order[k]] = us[Order[k]]
  BY DEF Listed
<1> QED
  BY <1>1 DEF Settings

LEMMA ItersAre ==
    /\ DOMAIN Iters = Iter /\ \A i \in Iter : Iters[i] = PositionOf(i)
    /\ DOMAIN Iters' = Iter /\ \A i \in Iter : Iters'[i] = PositionOf(i)'
BY DEF Iters

LEMMA ItersKept ==
    ASSUME ListInv, ListInv', ctx' = ctx,
           \A k \in DOMAIN Order : k \in DOMAIN Order' /\ Order'[k] = Order[k]
    PROVE  Iters' = Iters
<1>1. \A i \in Iter : PositionOf(i)' = PositionOf(i)
  BY ViewKept
<1> QED
  BY <1>1 DEF Iters

\* The write that links a setting is the add of the registry.
LEMMA AddRefined ==
    ASSUME TypeOK, TypeOK', ListInv, ListInv', Grows
    PROVE  \E id \in Id, key \in Key : Registry!Add(id, key)
<1>1. /\ Order \in Seq(Node) /\ Len(Order) \in Nat /\ DOMAIN Order = 1..Len(Order)
      /\ \A k \in 1..Len(Order) : Order[k] \in Listed
  BY DEF ListInv, Linked, Listed
<1>2. /\ us' = us /\ DOMAIN Order' = 1..(Len(Order) + 1)
      /\ Order'[Len(Order) + 1] = add.node
      /\ \A k \in 1..Len(Order) : Order'[k] = Order[k]
  BY Grown
<1>3. add.step \in {"link_next", "head"} /\ ctx' = ctx
  BY DEF Grows, LinkNext, SetHead
<1>4. /\ us[add.node].id = add.id /\ us[add.node].key = add.key
      /\ IsNew(add.id, add.key) /\ add.id \in Id /\ add.key \in Key
  BY <1>3 DEF ListInv, Adding, Allocated
<1> DEFINE new == [id |-> add.id, key |-> add.key]
<1>5. Settings' = Append(Settings, new)
  <2> DEFINE L == Len(Order)
  <2>1. Settings' = [k \in 1..(L + 1) |->
                        [id |-> us[Order'[k]].id, key |-> us[Order'[k]].key]]
    BY <1>2 DEF Settings
  <2>2. Settings = [k \in 1..L |-> [id |-> us[Order[k]].id, key |-> us[Order[k]].key]]
    BY <1>1 DEF Settings
  <2>3. Settings \in Seq({Settings[k] : k \in 1..L} \cup {new}) /\ Len(Settings) = L
    BY <1>1, <2>2
  <2>4. Append(Settings, new) = [k \in 1..(L + 1) |->
                                    IF k = L + 1 THEN new ELSE Settings[k]]
    BY <1>1, <2>3
  <2>5. ASSUME NEW k \in 1..(L + 1)
        PROVE  [id |-> us[Order'[k]].id, key |-> us[Order'[k]].key]
                   = IF k = L + 1 THEN new ELSE Settings[k]
    <3>1. CASE k = L + 1
      BY <1>2, <1>4, <3>1
    <3>2. CASE k # L + 1
      <4>1. k \in 1..L
        BY <1>1, <3>2
      <4> QED
        BY <1>2, <2>2, <3>2, <4>1
    <3> QED
      BY <3>1, <3>2
  <2> QED
    BY <2>1, <2>4, <2>5
<1>6. \A k \in DOMAIN Settings : Settings[k].id # add.id /\ Settings[k].key # add.key
  BY <1>1, <1>4 DEF Settings, IsNew
<1>7. Iters' = Iters
  BY <1>1, <1>2, <1>3, ItersKept
<1> DEFINE Added(id, key) ==
               /\ \A k \in DOMAIN Settings : Settings[k].id # id /\ Settings[k].key # key
               /\ Settings' = Append(Settings, [id |-> id, key |-> key])
               /\ Iters' = Iters
<1>8. Added(add.id, add.key)
  BY <1>5, <1>6, <1>7
<1> HIDE DEF Added
<1>9. PICK id \in Id, key \in Key : Added(id, key)
  BY <1>4, <1>8
<1>10. Registry!Add(id, key)
  BY <1>9 DEF Added, Registry!Add, Registry!Ids, Registry!UsedKeys, Settings, Iters
<1> QED
  BY <1>10

\* Only the context of iterator i changes, so only its view does.
LEMMA OneView ==
    ASSUME ListInv, ListInv', TypeOK, NEW i \in Iter, NEW c,
           ctx' = [ctx EXCEPT ![i] = c], Order' = Order
    PROVE  Iters' = [Iters EXCEPT ![i] = PositionOf(i)']
<1>1. \A j \in Iter : j # i => PositionOf(j)' = PositionOf(j)
  <2> SUFFICES ASSUME NEW j \in Iter, j # i PROVE PositionOf(j)' = PositionOf(j)
    OBVIOUS
  <2>1. ctx'[j] = ctx[j]
    BY DEF TypeOK
  <2> QED
    BY <2>1, ViewKept
<1> DEFINE v == PositionOf(i)'
<1>2. Iters = [j \in Iter |-> PositionOf(j)] /\ Iters' = [j \in Iter |-> PositionOf(j)']
  BY DEF Iters
<1> HIDE DEF v
<1>3. \A j \in Iter : PositionOf(j)' = IF j = i THEN v ELSE PositionOf(j)
  BY <1>1 DEF v
<1>4. [Iters EXCEPT ![i] = v] = [j \in Iter |-> IF j = i THEN v ELSE PositionOf(j)]
  BY <1>2
<1> QED
  BY <1>2, <1>3, <1>4 DEF v

LEMMA StartRefined ==
    ASSUME TypeOK, ListInv, ListInv', NEW i \in Iter, NEW use \in {"all", "changed"},
           IterStart(i, use), Order' = Order, Settings' = Settings
    PROVE  Registry!Start(i)
<1>1. ctx' = [ctx EXCEPT ![i] = [use |-> use, start |-> TRUE, at |-> NULL]]
  BY DEF IterStart
<1>2. ctx'[i] = [use |-> use, start |-> TRUE, at |-> NULL]
  BY <1>1 DEF TypeOK
<1>3. PositionOf(i)' = [state |-> "started", pos |-> 0]
  BY <1>2 DEF PositionOf
<1>4. Iters' = [Iters EXCEPT ![i] = [state |-> "started", pos |-> 0]]
  BY <1>1, <1>3, OneView
<1> QED
  BY <1>4 DEF Registry!Start, Settings, Iters

LEMMA NextRefined ==
    ASSUME TypeOK, ListInv, ListInv', NEW i \in Iter,
           IterNext(i), Order' = Order, Settings' = Settings
    PROVE  Registry!Advance(i) \/ Iters' = Iters
<1> DEFINE n == Following(ctx[i])
           L == Len(Order)
<1>1. PICK p \in 0..Len(Order) : IsAt(i, p)
  BY DEF ListInv, Iterating, IterNext
<1>2. /\ L \in Nat /\ DOMAIN Order = 1..L /\ p \in Nat /\ p <= L
      /\ \A k \in 1..L : Order[k] # NULL
  BY HeapAssumption DEF ListInv, Linked
<1>3. /\ ctx[i] \in Context /\ ctx[i].use # "unused"
      /\ ctx' = [ctx EXCEPT ![i] = [ctx[i] EXCEPT !.start = FALSE, !.at = n]]
  BY DEF TypeOK, IterNext
<1>4. ctx'[i].use = ctx[i].use /\ ~ctx'[i].start /\ ctx'[i].at = n
  BY <1>3 DEF TypeOK, Context
<1>5. PositionOf(i) = ViewAt(i, p)
  BY <1>1, <1>2, IsHere, PositionIsView DEF ListInv
<1>6. Iters' = [Iters EXCEPT ![i] = PositionOf(i)']
  <2> DEFINE c == [ctx[i] EXCEPT !.start = FALSE, !.at = n]
  <2>1. ctx' = [ctx EXCEPT ![i] = c]
    BY <1>3
  <2> HIDE DEF c
  <2> QED
    BY <2>1, OneView
<1>7. CASE ~ctx[i].start /\ ctx[i].at = NULL
  <2>1. n = NULL
    BY <1>7 DEF Following
  <2>2. PositionOf(i)' = PositionOf(i)
    BY <1>3, <1>4, <1>7, <2>1 DEF PositionOf, Ended
  <2>3. \A j \in Iter : Iters'[j] = Iters[j]
    BY <1>6, <2>2, ItersAre
  <2> QED
    BY <2>3 DEF Iters
<1>8. CASE ctx[i].start \/ ctx[i].at # NULL
  <2>1. n = IF p = L THEN NULL ELSE Order[p + 1]
    BY <1>1, <1>8, FollowingIs
  <2>2. /\ Iters[i].state \in {"started", "within"} /\ Iters[i].pos = p
    BY <1>1, <1>3, <1>5, <1>8, ItersAre DEF ViewAt, IsAt
  <2>3. Len(Settings) = L
    BY <1>2 DEF Settings
  <2> DEFINE moved == IF p < L THEN [state |-> "within", pos |-> p + 1]
                      ELSE [state |-> "ended", pos |-> 0]
  <2>4. PositionOf(i)' = moved
    <3>1. CASE p = L
      BY <1>3, <1>4, <2>1, <3>1 DEF PositionOf, Ended
    <3>2. CASE p # L
      <4>1. p + 1 \in 1..L /\ p + 1 \in Nat /\ p < L
        <5> HIDE DEF L
        <5> QED
          BY <1>2, <3>2
      <4>2. n = Order[p + 1] /\ n # NULL
        BY <1>2, <2>1, <3>2, <4>1
      <4>3. Here(i, p + 1)'
        BY <1>2, <1>4, <4>1, <4>2 DEF Here
      <4>4. PositionOf(i)' = ViewAt(i, p + 1)'
        BY <4>1, <4>3, PositionIsViewNext DEF ListInv
      <4> QED
        BY <1>3, <1>4, <4>1, <4>2, <4>4 DEF ViewAt
    <3> QED
      BY <3>1, <3>2
  <2>5. Iters' = [Iters EXCEPT ![i] = IF @.pos < Len(Settings)
                     THEN [state |-> "within", pos |-> @.pos + 1]
                     ELSE [state |-> "ended", pos |-> 0]]
    BY <1>6, <2>2, <2>3, <2>4
  <2> QED
    BY <2>2, <2>5 DEF Registry!Advance, Settings, Iters
<1> QED
  BY <1>7, <1>8

LEMMA FreeRefined ==
    ASSUME TypeOK', Free
    PROVE  Registry!Free
<1>1. Order' = <<>>
  BY Emptied
<1>2. Settings' = <<>>
  BY <1>1 DEF Settings
<1>3. Iters' = [i \in Iter |-> [state |-> "unused", pos |-> 0]]
  <2>1. \A i \in Iter : PositionOf(i)' = [state |-> "unused", pos |-> 0]
    BY DEF Free, PositionOf
  <2> QED
    BY <2>1 DEF Iters
<1>4. \A i \in Iter : Iters[i].state \in {"unused", "ended"}
  <2> SUFFICES ASSUME NEW i \in Iter PROVE Iters[i].state \in {"unused", "ended"}
    OBVIOUS
  <2>1. ctx[i].use = "unused" \/ Ended(i)
    BY DEF Free
  <2>2. Iters[i] = PositionOf(i)
    BY ItersAre
  <2> QED
    BY <2>1, <2>2 DEF PositionOf, Ended
<1> QED
  BY <1>2, <1>3, <1>4 DEF Registry!Free, Settings, Iters

LEMMA RegistryInit == Init => Registry!Init
<1> SUFFICES ASSUME Init PROVE Registry!Init
  OBVIOUS
<1>1. Order = <<>>
  <2>1. TypeOK /\ Pointers
    BY TypeInit, TypedPointers
  <2>2. <<>> \in Seq(Node) /\ Chain(<<>>)
    BY DEF Init, Chain
  <2> QED
    BY <2>1, <2>2, OrderIs
<1>2. Settings = <<>>
  BY <1>1 DEF Settings
<1>3. Iters = [i \in Iter |-> [state |-> "unused", pos |-> 0]]
  BY DEF Init, Iters, PositionOf
<1> QED
  BY <1>2, <1>3 DEF Registry!Init, Settings, Iters

LEMMA RegistryStep ==
    ASSUME TypeOK, TypeOK', ListInv, ListInv', [Next]_vars
    PROVE  [Registry!Next]_<<Settings, Iters>>
<1>1. CASE Grows
  <2>1. \E id \in Id, key \in Key : Registry!Add(id, key)
    BY <1>1, AddRefined
  <2> QED
    BY <2>1 DEF Registry!Next
<1>2. CASE Free
  BY <1>2, FreeRefined DEF Registry!Next
<1>3. CASE ~Grows /\ ~Free
  <2>1. Order' = Order /\ \A n \in Listed : us'[n] = us[n]
    BY <1>3, Steady
  <2>2. Settings' = Settings
    BY <2>1, SettingsKept
  <2>3. ASSUME NEW i \in Iter, NEW use \in {"all", "changed"}, IterStart(i, use)
        PROVE  Registry!Next
    BY <2>1, <2>2, <2>3, StartRefined DEF Registry!Next
  <2>4. ASSUME NEW i \in Iter, IterNext(i)
        PROVE  Registry!Next \/ Iters' = Iters
    BY <2>1, <2>2, <2>4, NextRefined DEF Registry!Next
  <2>5. CASE ctx' = ctx
    BY <2>1, <2>2, <2>5, ItersKept
  <2>6. \/ ctx' = ctx
        \/ \E i \in Iter, use \in {"all", "changed"} : IterStart(i, use)
        \/ \E i \in Iter : IterNext(i)
    BY <1>3 DEF Next, Grows, Add, AddStruct, AddBlock, LinkFirst, SetTail, Flag, vars
  <2> QED
    BY <2>2, <2>3, <2>4, <2>5, <2>6
<1> QED
  BY <1>1, <1>2, <1>3

\* The pointers implement the registry: a setting is added by the one write
\* that links it, an iterator goes to the next setting of the sequence, and no
\* other step shows.
THEOREM Refinement == Spec => ImplementsRegistry
<1>1. Init => TypeOK /\ ListInv /\ Registry!Init
  BY TypeInit, InvInit, RegistryInit
<1>2. TypeOK /\ ListInv /\ [Next]_vars => TypeOK' /\ ListInv'
  BY InvStep
<1>3. TypeOK /\ ListInv /\ TypeOK' /\ ListInv' /\ [Next]_vars
          => [Registry!Next]_<<Settings, Iters>>
  BY RegistryStep
<1> QED
  BY <1>1, <1>2, <1>3, PTL
     DEF Spec, ImplementsRegistry, Registry!Spec, Settings, Iters

=============================================================================
