------------------------- MODULE TypedSetting_proofs ------------------------
(***************************************************************************)
(* The bytes of a setting outlive reboots and upgrades, what has the       *)
(* length of its type is in its range, and the texts of the front ends     *)
(* stand for the bytes they were made of.                                  *)
(***************************************************************************)
EXTENDS TypedSettingInv, TLAPS

-----------------------------------------------------------------------------
(* Quotients and remainders *)

LEMMA QuotientIs ==
    ASSUME NEW n \in Int, NEW d \in Nat \ {0}
    PROVE  n \div d \in Int /\ n % d \in 0..(d - 1) /\ n = d * (n \div d) + (n % d)
OBVIOUS

LEMMA ProductAtLeast ==
    ASSUME NEW d \in Nat \ {0}, NEW k \in Int, k >= 1
    PROVE  d * k >= d
OBVIOUS

\* Quotient and remainder are the only numbers with their sum.
LEMMA QuotientBelow ==
    ASSUME NEW d \in Nat \ {0}, NEW p \in Int, NEW q \in Int,
           NEW r \in 0..(d - 1), NEW s \in 0..(d - 1), d * p + r = d * q + s
    PROVE  ~(p < q)
<1> SUFFICES ASSUME p < q PROVE FALSE
  OBVIOUS
<1> DEFINE k == q - p
<1>1. k \in Int /\ k >= 1 /\ q = p + k
  OBVIOUS
<1> HIDE DEF k
<1>2. d * q = d * p + d * k
  BY <1>1
<1>3. d * k >= d
  BY <1>1, ProductAtLeast
<1>4. d * k \in Int /\ d * p \in Int
  BY <1>1
<1> QED
  BY <1>2, <1>3, <1>4

LEMMA QuotientIsUnique ==
    ASSUME NEW n \in Int, NEW d \in Nat \ {0}, NEW q \in Int, NEW r \in 0..(d - 1),
           n = d * q + r
    PROVE  n \div d = q /\ n % d = r
<1> DEFINE p == n \div d   s == n % d
<1>1. p \in Int /\ s \in 0..(d - 1) /\ n = d * p + s
  BY QuotientIs
<1> HIDE DEF p, s
<1>2. ~(p < q) /\ ~(q < p)
  BY <1>1, QuotientBelow
<1>3. p = q
  BY <1>1, <1>2
<1>4. s = r
  <2>1. d * q \in Int
    OBVIOUS
  <2> HIDE <1>2
  <2> QED
    BY <1>1, <1>3, <2>1
<1> QED
  BY <1>3, <1>4 DEF p, s

LEMMA RemainderPlus ==
    ASSUME NEW n \in Int, NEW d \in Nat \ {0}, NEW t \in Int
    PROVE  (n + d * t) % d = n % d
<1> DEFINE q == n \div d   r == n % d   m == n + d * t   u == q + t
<1>1. q \in Int /\ r \in 0..(d - 1) /\ n = d * q + r
  BY QuotientIs
<1>2. u \in Int /\ m \in Int /\ d * u = d * q + d * t
  BY <1>1
<1>3. m = d * u + r
  BY <1>1, <1>2
<1> HIDE DEF m, u, r
<1>4. m % d = r
  BY <1>1, <1>2, <1>3, QuotientIsUnique
<1> QED
  BY <1>4 DEF m, r

LEMMA RemaindersAgree ==
    ASSUME NEW n \in Int, NEW m \in Int, NEW d \in Nat \ {0}, n % d = m % d
    PROVE  \E t \in Int : n = m + d * t
<1> DEFINE p == n \div d   q == m \div d   r == m % d   t == p - q
<1>1. p \in Int /\ q \in Int /\ r \in 0..(d - 1) /\ n = d * p + r /\ m = d * q + r
  BY QuotientIs
<1>2. t \in Int /\ p = q + t
  BY <1>1
<1> HIDE DEF p, q, r, t
<1>3. d * p = d * q + d * t /\ d * q \in Int /\ d * t \in Int
  BY <1>1, <1>2
<1>4. n = m + d * t
  BY <1>1, <1>3
<1> QED
  BY <1>2, <1>4

\* One digit more: what n % (P * R) and its quotient are made of.
LEMMA NextDigit ==
    ASSUME NEW n \in Int, NEW P \in Nat \ {0}, NEW R \in Nat \ {0}
    PROVE  n % (P * R) = (n % P) + ((n \div P) % R) * P
<1> DEFINE q == n \div P   r == n % P   q2 == q \div R   d == q % R
           m == P * R      low == P * d + r
<1>1. q \in Int /\ r \in 0..(P - 1) /\ n = P * q + r
  BY QuotientIs
<1>2. q2 \in Int /\ d \in 0..(R - 1) /\ q = R * q2 + d
  BY <1>1, QuotientIs
<1> HIDE DEF q, r, q2, d
<1>3. m \in Nat \ {0}
  <2>1. P * R >= P
    BY ProductAtLeast
  <2> QED
    BY <2>1
<1>4. low \in 0..(m - 1)
  <2> DEFINE s == R - d
  <2>1. s \in Int /\ s >= 1 /\ R = d + s
    BY <1>2
  <2> HIDE DEF s
  <2>2. P * R = P * d + P * s /\ P * d \in Int /\ P * s \in Int
    BY <1>2, <2>1
  <2>3. P * s >= P
    BY <2>1, ProductAtLeast
  <2>4. P * d >= 0
    BY <1>2
  <2> QED
    BY <1>1, <2>2, <2>3, <2>4
<1>5. n = m * q2 + low
  <2>1. P * q = P * (R * q2) + P * d
    BY <1>2
  <2>2. P * (R * q2) = (P * R) * q2
    BY <1>2
  <2>3. P * (R * q2) \in Int /\ P * d \in Int
    BY <1>2
  <2> QED
    BY <1>1, <2>1, <2>2, <2>3
<1> HIDE DEF m, low
<1>6. n % m = low
  BY <1>2, <1>3, <1>4, <1>5, QuotientIsUnique
<1>7. low = r + d * P
  BY <1>1, <1>2 DEF low
<1> QED
  BY <1>6, <1>7 DEF m, r, d, q

LEMMA LastDigit ==
    ASSUME NEW R \in Nat \ {0}, NEW d \in 0..(R - 1), NEW t \in Int
    PROVE  (d + R * t) % R = d
<1> DEFINE u == d + R * t
<1>1. u \in Int /\ u = R * t + d
  OBVIOUS
<1> HIDE DEF u
<1>2. u % R = d
  BY <1>1, QuotientIsUnique
<1> QED
  BY <1>2 DEF u

\* The digits of a number, from the rest that follows them.
LEMMA DigitOf ==
    ASSUME NEW P \in Nat \ {0}, NEW R \in Nat \ {0},
           NEW l \in 0..(P - 1), NEW d \in 0..(R - 1), NEW t \in Int
    PROVE  /\ ((l + d * P) + (P * R) * t) \div P = d + R * t
           /\ (l + d * P) + (P * R) * t = l + P * (d + R * t)
<1> DEFINE u == d + R * t   x == (l + d * P) + (P * R) * t
<1>1. u \in Int /\ u = R * t + d
  OBVIOUS
<1>2. P * u = P * (R * t) + P * d /\ P * (R * t) = (P * R) * t /\ P * d = d * P
  OBVIOUS
<1>3. P * (R * t) \in Int /\ P * d \in Int /\ P * u \in Int
  BY <1>1
<1>4. x \in Int /\ x = P * u + l
  <2>1. x = (l + d * P) + (P * R) * t
    OBVIOUS
  <2> HIDE DEF u, x
  <2> QED
    BY <1>2, <1>3, <2>1
<1> HIDE DEF u, x
<1>5. x \div P = u
  BY <1>1, <1>4, QuotientIsUnique
<1>6. x = l + P * u
  BY <1>3, <1>4
<1> QED
  BY <1>1, <1>5, <1>6 DEF u, x

LEMMA RemainderIs ==
    ASSUME NEW d \in Nat \ {0}, NEW r \in 0..(d - 1)
    PROVE  r % d = r
<1>1. r = d * 0 + r /\ r \in Int
  OBVIOUS
<1> QED
  BY <1>1, QuotientIsUnique

LEMMA RemainderOfMultiple ==
    ASSUME NEW x \in Int, NEW y \in Int, NEW d \in Nat \ {0}, NEW Q \in Int,
           d * Q \in Nat \ {0}, x % (d * Q) = y % (d * Q)
    PROVE  x % d = y % d
<1>1. PICK t \in Int : x = y + (d * Q) * t
  BY RemaindersAgree
<1>2. (d * Q) * t = d * (Q * t) /\ Q * t \in Int
  BY <1>1
<1>3. x = y + d * (Q * t)
  BY <1>1, <1>2
<1> QED
  BY <1>2, <1>3, RemainderPlus

LEMMA HalfIs ==
    ASSUME NEW n \in Nat
    PROVE  n \div 2 \in Nat /\ \A i \in 1..(n \div 2) : 2 * i - 1 \in 1..n /\ 2 * i \in 1..n
<1> DEFINE q == n \div 2   r == n % 2
<1>1. q \in Int /\ r \in 0..1 /\ n = 2 * q + r
  BY QuotientIs
<1> HIDE DEF q, r
<1>2. q \in Nat /\ \A i \in 1..q : 2 * i - 1 \in 1..n /\ 2 * i \in 1..n
  BY <1>1
<1> QED
  BY <1>2 DEF q

-----------------------------------------------------------------------------
(* Places of bytes *)

LEMMA PlaceIs ==
    /\ Place[0] = 1
    /\ \A k \in 1..8 : Place[k] = Place[k - 1] * Radix
<1> DEFINE Body(f) == [k \in 0..8 |-> IF k = 0 THEN 1 ELSE f[k - 1] * Radix]
           r1 == 1 * Radix   r2 == r1 * Radix   r3 == r2 * Radix   r4 == r3 * Radix
           r5 == r4 * Radix   r6 == r5 * Radix   r7 == r6 * Radix   r8 == r7 * Radix
           h == [k \in 0..8 |->
                    CASE k = 0 -> 1 [] k = 1 -> r1 [] k = 2 -> r2 [] k = 3 -> r3
                      [] k = 4 -> r4 [] k = 5 -> r5 [] k = 6 -> r6 [] k = 7 -> r7
                      [] k = 8 -> r8]
<1>1. h = Body(h)
  <2>1. /\ r1 = 1 * Radix /\ r2 = r1 * Radix /\ r3 = r2 * Radix /\ r4 = r3 * Radix
        /\ r5 = r4 * Radix /\ r6 = r5 * Radix /\ r7 = r6 * Radix /\ r8 = r7 * Radix
    OBVIOUS
  <2> HIDE DEF r1, r2, r3, r4, r5, r6, r7, r8
  <2>2. /\ h[0] = 1 /\ h[1] = r1 /\ h[2] = r2 /\ h[3] = r3 /\ h[4] = r4
        /\ h[5] = r5 /\ h[6] = r6 /\ h[7] = r7 /\ h[8] = r8
    OBVIOUS
  <2>3. \A k \in 0..8 : h[k] = IF k = 0 THEN 1 ELSE h[k - 1] * Radix
    <3> SUFFICES ASSUME NEW k \in 1..8 PROVE h[k] = h[k - 1] * Radix
      BY <2>2
    <3> HIDE DEF h
    <3>1. k \in {1, 2, 3, 4, 5, 6, 7, 8}
      OBVIOUS
    <3> QED
      BY <2>1, <2>2, <3>1
  <2>4. h = [k \in 0..8 |-> h[k]]
    OBVIOUS
  <2> HIDE DEF h
  <2> QED
    BY <2>3, <2>4
<1>2. Place = CHOOSE f : f = Body(f)
  BY Zenon DEF Place
<1>3. Place = Body(Place)
  <2> HIDE DEF Body, h
  <2> QED
    BY <1>1, <1>2, Zenon
<1> QED
  BY <1>3

LEMMA PlacesArePositive ==
    \A k \in 0..8 : Place[k] \in Nat \ {0}
<1>1. /\ Place[0] = 1
      /\ \A k \in 1..8 : Place[k] = Place[k - 1] * Radix
  BY PlaceIs
<1>2. \A n, r \in Nat \ {0} : n * r \in Nat \ {0}
  OBVIOUS
<1>3. \A k \in 1..8 : Place[k - 1] \in Nat \ {0} => Place[k] \in Nat \ {0}
  BY <1>1, <1>2, TypedAssumption
<1>4. Place[0] \in Nat \ {0} /\ Place[1] \in Nat \ {0}
  BY <1>1, <1>3
<1>5. Place[2] \in Nat \ {0} /\ Place[3] \in Nat \ {0}
  BY <1>3, <1>4
<1>6. Place[4] \in Nat \ {0} /\ Place[5] \in Nat \ {0}
  BY <1>3, <1>5
<1>7. Place[6] \in Nat \ {0} /\ Place[7] \in Nat \ {0}
  BY <1>3, <1>6
<1>8. Place[8] \in Nat \ {0}
  BY <1>3, <1>7
<1> QED
  BY <1>4, <1>5, <1>6, <1>7, <1>8

LEMMA PlaceTimes ==
    ASSUME NEW k \in 1..8
    PROVE  /\ Place[k - 1] \in Nat \ {0} /\ Place[k] \in Nat \ {0}
           /\ Place[k] = Place[k - 1] * Radix
<1>1. k - 1 \in 0..8 /\ k \in 0..8
  OBVIOUS
<1> QED
  BY <1>1, PlaceIs, PlacesArePositive, Zenon

-----------------------------------------------------------------------------
(* Buffers *)

LEMMA FunctionIsSeq ==
    ASSUME NEW S, NEW n \in Nat, NEW f \in [1..n -> S]
    PROVE  f \in Seq(S) /\ Len(f) = n
OBVIOUS

LEMMA SeqIs ==
    ASSUME NEW S, NEW s \in Seq(S)
    PROVE  Len(s) \in Nat /\ \A j \in 1..Len(s) : s[j] \in S
OBVIOUS

LEMMA ByteIs ==
    ASSUME NEW ty \in Types
    PROVE  Byte(ty) \subseteq Nat /\ 0 \in Byte(ty) /\ (ty \in Fixed <=> ty \notin Sized)
BY TypedAssumption DEF Byte, Fixed, Unsigned, Signed, Sized

LEMMA MemoryIs ==
    ASSUME NEW S, 0 \in S, NEW p \in Seq(S), NEW n \in Nat
    PROVE  /\ Memory(p, n) \in Seq(S) /\ Len(Memory(p, n)) = n
           /\ \A i \in 1..n : Memory(p, n)[i] = IF i <= Len(p) THEN p[i] ELSE 0
           /\ Len(p) <= n => SubSeq(Memory(p, n), 1, Len(p)) = p
<1>1. \A i \in 1..n : (IF i <= Len(p) THEN p[i] ELSE 0) \in S
  OBVIOUS
<1>2. /\ Memory(p, n) \in Seq(S) /\ Len(Memory(p, n)) = n
      /\ \A i \in 1..n : Memory(p, n)[i] = IF i <= Len(p) THEN p[i] ELSE 0
  BY <1>1 DEF Memory
<1> QED
  BY <1>2

LEMMA OverwrittenIs ==
    ASSUME NEW S, NEW p \in Seq(S), buf \in Seq(S), max \in Nat, Len(buf) = max,
           Len(p) <= max
    PROVE  /\ Overwritten(p) \in Seq(S) /\ Len(Overwritten(p)) = max
           /\ SubSeq(Overwritten(p), 1, Len(p)) = p
<1>1. \A i \in 1..max : (IF i <= Len(p) THEN p[i] ELSE buf[i]) \in S
  OBVIOUS
<1>2. /\ Overwritten(p) \in Seq(S) /\ Len(Overwritten(p)) = max
      /\ \A i \in 1..max : Overwritten(p)[i] = IF i <= Len(p) THEN p[i] ELSE buf[i]
  BY <1>1 DEF Overwritten
<1> QED
  BY <1>2

\* The sizes a firmware may give a setting.
LEMMA SizesAre ==
    ASSUME NEW ty \in Types, NEW m \in Sizes(ty)
    PROVE  m \in Nat \ {0} /\ (ty \in Fixed => m = Size(ty))
BY TypedAssumption DEF Sizes, Size, Fixed, Unsigned, Signed, Sized

-----------------------------------------------------------------------------
(* The payloads of the callers *)

LEMMA HexPairIs ==
    ASSUME NEW c \in Nat, NEW d \in Nat
    PROVE  (HexDigit(c) * 16 + HexDigit(d)) % 256 \in 0..255
<1>1. HexDigit(c) \in Nat /\ HexDigit(d) \in Nat
  BY DEF HexDigit
<1> QED
  BY <1>1

LEMMA TextPayloadIs ==
    ASSUME NEW ty \in Sized, NEW text \in Seq(1..255)
    PROVE  TextPayload(ty, text) \in Seq(Byte(ty))
<1>1. Byte(ty) = 0..255
  BY DEF Byte
<1>2. text \o <<0>> \in Seq(0..255)
  <2>1. text \in Seq(0..255) /\ <<0>> \in Seq(0..255)
    OBVIOUS
  <2> QED
    BY <2>1
<1>3. FromHex(text) \in Seq(0..255)
  <2>1. Len(text) \div 2 \in Nat /\ \A i \in 1..(Len(text) \div 2) :
            text[2 * i - 1] \in Nat /\ text[2 * i] \in Nat
    <3> DEFINE n == Len(text)
    <3>1. n \in Nat /\ \A j \in 1..n : text[j] \in Nat
      <4>1. Len(text) \in Nat /\ \A j \in 1..Len(text) : text[j] \in 1..255
        BY SeqIs, Zenon
      <4>2. \A c \in 1..255 : c \in Nat
        OBVIOUS
      <4> QED
        BY <4>1, <4>2, Zenon
    <3> HIDE DEF n
    <3>2. n \div 2 \in Nat
      BY <3>1, HalfIs
    <3>3. \A i \in 1..(n \div 2) : 2 * i - 1 \in 1..n /\ 2 * i \in 1..n
      BY <3>1, HalfIs
    <3>4. \A i \in 1..(n \div 2) : text[2 * i - 1] \in Nat /\ text[2 * i] \in Nat
      BY <3>1, <3>3, Zenon
    <3> QED
      BY <3>2, <3>4 DEF n
  <2>2. \A i \in 1..(Len(text) \div 2) :
            (HexDigit(text[2 * i - 1]) * 16 + HexDigit(text[2 * i])) % 256 \in 0..255
    BY <2>1, HexPairIs, Zenon
  <2>3. FromHex(text) \in [1..(Len(text) \div 2) -> 0..255]
    BY <2>2, Zenon DEF FromHex
  <2> QED
    BY <2>1, <2>3, FunctionIsSeq, Zenon
<1> QED
  BY <1>1, <1>2, <1>3 DEF TextPayload

LEMMA SizeIs ==
    ASSUME NEW ty \in Fixed
    PROVE  Size(ty) \in {1, 2, 4, 8} /\ Byte(ty) = 0..(Radix - 1)
BY DEF Size, Byte, Fixed, Unsigned, Signed, Sized

LEMMA StoredIs ==
    ASSUME NEW n \in Int, NEW ty \in Fixed
    PROVE  Stored(n, ty) \in Seq(Byte(ty)) /\ Len(Stored(n, ty)) = Size(ty)
<1>1. Size(ty) \in 1..8 /\ Byte(ty) = 0..(Radix - 1)
  BY SizeIs
<1>2. \A i \in 1..Size(ty) : (n \div Place[i - 1]) % Radix \in 0..(Radix - 1)
  <2> SUFFICES ASSUME NEW i \in 1..Size(ty)
               PROVE  (n \div Place[i - 1]) % Radix \in 0..(Radix - 1)
    OBVIOUS
  <2>1. i - 1 \in 0..8
    BY <1>1
  <2>2. Place[i - 1] \in Nat \ {0}
    BY <2>1, PlacesArePositive
  <2>3. n \div Place[i - 1] \in Int
    BY <2>2
  <2> QED
    BY <2>3, TypedAssumption
<1>3. Size(ty) \in Nat
  BY <1>1
<1>4. Stored(n, ty) \in [1..Size(ty) -> 0..(Radix - 1)]
  BY <1>2 DEF Stored
<1> QED
  BY <1>1, <1>3, <1>4, FunctionIsSeq, Zenon

LEMMA CastIs ==
    ASSUME NEW n \in Int, NEW ty \in Fixed
    PROVE  Cast(n, ty) \in Int /\ Clamped(n, ty) \in Int
<1>1. Modulus(ty) \in Nat \ {0}
  BY PlacesArePositive DEF Modulus, Size, Fixed, Unsigned, Signed
<1>2. Smallest(ty) \in Int /\ Largest(ty) \in Int
  BY <1>1 DEF Smallest, Largest
<1>3. (n - Smallest(ty)) % Modulus(ty) \in Int
  BY <1>1, <1>2
<1> QED
  BY <1>2, <1>3 DEF Cast, Clamped

\* Whoever sets the setting, the payload is a sequence of bytes.
LEMMA Payloads ==
    ASSUME TypedVars, Next
    PROVE  \/ \E p \in Seq(Byte(type)) : Set(p)
           \/ ret' = "EINVAL" /\ UNCHANGED <<type, max, check, buf, len, isSet, nvs>>
           \/ \E m \in Sizes(type) : Boot(m)
<1>1. type \in Types /\ type \in Fixed \cup Sized
  BY TypedAssumption DEF TypedVars
<1>2. CASE SetRaw
  BY <1>1, <1>2, InputAssumption DEF SetRaw
<1>3. ASSUME NEW item \in Items, ShellSet(item) PROVE \E p \in Seq(Byte(type)) : Set(p)
  <2>1. ShellPayload(type, item) \in Seq(Byte(type))
    <3>1. CASE type \in Sized
      <4>1. item.text \in Seq(1..255)
        BY <1>3, <3>1, InputAssumption DEF Items, ShellSet, ShellTakes
      <4> QED
        BY <3>1, <4>1, TextPayloadIs DEF ShellPayload
    <3>2. CASE type \notin Sized
      <4>1. item.n \in Int /\ type \in Fixed
        BY <1>1, <1>3, <3>2, InputAssumption DEF Items, ShellSet, ShellTakes
      <4>2. Parsed(item.n, type) \in Int
        BY <4>1, CastIs DEF Parsed, Fixed, Signed
      <4> QED
        BY <3>2, <4>1, <4>2, CastIs, StoredIs DEF ShellPayload
    <3> QED
      BY <3>1, <3>2
  <2> QED
    BY <1>3, <2>1 DEF ShellSet
<1>4. ASSUME NEW item \in Items, JsonTakes(type, item), Set(JsonPayload(type, item))
      PROVE  \E p \in Seq(Byte(type)) : Set(p)
  <2>1. JsonPayload(type, item) \in Seq(Byte(type))
    <3>1. CASE type \in Sized
      <4>1. item.text \in Seq(1..255)
        BY <1>4, <3>1, InputAssumption
           DEF Items, JsonTakes, Sized, Unsigned, Signed
      <4> QED
        BY <3>1, <4>1, TextPayloadIs DEF JsonPayload
    <3>2. CASE type \notin Sized
      <4>1. item.n \in Int /\ type \in Fixed
        <5>1. item.kind \in {"bool", "number"} /\ type \in Fixed
          BY <1>1, <1>4, <3>2 DEF JsonTakes
        <5>2. item \in [kind : {"number"}, n : Numbers] \cup [kind : {"bool"}, n : {0, 1}]
          BY <5>1 DEF Items
        <5>3. item.n \in Numbers \cup {0, 1}
          BY <5>2
        <5>4. Numbers \cup {0, 1} \subseteq Int
          BY InputAssumption
        <5> QED
          BY <5>1, <5>3, <5>4
      <4>2. Clamped(item.n, "i32") \in Int
        BY <4>1, CastIs DEF Fixed, Signed
      <4> QED
        BY <3>2, <4>1, <4>2, CastIs, StoredIs DEF JsonPayload
    <3> QED
      BY <3>1, <3>2
  <2> QED
    BY <1>4, <2>1
<1> QED
  BY <1>2, <1>3, <1>4 DEF Next, JsonSet

-----------------------------------------------------------------------------
(* The invariant *)

LEMMA InvInit == Init => TypedInv
<1> SUFFICES ASSUME Init PROVE TypedInv
  OBVIOUS
<1>1. max \in Nat \ {0}
  BY SizesAre DEF Init
<1>2. buf \in Seq(Byte(type)) /\ Len(buf) = max
  <2>1. <<>> \in Seq(Byte(type))
    OBVIOUS
  <2> QED
    BY <1>1, <2>1, ByteIs, MemoryIs DEF Init
<1>3. len = 0 /\ isSet = FALSE /\ nvs = NULL /\ ret = "none"
  BY DEF Init
<1>4. TypedVars
  <2>1. isSet \in BOOLEAN
    BY <1>3
  <2>2. type \in Types /\ check \in Checks[type] /\ max \in Sizes(type)
    BY DEF Init
  <2> QED
    BY <1>2, <1>3, <2>1, <2>2 DEF TypedVars
<1> QED
  BY <1>1, <1>2, <1>3, <1>4 DEF TypedInv, BufferIsStored, StoredIsValid

\* A set replaces the first bytes of the buffer and the entry, or neither.
LEMMA InvSet ==
    ASSUME TypedInv, NEW p \in Seq(Byte(type)), Set(p)
    PROVE  TypedInv'
<1>1. max \in Nat \ {0} /\ Len(p) \in Nat
  BY SizesAre DEF TypedInv, TypedVars
<1>2. UNCHANGED <<type, max, check>>
  BY DEF Set
<1>3. CASE UNCHANGED <<buf, len, isSet, nvs>>
  <2>1. ret' \in {"ok", "ENOMEM", "EINVAL"}
    BY DEF Set
  <2> QED
    BY <1>2, <1>3, <2>1
       DEF TypedInv, TypedVars, BufferIsStored, StoredIsValid, Valid
<1>4. CASE p = <<>> /\ ret' = "ok" /\ nvs' = NULL /\ UNCHANGED <<buf, len, isSet>>
  BY <1>2, <1>4 DEF TypedInv, TypedVars, BufferIsStored, StoredIsValid
<1>5. CASE /\ Len(p) <= max /\ p # <<>> /\ Valid(p) /\ ret' = "ok" /\ nvs' = p
           /\ buf' = Overwritten(p) /\ len' = Len(p) /\ isSet' = TRUE
  <2>1. /\ buf' \in Seq(Byte(type)) /\ Len(buf') = max
        /\ SubSeq(buf', 1, len') = p
    BY <1>1, <1>5, OverwrittenIs DEF TypedInv, TypedVars, BufferIsStored
  <2>2. Len(p) > 0
    BY <1>1, <1>5
  <2>3. StoredIsValid'
    BY <1>2, <1>5 DEF StoredIsValid, Valid
  <2> QED
    BY <1>1, <1>2, <1>5, <2>1, <2>2, <2>3 DEF TypedInv, TypedVars, BufferIsStored
<1> QED
  BY <1>3, <1>4, <1>5 DEF Set

\* A boot reads the entry back, if it fits.
LEMMA BootReads ==
    ASSUME TypedInv, NEW m \in Sizes(type), Boot(m)
    PROVE  /\ buf' \in Seq(Byte(type)) /\ Len(buf') = m /\ m \in Nat \ {0}
           /\ nvs' = nvs /\ nvs # NULL => nvs \in Seq(Byte(type)) /\ Len(nvs) > 0
           /\ Loadable(m) => buf' = Memory(nvs, m) /\ len' = Len(nvs)
                             /\ SubSeq(buf', 1, len') = nvs
           /\ ~Loadable(m) => len' = 0
           /\ isSet' \in BOOLEAN /\ (isSet' <=> Loadable(m))
<1>1. m \in Nat \ {0}
  BY SizesAre DEF TypedInv, TypedVars
<1>2. type \in Types /\ (nvs # NULL => nvs \in Seq(Byte(type)) /\ Len(nvs) > 0)
  BY DEF TypedInv, TypedVars
<1>3. Loadable(m) => /\ buf' = Memory(nvs, m) /\ len' = Len(nvs)
                     /\ SubSeq(buf', 1, len') = nvs /\ buf' \in Seq(Byte(type)) /\ Len(buf') = m
  <2> SUFFICES ASSUME Loadable(m)
               PROVE  /\ buf' = Memory(nvs, m) /\ len' = Len(nvs)
                      /\ SubSeq(buf', 1, len') = nvs /\ buf' \in Seq(Byte(type)) /\ Len(buf') = m
    OBVIOUS
  <2>1. nvs \in Seq(Byte(type)) /\ Len(nvs) <= m
    BY <1>2 DEF Loadable
  <2>2. buf' = Memory(nvs, m) /\ len' = Len(nvs)
    BY DEF Boot
  <2>3. Memory(nvs, m) \in Seq(Byte(type)) /\ Len(Memory(nvs, m)) = m
        /\ SubSeq(Memory(nvs, m), 1, Len(nvs)) = nvs
    BY <1>1, <1>2, <2>1, ByteIs, MemoryIs
  <2> QED
    BY <2>2, <2>3
<1>4. ~Loadable(m) => buf' = Memory(<<>>, m) /\ len' = 0
  BY DEF Boot
<1>5. isSet' \in BOOLEAN /\ (isSet' <=> Loadable(m)) /\ nvs' = nvs
  BY DEF Boot, Loadable
<1>6. Memory(<<>>, m) \in Seq(Byte(type)) /\ Len(Memory(<<>>, m)) = m
  <2>1. <<>> \in Seq(Byte(type))
    OBVIOUS
  <2> QED
    BY <1>1, <1>2, <2>1, ByteIs, MemoryIs
<1> QED
  BY <1>1, <1>2, <1>3, <1>4, <1>5, <1>6

LEMMA InvBoot ==
    ASSUME TypedInv, NEW m \in Sizes(type), Boot(m)
    PROVE  TypedInv'
<1>1. UNCHANGED <<type, check, nvs>> /\ max' = m /\ ret' = "none"
  BY DEF Boot
<1>2. TypedVars'
  BY <1>1, BootReads DEF TypedInv, TypedVars, Loadable
<1>3. BufferIsStored'
  BY <1>1, BootReads DEF BufferIsStored, Loadable
<1>4. StoredIsValid'
  BY <1>1 DEF TypedInv, StoredIsValid, Valid
<1> QED
  BY <1>2, <1>3, <1>4 DEF TypedInv

LEMMA InvStep == TypedInv /\ [Next]_vars => TypedInv'
<1> SUFFICES ASSUME TypedInv, [Next]_vars PROVE TypedInv'
  OBVIOUS
<1>1. CASE ret' \in {ret, "EINVAL"} /\ UNCHANGED <<type, max, check, buf, len, isSet, nvs>>
  BY <1>1 DEF TypedInv, TypedVars, BufferIsStored, StoredIsValid, Valid
<1>2. CASE Next
  BY <1>1, <1>2, Payloads, InvSet, InvBoot DEF TypedInv
<1> QED
  BY <1>1, <1>2 DEF vars

\* RAM, flash and the validation callback agree at every step of every caller.
THEOREM TypedInvariant == Spec => []TypedInv
BY InvInit, InvStep, PTL DEF Spec

\* The buffer keeps its size, and its first bytes are the entry in flash.
THEOREM BufferStored == Spec => []BufferIsStored
<1>1. TypedInv => BufferIsStored
  BY DEF TypedInv
<1> QED
  BY <1>1, TypedInvariant, PTL

-----------------------------------------------------------------------------
(* Reading *)

\* A value with the length of its type fills its buffer.
LEMMA WholeFills ==
    ASSUME TypedInv, isSet, nvs # NULL, type \in Fixed, len = Size(type)
    PROVE  /\ buf = nvs /\ Len(nvs) = len /\ max = len
           /\ Memory(nvs, Size(type)) = buf /\ Memory(nvs, max) = buf
<1>1. max = Size(type) /\ max \in Nat /\ type \in Types
  BY SizesAre DEF TypedInv, TypedVars
<1>2. buf \in Seq(Byte(type)) /\ Len(buf) = max /\ nvs = SubSeq(buf, 1, len)
  BY DEF TypedInv, TypedVars, BufferIsStored
<1>3. buf = nvs /\ nvs \in Seq(Byte(type)) /\ Len(nvs) = max
  BY <1>1, <1>2
<1>4. Memory(nvs, max) = buf
  <2>1. /\ Memory(nvs, max) \in Seq(Byte(type)) /\ Len(Memory(nvs, max)) = max
        /\ \A i \in 1..max : Memory(nvs, max)[i] = nvs[i]
    <3>1. max \in Nat
      BY <1>1
    <3>2. /\ Memory(nvs, max) \in Seq(Byte(type)) /\ Len(Memory(nvs, max)) = max
          /\ \A i \in 1..max : Memory(nvs, max)[i] = IF i <= Len(nvs) THEN nvs[i] ELSE 0
      BY <1>1, <1>3, <3>1, ByteIs, MemoryIs
    <3> QED
      BY <1>3, <3>1, <3>2
  <2> QED
    BY <1>1, <1>3, <2>1
<1> QED
  BY <1>1, <1>2, <1>3, <1>4

\* A consumer reads after a reboot what it read before.
THEOREM RebootSurvived == Spec => []ReadsSurviveReboot
<1>1. TypedInv => ReadsSurviveReboot
  <2> SUFFICES ASSUME TypedInv, isSet, nvs # NULL, Whole \/ check.kind = "exact"
               PROVE  Reading(buf, len) = Reading(Memory(nvs, max), Len(nvs))
    BY DEF ReadsSurviveReboot
  <2>1. /\ buf \in Seq(Byte(type)) /\ Len(buf) = max /\ len \in Nat /\ len <= max
        /\ nvs = SubSeq(buf, 1, len) /\ max \in Nat /\ nvs \in Seq(Byte(type))
        /\ type \in Types
    BY SizesAre DEF TypedInv, TypedVars, BufferIsStored
  <2>2. Len(nvs) = len
    BY <2>1
  <2>3. CASE type \in Fixed
    <3>1. len = Size(type)
      <4>1. CASE Whole
        BY <2>3, <4>1 DEF Whole
      <4>2. CASE check.kind = "exact"
        <5>1. Len(nvs) = check.size
          BY <4>2 DEF TypedInv, StoredIsValid, Valid, ExactSize
        <5>2. check.size = Size(type)
          BY <2>3, <4>2, CheckAssumption DEF TypedInv, TypedVars
        <5> QED
          BY <2>2, <5>1, <5>2
      <4> QED
        BY <4>1, <4>2
    <3> QED
      BY <2>3, <3>1, WholeFills DEF Reading
  <2>4. CASE type \notin Fixed
    <3>1. SubSeq(Memory(nvs, max), 1, Len(nvs)) = nvs
      <4>1. 0 \in Byte(type)
        BY <2>1, ByteIs
      <4>2. Len(nvs) <= max
        BY <2>1, <2>2
      <4>3. nvs \in Seq(Byte(type)) /\ max \in Nat
        BY <2>1
      <4> QED
        BY <4>1, <4>2, <4>3, MemoryIs
    <3> QED
      BY <2>1, <2>4, <3>1 DEF Reading
  <2> QED
    BY <2>3, <2>4
<1> QED
  BY <1>1, TypedInvariant, PTL

\* What get returns is in the range of the setting, if it has the length of its
\* type, whoever set it and whatever has booted since.
THEOREM RangeHolds == Spec => []WholeRangeHolds
<1>1. TypedInv => WholeRangeHolds
  <2> SUFFICES ASSUME TypedInv, isSet, Whole, check.kind = "range"
               PROVE  check.lo <= Number(buf, type) /\ Number(buf, type) <= check.hi
    BY DEF WholeRangeHolds
  <2>1. type \in Fixed
    BY CheckAssumption DEF TypedInv, TypedVars, Fixed
  <2>2. nvs # NULL /\ len = Size(type)
    BY <2>1 DEF Whole
  <2>3. Within(Number(Memory(nvs, Size(type)), type), check.lo, check.hi)
    BY <2>2 DEF TypedInv, StoredIsValid, Valid
  <2>4. Memory(nvs, Size(type)) = buf
    BY <2>1, <2>2, WholeFills
  <2> QED
    BY <2>3, <2>4 DEF Within
<1> QED
  BY <1>1, TypedInvariant, PTL

-----------------------------------------------------------------------------
(* Upgrades *)

\* A value outlives the firmware in which it does not fit, and an upgrade that
\* does not decrease max_size keeps it.
THEOREM UpgradeKeeps == Spec => UpgradesKeepValues
<1> DEFINE Body == ret' = "none" =>
             /\ isSet /\ nvs # NULL /\ max <= max' =>
                    isSet' /\ SubSeq(buf', 1, len') = SubSeq(buf, 1, len)
             /\ nvs # NULL /\ Len(nvs) <= max' => SubSeq(buf', 1, len') = nvs
<1>1. TypedInv /\ [Next]_vars => [Body]_vars
  <2> SUFFICES ASSUME TypedInv, Next, ret' = "none" PROVE Body
    OBVIOUS
  <2>1. PICK m \in Sizes(type) : Boot(m)
    BY Payloads DEF TypedInv, Set
  <2>2. max' = m
    BY <2>1 DEF Boot
  <2>3. isSet /\ nvs # NULL /\ max <= max' => Loadable(m) /\ nvs = SubSeq(buf, 1, len)
    <3> SUFFICES ASSUME isSet, nvs # NULL, max <= max'
                 PROVE  Loadable(m) /\ nvs = SubSeq(buf, 1, len)
      OBVIOUS
    <3>1. /\ buf \in Seq(Byte(type)) /\ Len(buf) = max /\ len \in Nat /\ len <= max
          /\ nvs = SubSeq(buf, 1, len) /\ max \in Nat /\ m \in Nat
      BY SizesAre DEF TypedInv, TypedVars, BufferIsStored
    <3>2. Len(nvs) = len
      BY <3>1
    <3> QED
      BY <2>2, <3>1, <3>2 DEF Loadable
  <2>4. nvs # NULL /\ Len(nvs) <= max' => Loadable(m)
    BY <2>2 DEF Loadable
  <2>5. Loadable(m) => isSet' /\ SubSeq(buf', 1, len') = nvs
    BY <2>1, BootReads
  <2> QED
    BY <2>3, <2>4, <2>5
<1>2. UpgradesKeepValues <=> [][Body]_vars
  BY DEF UpgradesKeepValues
<1> QED
  BY <1>1, <1>2, TypedInvariant, PTL DEF Spec

-----------------------------------------------------------------------------
(* Integers and their bytes *)

\* The sums of the recursive function in Low.
Lows(b, n) ==
    CHOOSE low : low = [i \in 0..n |->
                           IF i = 0 THEN 0 ELSE low[i - 1] + b[i] * Place[i - 1]]

LEMMA LowsAre ==
    ASSUME NEW b, NEW n \in 0..8
    PROVE  /\ Low(b, n) = Lows(b, n)[n]
           /\ Lows(b, n)[0] = 0
           /\ \A i \in 1..n : Lows(b, n)[i] = Lows(b, n)[i - 1] + b[i] * Place[i - 1]
<1> DEFINE term(i) == b[i] * Place[i - 1]
           Body(f) == [i \in 0..n |-> IF i = 0 THEN 0 ELSE f[i - 1] + term(i)]
           r1 == 0 + term(1)    r2 == r1 + term(2)   r3 == r2 + term(3)
           r4 == r3 + term(4)   r5 == r4 + term(5)   r6 == r5 + term(6)
           r7 == r6 + term(7)   r8 == r7 + term(8)
           h == [k \in 0..n |->
                    CASE k = 0 -> 0 [] k = 1 -> r1 [] k = 2 -> r2 [] k = 3 -> r3
                      [] k = 4 -> r4 [] k = 5 -> r5 [] k = 6 -> r6 [] k = 7 -> r7
                      [] k = 8 -> r8]
<1>1. h = Body(h)
  <2> HIDE DEF term
  <2>1. /\ r1 = 0 + term(1) /\ r2 = r1 + term(2) /\ r3 = r2 + term(3)
        /\ r4 = r3 + term(4) /\ r5 = r4 + term(5) /\ r6 = r5 + term(6)
        /\ r7 = r6 + term(7) /\ r8 = r7 + term(8)
    OBVIOUS
  <2> HIDE DEF r1, r2, r3, r4, r5, r6, r7, r8
  <2>2. /\ h[0] = 0
        /\ 1 <= n => h[1] = r1
        /\ 2 <= n => h[2] = r2
        /\ 3 <= n => h[3] = r3
        /\ 4 <= n => h[4] = r4
        /\ 5 <= n => h[5] = r5
        /\ 6 <= n => h[6] = r6
        /\ 7 <= n => h[7] = r7
        /\ 8 <= n => h[8] = r8
    OBVIOUS
  <2>3. \A k \in 0..n : h[k] = IF k = 0 THEN 0 ELSE h[k - 1] + term(k)
    <3> HIDE DEF h
    <3> SUFFICES ASSUME NEW k \in 1..n PROVE h[k] = h[k - 1] + term(k)
      BY <2>2
    <3>1. k \in {1, 2, 3, 4, 5, 6, 7, 8} /\ k <= n
      OBVIOUS
    <3> QED
      BY <2>1, <2>2, <3>1
  <2>4. h = [k \in 0..n |-> h[k]]
    OBVIOUS
  <2> HIDE DEF h
  <2> QED
    BY <2>3, <2>4
<1>2. Lows(b, n) = CHOOSE f : f = Body(f)
  BY Zenon DEF Lows
<1>3. Lows(b, n) = Body(Lows(b, n))
  <2> HIDE DEF Body, h
  <2> QED
    BY <1>1, <1>2, Zenon
<1>4. Low(b, n) = Lows(b, n)[n]
  BY Zenon DEF Low, Lows
<1> QED
  BY <1>3, <1>4

\* Byte after byte, up or down, for what has at most eight.
LEMMA UpByteByByte ==
    ASSUME NEW S, NEW n \in 0..8, 0 \in S, \A k \in 1..n : k - 1 \in S => k \in S
    PROVE  \A k \in 0..n : k \in S
<1>1. n >= 1 => 1 \in S
  OBVIOUS
<1>2. n >= 2 => 2 \in S
  BY <1>1
<1>3. n >= 3 => 3 \in S
  BY <1>2
<1>4. n >= 4 => 4 \in S
  BY <1>3
<1>5. n >= 5 => 5 \in S
  BY <1>4
<1>6. n >= 6 => 6 \in S
  BY <1>5
<1>7. n >= 7 => 7 \in S
  BY <1>6
<1>8. n >= 8 => 8 \in S
  BY <1>7
<1>9. 0..n \subseteq {0, 1, 2, 3, 4, 5, 6, 7, 8}
  OBVIOUS
<1> QED
  BY <1>1, <1>2, <1>3, <1>4, <1>5, <1>6, <1>7, <1>8, <1>9

LEMMA DownByteByByte ==
    ASSUME NEW S, NEW n \in 0..8, n \in S, \A k \in 1..n : k \in S => k - 1 \in S
    PROVE  \A k \in 0..n : k \in S
<1> DEFINE T == {j \in 0..n : n - j \in S}
<1>1. 0 \in T
  OBVIOUS
<1>2. \A j \in 1..n : j - 1 \in T => j \in T
  <2> SUFFICES ASSUME NEW j \in 1..n, n - (j - 1) \in S PROVE n - j \in S
    OBVIOUS
  <2>1. n - (j - 1) \in 1..n /\ (n - (j - 1)) - 1 = n - j
    OBVIOUS
  <2> QED
    BY <2>1
<1>3. \A j \in 0..n : j \in T
  <2> HIDE DEF T
  <2> QED
    BY <1>1, <1>2, UpByteByByte
<1> SUFFICES ASSUME NEW k \in 0..n PROVE k \in S
  OBVIOUS
<1>4. n - k \in 0..n /\ n - (n - k) = k
  OBVIOUS
<1>5. n - (n - k) \in S
  BY <1>3, <1>4
<1> QED
  BY <1>4, <1>5

\* The bytes of a number add up to its remainder.
LEMMA LowOfStored ==
    ASSUME NEW x \in Int, NEW ty \in Fixed
    PROVE  Low(Stored(x, ty), Size(ty)) = x % Modulus(ty)
<1> DEFINE n == Size(ty)   b == Stored(x, ty)   L == Lows(b, n)
           S == {k \in 0..n : L[k] = x % Place[k]}
<1>1. n \in 1..8 /\ n \in 0..8
  BY SizeIs
<1>2. \A i \in 1..n : b[i] = (x \div Place[i - 1]) % Radix
  BY DEF Stored
<1>3. L[0] = 0 /\ \A i \in 1..n : L[i] = L[i - 1] + b[i] * Place[i - 1]
  BY <1>1, LowsAre
<1>4. Low(b, n) = L[n]
  BY <1>1, LowsAre
<1> HIDE DEF n, b, L
<1>5. 0 \in S
  <2>1. x % 1 = 0
    OBVIOUS
  <2> QED
    BY <1>1, <1>3, <2>1, PlaceIs
<1>6. \A k \in 1..n : k - 1 \in S => k \in S
  <2> SUFFICES ASSUME NEW k \in 1..n, L[k - 1] = x % Place[k - 1]
               PROVE  L[k] = x % Place[k]
    BY <1>1
  <2> DEFINE P == Place[k - 1]
  <2>1. P \in Nat \ {0} /\ Place[k] = P * Radix
    BY <1>1, PlaceTimes
  <2>2. L[k] = (x % P) + ((x \div P) % Radix) * P
    BY <1>2, <1>3
  <2> HIDE DEF P
  <2> QED
    BY <2>1, <2>2, NextDigit, TypedAssumption
<1>7. n \in S
  <2> HIDE DEF S
  <2> QED
    BY <1>1, <1>5, <1>6, UpByteByByte
<1> QED
  BY <1>4, <1>7 DEF n, b, Modulus

\* The bytes of an integer are below its modulus.
LEMMA LowsInRange ==
    ASSUME NEW ty \in Fixed, NEW b \in Seq(Byte(ty)), Len(b) = Size(ty)
    PROVE  \A k \in 0..Size(ty) : Lows(b, Size(ty))[k] \in 0..(Place[k] - 1)
<1> DEFINE n == Size(ty)   L == Lows(b, n)
           S == {k \in 0..n : L[k] \in 0..(Place[k] - 1)}
<1>1. n \in 1..8 /\ n \in 0..8
  BY SizeIs
<1>2. \A i \in 1..n : b[i] \in 0..(Radix - 1)
  BY SizeIs, SeqIs, Zenon
<1>3. L[0] = 0 /\ \A i \in 1..n : L[i] = L[i - 1] + b[i] * Place[i - 1]
  BY <1>1, LowsAre
<1> HIDE DEF n, L
<1>4. 0 \in S
  BY <1>1, <1>3, PlaceIs
<1>5. \A k \in 1..n : k - 1 \in S => k \in S
  <2> SUFFICES ASSUME NEW k \in 1..n, L[k - 1] \in 0..(Place[k - 1] - 1)
               PROVE  L[k] \in 0..(Place[k] - 1)
    BY <1>1
  <2> DEFINE P == Place[k - 1]   d == b[k]   s == Radix - d
  <2>1. P \in Nat \ {0} /\ Place[k] = P * Radix
    <3>1. k \in 1..8
      BY <1>1
    <3> QED
      BY <3>1, PlaceTimes, Zenon
  <2>2. L[k] = L[k - 1] + d * P /\ d \in 0..(Radix - 1) /\ L[k - 1] \in 0..(P - 1)
    BY <1>2, <1>3
  <2>3. s \in Int /\ s >= 1 /\ Radix = d + s
    BY <2>2, TypedAssumption
  <2> HIDE DEF P, d, s
  <2>4. P * Radix = d * P + P * s /\ d * P \in Int /\ P * s \in Int
    BY <2>1, <2>2, <2>3
  <2>5. P * s >= P /\ d * P >= 0
    BY <2>1, <2>2, <2>3, ProductAtLeast
  <2> QED
    BY <2>1, <2>2, <2>4, <2>5
<1>6. \A k \in 0..n : k \in S
  <2> HIDE DEF S
  <2> QED
    BY <1>1, <1>4, <1>5, UpByteByByte
<1> QED
  BY <1>6 DEF n, L

LEMMA LowIs ==
    ASSUME NEW ty \in Fixed, NEW b \in Seq(Byte(ty)), Len(b) = Size(ty)
    PROVE  Low(b, Size(ty)) \in 0..(Modulus(ty) - 1) /\ Modulus(ty) \in Nat \ {0}
<1>1. Size(ty) \in 0..8 /\ Size(ty) \in 0..Size(ty)
  BY SizeIs
<1>2. Lows(b, Size(ty))[Size(ty)] \in 0..(Place[Size(ty)] - 1)
  BY <1>1, LowsInRange, Zenon
<1>3. Low(b, Size(ty)) = Lows(b, Size(ty))[Size(ty)]
  BY <1>1, LowsAre, Zenon
<1>4. Place[Size(ty)] \in Nat \ {0}
  BY <1>1, PlacesArePositive, Zenon
<1> QED
  BY <1>2, <1>3, <1>4, Zenon DEF Modulus

\* A number stores the bytes that its remainder was read from.
LEMMA StoredOfLow ==
    ASSUME NEW ty \in Fixed, NEW b \in Seq(Byte(ty)), Len(b) = Size(ty),
           NEW x \in Int, NEW t \in Int, x = Low(b, Size(ty)) + Modulus(ty) * t
    PROVE  Stored(x, ty) = b
<1> DEFINE n == Size(ty)   L == Lows(b, n)
           S == {k \in 0..n : \E u \in Int : x = L[k] + Place[k] * u}
<1>1. n \in 1..8 /\ n \in 0..8 /\ Len(b) = n
  BY SizeIs
<1>2. \A i \in 1..n : b[i] \in 0..(Radix - 1)
  BY SizeIs, SeqIs, Zenon
<1>3. L[0] = 0 /\ \A i \in 1..n : L[i] = L[i - 1] + b[i] * Place[i - 1]
  BY <1>1, LowsAre
<1>4. x = L[n] + Place[n] * t
  BY <1>1, LowsAre DEF Modulus
<1>5. Stored(x, ty) = [i \in 1..n |-> (x \div Place[i - 1]) % Radix]
  BY DEF Stored
<1>6. \A k \in 0..n : L[k] \in 0..(Place[k] - 1)
  BY LowsInRange
<1> HIDE DEF n, L
<1>7. n \in S
  BY <1>1, <1>4
<1>8. ASSUME NEW k \in 1..n, k \in S
      PROVE  k - 1 \in S /\ (x \div Place[k - 1]) % Radix = b[k]
  <2>1. PICK u \in Int : x = L[k] + Place[k] * u
    BY <1>8
  <2> DEFINE P == Place[k - 1]   l == L[k - 1]   d == b[k]
  <2>2. P \in Nat \ {0} /\ Place[k] = P * Radix
    <3>1. k \in 1..8
      BY <1>1
    <3> QED
      BY <3>1, PlaceTimes, Zenon
  <2>3. l \in 0..(P - 1) /\ d \in 0..(Radix - 1) /\ L[k] = l + d * P
    <3>1. k - 1 \in 0..n
      BY <1>1
    <3> QED
      BY <1>2, <1>3, <1>6, <3>1, Zenon
  <2> HIDE DEF P, l, d
  <2>4. x = (l + d * P) + (P * Radix) * u
    BY <2>1, <2>2, <2>3
  <2> DEFINE v == d + Radix * u
  <2>5. v \in Int /\ v % Radix = d /\ x \div P = v /\ x = l + P * v
    <3>1. Radix \in Nat \ {0}
      BY TypedAssumption
    <3>2. v \in Int
      BY <2>3, <3>1
    <3>3. v % Radix = d
      BY <2>3, <3>1, LastDigit
    <3>4. P \in Nat \ {0} /\ u \in Int
      BY <2>2
    <3>5. l \in 0..(P - 1) /\ d \in 0..(Radix - 1)
      BY <2>3
    <3>6. ((l + d * P) + (P * Radix) * u) \div P = v
      BY <3>1, <3>4, <3>5, DigitOf, SMT
    <3>7. (l + d * P) + (P * Radix) * u = l + P * v
      BY <3>1, <3>4, <3>5, DigitOf, SMT
    <3> QED
      BY <2>4, <3>2, <3>3, <3>6, <3>7, Zenon
  <2> HIDE DEF v
  <2> QED
    BY <1>1, <2>5 DEF P, l, d
<1>9. \A k \in 0..n : k \in S
  <2> HIDE DEF S
  <2> QED
    BY <1>1, <1>7, <1>8, DownByteByByte
<1>10. \A i \in 1..n : (x \div Place[i - 1]) % Radix = b[i]
  BY <1>8, <1>9
<1>11. b = [i \in 1..n |-> b[i]]
  BY <1>1
<1> QED
  BY <1>5, <1>10, <1>11

-----------------------------------------------------------------------------
(* Casts *)

LEMMA RangesAre ==
    ASSUME NEW ty \in Fixed
    PROVE  /\ Modulus(ty) \in Nat \ {0} /\ Smallest(ty) \in Int
           /\ Largest(ty) = Smallest(ty) + Modulus(ty) - 1
           /\ ty # "bool" => ty \in Unsigned \cup Signed
<1>1. Modulus(ty) \in Nat \ {0}
  BY PlacesArePositive DEF Modulus, Size, Fixed, Unsigned, Signed
<1>2. Smallest(ty) \in Int
  BY <1>1 DEF Smallest
<1> QED
  BY <1>1, <1>2 DEF Largest, Fixed

\* A cast keeps what is in range and the remainder of what is not.
LEMMA CastKeeps ==
    ASSUME NEW ty \in Fixed, NEW x \in Int, InRange(x, ty)
    PROVE  Cast(x, ty) = x
<1> DEFINE S == Smallest(ty)   M == Modulus(ty)
<1>1. CASE ty = "bool"
  BY <1>1 DEF InRange, Cast
<1>2. CASE ty # "bool"
  <2>1. M \in Nat \ {0} /\ S \in Int /\ S <= x /\ x <= S + M - 1
    BY <1>2, RangesAre DEF InRange
  <2>2. Cast(x, ty) = S + ((x - S) % M)
    BY <1>2 DEF Cast
  <2> HIDE DEF S, M
  <2>3. x - S \in 0..(M - 1)
    BY <2>1
  <2>4. (x - S) % M = x - S
    BY <2>1, <2>3, RemainderIs
  <2> QED
    BY <2>1, <2>2, <2>4
<1> QED
  BY <1>1, <1>2

LEMMA CastReduces ==
    ASSUME NEW ty \in Unsigned \cup Signed, NEW x \in Int
    PROVE  /\ Cast(x, ty) \in Int /\ InRange(Cast(x, ty), ty)
           /\ Cast(x, ty) % Modulus(ty) = x % Modulus(ty)
<1> DEFINE S == Smallest(ty)   M == Modulus(ty)   y == x - S   r == y % M   q == y \div M
<1>1. ty \in Fixed /\ ty # "bool"
  BY DEF Fixed, Unsigned, Signed
<1>2. M \in Nat \ {0} /\ S \in Int /\ Largest(ty) = S + M - 1
  BY <1>1, RangesAre
<1>3. Cast(x, ty) = S + r
  BY <1>1 DEF Cast
<1> HIDE DEF S, M
<1>4. y \in Int /\ x = S + y
  BY <1>2
<1> HIDE DEF y
<1>5. r \in 0..(M - 1) /\ q \in Int /\ y = M * q + r
  BY <1>2, <1>4, QuotientIs
<1> HIDE DEF r, q
<1>6. S + r \in Int /\ S <= S + r /\ S + r <= S + M - 1
  BY <1>2, <1>5
<1>7. x = (S + r) + M * q
  BY <1>2, <1>4, <1>5
<1>8. x % M = (S + r) % M
  BY <1>2, <1>5, <1>6, <1>7, RemainderPlus
<1> QED
  BY <1>1, <1>2, <1>3, <1>6, <1>8 DEF InRange, S, M

LEMMA CastAgrees ==
    ASSUME NEW ty \in Unsigned \cup Signed, NEW x \in Int, NEW y \in Int,
           x % Modulus(ty) = y % Modulus(ty)
    PROVE  Cast(x, ty) = Cast(y, ty)
<1> DEFINE S == Smallest(ty)   M == Modulus(ty)
<1>1. ty \in Fixed /\ ty # "bool"
  BY DEF Fixed, Unsigned, Signed
<1>2. M \in Nat \ {0} /\ S \in Int
  BY <1>1, RangesAre
<1>3. Cast(x, ty) = S + ((x - S) % M) /\ Cast(y, ty) = S + ((y - S) % M)
  BY <1>1 DEF Cast
<1>4. x % M = y % M
  OBVIOUS
<1> HIDE DEF S, M
<1>5. PICK t \in Int : x = y + M * t
  BY <1>2, <1>4, RemaindersAgree
<1> DEFINE z == y - S
<1>6. z \in Int /\ x - S = z + M * t
  <2>1. M * t \in Int
    BY <1>2, <1>5
  <2> QED
    BY <1>2, <1>5, <2>1
<1>7. (z + M * t) % M = z % M
  <2> HIDE DEF z
  <2> QED
    BY <1>2, <1>5, <1>6, RemainderPlus
<1> QED
  BY <1>3, <1>6, <1>7

\* Reading what was stored, and storing what was read.
LEMMA NumberOfStored ==
    ASSUME NEW ty \in Fixed, NEW x \in Int, InRange(x, ty)
    PROVE  Number(Stored(x, ty), ty) = x
<1> DEFINE M == Modulus(ty)   r == x % M
<1>1. Number(Stored(x, ty), ty) = Cast(r, ty)
  BY LowOfStored DEF Number
<1>2. M \in Nat \ {0}
  BY RangesAre
<1>3. r \in 0..(M - 1) /\ r \in Int
  <2> HIDE DEF M
  <2>1. r \in 0..(M - 1)
    BY <1>2, QuotientIs
  <2> QED
    BY <1>2, <2>1
<1>4. CASE ty = "bool"
  <2>1. x \in {0, 1}
    BY <1>4 DEF InRange
  <2>2. M = Radix
    <3>1. M = Place[1]
      BY <1>4 DEF Modulus, Size
    <3>2. Place[1] = Place[1 - 1] * Radix
      BY PlaceIs
    <3> QED
      BY <3>1, <3>2, PlaceIs, TypedAssumption
  <2>3. x \in 0..(M - 1)
    BY <2>1, <2>2, TypedAssumption
  <2>4. r = x
    <3> HIDE DEF M
    <3> QED
      BY <1>2, <2>3, RemainderIs
  <2> QED
    BY <1>1, <2>4, CastKeeps
<1>5. CASE ty # "bool"
  <2>1. ty \in Unsigned \cup Signed
    BY <1>5, RangesAre
  <2>2. r % M = x % M
    <3>1. r % M = r
      <4> HIDE DEF M, r
      <4> QED
        BY <1>2, <1>3, RemainderIs
    <3> QED
      BY <3>1
  <2>3. Cast(r, ty) = Cast(x, ty)
    <3> HIDE DEF r
    <3> QED
      BY <1>3, <2>1, <2>2, CastAgrees
  <2> QED
    BY <1>1, <2>3, CastKeeps
<1> QED
  BY <1>4, <1>5

LEMMA StoredBytes ==
    ASSUME NEW ty \in Fixed, NEW b \in Seq(Byte(ty)), Len(b) = Size(ty),
           NEW x \in Int, x % Modulus(ty) = Low(b, Size(ty))
    PROVE  Stored(x, ty) = b
<1> DEFINE M == Modulus(ty)   l == Low(b, Size(ty))   q == x \div M
<1>1. M \in Nat \ {0} /\ l \in 0..(M - 1)
  BY LowIs
<1>2. q \in Int /\ x = M * q + (x % M)
  BY <1>1, QuotientIs
<1>3. x = l + M * q
  <2> HIDE DEF q, l, M
  <2>1. M * q \in Int
    BY <1>1, <1>2
  <2>2. x % M = l
    BY DEF l, M
  <2> QED
    BY <1>1, <1>2, <2>1, <2>2
<1> HIDE DEF q
<1> QED
  BY <1>2, <1>3, StoredOfLow

LEMMA StoredOfNumber ==
    ASSUME NEW ty \in Unsigned \cup Signed, NEW b \in Seq(Byte(ty)), Len(b) = Size(ty),
           NEW x \in Int, x % Modulus(ty) = Number(b, ty) % Modulus(ty)
    PROVE  Stored(x, ty) = b
<1> DEFINE M == Modulus(ty)   l == Low(b, Size(ty))
<1>1. ty \in Fixed
  BY DEF Fixed
<1>2. M \in Nat \ {0} /\ l \in 0..(M - 1) /\ l \in Int
  BY <1>1, LowIs
<1>3. Number(b, ty) % M = l % M
  BY <1>2, CastReduces DEF Number
<1>4. l % M = l
  <2> HIDE DEF l, M
  <2> QED
    BY <1>2, RemainderIs
<1> QED
  BY <1>1, <1>3, <1>4, StoredBytes

\* The bytes of a bool that C defines.
LEMMA StoredOfBool ==
    ASSUME NEW b \in Seq(Byte("bool")), Len(b) = 1, b[1] \in {0, 1}
    PROVE  Number(b, "bool") = b[1] /\ Stored(b[1], "bool") = b
<1>1. "bool" \in Fixed /\ Size("bool") = 1
  BY DEF Fixed, Size
<1>2. Low(b, 1) = b[1]
  <2>1. /\ Low(b, 1) = Lows(b, 1)[1] /\ Lows(b, 1)[0] = 0
        /\ Lows(b, 1)[1] = Lows(b, 1)[1 - 1] + b[1] * Place[1 - 1]
    BY LowsAre
  <2> QED
    BY <2>1, PlaceIs
<1>3. Modulus("bool") \in Nat \ {0} /\ b[1] \in 0..(Modulus("bool") - 1) /\ b[1] \in Int
  <2>1. Low(b, Size("bool")) \in 0..(Modulus("bool") - 1) /\ Modulus("bool") \in Nat \ {0}
    BY <1>1, LowIs
  <2> QED
    BY <1>1, <1>2, <2>1
<1>4. b[1] % Modulus("bool") = b[1]
  BY <1>3, RemainderIs
<1>5. Stored(b[1], "bool") = b
  BY <1>1, <1>2, <1>3, <1>4, StoredBytes
<1> QED
  BY <1>1, <1>2, <1>5 DEF Number, Cast

-----------------------------------------------------------------------------
(* Numbers from the front ends *)

LEMMA ClampKeeps ==
    ASSUME NEW ty \in Signed, NEW x \in Int, InRange(x, ty)
    PROVE  Clamped(x, ty) = x
<1>1. ty \in Fixed /\ ty # "bool"
  BY DEF Fixed, Signed
<1>2. Smallest(ty) \in Int /\ Largest(ty) \in Int
  BY <1>1, RangesAre
<1> QED
  BY <1>1, <1>2 DEF Clamped, InRange

\* A set that succeeds leaves an integer's bytes as they were given, also when it
\* finds them in the buffer already.
LEMMA SetStores ==
    ASSUME TypedInv, NEW p \in Seq(Byte(type)), Set(p), ret' = "ok",
           type \in Fixed, Len(p) = Size(type)
    PROVE  buf' = p
<1>1. max = Size(type) /\ Size(type) \in Nat \ {0} /\ type \in Types
  BY SizesAre, SizeIs DEF TypedInv, TypedVars
<1>2. buf \in Seq(Byte(type)) /\ Len(buf) = max
  BY DEF TypedInv, TypedVars, BufferIsStored
<1>3. p # <<>>
  BY <1>1
<1>4. CASE Same(p) /\ buf' = buf
  <2>1. len = max /\ SubSeq(buf, 1, len) = p
    BY <1>1, <1>4 DEF Same
  <2> QED
    BY <1>2, <1>4, <2>1
<1>5. CASE buf' = Overwritten(p)
  <2>1. /\ Overwritten(p) \in Seq(Byte(type)) /\ Len(Overwritten(p)) = max
        /\ SubSeq(Overwritten(p), 1, Len(p)) = p
    <3>1. max \in Nat /\ Len(p) <= max
      BY <1>1
    <3> QED
      BY <1>2, <3>1, OverwrittenIs
  <2> QED
    BY <1>1, <1>5, <2>1
<1> QED
  BY <1>1, <1>3, <1>4, <1>5 DEF Set

\* A number in range that a front end sets is the number it will read.
LEMMA NumberArrives ==
    ASSUME TypedInv, type \in Fixed, NEW n \in Int, InRange(n, type),
           Set(Stored(Cast(n, type), type)), ret' = "ok"
    PROVE  Number(buf', type) = n
<1>1. Cast(n, type) = n
  BY CastKeeps
<1>2. Stored(n, type) \in Seq(Byte(type)) /\ Len(Stored(n, type)) = Size(type)
  BY StoredIs
<1>3. buf' = Stored(n, type)
  BY <1>1, <1>2, SetStores
<1> QED
  BY <1>3, NumberOfStored

\* A number that fits is the same number on the device and in its texts, however
\* it was set.
THEOREM NumbersKept == Spec => NumbersArrive
<1> DEFINE Arrives(item) ==
             item.kind # "string" /\ type \in Fixed /\ InRange(item.n, type) =>
               /\ JsonSet(item) /\ ret' = "ok" /\ InRange(item.n, "i32") =>
                      /\ Number(buf', type) = item.n
                      /\ Exported(type, buf', len').n = item.n
               /\ ShellSet(item) /\ ret' = "ok" /\ FitsLong(item.n) =>
                      /\ Number(buf', type) = item.n
                      /\ Printed(type, buf', len').n = item.n
           Body == \A item \in Items : Arrives(item)
<1>1. TypedInv => Body
  <2> SUFFICES ASSUME TypedInv, NEW item \in Items, item.kind # "string", type \in Fixed,
                      InRange(item.n, type)
               PROVE  Arrives(item)
    OBVIOUS
  <2>1. item.n \in Int
    <3>1. item \in [kind : {"number"}, n : Numbers] \cup [kind : {"bool"}, n : {0, 1}]
      BY DEF Items
    <3>2. item.n \in Numbers \cup {0, 1}
      BY <3>1
    <3>3. Numbers \cup {0, 1} \subseteq Int
      BY InputAssumption
    <3> QED
      BY <3>2, <3>3
  <2>2. type \notin Sized /\ "i32" \in Signed /\ "i64" \in Signed /\ "i32" \in Fixed
    BY DEF Fixed, Unsigned, Signed, Sized
  <2>3. ASSUME JsonSet(item), ret' = "ok", InRange(item.n, "i32")
        PROVE  /\ Number(buf', type) = item.n
               /\ Exported(type, buf', len').n = item.n
    <3>1. Clamped(item.n, "i32") = item.n
      BY <2>1, <2>2, <2>3, ClampKeeps
    <3>2. Set(Stored(Cast(item.n, type), type))
      BY <2>2, <2>3, <3>1 DEF JsonSet, JsonPayload
    <3>3. Number(buf', type) = item.n
      BY <2>1, <2>3, <3>2, NumberArrives
    <3>4. ExportedNumber(item.n) = item.n
      BY <2>1, <2>2, <2>3, CastKeeps DEF ExportedNumber
    <3> QED
      BY <2>2, <3>3, <3>4 DEF Exported
  <2>4. ASSUME ShellSet(item), ret' = "ok", FitsLong(item.n)
        PROVE  /\ Number(buf', type) = item.n
               /\ Printed(type, buf', len').n = item.n
    <3>1. Parsed(item.n, type) = item.n
      BY <2>1, <2>2, <2>4, ClampKeeps DEF Parsed, FitsLong
    <3>2. Set(Stored(Cast(item.n, type), type))
      BY <2>2, <2>4, <3>1 DEF ShellSet, ShellPayload
    <3>3. Number(buf', type) = item.n
      BY <2>1, <2>4, <3>2, NumberArrives
    <3> QED
      BY <2>2, <3>3 DEF Printed
  <2> QED
    BY <2>3, <2>4
<1>2. NumbersArrive <=> [][Body]_vars
  BY DEF NumbersArrive
<1>3. TypedInv /\ [Next]_vars => [Body]_vars
  BY <1>1
<1> QED
  BY <1>2, <1>3, TypedInvariant, PTL DEF Spec

-----------------------------------------------------------------------------
(* Texts *)

\* The text of a string is all of it, but its NUL.
LEMMA UpToNulIs ==
    ASSUME NEW S, NEW b \in Seq(S), NEW n \in 1..Len(b),
           b[n] = 0, \A i \in 1..(n - 1) : b[i] # 0
    PROVE  UpToNul(b) \o <<0>> = SubSeq(b, 1, n)
<1> DEFINE First(i) == b[i] = 0 /\ \A j \in 1..(i - 1) : b[j] # 0
           c == CHOOSE i \in 1..Len(b) : First(i)
<1>1. c \in 1..Len(b) /\ First(c)
  <2>1. \E i \in 1..Len(b) : First(i)
    OBVIOUS
  <2> HIDE DEF First
  <2> QED
    BY <2>1
<1>2. UpToNul(b) = SubSeq(b, 1, c - 1)
  BY DEF UpToNul
<1> HIDE DEF c
<1>3. c = n
  BY <1>1
<1>4. Len(b) \in Nat /\ n \in Nat /\ n <= Len(b) /\ n >= 1
  OBVIOUS
<1>5. SubSeq(b, 1, n - 1) \o <<0>> = SubSeq(b, 1, n)
  BY <1>4
<1> QED
  BY <1>2, <1>3, <1>5

\* Two digits stand for a byte.
LEMMA HexDigitOfChar ==
    \A d \in 0..15 : HexDigit(HexChar(d)) = d
<1> SUFFICES ASSUME NEW d \in 0..15 PROVE HexDigit(HexChar(d)) = d
  OBVIOUS
<1>1. CASE d < 10
  <2>1. (48 + d) % 32 = 16 + d
    BY <1>1
  <2>2. ((16 + d) + 9) % 25 = d
    BY <1>1
  <2> QED
    BY <1>1, <2>1, <2>2 DEF HexDigit, HexChar
<1>2. CASE d >= 10
  <2>1. (55 + d) % 32 = d - 9
    BY <1>2
  <2>2. ((d - 9) + 9) % 25 = d
    BY <1>2
  <2> QED
    BY <1>2, <2>1, <2>2 DEF HexDigit, HexChar
<1> QED
  BY <1>1, <1>2

LEMMA HexOfByte ==
    ASSUME NEW x \in 0..255
    PROVE  (HexDigit(HexChar(x \div 16)) * 16 + HexDigit(HexChar(x % 16))) % 256 = x
<1> DEFINE h == x \div 16   l == x % 16
<1>1. h \in 0..15 /\ l \in 0..15 /\ x = 16 * h + l
  OBVIOUS
<1> HIDE DEF h, l
<1>2. HexDigit(HexChar(h)) = h /\ HexDigit(HexChar(l)) = l
  BY <1>1, HexDigitOfChar
<1>3. (h * 16 + l) % 256 = x
  BY <1>1
<1> QED
  BY <1>2, <1>3 DEF h, l

LEMMA HexReturns ==
    ASSUME NEW p \in Seq(0..255)
    PROVE  FromHex(ToHex(p)) = p
<1> DEFINE n == Len(p)   text == ToHex(p)
<1>1. n \in Nat /\ \A i \in 1..n : p[i] \in 0..255
  BY SeqIs, Zenon
<1>2. Len(text) = 2 * n
  BY <1>1 DEF ToHex
<1>3. \A i \in 1..n : /\ text[2 * i - 1] = HexChar(p[i] \div 16)
                      /\ text[2 * i] = HexChar(p[i] % 16)
  <2> SUFFICES ASSUME NEW i \in 1..n
               PROVE  /\ text[2 * i - 1] = HexChar(p[i] \div 16)
                      /\ text[2 * i] = HexChar(p[i] % 16)
    OBVIOUS
  <2>1. \A j \in 1..(2 * n) :
            text[j] = HexChar(IF j % 2 = 1 THEN p[(j + 1) \div 2] \div 16
                                           ELSE p[(j + 1) \div 2] % 16)
    BY DEF ToHex
  <2>2. 2 * i - 1 \in 1..(2 * n) /\ 2 * i \in 1..(2 * n)
    BY <1>1
  <2>3. /\ (2 * i - 1) % 2 = 1 /\ ((2 * i - 1) + 1) \div 2 = i
        /\ (2 * i) % 2 = 0 /\ (2 * i + 1) \div 2 = i
    BY <1>1
  <2> HIDE DEF text, n
  <2> QED
    BY <2>1, <2>2, <2>3
<1>4. FromHex(text) = [i \in 1..n |->
             (HexDigit(text[2 * i - 1]) * 16 + HexDigit(text[2 * i])) % 256]
  <2>1. (2 * n) \div 2 = n
    BY <1>1
  <2> HIDE DEF text, n
  <2> QED
    BY <1>2, <2>1 DEF FromHex
<1>5. \A i \in 1..n : (HexDigit(text[2 * i - 1]) * 16 + HexDigit(text[2 * i])) % 256 = p[i]
  <2> HIDE DEF text, n
  <2> SUFFICES ASSUME NEW i \in 1..n
               PROVE  (HexDigit(text[2 * i - 1]) * 16 + HexDigit(text[2 * i])) % 256 = p[i]
    OBVIOUS
  <2>1. p[i] \in 0..255
    BY <1>1
  <2>2. text[2 * i - 1] = HexChar(p[i] \div 16) /\ text[2 * i] = HexChar(p[i] % 16)
    BY <1>3
  <2>3. (HexDigit(HexChar(p[i] \div 16)) * 16 + HexDigit(HexChar(p[i] % 16))) % 256 = p[i]
    BY <2>1, HexOfByte
  <2> QED
    BY <2>2, <2>3, Zenon
<1>6. p = [i \in 1..n |-> p[i]]
  OBVIOUS
<1> HIDE DEF text
<1>7. FromHex(text) = p
  BY <1>4, <1>5, <1>6
<1> QED
  BY <1>7 DEF text

Bits64 == {"u64", "i64"}

\* An int holds 0 and 1, and is made of whole integers of the shorter types.
LEMMA IntHoldsBool ==
    ASSUME NEW x \in {0, 1}
    PROVE  InRange(x, "i32")
<1> DEFINE M == Modulus("i32")   h == M \div 2   l == M % 2
<1>1. M = Place[4] /\ Smallest("i32") = -h /\ "i32" \in Fixed
  BY DEF Modulus, Smallest, Size, Signed, Fixed
<1>2. \A k \in 1..8 : Place[k] >= 2 * Place[k - 1]
  <2> SUFFICES ASSUME NEW k \in 1..8 PROVE Place[k] >= 2 * Place[k - 1]
    OBVIOUS
  <2> DEFINE P == Place[k - 1]   s == Radix - 2
  <2>1. P \in Nat \ {0} /\ Place[k] = P * Radix
    BY PlaceTimes
  <2>2. s \in Nat /\ Radix = 2 + s
    BY TypedAssumption
  <2> HIDE DEF P, s
  <2>3. P * Radix = 2 * P + P * s /\ P * s >= 0 /\ P * s \in Int
    BY <2>1, <2>2
  <2> QED
    BY <2>1, <2>3 DEF P
<1>3. \A k \in 0..8 : Place[k] \in Nat \ {0}
  BY PlacesArePositive
<1>4. Place[4] >= 4 /\ Place[4] \in Nat
  <2>1. /\ Place[1] >= 2 * Place[1 - 1] /\ Place[2] >= 2 * Place[2 - 1]
        /\ Place[3] >= 2 * Place[3 - 1] /\ Place[4] >= 2 * Place[4 - 1]
    BY <1>2
  <2>2. /\ Place[0] \in Nat \ {0} /\ Place[1] \in Nat \ {0} /\ Place[2] \in Nat \ {0}
        /\ Place[3] \in Nat \ {0} /\ Place[4] \in Nat \ {0}
    BY <1>3
  <2> QED
    BY <2>1, <2>2
<1> HIDE DEF M
<1>5. h \in Int /\ l \in 0..1 /\ M = 2 * h + l
  <2>1. M \in Int
    BY <1>1, <1>4
  <2> QED
    BY <2>1, QuotientIs
<1>6. Largest("i32") = M - h - 1
  BY <1>1, <1>4, <1>5 DEF Largest, M
<1> HIDE DEF h, l
<1>7. -h <= x /\ x <= M - h - 1
  BY <1>1, <1>4, <1>5
<1> QED
  BY <1>1, <1>6, <1>7 DEF InRange

LEMMA IntIsMultiple ==
    ASSUME NEW ty \in (Unsigned \cup Signed) \ Bits64
    PROVE  \E Q \in Int : Modulus("i32") = Modulus(ty) * Q
<1> DEFINE P == Place[1]   R == Radix
<1>1. /\ Place[1] \in Int /\ Place[2] \in Int /\ Place[3] \in Int /\ Place[4] \in Int
      /\ R \in Int
  BY PlacesArePositive, TypedAssumption
<1>2. /\ Place[2] = Place[2 - 1] * R /\ Place[3] = Place[3 - 1] * R
      /\ Place[4] = Place[4 - 1] * R
  BY PlaceIs
<1>3. Place[3] = Place[2] * R /\ Place[4] = Place[3] * R /\ Place[2] = Place[1] * R
  BY <1>2
<1> DEFINE R2 == R * R   R3 == R2 * R
<1>4. R2 \in Int /\ R3 \in Int
  BY <1>1
<1>5. Place[4] = Place[2] * R2
  BY <1>1, <1>3
<1>6. Place[4] = Place[1] * R3
  BY <1>1, <1>3
<1>7. Place[4] = Place[4] * 1
  BY <1>1
<1>8. Size(ty) \in {1, 2, 4} /\ Size("i32") = 4
  BY DEF Size, Bits64, Unsigned, Signed
<1>9. /\ \E Q \in Int : Place[4] = Place[1] * Q
      /\ \E Q \in Int : Place[4] = Place[2] * Q
      /\ \E Q \in Int : Place[4] = Place[4] * Q
  <2> HIDE DEF R2, R3
  <2> QED
    BY <1>4, <1>5, <1>6, <1>7
<1> QED
  BY <1>8, <1>9, Zenon DEF Modulus

\* What the export makes of a number and the import makes of it again.
LEMMA PayloadReturns ==
    ASSUME NEW ty \in Unsigned \cup Signed, NEW b \in Seq(Byte(ty)), Len(b) = Size(ty),
           NEW n \in Int, n % Modulus(ty) = Number(b, ty) % Modulus(ty)
    PROVE  Stored(Cast(n, ty), ty) = b
<1>1. Cast(n, ty) \in Int /\ Cast(n, ty) % Modulus(ty) = n % Modulus(ty)
  BY CastReduces
<1> QED
  BY <1>1, StoredOfNumber

LEMMA NumberIs ==
    ASSUME NEW ty \in Unsigned \cup Signed, NEW b \in Seq(Byte(ty)), Len(b) = Size(ty)
    PROVE  Number(b, ty) \in Int /\ InRange(Number(b, ty), ty)
<1>1. Low(b, Size(ty)) \in Int
  BY LowIs DEF Fixed
<1> QED
  BY <1>1, CastReduces DEF Number

LEMMA JsonReturns ==
    ASSUME NEW ty \in Unsigned \cup Signed, NEW b \in Seq(Byte(ty)), Len(b) = Size(ty),
           ty \in Bits64 => InRange(Number(b, ty), "i32")
    PROVE  Stored(Cast(Clamped(ExportedNumber(Number(b, ty)), "i32"), ty), ty) = b
<1> DEFINE x == Number(b, ty)   e == ExportedNumber(x)
<1>1. x \in Int /\ "i32" \in Unsigned \cup Signed /\ "i32" \in Signed
      /\ "i32" \in Fixed /\ ty \in Fixed
  BY NumberIs DEF Signed, Fixed
<1>2. /\ e \in Int /\ InRange(e, "i32")
      /\ e % Modulus("i32") = x % Modulus("i32")
  <2> HIDE DEF x
  <2> QED
    BY <1>1, CastReduces DEF ExportedNumber
<1>3. Clamped(e, "i32") = e
  <2> HIDE DEF e
  <2> QED
    BY <1>1, <1>2, ClampKeeps
<1>4. e % Modulus(ty) = x % Modulus(ty)
  <2>1. CASE ty \in Bits64
    <3>1. InRange(x, "i32")
      BY <2>1
    <3>2. e = x
      <4> HIDE DEF x
      <4> QED
        BY <1>1, <3>1, CastKeeps DEF ExportedNumber
    <3> QED
      BY <3>2
  <2>2. CASE ty \notin Bits64
    <3>1. PICK Q \in Int : Modulus("i32") = Modulus(ty) * Q
      BY <2>2, IntIsMultiple
    <3>2. Modulus("i32") \in Nat \ {0} /\ Modulus(ty) \in Nat \ {0}
      BY <1>1, RangesAre
    <3> HIDE DEF x, e
    <3> QED
      BY <1>1, <1>2, <3>1, <3>2, RemainderOfMultiple
  <2> QED
    BY <2>1, <2>2
<1>5. Stored(Cast(e, ty), ty) = b
  <2> HIDE DEF e
  <2> QED
    BY <1>2, <1>4, PayloadReturns
<1> QED
  BY <1>3, <1>5

LEMMA ShellReturns ==
    ASSUME NEW ty \in Unsigned \cup Signed, NEW b \in Seq(Byte(ty)), Len(b) = Size(ty),
           InRange(Number(b, ty), IF ty \in Bits64 THEN "i64" ELSE "i32")
    PROVE  Stored(Cast(Parsed(Number(b, ty), ty), ty), ty) = b
<1>1. Number(b, ty) \in Int /\ "i32" \in Signed /\ "i64" \in Signed
  BY NumberIs DEF Signed
<1>2. Parsed(Number(b, ty), ty) = Number(b, ty)
  <2> DEFINE x == Number(b, ty)
  <2>1. x \in Int /\ InRange(x, IF ty \in Bits64 THEN "i64" ELSE "i32")
    BY <1>1
  <2> HIDE DEF x
  <2>2. Parsed(x, ty) = x
    BY <1>1, <2>1, ClampKeeps DEF Parsed, Bits64
  <2> QED
    BY <2>2 DEF x
<1> QED
  BY <1>1, <1>2, PayloadReturns

\* Exporting a setting and importing the text again, or typing what the shell
\* prints, sets the bytes that are there.
THEOREM ExportsReturn == Spec => []ExportsImport
<1> DEFINE x == IF type \in Fixed THEN Number(buf, type) ELSE 0
           p == SubSeq(buf, 1, len)
           Json == Portable(x) => JsonPayload(type, Exported(type, buf, len)) = p
           Shell == FitsLong(x) => ShellPayload(type, Printed(type, buf, len)) = p
<1>1. TypedInv => ExportsImport
  <2> SUFFICES ASSUME TypedInv, isSet, Whole, WellFormed PROVE Json /\ Shell
    BY DEF ExportsImport
  <2>1. /\ type \in Types /\ buf \in Seq(Byte(type)) /\ Len(buf) = max
        /\ len \in Nat /\ len > 0 /\ len <= max /\ max \in Nat
    BY SizesAre DEF TypedInv, TypedVars, BufferIsStored
  <2>2. p \in Seq(Byte(type)) /\ Len(p) = len
    BY <2>1
  <2>3. type \in Fixed \cup Sized /\ (type \in Fixed <=> type \notin Sized)
    BY <2>1, ByteIs, TypedAssumption
  <2>4. type \in Fixed => p = buf /\ Len(buf) = Size(type)
    <3> SUFFICES ASSUME type \in Fixed PROVE p = buf /\ Len(buf) = Size(type)
      OBVIOUS
    <3>1. nvs # NULL /\ len = Size(type)
      BY DEF Whole
    <3>2. max = len
      BY <3>1, WholeFills
    <3> QED
      BY <2>1, <3>1, <3>2
  <2>5. CASE type = "bool"
    <3>1. type \in Fixed /\ type \notin Sized /\ Size(type) = 1
      BY <2>5 DEF Fixed, Sized, Size
    <3>2. p = buf /\ Len(buf) = 1 /\ buf[1] \in {0, 1} /\ buf \in Seq(Byte("bool"))
      BY <2>1, <2>4, <2>5, <3>1 DEF WellFormed
    <3>3. Number(buf, type) = buf[1] /\ Stored(buf[1], type) = buf
      BY <2>5, <3>2, StoredOfBool
    <3>4. Cast(buf[1], "i32") = buf[1] /\ Clamped(buf[1], "i32") = buf[1]
      BY <3>2, IntHoldsBool, CastKeeps, ClampKeeps DEF Fixed, Signed
    <3>5. Cast(buf[1], type) = buf[1]
      BY <2>5, <3>2 DEF Cast
    <3>6. Json
      BY <3>1, <3>2, <3>3, <3>4, <3>5 DEF JsonPayload, Exported, ExportedNumber
    <3>7. Shell
      BY <2>5, <3>1, <3>2, <3>3, <3>4, <3>5 DEF ShellPayload, Printed, Parsed
    <3> QED
      BY <3>6, <3>7
  <2>6. CASE type \in Unsigned \cup Signed
    <3>1. type \in Fixed /\ type \notin Sized /\ x = Number(buf, type)
      BY <2>3, <2>6 DEF Fixed
    <3>2. p = buf /\ Len(buf) = Size(type)
      BY <2>4, <3>1
    <3>3. Json
      <4> SUFFICES ASSUME Portable(x)
                   PROVE  JsonPayload(type, Exported(type, buf, len)) = p
        OBVIOUS
      <4>1. type \in Bits64 => InRange(Number(buf, type), "i32")
        BY <3>1 DEF Portable, Bits64
      <4>2. Stored(Cast(Clamped(ExportedNumber(Number(buf, type)), "i32"), type), type) = buf
        BY <2>1, <2>6, <3>2, <4>1, JsonReturns
      <4> QED
        BY <3>1, <3>2, <4>2 DEF JsonPayload, Exported
    <3>4. Shell
      <4> SUFFICES ASSUME FitsLong(x)
                   PROVE  ShellPayload(type, Printed(type, buf, len)) = p
        OBVIOUS
      <4>1. InRange(Number(buf, type), IF type \in Bits64 THEN "i64" ELSE "i32")
        BY <3>1 DEF FitsLong, Bits64
      <4>2. Stored(Cast(Parsed(Number(buf, type), type), type), type) = buf
        BY <2>1, <2>6, <3>2, <4>1, ShellReturns
      <4> QED
        BY <3>1, <3>2, <4>2 DEF ShellPayload, Printed
    <3> QED
      BY <3>3, <3>4
  <2>7. CASE type = "str"
    <3>1. type \in Sized
      BY <2>7 DEF Sized
    <3>2. UpToNul(buf) \o <<0>> = p
      BY <2>1, <2>7, UpToNulIs DEF WellFormed
    <3> QED
      BY <2>7, <3>1, <3>2 DEF JsonPayload, Exported, ShellPayload, Printed, TextPayload
  <2>8. CASE type = "bytes"
    <3>1. type \in Sized /\ type # "str" /\ Byte(type) = 0..255
      BY <2>8 DEF Sized, Byte
    <3>2. FromHex(ToHex(p)) = p
      <4>1. p \in Seq(0..255)
        BY <2>2, <3>1
      <4> HIDE DEF p
      <4> QED
        BY <4>1, HexReturns
    <3> QED
      BY <3>1, <3>2 DEF JsonPayload, Exported, ShellPayload, Printed, TextPayload
  <2> QED
    BY <2>3, <2>5, <2>6, <2>7, <2>8 DEF Fixed, Sized
<1> QED
  BY <1>1, TypedInvariant, PTL

=============================================================================
