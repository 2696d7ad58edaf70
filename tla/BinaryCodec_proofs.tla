------------------------- MODULE BinaryCodec_proofs -------------------------
(***************************************************************************)
(* What the encoder writes is what the client reads, and what the client   *)
(* writes is what the decoder reads, for every width of a byte.            *)
(***************************************************************************)
EXTENDS BinaryCodec, SequenceTheorems, TLAPS

\* Sequences of one and two elements, and one sequence after another.
LEMMA OneElement ==
    ASSUME NEW S, NEW a \in S
    PROVE  <<a>> \in Seq(S) /\ Len(<<a>>) = 1 /\ <<a>>[1] = a
OBVIOUS

LEMMA TwoElements ==
    ASSUME NEW S, NEW a \in S, NEW b \in S
    PROVE  /\ <<a, b>> \in Seq(S) /\ Len(<<a, b>>) = 2
           /\ <<a, b>>[1] = a /\ <<a, b>>[2] = b
OBVIOUS

LEMMA OnePlus ==
    ASSUME NEW S, NEW a \in S, NEW s \in Seq(S)
    PROVE  LET b == <<a>> \o s
           IN /\ b \in Seq(S) /\ Len(b) = 1 + Len(s) /\ b[1] = a
              /\ \A i \in 1..Len(s) : b[1 + i] = s[i]
OBVIOUS

LEMMA PlusOne ==
    ASSUME NEW S, NEW a \in S, NEW s \in Seq(S)
    PROVE  LET b == s \o <<a>>
           IN /\ b \in Seq(S) /\ Len(b) = Len(s) + 1 /\ b[Len(s) + 1] = a
              /\ \A i \in 1..Len(s) : b[i] = s[i]
OBVIOUS

\* A sequence found inside another is read back from there.
LEMMA Slice ==
    ASSUME NEW S, NEW b \in Seq(S), NEW d \in Seq(S), NEW o \in Nat,
           o + Len(d) <= Len(b), \A i \in 1..Len(d) : b[o + i] = d[i]
    PROVE  SubSeq(b, o + 1, o + Len(d)) = d
<1> DEFINE c == SubSeq(b, o + 1, o + Len(d))
<1>1. Len(d) \in Nat /\ Len(b) \in Nat
  BY LenProperties
<1>2. /\ c \in Seq(S) /\ Len(c) = Len(d)
      /\ \A i \in 1..Len(d) : c[i] = b[o + i]
  BY <1>1
<1> HIDE DEF c
<1>3. c = d
  BY <1>1, <1>2, SeqEqual
<1>4. QED  BY <1>3 DEF c

\* A setting to encode: its lengths fit one byte, its key is a C string.
Packet == [id : IdRange, key : Seq(Octet \ {NUL}), type : Octet, max : Octet,
           data : Seq(Octet), default : Seq(Octet)]
Short(d) == Len(d) \in Octet

\* A cast keeps what fits a byte, and two bytes keep a 16-bit id.
LEMMA BytesHold ==
    /\ Octet \subseteq Int /\ NUL \in Octet
    /\ \A n \in Int : Byte(n) \in Octet
    /\ \A n \in Octet : Byte(n) = n
    /\ \A n \in IdRange :
         /\ Byte(n) \in Octet /\ Byte(n \div Radix) \in Octet
         /\ Byte(n) + Radix * Byte(n \div Radix) = n
<1> USE RadixAssumption DEF USPC_LIST_SOME_FULL
<1>0. /\ Octet \subseteq Int /\ NUL \in Octet
      /\ \A n \in Int : Byte(n) \in Octet
  BY DEF Octet, NUL, Byte
<1>1. \A n \in Octet : Byte(n) = n
  BY DEF Octet, Byte
<1>2. ASSUME NEW n \in IdRange
      PROVE  /\ Byte(n) \in Octet /\ Byte(n \div Radix) \in Octet
             /\ Byte(n) + Radix * Byte(n \div Radix) = n
  <2>1. n \in Nat /\ n < Radix * Radix
    BY SMT DEF IdRange
  <2>2. n = Radix * (n \div Radix) + (n % Radix) /\ n % Radix \in 0..(Radix - 1)
    <3>1. n = Radix * (n \div Radix) + (n % Radix)
      BY <2>1, SMT
    <3>2. n % Radix \in 0..(Radix - 1)
      BY <2>1, SMT
    <3>3. QED  BY <3>1, <3>2
  <2>3. n \div Radix \in Nat
    BY <2>1, SMT
  <2>4. n \div Radix < Radix
    <3>1. Radix * (n \div Radix) < Radix * Radix
      BY <2>1, <2>2, <2>3, SMT
    <3>2. QED  BY <2>3, <3>1, SMT
  <2>5. n \div Radix \in Octet
    BY <2>3, <2>4 DEF Octet
  <2>6. Byte(n) \in Octet /\ Byte(n) = n % Radix
    BY <2>2 DEF Octet, Byte
  <2>7. Byte(n \div Radix) = n \div Radix
    BY <1>1, <2>5
  <2>8. Byte(n) + Radix * Byte(n \div Radix) = n
    <3> DEFINE q == n \div Radix
               m == n % Radix
    <3>1. q \in Int /\ m \in Int /\ n = Radix * q + m
      BY <2>2, <2>3
    <3> HIDE DEF q, m
    <3>2. m + Radix * q = n
      BY <3>1, SMT
    <3>3. QED  BY <2>6, <2>7, <3>2 DEF q, m
  <2>9. QED  BY <2>5, <2>6, <2>7, <2>8
<1>3. QED  BY <1>0, <1>1, <1>2

LEMMA ZeroIsAnId ==
    0 \in Octet /\ 0 \in IdRange
<1>1. Radix \in Nat /\ Radix > 0
  BY RadixAssumption DEF USPC_LIST_SOME_FULL
<1>2. Radix * Radix \in Int /\ Radix * Radix > 0
  BY <1>1, SMT
<1>3. QED  BY <1>1, <1>2 DEF Octet, IdRange

\* The encoded setting, byte by byte; its length is what the encoder compares
\* with the buffer.
LEMMA Layout ==
    ASSUME NEW r \in Packet, NEW full \in BOOLEAN
    PROVE  LET b == Encoded(r, full)
               k == Len(r.key)
               d == Len(r.data)
               e == Len(r.default)
           IN /\ b \in Seq(Octet) /\ Len(b) = Required(r, full)
              /\ Len(b) = 5 + k + d + (IF full THEN 2 + e ELSE 0)
              /\ b[1] = Byte(r.id) /\ b[2] = Byte(r.id \div Radix)
              /\ \A i \in 1..k : b[2 + i] = r.key[i]
              /\ b[3 + k] = NUL /\ b[4 + k] = r.type /\ b[5 + k] = Byte(d)
              /\ \A i \in 1..d : b[5 + k + i] = r.data[i]
              /\ full => /\ b[6 + k + d] = Byte(e)
                         /\ \A i \in 1..e : b[6 + k + d + i] = r.default[i]
                         /\ b[7 + k + d + e] = Byte(r.max)
<1> DEFINE w == Word(r.id)
           k == r.key
           t == <<NUL, r.type>>
           p == LengthAndBytes(r.data)
           g == LengthAndBytes(r.default)
           z == IF full THEN g \o <<Byte(r.max)>> ELSE <<>>
           b == Encoded(r, full)
           K == Len(r.key)
           D == Len(r.data)
           E == Len(r.default)
<1>1. /\ k \in Seq(Octet) /\ r.data \in Seq(Octet)
      /\ r.default \in Seq(Octet) /\ r.type \in Octet
      /\ r.max \in Octet /\ r.id \in IdRange
  BY SeqMonotonic DEF Packet
<1>2. K \in Nat /\ D \in Nat /\ E \in Nat
  BY <1>1, LenProperties
<1>3. Byte(D) \in Octet /\ Byte(E) \in Octet /\ Byte(r.max) \in Octet
  <2>1. K \in Int /\ D \in Int /\ E \in Int /\ r.max \in Int
    BY <1>1, <1>2 DEF Octet
  <2>2. QED  BY <2>1, BytesHold
<1>4. /\ w \in Seq(Octet) /\ Len(w) = 2
      /\ w[1] = Byte(r.id) /\ w[2] = Byte(r.id \div Radix)
  BY <1>1, BytesHold, TwoElements DEF Word
<1>5. t \in Seq(Octet) /\ Len(t) = 2 /\ t[1] = NUL /\ t[2] = r.type
  BY <1>1, BytesHold, TwoElements
<1>6. /\ p \in Seq(Octet) /\ Len(p) = 1 + D /\ p[1] = Byte(D)
      /\ \A i \in 1..D : p[1 + i] = r.data[i]
  BY <1>1, <1>3, OnePlus DEF LengthAndBytes
<1>7. /\ g \in Seq(Octet) /\ Len(g) = 1 + E /\ g[1] = Byte(E)
      /\ \A i \in 1..E : g[1 + i] = r.default[i]
  BY <1>1, <1>3, OnePlus DEF LengthAndBytes
<1> HIDE DEF w, k, t, p, g
<1>8. /\ z \in Seq(Octet) /\ Len(z) = IF full THEN E + 2 ELSE 0
      /\ full => /\ \A i \in 1..(1 + E) : z[i] = g[i]
                 /\ z[2 + E] = Byte(r.max)
  <2>1. CASE full
    <3>1. /\ z \in Seq(Octet) /\ Len(z) = Len(g) + 1
          /\ z[Len(g) + 1] = Byte(r.max)
          /\ \A i \in 1..Len(g) : z[i] = g[i]
      BY <2>1, <1>3, <1>7, PlusOne
    <3>2. QED  BY <2>1, <3>1, <1>2, <1>7
  <2>2. CASE ~full
    BY <2>2, EmptySeq
  <2>3. QED  BY <2>1, <2>2
<1> HIDE DEF z
<1>9. b = w \o k \o t \o p \o z
  BY DEF Encoded, b, w, k, t, p, g, z
<1>15. b \in Seq(Octet)
  BY <1>1, <1>4, <1>5, <1>6, <1>8, <1>9
<1> HIDE DEF b
<1> DEFINE X == 2 + K
           Y == X + 2
           Z == Y + 1 + D
<1>10. /\ Len(b) = Z + Len(z)
       /\ \A i \in 1..2 : b[i] = w[i]
       /\ \A i \in 1..K : b[2 + i] = k[i]
       /\ \A i \in 1..2 : b[X + i] = t[i]
       /\ \A i \in 1..(1 + D) : b[Y + i] = p[i]
       /\ \A i \in 1..Len(z) : b[Z + i] = z[i]
  <2>1. /\ w \in Seq(Octet) /\ k \in Seq(Octet) /\ t \in Seq(Octet)
        /\ p \in Seq(Octet) /\ z \in Seq(Octet)
    BY <1>1, <1>4, <1>5, <1>6, <1>8
  <2>2. /\ Len(w) = 2 /\ Len(k) = K /\ Len(t) = 2 /\ Len(p) = 1 + D
    BY <1>4, <1>5, <1>6 DEF k
  <2> DEFINE x == Len(w) + Len(k)
             y == x + Len(t)
             c == y + Len(p)
  <2>3. /\ Len(b) = c + Len(z)
        /\ \A i \in 1..Len(w) : b[i] = w[i]
        /\ \A i \in 1..Len(k) : b[Len(w) + i] = k[i]
        /\ \A i \in 1..Len(t) : b[x + i] = t[i]
        /\ \A i \in 1..Len(p) : b[y + i] = p[i]
        /\ \A i \in 1..Len(z) : b[c + i] = z[i]
    BY <2>1, <1>9
  <2> HIDE DEF K, D
  <2>4. x = X /\ y = Y /\ c = Z
    BY <2>2, <1>2
  <2>5. QED  BY <2>2, <2>3, <2>4
<1> HIDE DEF K, D, E
<1>11. /\ Len(b) = 5 + K + D + (IF full THEN 2 + E ELSE 0)
       /\ b[1] = w[1] /\ b[2] = w[2]
       /\ b[3 + K] = t[1] /\ b[4 + K] = t[2] /\ b[5 + K] = p[1]
       /\ \A i \in 1..D : b[5 + K + i] = p[1 + i]
  <2>1. b[X + 1] = t[1] /\ b[X + 2] = t[2] /\ b[Y + 1] = p[1]
    BY <1>2, <1>10
  <2>2. X + 1 = 3 + K /\ X + 2 = 4 + K /\ Y + 1 = 5 + K
    BY <1>2
  <2>3. ASSUME NEW i \in 1..D PROVE b[5 + K + i] = p[1 + i]
    <3>1. 1 + i \in 1..(1 + D) /\ Y + (1 + i) = 5 + K + i
      BY <1>2
    <3>2. QED  BY <3>1, <1>10
  <2>4. QED  BY <2>1, <2>2, <2>3, <1>2, <1>8, <1>10
<1>12. ASSUME full
       PROVE  /\ b[6 + K + D] = g[1]
              /\ \A i \in 1..E : b[6 + K + D + i] = g[1 + i]
              /\ b[7 + K + D + E] = Byte(r.max)
  <2>1. /\ b[Z + 1] = z[1] /\ b[Z + (2 + E)] = z[2 + E]
        /\ z[1] = g[1] /\ z[2 + E] = Byte(r.max)
    BY <1>12, <1>2, <1>8, <1>10
  <2>2. Z + 1 = 6 + K + D /\ Z + (2 + E) = 7 + K + D + E
    BY <1>2
  <2>3. ASSUME NEW i \in 1..E PROVE b[6 + K + D + i] = g[1 + i]
    <3>1. /\ 1 + i \in 1..(1 + E) /\ 1 + i \in 1..(E + 2)
          /\ Z + (1 + i) = 6 + K + D + i
      BY <1>2
    <3>2. QED  BY <3>1, <1>12, <1>8, <1>10
  <2>4. QED  BY <2>1, <2>2, <2>3
<1>13. Len(b) = Required(r, full)
  <2> DEFINE tail == IF full THEN 1 + 1 + E ELSE 0
  <2>1. Required(r, full) = 2 + K + 1 + 1 + 1 + D + tail
    BY DEF Required, K, D, E
  <2>2. tail = (IF full THEN 2 + E ELSE 0) /\ tail \in Nat
    BY <1>2
  <2> HIDE DEF tail
  <2>3. QED  BY <2>1, <2>2, <1>2, <1>11
<1>14. QED
  BY <1>4, <1>5, <1>6, <1>7, <1>10, <1>11, <1>12, <1>13, <1>15
     DEF b, k, K, D, E

\* The first zero byte after the id ends the key, because a key has none.
KeyEnd(b) == CHOOSE i \in 3..Len(b) :
                 b[i] = NUL /\ \A j \in 3..(i - 1) : b[j] # NUL

LEMMA KeyEnds ==
    ASSUME NEW r \in Packet, NEW full \in BOOLEAN
    PROVE  KeyEnd(Encoded(r, full)) = 3 + Len(r.key)
<1> DEFINE b == Encoded(r, full)
           K == Len(r.key)
           D == Len(r.data)
           E == Len(r.default)
           Ends(i) == b[i] = NUL /\ \A j \in 3..(i - 1) : b[j] # NUL
<1>1. /\ K \in Nat /\ D \in Nat /\ E \in Nat
      /\ \A i \in 1..K : r.key[i] # NUL
  BY LenProperties, ElementOfSeq DEF Packet
<1>2. /\ \A i \in 1..K : b[2 + i] = r.key[i]
      /\ b[3 + K] = NUL
      /\ Len(b) = 5 + K + D + (IF full THEN 2 + E ELSE 0)
  BY Layout
<1> HIDE DEF b, K, D, E
<1>3. Len(b) \in Nat /\ 3 + K \in 3..Len(b)
  BY <1>1, <1>2
<1>4. \A j \in 3..(2 + K) : b[j] # NUL
  <2>1. ASSUME NEW j \in 3..(2 + K) PROVE b[j] # NUL
    <3>1. j - 2 \in 1..K /\ 2 + (j - 2) = j
      BY <1>1
    <3>2. QED  BY <3>1, <1>1, <1>2
  <2>2. QED  BY <2>1
<1>5. Ends(3 + K)
  <2>1. (3 + K) - 1 = 2 + K
    BY <1>1
  <2>2. QED  BY <2>1, <1>2, <1>4
<1>6. \A i \in 3..Len(b) : Ends(i) => i = 3 + K
  <2>1. ASSUME NEW i \in 3..Len(b), Ends(i) PROVE i = 3 + K
    <3>1. ~(i < 3 + K)
      <4>1. i < 3 + K => i \in 3..(2 + K)
        BY <2>1, <1>1, <1>3
      <4>2. QED  BY <4>1, <2>1, <1>4
    <3>2. ~(3 + K < i)
      <4>1. 3 + K < i => 3 + K \in 3..(i - 1)
        BY <2>1, <1>1, <1>3
      <4>2. QED  BY <4>1, <2>1, <1>2
    <3>3. QED  BY <2>1, <3>1, <3>2, <1>1, <1>3
  <2>2. QED  BY <2>1
<1> HIDE DEF Ends
<1>7. (CHOOSE i \in 3..Len(b) : Ends(i)) = 3 + K
  BY <1>3, <1>5, <1>6
<1>8. QED  BY <1>7 DEF KeyEnd, Ends, b, K

\* What the client reads from a response is the setting that was encoded,
\* whatever its key and value, and nothing is left over (the encoders of
\* user_settings_protocol_binary.c against the format its README documents).
THEOREM ReadsBack ==
    ASSUME NEW r \in Packet, Short(r.data), Short(r.default),
           NEW full \in BOOLEAN
    PROVE  ClientReads(Encoded(r, full), full) =
             [id |-> r.id, key |-> r.key, type |-> r.type, data |-> r.data,
              default |-> IF full THEN r.default ELSE <<>>,
              max |-> IF full THEN r.max ELSE 0, extra |-> 0]
<1> DEFINE b == Encoded(r, full)
           K == Len(r.key)
           D == Len(r.data)
           E == Len(r.default)
           end == 3 + K
           rest == SubSeq(b, 6 + K + D, Len(b))
<1>1. /\ r.key \in Seq(Octet) /\ r.data \in Seq(Octet)
      /\ r.default \in Seq(Octet) /\ r.max \in Octet /\ r.id \in IdRange
      /\ K \in Nat /\ D \in Nat /\ E \in Nat
  BY SeqMonotonic, LenProperties DEF Packet
<1>2. /\ Byte(D) = D /\ Byte(E) = E /\ Byte(r.max) = r.max
      /\ Byte(r.id) + Radix * Byte(r.id \div Radix) = r.id
  BY <1>1, BytesHold DEF Short
<1>3. /\ b \in Seq(Octet)
      /\ Len(b) = 5 + K + D + (IF full THEN 2 + E ELSE 0)
      /\ b[1] = Byte(r.id) /\ b[2] = Byte(r.id \div Radix)
      /\ \A i \in 1..K : b[2 + i] = r.key[i]
      /\ b[3 + K] = NUL /\ b[4 + K] = r.type /\ b[5 + K] = D
      /\ \A i \in 1..D : b[5 + K + i] = r.data[i]
      /\ full => /\ b[6 + K + D] = E
                 /\ \A i \in 1..E : b[6 + K + D + i] = r.default[i]
                 /\ b[7 + K + D + E] = r.max
  BY <1>2, Layout
<1>5. KeyEnd(b) = end
  BY KeyEnds
<1>6. WordAt(b, 1) = r.id
  <2>1. WordAt(b, 1) = b[1] + Radix * b[2]
    BY DEF WordAt
  <2>2. QED  BY <2>1, <1>2, <1>3, Zenon
<1> DEFINE k == r.key
           v == r.data
           d == r.default
<1>7. /\ k \in Seq(Octet) /\ v \in Seq(Octet) /\ d \in Seq(Octet)
      /\ Len(k) = K /\ Len(v) = D /\ Len(d) = E
  BY <1>1
<1> HIDE DEF b, K, D, E, k, v, d
<1>8. SubSeq(b, 3, end - 1) = r.key
  <2>1. 2 + Len(k) <= Len(b)
    BY <1>1, <1>3, <1>7
  <2>2. \A i \in 1..Len(k) : b[2 + i] = k[i]
    BY <1>3, <1>7 DEF k
  <2>3. SubSeq(b, 2 + 1, 2 + Len(k)) = k
    BY <1>3, <1>7, <2>1, <2>2, Slice
  <2>4. 2 + 1 = 3 /\ 2 + Len(k) = end - 1
    BY <1>1, <1>7
  <2>5. QED  BY <2>3, <2>4 DEF k
<1>9. SubSeq(b, end + 3, end + 2 + D) = r.data
  <2>1. 5 + K + Len(v) <= Len(b) /\ 5 + K \in Nat
    BY <1>1, <1>3, <1>7
  <2>2. \A i \in 1..Len(v) : b[(5 + K) + i] = v[i]
    BY <1>3, <1>7 DEF v
  <2>3. SubSeq(b, (5 + K) + 1, (5 + K) + Len(v)) = v
    BY <1>3, <1>7, <2>1, <2>2, Slice
  <2>4. (5 + K) + 1 = end + 3 /\ (5 + K) + Len(v) = end + 2 + D
    BY <1>1, <1>7
  <2>5. QED  BY <2>3, <2>4 DEF v
<1>10. /\ rest \in Seq(Octet) /\ Len(rest) = IF full THEN 2 + E ELSE 0
       /\ \A i \in 1..Len(rest) : rest[i] = b[5 + K + D + i]
  BY <1>1, <1>3
<1> HIDE DEF rest
<1>11. ASSUME full
       PROVE  /\ rest[1] = E /\ rest[2 + E] = r.max
              /\ SubSeq(rest, 2, 1 + E) = r.default
  <2>1. /\ rest[1] = b[6 + K + D] /\ rest[2 + E] = b[7 + K + D + E]
        /\ \A i \in 1..E : rest[1 + i] = b[6 + K + D + i]
    BY <1>1, <1>10, <1>11
  <2>2. 1 + Len(d) <= Len(rest) /\ \A i \in 1..Len(d) : rest[1 + i] = d[i]
    <3>1. /\ Len(d) = E /\ Len(rest) = 2 + E
          /\ \A i \in 1..E : b[6 + K + D + i] = d[i]
      BY <1>3, <1>7, <1>10, <1>11 DEF d
    <3>2. QED  BY <1>1, <2>1, <3>1
  <2>3. SubSeq(rest, 1 + 1, 1 + Len(d)) = d
    <3>1. rest \in Seq(Octet) /\ d \in Seq(Octet)
      BY <1>7, <1>10
    <3>2. QED  BY <2>2, <3>1, Slice
  <2>4. QED  BY <1>3, <1>7, <1>11, <2>1, <2>3 DEF d
<1>12. /\ b[end + 1] = r.type /\ b[end + 2] = D
       /\ SubSeq(b, end + 3 + D, Len(b)) = rest
  <2>1. end + 1 = 4 + K /\ end + 2 = 5 + K /\ end + 3 + D = 6 + K + D
    BY <1>1
  <2>2. QED  BY <1>3, <2>1 DEF rest
<1>13. (IF full THEN Len(rest) - 2 - E ELSE Len(rest)) = 0
  BY <1>1, <1>10
<1> HIDE DEF end
<1>14. ClientReads(b, full) =
         [id |-> WordAt(b, 1), key |-> SubSeq(b, 3, end - 1),
          type |-> b[end + 1], data |-> SubSeq(b, end + 3, end + 2 + D),
          default |-> IF full THEN SubSeq(rest, 2, 1 + rest[1]) ELSE <<>>,
          max |-> IF full THEN rest[2 + rest[1]] ELSE 0,
          extra |-> IF full THEN Len(rest) - 2 - rest[1] ELSE Len(rest)]
  <2> DEFINE at == KeyEnd(b)
             l == b[at + 2]
             u == SubSeq(b, at + 3 + l, Len(b))
  <2>1. ClientReads(b, full) =
          [id |-> WordAt(b, 1), key |-> SubSeq(b, 3, at - 1),
           type |-> b[at + 1], data |-> SubSeq(b, at + 3, at + 2 + l),
           default |-> IF full THEN SubSeq(u, 2, 1 + u[1]) ELSE <<>>,
           max |-> IF full THEN u[2 + u[1]] ELSE 0,
           extra |-> IF full THEN Len(u) - 2 - u[1] ELSE Len(u)]
    BY DEF ClientReads, KeyEnd
  <2>2. at = end
    BY <1>5
  <2> HIDE DEF at
  <2>3. l = D /\ u = rest
    BY <1>12, <2>2
  <2>4. QED  BY <2>1, <2>2, <2>3
<1>15. ClientReads(b, full) =
         [id |-> r.id, key |-> r.key, type |-> r.type, data |-> r.data,
          default |-> IF full THEN r.default ELSE <<>>,
          max |-> IF full THEN r.max ELSE 0, extra |-> 0]
  BY <1>6, <1>8, <1>9, <1>11, <1>12, <1>13, <1>14
<1>16. QED  BY <1>15 DEF b

-----------------------------------------------------------------------------
(* The decoder on what a client writes.                                      *)

LEMMA CommandTypes ==
    /\ Commands \subseteq Octet \ {NUL}
    /\ TypeOnly \cap OneId = {} /\ TypeOnly \cap WithValue = {}
    /\ TypeOnly \cap ManyIds = {} /\ OneId \cap WithValue = {}
    /\ OneId \cap ManyIds = {} /\ WithValue \cap ManyIds = {}
BY RadixAssumption
   DEF Commands, TypeOnly, OneId, WithValue, ManyIds, Octet, NUL,
       USPC_GET, USPC_GET_FULL, USPC_LIST, USPC_LIST_FULL, USPC_SET,
       USPC_SET_DEFAULT, USPC_RESTORE, USPC_LIST_SOME, USPC_LIST_SOME_FULL

\* The four shapes of a command.
LEMMA DecodesTypeOnly ==
    ASSUME NEW type \in TypeOnly
    PROVE  Decode(<<type>>) = Command(type, 0, 0, <<>>)
<1> DEFINE b == <<type>>
<1>1. b # <<>> /\ b[1] = type
  OBVIOUS
<1>2. type \in Commands /\ LengthAgrees(b)
  BY <1>1 DEF Commands, LengthAgrees
<1> HIDE DEF b
<1>3. Decode(b) = DecodeKnown(b)
  BY <1>1, <1>2 DEF Decode
<1>4. DecodeKnown(b) = Command(type, 0, 0, <<>>)
  BY <1>1, CommandTypes DEF DecodeKnown
<1>5. QED  BY <1>3, <1>4 DEF b

LEMMA DecodesOneId ==
    ASSUME NEW type \in OneId, NEW id \in IdRange
    PROVE  Decode(ClientGets(type, id)) = Command(type, id, 0, <<>>)
<1> DEFINE b == ClientGets(type, id)
<1>1. type \in Commands /\ type \in Octet /\ type \notin TypeOnly
  BY CommandTypes DEF Commands
<1>2. b # <<>> /\ Len(b) = 3 /\ b[1] = type /\ WordAt(b, 2) = id
  <2> DEFINE w == Word(id)
  <2>1. /\ w \in Seq(Octet) /\ Len(w) = 2
        /\ w[1] = Byte(id) /\ w[2] = Byte(id \div Radix)
    BY BytesHold, TwoElements DEF Word
  <2>2. b = <<type>> \o w
    BY DEF ClientGets
  <2> HIDE DEF w, b
  <2>3. /\ b \in Seq(Octet) /\ Len(b) = 1 + Len(w) /\ b[1] = type
        /\ \A i \in 1..Len(w) : b[1 + i] = w[i]
    BY <1>1, <2>1, <2>2, OnePlus
  <2>4. b[2] = w[1] /\ b[3] = w[2] /\ Len(b) = 3
    BY <2>1, <2>3
  <2>5. WordAt(b, 2) = b[2] + Radix * b[3]
    BY DEF WordAt
  <2>6. Byte(id) + Radix * Byte(id \div Radix) = id
    BY BytesHold
  <2>7. WordAt(b, 2) = id
    BY <2>1, <2>4, <2>5, <2>6, Zenon
  <2>8. b # <<>>
    BY <2>4, EmptySeq
  <2>9. QED  BY <2>3, <2>4, <2>7, <2>8
<1> HIDE DEF b
<1>3. LengthAgrees(b)
  BY <1>2 DEF LengthAgrees
<1>4. Decode(b) = DecodeKnown(b)
  BY <1>1, <1>2, <1>3 DEF Decode
<1>5. DecodeKnown(b) = Command(type, id, 0, <<>>)
  BY <1>1, <1>2, CommandTypes DEF DecodeKnown
<1>6. QED  BY <1>4, <1>5 DEF b

LEMMA DecodesWithValue ==
    ASSUME NEW type \in WithValue, NEW id \in IdRange,
           NEW v \in Seq(Octet), Len(v) \in Octet \ {0}
    PROVE  Decode(ClientSets(type, id, v)) = Command(type, id, Len(v), v)
<1> DEFINE b == ClientSets(type, id, v)
           n == Len(v)
<1>1. /\ type \in Commands /\ type \in Octet
      /\ type \notin TypeOnly /\ type \notin OneId /\ type \notin ManyIds
  BY CommandTypes DEF Commands
<1>2. n \in Octet /\ n \in Nat \ {0}
  BY LenProperties
<1>3. /\ b \in Seq(Octet) /\ b # <<>> /\ Len(b) = 4 + n
      /\ b[1] = type /\ b[4] = n /\ WordAt(b, 2) = id
      /\ \A i \in 1..n : b[4 + i] = v[i]
  <2> DEFINE w == Word(id)
             l == <<n>>
             s == <<type>>
  <2>1. /\ w \in Seq(Octet) /\ Len(w) = 2
        /\ w[1] = Byte(id) /\ w[2] = Byte(id \div Radix)
    BY BytesHold, TwoElements DEF Word
  <2>2. l \in Seq(Octet) /\ Len(l) = 1 /\ l[1] = n
    BY <1>2, OneElement
  <2>3. s \in Seq(Octet) /\ Len(s) = 1 /\ s[1] = type
    BY <1>1, OneElement
  <2>4. b = s \o w \o l \o v
    BY DEF ClientSets
  <2> HIDE DEF w, l, s, b
  <2>5. /\ b \in Seq(Octet) /\ Len(b) = 4 + Len(v)
        /\ b[1] = s[1] /\ b[2] = w[1] /\ b[3] = w[2] /\ b[4] = l[1]
        /\ \A i \in 1..Len(v) : b[4 + i] = v[i]
    <3> DEFINE x == Len(s) + Len(w)
               y == x + Len(l)
    <3>1. s \in Seq(Octet) /\ w \in Seq(Octet) /\ l \in Seq(Octet)
      BY <2>1, <2>2, <2>3
    <3>2. /\ b \in Seq(Octet) /\ Len(b) = y + Len(v)
          /\ \A i \in 1..Len(s) : b[i] = s[i]
          /\ \A i \in 1..Len(w) : b[Len(s) + i] = w[i]
          /\ \A i \in 1..Len(l) : b[x + i] = l[i]
          /\ \A i \in 1..Len(v) : b[y + i] = v[i]
      BY <2>4, <3>1
    <3>3. Len(s) = 1 /\ Len(w) = 2 /\ Len(l) = 1 /\ x = 3 /\ y = 4
      BY <2>1, <2>2, <2>3
    <3>4. QED  BY <1>2, <3>2, <3>3
  <2>6. WordAt(b, 2) = b[2] + Radix * b[3]
    BY DEF WordAt
  <2>7. Byte(id) + Radix * Byte(id \div Radix) = id
    BY BytesHold
  <2>8. WordAt(b, 2) = id
    BY <2>1, <2>5, <2>6, <2>7, Zenon
  <2>9. QED  BY <1>2, <2>2, <2>3, <2>5, <2>8
<1> HIDE DEF b
<1>4. SubSeq(b, 5, 4 + n) = v
  <2>1. SubSeq(b, 4 + 1, 4 + Len(v)) = v
    <3>1. 4 + Len(v) <= Len(b)
      BY <1>2, <1>3
    <3>2. QED  BY <1>3, <3>1, Slice
  <2>2. QED  BY <2>1
<1> HIDE DEF n
<1>5. LengthAgrees(b)
  BY <1>2, <1>3 DEF LengthAgrees
<1>6. Decode(b) = DecodeKnown(b)
  BY <1>1, <1>3, <1>5 DEF Decode
<1>7. DecodeKnown(b) = Command(type, id, n, SubSeq(b, 5, 4 + n))
  BY <1>1, <1>3 DEF DecodeKnown
<1>8. QED  BY <1>4, <1>6, <1>7 DEF b, n

\* A byte is no more than what is cast to it.
LEMMA ByteBelow == \A n \in Nat : Byte(n) <= n
<1>1. Radix \in Nat \ {0}
  BY RadixAssumption DEF USPC_LIST_SOME_FULL
<1>2. ASSUME NEW n \in Nat PROVE Byte(n) <= n
  <2>1. n \div Radix \in Nat /\ n % Radix \in Nat
    BY <1>1, SMT
  <2>2. n = Radix * (n \div Radix) + (n % Radix)
    BY <1>1, SMT
  <2>3. Radix * (n \div Radix) >= 0
    BY <1>1, <2>1, SMT
  <2>4. n % Radix <= n
    <3> DEFINE x == Radix * (n \div Radix)
               m == n % Radix
    <3>1. n = x + m /\ x >= 0 /\ x \in Int /\ m \in Int
      BY <1>1, <2>1, <2>2, <2>3
    <3> HIDE DEF x, m
    <3>2. m <= n
      BY <3>1, SMT
    <3>3. QED  BY <3>2 DEF m
  <2>5. QED  BY <2>4 DEF Byte
<1>3. QED  BY <1>2

\* A list of ids is decoded as its ids in order, all of them if the length in
\* bytes fits one byte.
LEMMA DecodesManyIds ==
    ASSUME NEW type \in ManyIds, NEW ids \in Seq(IdRange),
           Len(ids) \in Octet
    PROVE  LET cmd == Decode(ClientLists(type, ids))
           IN /\ cmd.err = "ok" /\ cmd.type = type /\ cmd \in CommandRecord
              /\ Len(Ids(cmd)) \in Nat /\ Len(Ids(cmd)) <= Len(ids)
              /\ \A i \in 1..Len(Ids(cmd)) : Ids(cmd)[i] = ids[i]
              /\ 2 * Len(ids) \in Octet => Len(Ids(cmd)) = Len(ids)
<1> DEFINE n == Len(ids)
           At(i) == Word(ids[(i + 1) \div 2])[2 - (i % 2)]
           f == [i \in 1..(2 * n) |-> At(i)]
           h == <<type, n>>
           b == ClientLists(type, ids)
           l == Byte(2 * n)
           cmd == Command(type, 0, l, f)
<1>1. /\ type \in Commands /\ type \in Octet
      /\ type \notin TypeOnly /\ type \notin OneId /\ type \notin WithValue
  BY CommandTypes DEF Commands
<1>2. n \in Nat /\ n \in Octet
  BY LenProperties
<1>3. \A j \in 1..n : /\ Word(ids[j])[1] = Byte(ids[j])
                      /\ Word(ids[j])[2] = Byte(ids[j] \div Radix)
                      /\ Byte(ids[j]) \in Octet /\ Byte(ids[j] \div Radix) \in Octet
                      /\ Byte(ids[j]) + Radix * Byte(ids[j] \div Radix) = ids[j]
  <2>1. ASSUME NEW j \in 1..n PROVE ids[j] \in IdRange
    BY ElementOfSeq
  <2>2. QED  BY <2>1, BytesHold, TwoElements DEF Word
<1>4. \A i \in 1..(2 * n) : At(i) \in Octet
  <2>1. ASSUME NEW i \in 1..(2 * n) PROVE At(i) \in Octet
    <3>1. (i + 1) \div 2 \in 1..n /\ 2 - (i % 2) \in {1, 2}
      BY <1>2
    <3>2. QED  BY <1>3, <3>1
  <2>2. QED  BY <2>1
<1>5. /\ f \in Seq(Octet) /\ Len(f) = 2 * n
      /\ \A i \in 1..(2 * n) : f[i] = At(i)
  <2> HIDE DEF At
  <2>1. f \in [1..(2 * n) -> Octet] /\ 2 * n \in Nat
    BY <1>2, <1>4
  <2>2. QED  BY <2>1
<1>6. h \in Seq(Octet) /\ Len(h) = 2 /\ h[1] = type /\ h[2] = n
  BY <1>1, <1>2, TwoElements
<1>7. b = h \o f
  BY DEF ClientLists
<1> HIDE DEF f, h, b
<1>8. /\ b \in Seq(Octet) /\ Len(b) = 2 + 2 * n
      /\ b[1] = type /\ b[2] = n
      /\ \A i \in 1..(2 * n) : b[2 + i] = f[i]
  <2>1. h \in Seq(Octet) /\ f \in Seq(Octet)
    BY <1>5, <1>6
  <2>2. /\ b \in Seq(Octet) /\ Len(b) = Len(h) + Len(f)
        /\ \A i \in 1..Len(h) : b[i] = h[i]
        /\ \A i \in 1..Len(f) : b[Len(h) + i] = f[i]
    BY <1>7, <2>1
  <2>3. QED  BY <2>2, <1>2, <1>5, <1>6
<1>9. b # <<>>
  BY <1>2, <1>8, EmptySeq
<1>10. SubSeq(b, 3, Len(b)) = f
  <2>1. SubSeq(b, 2 + 1, 2 + Len(f)) = f
    <3>1. 2 + Len(f) <= Len(b) /\ \A i \in 1..Len(f) : b[2 + i] = f[i]
      BY <1>2, <1>5, <1>8
    <3>2. QED  BY <1>5, <1>8, <3>1, Slice
  <2>2. QED  BY <2>1, <1>5, <1>8
<1>11. LengthAgrees(b)
  <2>1. Len(b) >= 2 /\ (Len(b) - 2) \div 2 = n
    BY <1>2, <1>8
  <2>2. QED  BY <2>1, <1>8 DEF LengthAgrees
<1>12. /\ l \in Octet /\ l \in Nat /\ l <= 2 * n
       /\ 2 * n \in Octet => l = 2 * n
  <2> HIDE DEF n
  <2>1. 2 * n \in Int /\ 2 * n \in Nat
    BY <1>2
  <2>2. l \in Octet /\ (2 * n \in Octet => l = 2 * n)
    BY <2>1, BytesHold
  <2>3. l \in Nat
    BY <2>2, RadixAssumption DEF Octet
  <2>4. l <= 2 * n
    BY <2>1, ByteBelow
  <2>5. QED  BY <2>2, <2>3, <2>4
<1> HIDE DEF n, l
<1>13. Decode(b) = cmd
  <2>1. Decode(b) = DecodeKnown(b)
    BY <1>1, <1>8, <1>9, <1>11 DEF Decode
  <2>2. DecodeKnown(b) = Command(type, 0, Byte(2 * b[2]), SubSeq(b, 3, Len(b)))
    BY <1>1, <1>8 DEF DecodeKnown
  <2>3. QED  BY <2>1, <2>2, <1>8, <1>10 DEF l
<1>14. /\ Len(Ids(cmd)) = l \div 2 /\ l \div 2 \in Nat /\ l \div 2 <= n
       /\ \A i \in 1..(l \div 2) : Ids(cmd)[i] = ids[i]
       /\ 2 * n \in Octet => l \div 2 = n
  <2>1. cmd.len = l /\ cmd.value = f
    BY DEF Command
  <2>2. Ids(cmd) = [i \in 1..(l \div 2) |-> WordAt(f, 2 * i - 1)]
    BY <2>1 DEF Ids
  <2>3. /\ l \div 2 \in Nat /\ l \div 2 <= n
        /\ 2 * n \in Octet => l \div 2 = n
    BY <1>2, <1>12
  <2>4. ASSUME NEW i \in 1..n PROVE WordAt(f, 2 * i - 1) = ids[i]
    <3>1. /\ 2 * i - 1 \in 1..(2 * n) /\ 2 * i \in 1..(2 * n)
          /\ (2 * i - 1) + 1 = 2 * i
          /\ (2 * i) \div 2 = i /\ (2 * i + 1) \div 2 = i
          /\ 2 - ((2 * i - 1) % 2) = 1 /\ 2 - ((2 * i) % 2) = 2
      BY <1>2
    <3>2. WordAt(f, 2 * i - 1) = f[2 * i - 1] + Radix * f[2 * i]
      BY <3>1 DEF WordAt
    <3>3. f[2 * i - 1] = Word(ids[i])[1] /\ f[2 * i] = Word(ids[i])[2]
      BY <1>5, <3>1
    <3>4. QED  BY <1>3, <3>2, <3>3, Zenon
  <2>5. \A i \in 1..(l \div 2) : i \in 1..n
    BY <1>2, <2>3
  <2>6. \A i \in 1..(l \div 2) : Ids(cmd)[i] = ids[i]
    BY <2>2, <2>4, <2>5, Zenon
  <2>7. Len(Ids(cmd)) = l \div 2
    BY <2>2, <2>3
  <2>8. QED  BY <2>3, <2>6, <2>7
<1>15. cmd.err = "ok" /\ cmd.type = type
  BY DEF Command
<1>16. cmd \in CommandRecord
  <2>1. 0 \in IdRange
    BY ZeroIsAnId
  <2>2. QED  BY <1>1, <1>5, <1>12, <2>1 DEF Command, CommandRecord
<1> HIDE DEF cmd
<1>17. QED  BY <1>13, <1>14, <1>15, <1>16 DEF b, n

\* What the decoder refuses is no command.
LEMMA RefusedRecord ==
    ASSUME NEW b, Decode(b).err # "ok"
    PROVE  /\ Decode(b) \in CommandRecord /\ Decode(b).type = 0
           /\ Decode(b).value = <<>>
           /\ Decode(b).err \in {"EPROTO", "ENOTSUP"}
<1>1. 0 \in Octet /\ 0 \in IdRange /\ <<>> \in Seq(Octet)
  BY ZeroIsAnId
<1>2. \A err : /\ Refused(err).err = err /\ Refused(err).type = 0
               /\ Refused(err).value = <<>>
  BY DEF Refused
<1>3. \A err \in {"EPROTO", "ENOTSUP"} : Refused(err) \in CommandRecord
  BY <1>1 DEF Refused, CommandRecord
<1>4. \A type, id, len, value : Command(type, id, len, value).err = "ok"
  BY DEF Command
<1>5. ASSUME b # <<>>, b[1] \in Commands
      PROVE  DecodeKnown(b).err = "ok"
  BY <1>4, <1>5 DEF DecodeKnown, Commands
<1>6. Decode(b) \in {Refused("EPROTO"), Refused("ENOTSUP")}
  BY <1>5 DEF Decode
<1>7. QED  BY <1>2, <1>3, <1>6

=============================================================================
