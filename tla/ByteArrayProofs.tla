--------------------------- MODULE ByteArrayProofs ---------------------------
(***************************************************************************)
(* ByteArray for any block size and any bytes: m_cur is the node m_offset  *)
(* falls in, no operation leaves the list, and the nodes together are the  *)
(* text of module Tape.                                                    *)
(***************************************************************************)
EXTENDS ByteArray, SequenceTheorems, OrderLemmas, TLAPS

\* What the provers do not know of powers: they are numbers, a signed integer has one bit
\* less than an unsigned one, and Groups groups hold Width bits; and how they are reckoned.
Powers ==
    /\ 2 ^ Width \in Nat /\ 2 ^ (Width - 1) \in Nat
    /\ 2 ^ Width = 2 * 2 ^ (Width - 1)
    /\ Base \in Nat \ {0}
    /\ \A i \in Nat : Base ^ i \in Nat \ {0}
    /\ 2 ^ Width <= Base ^ Groups
    /\ Base ^ 0 = 1 /\ \A i \in Nat : Base ^ (i + 1) = Base * Base ^ i

ArrayInv == ArrayTypeOK /\ CurHoldsOffset /\ StaysInList

-----------------------------------------------------------------------------
(* Arithmetic of nodes and places.                                          *)

LEMMA DivMod ==
    ASSUME NEW n \in Nat \ {0}, NEW a \in Nat
    PROVE  /\ a \div n \in Nat /\ a % n \in 0 .. n - 1
           /\ a = n * (a \div n) + (a % n)
OBVIOUS

LEMMA Monotone ==
    ASSUME NEW n \in Nat, NEW p \in Nat, NEW q \in Nat, p <= q
    PROVE  n * p <= n * q
OBVIOUS

LEMMA DivUnique ==
    ASSUME NEW n \in Nat \ {0}, NEW a \in Nat, NEW q \in Nat, NEW r \in 0 .. n - 1,
           a = n * q + r
    PROVE  a \div n = q /\ a % n = r
OBVIOUS

\* A division rounds down.
LEMMA DivLess ==
    ASSUME NEW n \in Nat \ {0}, NEW a \in Nat, NEW q \in Nat
    PROVE  a < n * q <=> a \div n < q
OBVIOUS

LEMMA RoundUp ==
    ASSUME NEW n \in Nat \ {0}, NEW m \in Nat \ {0}
    PROVE  (m + n - 1) \div n \in Nat \ {0} /\ m <= n * ((m + n - 1) \div n)
OBVIOUS

\* i bytes further on than an offset is, counted from the node of the offset.
LEMMA Further ==
    ASSUME NEW n \in Nat \ {0}, NEW o \in Nat, NEW i \in Nat
    PROVE  /\ (o \div n) + (((o % n) + i) \div n) = (o + i) \div n
           /\ ((o % n) + i) % n = (o + i) % n
OBVIOUS

\* Products in another order.
LEMMA Regroup ==
    ASSUME NEW a \in Nat, NEW b \in Nat, NEW c \in Nat, NEW d \in Nat
    PROVE  (b * c + d) * a = c * (b * a) + d * a
OBVIOUS

\* Dividing twice.
LEMMA DivTwice ==
    ASSUME NEW n \in Nat \ {0}, NEW m \in Nat \ {0}, NEW a \in Nat
    PROVE  a \div (m * n) = (a \div n) \div m
<1> DEFINE q == a \div n
           r == a % n
           p == q \div m
           t == q % m
<1>1. q \in Nat /\ r \in 0 .. n - 1 /\ a = n * q + r
  BY DivMod, Zenon
<1>2. p \in Nat /\ t \in 0 .. m - 1 /\ q = m * p + t
  <2> HIDE DEF q
  <2> QED BY <1>1, DivMod, Zenon
<1> HIDE DEF q, r, p, t
<1>3. a = (m * n) * p + (n * t + r)
  <2>1. n * (m * p + t) = (m * n) * p + n * t
    BY <1>1, <1>2
  <2>2. a = ((m * n) * p + n * t) + r
    BY <1>1, <1>2, <2>1
  <2>3. (m * n) * p \in Nat /\ n * t \in Nat /\ r \in Nat
    BY <1>1, <1>2
  <2> QED BY <2>2, <2>3
<1>4. n * t + r \in 0 .. (m * n) - 1
  <2>1. n * t <= n * (m - 1)
    BY <1>2, Monotone
  <2>2. n * (m - 1) = m * n - n /\ m * n \in Nat /\ n * t \in Nat
    BY <1>2
  <2> QED BY <1>1, <2>1, <2>2
<1>5. m * n \in Nat \ {0}
  OBVIOUS
<1>6. a \div (m * n) = p
  BY <1>2, <1>3, <1>4, <1>5, DivUnique
<1> QED BY <1>6 DEF p, q

-----------------------------------------------------------------------------
(* Integers.                                                                *)

\* The first group of a rest, and the rest after it.
LEMMA Rests ==
    ASSUME Powers, NEW v \in Nat, NEW i \in Nat
    PROVE  /\ Rest(v, i) \in Nat /\ Rest(v, i) % Base \in 0 .. Base - 1
           /\ Rest(v, 0) = v
           /\ Rest(v, i) = Base * Rest(v, i + 1) + (Rest(v, i) % Base)
           /\ Rest(v, i + 1) \in Nat
<1>1. Base \in Nat \ {0} /\ Base ^ i \in Nat \ {0} /\ Base ^ 0 = 1 /\ Base ^ (i + 1) = Base * Base ^ i
  BY DEF Powers
<1>2. Rest(v, i) \in Nat
  BY <1>1, DivMod DEF Rest
<1>3. Rest(v, 0) = v
  BY <1>1 DEF Rest
<1>4. Rest(v, i + 1) = Rest(v, i) \div Base
  <2>1. PICK n \in Nat \ {0}, m \in Nat \ {0} : n = Base ^ i /\ m = Base
    BY <1>1
  <2>2. v \div (m * n) = (v \div n) \div m
    BY <2>1, DivTwice, Zenon
  <2> QED BY <1>1, <2>1, <2>2 DEF Rest
<1> HIDE DEF Rest
<1>5. Rest(v, i) \div Base \in Nat /\ Rest(v, i) % Base \in 0 .. Base - 1
      /\ Rest(v, i) = Base * (Rest(v, i) \div Base) + (Rest(v, i) % Base)
  BY <1>1, <1>2, DivMod
<1> QED BY <1>2, <1>3, <1>4, <1>5

\* The length of an encoding.
LEMMA GroupsFit ==
    ASSUME Powers, NEW v \in Unsigned
    PROVE  /\ Groups \in Nat \ {0} /\ v \in Nat
           /\ GroupsOf(v) \in 1 .. Groups /\ Rest(v, GroupsOf(v)) = 0
<1> USE VarintAssumption
<1>1. Groups \in Nat \ {0}
  <2>1. Width + Group - 1 \in Nat /\ Group \in Nat \ {0} /\ ~(Width + Group - 1 < Group * 1)
    OBVIOUS
  <2>2. (Width + Group - 1) \div Group \in Nat /\ ~((Width + Group - 1) \div Group < 1)
    BY <2>1, DivMod, DivLess
  <2> QED BY <2>2 DEF Groups
<1>2. v \in Nat /\ v < Base ^ Groups * 1 /\ Base ^ Groups \in Nat \ {0}
  BY <1>1 DEF Powers, Unsigned
<1>4. Rest(v, Groups) = 0
  <2>1. v \div (Base ^ Groups) < 1
    BY <1>2, DivLess
  <2>2. Rest(v, Groups) \in Nat
    BY <1>1, <1>2, Rests
  <2> QED BY <2>1, <2>2 DEF Rest
<1> DEFINE E == {n \in 1 .. Groups : Rest(v, n) = 0}
<1>5. \E n \in E : \A k \in E : n <= k
  <2>1. E \subseteq Nat /\ E # {}
    BY <1>1, <1>4
  <2> HIDE DEF E
  <2> QED BY <2>1, LeastNumber
<1>6. \E n \in 1 .. Groups : Rest(v, n) = 0 /\ \A k \in 1 .. n - 1 : Rest(v, k) # 0
  BY <1>1, <1>5
<1> QED BY <1>1, <1>2, <1>6 DEF GroupsOf

\* The encoding of an unsigned integer is a sequence of bytes.
LEMMA EncodedBytes ==
    ASSUME Powers, NEW v \in Unsigned
    PROVE  EncodeVarint(v) \in Seq(Byte) \ {<<>>}
<1>1. GroupsOf(v) \in Nat \ {0} /\ v \in Nat
  BY GroupsFit
<1>2. \A i \in 1 .. GroupsOf(v) :
         (Rest(v, i - 1) % Base) + (IF i < GroupsOf(v) THEN Base ELSE 0) \in Byte
  <2> SUFFICES ASSUME NEW i \in 1 .. GroupsOf(v)
               PROVE  (Rest(v, i - 1) % Base) + (IF i < GroupsOf(v) THEN Base ELSE 0) \in Byte
    OBVIOUS
  <2>1. i - 1 \in Nat
    BY <1>1
  <2>2. Rest(v, i - 1) % Base \in 0 .. Base - 1 /\ Base \in Nat \ {0}
    BY <1>1, <2>1, Rests DEF Powers
  <2> QED BY <2>2 DEF Byte
<1> QED BY <1>1, <1>2 DEF EncodeVarint

\* What the loop of the decoding has after i bytes, h being what it has after fewer.
Summed(s, h, i) == IF i = 0 THEN 0 ELSE h[i - 1] + (s[i] % Base) * Base ^ (i - 1)
Sums(s, h, n) == h = [i \in 0 .. n |-> Summed(s, h, i)]

LEMMA HasSums == ASSUME NEW s PROVE \A n \in Nat : \E h : Sums(s, h, n)
<1> DEFINE Given == {n \in Nat : \E h : Sums(s, h, n)}
<1>1. 0 \in Given
  <2> DEFINE h == [i \in 0 .. 0 |-> 0]
  <2>1. h = [i \in 0 .. 0 |-> Summed(s, h, i)]
    BY DEF Summed
  <2> HIDE DEF h
  <2> QED BY <2>1 DEF Sums
<1>2. ASSUME NEW n \in Nat, n \in Given PROVE n + 1 \in Given
  <2>1. PICK g : g = [i \in 0 .. n |-> Summed(s, g, i)]
    BY <1>2 DEF Sums
  <2> DEFINE last == g[n] + (s[n + 1] % Base) * Base ^ n
             h == [i \in 0 .. n + 1 |-> IF i = n + 1 THEN last ELSE g[i]]
  <2>2. ASSUME NEW i \in 0 .. n + 1 PROVE h[i] = Summed(s, h, i)
    <3>1. CASE i = n + 1
      <4>1. i # 0 /\ i - 1 = n /\ n \in 0 .. n + 1 /\ n # n + 1
        BY <3>1
      <4>2. h[n] = g[n] /\ h[i] = last
        BY <3>1, <4>1
      <4> HIDE DEF h
      <4> QED BY <3>1, <4>1, <4>2 DEF Summed
    <3>2. CASE i # n + 1
      <4>1. i \in 0 .. n /\ (i # 0 => i - 1 \in 0 .. n + 1 /\ i - 1 # n + 1)
        BY <3>2
      <4>2. h[i] = g[i] /\ (i # 0 => h[i - 1] = g[i - 1]) /\ g[i] = Summed(s, g, i)
        BY <2>1, <3>2, <4>1
      <4> HIDE DEF h
      <4> QED BY <4>2 DEF Summed
    <3> QED BY <3>1, <3>2
  <2>3. h = [i \in 0 .. n + 1 |-> h[i]]
    OBVIOUS
  <2> HIDE DEF h
  <2>4. h = [i \in 0 .. n + 1 |-> Summed(s, h, i)]
    BY <2>2, <2>3
  <2> QED BY <2>4 DEF Sums
<1>3. Nat \subseteq Given
  <2> HIDE DEF Given
  <2> QED BY <1>1, <1>2, Inductive
<1> QED BY <1>3

LEMMA Decoding ==
    ASSUME NEW s
    PROVE  DecodeVarint(s) = (CHOOSE h : Sums(s, h, Groups))[Taken(s)] % 2 ^ Width
BY DEF DecodeVarint, Sums, Summed

\* The bytes of an encoding are those the decoding takes.
LEMMA TakesGroups ==
    ASSUME Powers, NEW v \in Unsigned, NEW s,
           \A i \in 1 .. GroupsOf(v) : s[i] = EncodeVarint(v)[i]
    PROVE  /\ Taken(s) = GroupsOf(v)
           /\ \A i \in 1 .. GroupsOf(v) : s[i] % Base = Rest(v, i - 1) % Base
<1> DEFINE len == GroupsOf(v)
           r(i) == Rest(v, i - 1) % Base
<1>1. Groups \in Nat \ {0} /\ len \in 1 .. Groups /\ v \in Nat /\ Base \in Nat \ {0}
  BY GroupsFit DEF Powers
<1>2. ASSUME NEW i \in 1 .. len
      PROVE  r(i) \in 0 .. Base - 1 /\ s[i] = r(i) + (IF i < len THEN Base ELSE 0)
  <2>1. i - 1 \in Nat
    BY <1>1
  <2>2. Rest(v, i - 1) % Base \in 0 .. Base - 1
    BY <1>1, <2>1, Rests
  <2>3. s[i] = EncodeVarint(v)[i]
    OBVIOUS
  <2> QED BY <2>2, <2>3 DEF EncodeVarint
<1> HIDE DEF len, r
<1>3. ASSUME NEW i \in 1 .. len PROVE s[i] % Base = r(i)
  <2>1. s[i] = Base * (IF i < len THEN 1 ELSE 0) + r(i)
    BY <1>1, <1>2
  <2> DEFINE q == IF i < len THEN 1 ELSE 0
  <2>2. q \in Nat
    OBVIOUS
  <2>3. s[i] = Base * q + r(i)
    BY <2>1
  <2> HIDE DEF q
  <2>4. PICK b \in Nat \ {0}, d \in Nat : d < b /\ b = Base /\ d = r(i)
    BY <1>1, <1>2
  <2>5. b * q + d \in Nat
    BY <2>2
  <2>6. (b * q + d) % b = d
    <3>1. d \in 0 .. b - 1
      BY <2>4
    <3> QED BY <2>2, <2>5, <3>1, DivUnique
  <2>7. s[i] = b * q + d
    BY <2>3, <2>4
  <2>8. s[i] % b = d
    BY ONLY <2>6, <2>7
  <2> QED BY <2>4, <2>8
<1> DEFINE ends(i) == i = Groups \/ s[i] < Base
           first(i) == ends(i) /\ \A k \in 1 .. i - 1 : ~ends(k)
<1>4. ends(len) /\ \A k \in 1 .. len - 1 : ~ends(k)
  <2>1. s[len] < Base
    <3>1. len \in 1 .. len /\ ~(len < len)
      BY <1>1
    <3>2. s[len] = r(len) + 0 /\ r(len) \in 0 .. Base - 1
      BY <1>2, <3>1
    <3> QED BY <1>1, <3>2
  <2>2. ASSUME NEW k \in 1 .. len - 1 PROVE ~ends(k)
    <3>1. k \in 1 .. len /\ k < len /\ k # Groups
      BY <1>1
    <3>2. s[k] = r(k) + Base /\ r(k) \in 0 .. Base - 1
      BY <1>2, <3>1
    <3> QED BY <1>1, <3>1, <3>2
  <2> QED BY <2>1, <2>2
<1>5. ASSUME NEW i \in 1 .. Groups, first(i) PROVE i = len
  <2>1. ~(i < len)
    BY <1>1, <1>4, <1>5
  <2>2. ~(len < i)
    BY <1>1, <1>4, <1>5
  <2> QED BY <1>1, <2>1, <2>2
<1>6. Taken(s) = CHOOSE i \in 1 .. Groups : first(i)
  BY DEF Taken
<1> HIDE DEF ends
<1>7. len \in 1 .. Groups /\ first(len)
  BY <1>1, <1>4
<1> HIDE DEF first
<1>8. Taken(s) = len
  BY <1>5, <1>6, <1>7
<1> QED BY <1>3, <1>8 DEF len, r

\* What has been decoded and what is still to come make up the value.
LEMMA SumsMakeUp ==
    ASSUME Powers, NEW v \in Unsigned, NEW s, NEW h, Sums(s, h, Groups),
           \A i \in 1 .. GroupsOf(v) : s[i] % Base = Rest(v, i - 1) % Base
    PROVE  \A i \in Nat : i <= GroupsOf(v) => h[i] \in Nat /\ v = Rest(v, i) * Base ^ i + h[i]
<1> DEFINE len == GroupsOf(v)
           Good == {i \in Nat : i <= len => h[i] \in Nat /\ v = Rest(v, i) * Base ^ i + h[i]}
<1>1. Groups \in Nat \ {0} /\ len \in 1 .. Groups /\ v \in Nat /\ Base \in Nat \ {0}
  BY GroupsFit DEF Powers
<1>2. \A i \in 0 .. Groups : h[i] = Summed(s, h, i)
  BY DEF Sums
<1>3. 0 \in Good
  <2>1. h[0] = 0
    BY <1>1, <1>2 DEF Summed
  <2>2. Rest(v, 0) = v /\ Base ^ 0 = 1
    BY <1>1, Rests DEF Powers
  <2>3. v = Rest(v, 0) * Base ^ 0 + h[0]
    BY <1>1, <2>1, <2>2
  <2> QED BY <2>1, <2>3
<1>4. ASSUME NEW i \in Nat, i \in Good PROVE i + 1 \in Good
  <2> SUFFICES ASSUME i + 1 <= len
               PROVE  h[i + 1] \in Nat /\ v = Rest(v, i + 1) * Base ^ (i + 1) + h[i + 1]
    OBVIOUS
  <2>1. i <= len /\ i + 1 \in 1 .. len /\ i + 1 \in 0 .. Groups /\ (i + 1) - 1 = i /\ i + 1 # 0
    BY <1>1
  <2>2. h[i] \in Nat /\ v = Rest(v, i) * Base ^ i + h[i]
    BY <1>4, <2>1
  <2>3. h[i + 1] = h[i] + (Rest(v, i) % Base) * Base ^ i
    <3>1. h[i + 1] = h[i] + (s[i + 1] % Base) * Base ^ i
      BY <1>2, <2>1 DEF Summed
    <3>2. s[i + 1] % Base = Rest(v, i) % Base
      BY <2>1
    <3> QED BY <3>1, <3>2
  <2>4. /\ Rest(v, i) \in Nat /\ Rest(v, i) % Base \in Nat /\ Rest(v, i + 1) \in Nat
        /\ Rest(v, i) = Base * Rest(v, i + 1) + (Rest(v, i) % Base)
    BY <1>1, Rests
  <2>5. Base ^ i \in Nat /\ Base ^ (i + 1) = Base * Base ^ i
    BY DEF Powers
  <2>6. PICK a \in Nat, c \in Nat, d \in Nat :
          a = Base ^ i /\ c = Rest(v, i + 1) /\ d = Rest(v, i) % Base
    BY <2>4, <2>5
  <2>7. /\ h[i + 1] = h[i] + d * a /\ Base ^ (i + 1) = Base * a
        /\ Rest(v, i) = Base * c + d
    BY <2>3, <2>4, <2>5, <2>6
  <2>8. v = (c * (Base * a) + d * a) + h[i]
    BY <1>1, <2>2, <2>6, <2>7, Regroup
  <2>9. c * (Base * a) \in Nat /\ d * a \in Nat
    BY <1>1
  <2>10. v = c * (Base * a) + (h[i] + d * a) /\ h[i] + d * a \in Nat
    BY <2>2, <2>8, <2>9
  <2> QED BY <2>6, <2>7, <2>10
<1>5. Nat \subseteq Good
  <2> HIDE DEF Good
  <2> QED BY <1>3, <1>4, Inductive
<1> QED BY <1>5

\* A varint is read as the integer it was written for, and the read takes the bytes that were
\* written and no more, whatever follows them, for any width and group (ByteArray.cc:228-265,
\* 437-478).
THEOREM VarintInverse ==
    ASSUME Powers, NEW v \in Unsigned, NEW s,
           \A i \in 1 .. GroupsOf(v) : s[i] = EncodeVarint(v)[i]
    PROVE  DecodeVarint(s) = v /\ Taken(s) = Len(EncodeVarint(v))
<1> DEFINE h == CHOOSE h : Sums(s, h, Groups)
<1>1. Groups \in Nat /\ GroupsOf(v) \in Nat /\ v \in Nat /\ Rest(v, GroupsOf(v)) = 0
  BY GroupsFit
<1>2. Sums(s, h, Groups)
  BY <1>1, HasSums
<1>3. DecodeVarint(s) = h[Taken(s)] % 2 ^ Width
  BY Decoding
<1> HIDE DEF h
<1>4. /\ Taken(s) = GroupsOf(v)
      /\ \A i \in 1 .. GroupsOf(v) : s[i] % Base = Rest(v, i - 1) % Base
  BY TakesGroups
<1>5. h[GroupsOf(v)] \in Nat /\ v = 0 * Base ^ GroupsOf(v) + h[GroupsOf(v)]
  BY <1>1, <1>2, <1>4, SumsMakeUp
<1>6. h[GroupsOf(v)] = v
  <2>1. Base ^ GroupsOf(v) \in Nat
    BY <1>1 DEF Powers
  <2> QED BY <1>5, <2>1
<1>7. v % 2 ^ Width = v
  <2>1. 2 ^ Width \in Nat \ {0} /\ v \in 0 .. 2 ^ Width - 1 /\ v = 2 ^ Width * 0 + v
    BY <1>1 DEF Powers, Unsigned
  <2> QED BY <1>1, <2>1, DivUnique
<1>8. Len(EncodeVarint(v)) = GroupsOf(v)
  BY <1>1 DEF EncodeVarint
<1> QED BY <1>3, <1>4, <1>6, <1>7, <1>8
\* The zigzag mapping is one to one from the signed to the unsigned integers, at the ends of
\* the type as well (ByteArray.cc:78-102).
THEOREM ZigZagInverse ==
    ASSUME Powers, NEW n \in Signed
    PROVE  EncodeZigZag(n) \in Unsigned /\ DecodeZigZag(EncodeZigZag(n)) = n
<1>1. n \in Int /\ EncodeZigZag(n) \in Nat /\ EncodeZigZag(n) < 2 ^ Width
  BY DEF Powers, Signed, EncodeZigZag
<1>2. CASE n >= 0
  <2>1. (2 * n) \div 2 = n /\ (2 * n) % 2 = 0
    BY <1>1, <1>2, DivUnique
  <2> QED BY <1>1, <1>2, <2>1 DEF EncodeZigZag, DecodeZigZag, Unsigned, Powers
<1>3. CASE ~(n >= 0)
  <2>1. -2 * n - 1 = 2 * (-n - 1) + 1 /\ -n - 1 \in Nat
    BY <1>1, <1>3
  <2>2. (-2 * n - 1) \div 2 = -n - 1 /\ (-2 * n - 1) % 2 = 1
    BY <1>1, <1>3, <2>1, DivUnique
  <2> QED BY <1>1, <1>3, <2>2 DEF EncodeZigZag, DecodeZigZag, Unsigned, Powers
<1> QED BY <1>2, <1>3

-----------------------------------------------------------------------------
(* The list of nodes.                                                       *)

LEMMA Sizes ==
    ASSUME ArrayInv
    PROVE  /\ B \in Nat \ {0} /\ MaxNodes \in Nat \ {0} /\ NULL \notin Int
           /\ nodes \in 1 .. MaxNodes /\ offset \in Nat /\ size \in Nat
           /\ offset <= size /\ size <= B * nodes /\ Capacity = B * nodes
           /\ cur = IF offset \div B < nodes THEN offset \div B ELSE NULL
           /\ offset < B * nodes <=> offset \div B < nodes
           /\ offset \div B \in Nat
<1>1. /\ B \in Nat \ {0} /\ MaxNodes \in Nat \ {0} /\ NULL \notin Int
      /\ nodes \in 1 .. MaxNodes /\ offset \in Nat /\ size \in Nat
  BY BlockAssumption, ByteAssumption DEF ArrayInv, ArrayTypeOK
<1>2. Capacity = B * nodes
  BY <1>1 DEF Capacity
<1> QED BY <1>1, <1>2, DivLess, DivMod DEF ArrayInv, CurHoldsOffset, NodeAt

\* More nodes hold what fewer held.
LEMMA SizeFits ==
    ASSUME ArrayInv, NEW n \in Nat, nodes <= n
    PROVE  size <= B * n
<1>1. PICK b \in Nat, m \in Nat, z \in Nat : b = B /\ m = nodes /\ z = size /\ z <= b * m
  BY Sizes
<1>2. b * m <= b * n
  BY <1>1, Monotone
<1>3. b * m \in Nat /\ b * n \in Nat
  OBVIOUS
<1> QED BY <1>1, <1>2, <1>3

\* addCapacity() makes room for all it is asked for.
LEMMA Grows ==
    ASSUME ArrayInv, NEW len \in Nat \ {0}
    PROVE  /\ Grown(len) \in Nat /\ nodes <= Grown(len)
           /\ offset + len <= B * Grown(len)
           /\ Start(len) = offset \div B
<1> USE Sizes
<1>1. CASE Capacity - offset >= len
  <2>1. Grown(len) = nodes
    BY <1>1 DEF Grown
  <2> QED BY <1>1, <2>1 DEF Start
<1>2. CASE ~(Capacity - offset >= len)
  <2> DEFINE miss == len - (Capacity - offset)
             more == (miss + B - 1) \div B
  <2>1. miss \in Nat \ {0}
    BY <1>2
  <2>2. more \in Nat \ {0} /\ miss <= B * more
    BY <2>1, RoundUp
  <2>3. Grown(len) = nodes + more
    BY <1>2 DEF Grown
  <2> HIDE DEF more
  <2>4. B * (nodes + more) = B * nodes + B * more
    BY <2>2
  <2>5. miss + Capacity = offset + len
    OBVIOUS
  <2>6. B * more \in Int
    BY <2>2
  <2>7. offset + len <= B * (nodes + more)
    BY <2>2, <2>4, <2>5, <2>6
  <2>8. Start(len) = offset \div B
    <3>1. CASE offset = Capacity
      <4>1. offset \div B = nodes
        BY <3>1, DivUnique
      <4> QED BY <2>2, <2>3, <3>1, <4>1 DEF Start
    <3>2. CASE offset # Capacity
      BY <3>2 DEF Start
    <3> QED BY <3>1, <3>2
  <2> QED BY <2>2, <2>3, <2>7, <2>8
<1> QED BY <1>1, <1>2

LEMMA Spots ==
    ASSUME ArrayInv, NEW i \in Nat
    PROVE  Node(offset \div B, i) = (offset + i) \div B /\ Place(i) = (offset + i) % B
BY Sizes, Further DEF Node, Place

\* An operation on len bytes that are there stays in the list.
LEMMA Reached ==
    ASSUME ArrayInv, NEW len \in Nat \ {0}, NEW n \in Nat, offset + len <= B * n
    PROVE  Reaches(offset \div B, len, n)
<1> USE Sizes
<1>1. Node(offset \div B, len - 1) = (offset + (len - 1)) \div B
  BY Spots
<1>2. (offset + (len - 1)) \div B < n
  BY DivLess
<1> QED BY <1>1, <1>2 DEF Reaches

\* Where something can be read m_cur is a node, and what is read is of the text.
LEMMA CurReaches ==
    ASSUME ArrayInv, NEW n \in 1 .. Readable
    PROVE  cur = offset \div B /\ Reaches(cur, n, nodes)
<1>1. n \in Nat \ {0} /\ offset + n <= B * nodes /\ offset < B * nodes
  BY Sizes DEF Readable
<1> QED BY <1>1, Sizes, Reached
-----------------------------------------------------------------------------
(* Text and memory.                                                         *)

\* Where a byte of the list is.
LEMMA Cells ==
    ASSUME ArrayInv, NEW j \in Nat, NEW n \in 1 .. MaxNodes, j < B * n
    PROVE  j \div B \in Numbers /\ j % B \in Places
<1>1. B \in Nat \ {0} /\ n \in Nat /\ n <= MaxNodes
  BY Sizes
<1>2. j \div B \in Nat /\ j % B \in 0 .. B - 1
  BY <1>1, DivMod
<1>3. j \div B < n
  BY <1>1, DivLess
<1> QED BY <1>1, <1>2, <1>3, Sizes DEF Numbers, Places

LEMMA TextIsSeq ==
    ASSUME ArrayInv
    PROVE  /\ Text \in Seq(Cell) /\ Len(Text) = size
           /\ \A i \in 1 .. size : Text[i] = mem[(i - 1) \div B][(i - 1) % B]
<1>1. \A i \in 1 .. size : mem[(i - 1) \div B][(i - 1) % B] \in Cell
  <2> SUFFICES ASSUME NEW i \in 1 .. size PROVE mem[(i - 1) \div B][(i - 1) % B] \in Cell
    OBVIOUS
  <2>1. i - 1 \in Nat /\ i - 1 < B * nodes
    BY Sizes
  <2>2. (i - 1) \div B \in Numbers /\ (i - 1) % B \in Places
    BY <2>1, Sizes, Cells
  <2> QED BY <2>2 DEF ArrayInv, ArrayTypeOK
<1>2. size \in Nat
  BY Sizes
<1>3. Text = [i \in 1 .. size |-> mem[(i - 1) \div B][(i - 1) % B]]
  BY DEF Text
<1> QED BY <1>1, <1>2, <1>3

LEMMA StoredType ==
    ASSUME ArrayInv, NEW s \in Seq(Cell), NEW k \in Int
    PROVE  Stored(s, k) \in [Numbers -> [Places -> Cell]]
<1> SUFFICES ASSUME NEW m \in Numbers, NEW p \in Places
             PROVE  (LET i == (m - k) * B + p - (offset % B)
                     IN  IF i \in 0 .. Len(s) - 1 THEN s[i + 1] ELSE mem[m][p]) \in Cell
  BY DEF Stored
<1>1. mem[m][p] \in Cell
  BY DEF ArrayInv, ArrayTypeOK
<1>2. \A i \in 0 .. Len(s) - 1 : s[i + 1] \in Cell
  OBVIOUS
<1> QED BY <1>1, <1>2

\* The bytes written are those from the offset on, the others stay.
LEMMA StoredAt ==
    ASSUME ArrayInv, NEW s \in Seq(Cell), NEW n \in 1 .. MaxNodes, NEW j \in Nat, j < B * n
    PROVE  Stored(s, offset \div B)[j \div B][j % B] =
             IF j - offset \in 0 .. Len(s) - 1 THEN s[j - offset + 1]
             ELSE mem[j \div B][j % B]
<1> DEFINE m == j \div B
           p == j % B
           k == offset \div B
           q == offset % B
<1>1. m \in Numbers /\ p \in Places
  BY Cells
<1>2. Stored(s, k)[m][p] =
        LET i == (m - k) * B + p - q IN IF i \in 0 .. Len(s) - 1 THEN s[i + 1] ELSE mem[m][p]
  BY <1>1 DEF Stored
<1>0. B \in Nat \ {0} /\ offset \in Nat
  BY Sizes
<1>3. m \in Nat /\ p \in 0 .. B - 1 /\ j = B * m + p
  BY <1>0, DivMod, Zenon
<1>4. k \in Nat /\ q \in 0 .. B - 1 /\ offset = B * k + q
  BY <1>0, DivMod, Zenon
<1>5. B * m - B * k = (m - k) * B /\ B * m \in Int /\ B * k \in Int
  <2> HIDE DEF m, k
  <2> QED BY <1>0, <1>3, <1>4
<1>6. (m - k) * B + p - q = j - offset
  <2> HIDE DEF m, k, p, q
  <2> QED BY <1>0, <1>3, <1>4, <1>5
<1> QED BY <1>2, <1>6

LEMMA LoadedText ==
    ASSUME ArrayInv, NEW n \in 1 .. Readable
    PROVE  /\ Loaded(n) \in Seq(Cell) /\ Len(Loaded(n)) = n
           /\ Loaded(n) = SubSeq(Text, offset + 1, offset + n)
<1>1. cur = offset \div B /\ offset + n <= size /\ n \in Nat
  BY CurReaches, Sizes DEF Readable
<1>2. \A i \in 1 .. n : mem[Node(cur, i - 1)][Place(i - 1)] = Text[offset + i]
  <2> SUFFICES ASSUME NEW i \in 1 .. n
               PROVE  mem[Node(cur, i - 1)][Place(i - 1)] = Text[offset + i]
    OBVIOUS
  <2>1. i - 1 \in Nat /\ offset + i \in 1 .. size /\ (offset + i) - 1 = offset + (i - 1)
    BY <1>1, Sizes
  <2>2. Node(cur, i - 1) = (offset + (i - 1)) \div B /\ Place(i - 1) = (offset + (i - 1)) % B
    BY <1>1, <2>1, Spots
  <2> QED BY <2>1, <2>2, TextIsSeq
<1>3. Loaded(n) = [i \in 1 .. n |-> Text[offset + i]]
  BY <1>2 DEF Loaded
<1>4. \A i \in 1 .. n : Text[offset + i] \in Cell
  BY <1>1, TextIsSeq, Sizes
<1>5. SubSeq(Text, offset + 1, offset + n) = [i \in 1 .. n |-> Text[offset + i]]
  <2>1. offset \in Nat /\ Text \in Seq(Cell) /\ offset + n <= Len(Text)
    BY <1>1, TextIsSeq, Sizes
  <2> QED BY <1>1, <2>1
<1> QED BY <1>1, <1>3, <1>4, <1>5

-----------------------------------------------------------------------------
(* Steps.                                                                   *)

TapeStep == [T!Next]_<<Text, offset, io>>

\* The text, before a step and after it.
TextFacts ==
    /\ Text \in Seq(Cell) /\ Len(Text) = size
    /\ \A i \in 1 .. size : Text[i] = mem[(i - 1) \div B][(i - 1) % B]
    /\ nodes \in 1 .. MaxNodes /\ offset \in Nat /\ size \in Nat
    /\ offset <= size /\ size <= B * nodes

LEMMA TextHolds == ArrayInv => TextFacts
BY TextIsSeq, Sizes DEF TextFacts

LEMMA TextAfter == ArrayInv' => TextFacts'
BY TextHolds, PTL

\* What a step that does not follow NULL leaves: n nodes, the position o and the size z.
LEMMA Lands ==
    ASSUME ArrayInv, NEW n \in 1 .. MaxNodes, NEW o \in Nat, NEW z \in Nat,
           o <= z, z <= B * n,
           nodes' = n, mem' \in [Numbers -> [Places -> Cell]], io' \in Seq(Cell),
           offset' = o, size' = z, cur' = NodeAt(o \div B, n), fault' = fault
    PROVE  ArrayInv'
<1>1. Capacity' = B * n
  BY Sizes DEF Capacity
<1>2. o \div B \in Nat /\ (o \div B < n => o \div B \in Numbers)
  <2>1. B \in Nat \ {0} /\ n \in Nat /\ n <= MaxNodes /\ MaxNodes \in Nat
    BY Sizes
  <2>2. o \div B \in Nat
    BY <2>1, DivMod
  <2> QED BY <2>1, <2>2 DEF Numbers
<1>3. cur' \in Numbers \cup {NULL} /\ cur' = NodeAt(offset' \div B, nodes')
  BY <1>2 DEF NodeAt
<1>4. ArrayTypeOK'
  BY <1>3 DEF ArrayInv, ArrayTypeOK
<1>5. CurHoldsOffset'
  BY <1>1, <1>3 DEF CurHoldsOffset
<1> QED BY <1>4, <1>5 DEF ArrayInv, StaysInList

\* setOffset() to the capacity stops the program; the text stays.
LEMMA SeekFails ==
    ASSUME ArrayInv, Fail("seek")
    PROVE  ArrayInv' /\ TapeStep
<1>1. ArrayTypeOK' /\ StaysInList'
  BY DEF ArrayInv, ArrayTypeOK, Fail, StaysInList
<1>2. CurHoldsOffset'
  BY DEF ArrayInv, CurHoldsOffset, Fail, Capacity
<1>3. UNCHANGED <<Text, offset, io>>
  BY DEF Fail, Text
<1> QED BY <1>1, <1>2, <1>3 DEF ArrayInv, TapeStep

\* The text after the bytes s are put at the offset.
LEMMA PutText ==
    ASSUME ArrayInv, ArrayInv', NEW s \in Seq(Cell),
           mem' = Stored(s, offset \div B), offset' = offset + Len(s), io' = s,
           size' = IF offset + Len(s) > size THEN offset + Len(s) ELSE size
    PROVE  \A i \in 1 .. size' :
             Text'[i] = IF offset < i /\ i <= offset' THEN io'[i - offset] ELSE Text[i]
<1>1. TextFacts
  BY TextHolds
<1>2. /\ Text' \in Seq(Cell) /\ Len(Text') = size'
      /\ \A i \in 1 .. size' : Text'[i] = mem'[(i - 1) \div B][(i - 1) % B]
      /\ nodes' \in 1 .. MaxNodes /\ offset' \in Nat /\ size' \in Nat /\ size' <= B * nodes'
  BY TextAfter DEF TextFacts
<1>3. \A i \in 1 .. size' :
         Text'[i] = IF offset < i /\ i <= offset' THEN io'[i - offset] ELSE Text[i]
  <2> SUFFICES ASSUME NEW i \in 1 .. size'
               PROVE  Text'[i] = IF offset < i /\ i <= offset' THEN io'[i - offset] ELSE Text[i]
    OBVIOUS
  <2>1. /\ i \in Nat \ {0} /\ i - 1 \in Nat /\ offset \in Nat /\ size \in Nat /\ Len(s) \in Nat
        /\ offset' \in Nat /\ size' \in Nat
    BY <1>1, <1>2 DEF TextFacts
  <2>2. nodes' \in 1 .. MaxNodes /\ i - 1 < B * nodes'
    <3>1. B \in Nat \ {0} /\ MaxNodes \in Nat
      BY Sizes
    <3>2. B * nodes' \in Int
      BY <1>2, <3>1
    <3>3. nodes' \in 1 .. MaxNodes /\ size' \in Nat /\ size' <= B * nodes'
      BY <1>2
    <3> QED BY <2>1, <3>2, <3>3
  <2>3. Text'[i] = IF (i - 1) - offset \in 0 .. Len(s) - 1 THEN s[(i - 1) - offset + 1]
                   ELSE mem[(i - 1) \div B][(i - 1) % B]
    <3>1. Stored(s, offset \div B)[(i - 1) \div B][(i - 1) % B] =
            IF (i - 1) - offset \in 0 .. Len(s) - 1 THEN s[(i - 1) - offset + 1]
            ELSE mem[(i - 1) \div B][(i - 1) % B]
      BY <2>1, <2>2, StoredAt, Zenon
    <3>2. Text'[i] = mem'[(i - 1) \div B][(i - 1) % B]
      BY <1>2
    <3> QED BY <3>1, <3>2
  <2>4. (i - 1) - offset + 1 = i - offset
        /\ ((i - 1) - offset \in 0 .. Len(s) - 1 <=> offset < i /\ i <= offset')
    BY <2>1
  <2>5. ~(offset < i /\ i <= offset') => i \in 1 .. size
    <3>1. i <= size' /\ offset <= size
      BY <1>1, <2>1 DEF TextFacts
    <3> QED BY <2>1, <3>1
  <2> QED BY <1>1, <2>1, <2>3, <2>4, <2>5 DEF TextFacts
<1> QED BY <1>3

\* The bytes s are put at the offset.
LEMMA Puts ==
    ASSUME ArrayInv, ArrayInv', NEW s \in Seq(Cell),
           mem' = Stored(s, offset \div B), offset' = offset + Len(s), io' = s,
           size' = IF offset + Len(s) > size THEN offset + Len(s) ELSE size
    PROVE  TapeStep
<1>1. TextFacts
  BY TextHolds
<1>2. /\ Text' \in Seq(Cell) /\ Len(Text') = size'
      /\ \A i \in 1 .. size' : Text'[i] = mem'[(i - 1) \div B][(i - 1) % B]
      /\ nodes' \in 1 .. MaxNodes /\ offset' \in Nat /\ size' \in Nat /\ size' <= B * nodes'
  BY TextAfter DEF TextFacts
<1>3. \A i \in 1 .. size' :
         Text'[i] = IF offset < i /\ i <= offset' THEN io'[i - offset] ELSE Text[i]
  BY PutText
<1>4. T!Put
  BY <1>1, <1>2, <1>3 DEF T!Put, T!Longer, TextFacts
<1> QED BY <1>2, <1>4 DEF TapeStep, T!Next

\* The next n bytes are handed out.
LEMMA Takes ==
    ASSUME ArrayInv, NEW n \in 1 .. Readable, io' = Loaded(n), Text' = Text,
           offset' \in {offset, offset + n}
    PROVE  TapeStep
<1>1. /\ io' \in Seq(Cell) /\ Len(io') = n /\ io' = SubSeq(Text, offset + 1, offset + n)
      /\ Text \in Seq(Cell) /\ Len(Text) = size
  BY LoadedText, TextIsSeq
<1>2. offset \in Nat /\ n \in Nat /\ offset' \in Nat /\ offset + n <= size
  BY Sizes DEF Readable
<1>3. T!Take
  BY <1>1, <1>2 DEF T!Take
<1> QED BY <1>1, <1>2, <1>3 DEF TapeStep, T!Next

\* The position moves over the bytes there are.
LEMMA Seeks ==
    ASSUME ArrayInv, ArrayInv', io' = <<>>, mem' = mem,
           size' = IF offset' > size THEN offset' ELSE size
    PROVE  TapeStep
<1>1. TextFacts
  BY TextHolds
<1>2. /\ Text' \in Seq(Cell) /\ Len(Text') = size'
      /\ \A i \in 1 .. size' : Text'[i] = mem'[(i - 1) \div B][(i - 1) % B]
      /\ nodes' \in 1 .. MaxNodes /\ offset' \in Nat /\ size' \in Nat /\ size' <= B * nodes'
  BY TextAfter DEF TextFacts
<1>3. \A i \in 1 .. size : Text'[i] = Text[i]
  <2> SUFFICES ASSUME NEW i \in 1 .. size PROVE Text'[i] = Text[i]
    OBVIOUS
  <2>1. i \in 1 .. size'
    BY <1>1, <1>2 DEF TextFacts
  <2>2. Text[i] = mem[(i - 1) \div B][(i - 1) % B]
    BY <1>1 DEF TextFacts
  <2> QED BY <1>2, <2>1, <2>2
<1>4. T!Seek
  BY <1>1, <1>2, <1>3 DEF T!Seek, T!Longer, TextFacts
<1> QED BY <1>2, <1>4 DEF TapeStep, T!Next

-----------------------------------------------------------------------------
(* Operations.                                                              *)

LEMMA WriteKeeps ==
    ASSUME ArrayInv, NEW s \in Seq(Byte) \ {<<>>}, Write(s)
    PROVE  /\ ArrayInv' /\ TapeStep
           /\ offset' = offset + Len(s) /\ size' \in Nat /\ offset' <= size'
           /\ \A i \in 1 .. Len(s) : Text'[offset + i] = s[i]
<1> DEFINE len == Len(s)
           n == Grown(len)
           z == IF offset + len > size THEN offset + len ELSE size
<1>1. s \in Seq(Cell) /\ len \in Nat \ {0} /\ io \in Seq(Cell)
  BY DEF Cell, ArrayInv, ArrayTypeOK
<1>2. n \in Nat /\ nodes <= n /\ offset + len <= B * n /\ Start(len) = offset \div B
  BY <1>1, Grows
<1>3. Reaches(Start(len), len, n)
  BY <1>1, <1>2, Reached
<1>4. /\ n <= MaxNodes /\ nodes' = n /\ mem' = Stored(s, offset \div B)
      /\ cur' = NodeAt(Node(offset \div B, len), n)
      /\ offset' = offset + len /\ size' = z /\ io' = s /\ fault' = fault
  BY <1>2, <1>3 DEF Write
<1>5. offset \in Nat /\ size \in Nat /\ offset + len \in Nat /\ n \in 1 .. MaxNodes
      /\ offset \div B \in Int /\ MaxNodes \in Nat
  BY <1>1, <1>2, <1>4, Sizes
<1>6. Node(offset \div B, len) = (offset + len) \div B
  BY <1>1, Spots
<1>7. mem' \in [Numbers -> [Places -> Cell]]
  BY <1>1, <1>4, <1>5, StoredType
<1>8. size <= B * n
  BY <1>2, SizeFits
<1>9. ArrayInv'
  <2>1. z \in Nat /\ offset + len <= z /\ z <= B * n
    BY <1>2, <1>5, <1>8
  <2> HIDE DEF len, n, z
  <2> QED BY <1>1, <1>4, <1>5, <1>6, <1>7, <2>1, Lands
<1>10. TapeStep
  BY <1>1, <1>4, <1>9, Puts
<1>11. size' \in Nat /\ offset' <= size'
  BY <1>4, <1>5
<1>12. \A i \in 1 .. size' :
          Text'[i] = IF offset < i /\ i <= offset' THEN s[i - offset] ELSE Text[i]
  BY <1>1, <1>4, <1>9, PutText
<1>13. ASSUME NEW i \in 1 .. len PROVE Text'[offset + i] = s[i]
  <2>1. /\ offset + i \in 1 .. size' /\ offset < offset + i /\ offset + i <= offset'
        /\ (offset + i) - offset = i
    BY <1>1, <1>4, <1>5, <1>11
  <2> QED BY <1>12, <2>1
<1> QED BY <1>4, <1>9, <1>10, <1>11, <1>13

\* The nodes are the same, the position moves on by n.
LEMMA MovesOn ==
    ASSUME ArrayInv, NEW o \in Nat, o <= B * nodes, mem' = mem, nodes' = nodes,
           io' \in Seq(Cell), offset' = o, cur' = NodeAt(o \div B, nodes),
           size' = (IF o > size THEN o ELSE size), fault' = fault
    PROVE  ArrayInv'
<1> DEFINE z == IF o > size THEN o ELSE size
<1>1. mem' \in [Numbers -> [Places -> Cell]]
  BY DEF ArrayInv, ArrayTypeOK
<1>2. nodes \in 1 .. MaxNodes /\ z \in Nat /\ o <= z /\ z <= B * nodes
  BY Sizes
<1> HIDE DEF z
<1>3. size' = z
  BY DEF z
<1> QED BY <1>1, <1>2, <1>3, Lands

\* n bytes from the position on are there.
LEMMA Ahead ==
    ASSUME ArrayInv, NEW n \in 1 .. Readable
    PROVE  /\ n \in Nat \ {0} /\ offset + n \in Nat /\ offset + n <= size
           /\ offset + n <= B * nodes /\ nodes \in 1 .. MaxNodes
           /\ cur = offset \div B /\ Reaches(cur, n, nodes)
           /\ Node(cur, n) = (offset + n) \div B
           /\ Loaded(n) \in Seq(Cell)
<1>1. n \in Nat \ {0} /\ offset + n \in Nat /\ offset + n <= size /\ offset + n <= B * nodes
      /\ nodes \in 1 .. MaxNodes
  BY Sizes DEF Readable
<1> QED BY <1>1, CurReaches, Spots, LoadedText

\* A read of no bytes changes nothing, or looks at NULL and stops the program; the text stays.
LEMMA ReadOfNothing ==
    ASSUME ArrayInv, io' = <<>> \/ io' = io, UNCHANGED <<nodes, mem, cur, offset, size>>,
           fault' \in {fault, "null"}
    PROVE  ArrayInv' /\ TapeStep
<1>1. ArrayInv'
  <2>1. io' \in Seq(Cell)
    <3>1. io \in Seq(Cell) /\ <<>> \in Seq(Cell)
      BY DEF ArrayInv, ArrayTypeOK
    <3> QED BY <3>1
  <2>2. fault' \in {"none", "list", "seek", "null"} /\ fault' # "list"
    BY DEF ArrayInv, ArrayTypeOK, StaysInList
  <2>3. ArrayTypeOK'
    BY <2>1, <2>2 DEF ArrayInv, ArrayTypeOK
  <2>4. CurHoldsOffset'
    BY DEF ArrayInv, CurHoldsOffset, Capacity
  <2> QED BY <2>2, <2>3, <2>4 DEF ArrayInv, StaysInList
<1>2. Text' = Text /\ Text \in Seq(Cell) /\ Len(Text) = size /\ offset \in Nat /\ offset <= size
  BY TextIsSeq, Sizes DEF Text
<1>3. CASE io' = io
  BY <1>1, <1>2, <1>3 DEF TapeStep
<1>4. CASE io' = <<>>
  <2>1. SubSeq(Text, offset + 1, offset + 0) = <<>> /\ Len(io') = 0 /\ io' \in Seq(Cell)
    BY <1>2, <1>4
  <2>2. T!Take
    BY <1>2, <1>4, <2>1 DEF T!Take
  <2> QED BY <1>1, <1>2, <2>1, <2>2 DEF TapeStep, T!Next
<1> QED BY <1>3, <1>4

LEMMA ReadKeeps ==
    ASSUME ArrayInv, NEW n \in 0 .. Readable, Read(n)
    PROVE  ArrayInv' /\ TapeStep
<1>1. CASE n = 0
  <2>1. CASE cur = NULL
    BY <1>1, <2>1, ReadOfNothing DEF Read, Fail
  <2>2. CASE cur # NULL
    <3>1. /\ io' = Loaded(0) /\ cur' = NodeAt(Node(cur, 0), nodes) /\ offset' = offset + 0
          /\ UNCHANGED <<nodes, mem, size, fault>>
      BY <1>1, <2>2 DEF Read
    <3>2. offset \in Nat /\ cur = NodeAt(offset \div B, nodes) /\ cur = offset \div B
      BY <2>2, Sizes DEF ArrayInv, CurHoldsOffset, NodeAt
    <3>3. Node(cur, 0) = offset \div B
      BY <3>2, Spots
    <3>4. Loaded(0) = <<>>
      BY DEF Loaded
    <3>5. io' = <<>> /\ UNCHANGED <<nodes, mem, cur, offset, size>>
      BY <3>1, <3>2, <3>3, <3>4
    <3> QED BY <3>1, <3>5, ReadOfNothing
  <2> QED BY <2>1, <2>2
<1>2. CASE n # 0
  <2>0. n \in 1 .. Readable
    BY <1>2, Sizes DEF Readable
  <2>1. /\ io' = Loaded(n) /\ cur' = NodeAt((offset + n) \div B, nodes) /\ offset' = offset + n
        /\ nodes' = nodes /\ mem' = mem /\ size' = size /\ fault' = fault
    <3>1. cur # NULL
      BY <2>0, Ahead, Sizes DEF Reaches
    <3> QED BY <2>0, <3>1, Ahead DEF Read
  <2>2. size' = IF offset + n > size THEN offset + n ELSE size
    BY <2>0, <2>1, Ahead, Sizes
  <2>3. ArrayInv'
    BY <2>0, <2>1, <2>2, Ahead, MovesOn
  <2>4. Text' = Text
    BY <2>1 DEF Text
  <2> QED BY <2>0, <2>1, <2>3, <2>4, Takes
<1> QED BY <1>1, <1>2

\* A read at the position, given as an offset, is right; what one elsewhere hands out is not
\* claimed.
LEMMA ReadAtKeeps ==
    ASSUME ArrayInv, NEW n \in Nat, ReadAt(n, offset)
    PROVE  ArrayInv' /\ TapeStep
<1>1. n \in 0 .. Readable /\ offset \in Nat
  BY Sizes DEF ReadAt, Readable
<1>2. CASE n = 0
  <2>1. CASE cur = NULL
    BY <1>2, <2>1, ReadOfNothing DEF ReadAt, Fail
  <2>2. CASE cur # NULL
    <3>1. io' = <<>> /\ UNCHANGED <<nodes, mem, cur, offset, size, fault>>
      BY <1>2, <2>2 DEF ReadAt
    <3> QED BY <3>1, ReadOfNothing
  <2> QED BY <2>1, <2>2
<1>3. CASE n # 0
  <2>0. n \in 1 .. Readable
    BY <1>1, <1>3, Sizes DEF Readable
  <2>1. /\ cur # NULL /\ ~(cur + ((offset % B) + (n - 1)) \div B >= nodes)
    <3>1. Reaches(cur, n, nodes) /\ cur = offset \div B /\ offset \div B \in Nat
      BY <2>0, Ahead, Sizes
    <3>2. Node(cur, n - 1) \in Int
      <4>1. n - 1 \in Nat /\ (offset + (n - 1)) \in Nat /\ B \in Nat \ {0}
        BY <1>1, <2>0, Sizes
      <4>2. Node(cur, n - 1) = (offset + (n - 1)) \div B
        BY <3>1, <4>1, Spots
      <4> QED BY <4>1, <4>2, DivMod
    <3> QED BY <3>1, <3>2, Sizes DEF Reaches, Node
  <2>2. /\ io' = [i \in 1 .. n |->
                   mem[cur + ((offset % B) + (i - 1)) \div B][((offset % B) + i - 1) % B]]
        /\ UNCHANGED <<nodes, mem, cur, offset, size, fault>>
    BY <2>1 DEF ReadAt
  <2>3. \A i \in 1 .. n : (offset % B) + i - 1 = (offset % B) + (i - 1)
    <3>1. offset % B \in Int
      BY <1>1, Sizes
    <3> QED BY <3>1
  <2>4. io' = Loaded(n)
    <3>1. io' = [i \in 1 .. n |->
                    mem[cur + ((offset % B) + (i - 1)) \div B][((offset % B) + (i - 1)) % B]]
      BY <2>2, <2>3
    <3> QED BY <3>1, Zenon DEF Loaded, Node, Place
  <2>5. Loaded(n) \in Seq(Cell)
    BY <2>0, Ahead
  <2>6. ArrayInv'
    BY <2>2, <2>4, <2>5 DEF ArrayInv, ArrayTypeOK, CurHoldsOffset, StaysInList, Capacity
  <2>7. Text' = Text
    BY <2>2 DEF Text
  <2> QED BY <2>0, <2>2, <2>4, <2>6, <2>7, Takes
<1> QED BY <1>2, <1>3

LEMMA ShowKeeps ==
    ASSUME ArrayInv, Show
    PROVE  ArrayInv' /\ TapeStep
<1>1. Readable \in 1 .. Readable
  BY Sizes DEF Readable, Show
<1>2. io' = Loaded(Readable) /\ UNCHANGED <<nodes, mem, cur, offset, size, fault>>
  BY <1>1, Ahead DEF Show
<1>3. Loaded(Readable) \in Seq(Cell)
  BY <1>1, Ahead
<1>4. ArrayInv'
  BY <1>2, <1>3 DEF ArrayInv, ArrayTypeOK, CurHoldsOffset, StaysInList, Capacity
<1>5. Text' = Text
  BY <1>2 DEF Text
<1> QED BY <1>1, <1>2, <1>4, <1>5, Takes

LEMMA SetOffsetKeeps ==
    ASSUME ArrayInv, NEW o \in 0 .. Capacity, SetOffset(o)
    PROVE  ArrayInv' /\ TapeStep
<1>1. CASE o \div B >= nodes
  BY <1>1, SeekFails DEF SetOffset
<1>2. CASE ~(o \div B >= nodes)
  <2>1. /\ offset' = o /\ size' = (IF o > size THEN o ELSE size) /\ cur' = o \div B
        /\ fault' = fault /\ io' = <<>> /\ nodes' = nodes /\ mem' = mem
    BY <1>2 DEF SetOffset, Move
  <2>2. o \in Nat /\ o <= B * nodes /\ B \in Nat \ {0} /\ nodes \in Nat
    BY Sizes
  <2>3. o \div B \in Nat
    BY <2>2, DivMod
  <2>4. o \div B < nodes
    BY <1>2, <2>2, <2>3
  <2>5. cur' = NodeAt(o \div B, nodes) /\ io' \in Seq(Cell)
    BY <2>1, <2>4 DEF NodeAt
  <2>6. ArrayInv'
    BY <2>1, <2>2, <2>5, MovesOn
  <2> QED BY <2>1, <2>6, Seeks
<1> QED BY <1>1, <1>2

LEMMA ClearKeeps ==
    ASSUME ArrayInv, Clear
    PROVE  ArrayInv' /\ TapeStep
<1>1. B \in Nat \ {0} /\ MaxNodes \in Nat \ {0} /\ 1 \in 1 .. MaxNodes
  BY Sizes
<1>2. 0 \div B = 0
  BY <1>1, DivUnique
<1>3. /\ nodes' = 1 /\ mem' = [NoBytes EXCEPT ![0] = mem[0]] /\ cur' = 0 /\ offset' = 0
      /\ size' = 0 /\ io' = <<>> /\ fault' = fault
  BY DEF Clear
<1>4. mem' \in [Numbers -> [Places -> Cell]]
  <2>1. NoBytes \in [Numbers -> [Places -> Cell]] /\ 0 \in Numbers
    BY <1>1 DEF NoBytes, Cell, Numbers
  <2>2. mem[0] \in [Places -> Cell]
    BY <2>1 DEF ArrayInv, ArrayTypeOK
  <2> QED BY <1>3, <2>1, <2>2
<1>5. cur' = NodeAt(0 \div B, 1) /\ io' \in Seq(Cell) /\ 0 <= B * 1
  BY <1>1, <1>2, <1>3 DEF NodeAt
<1>6. ArrayInv'
  BY <1>1, <1>3, <1>4, <1>5, Lands
<1>7. Text' = <<>>
  BY <1>3 DEF Text
<1> QED BY <1>3, <1>6, <1>7 DEF TapeStep, T!Next, T!Clear

LEMMA ReceiveKeeps ==
    ASSUME ArrayInv, NEW s \in Seq(Byte), s # <<>>, NEW len \in Nat \ {0}, Receive(s, len)
    PROVE  ArrayInv' /\ TapeStep
<1> DEFINE n == Grown(len)
           o == offset + Len(s)
           z == IF o > size THEN o ELSE size
<1>1. s \in Seq(Cell) /\ Len(s) \in Nat /\ Len(s) <= len /\ n <= MaxNodes
  BY DEF Cell, Receive
<1>2. n \in Nat /\ nodes <= n /\ offset + len <= B * n /\ Start(len) = offset \div B
  BY Grows
<1>3. Reaches(Start(len), len, n)
  BY <1>2, Reached
<1>4. CASE o \div B >= n
  BY <1>3, <1>4, SeekFails DEF Receive
<1>5. CASE ~(o \div B >= n)
  <2>1. /\ nodes' = n /\ mem' = Stored(s, offset \div B) /\ io' = s
        /\ offset' = o /\ size' = z /\ cur' = o \div B /\ fault' = fault
    BY <1>2, <1>3, <1>5 DEF Receive, Move
  <2>2. /\ offset \in Nat /\ size \in Nat /\ o \in Nat /\ n \in 1 .. MaxNodes
        /\ B \in Nat \ {0} /\ offset \div B \in Int /\ o <= B * n
    BY <1>1, <1>2, Sizes
  <2>3. o \div B \in Nat
    BY <2>2, DivMod
  <2>4. cur' = NodeAt(o \div B, n)
    BY <1>2, <1>5, <2>1, <2>3 DEF NodeAt
  <2>5. mem' \in [Numbers -> [Places -> Cell]]
    BY <1>1, <2>1, <2>2, StoredType
  <2>6. size <= B * n
    BY <1>2, SizeFits
  <2>7. z \in Nat /\ o <= z /\ z <= B * n
    BY <2>2, <2>6
  <2>8. ArrayInv'
    <3> HIDE DEF n, o, z
    <3> QED BY <1>1, <2>1, <2>2, <2>4, <2>5, <2>7, Lands
  <2> QED BY <1>1, <2>1, <2>8, Puts
<1> QED BY <1>4, <1>5

LEMMA ReceiveNothingKeeps ==
    ASSUME ArrayInv, NEW len \in Nat \ {0}, ReceiveNothing(len)
    PROVE  ArrayInv' /\ TapeStep
<1> DEFINE n == Grown(len)
<1>1. n \in Nat /\ nodes <= n /\ offset + len <= B * n /\ Start(len) = offset \div B
  BY Grows
<1>2. Reaches(Start(len), len, n)
  BY <1>1, Reached
<1>3. /\ n <= MaxNodes /\ nodes' = n /\ cur' = offset \div B
      /\ mem' = mem /\ offset' = offset /\ size' = size /\ io' = io /\ fault' = fault
  BY <1>1, <1>2 DEF ReceiveNothing
<1>4. offset \in Nat /\ size \in Nat /\ B \in Nat \ {0} /\ n \in 1 .. MaxNodes /\ offset <= size
  BY <1>1, <1>3, Sizes
<1>5. offset \div B < n
  <2>1. B * n \in Int
    BY <1>1, <1>4
  <2>2. offset < B * n
    BY <1>1, <1>4, <2>1
  <2> HIDE DEF n
  <2> QED BY <1>1, <1>4, <2>2, DivLess
<1>6. cur' = NodeAt(offset \div B, n)
  BY <1>3, <1>5 DEF NodeAt
<1>7. size <= B * n
  BY <1>1, SizeFits
<1>8. mem' \in [Numbers -> [Places -> Cell]] /\ io' \in Seq(Cell)
  BY <1>3 DEF ArrayInv, ArrayTypeOK
<1>9. ArrayInv'
  <2> HIDE DEF n
  <2> QED BY <1>3, <1>4, <1>6, <1>7, <1>8, Lands
<1>10. UNCHANGED <<Text, offset, io>>
  BY <1>3 DEF Text
<1> QED BY <1>9, <1>10 DEF TapeStep

LEMMA SendKeeps ==
    ASSUME ArrayInv, NEW len \in Nat \ {0}, NEW n \in 1 .. Readable, Send(n, len)
    PROVE  ArrayInv' /\ TapeStep
<1> DEFINE avail == IF len > Readable THEN Readable ELSE len
<1>1. avail \in 1 .. Readable
  BY Sizes DEF Readable
<1>2. Reaches(cur, avail, nodes)
  BY <1>1, Ahead
<1>3. CASE (offset + n) \div B >= nodes
  BY <1>2, <1>3, SeekFails DEF Send
<1>4. CASE ~((offset + n) \div B >= nodes)
  <2>1. /\ offset' = offset + n /\ cur' = (offset + n) \div B /\ fault' = fault
        /\ size' = (IF offset + n > size THEN offset + n ELSE size)
        /\ io' = Loaded(n) /\ nodes' = nodes /\ mem' = mem
    BY <1>2, <1>4 DEF Send, Move
  <2>2. (offset + n) \div B \in Nat /\ nodes \in Nat
    <3>1. offset + n \in Nat /\ B \in Nat \ {0} /\ nodes \in Nat
      BY Ahead, Sizes
    <3> HIDE DEF Readable
    <3> QED BY <3>1, DivMod
  <2>3. cur' = NodeAt((offset + n) \div B, nodes)
    BY <1>4, <2>1, <2>2 DEF NodeAt
  <2>4. ArrayInv'
    BY <2>1, <2>3, Ahead, MovesOn
  <2>5. size' = size
    BY <2>1, Ahead, Sizes
  <2>6. Text' = Text
    BY <2>1, <2>5 DEF Text
  <2> QED BY <2>1, <2>4, <2>6, Takes
<1> QED BY <1>3, <1>4

\* A read() is given another offset than the position.
ReadElsewhere == \E o \in Elsewhere \ {offset} : \E n \in 0 .. size : ReadAt(n, o)

\* Whatever it hands out are bytes of the list, or it ends the program.
LEMMA ReadElsewhereKeeps ==
    ASSUME ArrayInv, ReadElsewhere
    PROVE  ArrayTypeOK' /\ CurHoldsOffset'
<1>1. PICK o \in Nat, n \in Nat : ReadAt(n, o)
  BY ElsewhereAssumption, Sizes DEF ReadElsewhere
<1>2. CASE Fail("list") \/ Fail("null")
  BY <1>2 DEF Fail, ArrayInv, ArrayTypeOK, CurHoldsOffset, Capacity
<1>3. CASE ~(Fail("list") \/ Fail("null"))
  <2> DEFINE q == o % B
             node(i) == cur + (q + i) \div B
  <2>1. /\ cur # NULL /\ (n > 0 => ~(node(n - 1) >= nodes))
        /\ io' = [i \in 1 .. n |-> mem[node(i - 1)][(q + i - 1) % B]]
        /\ UNCHANGED <<nodes, mem, cur, offset, size, fault>>
    BY <1>1, <1>3 DEF ReadAt
  <2>2. /\ B \in Nat \ {0} /\ q \in Nat /\ nodes \in 1 .. MaxNodes /\ MaxNodes \in Nat
        /\ cur \in Nat /\ cur < nodes
    <3>1. B \in Nat \ {0} /\ nodes \in 1 .. MaxNodes /\ MaxNodes \in Nat
      BY Sizes
    <3>2. o % B \in Nat
      BY <3>1, DivMod
    <3>3. cur \in Nat /\ cur < nodes
      BY <2>1, Sizes
    <3> QED BY <3>1, <3>2, <3>3
  <2> HIDE DEF q
  <2>3. ASSUME NEW i \in 1 .. n PROVE mem[node(i - 1)][(q + i - 1) % B] \in Cell
    <3>1. n > 0 /\ n - 1 \in Nat /\ i - 1 \in Nat /\ i - 1 <= n - 1
      OBVIOUS
    <3>2. (q + (n - 1)) \div B \in Nat /\ (q + (i - 1)) \div B \in Nat
          /\ (q + i - 1) % B \in 0 .. B - 1
      <4>1. q + (n - 1) \in Nat /\ q + (i - 1) \in Nat /\ q + i - 1 \in Nat
        BY <2>2, <3>1
      <4> QED BY <2>2, <4>1, DivMod
    <3>3. (q + (n - 1)) \div B < nodes - cur /\ nodes - cur \in Nat
      <4>1. PICK d \in Nat : d = (q + (n - 1)) \div B
        BY <3>2
      <4>2. ~(cur + d >= nodes)
        BY <2>1, <3>1, <4>1
      <4>3. d < nodes - cur /\ nodes - cur \in Nat
        BY <2>2, <4>2
      <4> QED BY <4>1, <4>3
    <3>4. q + (n - 1) < B * (nodes - cur)
      BY <2>2, <3>1, <3>3, DivLess
    <3>5. (q + (i - 1)) \div B < nodes - cur
      <4>1. B * (nodes - cur) \in Int
        BY <2>2
      <4>2. q + (i - 1) < B * (nodes - cur)
        BY <2>2, <3>1, <3>4, <4>1
      <4> QED BY <2>2, <3>1, <3>3, <4>2, DivLess
    <3>6. node(i - 1) \in Numbers /\ (q + i - 1) % B \in Places
      BY <2>2, <3>2, <3>3, <3>5 DEF Numbers, Places
    <3> HIDE DEF node
    <3> QED BY <3>6 DEF ArrayInv, ArrayTypeOK
  <2>4. io' \in Seq(Cell)
    <3> HIDE DEF node
    <3> QED BY <2>1, <2>3
  <2> QED BY <2>1, <2>4 DEF ArrayInv, ArrayTypeOK, CurHoldsOffset, Capacity
<1> QED BY <1>2, <1>3

LEMMA ArrayStep ==
    ASSUME Powers, ArrayInv, [ArrayNext]_arrayVars, ~ReadElsewhere
    PROVE  ArrayInv' /\ TapeStep
<1>1. ASSUME NEW v \in Values \cap Unsigned, WriteUInt(v) PROVE ArrayInv' /\ TapeStep
  BY <1>1, EncodedBytes, WriteKeeps DEF WriteUInt
<1>2. ASSUME NEW v \in Values \cap Signed, WriteInt(v) PROVE ArrayInv' /\ TapeStep
  BY <1>2, ZigZagInverse, EncodedBytes, WriteKeeps DEF WriteInt
<1>3. ASSUME NEW s \in Texts, Write(s) PROVE ArrayInv' /\ TapeStep
  BY <1>3, TextsAssumption, WriteKeeps
<1>4. ASSUME NEW s \in Texts, NEW len \in Lengths, Receive(s, len) PROVE ArrayInv' /\ TapeStep
  BY <1>4, TextsAssumption, ReceiveKeeps
<1>5. ASSUME NEW n \in 0 .. Readable, Read(n) PROVE ArrayInv' /\ TapeStep
  BY <1>5, ReadKeeps
<1>6. ASSUME NEW n \in 0 .. Readable, NEW len \in Lengths, Send(n, len)
      PROVE  ArrayInv' /\ TapeStep
  <2>1. n \in 1 .. Readable
    BY <1>6, Sizes DEF Send, Readable
  <2> QED BY <1>6, <2>1, TextsAssumption, SendKeeps
<1>7. ASSUME NEW len \in Lengths, ReceiveNothing(len) PROVE ArrayInv' /\ TapeStep
  BY <1>7, TextsAssumption, ReceiveNothingKeeps
<1>8. ASSUME NEW o \in 0 .. Capacity, SetOffset(o) PROVE ArrayInv' /\ TapeStep
  BY <1>8, SetOffsetKeeps
<1>10. ASSUME NEW o \in {offset} \cup Elsewhere, NEW n \in 0 .. size, ReadAt(n, o)
       PROVE  ArrayInv' /\ TapeStep
  <2>1. o = offset /\ n \in Nat
    BY <1>10, Sizes DEF ReadElsewhere
  <2> QED BY <1>10, <2>1, ReadAtKeeps
<1>9. ASSUME UNCHANGED arrayVars PROVE ArrayInv' /\ TapeStep
  <2>1. ArrayInv'
    BY <1>9 DEF arrayVars, ArrayInv, ArrayTypeOK, CurHoldsOffset, StaysInList, Capacity
  <2>2. UNCHANGED <<Text, offset, io>>
    BY <1>9 DEF arrayVars, Text
  <2> QED BY <2>1, <2>2 DEF TapeStep
<1> QED BY <1>1, <1>2, <1>3, <1>4, <1>5, <1>6, <1>7, <1>8, <1>9, <1>10, ShowKeeps, ClearKeeps
        DEF ArrayNext

LEMMA ArrayStarts ==
    ASSUME ArrayInit
    PROVE  ArrayInv /\ T!Init
<1> USE DEF ArrayInit
<1>1. B \in Nat \ {0} /\ MaxNodes \in Nat \ {0} /\ 1 \in 1 .. MaxNodes
  BY BlockAssumption
<1>2. 0 \div B = 0
  BY <1>1, DivUnique
<1>3. NoBytes \in [Numbers -> [Places -> Cell]] /\ 0 \in Numbers
  BY <1>1 DEF NoBytes, Cell, Numbers
<1>4. ArrayTypeOK
  BY <1>1, <1>3 DEF ArrayTypeOK
<1>5. CurHoldsOffset
  BY <1>1, <1>2 DEF CurHoldsOffset, NodeAt, Capacity
<1>6. ArrayInv
  BY <1>4, <1>5 DEF ArrayInv, StaysInList
<1> QED BY <1>6, TextIsSeq DEF T!Init

-----------------------------------------------------------------------------
(* Theorems.                                                                *)

\* After a fault nothing is done any more.
LEMMA Stopped ==
    ASSUME fault # "none", [ArrayNext]_arrayVars
    PROVE  UNCHANGED arrayVars
BY DEF ArrayNext, WriteUInt, WriteInt, Write, Receive, ReceiveNothing, Read, ReadAt, Send,
       SetOffset, Show, Clear

SafeInv == ArrayTypeOK /\ CurHoldsOffset

LEMMA SafeInvariant == Powers => (ArraySpec => []SafeInv)
<1> SUFFICES ASSUME Powers PROVE ArraySpec => []SafeInv
  OBVIOUS
<1>1. ArrayInit => SafeInv
  BY ArrayStarts DEF ArrayInv, SafeInv
<1>2. SafeInv /\ [ArrayNext]_arrayVars => SafeInv'
  <2> SUFFICES ASSUME SafeInv, [ArrayNext]_arrayVars PROVE SafeInv'
    OBVIOUS
  <2>1. CASE fault # "none"
    <3>1. UNCHANGED arrayVars
      BY <2>1, Stopped
    <3> QED BY <3>1 DEF arrayVars, SafeInv, ArrayTypeOK, CurHoldsOffset, Capacity
  <2>2. CASE fault = "none"
    <3>1. ArrayInv
      BY <2>2 DEF ArrayInv, SafeInv, StaysInList
    <3> QED BY <3>1, ArrayStep, ReadElsewhereKeeps DEF ArrayInv, SafeInv
  <2> QED BY <2>1, <2>2
<1> QED BY <1>1, <1>2, PTL DEF ArraySpec

\* The state of a ByteArray keeps its types, for any block size and width of integers and
\* whatever offsets read() is given (ByteArray.h:468-474).
THEOREM ArrayTypeCorrect == Powers => (ArraySpec => []ArrayTypeOK)
<1>1. SafeInv => ArrayTypeOK
  BY DEF SafeInv
<1> QED BY <1>1, SafeInvariant, PTL

\* m_cur is the node of m_offset after any operations (ByteArray.cc:589-663, 721-739).
THEOREM CurrentNode == Powers => (ArraySpec => []CurHoldsOffset)
<1>1. SafeInv => CurHoldsOffset
  BY DEF SafeInv
<1> QED BY <1>1, SafeInvariant, PTL

LEMMA ArrayInvariant == Powers /\ Elsewhere = {} => (ArraySpec => []ArrayInv)
<1> SUFFICES ASSUME Powers, Elsewhere = {} PROVE ArraySpec => []ArrayInv
  OBVIOUS
<1>1. ArrayInit => ArrayInv
  BY ArrayStarts
<1>2. ArrayInv /\ [ArrayNext]_arrayVars => ArrayInv'
  BY ArrayStep DEF ReadElsewhere
<1> QED BY <1>1, <1>2, PTL DEF ArraySpec

\* No operation with bytes to move follows the pointer of the last node (ByteArray.cc:589-663,
\* 676-708, 842-992), while read() is given no other offset than the position; that
\* setOffset() and a read() of no bytes do, at the capacity, is not excluded.
THEOREM InList == Powers /\ Elsewhere = {} => (ArraySpec => []StaysInList)
<1>1. ArrayInv => StaysInList
  BY DEF ArrayInv
<1> QED BY <1>1, ArrayInvariant, PTL

\* A ByteArray of any block size is a text with a position (ByteArray.cc:589-663, 842-992).
THEOREM IsTape == Powers /\ Elsewhere = {} => (ArraySpec => ImplementsTape)
<1> SUFFICES ASSUME Powers, Elsewhere = {} PROVE ArraySpec => ImplementsTape
  OBVIOUS
<1>1. ArrayInit => T!Init
  BY ArrayStarts
<1>2. ArrayInv /\ [ArrayNext]_arrayVars => [T!Next]_<<Text, offset, io>>
  BY ArrayStep DEF TapeStep, ReadElsewhere
<1>3. ArraySpec => []ArrayInv
  BY ArrayInvariant
<1> QED BY <1>1, <1>2, <1>3, PTL DEF ArraySpec, ImplementsTape, T!Spec, T!vars

\* What an encoding that has just been written reads as.
LEMMA WrittenReads ==
    ASSUME Powers, ArrayInv, NEW v \in Unsigned, Write(EncodeVarint(v)),
           NEW s, s = [i \in 1 .. size' - offset |-> Text'[offset + i]]
    PROVE  DecodeVarint(s) = v /\ offset' = offset + Taken(s)
<1> DEFINE e == EncodeVarint(v)
<1>1. e \in Seq(Byte) \ {<<>>} /\ Len(e) = GroupsOf(v)
  <2>1. GroupsOf(v) \in Nat
    BY GroupsFit
  <2> QED BY <2>1, EncodedBytes DEF EncodeVarint
<1>2. /\ offset' = offset + Len(e) /\ size' \in Nat /\ offset' <= size' /\ offset \in Nat
      /\ \A i \in 1 .. Len(e) : Text'[offset + i] = e[i]
  BY <1>1, WriteKeeps, Sizes
<1> HIDE DEF e
<1>3. \A i \in 1 .. GroupsOf(v) : s[i] = e[i]
  <2>1. Len(e) \in Nat
    BY <1>1
  <2>2. \A i \in 1 .. Len(e) : i \in 1 .. size' - offset
    <3>1. offset + Len(e) <= size'
      BY <1>2
    <3>2. \A len, z, o \in Nat : o + len <= z => \A i \in 1 .. len : i \in 1 .. z - o
      OBVIOUS
    <3> QED BY <1>2, <2>1, <3>1, <3>2
  <2> QED BY <1>1, <1>2, <2>2
<1> QED BY <1>1, <1>2, <1>3, VarintInverse DEF e

\* What is read from the place where an integer was written is that integer, and no byte more
\* is taken than were written, on whichever nodes they are (ByteArray.cc:78-113, 228-265,
\* 437-478).
THEOREM ReadBack == Powers /\ Elsewhere = {} => (ArraySpec => ValuesReadBack)
<1> SUFFICES ASSUME Powers, Elsewhere = {} PROVE ArraySpec => ValuesReadBack
  OBVIOUS
<1> DEFINE s == [i \in 1 .. size' - offset |-> Text'[offset + i]]
           Reads ==
             /\ \A v \in Values \cap Unsigned : WriteUInt(v) /\ fault' = "none" =>
                   DecodeVarint(s) = v /\ offset' = offset + Taken(s)
             /\ \A n \in Values \cap Signed : WriteInt(n) /\ fault' = "none" =>
                   DecodeZigZag(DecodeVarint(s)) = n /\ offset' = offset + Taken(s)
<1>1. ArrayInv => Reads
  <2> SUFFICES ASSUME ArrayInv PROVE Reads
    OBVIOUS
  <2>1. ASSUME NEW v \in Values \cap Unsigned, WriteUInt(v)
        PROVE  DecodeVarint(s) = v /\ offset' = offset + Taken(s)
    <3> HIDE DEF s
    <3>1. Write(EncodeVarint(v)) /\ v \in Unsigned
      BY <2>1 DEF WriteUInt
    <3> QED BY <3>1, WrittenReads DEF s
  <2>2. ASSUME NEW n \in Values \cap Signed, WriteInt(n)
        PROVE  DecodeZigZag(DecodeVarint(s)) = n /\ offset' = offset + Taken(s)
    <3> HIDE DEF s
    <3>1. Write(EncodeVarint(EncodeZigZag(n)))
      BY <2>2 DEF WriteInt
    <3>2. EncodeZigZag(n) \in Unsigned /\ DecodeZigZag(EncodeZigZag(n)) = n
      BY ZigZagInverse
    <3>3. DecodeVarint(s) = EncodeZigZag(n) /\ offset' = offset + Taken(s)
      BY <3>1, <3>2, WrittenReads DEF s
    <3> QED BY <3>2, <3>3
  <2> QED BY <2>1, <2>2
<1>2. ArraySpec => []ArrayInv
  BY ArrayInvariant
<1> QED BY <1>1, <1>2, PTL DEF ValuesReadBack
=============================================================================
