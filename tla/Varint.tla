------------------------------- MODULE Varint -------------------------------
(***************************************************************************)
(* The variable-length integers of ByteArray: an unsigned integer of Width *)
(* bits goes out in groups of Group bits, the lowest first, one in a byte  *)
(* with a bit that says whether more follow; a signed one is first mapped  *)
(* to an unsigned one so that small absolute values stay short.  In the    *)
(* code Width is 32 or 64 and Group is 7.                                  *)
(***************************************************************************)
EXTENDS Integers, Sequences

CONSTANTS Width, Group

ASSUME VarintAssumption == Width \in Nat \ {0, 1} /\ Group \in Nat \ {0}

Base == 2 ^ Group
Unsigned == 0 .. 2 ^ Width - 1
Signed == -(2 ^ (Width - 1)) .. 2 ^ (Width - 1) - 1
Byte == 0 .. 2 * Base - 1

\* The most groups a value takes: 5 for 32 bits, 10 for 64.
Groups == (Width + Group - 1) \div Group

\* Slip: the sign is added without the complement.
EncodeSignLast(n) == IF n >= 0 THEN 2 * n ELSE -2 * n

\* (n << 1) ^ (n >> 31): the shift to the right fills with the sign.
EncodeZigZag(n) == IF n >= 0 THEN 2 * n ELSE -2 * n - 1

\* (n >> 1) ^ -(n & 1)
DecodeZigZag(u) == IF u % 2 = 0 THEN u \div 2 ELSE -(u \div 2) - 1

\* The loop ends with the first rest that fits a group.
Rest(v, i) == v \div Base ^ i
GroupsOf(v) == CHOOSE n \in 1 .. Groups :
    Rest(v, n) = 0 /\ \A k \in 1 .. n - 1 : Rest(v, k) # 0

\* Slip: a rest of exactly Base is taken to fit.
WriteOffByOne(v) ==
    LET n == CHOOSE n \in 1 .. Groups :
                Rest(v, n - 1) <= Base /\ \A k \in 1 .. n - 1 : Rest(v, k - 1) > Base
    IN  [i \in 1 .. n |-> (Rest(v, i - 1) % Base) + (IF i < n THEN Base ELSE 0)]

EncodeVarint(v) ==
    [i \in 1 .. GroupsOf(v) |-> (Rest(v, i - 1) % Base) + (IF i < GroupsOf(v) THEN Base ELSE 0)]

\* How many bytes readUInt32() takes: to the first without the bit, Groups at most.
Taken(s) ==
    LET ends(i) == i = Groups \/ s[i] < Base
    IN  CHOOSE i \in 1 .. Groups : ends(i) /\ \A k \in 1 .. i - 1 : ~ends(k)

\* What is shifted out of the width is lost.
DecodeVarint(s) ==
    LET sum[i \in 0 .. Groups] == IF i = 0 THEN 0 ELSE sum[i - 1] + (s[i] % Base) * Base ^ (i - 1)
    IN  sum[Taken(s)] % 2 ^ Width
=============================================================================
