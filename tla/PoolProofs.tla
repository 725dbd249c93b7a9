------------------------------ MODULE PoolProofs ------------------------------
(***************************************************************************)
(* Safety of ConnectionPool for any clients, connections and limits.  The  *)
(* inductive invariant adds to the properties at which step a client can   *)
(* have a connection or some to delete, and that those who are about to    *)
(* connect find room above the limit.                                      *)
(***************************************************************************)
EXTENDS ConnectionPool, FiniteSetTheorems, SequenceTheorems, OrderLemmas, TLAPS

Steps == {"idle", "scanned", "connecting", "using", "freed"}

\* PoolTypeOK without the sign of the count, which follows from TotalExact.
Types ==
    /\ conns \in Seq(Conns) /\ total \in Int
    /\ connected \subseteq alive /\ alive \subseteq Conns /\ expired \subseteq Conns
    /\ requests \in [Conns -> Nat]
    /\ pc \in [Clients -> Steps]
    /\ mine \in [Clients -> Conns \cup {NoConn}]
    /\ doomed \in [Clients -> SUBSET Conns]
    /\ crashed \in BOOLEAN

StageInv ==
    \A f \in Clients :
        /\ pc[f] \in {"idle", "connecting", "freed"} => mine[f] = NoConn
        /\ pc[f] = "using" => mine[f] # NoConn
        /\ pc[f] # "scanned" => doomed[f] = {}

\* Each client that connects has left room for itself below LimitSlack.
RoomInv == total + Cardinality(Connecting) <= MaxSize + Cardinality(Clients) - 1

PoolInv == Types /\ StageInv /\ OneHolder /\ TotalExact /\ RoomInv /\ RequestsBounded

-----------------------------------------------------------------------------
(* Sets and sequences.                                                      *)

LEMMA Elements ==
    ASSUME NEW s \in Seq(Conns)
    PROVE  ToSet(s) = {s[i] : i \in 1 .. Len(s)} /\ ToSet(s) \subseteq Conns
BY DEF ToSet

\* A sequence without its first n elements.
LEMMA Suffix ==
    ASSUME NEW s \in Seq(Conns), NEW n \in 0 .. Len(s)
    PROVE  LET r == SubSeq(s, n + 1, Len(s)) IN
           /\ r \in Seq(Conns) /\ Len(r) = Len(s) - n
           /\ \A i \in 1 .. Len(s) - n : r[i] = s[n + i]
OBVIOUS

LEMMA Appended ==
    ASSUME NEW s \in Seq(Conns), NEW c \in Conns
    PROVE  /\ Append(s, c) \in Seq(Conns)
           /\ ToSet(Append(s, c)) = ToSet(s) \cup {c}
           /\ c \notin ToSet(s) /\ (\A i, k \in 1 .. Len(s) : s[i] = s[k] => i = k) =>
                \A i, k \in 1 .. Len(Append(s, c)) : Append(s, c)[i] = Append(s, c)[k] => i = k
<1>1. /\ Append(s, c) \in Seq(Conns) /\ Len(Append(s, c)) = Len(s) + 1
      /\ \A i \in 1 .. Len(s) + 1 : Append(s, c)[i] = IF i = Len(s) + 1 THEN c ELSE s[i]
  OBVIOUS
<1> DEFINE t == Append(s, c)
<1>2. ToSet(s) = {s[i] : i \in 1 .. Len(s)} /\ ToSet(t) = {t[i] : i \in 1 .. Len(s) + 1}
  BY <1>1, Elements
<1> HIDE DEF t
<1>3. t \in Seq(Conns) /\ Len(t) = Len(s) + 1
      /\ \A i \in 1 .. Len(s) + 1 : t[i] = IF i = Len(s) + 1 THEN c ELSE s[i]
  BY <1>1 DEF t
<1>4. ToSet(t) = ToSet(s) \cup {c}
  <2>1. 1 .. Len(s) + 1 = (1 .. Len(s)) \cup {Len(s) + 1}
    OBVIOUS
  <2>2. Len(s) + 1 \notin 1 .. Len(s)
    OBVIOUS
  <2> QED BY <1>2, <1>3, <2>1, <2>2
<1>5. ASSUME c \notin ToSet(s), \A i, k \in 1 .. Len(s) : s[i] = s[k] => i = k,
             NEW i \in 1 .. Len(t), NEW k \in 1 .. Len(t), t[i] = t[k]
      PROVE  i = k
  <2>1. \A j \in 1 .. Len(s) : s[j] # c
    BY <1>2, <1>5
  <2> QED BY <1>3, <1>5, <2>1
<1> QED BY <1>3, <1>4, <1>5 DEF t

LEMMA ConnsFinite ==
    ASSUME NEW S \in SUBSET Conns
    PROVE  IsFiniteSet(S) /\ Cardinality(S) \in Nat
BY ConnsAssumption, FS_Subset, FS_CardinalityType

LEMMA ClientsFinite ==
    ASSUME NEW S \in SUBSET Clients
    PROVE  IsFiniteSet(S) /\ Cardinality(S) \in Nat /\ Cardinality(S) <= Cardinality(Clients)
BY ClientsAssumption, FS_Subset, FS_CardinalityType

LEMMA ClientsPositive == Cardinality(Clients) \in Nat \ {0}
BY ClientsAssumption, FS_EmptySet, FS_CardinalityType

\* Two parts without a common element.
LEMMA Parts ==
    ASSUME NEW S \in SUBSET Conns, NEW U \in SUBSET Conns, S \cap U = {}
    PROVE  Cardinality(S \cup U) = Cardinality(S) + Cardinality(U)
<1>1. IsFiniteSet(S) /\ IsFiniteSet(U)
  BY ConnsFinite
<1>2. Cardinality(S \cap U) = 0
  BY FS_EmptySet
<1>3. Cardinality(S \cup U) = Cardinality(S) + Cardinality(U) - Cardinality(S \cap U)
  BY <1>1, FS_Union
<1> QED BY <1>2, <1>3, ConnsFinite

-----------------------------------------------------------------------------
(* The steps.                                                               *)

\* Who has what does not change, and nothing is deleted.
LEMMA HoldersStay ==
    ASSUME OneHolder, UNCHANGED <<conns, mine, doomed>>, alive \subseteq alive'
    PROVE  OneHolder'
BY DEF OneHolder, Held, Doomed

\* What the scan of getConnection() does, whether it finds a good connection x or not: B is
\* to be deleted, and some of the others stay in the list.
LEMMA Scan ==
    ASSUME PoolInv, NEW f \in Clients, pc[f] = "idle",
           NEW B \in SUBSET ToSet(conns),
           NEW x \in (ToSet(conns) \ B) \cup {NoConn},
           conns' \in Seq(Conns),
           \A i, k \in 1 .. Len(conns') : conns'[i] = conns'[k] => i = k,
           ToSet(conns') \subseteq ToSet(conns) \ (B \cup {x}),
           mine' = [mine EXCEPT ![f] = x],
           doomed' = [doomed EXCEPT ![f] = B],
           total' = total - Cardinality(B),
           pc' = [pc EXCEPT ![f] = "scanned"],
           UNCHANGED <<alive, connected, expired, requests, crashed>>
    PROVE  PoolInv'
<1> USE DEF PoolInv, Types, StageInv
<1>1. ToSet(conns) \subseteq Conns /\ NoConn \notin Conns
  BY Elements, ConnsAssumption
<1>2. doomed[f] = {} /\ mine[f] = NoConn
  OBVIOUS
<1>3. Cardinality(B) \in Nat
  BY <1>1, ConnsFinite
<1>4. Types'
  BY <1>1, <1>3 DEF Steps
<1>5. StageInv'
  BY <1>2
<1>6. OneHolder'
  BY <1>1, <1>2 DEF OneHolder, Held, Doomed
<1>7. TotalExact'
  <2>1. Doomed' = Doomed \cup B
    BY <1>2 DEF Doomed
  <2>2. Doomed \cap B = {} /\ Doomed \subseteq Conns
    BY DEF OneHolder, Doomed
  <2>3. Cardinality(Doomed') = Cardinality(Doomed) + Cardinality(B)
    BY <1>1, <2>1, <2>2, Parts
  <2>4. Freed' = Freed
    BY DEF Freed
  <2>5. Cardinality(Doomed) \in Nat
    BY <2>2, ConnsFinite
  <2> QED BY <1>3, <2>3, <2>4, <2>5 DEF TotalExact
<1>8. RoomInv'
  <2>1. Connecting' = Connecting
    BY DEF Connecting
  <2>2. Cardinality(Connecting) \in Nat /\ Cardinality(Clients) \in Nat
    BY ClientsFinite DEF Connecting
  <2> QED BY <1>3, <2>1, <2>2, LimitsAssumption DEF RoomInv
<1>9. RequestsBounded'
  BY DEF RequestsBounded
<1> QED BY <1>4, <1>5, <1>6, <1>7, <1>8, <1>9


LEMMA InitHolds == PoolInit => PoolInv
<1> SUFFICES ASSUME PoolInit PROVE PoolInv
  OBVIOUS
<1> USE DEF PoolInit
<1>1. Types /\ StageInv
  <2>1. conns \in Seq(Conns) /\ requests \in [Conns -> Nat] /\ total \in Int
    OBVIOUS
  <2>2. pc \in [Clients -> Steps] /\ mine \in [Clients -> Conns \cup {NoConn}]
        /\ doomed \in [Clients -> SUBSET Conns]
    BY DEF Steps
  <2> QED BY <2>1, <2>2 DEF Types, StageInv
<1>2. ToSet(conns) = {} /\ Held = {} /\ Doomed = {} /\ Freed = {} /\ Connecting = {}
  BY Elements DEF ToSet, Held, Doomed, Freed, Connecting
<1>3. OneHolder
  BY <1>2 DEF OneHolder
<1>4. TotalExact
  BY <1>2, FS_EmptySet DEF TotalExact
<1>5. RoomInv
  BY <1>2, FS_EmptySet, ClientsPositive, LimitsAssumption DEF RoomInv
<1>6. RequestsBounded
  BY DEF RequestsBounded
<1> QED BY <1>1, <1>3, <1>4, <1>5, <1>6 DEF PoolInv

LEMMA GetKeeps ==
    ASSUME PoolInv, NEW f \in Clients, Get(f)
    PROVE  PoolInv'
<1> DEFINE bad == {conns[i] : i \in {k \in Looked : k < Found}}
<1>1. conns \in Seq(Conns) /\ (\A i, k \in 1 .. Len(conns) : conns[i] = conns[k] => i = k)
  BY DEF PoolInv, Types, OneHolder
<1>2. Found \in Good
  <2>1. Good # {} /\ Good \subseteq Nat
    BY DEF Get, Good, Looked
  <2>2. \E i \in Good : \A k \in Good : i <= k
    BY <2>1, LeastNumber
  <2> QED BY <2>2 DEF Found
<1>3. Found \in 1 .. Len(conns)
  BY <1>2 DEF Good, Looked
<1>4. conns' = SubSeq(conns, Found + 1, Len(conns))
  BY DEF Get
<1>5. /\ conns' \in Seq(Conns) /\ Len(conns') = Len(conns) - Found
      /\ \A i \in 1 .. Len(conns) - Found : conns'[i] = conns[Found + i]
  BY <1>1, <1>3, <1>4, Suffix
<1>6. \A i, k \in 1 .. Len(conns') : conns'[i] = conns'[k] => i = k
  BY <1>1, <1>3, <1>5
<1>7. bad \subseteq ToSet(conns) /\ conns[Found] \in ToSet(conns) \ bad
  BY <1>1, <1>3, Elements DEF Looked
<1>8. ToSet(conns') \subseteq ToSet(conns) \ (bad \cup {conns[Found]})
  <2> SUFFICES ASSUME NEW i \in 1 .. Len(conns) - Found
               PROVE  conns[Found + i] \in ToSet(conns) \ (bad \cup {conns[Found]})
    BY <1>5, Elements
  <2>1. Found + i \in 1 .. Len(conns) /\ Found + i > Found
    BY <1>1, <1>3
  <2>2. conns[Found + i] \in ToSet(conns)
    BY <1>1, <2>1, Elements
  <2>3. conns[Found + i] # conns[Found]
    BY <1>1, <1>3, <2>1
  <2>4. \A k \in Looked : k < Found => conns[Found + i] # conns[k]
    BY <1>1, <1>3, <2>1 DEF Looked
  <2> QED BY <2>2, <2>3, <2>4
<1>9. /\ pc[f] = "idle" /\ pc' = [pc EXCEPT ![f] = "scanned"]
      /\ mine' = [mine EXCEPT ![f] = conns[Found]]
      /\ doomed' = [doomed EXCEPT ![f] = bad] /\ total' = total - Cardinality(bad)
      /\ UNCHANGED <<alive, connected, expired, requests, crashed>>
  BY DEF Get, Goto
<1> HIDE DEF bad
<1> QED BY <1>5, <1>6, <1>7, <1>8, <1>9, Scan

LEMMA GetNoneKeeps ==
    ASSUME PoolInv, NEW f \in Clients, GetNone(f)
    PROVE  PoolInv'
<1> DEFINE bad == {conns[i] : i \in Looked}
<1>1. CASE Len(conns) % 2 = 1
  <2>1. crashed' = TRUE
        /\ UNCHANGED <<conns, total, alive, connected, expired, requests, pc, mine, doomed>>
    BY <1>1 DEF GetNone
  <2>2. OneHolder'
    BY <2>1, HoldersStay DEF PoolInv
  <2>3. Types' /\ StageInv'
    BY <2>1 DEF PoolInv, Types, StageInv
  <2>4. TotalExact' /\ RoomInv' /\ RequestsBounded'
    BY <2>1 DEF PoolInv, TotalExact, Doomed, Freed, RoomInv, Connecting, RequestsBounded
  <2> QED BY <2>2, <2>3, <2>4 DEF PoolInv
<1>2. CASE Len(conns) % 2 # 1
  <2>1. /\ pc[f] = "idle" /\ pc' = [pc EXCEPT ![f] = "scanned"]
        /\ doomed' = [doomed EXCEPT ![f] = bad] /\ total' = total - Cardinality(bad)
        /\ conns' = <<>>
        /\ UNCHANGED <<alive, connected, expired, requests, mine, crashed>>
    BY <1>2 DEF GetNone, Goto
  <2>2. mine' = [mine EXCEPT ![f] = NoConn]
    BY <2>1 DEF PoolInv, Types, StageInv
  <2>3. bad \subseteq ToSet(conns)
    BY Elements DEF PoolInv, Types, Looked
  <2>4. conns' \in Seq(Conns) /\ ToSet(conns') = {} /\ Len(conns') = 0
    BY <2>1 DEF ToSet
  <2> HIDE DEF bad
  <2>5. /\ \A i, k \in 1 .. Len(conns') : conns'[i] = conns'[k] => i = k
        /\ ToSet(conns') \subseteq ToSet(conns) \ (bad \cup {NoConn})
        /\ NoConn \in (ToSet(conns) \ bad) \cup {NoConn}
        /\ UNCHANGED <<alive, connected, expired, requests, crashed>>
    BY <2>1, <2>4
  <2> QED BY <2>1, <2>2, <2>3, <2>4, <2>5, Scan
<1> QED BY <1>1, <1>2

LEMMA DisposeKeeps ==
    ASSUME PoolInv, NEW f \in Clients, Dispose(f)
    PROVE  PoolInv'
<1> USE DEF PoolInv, Types, StageInv, Dispose, Goto
<1>1. Types' /\ StageInv'
  BY DEF Steps
<1>2. OneHolder'
  <2>1. /\ UNCHANGED <<conns, mine>> /\ alive' = alive \ doomed[f]
        /\ \A g \in Clients : doomed'[g] = IF g = f THEN {} ELSE doomed[g]
    OBVIOUS
  <2>2. OneHolder
    OBVIOUS
  <2> HIDE DEF PoolInv, Types, StageInv, Dispose
  <2>3. ToSet(conns') \cap doomed[f] = {}
    BY <2>1, <2>2 DEF OneHolder
  <2>4. Held' = Held /\ Held \cap doomed[f] = {}
    BY <2>1, <2>2 DEF OneHolder, Held
  <2>5. Doomed' \subseteq Doomed /\ Doomed' \cap doomed[f] = {}
    BY <2>1, <2>2 DEF OneHolder, Doomed
  <2>6. (ToSet(conns) \cup Held \cup Doomed)' \subseteq alive'
    BY <2>1, <2>2, <2>3, <2>4, <2>5 DEF OneHolder
  <2> QED BY <2>1, <2>2, <2>6 DEF OneHolder
<1>3. TotalExact'
  <2>1. Doomed' = Doomed \ doomed[f] /\ alive' = alive \ doomed[f]
    BY DEF Doomed, OneHolder
  <2>2. doomed[f] \subseteq Doomed /\ Doomed \subseteq alive /\ alive \subseteq Conns
    BY DEF Doomed, OneHolder
  <2>3. /\ Cardinality(Doomed) = Cardinality(Doomed') + Cardinality(doomed[f])
        /\ Cardinality(alive) = Cardinality(alive') + Cardinality(doomed[f])
    <3>1. Doomed = Doomed' \cup doomed[f] /\ Doomed' \cap doomed[f] = {}
      BY <2>1, <2>2
    <3>2. alive = alive' \cup doomed[f] /\ alive' \cap doomed[f] = {}
      BY <2>1, <2>2
    <3>3. Doomed' \in SUBSET Conns /\ alive' \in SUBSET Conns /\ doomed[f] \in SUBSET Conns
      BY <2>1, <2>2
    <3> QED BY <3>1, <3>2, <3>3, Parts
  <2>4. /\ Cardinality(Doomed') \in Nat /\ Cardinality(alive') \in Nat
        /\ Cardinality(doomed[f]) \in Nat
    BY <2>1, <2>2, ConnsFinite
  <2>5. Freed' = Freed /\ total' = total
    BY DEF Freed
  <2>6. Cardinality(Freed) \in Nat
    BY ClientsFinite DEF Freed
  <2>7. TotalExact /\ total \in Int
    OBVIOUS
  <2> HIDE DEF PoolInv, Types, StageInv, Dispose
  <2> QED BY <2>3, <2>4, <2>5, <2>6, <2>7 DEF TotalExact
<1>4. RoomInv'
  <2>1. Cardinality(Connecting) \in Nat /\ Cardinality(Clients) \in Nat
        /\ Cardinality(Connecting') \in Nat /\ Cardinality(Connecting') <= Cardinality(Clients)
    BY ClientsFinite DEF Connecting
  <2>2. CASE mine[f] = NoConn /\ total < MaxSize
    BY <2>1, <2>2, LimitsAssumption DEF RoomInv
  <2>3. CASE ~(mine[f] = NoConn /\ total < MaxSize)
    <3>1. Connecting' = Connecting
      BY <2>3, LimitsAssumption DEF Connecting
    <3> QED BY <3>1 DEF RoomInv
  <2> QED BY <2>2, <2>3
<1>5. RequestsBounded'
  BY DEF RequestsBounded
<1> QED BY <1>1, <1>2, <1>3, <1>4, <1>5

LEMMA ConnectFailsKeeps ==
    ASSUME PoolInv, NEW f \in Clients, ConnectFails(f)
    PROVE  PoolInv'
<1> USE DEF PoolInv, Types, StageInv, ConnectFails, Goto
<1>1. Types' /\ StageInv'
  BY DEF Steps
<1>2. OneHolder'
  BY HoldersStay
<1>3. TotalExact'
  <2>1. Doomed' = Doomed /\ Freed' = Freed
    BY DEF Doomed, Freed
  <2> QED BY <2>1 DEF TotalExact
<1>4. RoomInv'
  <2>1. Connecting' \subseteq Connecting /\ Connecting \subseteq Clients
    BY DEF Connecting
  <2>2. Cardinality(Connecting') <= Cardinality(Connecting)
    BY <2>1, ClientsFinite, FS_Subset
  <2>3. Cardinality(Connecting) \in Nat /\ Cardinality(Connecting') \in Nat
        /\ Cardinality(Clients) \in Nat
    BY <2>1, ClientsFinite
  <2> QED BY <2>2, <2>3, LimitsAssumption DEF RoomInv
<1>5. RequestsBounded'
  BY DEF RequestsBounded
<1> QED BY <1>1, <1>2, <1>3, <1>4, <1>5

LEMMA ConnectKeeps ==
    ASSUME PoolInv, NEW f \in Clients, NEW c \in Conns, Connect(f, c)
    PROVE  PoolInv'
<1> USE DEF PoolInv, Types, StageInv, Connect, Goto
<1>1. Types' /\ StageInv'
  BY ConnsAssumption DEF Steps
<1>2. OneHolder'
  <2>1. /\ UNCHANGED <<conns, doomed>> /\ alive' = alive \cup {c} /\ c \notin alive
        /\ \A g \in Clients : mine'[g] = IF g = f THEN c ELSE mine[g]
    OBVIOUS
  <2>2. OneHolder
    OBVIOUS
  <2> HIDE DEF PoolInv, Types, StageInv, Connect
  <2>3. c \notin ToSet(conns) \cup Held \cup Doomed
    BY <2>1, <2>2 DEF OneHolder
  <2>4. Held' \subseteq Held \cup {c} /\ Doomed' = Doomed
    BY <2>1 DEF Held, Doomed
  <2>5. (ToSet(conns) \cup Held \cup Doomed)' \subseteq alive'
    BY <2>1, <2>2, <2>4 DEF OneHolder
  <2>6. \A g \in Clients : c # mine[g] /\ c \notin doomed[g]
    BY <2>3, ConnsAssumption DEF Held, Doomed
  <2> QED BY <2>1, <2>2, <2>3, <2>5, <2>6 DEF OneHolder
<1>3. TotalExact'
  <2>1. Cardinality(alive') = Cardinality(alive) + 1
    BY ConnsFinite, FS_AddElement
  <2>2. Doomed' = Doomed /\ Freed' = Freed
    BY DEF Doomed, Freed
  <2>3. Cardinality(alive) \in Nat /\ Cardinality(Freed) \in Nat /\ Cardinality(Doomed) \in Nat
    BY ConnsFinite, ClientsFinite DEF Freed, Doomed
  <2> QED BY <2>1, <2>2, <2>3 DEF TotalExact
<1>4. RoomInv'
  <2>1. Connecting' = Connecting \ {f} /\ f \in Connecting /\ Connecting \subseteq Clients
    BY DEF Connecting
  <2>2. Cardinality(Connecting') = Cardinality(Connecting) - 1
    BY <2>1, ClientsFinite, FS_RemoveElement
  <2>3. Cardinality(Connecting) \in Nat /\ Cardinality(Clients) \in Nat
    BY <2>1, ClientsFinite
  <2> QED BY <2>2, <2>3, LimitsAssumption DEF RoomInv
<1>5. RequestsBounded'
  BY LimitsAssumption DEF RequestsBounded
<1> QED BY <1>1, <1>2, <1>3, <1>4, <1>5

LEMMA FailsKeeps ==
    ASSUME PoolInv, NEW f \in Clients, Fails(f)
    PROVE  PoolInv'
BY DEF PoolInv, Types, StageInv, Fails, OneHolder, Held, Doomed, TotalExact, Freed, RoomInv,
       Connecting, RequestsBounded

LEMMA DeleteKeeps ==
    ASSUME PoolInv, NEW f \in Clients, Delete(f)
    PROVE  PoolInv'
<1> USE DEF PoolInv, Types, StageInv, Delete, Goto
<1>1. Types' /\ StageInv'
  BY DEF Steps
<1>2. mine[f] \in alive
  BY DEF OneHolder, Held
<1>3. OneHolder'
  BY ConnsAssumption DEF OneHolder, Held, Doomed
<1>4. TotalExact'
  <2>1. Cardinality(alive') = Cardinality(alive) - 1
    BY <1>2, ConnsFinite, FS_RemoveElement
  <2>2. Freed' = Freed \cup {f} /\ f \notin Freed /\ Freed \subseteq Clients
    BY DEF Freed
  <2>3. Cardinality(Freed') = Cardinality(Freed) + 1
    BY <2>2, ClientsFinite, FS_AddElement
  <2>4. Doomed' = Doomed
    BY DEF Doomed
  <2>5. Cardinality(alive) \in Nat /\ Cardinality(Freed) \in Nat /\ Cardinality(Doomed) \in Nat
    BY ConnsFinite, ClientsFinite DEF Freed, Doomed
  <2> QED BY <2>1, <2>3, <2>4, <2>5 DEF TotalExact
<1>5. RoomInv'
  BY DEF RoomInv, Connecting
<1>6. RequestsBounded'
  BY DEF RequestsBounded
<1> QED BY <1>1, <1>3, <1>4, <1>5, <1>6

LEMMA CountDownKeeps ==
    ASSUME PoolInv, NEW f \in Clients, CountDown(f)
    PROVE  PoolInv'
<1> USE DEF PoolInv, Types, StageInv, CountDown, Goto
<1>1. Types' /\ StageInv'
  BY DEF Steps
<1>2. OneHolder'
  BY HoldersStay
<1>3. TotalExact'
  <2>1. Freed' = Freed \ {f} /\ f \in Freed /\ Freed \subseteq Clients
    BY DEF Freed
  <2>2. Cardinality(Freed') = Cardinality(Freed) - 1
    BY <2>1, ClientsFinite, FS_RemoveElement
  <2>3. Doomed' = Doomed
    BY DEF Doomed
  <2>4. Cardinality(alive) \in Nat /\ Cardinality(Freed) \in Nat /\ Cardinality(Doomed) \in Nat
    BY ConnsFinite, ClientsFinite DEF Freed, Doomed
  <2> QED BY <2>2, <2>3, <2>4 DEF TotalExact
<1>4. RoomInv'
  <2>1. Connecting' = Connecting
    BY DEF Connecting
  <2>2. Cardinality(Connecting) \in Nat /\ Cardinality(Clients) \in Nat
    BY ClientsFinite DEF Connecting
  <2> QED BY <2>1, <2>2, LimitsAssumption DEF RoomInv
<1>5. RequestsBounded'
  BY DEF RequestsBounded
<1> QED BY <1>1, <1>2, <1>3, <1>4, <1>5

LEMMA GiveBackKeeps ==
    ASSUME PoolInv, NEW f \in Clients, GiveBack(f)
    PROVE  PoolInv'
<1> USE DEF PoolInv, Types, StageInv, GiveBack, Goto
<1>1. mine[f] \in Conns /\ mine[f] \notin ToSet(conns) /\ mine[f] \in alive
  BY DEF OneHolder, Held
<1>2. /\ conns' \in Seq(Conns) /\ ToSet(conns') = ToSet(conns) \cup {mine[f]}
      /\ \A i, k \in 1 .. Len(conns') : conns'[i] = conns'[k] => i = k
  BY <1>1, Appended DEF OneHolder
<1>3. Types' /\ StageInv'
  BY <1>1, <1>2 DEF Steps
<1>4. OneHolder'
  BY <1>1, <1>2, ConnsAssumption DEF OneHolder, Held, Doomed
<1>5. TotalExact' /\ RoomInv'
  BY DEF TotalExact, Doomed, Freed, RoomInv, Connecting
<1>6. RequestsBounded'
  BY <1>1, LimitsAssumption DEF RequestsBounded, WornOut
<1> QED BY <1>3, <1>4, <1>5, <1>6

LEMMA PoolStep == PoolInv /\ [PoolNext]_poolVars => PoolInv'
<1> SUFFICES ASSUME PoolInv, [PoolNext]_poolVars
             PROVE  PoolInv'
  OBVIOUS
<1>1. ASSUME NEW f \in Clients, ClientStep(f) PROVE PoolInv'
  BY <1>1, GetKeeps, GetNoneKeeps, DisposeKeeps, ConnectFailsKeeps, ConnectKeeps, FailsKeeps,
     DeleteKeeps, CountDownKeeps, GiveBackKeeps DEF ClientStep
<1>2. ASSUME NEW c \in Conns, Expire(c) PROVE PoolInv'
  BY <1>2 DEF Expire, PoolInv, Types, StageInv, OneHolder, Held, Doomed, TotalExact, Freed,
              RoomInv, Connecting, RequestsBounded
<1>3. ASSUME UNCHANGED poolVars PROVE PoolInv'
  BY <1>3 DEF poolVars, PoolInv, Types, StageInv, OneHolder, Held, Doomed, TotalExact, Freed,
              RoomInv, Connecting, RequestsBounded
<1> QED BY <1>1, <1>2, <1>3 DEF PoolNext

\* The count is never below zero: what is taken off it beforehand is still there.
LEMMA CountType == PoolInv => PoolTypeOK
<1> SUFFICES ASSUME PoolInv PROVE PoolTypeOK
  OBVIOUS
<1> USE DEF PoolInv, Types
<1>1. Doomed \subseteq alive /\ alive \subseteq Conns
  BY DEF OneHolder, Doomed
<1>2. Cardinality(Doomed) <= Cardinality(alive)
  BY <1>1, ConnsFinite, FS_Subset
<1>3. Cardinality(Doomed) \in Nat /\ Cardinality(alive) \in Nat /\ Cardinality(Freed) \in Nat
  BY <1>1, ConnsFinite, ClientsFinite DEF Freed
<1>4. total >= 0
  BY <1>2, <1>3 DEF TotalExact
<1> QED BY <1>4 DEF PoolTypeOK, Steps

LEMMA SlackFollows == PoolInv => LimitSlack
<1> SUFFICES ASSUME PoolInv PROVE LimitSlack
  OBVIOUS
<1>1. Cardinality(Connecting) \in Nat /\ Cardinality(Clients) \in Nat
  BY ClientsFinite DEF Connecting
<1> QED BY <1>1, LimitsAssumption DEF PoolInv, Types, RoomInv, LimitSlack

-----------------------------------------------------------------------------
(* Theorems.                                                                *)

\* The invariant holds in every state of the pool.
THEOREM PoolInvariant == PoolSpec => []PoolInv
<1>1. PoolInit => PoolInv
  BY InitHolds
<1>2. PoolInv /\ [PoolNext]_poolVars => PoolInv'
  BY PoolStep
<1> QED BY <1>1, <1>2, PTL DEF PoolSpec

\* The state of the pool keeps its types, and the unsigned m_total never passes below zero
\* (HttpConnection.cc:297, 303, 492).
THEOREM PoolTypeCorrect == PoolSpec => []PoolTypeOK
BY PoolInvariant, CountType, PTL

\* No two clients ever have the same connection, and none has one that was deleted, for any
\* number of clients and connections (HttpConnection.cc:285-347, 468-497).
THEOREM HeldOnce == PoolSpec => []OneHolder
<1>1. PoolInv => OneHolder
  BY DEF PoolInv
<1> QED BY <1>1, PoolInvariant, PTL

\* m_total counts the connections there are, ahead of a deletion by the scan and behind one
\* by ReleasePtr() (HttpConnection.cc:297, 303, 342, 492).
THEOREM CountOfConnections == PoolSpec => []TotalExact
<1>1. PoolInv => TotalExact
  BY DEF PoolInv
<1> QED BY <1>1, PoolInvariant, PTL

\* m_maxSize is passed by less than the number of clients (HttpConnection.cc:322-342).
THEOREM Slack == PoolSpec => []LimitSlack
BY PoolInvariant, SlackFollows, PTL

\* A connection goes back to the list only if it may serve one more request
\* (HttpConnection.cc:472, 488).
THEOREM RequestsLimited == PoolSpec => []RequestsBounded
<1>1. PoolInv => RequestsBounded
  BY DEF PoolInv
<1> QED BY <1>1, PoolInvariant, PTL
=============================================================================
