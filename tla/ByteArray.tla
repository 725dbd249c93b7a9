------------------------------ MODULE ByteArray ------------------------------
(***************************************************************************)
(* East::ByteArray (ByteArray.cc) and the reading and writing of a socket  *)
(* through it (SocketStream.cc).  The bytes are in a list of nodes of one  *)
(* size; m_offset is the position, and m_cur must be the node it falls in. *)
(* Every operation starts at m_cur and goes from node to node.  One that   *)
(* follows the pointer of the last node ends the program: because bytes    *)
(* are left to move ("list"), because setOffset() passes by the last node  *)
(* ("seek"), or because read() looks at m_cur before it moves any bytes    *)
(* ("null").                                                               *)
(***************************************************************************)
EXTENDS Varint

CONSTANTS
    B,          \* m_block_size
    MaxNodes,   \* bound on the nodes
    Junk,       \* what memory holds that nobody has written
    NULL,       \* the pointer of the last node
    Values,     \* the integers that are written, unsigned and signed
    Texts,      \* the other bytes that are written
    Lengths,    \* how many bytes a socket is asked for
    Elsewhere   \* the offsets besides the position that read() is given

ASSUME BlockAssumption == B \in Nat \ {0} /\ MaxNodes \in Nat \ {0}
ASSUME ByteAssumption == Junk \notin Byte /\ NULL \notin Int
ASSUME TextsAssumption == Texts \subseteq Seq(Byte) \ {<<>>} /\ Lengths \subseteq Nat \ {0}
ASSUME ElsewhereAssumption == Elsewhere \subseteq Nat
ASSUME ValuesAssumption == Values \subseteq Unsigned \cup Signed

VARIABLES
    nodes,      \* how many nodes there are; m_capacity is B times that
    mem,        \* what they hold, by node and place in it
    cur,        \* m_cur
    offset,     \* m_offset
    size,       \* m_size
    io,         \* the bytes the last operation was given or has handed out
    fault       \* where NULL was followed, if it was

arrayVars == <<nodes, mem, cur, offset, size, io, fault>>

Cell == Byte \cup {Junk}
Numbers == 0 .. MaxNodes - 1
Places == 0 .. B - 1
NoBytes == [k \in Numbers |-> [p \in Places |-> Junk]]

\* The constructor: a first node, all of whose bytes count as written.
ArrayInit ==
    /\ nodes = 1 /\ mem = NoBytes
    /\ cur = 0 /\ offset = 0 /\ size = B
    /\ io = <<>> /\ fault = "none"

-----------------------------------------------------------------------------
(* The list of nodes.                                                       *)

Capacity == nodes * B
Readable == size - offset

NodeAt(k, n) == IF k < n THEN k ELSE NULL

\* Slip: the missing bytes are divided without rounding up.
GrownDown(len) ==
    IF Capacity - offset >= len THEN nodes
    ELSE nodes + (len - (Capacity - offset)) \div B

\* addCapacity(): the nodes there are afterwards, for len more bytes at the position.
Grown(len) ==
    IF Capacity - offset >= len THEN nodes
    ELSE nodes + (len - (Capacity - offset) + B - 1) \div B

\* addCapacity() also moves m_cur to the first new node if the old ones were full.
Start(len) == IF Grown(len) > nodes /\ offset = Capacity THEN nodes ELSE cur

\* Where the byte after i others is, for an operation that starts at node k.
Node(k, i) == k + ((offset % B) + i) \div B
Place(i) == ((offset % B) + i) % B

\* len bytes from node k on lie in the n nodes there are.
Reaches(k, len, n) == k # NULL /\ Node(k, len - 1) < n

\* The bytes s go where an operation that starts at node k puts them.
Stored(s, k) ==
    [m \in Numbers |-> [p \in Places |->
        LET i == (m - k) * B + p - (offset % B)
        IN  IF i \in 0 .. Len(s) - 1 THEN s[i + 1] ELSE mem[m][p]]]

Loaded(n) == [i \in 1 .. n |-> mem[Node(cur, i - 1)][Place(i - 1)]]

Fail(where) == fault' = where /\ UNCHANGED <<nodes, mem, cur, offset, size, io>>

-----------------------------------------------------------------------------
(* Operations.                                                              *)

\* Slip: a node that has been filled stays current.
WriteStays(s) ==
    LET len == Len(s)
        n == Grown(len)
        k == Start(len)
    IN
    /\ fault = "none" /\ n <= MaxNodes
    /\ IF ~Reaches(k, len, n) THEN Fail("list")
       ELSE /\ nodes' = n
            /\ mem' = Stored(s, k)
            /\ cur' = NodeAt(Node(k, len - 1), n)
            /\ offset' = offset + len
            /\ size' = IF offset + len > size THEN offset + len ELSE size
            /\ io' = s
            /\ UNCHANGED fault

\* write(), and with it readFromFile() and the writing of integers of fixed length.
Write(s) ==
    LET len == Len(s)
        n == Grown(len)
        k == Start(len)
    IN
    /\ fault = "none" /\ n <= MaxNodes
    /\ IF ~Reaches(k, len, n) THEN Fail("list")
       ELSE /\ nodes' = n
            /\ mem' = Stored(s, k)
            /\ cur' = NodeAt(Node(k, len), n)
            /\ offset' = offset + len
            /\ size' = IF offset + len > size THEN offset + len ELSE size
            /\ io' = s
            /\ UNCHANGED fault

WriteUInt(v) == Write(EncodeVarint(v))
WriteInt(n) == Write(EncodeVarint(EncodeZigZag(n)))

\* read(), which the read functions call, for a varint once per byte; asked for more than
\* there is it throws and changes nothing.  It looks at m_cur before its loop, also when it
\* is asked for no bytes.
Read(n) ==
    /\ fault = "none" /\ n \in 0 .. Readable
    /\ IF n > 0 /\ ~Reaches(cur, n, nodes) THEN Fail("list")
       ELSE IF cur = NULL THEN Fail("null")
       ELSE /\ io' = Loaded(n)
            /\ cur' = NodeAt(Node(cur, n), nodes)
            /\ offset' = offset + n
            /\ UNCHANGED <<nodes, mem, size, fault>>

\* The read() with an offset of its own: the place in the node is that of the offset, but the
\* node is m_cur.  Its difference m_size - offset is unsigned: beyond the size it never throws.
ReadAt(n, o) ==
    LET node(i) == cur + ((o % B) + i) \div B IN
    /\ fault = "none" /\ (o <= size => n <= size - o)
    /\ IF n > 0 /\ (cur = NULL \/ node(n - 1) >= nodes) THEN Fail("list")
       ELSE IF cur = NULL THEN Fail("null")
       ELSE /\ io' = [i \in 1 .. n |-> mem[node(i - 1)][((o % B) + i - 1) % B]]
            /\ UNCHANGED <<nodes, mem, cur, offset, size, fault>>

\* toString(), toHexString() and writeToFile(): all that is readable, the position stays.
Show ==
    /\ fault = "none" /\ Readable > 0
    /\ IF ~Reaches(cur, Readable, nodes) THEN Fail("list")
       ELSE io' = Loaded(Readable) /\ UNCHANGED <<nodes, mem, cur, offset, size, fault>>

\* The end of setOffset(): the nodes before the offset are skipped one by one, also the last
\* if the offset is the capacity.
Move(o, n) ==
    /\ offset' = o
    /\ size' = IF o > size THEN o ELSE size
    /\ cur' = o \div B
    /\ UNCHANGED fault

SetOffset(o) ==
    /\ fault = "none" /\ o <= Capacity
    /\ IF o \div B >= nodes THEN Fail("seek")
       ELSE Move(o, nodes) /\ io' = <<>> /\ UNCHANGED <<nodes, mem>>

Clear ==
    /\ fault = "none"
    /\ nodes' = 1
    /\ mem' = [NoBytes EXCEPT ![0] = mem[0]]
    /\ cur' = 0 /\ offset' = 0 /\ size' = 0
    /\ io' = <<>>
    /\ UNCHANGED fault

\* Slip: the buffers start at the node, not at the place in it.
ReceiveAtNode(s, len) ==
    LET n == Grown(len)
        k == Start(len)
    IN
    /\ fault = "none" /\ Len(s) <= len /\ n <= MaxNodes
    /\ IF ~Reaches(k, len, n) THEN Fail("list")
       ELSE IF (offset + Len(s)) \div B >= n THEN Fail("seek")
       ELSE /\ nodes' = n
            /\ mem' = [mem EXCEPT ![k] = [p \in Places |-> IF p < Len(s) THEN s[p + 1] ELSE @[p]]]
            /\ Move(offset + Len(s), n)
            /\ io' = s

\* SocketStream::read(): buffers for len bytes, of which the socket fills the first with s.
Receive(s, len) ==
    LET n == Grown(len)
        k == Start(len)
    IN
    /\ fault = "none" /\ Len(s) <= len /\ n <= MaxNodes
    /\ IF ~Reaches(k, len, n) THEN Fail("list")
       ELSE IF (offset + Len(s)) \div B >= n THEN Fail("seek")
       ELSE nodes' = n /\ mem' = Stored(s, k) /\ Move(offset + Len(s), n) /\ io' = s

\* The socket had nothing: only the capacity has changed.
ReceiveNothing(len) ==
    /\ fault = "none" /\ Grown(len) <= MaxNodes
    /\ IF ~Reaches(Start(len), len, Grown(len)) THEN Fail("list")
       ELSE nodes' = Grown(len) /\ cur' = Start(len) /\ UNCHANGED <<mem, offset, size, io, fault>>

\* SocketStream::write(): buffers with len bytes, of which the socket takes the first n.
Send(n, len) ==
    LET avail == IF len > Readable THEN Readable ELSE len IN
    /\ fault = "none" /\ n \in 1 .. avail
    /\ IF ~Reaches(cur, avail, nodes) THEN Fail("list")
       ELSE IF (offset + n) \div B >= nodes THEN Fail("seek")
       ELSE Move(offset + n, nodes) /\ io' = Loaded(n) /\ UNCHANGED <<nodes, mem>>

ArrayNext ==
    \/ \E v \in Values \cap Unsigned : WriteUInt(v)
    \/ \E v \in Values \cap Signed : WriteInt(v)
    \/ \E s \in Texts : Write(s) \/ \E len \in Lengths : Receive(s, len)
    \/ \E n \in 0 .. Readable : Read(n) \/ \E len \in Lengths : Send(n, len)
    \/ \E o \in {offset} \cup Elsewhere, n \in 0 .. size : ReadAt(n, o)
    \/ \E len \in Lengths : ReceiveNothing(len)
    \/ \E o \in 0 .. Capacity : SetOffset(o)
    \/ Show \/ Clear

ArraySpec == ArrayInit /\ [][ArrayNext]_arrayVars

-----------------------------------------------------------------------------
(* Properties.                                                              *)

\* Types of the state (ByteArray.h:468-474).
ArrayTypeOK ==
    /\ nodes \in 1 .. MaxNodes
    /\ mem \in [Numbers -> [Places -> Cell]]
    /\ cur \in Numbers \cup {NULL}
    /\ offset \in Nat /\ size \in Nat
    /\ io \in Seq(Cell)
    /\ fault \in {"none", "list", "seek", "null"}

\* m_cur is the node m_offset falls in, and NULL exactly when all nodes are full: every
\* operation starts at m_cur and trusts it (ByteArray.cc:589-622, 632-663, 721-739, 1008-1036).
CurHoldsOffset ==
    /\ offset <= size /\ size <= Capacity
    /\ cur = NodeAt(offset \div B, nodes)

\* No operation with bytes to move follows the pointer of the last node, whatever mix of
\* writing, reading, moving the position and growing came before (ByteArray.cc:589-663,
\* 676-708, 842-992).  What remains are "seek", of setOffset() to the capacity, and "null", of a
\* read of no bytes there.
StaysInList == fault # "list"

\* The bytes below m_size, in order.
Text == [i \in 1 .. size |-> mem[(i - 1) \div B][(i - 1) % B]]

\* However the bytes are spread over the nodes, they are a text with a position: what was
\* written, or came from a socket, is what is read, sent and printed (ByteArray.cc:589-663,
\* 842-992).
T == INSTANCE Tape WITH text <- Text, pos <- offset
ImplementsTape == T!Spec

\* An integer that has been written is what a read from the place where it was written
\* returns, and that read ends where the writing ended, also when its bytes are on two nodes
\* (ByteArray.cc:78-113, 228-265, 437-478).
ValuesReadBack ==
    [][LET s == [i \in 1 .. size' - offset |-> Text'[offset + i]] IN
       /\ \A v \in Values \cap Unsigned : WriteUInt(v) /\ fault' = "none" =>
             DecodeVarint(s) = v /\ offset' = offset + Taken(s)
       /\ \A n \in Values \cap Signed : WriteInt(n) /\ fault' = "none" =>
             DecodeZigZag(DecodeVarint(s)) = n /\ offset' = offset + Taken(s)]_arrayVars
=============================================================================
