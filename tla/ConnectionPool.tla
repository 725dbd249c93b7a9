--------------------------- MODULE ConnectionPool ---------------------------
(***************************************************************************)
(* East::Http::HttpConnectionPool (HttpConnection.cc): connections to one  *)
(* host that the fibers of several threads take, use for one request and   *)
(* give back.  m_mutex guards the list of idle connections only, and       *)
(* connect() parks the fiber between the look at m_total and its update.   *)
(***************************************************************************)
EXTENDS Integers, Sequences, FiniteSets, SequencesExt

CONSTANTS
    Clients,    \* the fibers
    Conns,      \* connection objects; a deleted one may be made again
    NoConn,
    MaxSize,    \* m_maxSize
    MaxRequest  \* m_maxRequest

ASSUME ClientsAssumption == IsFiniteSet(Clients) /\ Clients # {}
ASSUME ConnsAssumption == IsFiniteSet(Conns) /\ NoConn \notin Conns
ASSUME LimitsAssumption == MaxSize \in Nat /\ MaxRequest \in Nat \ {0}

VARIABLES
    conns,      \* m_conns
    total,      \* m_total
    alive,      \* the connections that have not been deleted
    connected,  \* those that have not been closed
    expired,    \* those older than m_maxAliveTime
    requests,   \* m_requestCount of each
    pc,         \* where each client is
    mine,       \* the connection it has
    doomed,     \* to_delete
    crashed     \* pop_front() was called on an empty list

poolVars == <<conns, total, alive, connected, expired, requests, pc, mine, doomed, crashed>>

PoolInit ==
    /\ conns = <<>> /\ total = 0
    /\ alive = {} /\ connected = {} /\ expired = {}
    /\ requests = [c \in Conns |-> 0]
    /\ pc = [f \in Clients |-> "idle"]
    /\ mine = [f \in Clients |-> NoConn]
    /\ doomed = [f \in Clients |-> {}]
    /\ crashed = FALSE

Goto(f, l) == pc' = [pc EXCEPT ![f] = l]

-----------------------------------------------------------------------------
(* getConnection().                                                         *)

Bad(c) == c \notin connected \/ c \in expired

\* The loop takes the front connection and, if that is bad, takes the next one as well,
\* whatever it is: only those at odd places are looked at.
Looked == {i \in 1 .. Len(conns) : i % 2 = 1}
Good == {i \in Looked : ~Bad(conns[i])}
Found == CHOOSE i \in Good : \A k \in Good : i <= k

\* Slip: the disconnected and expired ones stay in the count.
GetUncounted(f) ==
    /\ ~crashed /\ pc[f] = "idle" /\ Good # {}
    /\ mine' = [mine EXCEPT ![f] = conns[Found]]
    /\ doomed' = [doomed EXCEPT ![f] = {conns[i] : i \in {k \in Looked : k < Found}}]
    /\ conns' = SubSeq(conns, Found + 1, Len(conns))
    /\ Goto(f, "scanned")
    /\ UNCHANGED <<total, alive, connected, expired, requests, crashed>>

\* A good connection is found.
Get(f) ==
    LET bad == {conns[i] : i \in {k \in Looked : k < Found}} IN
    /\ ~crashed /\ pc[f] = "idle" /\ Good # {}
    /\ mine' = [mine EXCEPT ![f] = conns[Found]]
    /\ doomed' = [doomed EXCEPT ![f] = bad]
    /\ total' = total - Cardinality(bad)
    /\ conns' = SubSeq(conns, Found + 1, Len(conns))
    /\ Goto(f, "scanned")
    /\ UNCHANGED <<alive, connected, expired, requests, crashed>>

\* None is found; after a bad connection at the end of the list there is no next one.
GetNone(f) ==
    LET bad == {conns[i] : i \in Looked} IN
    /\ ~crashed /\ pc[f] = "idle" /\ Good = {}
    /\ IF Len(conns) % 2 = 1
       THEN crashed' = TRUE /\ UNCHANGED <<conns, total, pc, doomed>>
       ELSE /\ doomed' = [doomed EXCEPT ![f] = bad]
            /\ total' = total - Cardinality(bad)
            /\ conns' = <<>>
            /\ Goto(f, "scanned")
            /\ UNCHANGED crashed
    /\ UNCHANGED <<alive, connected, expired, requests, mine>>

\* Slip: nobody looks at the limit.
DisposeUnlimited(f) ==
    /\ ~crashed /\ pc[f] = "scanned"
    /\ alive' = alive \ doomed[f]
    /\ connected' = connected \ doomed[f]
    /\ doomed' = [doomed EXCEPT ![f] = {}]
    /\ Goto(f, IF mine[f] # NoConn THEN "using" ELSE "connecting")
    /\ UNCHANGED <<conns, total, expired, requests, mine, crashed>>

\* The lock is given up: the bad connections are deleted, and without a good one the limit
\* decides whether a new one is made.
Dispose(f) ==
    /\ ~crashed /\ pc[f] = "scanned"
    /\ alive' = alive \ doomed[f]
    /\ connected' = connected \ doomed[f]
    /\ doomed' = [doomed EXCEPT ![f] = {}]
    /\ Goto(f, IF mine[f] # NoConn THEN "using"
               ELSE IF total >= MaxSize THEN "idle" ELSE "connecting")
    /\ UNCHANGED <<conns, total, expired, requests, mine, crashed>>

ConnectFails(f) ==
    /\ ~crashed /\ pc[f] = "connecting"
    /\ Goto(f, "idle")
    /\ UNCHANGED <<conns, total, alive, connected, expired, requests, mine, doomed, crashed>>

Connect(f, c) ==
    /\ ~crashed /\ pc[f] = "connecting" /\ c \notin alive
    /\ alive' = alive \cup {c}
    /\ connected' = connected \cup {c}
    /\ expired' = expired \ {c}
    /\ requests' = [requests EXCEPT ![c] = 0]
    /\ mine' = [mine EXCEPT ![f] = c]
    /\ total' = total + 1
    /\ Goto(f, "using")
    /\ UNCHANGED <<conns, doomed, crashed>>

-----------------------------------------------------------------------------
(* doRequest() and ReleasePtr().                                            *)

\* recvResponse() closes the connection on every failure.
Fails(f) ==
    /\ ~crashed /\ pc[f] = "using"
    /\ connected' = connected \ {mine[f]}
    /\ UNCHANGED <<conns, total, alive, expired, requests, pc, mine, doomed, crashed>>

WornOut(c) == Bad(c) \/ requests[c] + 1 >= MaxRequest

\* Slip: the deleted connection is put back as well.
DeleteNoReturn(f) ==
    /\ ~crashed /\ pc[f] = "using" /\ WornOut(mine[f])
    /\ alive' = alive \ {mine[f]}
    /\ connected' = connected \ {mine[f]}
    /\ conns' = Append(conns, mine[f])
    /\ mine' = [mine EXCEPT ![f] = NoConn]
    /\ Goto(f, "freed")
    /\ UNCHANGED <<total, expired, requests, doomed, crashed>>

\* The deleter of the last reference: a connection that cannot be used again is closed and
\* deleted, and then taken off the count.
Delete(f) ==
    /\ ~crashed /\ pc[f] = "using" /\ WornOut(mine[f])
    /\ alive' = alive \ {mine[f]}
    /\ connected' = connected \ {mine[f]}
    /\ mine' = [mine EXCEPT ![f] = NoConn]
    /\ Goto(f, "freed")
    /\ UNCHANGED <<conns, total, expired, requests, doomed, crashed>>

CountDown(f) ==
    /\ ~crashed /\ pc[f] = "freed"
    /\ total' = total - 1
    /\ Goto(f, "idle")
    /\ UNCHANGED <<conns, alive, connected, expired, requests, mine, doomed, crashed>>

GiveBack(f) ==
    /\ ~crashed /\ pc[f] = "using" /\ ~WornOut(mine[f])
    /\ requests' = [requests EXCEPT ![mine[f]] = @ + 1]
    /\ conns' = Append(conns, mine[f])
    /\ mine' = [mine EXCEPT ![f] = NoConn]
    /\ Goto(f, "idle")
    /\ UNCHANGED <<total, alive, connected, expired, doomed, crashed>>

\* Time passes.
Expire(c) ==
    /\ c \in alive
    /\ expired' = expired \cup {c}
    /\ UNCHANGED <<conns, total, alive, connected, requests, pc, mine, doomed, crashed>>

ClientStep(f) ==
    \/ Get(f) \/ GetNone(f) \/ Dispose(f) \/ ConnectFails(f) \/ \E c \in Conns : Connect(f, c)
    \/ Fails(f) \/ Delete(f) \/ CountDown(f) \/ GiveBack(f)

PoolNext == (\E f \in Clients : ClientStep(f)) \/ \E c \in Conns : Expire(c)

PoolSpec == PoolInit /\ [][PoolNext]_poolVars

-----------------------------------------------------------------------------
(* Properties.                                                              *)

Held == {mine[f] : f \in Clients} \ {NoConn}
Doomed == UNION {doomed[f] : f \in Clients}
Freed == {f \in Clients : pc[f] = "freed"}
Connecting == {f \in Clients : pc[f] = "connecting"}

\* Types of the state (HttpConnection.h:97-98, 141-151).
PoolTypeOK ==
    /\ conns \in Seq(Conns) /\ total \in Nat
    /\ connected \subseteq alive /\ alive \subseteq Conns /\ expired \subseteq Conns
    /\ requests \in [Conns -> Nat]
    /\ pc \in [Clients -> {"idle", "scanned", "connecting", "using", "freed"}]
    /\ mine \in [Clients -> Conns \cup {NoConn}]
    /\ doomed \in [Clients -> SUBSET Conns]
    /\ crashed \in BOOLEAN

\* A connection has one user at a time and is not used after it was deleted: it is in the
\* list once, or with one client, or about to be deleted by one client
\* (HttpConnection.cc:285-319, 345, 486-496).
OneHolder ==
    /\ \A i, k \in 1 .. Len(conns) : conns[i] = conns[k] => i = k
    /\ \A f \in Clients :
          /\ mine[f] \notin ToSet(conns) /\ doomed[f] \cap ToSet(conns) = {}
          /\ \A g \in Clients : mine[f] \notin doomed[g]
          /\ \A g \in Clients \ {f} :
                mine[f] # mine[g] \/ mine[f] = NoConn
          /\ \A g \in Clients \ {f} : doomed[f] \cap doomed[g] = {}
    /\ ToSet(conns) \cup Held \cup Doomed \subseteq alive

\* m_total counts every connection there is, also those that the loop took from the list
\* and dropped: it runs ahead of a deletion in getConnection() and behind it in ReleasePtr()
\* (HttpConnection.cc:297, 303, 342, 492).
TotalExact == total + Cardinality(Doomed) = Cardinality(alive) + Cardinality(Freed)

\* m_maxSize is not kept, since it is looked at before connect(); it is passed by less than
\* the number of clients that connect at the same time (HttpConnection.cc:322-342).
LimitSlack == total <= MaxSize + Cardinality(Clients) - 1

\* No connection serves more than m_maxRequest requests (HttpConnection.cc:472, 488).
RequestsBounded == \A c \in alive : requests[c] <= MaxRequest - 1
=============================================================================
