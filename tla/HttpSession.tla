----------------------------- MODULE HttpSession -----------------------------
(***************************************************************************)
(* East::Http::HttpSession::recvRequest() under HttpServer::handleClient():*)
(* a handler reads requests from a connection, in pieces of any size, and  *)
(* answers them.  The bytes of a request are numbered from 1.  The peer    *)
(* sends a request when the one before was answered (it does not pipeline),*)
(* and the bytes of a body do not look like the beginning of a request.    *)
(*                                                                         *)
(* The parser is generated by ragel; of it the module has what             *)
(* recvRequest() sees: execute() consumes bytes up to the end of the       *)
(* header, or to the first that does not fit.  A field that a read cuts in *)
(* two loses its first part, since execute() clears parser->mark and the   *)
(* bytes it has consumed are overwritten; `cut` is the byte after which    *)
(* this happens to Content-Length.                                         *)
(*                                                                         *)
(* The body is put together in a string of StrLen characters, however long *)
(* it is; where its bytes go beyond this string nothing is known of the    *)
(* program any more, and the behaviour ends in "overrun".                  *)
(***************************************************************************)
EXTENDS Integers, Sequences

CONSTANTS
    BufSize,  \* http.req_parser.buffer_size
    StrLen,   \* length of the string the body is read into: ' ', which is 32
    Filler,   \* the character this string is made of
    Heads,    \* lengths of headers
    Bodies,   \* lengths of bodies
    MaxInbox  \* bound on the bytes in the socket

ASSUME BufferAssumption == BufSize \in Nat \ {0} /\ StrLen \in Nat \ {0} /\ MaxInbox \in Nat
ASSUME LengthsAssumption == Heads \subseteq Nat \ {0, 1} /\ Bodies \subseteq Nat
ASSUME FillerAssumption == Filler \notin Int

VARIABLES
    request,  \* what the peer has sent last
    inbox,    \* how many bytes are in the socket
    stale,    \* how many of them are left of requests that were answered
    asked,    \* the peer waits for an answer
    hangup,   \* the peer has closed
    at,       \* the handler: in read() of the header or of the body, in the servlet, gone,
              \* or beyond the end of the string
    parsed,   \* how many bytes of the header the parser has seen
    rest,     \* `offset`: how many bytes behind them are in the buffer
    torn,     \* the Content-Length of this request was cut
    body,     \* the string of the body, empty if the request has none
    place,    \* where in it readFixSize() is
    left,     \* how many bytes readFixSize() still wants
    garbled   \* a request was not well-formed, or its Content-Length was cut

peerVars == <<request, asked, hangup>>
parserVars == <<parsed, rest, torn>>
bodyVars == <<body, place, left>>
sessionVars == <<peerVars, inbox, stale, at, parserVars, bodyVars, garbled>>

NoBody == <<>>
Requests == [head : Heads, body : Bodies, cut : Nat, fits : BOOLEAN]
Size(r) == r.head + r.body

\* A new parser, a new buffer, no body.
Fresh ==
    /\ parsed' = 0 /\ rest' = 0 /\ torn' = FALSE
    /\ body' = NoBody /\ place' = 0 /\ left' = 0

SessionInit ==
    /\ \E head \in Heads, len \in Bodies :
           request = [head |-> head, body |-> len, cut |-> 1, fits |-> TRUE]
    /\ inbox = 0 /\ stale = 0 /\ asked = FALSE /\ hangup = FALSE
    /\ at = "recv"
    /\ parsed = 0 /\ rest = 0 /\ torn = FALSE
    /\ body = NoBody /\ place = 0 /\ left = 0
    /\ garbled = FALSE

Least(i, k) == IF i < k THEN i ELSE k

\* read() takes n bytes of the socket; those of answered requests come first.
Receives(n) ==
    /\ inbox' = inbox - n
    /\ stale' = stale - Least(n, stale)

-----------------------------------------------------------------------------
(* The peer.                                                               *)

SendRequest(head, len, cut, fits) ==
    /\ ~asked /\ ~hangup /\ at \notin {"closed", "overrun"}
    /\ request' = [head |-> head, body |-> len, cut |-> cut, fits |-> fits]
    /\ inbox' = inbox + head + len /\ inbox' <= MaxInbox
    /\ asked' = TRUE
    /\ UNCHANGED <<stale, hangup, at, parserVars, bodyVars, garbled>>

HangUp ==
    /\ ~hangup /\ hangup' = TRUE
    /\ UNCHANGED <<request, asked, inbox, stale, at, parserVars, bodyVars, garbled>>

-----------------------------------------------------------------------------
(* recvRequest()                                                           *)

\* s with n bytes from number i on, behind its first p characters.
Copied(s, p, i, n) ==
    [k \in DOMAIN s |-> IF k \in p + 1 .. p + n THEN i + k - p - 1 ELSE s[k]]

EmptyString == [k \in 1 .. StrLen |-> Filler]

\* Where the handler is after the header: the bytes at hand are copied to the string if they
\* are not more than the body has.
AfterHeader(len, n) ==
    IF len >= n /\ n > StrLen THEN "overrun" ELSE IF len > n THEN "body" ELSE "handle"

\* Slip: what is in the buffer is not subtracted from what is still to be read.
FinishUnsubtracted(len, n, i) ==
    /\ at' = AfterHeader(len, n)
    /\ body' = IF at' = "body" THEN Copied(EmptyString, 0, i, n) ELSE NoBody
    /\ place' = IF at' = "body" THEN n ELSE 0
    /\ left' = IF at' = "body" THEN len ELSE 0

\* Slip: readFixSize() starts at the front of the body again.
FinishAtFront(len, n, i) ==
    /\ at' = AfterHeader(len, n)
    /\ body' = IF at' = "body" THEN Copied(EmptyString, 0, i, n) ELSE NoBody
    /\ place' = 0
    /\ left' = IF at' = "body" THEN len - n ELSE 0

\* After the header: len is the Content-Length, and the buffer holds n bytes from number i
\* on.  The request gets a body only if there are more to be read: otherwise setBody() is not
\* called, whatever was copied.
Finish(len, n, i) ==
    /\ at' = AfterHeader(len, n)
    /\ body' = IF at' = "body" THEN Copied(EmptyString, 0, i, n) ELSE NoBody
    /\ place' = IF at' = "body" THEN n ELSE 0
    /\ left' = IF at' = "body" THEN len - n ELSE 0

\* One turn of the loop, with n bytes that fit: they are all of the header, or its end is
\* among them.
Parse(n) ==
    LET len == rest + n
        used == Least(len, request.head - parsed)
        end == parsed + used
    IN  /\ at = "recv" /\ asked /\ stale = 0 /\ n <= Least(BufSize - rest, inbox)
        /\ request.fits \/ end < request.head
        /\ Receives(n)
        /\ parsed' = end /\ rest' = len - used
        /\ torn' = (torn \/ end = request.cut)
        /\ garbled' = (garbled \/ torn')
        /\ IF end < request.head
           THEN UNCHANGED <<at, bodyVars>>
           ELSE \E m \in IF torn THEN 0 .. request.body ELSE {request.body} :
                    Finish(m, len - used, end + 1)
        /\ UNCHANGED peerVars

\* One turn with a byte that does not fit, behind k that do.  hasError() is true only if
\* a callback has set m_error before.  Otherwise isFinished() is -1, which ends the loop, and
\* what was parsed until then goes to the servlet.
Misparse(n, k) ==
    LET len == rest + n IN
    /\ at = "recv" /\ ~(asked /\ stale = 0 /\ request.fits)
    /\ n <= Least(BufSize - rest, inbox) /\ k < len
    /\ Receives(n)
    /\ garbled' = TRUE
    /\ rest' = len - k
    /\ \/ at' = "closed" /\ UNCHANGED bodyVars
       \/ rest' # BufSize /\ \E m \in {0, request.body} : Finish(m, len - k, 1)
    /\ UNCHANGED <<peerVars, parsed, torn>>

\* Slip: one read() instead of readFixSize().
ReadBodyOnce(n) ==
    /\ at = "body" /\ n <= Least(left, inbox)
    /\ Receives(n)
    /\ body' = Copied(body, place, Size(request) - inbox + 1, n)
    /\ place' = place + n /\ left' = left - n
    /\ at' = IF place + n > StrLen THEN "overrun" ELSE "handle"
    /\ UNCHANGED <<peerVars, parserVars, garbled>>

\* A read() of readFixSize(), which is given the length of the body, not that of the string.
ReadBody(n) ==
    /\ at = "body" /\ n <= Least(left, inbox)
    /\ Receives(n)
    /\ body' = Copied(body, place, Size(request) - inbox + 1, n)
    /\ place' = place + n /\ left' = left - n
    /\ at' = IF place + n > StrLen THEN "overrun" ELSE IF n = left THEN "handle" ELSE "body"
    /\ UNCHANGED <<peerVars, parserVars, garbled>>

\* read() returns 0 or fails, for instance because the timeout of the socket is over.
ReadFails ==
    /\ at \in {"recv", "body"} /\ at' = "closed"
    /\ UNCHANGED <<peerVars, inbox, stale, parserVars, bodyVars, garbled>>

\* read() when the peer is gone and has left nothing to read.
ReadEnd == hangup /\ inbox = 0 /\ ReadFails

-----------------------------------------------------------------------------
(* handleClient()                                                          *)

\* The servlet answers; the loop goes on with the next request, or ends.
Respond ==
    /\ at = "handle" /\ at' \in {"recv", "closed"}
    /\ asked' = FALSE /\ stale' = inbox
    /\ Fresh
    /\ UNCHANGED <<request, hangup, inbox, garbled>>

Reading ==
    \/ \E n \in 1 .. BufSize : Parse(n)
    \/ \E n \in 1 .. BufSize : \E k \in 0 .. BufSize - 1 : Misparse(n, k)
    \/ \E n \in 1 .. MaxInbox : ReadBody(n)

SessionNext ==
    \/ \E head \in Heads, len \in Bodies, fits \in BOOLEAN :
           \E cut \in 1 .. head - 1 : SendRequest(head, len, cut, fits)
    \/ HangUp
    \/ Reading
    \/ ReadFails
    \/ Respond

\* A read() with bytes in the socket, or after the end, returns, and servlets return.
SessionFairness ==
    WF_sessionVars(Reading) /\ WF_sessionVars(ReadEnd) /\ WF_sessionVars(Respond)

SessionSpec == SessionInit /\ [][SessionNext]_sessionVars /\ SessionFairness

-----------------------------------------------------------------------------
(* Properties.                                                             *)

SessionTypeOK ==
    /\ request \in Requests
    /\ inbox \in Nat /\ stale \in 0 .. inbox
    /\ asked \in BOOLEAN /\ hangup \in BOOLEAN /\ torn \in BOOLEAN /\ garbled \in BOOLEAN
    /\ at \in {"recv", "body", "handle", "closed", "overrun"}
    /\ parsed \in Nat /\ rest \in 0 .. BufSize
    /\ body = NoBody \/ body \in [1 .. StrLen -> Int \cup {Filler}]
    /\ place \in Nat /\ left \in Nat

\* recvRequest() begins at the first byte of a request: of the requests before it, nothing is
\* left in the socket, whatever the pieces were (HttpSession.cc:23-69).
StartsAtRequest == at = "recv" /\ parsed = 0 /\ ~garbled => stale = 0

\* The servlet gets a body if part of it was still to be read behind the header, and then it
\* is the bytes that were sent, in their order, although some came with the header and some
\* in any pieces after it; the rest of the string is what it was made of (HttpSession.cc:48-68).
BodyInPlace ==
    at = "handle" /\ ~garbled =>
        body = IF request.body <= rest THEN NoBody
               ELSE [k \in 1 .. StrLen |-> IF k <= request.body THEN request.head + k ELSE Filler]

\* No body that fits the string goes beyond its end, whatever was at hand behind the header,
\* and none that is longer gets to the servlet (HttpSession.cc:50-63).
OnlyLongBodiesOverrun ==
    ~garbled =>
        /\ at = "overrun" => request.body > StrLen
        /\ at = "handle" => request.body <= StrLen

\* "http request parser max body size", 6 * 1024 * 1024 (HttpParser.cc:20-22): a well-formed
\* request may have a body of any length up to that.
BodyFits == ~garbled => at # "overrun"

\* The handler never waits for bytes that the peer does not send: a well-formed request whose
\* body fits is answered, or the connection closed (HttpSession.cc:61-68, HttpServer.cc:24-41).
RequestAnswered ==
    asked /\ ~garbled /\ request.body <= StrLen ~> ~asked \/ garbled \/ at = "closed"
=============================================================================
