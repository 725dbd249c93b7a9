---------------------------- MODULE SessionProofs ----------------------------
(***************************************************************************)
(* Safety of HttpSession for headers, bodies, buffers and pieces of any    *)
(* size.  The inductive invariant accounts for every byte of the request:  *)
(* what the parser has seen, what is in the body and what is in the socket *)
(* make up the request.                                                    *)
(***************************************************************************)
EXTENDS HttpSession, TLAPS

Strings == [1 .. StrLen -> Int \cup {Filler}]

StageInv ==
    /\ at = "recv" => rest = 0 /\ parsed < request.head /\ (~asked => parsed = 0)
    /\ at = "body" => body \in Strings

\* The first n characters of the string are of the body, the others as they were made.
Filled(n) ==
    body = [k \in 1 .. StrLen |-> IF k <= n THEN request.head + k ELSE Filler]

\* Where the bytes of a request are, if all went well so far.
BytesInv ==
    ~garbled =>
        /\ stale = 0 /\ ~torn
        /\ at = "recv" => inbox = IF asked THEN Size(request) - parsed ELSE 0
        /\ at = "body" => /\ asked /\ left = inbox /\ place + left = request.body
                          /\ rest < request.body /\ Filled(place)
        /\ at = "handle" => /\ asked /\ inbox = 0 /\ request.body <= StrLen
                            /\ IF request.body <= rest THEN body = NoBody
                               ELSE Filled(request.body)
        /\ at = "overrun" => asked /\ request.body > StrLen

SessionInv == SessionTypeOK /\ StageInv /\ BytesInv

USE BufferAssumption, LengthsAssumption, FillerAssumption

-----------------------------------------------------------------------------
(* The parts of a step.                                                    *)

LEMMA Sizes ==
    ASSUME SessionTypeOK
    PROVE  /\ request.head \in Nat \ {0, 1} /\ request.body \in Nat
           /\ Size(request) = request.head + request.body
BY DEF SessionTypeOK, Requests, Size

\* n bytes are taken from the socket.
LEMMA Received ==
    ASSUME SessionTypeOK, NEW n \in Nat \ {0}, n <= inbox, Receives(n)
    PROVE  /\ inbox' \in Nat /\ stale' \in 0 .. inbox'
           /\ inbox' = inbox - n /\ (stale = 0 => stale' = 0)
BY DEF SessionTypeOK, Receives, Least

LEMMA CopiedType ==
    ASSUME NEW s \in Strings, NEW p \in Nat, NEW i \in Int, NEW n \in Nat
    PROVE  /\ Copied(s, p, i, n) \in Strings
           /\ \A k \in 1 .. StrLen :
                  Copied(s, p, i, n)[k] = IF k \in p + 1 .. p + n THEN i + k - p - 1 ELSE s[k]
BY DEF Copied, Strings

\* What is at hand after the header becomes the beginning of the body, or is all of it, or is
\* more than the string holds.
LEMMA Finished ==
    ASSUME NEW len \in Nat, NEW n \in Nat, NEW i \in Int, Finish(len, n, i)
    PROVE  /\ at' \in {"body", "handle", "overrun"}
           /\ body' = NoBody \/ body' \in Strings
           /\ place' \in Nat /\ left' \in Nat
           /\ at' = "body" =>
                 /\ len > n /\ body' \in Strings /\ place' = n /\ left' = len - n
                 /\ body' = [k \in 1 .. StrLen |-> IF k <= n THEN i + k - 1 ELSE Filler]
           /\ at' = "handle" => body' = NoBody /\ len <= n /\ (len = n => n <= StrLen)
           /\ at' = "overrun" => len >= n /\ n > StrLen
<1>1. EmptyString \in Strings
  BY DEF Strings, EmptyString
<1>2. /\ Copied(EmptyString, 0, i, n) \in Strings
      /\ \A k \in 1 .. StrLen :
             Copied(EmptyString, 0, i, n)[k] =
                 IF k \in 0 + 1 .. 0 + n THEN i + k - 0 - 1 ELSE EmptyString[k]
  BY <1>1, CopiedType
<1>3. Copied(EmptyString, 0, i, n) =
        [k \in 1 .. StrLen |-> IF k <= n THEN i + k - 1 ELSE Filler]
  <2>1. \A k \in 1 .. StrLen : EmptyString[k] = Filler
    BY DEF EmptyString
  <2>2. \A k \in 1 .. StrLen :
            Copied(EmptyString, 0, i, n)[k] = IF k <= n THEN i + k - 1 ELSE Filler
    BY <1>2, <2>1
  <2> QED BY <1>2, <2>2 DEF Strings
<1>4. CASE at' = "body"
  <2>1. len > n /\ body' = Copied(EmptyString, 0, i, n) /\ place' = n /\ left' = len - n
    BY <1>4 DEF Finish, AfterHeader
  <2> QED BY <1>2, <1>3, <1>4, <2>1
<1>5. CASE at' # "body"
  BY <1>5 DEF Finish, AfterHeader
<1> QED BY <1>4, <1>5

-----------------------------------------------------------------------------
(* The invariant is kept.                                                  *)

LEMMA ParseKeeps ==
    ASSUME SessionInv, NEW n \in 1 .. BufSize, Parse(n)
    PROVE  SessionInv'
<1> DEFINE used == Least(n, request.head - parsed)
           end == parsed + used
<1>1. SessionTypeOK /\ StageInv /\ BytesInv
  BY DEF SessionInv
<1>2. /\ at = "recv" /\ asked /\ stale = 0 /\ rest = 0
      /\ n <= inbox /\ Receives(n)
      /\ parsed' = end /\ rest' = n - used
      /\ torn' = (torn \/ end = request.cut) /\ garbled' = (garbled \/ torn')
      /\ UNCHANGED <<request, asked, hangup>>
      /\ IF end < request.head
         THEN UNCHANGED <<at, body, place, left>>
         ELSE \E m \in IF torn THEN 0 .. request.body ELSE {request.body} :
                  Finish(m, n - used, end + 1)
  BY <1>1 DEF Parse, Least, StageInv, SessionTypeOK, peerVars, bodyVars
<1>3. inbox' = inbox - n /\ inbox' \in Nat /\ stale' = 0
  BY <1>1, <1>2, Received DEF SessionTypeOK
<1>4. /\ parsed \in Nat /\ request.head \in Nat /\ parsed < request.head
      /\ request.body \in Nat /\ Size(request) = request.head + request.body
  BY <1>1, <1>2, Sizes DEF StageInv, SessionTypeOK
<1>5. used \in 1 .. n /\ used <= request.head - parsed /\ (end < request.head => used = n)
  BY <1>4 DEF Least
<1> HIDE DEF used
<1>6. parsed' \in Nat /\ rest' \in 0 .. BufSize
  BY <1>2, <1>4, <1>5
<1>9. ASSUME ~garbled'
      PROVE  ~torn /\ ~torn' /\ inbox = Size(request) - parsed
  BY <1>1, <1>2, <1>9 DEF BytesInv, SessionTypeOK
<1>7. CASE end < request.head
  <2>1. SessionTypeOK'
    BY <1>1, <1>2, <1>3, <1>6, <1>7 DEF SessionTypeOK
  <2>2. StageInv'
    BY <1>2, <1>4, <1>5, <1>7 DEF StageInv
  <2>3. BytesInv'
    BY <1>2, <1>3, <1>4, <1>5, <1>7, <1>9 DEF BytesInv, Size
  <2> QED BY <2>1, <2>2, <2>3 DEF SessionInv
<1>8. CASE ~(end < request.head)
  <2>1. end = request.head /\ rest' = n - used
    BY <1>2, <1>4, <1>5, <1>8
  <2>2. PICK m \in IF torn THEN 0 .. request.body ELSE {request.body} :
            Finish(m, n - used, request.head + 1)
    BY <1>2, <1>8, <2>1
  <2>3. m \in Nat /\ n - used \in Nat /\ request.head + 1 \in Int
    BY <1>4, <1>5
  <2>4. /\ at' \in {"body", "handle", "overrun"}
        /\ body' = NoBody \/ body' \in Strings
        /\ place' \in Nat /\ left' \in Nat
        /\ at' = "body" =>
              /\ m > n - used /\ body' \in Strings /\ place' = n - used /\ left' = m - (n - used)
              /\ body' = [k \in 1 .. StrLen |->
                             IF k <= n - used THEN request.head + 1 + k - 1 ELSE Filler]
        /\ at' = "handle" =>
              body' = NoBody /\ m <= n - used /\ (m = n - used => n - used <= StrLen)
        /\ at' = "overrun" => m >= n - used /\ n - used > StrLen
    BY <2>2, <2>3, Finished
  <2>5. SessionTypeOK'
    BY <1>1, <1>2, <1>3, <1>6, <2>4 DEF SessionTypeOK, Strings
  <2>6. StageInv'
    BY <2>4 DEF StageInv
  <2>7. ASSUME ~garbled'
        PROVE  m = request.body /\ inbox' = request.body - (n - used) /\ inbox' \in Nat
    <3>1. m = request.body
      BY <1>9, <2>2, <2>7
    <3>2. inbox' = request.body - (n - used)
      BY <1>3, <1>4, <1>5, <1>9, <2>1, <2>7
    <3> QED BY <1>3, <3>1, <3>2
  <2>8. ASSUME at' = "body", ~garbled' PROVE BytesInv'
    <3>1. left' = inbox' /\ place' + left' = request.body /\ rest' < request.body
      BY <1>4, <1>5, <2>1, <2>3, <2>4, <2>7, <2>8
    <3>2. Filled(place)'
      <4>1. place' = n - used
        BY <2>4, <2>8
      <4>2. \A k \in 1 .. StrLen : request.head + 1 + k - 1 = request.head + k
        BY <1>4
      <4> QED BY <1>2, <2>4, <2>8, <4>1, <4>2 DEF Filled
    <3> QED BY <1>2, <1>3, <1>9, <2>8, <3>1, <3>2 DEF BytesInv
  <2>9. ASSUME at' = "handle", ~garbled' PROVE BytesInv'
    <3>1. inbox' = 0 /\ request.body = n - used /\ request.body <= StrLen
      BY <1>4, <1>5, <2>3, <2>4, <2>7, <2>9
    <3> QED BY <1>2, <1>3, <1>9, <2>1, <2>4, <2>9, <3>1 DEF BytesInv
  <2>10. ASSUME at' = "overrun", ~garbled' PROVE BytesInv'
    <3>1. request.body > StrLen
      BY <1>4, <2>3, <2>4, <2>7, <2>10
    <3> QED BY <1>2, <1>3, <1>9, <2>10, <3>1 DEF BytesInv
  <2>11. BytesInv'
    BY <2>4, <2>8, <2>9, <2>10 DEF BytesInv
  <2> QED BY <2>5, <2>6, <2>11 DEF SessionInv
<1> QED BY <1>7, <1>8

LEMMA MisparseKeeps ==
    ASSUME SessionInv, NEW n \in 1 .. BufSize, NEW k \in 0 .. BufSize - 1, Misparse(n, k)
    PROVE  SessionInv'
<1>1. SessionTypeOK /\ StageInv
  BY DEF SessionInv
<1>2. /\ at = "recv" /\ rest = 0 /\ n <= inbox /\ k < n /\ Receives(n)
      /\ garbled' /\ rest' = n - k
      /\ UNCHANGED <<request, asked, hangup, parsed, torn>>
      /\ \/ at' = "closed" /\ UNCHANGED <<body, place, left>>
         \/ \E m \in {0, request.body} : Finish(m, n - k, 1)
  BY <1>1 DEF Misparse, Least, StageInv, SessionTypeOK, peerVars, bodyVars
<1>3. inbox' \in Nat /\ stale' \in 0 .. inbox' /\ rest' \in 0 .. BufSize
  BY <1>1, <1>2, Received DEF SessionTypeOK
<1>4. /\ at' \in {"body", "handle", "overrun", "closed"}
      /\ body' = NoBody \/ body' \in Strings
      /\ place' \in Nat /\ left' \in Nat
      /\ at' = "body" => body' \in Strings
  <2>1. CASE at' = "closed" /\ UNCHANGED <<body, place, left>>
    BY <1>1, <2>1 DEF SessionTypeOK, Strings
  <2>2. ASSUME NEW m \in {0, request.body}, Finish(m, n - k, 1)
        PROVE  /\ at' \in {"body", "handle", "overrun"}
               /\ body' = NoBody \/ body' \in Strings
               /\ place' \in Nat /\ left' \in Nat
               /\ at' = "body" => body' \in Strings
    <3>1. m \in Nat /\ n - k \in Nat /\ 1 \in Int
      BY <1>1, <1>2, Sizes
    <3> QED BY <2>2, <3>1, Finished
  <2> QED BY <1>2, <2>1, <2>2
<1>5. SessionTypeOK' /\ StageInv'
  BY <1>1, <1>2, <1>3, <1>4 DEF SessionTypeOK, StageInv, Strings
<1> QED BY <1>2, <1>5 DEF SessionInv, BytesInv

LEMMA ReadBodyKeeps ==
    ASSUME SessionInv, NEW n \in 1 .. MaxInbox, ReadBody(n)
    PROVE  SessionInv'
<1>1. SessionTypeOK /\ StageInv /\ BytesInv
  BY DEF SessionInv
<1>2. /\ at = "body" /\ n <= left /\ n <= inbox /\ Receives(n)
      /\ body' = Copied(body, place, Size(request) - inbox + 1, n)
      /\ place' = place + n /\ left' = left - n
      /\ at' = IF place + n > StrLen THEN "overrun" ELSE IF n = left THEN "handle" ELSE "body"
      /\ UNCHANGED <<request, asked, hangup, parsed, rest, torn, garbled>>
  BY <1>1 DEF ReadBody, Least, SessionTypeOK, peerVars, parserVars
<1>3. inbox' = inbox - n /\ inbox' \in Nat /\ stale' \in 0 .. inbox' /\ (stale = 0 => stale' = 0)
  BY <1>1, <1>2, Received DEF SessionTypeOK
<1>4. /\ body \in Strings /\ place \in Nat /\ left \in Nat
      /\ request.head \in Nat /\ request.body \in Nat
      /\ Size(request) = request.head + request.body /\ Size(request) - inbox + 1 \in Int
  BY <1>1, <1>2, Sizes DEF StageInv, SessionTypeOK
<1>5. /\ body' \in Strings
      /\ \A k \in 1 .. StrLen :
             body'[k] = IF k \in place + 1 .. place + n
                        THEN Size(request) - inbox + 1 + k - place - 1 ELSE body[k]
  BY <1>2, <1>4, CopiedType
<1>6. SessionTypeOK' /\ StageInv'
  BY <1>1, <1>2, <1>3, <1>4, <1>5 DEF SessionTypeOK, StageInv, Strings
<1>7. BytesInv'
  <2> SUFFICES ASSUME ~garbled' PROVE BytesInv'
    BY DEF BytesInv
  <2>1. /\ stale = 0 /\ ~torn /\ asked /\ left = inbox
        /\ place + left = request.body /\ rest < request.body /\ Filled(place)
    BY <1>1, <1>2 DEF BytesInv
  <2>2. Filled(place)'
    <3>1. \A k \in 1 .. StrLen : body[k] = IF k <= place THEN request.head + k ELSE Filler
      BY <2>1 DEF Filled
    <3>2. \A k \in 1 .. StrLen :
              body'[k] = IF k <= place + n THEN request.head + k ELSE Filler
      BY <1>2, <1>4, <1>5, <2>1, <3>1
    <3> QED BY <1>2, <1>5, <3>2 DEF Filled, Strings
  <2>3. place' + left' = request.body /\ left' = inbox' /\ (n = left => left' = 0)
    BY <1>2, <1>3, <1>4, <2>1
  <2>4. at' = "handle" => place' = request.body /\ request.body <= StrLen /\ inbox' = 0
    BY <1>2, <1>4, <2>1, <2>3
  <2>5. at' = "overrun" => request.body > StrLen
    BY <1>2, <1>4, <2>1
  <2>6. rest \in Nat
    BY <1>1 DEF SessionTypeOK
  <2> QED BY <1>2, <1>3, <1>4, <2>1, <2>2, <2>3, <2>4, <2>5, <2>6 DEF BytesInv
<1> QED BY <1>6, <1>7 DEF SessionInv

LEMMA SessionKept == SessionInv /\ [SessionNext]_sessionVars => SessionInv'
<1> SUFFICES ASSUME SessionInv, [SessionNext]_sessionVars PROVE SessionInv'
  OBVIOUS
<1> USE DEF SessionInv
<1>1. ASSUME NEW head \in Heads, NEW len \in Bodies, NEW fits \in BOOLEAN,
             NEW cut \in 1 .. head - 1, SendRequest(head, len, cut, fits)
      PROVE  SessionInv'
  <2>1. head \in Nat \ {0, 1} /\ len \in Nat /\ request' \in Requests
        /\ request'.head = head /\ request'.body = len /\ Size(request') = head + len
    BY <1>1 DEF SendRequest, Requests, Size
  <2>2. SessionTypeOK' /\ StageInv'
    BY <1>1, <2>1 DEF SendRequest, SessionTypeOK, StageInv, parserVars, bodyVars
  <2>3. BytesInv'
    BY <1>1, <2>1 DEF SendRequest, SessionTypeOK, StageInv, BytesInv, Filled, parserVars, bodyVars
  <2> QED BY <2>2, <2>3
<1>2. ASSUME HangUp PROVE SessionInv'
  BY <1>2 DEF HangUp, SessionTypeOK, StageInv, BytesInv, Filled, parserVars, bodyVars
<1>3. ASSUME Reading PROVE SessionInv'
  BY <1>3, ParseKeeps, MisparseKeeps, ReadBodyKeeps DEF Reading
<1>4. ASSUME ReadFails PROVE SessionInv'
  BY <1>4 DEF ReadFails, SessionTypeOK, StageInv, BytesInv, peerVars, parserVars, bodyVars
<1>5. ASSUME Respond PROVE SessionInv'
  <2>1. request.head \in Nat \ {0, 1}
    BY Sizes
  <2>2. SessionTypeOK'
    <3>1. (/\ inbox \in Nat /\ stale \in 0 .. inbox /\ parsed \in Nat /\ rest \in 0 .. BufSize
           /\ place \in Nat /\ left \in Nat)'
      BY <1>5 DEF Respond, Fresh, SessionTypeOK
    <3>2. (/\ asked \in BOOLEAN /\ hangup \in BOOLEAN /\ torn \in BOOLEAN /\ garbled \in BOOLEAN
           /\ at \in {"recv", "body", "handle", "closed", "overrun"})'
      BY <1>5 DEF Respond, Fresh, SessionTypeOK
    <3> QED BY <1>5, <3>1, <3>2 DEF Respond, Fresh, SessionTypeOK
  <2>3. StageInv'
    BY <1>5, <2>1 DEF Respond, Fresh, StageInv
  <2>4. BytesInv'
    BY <1>5 DEF Respond, Fresh, BytesInv
  <2> QED BY <2>2, <2>3, <2>4
<1>6. ASSUME UNCHANGED sessionVars PROVE SessionInv'
  BY <1>6 DEF sessionVars, peerVars, parserVars, bodyVars, SessionTypeOK, StageInv, BytesInv, Filled
<1> QED BY <1>1, <1>2, <1>3, <1>4, <1>5, <1>6 DEF SessionNext

-----------------------------------------------------------------------------
(* Theorems.                                                               *)

LEMMA SessionInvariant == SessionSpec => []SessionInv
<1>1. SessionInit => SessionInv
  <2> SUFFICES ASSUME SessionInit PROVE SessionInv
    OBVIOUS
  <2>1. request \in Requests /\ request.head \in Nat \ {0, 1}
    BY DEF SessionInit, Requests
  <2>2. SessionTypeOK
    <3>1. /\ inbox \in Nat /\ stale \in 0 .. inbox /\ parsed \in Nat /\ rest \in 0 .. BufSize
          /\ place \in Nat /\ left \in Nat
      BY DEF SessionInit
    <3>2. /\ asked \in BOOLEAN /\ hangup \in BOOLEAN /\ torn \in BOOLEAN /\ garbled \in BOOLEAN
          /\ at \in {"recv", "body", "handle", "closed", "overrun"}
      BY DEF SessionInit
    <3> QED BY <2>1, <3>1, <3>2 DEF SessionInit, SessionTypeOK
  <2>3. StageInv /\ BytesInv
    BY <2>1 DEF SessionInit, StageInv, BytesInv
  <2> QED BY <2>2, <2>3 DEF SessionInv
<1> QED BY <1>1, SessionKept, PTL DEF SessionSpec

\* The state of a session keeps its types for headers, bodies, buffers and strings of any
\* length; in particular the buffer holds what is read into it (HttpSession.cc:19-45).
THEOREM SessionTypeCorrect == SessionSpec => []SessionTypeOK
<1>1. SessionInv => SessionTypeOK
  BY DEF SessionInv
<1> QED BY <1>1, SessionInvariant, PTL

\* A request is read from its first byte, for headers, bodies and pieces of any size
\* (HttpSession.cc:23-69).
THEOREM InStep == SessionSpec => []StartsAtRequest
<1>1. SessionInv => StartsAtRequest
  BY DEF SessionInv, BytesInv, StartsAtRequest
<1> QED BY <1>1, SessionInvariant, PTL

\* Whatever the lengths and the pieces are, the body the servlet gets is what was sent, padded
\* to the length of the string, or there is none if all of it came with the header
\* (HttpSession.cc:48-68).
THEOREM Assembled == SessionSpec => []BodyInPlace
<1>1. SessionInv => BodyInPlace
  BY DEF SessionInv, BytesInv, BodyInPlace, Filled
<1> QED BY <1>1, SessionInvariant, PTL

\* The string is overrun by bodies longer than it, of any length, and by no other, and none of
\* these gets to the servlet (HttpSession.cc:50-63).
THEOREM Overrun == SessionSpec => []OnlyLongBodiesOverrun
<1>1. SessionInv => OnlyLongBodiesOverrun
  BY DEF SessionInv, BytesInv, OnlyLongBodiesOverrun
<1> QED BY <1>1, SessionInvariant, PTL
=============================================================================
