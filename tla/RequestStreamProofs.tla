------------------------ MODULE RequestStreamProofs ------------------------
(***************************************************************************)
(* Proofs about RequestStream: every client gets the answer to its own     *)
(* request and the server never waits for bytes that will not come, for    *)
(* any number of clients, any requests and any sizes.  What get_field      *)
(* makes of a body does not matter there.  The second part is about the    *)
(* functions of HttpText and Templates, for any text and any size of the   *)
(* result.                                                                 *)
(***************************************************************************)
EXTENDS RequestStream, Templates, SequenceTheorems, NaturalsInduction, WellFoundedInduction,
        TLAPS

-----------------------------------------------------------------------------
(* The inductive invariant.                                                *)

\* The contents of a receive buffer.
Buffer == [1..CLIENT_BUFFER_SIZE -> Nat]

Answers(r) == {Right(r), [code |-> 429]}

\* The first t units of r are in buf, and rest has the others.
Split(r, buf, t, rest) ==
  /\ t + Len(rest) = Len(Wire(r))
  /\ t > 0 => buf \in Buffer
  /\ \A i \in 1..t : buf[i] = Wire(r)[i]
  /\ \A i \in 1..Len(rest) : rest[i] = Wire(r)[t + i]

\* Types.  totalRead leaves room for the NUL.
TypeOK ==
  /\ buffer \in [Clients -> Buffer \cup {NULL}]
  /\ totalRead \in [Clients -> 0..(CLIENT_BUFFER_SIZE - 1)]
  /\ mode \in [Clients -> {"reading", "writing", "closed"}]
  /\ unread \in [Clients -> Seq(Nat)]
  /\ DOMAIN inflight = Clients /\ DOMAIN got = Clients
  /\ DOMAIN asked = Clients
  /\ \A c \in Clients : asked[c] \in Sends[c] \cup {NULL}

\* Between two requests, and on a closed connection, nothing is left over.
Quiet(c) == totalRead[c] = 0 /\ unread[c] = <<>>

\* While a request is read, buffer and socket together hold it, and some of it
\* is still to come; a malformed one is answered at its first unit.
Reading(c) ==
  /\ unread[c] # <<>>
  /\ Split(asked[c], buffer[c], totalRead[c], unread[c])
  /\ asked[c].kind = "bad" => totalRead[c] = 0

\* The response in flight is this client's, and the connection is kept only
\* if all of the request was read.
Writing(c) ==
  /\ Waiting(c)
  /\ inflight[c].data \in Answers(asked[c])
  /\ inflight[c].keepAlive => unread[c] = <<>>

ClientOK(c) ==
  /\ got[c] # NULL => asked[c] # NULL /\ got[c] \in Answers(asked[c])
  /\ mode[c] = "closed" => Quiet(c)
  /\ mode[c] = "reading" => IF Waiting(c) THEN Reading(c) ELSE Quiet(c)
  /\ mode[c] = "writing" => Writing(c)

Inv == TypeOK /\ \A c \in Clients : ClientOK(c)

-----------------------------------------------------------------------------
(* The units of a request and the parser.                                  *)

\* A request on the wire: a start line, a blank line, and the body's bytes.
LEMMA WireIs ==
  ASSUME NEW r \in Request
  PROVE  /\ Wire(r) \in Seq(Nat) /\ Len(Wire(r)) >= 2 /\ Wire(r)[2] = BLANK
         /\ \A i \in 3..Len(Wire(r)) : Wire(r)[i] \in Byte
         /\ r.kind = "post" => /\ Wire(r)[1] = POST(Len(r.body))
                               /\ Len(Wire(r)) = Len(r.body) + 2
                               /\ \A i \in 1..Len(r.body) : Wire(r)[i + 2] = r.body[i]
         /\ r.kind = "get" => Wire(r)[1] = GET /\ Len(Wire(r)) = 2
         /\ r.kind = "bad" => Wire(r)[1] = BAD /\ Len(Wire(r)) = 2
<1>1. r.body \in Seq(Nat) /\ Len(r.body) \in Nat /\ \A i \in 1..Len(r.body) : r.body[i] \in Byte
  <2>1. r.body \in Seq(Byte)
    BY DEF Request
  <2>2. Len(r.body) \in Nat /\ \A i \in 1..Len(r.body) : r.body[i] \in Byte
    BY <2>1
  <2>3. \A b \in Byte : b \in Nat
    BY DEF Byte
  <2> QED
    BY <2>1, <2>2, <2>3
<1>2. CASE r.kind = "post"
  <2>1. Wire(r) = <<2000 + Len(r.body), 1000>> \o r.body
    BY <1>2 DEF Wire, POST, BLANK
  <2> QED
    BY <1>1, <1>2, <2>1 DEF POST, BLANK
<1>3. CASE r.kind = "get"
  BY <1>3 DEF Wire, GET, BLANK
<1>4. CASE r.kind = "bad"
  BY <1>4 DEF Wire, BAD, BLANK
<1> QED
  BY <1>2, <1>3, <1>4 DEF Request

\* on_read gets no more than was sent, and no more than there is room for.
LEMMA MinBelow ==
  ASSUME NEW a \in Int, NEW b \in Int, NEW n \in 1..Min({a, b})
  PROVE  n <= a /\ n <= b
<1>1. \E x \in {a, b} : \A y \in {a, b} : x =< y
  OBVIOUS
<1>2. Min({a, b}) \in {a, b} /\ \A y \in {a, b} : Min({a, b}) =< y
  BY <1>1 DEF Min
<1> QED
  BY <1>2

\* What phr_parse_request says of the first len units of a request.
LEMMA ParseIs ==
  ASSUME NEW r \in Request, NEW buf \in Buffer, NEW len \in 1..CLIENT_BUFFER_SIZE,
         len <= Len(Wire(r)), \A i \in 1..len : buf[i] = Wire(r)[i]
  PROVE  phr_parse_request(buf, len) =
           IF r.kind = "bad" THEN -1 ELSE IF len = 1 THEN -2 ELSE 2
<1>1. CASE r.kind = "bad"
  <2>1. buf[1] = BAD
    BY <1>1, WireIs
  <2> QED
    BY <1>1, <2>1 DEF phr_parse_request
<1>2. CASE r.kind # "bad"
  <2>1. \A i \in 1..len : buf[i] # BAD /\ (buf[i] = BLANK <=> i = 2)
    <3>1. \A i \in 3..len : buf[i] \in Byte
      BY WireIs
    <3>2. buf[1] # BAD /\ buf[1] # BLANK
      <4>1. r.kind = "post" \/ r.kind = "get"
        BY <1>2 DEF Request
      <4>2. Len(r.body) \in Nat
        BY DEF Request
      <4> QED
        BY <4>1, <4>2, WireIs DEF POST, GET, BAD, BLANK
    <3>3. len >= 2 => buf[2] = BLANK
      BY WireIs
    <3>4. ASSUME NEW i \in 1..len PROVE i = 1 \/ i = 2 \/ i \in 3..len
      OBVIOUS
    <3>5. \A b \in Byte : b # BAD /\ b # BLANK
      BY DEF Byte, BAD, BLANK
    <3>6. BLANK # BAD
      BY DEF BAD, BLANK
    <3> QED
      BY <3>1, <3>2, <3>3, <3>4, <3>5, <3>6
  <2>2. CASE len = 1
    BY <1>2, <2>1, <2>2 DEF phr_parse_request
  <2>3. CASE len >= 2
    <3>1. {i \in 1..len : buf[i] = BLANK} = {2}
      BY <2>1, <2>3
    <3>2. Min({2}) = 2
      BY DEF Min
    <3>3. 2 \in 1..len /\ buf[2] = BLANK /\ \A i \in 1..len : buf[i] # BAD
      BY <2>1, <2>3
    <3>4. phr_parse_request(buf, len) = Min({i \in 1..len : buf[i] = BLANK})
      BY <3>3 DEF phr_parse_request
    <3>5. phr_parse_request(buf, len) = 2
      BY <3>1, <3>2, <3>4, Zenon
    <3> QED
      BY <1>2, <2>3, <3>5
  <2> QED
    BY <2>2, <2>3
<1> QED
  BY <1>1, <1>2

\* http_is_request_complete accepts a request at its last unit and not before,
\* and a malformed one at its first.
LEMMA CompleteIs ==
  ASSUME NEW r \in Request, NEW buf \in Buffer, NEW len \in 1..CLIENT_BUFFER_SIZE,
         len <= Len(Wire(r)), \A i \in 1..len : buf[i] = Wire(r)[i]
  PROVE  http_is_request_complete(buf, len) <=> r.kind = "bad" \/ len = Len(Wire(r))
<1> DEFINE p == phr_parse_request(buf, len)
<1>1. p = IF r.kind = "bad" THEN -1 ELSE IF len = 1 THEN -2 ELSE 2
  BY ParseIs
<1>2. http_is_request_complete(buf, len) <=>
        /\ p # -2
        /\ p = -1 \/ buf[1] = GET \/ BodyArrived(len, p, buf[1] - POST(0))
  BY DEF http_is_request_complete
<1> HIDE DEF p
<1>3. buf[1] = Wire(r)[1] /\ Len(Wire(r)) >= 2
  BY WireIs
<1>4. CASE r.kind = "bad"
  BY <1>1, <1>2, <1>4
<1>5. CASE r.kind = "get"
  BY <1>1, <1>2, <1>3, <1>5, WireIs
<1>6. CASE r.kind = "post"
  <2>1. /\ buf[1] = 2000 + Len(r.body) /\ Len(Wire(r)) = Len(r.body) + 2
        /\ Len(r.body) \in Nat
    BY <1>3, <1>6, WireIs DEF POST, Request
  <2>2. buf[1] # GET /\ buf[1] - POST(0) = Len(r.body)
    BY <2>1 DEF GET, POST
  <2> QED
    BY <1>1, <1>2, <1>6, <2>1, <2>2 DEF BodyArrived
<1> QED
  BY <1>4, <1>5, <1>6 DEF Request

\* A request that was read in full, with the NUL behind it, gets the answer
\* that depends on it alone: the body that http_request_parse yields ends where
\* the client's does, whatever else is in the buffer.
LEMMA HandledRight ==
  ASSUME NEW r \in Request, NEW buf \in Buffer, NEW len \in 1..(CLIENT_BUFFER_SIZE - 1),
         len = Len(Wire(r)), \A i \in 1..len : buf[i] = Wire(r)[i], buf[len + 1] = NUL,
         r.kind # "bad"
  PROVE  handle_request(buf, len) = Right(r)
<1>1. buf[1] = Wire(r)[1] /\ phr_parse_request(buf, len) = 2
  BY ParseIs, WireIs, SizeAssumption
<1>2. CASE r.kind = "get"
  BY <1>1, <1>2, WireIs DEF handle_request, Right
<1>3. CASE r.kind = "post"
  <2>1. /\ buf[1] = 2000 + Len(r.body) /\ len = Len(r.body) + 2 /\ Len(r.body) \in Nat
        /\ r.body \in Seq(Byte) /\ \A i \in 1..Len(r.body) : buf[i + 2] = r.body[i]
    <3>1. r.body \in Seq(Byte) /\ Len(r.body) \in Nat
      BY DEF Request
    <3>2. Wire(r)[1] = 2000 + Len(r.body) /\ Len(Wire(r)) = Len(r.body) + 2
      BY <1>3, WireIs DEF POST
    <3>3. \A i \in 1..Len(r.body) : Wire(r)[i + 2] = r.body[i] /\ i + 2 \in 1..len
      BY <1>3, <3>1, <3>2, WireIs
    <3>4. ASSUME NEW i \in 1..Len(r.body) PROVE buf[i + 2] = r.body[i]
      BY <3>3
    <3> QED
      BY <1>1, <3>1, <3>2, <3>4
  <2>2. RequestBody(buf, len) = CString(r.body)
    <3>1. CASE len > 2
      <4> DEFINE s == From(buf, 3)
      <4>1. buf \in Seq(Nat) /\ Len(buf) = CLIENT_BUFFER_SIZE
        BY SizeAssumption DEF Buffer
      <4>2. /\ DOMAIN s = 1..(CLIENT_BUFFER_SIZE - 2)
            /\ \A i \in 1..(CLIENT_BUFFER_SIZE - 2) : s[i] = buf[i + 2]
        BY <4>1, SizeAssumption DEF From
      <4> HIDE DEF s
      <4>3. s[Len(r.body) + 1] = NUL /\ Len(r.body) + 1 \in DOMAIN s
        BY <2>1, <4>2, SizeAssumption
      <4>4. ASSUME NEW i \in 1..Len(r.body)
            PROVE  i \in DOMAIN s /\ s[i] = r.body[i]
        <5>1. i \in 1..(CLIENT_BUFFER_SIZE - 2)
          BY <2>1, SizeAssumption
        <5>2. s[i] = buf[i + 2] /\ buf[i + 2] = r.body[i]
          BY <2>1, <4>2, <5>1
        <5> QED
          BY <4>2, <5>1, <5>2
      <4>5. {k \in DOMAIN s : \A j \in 1..k : s[j] # NUL}
              = {k \in DOMAIN r.body : \A j \in 1..k : r.body[j] # NUL}
        <5>1. ASSUME NEW k \in DOMAIN s, \A j \in 1..k : s[j] # NUL
              PROVE  k \in 1..Len(r.body)
          BY <2>1, <4>2, <4>3, <5>1
        <5>2. DOMAIN r.body = 1..Len(r.body)
          BY <2>1
        <5>3. ASSUME NEW k \in 1..Len(r.body)
              PROVE  (\A j \in 1..k : s[j] # NUL) <=> (\A j \in 1..k : r.body[j] # NUL)
          <6>1. \A j \in 1..k : s[j] = r.body[j]
            BY <2>1, <4>4
          <6> QED
            BY <6>1
        <5> QED
          BY <4>4, <5>1, <5>2, <5>3
      <4>6. CString(s) = CString(r.body)
        BY <2>1, <4>4, <4>5 DEF CString
      <4> QED
        BY <1>1, <3>1, <4>6 DEF RequestBody, s
    <3>2. CASE len = 2
      <4>1. r.body = <<>>
        BY <2>1, <3>2
      <4>2. CString(<<>>) = <<>>
        BY DEF CString
      <4> QED
        BY <1>1, <3>2, <4>1, <4>2 DEF RequestBody
    <3> QED
      BY <2>1, <3>1, <3>2
  <2> QED
    BY <1>3, <2>1, <2>2 DEF handle_request, Right, GET
<1> QED
  BY <1>2, <1>3 DEF Request

-----------------------------------------------------------------------------
(* Reading.                                                                *)

\* What on_read makes of a buffer with the first t units of a request.
LEMMA AccumulateOK ==
  ASSUME NEW r \in Request, NEW buf, NEW old \in Buffer, NEW t \in 0..(CLIENT_BUFFER_SIZE - 1),
         NEW units \in Seq(Nat), Split(r, buf, t, units), t > 0 => old = buf,
         NEW n \in 1..Len(units), n <= CLIENT_BUFFER_SIZE - 1 - t
  PROVE  /\ Accumulate(old, t, n, units) \in Buffer
         /\ Accumulate(old, t, n, units)[t + n + 1] = NUL
         /\ From(units, n + 1) \in Seq(Nat)
         /\ Split(r, Accumulate(old, t, n, units), t + n, From(units, n + 1))
<1> DEFINE new == Accumulate(old, t, n, units)
           rest == From(units, n + 1)
<1>1. /\ DOMAIN new = 1..CLIENT_BUFFER_SIZE
      /\ \A i \in 1..CLIENT_BUFFER_SIZE :
           new[i] = IF i \in (t + 1)..(t + n) THEN units[i - t]
                    ELSE IF i = t + n + 1 THEN NUL ELSE old[i]
  BY DEF Accumulate
<1>2. Len(units) \in Nat /\ \A i \in 1..Len(units) : units[i] \in Nat
  OBVIOUS
<1>3. new \in Buffer
  <2>1. ASSUME NEW i \in 1..CLIENT_BUFFER_SIZE PROVE new[i] \in Nat
    <3>1. i \in (t + 1)..(t + n) => i - t \in 1..Len(units)
      BY <1>2
    <3>2. old[i] \in Nat /\ NUL \in Nat
      BY DEF Buffer, NUL
    <3> HIDE DEF new
    <3> QED
      BY <1>1, <1>2, <3>1, <3>2
  <2>2. new = [i \in 1..CLIENT_BUFFER_SIZE |-> new[i]]
    BY DEF Accumulate
  <2> HIDE DEF new
  <2> QED
    BY <2>1, <2>2 DEF Buffer
<1>4. /\ rest \in Seq(Nat) /\ Len(rest) = Len(units) - n
      /\ \A i \in 1..Len(rest) : rest[i] = units[n + i]
  BY <1>2 DEF From
<1> HIDE DEF new, rest
<1>5. new[t + n + 1] = NUL
  BY <1>1, SizeAssumption
<1>6. Split(r, new, t + n, rest)
  <2>1. t + n + Len(rest) = Len(Wire(r))
    <3>1. t + Len(units) = Len(Wire(r))
      BY DEF Split
    <3>2. t + n + Len(rest) = t + Len(units)
      BY <1>2, <1>4
    <3> QED
      BY <3>1, <3>2
  <2>2. ASSUME NEW i \in 1..(t + n) PROVE new[i] = Wire(r)[i]
    <3>1. CASE i <= t
      <4>1. new[i] = old[i] /\ old = buf
        BY <1>1, <3>1, SizeAssumption
      <4>2. buf[i] = Wire(r)[i]
        BY <3>1 DEF Split
      <4> QED
        BY <4>1, <4>2
    <3>2. CASE i > t
      <4>1. new[i] = units[i - t]
        BY <1>1, <3>2, SizeAssumption
      <4>2. i - t \in 1..Len(units) /\ t + (i - t) = i
        BY <1>2, <3>2
      <4>3. units[i - t] = Wire(r)[t + (i - t)]
        BY <4>2 DEF Split
      <4> QED
        BY <4>1, <4>2, <4>3
    <3> QED
      BY <3>1, <3>2
  <2>3. ASSUME NEW i \in 1..Len(rest) PROVE rest[i] = Wire(r)[t + n + i]
    <3>1. n + i \in 1..Len(units) /\ t + (n + i) = t + n + i
      BY <1>2, <1>4
    <3>2. units[n + i] = Wire(r)[t + (n + i)]
      BY <3>1 DEF Split
    <3> QED
      BY <1>4, <3>1, <3>2
  <2> QED
    BY <1>3, <2>1, <2>2, <2>3 DEF Split
<1> QED
  BY <1>3, <1>4, <1>5, <1>6 DEF new, rest

\* A client of which nothing changes stays as it is.
LEMMA OthersOK ==
  ASSUME NEW d \in Clients, ClientOK(d),
         buffer'[d] = buffer[d], totalRead'[d] = totalRead[d], mode'[d] = mode[d],
         inflight'[d] = inflight[d], unread'[d] = unread[d], asked'[d] = asked[d],
         got'[d] = got[d]
  PROVE  ClientOK(d)'
BY DEF ClientOK, Quiet, Reading, Writing, Waiting, Split, Answers

\* A connection that is closed keeps the answer it gave.
LEMMA ClosedOK ==
  ASSUME TypeOK, NEW c \in Clients, ClientOK(c), close_client(c),
         asked' = asked, got'[c] = NULL \/ (asked[c] # NULL /\ got'[c] \in Answers(asked[c]))
  PROVE  ClientOK(c)'
<1>1. mode'[c] = "closed" /\ totalRead'[c] = 0 /\ unread'[c] = <<>>
  BY DEF close_client, TypeOK
<1> QED
  BY <1>1 DEF ClientOK, Quiet, Answers

-----------------------------------------------------------------------------
(* Each step keeps the invariant.                                          *)

LEMMA InitOK == Init => Inv
<1> SUFFICES ASSUME Init PROVE Inv
  OBVIOUS
<1>1. TypeOK
  BY SizeAssumption DEF Init, TypeOK
<1>2. ASSUME NEW c \in Clients PROVE ClientOK(c)
  BY DEF Init, ClientOK, Quiet, Waiting
<1> QED
  BY <1>1, <1>2 DEF Inv

LEMMA SendOK ==
  ASSUME Inv, NEW c \in Clients, Send(c)
  PROVE  Inv'
<1> USE DEF Inv
<1>1. PICK r \in Sends[c] : /\ asked' = [asked EXCEPT ![c] = r]
                            /\ unread' = [unread EXCEPT ![c] = Wire(r)]
  BY DEF Send
<1>2. r \in Request /\ Wire(r) \in Seq(Nat) /\ Len(Wire(r)) >= 2
  BY SendAssumption, WireIs
<1>3. /\ asked'[c] = r /\ unread'[c] = Wire(r) /\ got'[c] = NULL
      /\ \A d \in Clients \ {c} : asked'[d] = asked[d] /\ unread'[d] = unread[d] /\ got'[d] = got[d]
      /\ UNCHANGED <<buffer, totalRead, mode, inflight>>
  BY <1>1 DEF Send, TypeOK
<1>4. TypeOK'
  <2>1. unread' \in [Clients -> Seq(Nat)]
    BY <1>1, <1>2 DEF TypeOK
  <2>2. DOMAIN got' = Clients
    BY DEF Send, TypeOK
  <2>3. DOMAIN asked' = Clients /\ \A d \in Clients : asked'[d] \in Sends[d] \cup {NULL}
    BY <1>1, <1>3 DEF TypeOK
  <2> QED
    BY <1>3, <2>1, <2>2, <2>3 DEF TypeOK
<1>5. ClientOK(c)'
  <2>1. mode[c] = "reading" /\ totalRead[c] = 0
    BY DEF Send, ClientOK, Quiet
  <2>2. Split(r, buffer[c], 0, Wire(r))
    BY <1>2 DEF Split
  <2>3. Reading(c)'
    BY <1>2, <1>3, <2>1, <2>2 DEF Reading
  <2> QED
    BY <1>2, <1>3, <2>1, <2>3, NullAssumption DEF ClientOK, Waiting
<1>6. ASSUME NEW d \in Clients \ {c} PROVE ClientOK(d)'
  BY <1>3, OthersOK
<1> QED
  BY <1>4, <1>5, <1>6

LEMMA ConnectOK ==
  ASSUME Inv, NEW c \in Clients, Connect(c)
  PROVE  Inv'
<1> USE DEF Inv
<1>1. /\ asked'[c] = NULL /\ mode'[c] = "reading" /\ got'[c] = NULL
      /\ \A d \in Clients \ {c} : asked'[d] = asked[d] /\ mode'[d] = mode[d] /\ got'[d] = got[d]
      /\ UNCHANGED <<buffer, totalRead, unread, inflight>>
  BY DEF Connect, TypeOK
<1>2. TypeOK'
  <2>1. mode' \in [Clients -> {"reading", "writing", "closed"}] /\ DOMAIN got' = Clients
    BY DEF Connect, TypeOK
  <2>2. DOMAIN asked' = Clients /\ \A d \in Clients : asked'[d] \in Sends[d] \cup {NULL}
    BY <1>1 DEF Connect, TypeOK
  <2> QED
    BY <1>1, <2>1, <2>2 DEF TypeOK
<1>3. ClientOK(c)'
  <2>1. Quiet(c)
    BY DEF Connect, ClientOK
  <2> QED
    BY <1>1, <2>1 DEF ClientOK, Quiet, Waiting
<1>4. ASSUME NEW d \in Clients \ {c} PROVE ClientOK(d)'
  BY <1>1, OthersOK
<1> QED
  BY <1>2, <1>3, <1>4

\* close_client changes the state of its own connection only.
LEMMA CloseTyped ==
  ASSUME TypeOK, NEW c \in Clients, close_client(c), asked' = asked,
         DOMAIN inflight' = Clients, DOMAIN got' = Clients
  PROVE  /\ TypeOK'
         /\ \A d \in Clients \ {c} : /\ buffer'[d] = buffer[d] /\ totalRead'[d] = totalRead[d]
                                     /\ mode'[d] = mode[d] /\ unread'[d] = unread[d]
<1>1. /\ buffer' \in [Clients -> Buffer \cup {NULL}]
      /\ totalRead' \in [Clients -> 0..(CLIENT_BUFFER_SIZE - 1)]
  BY SizeAssumption DEF close_client, TypeOK
<1>2. mode' \in [Clients -> {"reading", "writing", "closed"}]
  BY DEF close_client, TypeOK
<1>3. unread' \in [Clients -> Seq(Nat)]
  BY DEF close_client, TypeOK
<1> QED
  BY <1>1, <1>2, <1>3 DEF TypeOK, close_client

LEMMA ReadEndsOK ==
  ASSUME Inv, NEW c \in Clients, ReadEnds(c)
  PROVE  Inv'
<1> USE DEF Inv
<1>1. close_client(c) /\ UNCHANGED <<inflight, asked, got>>
  BY DEF ReadEnds
<1>2. TypeOK'
  BY <1>1, CloseTyped DEF TypeOK
<1>3. ClientOK(c)'
  BY <1>1, ClosedOK DEF ClientOK
<1>4. ASSUME NEW d \in Clients \ {c} PROVE ClientOK(d)'
  BY <1>1, CloseTyped, OthersOK DEF TypeOK
<1> QED
  BY <1>2, <1>3, <1>4

LEMMA WriteCompleteOK ==
  ASSUME Inv, NEW c \in Clients, on_write_complete(c)
  PROVE  Inv'
<1> USE DEF Inv
<1>1. Writing(c) /\ asked' = asked /\ mode[c] = "writing"
  BY DEF on_write_complete, ClientOK
<1>2. /\ inflight' = [inflight EXCEPT ![c] = NULL]
      /\ DOMAIN inflight' = Clients /\ DOMAIN got' = Clients
      /\ \A d \in Clients \ {c} : inflight'[d] = inflight[d] /\ got'[d] = got[d]
  BY DEF on_write_complete, TypeOK
<1>3. asked[c] \in Sends[c] /\ asked[c] # NULL /\ got[c] = NULL
  BY <1>1 DEF Writing, Waiting, TypeOK
<1>4. NULL \notin Answers(asked[c])
  BY <1>3, AnswerAssumption DEF Answers
<1>5. ASSUME got' = [got EXCEPT ![c] = Written(c)]
      PROVE  got'[c] \in Answers(asked[c]) /\ got'[c] # NULL
  BY <1>1, <1>4, <1>5 DEF Written, Writing, TypeOK
<1>6. CASE close_client(c)
  <2>1. got'[c] = NULL \/ got'[c] \in Answers(asked[c])
    BY <1>3, <1>5 DEF on_write_complete
  <2>2. TypeOK'
    BY <1>1, <1>2, <1>6, CloseTyped
  <2>3. ClientOK(c)'
    BY <1>1, <1>3, <1>6, <2>1, ClosedOK
  <2>4. ASSUME NEW d \in Clients \ {c} PROVE ClientOK(d)'
    BY <1>1, <1>2, <1>6, CloseTyped, OthersOK
  <2> QED
    BY <2>2, <2>3, <2>4
<1>7. CASE /\ got' = [got EXCEPT ![c] = Written(c)] /\ inflight[c].keepAlive
           /\ mode' = [mode EXCEPT ![c] = "reading"]
           /\ totalRead' = [totalRead EXCEPT ![c] = 0]
           /\ UNCHANGED <<buffer, unread>>
  <2>1. /\ mode'[c] = "reading" /\ totalRead'[c] = 0 /\ unread'[c] = <<>>
        /\ \A d \in Clients \ {c} : mode'[d] = mode[d] /\ totalRead'[d] = totalRead[d]
    BY <1>1, <1>7 DEF Writing, TypeOK
  <2>2. TypeOK'
    <3>1. /\ mode' \in [Clients -> {"reading", "writing", "closed"}]
          /\ totalRead' \in [Clients -> 0..(CLIENT_BUFFER_SIZE - 1)]
      BY <1>7, SizeAssumption DEF TypeOK
    <3> QED
      BY <1>1, <1>2, <1>7, <3>1 DEF TypeOK
  <2>3. ClientOK(c)'
    BY <1>1, <1>3, <1>5, <1>7, <2>1 DEF ClientOK, Quiet, Waiting, Answers
  <2>4. ASSUME NEW d \in Clients \ {c} PROVE ClientOK(d)'
    BY <1>1, <1>2, <1>7, <2>1, OthersOK
  <2> QED
    BY <2>2, <2>3, <2>4
<1> QED
  BY <1>6, <1>7 DEF on_write_complete

\* send_response with an answer that is this client's.
LEMMA RespondOK ==
  ASSUME Inv, NEW c \in Clients, NEW buf \in Buffer, NEW len \in 0..(CLIENT_BUFFER_SIZE - 1),
         NEW rest \in Seq(Nat), NEW resp, NEW keepAlive, Waiting(c), resp \in Answers(asked[c]),
         keepAlive => rest = <<>>, send_response(c, buf, len, rest, resp, keepAlive),
         UNCHANGED <<asked, got>>
  PROVE  Inv'
<1> USE DEF Inv
<1>1. CASE close_client(c) /\ UNCHANGED inflight
  <2>1. TypeOK'
    BY <1>1, CloseTyped DEF TypeOK
  <2>2. ClientOK(c)'
    BY <1>1, ClosedOK DEF Waiting
  <2>3. ASSUME NEW d \in Clients \ {c} PROVE ClientOK(d)'
    BY <1>1, CloseTyped, OthersOK DEF TypeOK
  <2> QED
    BY <2>1, <2>2, <2>3
<1>2. CASE /\ inflight' = [inflight EXCEPT ![c] = [data |-> resp, keepAlive |-> keepAlive]]
           /\ mode' = [mode EXCEPT ![c] = "writing"]
           /\ buffer' = [buffer EXCEPT ![c] = buf]
           /\ totalRead' = [totalRead EXCEPT ![c] = len]
           /\ unread' = [unread EXCEPT ![c] = rest]
  <2>1. TypeOK'
    BY <1>2 DEF TypeOK
  <2>2. /\ inflight'[c].data = resp /\ inflight'[c].keepAlive = keepAlive
        /\ mode'[c] = "writing" /\ unread'[c] = rest
        /\ \A d \in Clients \ {c} :
             /\ inflight'[d] = inflight[d] /\ mode'[d] = mode[d] /\ buffer'[d] = buffer[d]
             /\ totalRead'[d] = totalRead[d] /\ unread'[d] = unread[d]
    BY <1>2 DEF TypeOK
  <2>3. Writing(c)'
    BY <2>2 DEF Writing, Waiting, Answers
  <2>4. ClientOK(c)'
    BY <2>2, <2>3 DEF ClientOK, Waiting
  <2>5. ASSUME NEW d \in Clients \ {c} PROVE ClientOK(d)'
    BY <2>2, OthersOK
  <2> QED
    BY <2>1, <2>4, <2>5
<1> QED
  BY <1>1, <1>2 DEF send_response

LEMMA ReadOK ==
  ASSUME Inv, NEW c \in Clients, on_read(c)
  PROVE  Inv'
<1> USE DEF Inv
<1>1. PICK n \in 1..Min({Len(unread[c]), Remaining(c)}), old \in BufferOf(c) :
        Process(c, Accumulate(old, totalRead[c], n, unread[c]), totalRead[c] + n,
                From(unread[c], n + 1))
  BY DEF on_read
<1>2. UNCHANGED <<asked, got>> /\ mode[c] = "reading"
  BY DEF on_read
<1> DEFINE r == asked[c]
           t == totalRead[c]
           len == t + n
           buf == Accumulate(old, t, n, unread[c])
           rest == From(unread[c], n + 1)
<1>3. /\ unread[c] \in Seq(Nat) /\ Len(unread[c]) \in Nat
      /\ t \in 0..(CLIENT_BUFFER_SIZE - 1) /\ Remaining(c) \in Int
  BY SizeAssumption DEF TypeOK, Remaining
<1>4. n \in 1..Len(unread[c]) /\ n <= CLIENT_BUFFER_SIZE - 1 - t
  <2>1. Min({Len(unread[c]), Remaining(c)}) \in Int /\ n <= Len(unread[c]) /\ n <= Remaining(c)
    BY <1>3, MinBelow DEF Min
  <2> QED
    BY <1>3, <2>1 DEF Remaining
<1>5. Waiting(c) /\ Reading(c)
  <2>1. unread[c] # <<>>
    BY <1>3, <1>4
  <2> QED
    BY <1>2, <2>1 DEF ClientOK, Quiet
<1>6. r \in Request
  BY <1>5, SendAssumption DEF Waiting, TypeOK
<1>7. old \in Buffer /\ (t > 0 => old = buffer[c])
  <2>1. CASE buffer[c] # NULL
    BY <2>1 DEF BufferOf, TypeOK
  <2>2. CASE buffer[c] = NULL
    <3>1. t = 0
      BY <1>3, <1>5, <2>2, NullAssumption DEF Reading, Split, Buffer
    <3>2. PICK g \in Garbage : old = [i \in 1..CLIENT_BUFFER_SIZE |-> g]
      BY <2>2 DEF BufferOf
    <3>3. g \in Nat
      BY GarbageAssumption DEF Byte
    <3> QED
      BY <3>1, <3>2, <3>3 DEF Buffer
  <2> QED
    BY <2>1, <2>2
<1>8. buf \in Buffer /\ buf[len + 1] = NUL /\ rest \in Seq(Nat) /\ Split(r, buf, len, rest)
  BY <1>3, <1>4, <1>5, <1>6, <1>7, AccumulateOK DEF Reading
<1>9. Process(c, buf, len, rest)
  BY <1>1
<1>10. len \in 1..(CLIENT_BUFFER_SIZE - 1) /\ len \in 1..CLIENT_BUFFER_SIZE
  BY <1>3, <1>4, SizeAssumption
<1>11. /\ Len(rest) \in Nat /\ len + Len(rest) = Len(Wire(r))
       /\ \A i \in 1..len : buf[i] = Wire(r)[i]
  BY <1>8 DEF Split
<1>12. len <= Len(Wire(r)) /\ (len = Len(Wire(r)) <=> rest = <<>>)
  <2>1. Len(rest) = 0 <=> rest = <<>>
    BY <1>8
  <2> HIDE DEF rest, len
  <2> QED
    BY <1>10, <1>11, <2>1
<1> HIDE DEF buf, rest, len
<1>13. http_is_request_complete(buf, len) <=> r.kind = "bad" \/ rest = <<>>
  BY <1>6, <1>8, <1>10, <1>11, <1>12, CompleteIs
<1>14. r.kind # "bad" /\ rest = <<>> => handle_request(buf, len) = Right(r)
  BY <1>6, <1>8, <1>10, <1>11, <1>12, HandledRight
<1>15. phr_parse_request(buf, len) = -1 <=> r.kind = "bad"
  BY <1>6, <1>8, <1>10, <1>11, <1>12, ParseIs
<1>16. CASE /\ ~http_is_request_complete(buf, len)
            /\ buffer' = [buffer EXCEPT ![c] = buf]
            /\ totalRead' = [totalRead EXCEPT ![c] = len]
            /\ unread' = [unread EXCEPT ![c] = rest]
            /\ UNCHANGED <<mode, inflight, g_response_buffer>>
  <2>1. TypeOK'
    BY <1>2, <1>8, <1>10, <1>16 DEF TypeOK
  <2>2. /\ buffer'[c] = buf /\ totalRead'[c] = len /\ unread'[c] = rest
        /\ \A d \in Clients \ {c} : /\ buffer'[d] = buffer[d] /\ totalRead'[d] = totalRead[d]
                                    /\ unread'[d] = unread[d]
    BY <1>16 DEF TypeOK
  <2>3. Reading(c)'
    BY <1>2, <1>8, <1>13, <1>16, <2>2 DEF Reading
  <2>4. ClientOK(c)'
    BY <1>2, <1>5, <1>16, <2>3 DEF ClientOK, Waiting
  <2>5. ASSUME NEW d \in Clients \ {c} PROVE ClientOK(d)'
    BY <1>2, <1>16, <2>2, OthersOK
  <2> QED
    BY <2>1, <2>4, <2>5
<1> HIDE DEF Inv, r
<1>17. ASSUME NEW resp \in Answers(r), NEW keepAlive, keepAlive => rest = <<>>,
              send_response(c, buf, len, rest, resp, keepAlive)
       PROVE  Inv'
  <2>1. len \in 0..(CLIENT_BUFFER_SIZE - 1)
    BY <1>10
  <2> QED
    BY <1>2, <1>5, <1>8, <1>17, <2>1, RespondOK DEF r
<1>18. CASE send_response(c, buf, len, rest, [code |-> 429], FALSE)
  <2>1. [code |-> 429] \in Answers(r)
    BY DEF Answers
  <2> QED
    BY <1>17, <1>18, <2>1
<1>19. CASE /\ phr_parse_request(buf, len) = -1
            /\ send_response(c, buf, len, rest, [code |-> 400], FALSE)
  <2>1. [code |-> 400] \in Answers(r)
    BY <1>15, <1>19 DEF Answers, Right
  <2> QED
    BY <1>17, <1>19, <2>1
<1>20. CASE /\ http_is_request_complete(buf, len)
            /\ phr_parse_request(buf, len) # -1
            /\ g_response_buffer' = handle_request(buf, len)
            /\ send_response(c, buf, len, rest, g_response_buffer', asked[c].keepAlive)
  <2>1. rest = <<>> /\ g_response_buffer' = Right(r)
    BY <1>13, <1>14, <1>15, <1>20
  <2>2. Right(r) \in Answers(r)
    BY DEF Answers
  <2>3. send_response(c, buf, len, rest, Right(r), asked[c].keepAlive)
    BY <1>20, <2>1
  <2> QED
    BY <1>17, <2>1, <2>2, <2>3
<1> QED
  BY <1>9, <1>16, <1>18, <1>19, <1>20 DEF Process

LEMMA InvHolds == Spec => []Inv
<1>1. Inv /\ [Next]_vars => Inv'
  <2> SUFFICES ASSUME Inv, [Next]_vars PROVE Inv'
    OBVIOUS
  <2>1. CASE UNCHANGED vars
    <3>1. TypeOK'
      BY <2>1 DEF vars, Inv, TypeOK
    <3>2. ASSUME NEW d \in Clients PROVE ClientOK(d)'
      BY <2>1, OthersOK DEF vars, Inv
    <3> QED
      BY <3>1, <3>2 DEF Inv
  <2> QED
    BY <2>1, SendOK, ConnectOK, ReadOK, ReadEndsOK, WriteCompleteOK DEF Next
<1> QED
  BY <1>1, InitOK, PTL DEF Spec

\* Whatever a client gets is the answer to the request it sent last, computed
\* from what it sent, or a 429: however on_read saw the request split, whatever
\* malloc or an earlier request left in the buffer behind the NUL, and whatever
\* was put into g_response_buffer for others between dispatch and write.
THEOREM EveryoneGetsOwnAnswer == Spec => []OwnAnswers
<1>1. Inv => OwnAnswers
  BY DEF Inv, ClientOK, OwnAnswers, Answers
<1> QED
  BY <1>1, InvHolds, PTL

\* http_is_request_complete recognises every request at its last byte at the
\* latest: while the server reads and a client waits, something is still to come.
THEOREM WaitsOnlyForWhatComes == Spec => []NeverWaitsForMore
<1>1. Inv => NeverWaitsForMore
  BY DEF Inv, ClientOK, NeverWaitsForMore, Reading
<1> QED
  BY <1>1, InvHolds, PTL

-----------------------------------------------------------------------------
(* The text functions of HttpText.                                         *)

\* A set of numbers has a least one.
LEMMA LeastExists ==
  ASSUME NEW S \in SUBSET Nat, S # {}
  PROVE  \E n \in S : \A m \in S : n <= m
<1> DEFINE R == {p \in Nat \X Nat : p[1] < p[2]}
<1>1. IsWellFoundedOn(R, Nat)
  BY NatLessThanWellFounded DEF OpToRel
<1>2. PICK n \in S : \A m \in S : ~(<<m, n>> \in R)
  BY <1>1, WFMin
<1>3. ASSUME NEW m \in S PROVE n <= m
  <2>1. ~(<<m, n>> \in R)
    BY <1>2
  <2>2. <<m, n>> \in Nat \X Nat /\ <<m, n>>[1] = m /\ <<m, n>>[2] = n
    OBVIOUS
  <2> QED
    BY <2>1, <2>2
<1> QED
  BY <1>3

LEMMA MinOfIsLeast ==
  ASSUME NEW S \in SUBSET Nat, S # {}
  PROVE  Min(S) \in S /\ \A m \in S : Min(S) <= m
BY LeastExists DEF Min

\* What holds before the first round and survives each holds after all.
LEMMA RoundsInduction ==
  ASSUME NEW n \in Nat, NEW T, 0 \in T,
         \A i \in 1..n : i - 1 \in T => i \in T
  PROVE  0..n \subseteq T
<1> DEFINE S == {i \in 0..n : i \notin T}
<1> SUFFICES ASSUME S # {} PROVE FALSE
  OBVIOUS
<1>1. \E i \in S : \A m \in S : i <= m
  <2>1. S \in SUBSET Nat
    OBVIOUS
  <2> HIDE DEF S
  <2> QED
    BY <2>1, LeastExists
<1> PICK i \in S : \A m \in S : i <= m
  BY <1>1
<1>2. i # 0 /\ i \in 1..n
  OBVIOUS
<1>3. i - 1 \in 0..n /\ i - 1 \notin S
  BY <1>2
<1> QED
  BY <1>2, <1>3

\* A loop of n rounds that starts in first and stays in S; round[i] is what the
\* i-th makes of a state, f[i] the state after it.
Closed(n, S, round) == \A i \in 1..n : \A s \in S : round[i][s] \in S

Loop(n, S, first, round, f) ==
  /\ f \in [0..n -> S]
  /\ f[0] = first
  /\ \A i \in 1..n : f[i] = round[i][f[i - 1]]

LEMMA Rounds ==
  ASSUME NEW n \in Nat, NEW S, NEW first \in S, NEW round,
         Closed(n, S, round)
  PROVE  \E f : Loop(n, S, first, round, f)
<1> DEFINE Run(m, f) == Loop(m, S, first, round, f)
           T == {m \in 0..n : \E f : Run(m, f)}
<1>1. 0 \in T
  <2>1. Run(0, [i \in 0..0 |-> first])
    BY DEF Loop
  <2> HIDE DEF Run
  <2>2. \E f : Run(0, f)
    BY <2>1
  <2> QED
    BY <2>2
<1>2. ASSUME NEW m \in 1..n, m - 1 \in T PROVE m \in T
  <2>1. PICK f : Run(m - 1, f)
    BY <1>2
  <2> DEFINE g == [i \in 0..m |-> IF i = m THEN round[m][f[m - 1]] ELSE f[i]]
  <2>2. f[m - 1] \in S
    BY <2>1 DEF Loop
  <2>3. round[m][f[m - 1]] \in S
    BY <2>2 DEF Closed
  <2>4. g \in [0..m -> S]
    BY <2>1, <2>3 DEF Loop
  <2>5. g[0] = first
    BY <2>1 DEF Loop
  <2>6. ASSUME NEW i \in 1..m PROVE g[i] = round[i][g[i - 1]]
    <3>1. CASE i = m
      BY <3>1
    <3>2. CASE i # m
      <4>1. i \in 1..(m - 1) /\ i - 1 \in 0..m /\ i - 1 # m
        BY <3>2
      <4>2. g[i] = f[i] /\ g[i - 1] = f[i - 1]
        BY <3>2, <4>1
      <4> QED
        BY <2>1, <4>1, <4>2 DEF Loop
    <3> QED
      BY <3>1, <3>2
  <2>7. Run(m, g)
    BY <2>4, <2>5, <2>6 DEF Loop
  <2> HIDE DEF Run, g
  <2>8. \E h : Run(m, h)
    BY <2>7
  <2> QED
    BY <2>8
<1>3. n \in T
  <2> HIDE DEF T
  <2>1. 0..n \subseteq T
    BY <1>1, <1>2, RoundsInduction
  <2> QED
    BY <2>1
<1> QED
  BY <1>3

\* Extending a text leaves its parts where they are.
LEMMA FirstPartOf ==
  ASSUME NEW C, NEW src \in Seq(C), NEW more \in Seq(C),
         NEW i \in Nat, NEW j \in Nat, i <= j, j <= Len(src)
  PROVE  SubSeq(src \o more, i + 1, j) = SubSeq(src, i + 1, j)
<1> DEFINE both == src \o more
<1>1. /\ both \in Seq(C) /\ j <= Len(both) /\ Len(src) \in Nat
      /\ \A k \in 1..Len(src) : both[k] = src[k]
  OBVIOUS
<1> HIDE DEF both
<1>2. SubSeq(src, i + 1, j) = [k \in 1..(j - i) |-> src[i + k]]
  BY <1>1
<1>3. SubSeq(both, i + 1, j) = [k \in 1..(j - i) |-> both[i + k]]
  BY <1>1
<1>4. \A k \in 1..(j - i) : both[i + k] = src[i + k]
  BY <1>1
<1>5. SubSeq(both, i + 1, j) = SubSeq(src, i + 1, j)
  BY <1>2, <1>3, <1>4
<1> QED
  BY <1>5 DEF both

LEMMA LastPartOf ==
  ASSUME NEW C, NEW src \in Seq(C), NEW more \in Seq(C)
  PROVE  SubSeq(src \o more, Len(src) + 1, Len(src) + Len(more)) = more
<1> DEFINE both == src \o more
<1>1. /\ both \in Seq(C) /\ Len(both) = Len(src) + Len(more)
      /\ Len(src) \in Nat /\ Len(more) \in Nat
      /\ \A k \in 1..Len(more) : both[Len(src) + k] = more[k]
  OBVIOUS
<1> HIDE DEF both
<1>2. SubSeq(both, Len(src) + 1, Len(src) + Len(more))
        = [k \in 1..Len(more) |-> both[Len(src) + k]]
  BY <1>1
<1>3. more = [k \in 1..Len(more) |-> more[k]]
  OBVIOUS
<1>4. SubSeq(both, Len(src) + 1, Len(src) + Len(more)) = more
  BY <1>1, <1>2, <1>3
<1> QED
  BY <1>4 DEF both

\* out is piece[1], ..., piece[n] in a row.
Joins(out, n, piece) ==
  \E at \in [0..n -> 0..Len(out)] :
    /\ at[0] = 0 /\ at[n] = Len(out)
    /\ \A i \in 1..n :
         at[i - 1] <= at[i] /\ SubSeq(out, at[i - 1] + 1, at[i]) = piece[i]

\* What a loop that appends a piece in every round makes.
LEMMA LoopJoins ==
  ASSUME NEW C, NEW n \in Nat, NEW f, NEW piece,
         \A i \in 0..n : f[i] \in Seq(C),
         \A i \in 1..n : piece[i] \in Seq(C) /\ f[i] = f[i - 1] \o piece[i],
         f[0] = <<>>
  PROVE  Joins(f[n], n, piece)
<1> DEFINE T == {m \in 0..n : Joins(f[m], m, piece)}
<1>1. 0 \in T
  <2> DEFINE at == [i \in 0..0 |-> 0]
  <2>1. Len(f[0]) = 0
    OBVIOUS
  <2>2. at \in [0..0 -> 0..Len(f[0])] /\ at[0] = 0
    BY <2>1
  <2>3. 1..0 = {}
    OBVIOUS
  <2> HIDE DEF at
  <2>4. Joins(f[0], 0, piece)
    BY <2>1, <2>2, <2>3 DEF Joins
  <2> QED
    BY <2>4
<1>2. ASSUME NEW m \in 1..n, m - 1 \in T PROVE m \in T
  <2> DEFINE d == f[m - 1]
             p == piece[m]
             out == f[m]
  <2>1. m \in Nat /\ m - 1 \in 0..n /\ m \in 0..n /\ m - 1 \in Nat
    OBVIOUS
  <2>2. d \in Seq(C) /\ p \in Seq(C) /\ out = d \o p
    BY <2>1
  <2>3. Joins(d, m - 1, piece)
    BY <1>2
  <2> HIDE DEF d, p, out
  <2>4. PICK at \in [0..(m - 1) -> 0..Len(d)] :
          /\ at[0] = 0 /\ at[m - 1] = Len(d)
          /\ \A i \in 1..(m - 1) :
               at[i - 1] <= at[i] /\ SubSeq(d, at[i - 1] + 1, at[i]) = piece[i]
    BY <2>3 DEF Joins
  <2>5. Len(out) = Len(d) + Len(p) /\ Len(d) \in Nat /\ Len(p) \in Nat
    BY <2>2
  <2> DEFINE new == [i \in 0..m |-> IF i = m THEN Len(out) ELSE at[i]]
  <2>6. new \in [0..m -> 0..Len(out)] /\ new[0] = 0 /\ new[m] = Len(out)
    BY <2>1, <2>4, <2>5
  <2>7. \A i \in 1..m : new[i - 1] = at[i - 1] /\ new[i] = IF i = m THEN Len(out) ELSE at[i]
    BY <2>1
  <2> HIDE DEF new
  <2>8. ASSUME NEW i \in 1..m
        PROVE  new[i - 1] <= new[i] /\ SubSeq(out, new[i - 1] + 1, new[i]) = piece[i]
    <3>1. CASE i = m
      <4>1. new[i - 1] = Len(d) /\ new[i] = Len(d) + Len(p)
        BY <2>4, <2>5, <2>7, <3>1
      <4>2. SubSeq(d \o p, Len(d) + 1, Len(d) + Len(p)) = p
        BY <2>2, LastPartOf
      <4>3. SubSeq(out, new[i - 1] + 1, new[i]) = p
        BY <2>2, <4>1, <4>2
      <4> QED
        BY <2>5, <3>1, <4>1, <4>3 DEF p
    <3>2. CASE i # m
      <4>1. i \in 1..(m - 1) /\ i - 1 \in 0..(m - 1) /\ i \in 0..(m - 1)
        BY <2>1, <3>2
      <4>2. new[i - 1] = at[i - 1] /\ new[i] = at[i]
        BY <2>7, <3>2
      <4>3. /\ at[i - 1] \in 0..Len(d) /\ at[i] \in 0..Len(d) /\ at[i - 1] <= at[i]
            /\ SubSeq(d, at[i - 1] + 1, at[i]) = piece[i]
        BY <2>4, <4>1
      <4>4. at[i - 1] \in Nat /\ at[i] \in Nat /\ at[i] <= Len(d)
        BY <2>5, <4>3
      <4>5. SubSeq(d \o p, at[i - 1] + 1, at[i]) = SubSeq(d, at[i - 1] + 1, at[i])
        <5> DEFINE a == at[i - 1]
                   e == at[i]
        <5>1. a \in Nat /\ e \in Nat /\ a <= e /\ e <= Len(d)
          BY <4>3, <4>4
        <5> HIDE DEF a, e
        <5>2. SubSeq(d \o p, a + 1, e) = SubSeq(d, a + 1, e)
          BY <2>2, <5>1, FirstPartOf
        <5> QED
          BY <5>2 DEF a, e
      <4> QED
        BY <2>2, <4>2, <4>3, <4>5
    <3> QED
      BY <3>1, <3>2
  <2>9. Joins(out, m, piece)
    BY <2>6, <2>8 DEF Joins
  <2> QED
    BY <2>1, <2>9 DEF out
<1>3. n \in T
  <2> HIDE DEF T
  <2>1. 0..n \subseteq T
    BY <1>1, <1>2, RoundsInduction
  <2> QED
    BY <2>1
<1> QED
  BY <1>3

\* What a C string is made of.
Chars == 1..255

-----------------------------------------------------------------------------
(* html_escape.                                                            *)

Markup == {LT, GT, QUOT, APOS}

LEMMA EntityIs ==
  ASSUME NEW c \in Chars
  PROVE  /\ Entity(c) \in Seq(Chars \ Markup)
         /\ Len(Entity(c)) <= 6
<1> USE DEF Chars, Markup, LT, GT, AMP, QUOT, APOS, SEMICOLON
<1>1. CASE c = LT
  <2>1. Entity(c) = <<AMP, 108, 116, SEMICOLON>>
    BY <1>1 DEF Entity
  <2> QED
    BY <2>1
<1>2. CASE c = GT
  <2>1. Entity(c) = <<AMP, 103, 116, SEMICOLON>>
    BY <1>2 DEF Entity
  <2> QED
    BY <2>1
<1>3. CASE c = AMP
  <2>1. Entity(c) = <<AMP, 97, 109, 112, SEMICOLON>>
    BY <1>3 DEF Entity
  <2> QED
    BY <2>1
<1>4. CASE c = QUOT
  <2>1. Entity(c) = <<AMP, 113, 117, 111, 116, SEMICOLON>>
    BY <1>4 DEF Entity
  <2> QED
    BY <2>1
<1>5. CASE c = APOS
  <2>1. Entity(c) = <<AMP, 35, 51, 57, SEMICOLON>>
    BY <1>5 DEF Entity
  <2> QED
    BY <2>1
<1>6. CASE c \notin {LT, GT, AMP, QUOT, APOS}
  <2>1. Entity(c) = <<c>>
    BY <1>6 DEF Entity
  <2> QED
    BY <1>6, <2>1
<1> QED
  BY <1>1, <1>2, <1>3, <1>4, <1>5, <1>6

LEMMA EscapeRoundTyped ==
  ASSUME NEW d \in Seq(Chars \ Markup), NEW c \in Chars, NEW max \in Nat
  PROVE  EscapeRound(d, c, max) \in Seq(Chars \ Markup)
BY EntityIs DEF EscapeRound

\* The loop, as a function of the number of rounds.
EscapeRun(src, max, f) ==
  /\ f \in [0..Len(src) -> Seq(Chars \ Markup)]
  /\ f[0] = <<>>
  /\ \A i \in 1..Len(src) : f[i] = EscapeRound(f[i - 1], src[i], max)
  /\ html_escape(src, max) = f[Len(src)]

LEMMA EscapeRuns ==
  ASSUME NEW src \in Seq(Chars), NEW max \in Nat
  PROVE  \E f : EscapeRun(src, max, f)
<1> DEFINE n == Len(src)
           S == Seq(Chars \ Markup)
           round == [i \in 1..n |-> [d \in S |-> EscapeRound(d, src[i], max)]]
           Body(f) == [i \in 0..n |->
                         IF i = 0 THEN <<>> ELSE EscapeRound(f[i - 1], src[i], max)]
           Dest == CHOOSE f : f = Body(f)
<1>1. n \in Nat /\ <<>> \in S
  OBVIOUS
<1>2. Closed(n, S, round)
  <2>1. \A i \in 1..n : src[i] \in Chars
    OBVIOUS
  <2>2. ASSUME NEW i \in 1..n, NEW d \in S PROVE EscapeRound(d, src[i], max) \in S
    BY <2>1, EscapeRoundTyped
  <2> HIDE DEF S, n
  <2> QED
    BY <2>2 DEF Closed
<1>3. PICK f : Loop(n, S, <<>>, round, f)
  <2> HIDE DEF round, S, n
  <2> QED
    BY <1>1, <1>2, Rounds
<1>4. f \in [0..n -> S] /\ f[0] = <<>> /\ \A i \in 1..n : f[i] = round[i][f[i - 1]]
  BY <1>3 DEF Loop
<1>5. f = Body(f)
  <2>1. ASSUME NEW i \in 1..n PROVE f[i] = EscapeRound(f[i - 1], src[i], max)
    <3>1. f[i - 1] \in S
      <4> HIDE DEF S
      <4> QED
        BY <1>1, <1>4
    <3>2. f[i] = round[i][f[i - 1]]
      BY <1>4
    <3> QED
      BY <3>1, <3>2
  <2> HIDE DEF S
  <2> QED
    BY <1>1, <1>4, <2>1
<1>6. Dest = Body(Dest)
  <2> HIDE DEF Body
  <2> QED
    BY <1>5
<1>7. html_escape(src, max) = Dest[n]
  BY DEF html_escape
<1>8. Dest[0] = <<>> /\ \A i \in 1..n : Dest[i] = EscapeRound(Dest[i - 1], src[i], max)
  <2> HIDE DEF Dest
  <2> QED
    BY <1>1, <1>6
<1> HIDE DEF Dest
<1>9. \A i \in 0..n : Dest[i] \in S
  <2> DEFINE T == {i \in 0..n : Dest[i] \in S}
  <2>1. 0 \in T
    <3>1. Dest[0] \in S
      BY <1>1, <1>8
    <3> QED
      BY <1>1, <3>1
  <2>2. ASSUME NEW i \in 1..n, i - 1 \in T PROVE i \in T
    <3>1. Dest[i - 1] \in S /\ src[i] \in Chars
      BY <2>2
    <3>2. Dest[i] \in S
      BY <1>8, <3>1, EscapeRoundTyped
    <3> QED
      BY <3>2
  <2>3. 0..n \subseteq T
    <3> HIDE DEF T
    <3> QED
      BY <1>1, <2>1, <2>2, RoundsInduction
  <2> QED
    BY <2>3
<1>10. Dest \in [0..n -> S]
  <2>1. Dest = [i \in 0..n |-> Dest[i]]
    BY <1>6
  <2> QED
    BY <2>1, <1>9
<1>11. EscapeRun(src, max, Dest)
  BY <1>7, <1>8, <1>10 DEF EscapeRun
<1> QED
  BY <1>11

LEMMA EscapeRoundFits ==
  ASSUME NEW d \in Seq(Chars \ Markup), NEW c \in Chars, NEW max \in Nat, Len(d) < max
  PROVE  Len(EscapeRound(d, c, max)) < max
<1>1. Entity(c) \in Seq(Chars \ Markup) /\ Len(Entity(c)) <= 6
  BY EntityIs
<1>2. Len(d \o Entity(c)) = Len(d) + Len(Entity(c))
  BY <1>1
<1> QED
  BY <1>1, <1>2 DEF EscapeRound, Room

\* html_escape never writes past its buffer, and what it writes has no
\* character that HTML would take for markup, for every text and every buffer
\* (the room it keeps for the longest entity, http_utils.c:289).
THEOREM EscapedFits ==
  ASSUME NEW src \in Seq(Chars), NEW max \in Nat \ {0}
  PROVE  /\ html_escape(src, max) \in Seq(Chars)
         /\ Len(html_escape(src, max)) < max
         /\ \A i \in DOMAIN html_escape(src, max) :
              html_escape(src, max)[i] \notin {LT, GT, QUOT, APOS}
<1>1. PICK f : EscapeRun(src, max, f)
  BY EscapeRuns
<1> DEFINE n == Len(src)
           out == html_escape(src, max)
           T == {i \in 0..n : Len(f[i]) < max}
<1>2. n \in Nat /\ \A i \in 1..n : src[i] \in Chars
  OBVIOUS
<1>3. 0 \in T
  BY <1>1 DEF EscapeRun
<1>4. ASSUME NEW i \in 1..n, i - 1 \in T PROVE i \in T
  <2>1. f[i - 1] \in Seq(Chars \ Markup) /\ Len(f[i - 1]) < max
    BY <1>1, <1>4 DEF EscapeRun
  <2>2. f[i] = EscapeRound(f[i - 1], src[i], max)
    BY <1>1 DEF EscapeRun
  <2>3. Len(f[i]) < max
    BY <1>2, <2>1, <2>2, EscapeRoundFits
  <2> QED
    BY <2>3
<1>5. n \in T
  <2> HIDE DEF T, n
  <2>1. 0..n \subseteq T
    BY <1>2, <1>3, <1>4, RoundsInduction
  <2> QED
    BY <1>2, <2>1
<1>6. out \in Seq(Chars \ Markup) /\ Len(out) < max
  BY <1>1, <1>5 DEF EscapeRun
<1> HIDE DEF out
<1>7. \A i \in DOMAIN out : out[i] \in Chars \ Markup
  BY <1>6
<1>8. out \in Seq(Chars)
  BY <1>6
<1> QED
  BY <1>6, <1>7, <1>8 DEF out, Markup

\* html_escape writes the entities of the first n characters in a row and cuts none:
\* n is the length of the text unless the buffer has no room left, and its result
\* is that of the first n characters in any larger buffer.
THEOREM EscapedWhole ==
  ASSUME NEW src \in Seq(Chars), NEW max \in Nat
  PROVE  \E n \in 0..Len(src) :
           /\ n = Len(src) \/ ~Room(Len(html_escape(src, max)), max)
           /\ Joins(html_escape(src, max), n, [i \in 1..n |-> Entity(src[i])])
           /\ \A m \in Nat :
                m >= max => html_escape(SubSeq(src, 1, n), m) = html_escape(src, max)
<1>1. PICK f : EscapeRun(src, max, f)
  BY EscapeRuns
<1> DEFINE L == Len(src)
           D == {i \in 0..L : i = L \/ ~Room(Len(f[i]), max)}
<1>2. L \in Nat /\ \A i \in 1..L : src[i] \in Chars
  OBVIOUS
<1>3. PICK n \in D : \A i \in D : n <= i
  <2>1. D \in SUBSET Nat /\ L \in D
    BY <1>2
  <2> HIDE DEF D
  <2> QED
    BY <2>1, LeastExists
<1>4. n \in 0..L /\ (n = L \/ ~Room(Len(f[n]), max))
  OBVIOUS
<1>5. \A i \in 0..(n - 1) : Room(Len(f[i]), max)
  BY <1>2, <1>3, <1>4
<1> HIDE DEF D
<1>6. f[L] = f[n]
  <2> DEFINE T == {i \in 0..L : i >= n => f[i] = f[n]}
  <2>1. 0 \in T
    BY <1>2, <1>4
  <2>2. ASSUME NEW i \in 1..L, i - 1 \in T PROVE i \in T
    <3>1. CASE i <= n
      BY <3>1, <1>4
    <3>2. CASE i > n
      <4>1. f[i - 1] = f[n] /\ n # L
        BY <2>2, <3>2, <1>4, <1>2
      <4>2. f[i] = EscapeRound(f[i - 1], src[i], max)
        BY <1>1 DEF EscapeRun
      <4>3. f[i] = f[n]
        BY <4>1, <4>2, <1>4 DEF EscapeRound
      <4> QED
        BY <4>3
    <3> QED
      BY <3>1, <3>2, <1>4
  <2> HIDE DEF T
  <2>3. 0..L \subseteq T
    BY <1>2, <2>1, <2>2, RoundsInduction
  <2>4. L \in T /\ L >= n
    BY <1>2, <1>4, <2>3
  <2> QED
    BY <2>4 DEF T
<1>7. html_escape(src, max) = f[n]
  BY <1>1, <1>6 DEF EscapeRun
<1>8. ASSUME NEW m \in Nat, m >= max
      PROVE  html_escape(SubSeq(src, 1, n), m) = f[n]
  <2> DEFINE part == SubSeq(src, 1, n)
  <2>1. part \in Seq(Chars) /\ Len(part) = n /\ \A i \in 1..n : part[i] = src[i]
    BY <1>2, <1>4
  <2> HIDE DEF part
  <2>2. PICK g : EscapeRun(part, m, g)
    BY <2>1, EscapeRuns
  <2> DEFINE T == {i \in 0..n : g[i] = f[i]}
  <2>3. 0 \in T
    BY <1>1, <1>4, <2>2 DEF EscapeRun
  <2>4. ASSUME NEW i \in 1..n, i - 1 \in T PROVE i \in T
    <3>1. g[i - 1] = f[i - 1] /\ i \in 1..L /\ i - 1 \in 0..L
      BY <1>2, <1>4, <2>4
    <3>2. f[i] = EscapeRound(f[i - 1], src[i], max)
      BY <1>1, <3>1 DEF EscapeRun
    <3>3. g[i] = EscapeRound(f[i - 1], src[i], m)
      BY <2>1, <2>2, <3>1 DEF EscapeRun
    <3>4. Room(Len(f[i - 1]), max)
      BY <1>4, <1>5
    <3>5. f[i - 1] \in Seq(Chars \ Markup)
      BY <1>1, <3>1 DEF EscapeRun
    <3>6. Room(Len(f[i - 1]), m)
      BY <1>8, <3>4, <3>5 DEF Room
    <3>7. g[i] = f[i]
      BY <3>2, <3>3, <3>4, <3>6 DEF EscapeRound
    <3> QED
      BY <3>7
  <2> HIDE DEF T
  <2> n \in Nat
    BY <1>2, <1>4
  <2>5. 0..n \subseteq T
    BY <2>3, <2>4, RoundsInduction
  <2>6. n \in T
    BY <1>4, <2>5
  <2>7. html_escape(part, m) = g[n]
    BY <2>1, <2>2 DEF EscapeRun
  <2> QED
    BY <2>6, <2>7 DEF T, part
<1>9. Joins(f[n], n, [i \in 1..n |-> Entity(src[i])])
  <2> DEFINE S == Chars \ Markup
             piece == [i \in 1..n |-> Entity(src[i])]
  <2>1. n \in Nat /\ (\A i \in 0..n : f[i] \in Seq(S)) /\ f[0] = <<>>
    <3>1. n \in Nat /\ 0..n \subseteq 0..L
      BY <1>2, <1>4
    <3>2. \A i \in 0..L : f[i] \in Seq(S)
      BY <1>1 DEF EscapeRun
    <3>3. f[0] = <<>>
      BY <1>1 DEF EscapeRun
    <3> HIDE DEF S, L
    <3> QED
      BY <3>1, <3>2, <3>3
  <2>2. ASSUME NEW i \in 1..n PROVE piece[i] \in Seq(S) /\ f[i] = f[i - 1] \o piece[i]
    <3>1. i \in 1..L /\ i - 1 \in 0..(n - 1) /\ piece[i] = Entity(src[i])
      BY <1>2, <1>4
    <3>2. f[i] = EscapeRound(f[i - 1], src[i], max)
      BY <1>1, <3>1 DEF EscapeRun
    <3>3. f[i] = f[i - 1] \o Entity(src[i])
      BY <1>5, <3>1, <3>2 DEF EscapeRound
    <3> QED
      BY <1>2, <3>1, <3>3, EntityIs
  <2> HIDE DEF piece, S
  <2>3. Joins(f[n], n, piece)
    BY <2>1, <2>2, LoopJoins
  <2> QED
    BY <2>3 DEF piece
<1> QED
  BY <1>4, <1>7, <1>8, <1>9

-----------------------------------------------------------------------------
(* url_decode.                                                             *)

LEMMA HexDigit16 ==
  ASSUME NEW c \in xdigits
  PROVE  hex_val(c) \in 0..15
<1> USE DEF Digits
<1>1. CASE c \in 48..57
  <2>1. hex_val(c) = c - 48
    BY <1>1 DEF hex_val
  <2> QED
    BY <1>1, <2>1
<1>2. CASE c \in 97..102
  <2>1. hex_val(c) = c - 87
    BY <1>2 DEF hex_val
  <2> QED
    BY <1>2, <2>1
<1>3. CASE c \in 65..70
  <2>1. hex_val(c) = c - 55
    BY <1>3 DEF hex_val
  <2> QED
    BY <1>3, <2>1
<1> QED
  BY <1>1, <1>2, <1>3 DEF xdigits

LEMMA FromIs ==
  ASSUME NEW src \in Seq(Chars), NEW n \in 0..Len(src)
  PROVE  /\ From(src, n + 1) \in Seq(Chars)
         /\ Len(From(src, n + 1)) = Len(src) - n
         /\ \A i \in 1..(Len(src) - n) : From(src, n + 1)[i] = src[n + i]
BY DEF From

LEMMA FromEnd ==
  ASSUME NEW src \in Seq(Chars)
  PROVE  From(src, Len(src) + 1) = <<>>
<1> DEFINE s == From(src, Len(src) + 1)
<1>1. Len(src) \in 0..Len(src) /\ Len(src) - Len(src) = 0
  OBVIOUS
<1>2. s \in Seq(Chars) /\ Len(s) = 0
  BY <1>1, FromIs
<1> HIDE DEF s
<1>3. s = <<>>
  BY <1>2
<1> QED
  BY <1>3 DEF s

\* The states of the loop: dest leaves room for the NUL.
Decoding(src, max) ==
  {loop \in [read : 0..Len(src), dest : Seq(Chars)] : Len(loop.dest) < max}

\* The loop has come to its end.
Decoded(src, max, loop) ==
  Stops(From(src, loop.read + 1)) \/ FieldFull(loop.dest, max)

LEMMA AppendIs ==
  ASSUME NEW d \in Seq(Chars), NEW c \in Chars
  PROVE  Append(d, c) \in Seq(Chars) /\ Len(Append(d, c)) = Len(d) + 1
OBVIOUS

\* A round stays within the text and the buffer, and reads on or is the last.
LEMMA DecodeRoundIs ==
  ASSUME NEW src \in Seq(Chars), NEW max \in Nat \ {0},
         NEW loop \in Decoding(src, max)
  PROVE  /\ DecodeRound(src, loop, max) \in Decoding(src, max)
         /\ \/ DecodeRound(src, loop, max).read > loop.read
            \/ DecodeRound(src, loop, max) = loop /\ Decoded(src, max, loop)
<1> DEFINE s == From(src, loop.read + 1)
           next == DecodeRound(src, loop, max)
           Read(n, c) == [read |-> loop.read + n, dest |-> Append(loop.dest, c)]
<1>1. /\ loop \in [read : 0..Len(src), dest : Seq(Chars)]
      /\ loop.read \in 0..Len(src) /\ loop.dest \in Seq(Chars) /\ Len(loop.dest) < max
  BY DEF Decoding
<1>2. s \in Seq(Chars) /\ Len(s) = Len(src) - loop.read
  BY <1>1, FromIs
<1> HIDE DEF s
<1>3. CASE Decoded(src, max, loop)
  <2>1. next = loop
    BY <1>3 DEF DecodeRound, Decoded, s
  <2> QED
    BY <1>3, <2>1
<1>4. ASSUME ~FieldFull(loop.dest, max), NEW n \in 1..Len(s), NEW c \in Chars,
             next = Read(n, c)
      PROVE  next \in Decoding(src, max) /\ next.read > loop.read
  <2>1. Append(loop.dest, c) \in Seq(Chars) /\ Len(Append(loop.dest, c)) < max
    BY <1>1, <1>4, AppendIs DEF FieldFull
  <2>2. loop.read + n \in 0..Len(src) /\ loop.read + n > loop.read
    BY <1>1, <1>2
  <2>3. next.read = loop.read + n /\ next.dest = Append(loop.dest, c)
    BY <1>4
  <2>4. next \in [read : 0..Len(src), dest : Seq(Chars)]
    BY <1>4, <2>1, <2>2
  <2> HIDE DEF next
  <2> QED
    BY <2>1, <2>2, <2>3, <2>4 DEF Decoding
<1>5. CASE ~Decoded(src, max, loop) /\ Escaped(s)
  <2>1. next = Read(3, UnescapedByte(s))
    BY <1>5 DEF DecodeRound, Decoded, s
  <2>2. Len(s) >= 3 /\ s[2] \in xdigits /\ s[3] \in xdigits
    BY <1>5 DEF Escaped
  <2>3. hex_val(s[2]) \in 0..15 /\ hex_val(s[3]) \in 0..15
    BY <2>2, HexDigit16
  <2>4. UnescapedByte(s) # NUL
    BY <1>5 DEF Decoded, Stops, s
  <2>5. UnescapedByte(s) \in Chars
    <3> DEFINE a == hex_val(s[2])
               b == hex_val(s[3])
    <3>1. a \in 0..15 /\ b \in 0..15 /\ UnescapedByte(s) = 16 * a + b
      BY <2>3 DEF UnescapedByte
    <3> HIDE DEF a, b
    <3>2. UnescapedByte(s) \in 0..255
      BY <3>1
    <3> QED
      BY <3>2, <2>4 DEF NUL, Chars
  <2>6. ~FieldFull(loop.dest, max) /\ 3 \in 1..Len(s)
    BY <1>2, <1>5, <2>2 DEF Decoded
  <2> HIDE DEF next, Read
  <2>7. next \in Decoding(src, max) /\ next.read > loop.read
    BY <1>4, <2>1, <2>5, <2>6
  <2> QED
    BY <2>7 DEF next
<1>6. CASE ~Decoded(src, max, loop) /\ ~Escaped(s)
  <2> DEFINE c == IF Head(s) = PLUS THEN SPACE ELSE Head(s)
  <2>1. next = Read(1, c)
    BY <1>6 DEF DecodeRound, Decoded, s
  <2>2. s # <<>>
    BY <1>6 DEF Decoded, Stops, s
  <2>3. 1 \in 1..Len(s) /\ Head(s) \in Chars
    BY <1>2, <2>2
  <2>4. c \in Chars
    BY <2>3 DEF SPACE, Chars
  <2>5. ~FieldFull(loop.dest, max)
    BY <1>6 DEF Decoded
  <2> HIDE DEF next, Read, c
  <2>6. next \in Decoding(src, max) /\ next.read > loop.read
    BY <1>4, <2>1, <2>3, <2>4, <2>5
  <2> QED
    BY <2>6 DEF next
<1> QED
  BY <1>3, <1>5, <1>6

\* The loop, as a function of the number of rounds.
DecodeRun(src, max, f) ==
  /\ f \in [0..Len(src) -> Decoding(src, max)]
  /\ f[0] = [read |-> 0, dest |-> <<>>]
  /\ \A i \in 1..Len(src) : f[i] = DecodeRound(src, f[i - 1], max)
  /\ url_decode(src, max) = f[Len(src)].dest

LEMMA DecodeRuns ==
  ASSUME NEW src \in Seq(Chars), NEW max \in Nat \ {0}
  PROVE  \E f : DecodeRun(src, max, f)
<1> DEFINE n == Len(src)
           S == Decoding(src, max)
           first == [read |-> 0, dest |-> <<>>]
           round == [i \in 1..n |-> [s \in S |-> DecodeRound(src, s, max)]]
           Body(f) == [i \in 0..n |->
                         IF i = 0 THEN first ELSE DecodeRound(src, f[i - 1], max)]
           Run == CHOOSE f : f = Body(f)
<1>1. n \in Nat
  OBVIOUS
<1>2. first \in S
  <2>1. first \in [read : 0..Len(src), dest : Seq(Chars)] /\ first.dest = <<>>
    OBVIOUS
  <2> QED
    BY <2>1 DEF Decoding
<1>3. \A s \in S : DecodeRound(src, s, max) \in S
  BY DecodeRoundIs
<1>4. Closed(n, S, round)
  <2> HIDE DEF S, n
  <2> QED
    BY <1>3 DEF Closed
<1>5. PICK f : Loop(n, S, first, round, f)
  <2> HIDE DEF round, S, n, first
  <2> QED
    BY <1>1, <1>2, <1>4, Rounds
<1>6. f \in [0..n -> S] /\ f[0] = first /\ \A i \in 1..n : f[i] = round[i][f[i - 1]]
  BY <1>5 DEF Loop
<1> HIDE DEF S, first
<1>7. f = Body(f)
  <2>1. ASSUME NEW i \in 1..n PROVE f[i] = DecodeRound(src, f[i - 1], max)
    <3>1. f[i - 1] \in S
      BY <1>1, <1>6
    <3>2. f[i] = round[i][f[i - 1]]
      BY <1>6
    <3> QED
      BY <3>1, <3>2
  <2> QED
    BY <1>1, <1>6, <2>1
<1>8. Run = Body(Run)
  <2> HIDE DEF Body
  <2> QED
    BY <1>7
<1>9. url_decode(src, max) = Run[n].dest
  BY DEF url_decode, first
<1>10. Run[0] = first /\ \A i \in 1..n : Run[i] = DecodeRound(src, Run[i - 1], max)
  <2> HIDE DEF Run
  <2> QED
    BY <1>1, <1>8
<1> HIDE DEF Run
<1>11. \A i \in 0..n : Run[i] \in S
  <2> DEFINE T == {i \in 0..n : Run[i] \in S}
  <2>1. 0 \in T
    BY <1>1, <1>2, <1>10
  <2>2. ASSUME NEW i \in 1..n, i - 1 \in T PROVE i \in T
    BY <2>2, <1>3, <1>10
  <2>3. 0..n \subseteq T
    <3> HIDE DEF T
    <3> QED
      BY <1>1, <2>1, <2>2, RoundsInduction
  <2> QED
    BY <2>3
<1>12. Run \in [0..n -> S]
  <2>1. Run = [i \in 0..n |-> Run[i]]
    BY <1>8
  <2> QED
    BY <2>1, <1>11
<1>13. DecodeRun(src, max, Run)
  BY <1>9, <1>10, <1>12 DEF DecodeRun, S, first
<1> QED
  BY <1>13

\* The loop ends: k rounds read on, and nothing changes after them.
LEMMA DecodeEnds ==
  ASSUME NEW src \in Seq(Chars), NEW max \in Nat \ {0}, NEW f, DecodeRun(src, max, f)
  PROVE  \E k \in 0..Len(src) :
           /\ Decoded(src, max, f[k])
           /\ \A i \in 0..(k - 1) : ~Decoded(src, max, f[i])
           /\ \A i \in 0..k : i <= f[i].read /\ f[i].read <= f[k].read
           /\ f[Len(src)] = f[k]
<1> DEFINE L == Len(src)
           D == {i \in 0..L : i = L \/ Decoded(src, max, f[i])}
<1>1. L \in Nat
  OBVIOUS
<1>2. \A i \in 0..L : f[i] \in Decoding(src, max) /\ f[i].read \in 0..L
  BY DEF DecodeRun, Decoding
<1>3. \A i \in 1..L : f[i] = DecodeRound(src, f[i - 1], max)
  BY DEF DecodeRun
<1>4. f[0].read = 0
  BY DEF DecodeRun
<1>5. PICK k \in D : \A i \in D : k <= i
  <2>1. D \in SUBSET Nat /\ L \in D
    BY <1>1
  <2> HIDE DEF D
  <2> QED
    BY <2>1, LeastExists
<1>6. k \in 0..L /\ k \in Nat /\ (k = L \/ Decoded(src, max, f[k]))
  BY <1>1
<1>7. \A i \in 0..(k - 1) : ~Decoded(src, max, f[i])
  BY <1>1, <1>5, <1>6
<1> HIDE DEF D, L
<1>8. ASSUME NEW i \in 1..k PROVE f[i].read > f[i - 1].read
  <2>1. i \in 1..L /\ i - 1 \in 0..L /\ i - 1 \in 0..(k - 1)
    BY <1>1, <1>6
  <2>2. f[i - 1] \in Decoding(src, max) /\ ~Decoded(src, max, f[i - 1])
    BY <1>2, <1>7, <2>1
  <2>3. f[i] = DecodeRound(src, f[i - 1], max)
    BY <1>3, <2>1
  <2> QED
    BY <2>2, <2>3, DecodeRoundIs
<1>9. \A i \in 0..k : i <= f[i].read
  <2> DEFINE T == {i \in 0..k : i <= f[i].read}
  <2>1. 0 \in T
    BY <1>4, <1>6
  <2>2. ASSUME NEW i \in 1..k, i - 1 \in T PROVE i \in T
    <3>1. f[i].read \in Nat /\ f[i - 1].read \in Nat
      BY <1>1, <1>2, <1>6
    <3>2. i - 1 <= f[i - 1].read
      BY <2>2
    <3> QED
      BY <1>8, <3>1, <3>2
  <2>3. 0..k \subseteq T
    <3> HIDE DEF T
    <3> QED
      BY <1>6, <2>1, <2>2, RoundsInduction
  <2> QED
    BY <2>3
<1>10. \A i \in 0..k : f[i].read <= f[k].read
  <2> DEFINE T == {i \in 0..k : \A j \in 0..i : f[j].read <= f[i].read}
  <2>1. 0 \in T
    BY <1>4, <1>6
  <2>2. ASSUME NEW i \in 1..k, i - 1 \in T PROVE i \in T
    <3>1. ASSUME NEW j \in 0..i PROVE f[j].read <= f[i].read
      <4>1. f[i].read \in Nat /\ f[i - 1].read \in Nat /\ f[j].read \in Nat
        BY <1>1, <1>2, <1>6
      <4>2. CASE j = i
        BY <4>1, <4>2
      <4>3. CASE j \in 0..(i - 1)
        <5>1. f[j].read <= f[i - 1].read
          BY <2>2, <4>3
        <5> QED
          BY <1>8, <4>1, <5>1
      <4> QED
        BY <4>2, <4>3
    <3> QED
      BY <3>1
  <2>3. 0..k \subseteq T
    <3> HIDE DEF T
    <3> QED
      BY <1>6, <2>1, <2>2, RoundsInduction
  <2> QED
    BY <1>6, <2>3
<1>11. Decoded(src, max, f[k])
  <2>1. CASE k = L
    <3>1. f[k].read = L
      BY <1>1, <1>2, <1>6, <1>9, <2>1
    <3>2. From(src, L + 1) = <<>>
      BY FromEnd DEF L
    <3> QED
      BY <3>1, <3>2 DEF Decoded, Stops
  <2> QED
    BY <1>6, <2>1
<1>12. f[L] = f[k]
  <2> DEFINE T == {i \in 0..L : i >= k => f[i] = f[k]}
  <2>1. 0 \in T
    BY <1>1, <1>6
  <2>2. ASSUME NEW i \in 1..L, i - 1 \in T PROVE i \in T
    <3>1. CASE i <= k
      BY <1>6, <3>1
    <3>2. CASE i > k
      <4>1. f[i - 1] = f[k]
        BY <1>1, <1>6, <2>2, <3>2
      <4>2. f[i] = DecodeRound(src, f[k], max)
        BY <1>3, <4>1
      <4>3. f[i] = f[k]
        BY <4>2, <1>11 DEF DecodeRound, Decoded
      <4> QED
        BY <4>3
    <3> QED
      BY <1>6, <3>1, <3>2
  <2>3. 0..L \subseteq T
    <3> HIDE DEF T
    <3> QED
      BY <1>1, <2>1, <2>2, RoundsInduction
  <2> QED
    BY <1>1, <1>6, <2>3
<1> QED
  BY <1>6, <1>7, <1>9, <1>10, <1>11, <1>12 DEF L

\* A round does the same without what it does not read, in any larger buffer.
LEMMA PartRound ==
  ASSUME NEW src \in Seq(Chars), NEW n \in 0..Len(src),
         NEW max \in Nat \ {0}, NEW m \in Nat, m >= max,
         NEW loop \in Decoding(src, max), ~Decoded(src, max, loop),
         DecodeRound(src, loop, max).read <= n
  PROVE  DecodeRound(SubSeq(src, 1, n), loop, m) = DecodeRound(src, loop, max)
<1> DEFINE part == SubSeq(src, 1, n)
           s == From(src, loop.read + 1)
           t == From(part, loop.read + 1)
           r == loop.read
<1>1. /\ r \in 0..Len(src) /\ loop.dest \in Seq(Chars) /\ Len(src) \in Nat
      /\ n \in Nat /\ r \in Nat
  BY DEF Decoding
<1>2. part \in Seq(Chars) /\ Len(part) = n /\ \A i \in 1..n : part[i] = src[i]
  BY <1>1
<1>3. ~Stops(s) /\ ~FieldFull(loop.dest, max) /\ ~FieldFull(loop.dest, m)
  BY <1>1 DEF Decoded, FieldFull
<1>4. s \in Seq(Chars) /\ Len(s) = Len(src) - r /\ \A i \in 1..Len(s) : s[i] = src[r + i]
  <2> HIDE DEF r
  <2> QED
    BY <1>1, FromIs DEF r
<1>5. r < n
  <2>1. DecodeRound(src, loop, max).read > r
    BY DecodeRoundIs
  <2>2. DecodeRound(src, loop, max).read \in Nat
    BY DecodeRoundIs DEF Decoding
  <2> HIDE DEF r
  <2> QED
    BY <1>1, <2>1, <2>2
<1>6. t \in Seq(Chars) /\ Len(t) = n - r /\ \A i \in 1..Len(t) : t[i] = part[r + i]
  <2>1. r \in 0..Len(part)
    BY <1>1, <1>2, <1>5
  <2> HIDE DEF part, r
  <2> QED
    BY <1>2, <2>1, FromIs DEF r
<1> HIDE DEF part
<1>7. \A i \in 1..Len(t) : i \in 1..Len(s) /\ t[i] = s[i]
  <2> HIDE DEF s, t, r
  <2> TAKE i \in 1..Len(t)
  <2>1. i \in 1..Len(s) /\ r + i \in 1..n
    BY <1>1, <1>4, <1>5, <1>6
  <2> QED
    BY <1>2, <1>4, <1>6, <2>1
<1>8. Head(t) = t[1] /\ Head(s) = s[1] /\ t[1] = s[1] /\ t # <<>> /\ s # <<>>
  <2>1. Len(t) >= 1 /\ 1 \in 1..Len(t)
    BY <1>1, <1>5, <1>6
  <2> HIDE DEF s, t
  <2> QED
    BY <2>1, <1>4, <1>6, <1>7
<1>9. CASE Escaped(s)
  <2>1. DecodeRound(src, loop, max)
          = [read |-> r + 3, dest |-> Append(loop.dest, UnescapedByte(s))]
    BY <1>3, <1>9 DEF DecodeRound
  <2>2. r + 3 <= n
    BY <2>1
  <2>3. 1 \in 1..Len(t) /\ 2 \in 1..Len(t) /\ 3 \in 1..Len(t)
    BY <1>1, <1>6, <2>2
  <2>4. t[1] = s[1] /\ t[2] = s[2] /\ t[3] = s[3] /\ Len(t) >= 3
    BY <1>7, <2>3
  <2> HIDE DEF s, t, r
  <2>5. Escaped(t) /\ UnescapedByte(t) = UnescapedByte(s)
    BY <1>9, <2>4 DEF Escaped, UnescapedByte
  <2>6. ~Stops(t)
    BY <1>3, <1>8, <1>9, <2>5 DEF Stops
  <2>7. DecodeRound(part, loop, m)
          = [read |-> r + 3, dest |-> Append(loop.dest, UnescapedByte(t))]
    BY <1>3, <2>5, <2>6 DEF DecodeRound, t, r
  <2> QED
    BY <2>1, <2>5, <2>7 DEF part
<1>10. CASE ~Escaped(s)
  <2>1. ~Escaped(t)
    <3>1. SUFFICES ASSUME Escaped(t) PROVE Escaped(s)
      BY <1>10
    <3>2. Len(t) >= 3 /\ Len(t) \in Nat /\ Len(s) \in Nat
      BY <1>1, <1>4, <1>6, <3>1 DEF Escaped
    <3>3. 1 \in 1..Len(t) /\ 2 \in 1..Len(t) /\ 3 \in 1..Len(t)
      BY <3>2
    <3>4. t[1] = s[1] /\ t[2] = s[2] /\ t[3] = s[3] /\ Len(s) >= 3
      BY <1>7, <3>2, <3>3
    <3> HIDE DEF s, t
    <3> QED
      BY <3>1, <3>4 DEF Escaped
  <2> HIDE DEF s, t
  <2>2. ~Stops(t)
    BY <1>3, <1>8, <2>1 DEF Stops
  <2>3. Head(t) = Head(s)
    BY <1>8
  <2> DEFINE Blanked(x) == IF x = PLUS THEN SPACE ELSE x
  <2>4. DecodeRound(part, loop, m)
          = [read |-> r + 1, dest |-> Append(loop.dest, Blanked(Head(t)))]
    BY <1>3, <2>1, <2>2 DEF DecodeRound, t
  <2>5. DecodeRound(src, loop, max)
          = [read |-> r + 1, dest |-> Append(loop.dest, Blanked(Head(s)))]
    BY <1>3, <1>10 DEF DecodeRound, s
  <2> HIDE DEF Blanked
  <2>6. DecodeRound(part, loop, m) = DecodeRound(src, loop, max)
    BY <2>3, <2>4, <2>5
  <2> QED
    BY <2>6 DEF part
<1> QED
  BY <1>9, <1>10

\* url_decode leaves room for the NUL in every buffer and writes no NUL, not
\* even for %00.
THEOREM DecodedFits ==
  ASSUME NEW src \in Seq(Chars), NEW max \in Nat \ {0}
  PROVE  /\ url_decode(src, max) \in Seq(Chars)
         /\ Len(url_decode(src, max)) < max
<1>1. PICK f : DecodeRun(src, max, f)
  BY DecodeRuns
<1>2. f[Len(src)] \in Decoding(src, max)
  BY <1>1 DEF DecodeRun
<1>3. url_decode(src, max) = f[Len(src)].dest
  BY <1>1 DEF DecodeRun
<1> QED
  BY <1>2, <1>3 DEF Decoding

\* What url_decode leaves out is the end of the value, and never part of an
\* escape: its result is that of the first n bytes, whole in any larger buffer,
\* and after them comes the end of the value unless the buffer is full.
THEOREM DecodedWhole ==
  ASSUME NEW src \in Seq(Chars), NEW max \in Nat \ {0}
  PROVE  \E n \in 0..Len(src) :
           /\ Stops(From(src, n + 1)) \/ Len(url_decode(src, max)) = max - 1
           /\ \A m \in Nat :
                m >= max => url_decode(SubSeq(src, 1, n), m) = url_decode(src, max)
<1>1. PICK f : DecodeRun(src, max, f)
  BY DecodeRuns
<1> DEFINE L == Len(src)
<1>2. PICK k \in 0..L :
        /\ Decoded(src, max, f[k])
        /\ \A i \in 0..(k - 1) : ~Decoded(src, max, f[i])
        /\ \A i \in 0..k : i <= f[i].read /\ f[i].read <= f[k].read
        /\ f[L] = f[k]
  BY <1>1, DecodeEnds
<1> DEFINE n == f[k].read
<1>3. \A i \in 0..L : /\ f[i] \in Decoding(src, max) /\ f[i].read \in 0..L
                      /\ f[i].dest \in Seq(Chars) /\ Len(f[i].dest) < max
  BY <1>1 DEF DecodeRun, Decoding
<1>4. n \in 0..L /\ k <= n /\ L \in Nat /\ n \in Nat /\ k \in Nat
  BY <1>2, <1>3
<1>5. url_decode(src, max) = f[k].dest
  BY <1>1, <1>2 DEF DecodeRun
<1>6. Stops(From(src, n + 1)) \/ Len(f[k].dest) = max - 1
  <2>1. CASE Stops(From(src, n + 1))
    BY <2>1
  <2>2. CASE FieldFull(f[k].dest, max)
    <3>1. Len(f[k].dest) < max /\ Len(f[k].dest) \in Nat
      BY <1>3
    <3> QED
      BY <2>2, <3>1 DEF FieldFull
  <2> QED
    BY <1>2, <2>1, <2>2 DEF Decoded
<1>7. ASSUME NEW m \in Nat, m >= max
      PROVE  url_decode(SubSeq(src, 1, n), m) = f[k].dest
  <2> DEFINE part == SubSeq(src, 1, n)
  <2>1. part \in Seq(Chars) /\ Len(part) = n
    BY <1>4
  <2>2. m \in Nat \ {0}
    BY <1>7
  <2>3. PICK g : DecodeRun(part, m, g)
    <3> HIDE DEF part
    <3> QED
      BY <2>1, <2>2, DecodeRuns
  <2>4. \A i \in 1..n : g[i] = DecodeRound(part, g[i - 1], m)
    BY <2>1, <2>3 DEF DecodeRun
  <2>5. g[0] = f[0]
    BY <1>1, <2>3 DEF DecodeRun
  <2> DEFINE T == {i \in 0..k : g[i] = f[i]}
             U == {i \in 0..n : i >= k => g[i] = f[k]}
  <2>6. 0 \in T
    BY <1>4, <2>5
  <2>7. ASSUME NEW i \in 1..k, i - 1 \in T PROVE i \in T
    <3>1. i \in 1..n /\ i \in 1..L /\ i - 1 \in 0..(k - 1) /\ i - 1 \in 0..L /\ i \in 0..k
      BY <1>4
    <3>2. g[i] = DecodeRound(part, f[i - 1], m)
      BY <2>4, <2>7, <3>1
    <3>3. f[i] = DecodeRound(src, f[i - 1], max)
      BY <1>1, <3>1 DEF DecodeRun
    <3>4. f[i - 1] \in Decoding(src, max) /\ ~Decoded(src, max, f[i - 1])
      BY <1>2, <1>3, <3>1
    <3>5. DecodeRound(src, f[i - 1], max).read <= n
      BY <1>2, <3>1, <3>3
    <3> HIDE DEF n
    <3>6. DecodeRound(part, f[i - 1], m) = DecodeRound(src, f[i - 1], max)
      BY <1>4, <1>7, <3>4, <3>5, PartRound
    <3>7. g[i] = f[i]
      BY <3>2, <3>3, <3>6
    <3> QED
      BY <3>7
  <2>8. g[k] = f[k]
    <3> HIDE DEF T
    <3>1. 0..k \subseteq T
      BY <1>4, <2>6, <2>7, RoundsInduction
    <3> QED
      BY <1>4, <3>1 DEF T
  <2>9. Decoded(part, m, f[k])
    <3> HIDE DEF part
    <3>1. From(part, Len(part) + 1) = <<>>
      BY <2>1, FromEnd
    <3> QED
      BY <2>1, <3>1 DEF Decoded, Stops
  <2>10. 0 \in U
    BY <1>4, <2>8
  <2>11. ASSUME NEW i \in 1..n, i - 1 \in U PROVE i \in U
    <3>1. CASE i < k
      BY <1>4, <3>1
    <3>2. CASE i = k
      BY <1>4, <2>8, <3>2
    <3>3. CASE i > k
      <4>1. g[i - 1] = f[k]
        BY <1>4, <2>11, <3>3
      <4>2. g[i] = DecodeRound(part, f[k], m)
        BY <2>4, <4>1
      <4> HIDE DEF part
      <4>3. g[i] = f[k]
        BY <2>9, <4>2 DEF DecodeRound, Decoded
      <4> QED
        BY <4>3
    <3> QED
      BY <1>4, <3>1, <3>2, <3>3
  <2>12. g[n] = f[k]
    <3> HIDE DEF U, n
    <3>1. 0..n \subseteq U
      BY <1>4, <2>10, <2>11, RoundsInduction
    <3> QED
      BY <1>4, <3>1 DEF U
  <2>13. url_decode(part, m) = g[n].dest
    BY <2>1, <2>3 DEF DecodeRun
  <2> QED
    BY <2>12, <2>13
<1> HIDE DEF n
<1> QED
  BY <1>4, <1>5, <1>6, <1>7 DEF L

\* One of the codes that a browser may send for the character c of a form value.
Codes(c, code) ==
  \/ c = SPACE /\ code = <<PLUS>>
  \/ c \notin {AMP, SPACE, CR, LF, PERCENT, PLUS} /\ code = <<c>>
  \/ \E h, l \in xdigits : code = <<PERCENT, h, l>> /\ c = 16 * hex_val(h) + hex_val(l)

\* code is the codes of the characters of value in a row, that of the i-th from
\* at[i - 1] to at[i].
Encodes(value, code, at) ==
  /\ at \in [0..Len(value) -> 0..Len(code)]
  /\ at[0] = 0 /\ at[Len(value)] = Len(code)
  /\ \A i \in 1..Len(value) :
       at[i - 1] <= at[i] /\ Codes(value[i], SubSeq(code, at[i - 1] + 1, at[i]))

LEMMA PieceIs ==
  ASSUME NEW src \in Seq(Chars), NEW i \in Nat, NEW j \in Nat, i <= j, j <= Len(src)
  PROVE  /\ Len(SubSeq(src, i + 1, j)) = j - i
         /\ \A k \in 1..(j - i) : SubSeq(src, i + 1, j)[k] = src[i + k]
<1>1. Len(src) \in Nat
  OBVIOUS
<1>2. SubSeq(src, i + 1, j) = [k \in 1..(j - i) |-> src[i + k]]
  BY <1>1
<1> QED
  BY <1>1, <1>2

LEMMA CodeLength ==
  ASSUME NEW c \in Chars, NEW code, Codes(c, code)
  PROVE  /\ code \in Seq(Nat) /\ Len(code) \in {1, 3}
         /\ code[1] # PERCENT => Len(code) = 1
<1>1. CASE code = <<PLUS>>
  BY <1>1 DEF PLUS, PERCENT
<1>2. CASE c \notin {AMP, SPACE, CR, LF, PERCENT, PLUS} /\ code = <<c>>
  BY <1>2 DEF Chars, PERCENT
<1>3. ASSUME NEW h \in xdigits, NEW l \in xdigits, code = <<PERCENT, h, l>>
      PROVE  code \in Seq(Nat) /\ Len(code) = 3 /\ code[1] = PERCENT
  BY <1>3 DEF PERCENT, xdigits, Digits
<1> QED
  BY <1>1, <1>2, <1>3 DEF Codes

\* A round decodes one code.
LEMMA DecodeRoundDecodes ==
  ASSUME NEW src \in Seq(Chars), NEW max \in Nat \ {0}, NEW loop \in Decoding(src, max),
         NEW c \in Chars, NEW code, Codes(c, code), NEW e \in Nat,
         loop.read <= e, e <= Len(src), SubSeq(src, loop.read + 1, e) = code,
         ~FieldFull(loop.dest, max)
  PROVE  DecodeRound(src, loop, max) = [read |-> e, dest |-> Append(loop.dest, c)]
<1> DEFINE r == loop.read
           s == From(src, r + 1)
<1>1. r \in 0..Len(src) /\ r \in Nat /\ Len(src) \in Nat
  BY DEF Decoding
<1>2. s \in Seq(Chars) /\ Len(s) = Len(src) - r /\ \A i \in 1..(Len(src) - r) : s[i] = src[r + i]
  BY <1>1, FromIs
<1>3. Len(code) = e - r /\ \A i \in 1..(e - r) : code[i] = src[r + i]
  <2>1. SubSeq(src, r + 1, e) = code /\ r <= e
    OBVIOUS
  <2> HIDE DEF r
  <2> QED
    BY <1>1, <2>1, PieceIs
<1>4. r <= e /\ e <= Len(src) /\ e \in Nat
  OBVIOUS
<1> HIDE DEF s
<1>5. \A i \in 1..(e - r) : s[i] = code[i]
  <2> HIDE DEF r
  <2> TAKE i \in 1..(e - r)
  <2>1. i \in 1..(Len(src) - r)
    BY <1>1, <1>4
  <2> QED
    BY <1>2, <1>3, <2>1
<1>6. e - r \in {1, 3}
  BY <1>3, CodeLength
<1>7. s # <<>> /\ Head(s) = s[1] /\ s[1] = code[1] /\ Len(s) >= e - r
  <2> HIDE DEF r
  <2>1. 1 \in 1..(e - r) /\ Len(s) >= 1
    BY <1>1, <1>2, <1>4, <1>6
  <2> QED
    BY <1>1, <1>2, <1>5, <2>1
<1>8. CASE code[1] # PERCENT
  <2>1. e = r + 1
    <3>1. Len(code) = 1
      BY <1>8, CodeLength
    <3>2. e - r = 1
      BY <1>3, <3>1
    <3> HIDE DEF r
    <3> QED
      BY <1>1, <3>2
  <2>2. code = <<code[1]>> /\ ((c = SPACE /\ code[1] = PLUS) \/ (c = code[1] /\ c # PLUS))
        /\ code[1] \notin {AMP, SPACE, CR, LF, PERCENT}
    <3>1. CASE c = SPACE /\ code = <<PLUS>>
      BY <3>1 DEF PLUS, AMP, SPACE, CR, LF, PERCENT
    <3>2. CASE c \notin {AMP, SPACE, CR, LF, PERCENT, PLUS} /\ code = <<c>>
      BY <3>2
    <3>3. CASE \E h, l \in xdigits : code = <<PERCENT, h, l>>
      BY <3>3, <1>8
    <3> QED
      BY <3>1, <3>2, <3>3 DEF Codes
  <2>3. ~Escaped(s)
    BY <1>7, <1>8 DEF Escaped
  <2>4. ~Stops(s)
    BY <1>7, <2>2, <2>3 DEF Stops
  <2> DEFINE d == IF Head(s) = PLUS THEN SPACE ELSE Head(s)
  <2>5. d = c
    BY <1>7, <2>2 DEF PLUS
  <2>6. DecodeRound(src, loop, max) = [read |-> r + 1, dest |-> Append(loop.dest, d)]
    BY <2>3, <2>4 DEF DecodeRound, s
  <2> HIDE DEF d
  <2> QED
    BY <2>1, <2>5, <2>6
<1>9. CASE code[1] = PERCENT
  <2>1. PICK h \in xdigits, l \in xdigits :
          code = <<PERCENT, h, l>> /\ c = 16 * hex_val(h) + hex_val(l)
    BY <1>9 DEF Codes, PLUS, PERCENT
  <2>2. Len(code) = 3 /\ code[2] = h /\ code[3] = l
    BY <2>1
  <2>3. e = r + 3 /\ s[2] = h /\ s[3] = l /\ Len(s) >= 3
    <3> HIDE DEF r
    <3>1. e - r = 3
      BY <1>3, <2>2
    <3> QED
      BY <1>1, <1>5, <1>7, <2>2, <3>1
  <2>4. Escaped(s) /\ UnescapedByte(s) = c
    BY <1>7, <1>9, <2>1, <2>3 DEF Escaped, UnescapedByte
  <2>5. ~Stops(s)
    <3>1. UnescapedByte(s) # NUL
      BY <2>4 DEF Chars, NUL
    <3>2. Head(s) = PERCENT /\ s # <<>>
      BY <1>7, <1>9
    <3>3. PERCENT \notin {AMP, SPACE, CR, LF}
      BY DEF AMP, SPACE, CR, LF, PERCENT
    <3> QED
      BY <3>1, <3>2, <3>3 DEF Stops
  <2>6. DecodeRound(src, loop, max)
          = [read |-> r + 3, dest |-> Append(loop.dest, UnescapedByte(s))]
    BY <2>4, <2>5 DEF DecodeRound, s
  <2> QED
    BY <2>3, <2>4, <2>6
<1> QED
  BY <1>8, <1>9

\* url_decode undoes every encoding that Encodes allows, up to the size of the
\* buffer: a value that ends the text, that '&', a space or the end of a line
\* follows, or that fills the buffer is read as it was entered.
THEOREM DecodedRight ==
  ASSUME NEW value \in Seq(Chars), NEW code \in Seq(Chars), NEW at, Encodes(value, code, at),
         NEW max \in Nat \ {0}, NEW rest \in Seq(Chars),
         \/ rest = <<>> \/ rest[1] \in {AMP, SPACE, CR, LF}
         \/ Len(value) >= max - 1
  PROVE  url_decode(code \o rest, max)
           = SubSeq(value, 1, IF Len(value) < max THEN Len(value) ELSE max - 1)
<1> DEFINE src == code \o rest
           L == Len(src)
           N == IF Len(value) < max THEN Len(value) ELSE max - 1
           Piece(i) == SubSeq(code, at[i - 1] + 1, at[i])
           First(i) == SubSeq(value, 1, i)
<1>1. /\ src \in Seq(Chars) /\ L = Len(code) + Len(rest)
      /\ L \in Nat /\ Len(code) \in Nat /\ Len(rest) \in Nat /\ Len(value) \in Nat
      /\ \A j \in 1..Len(code) : src[j] = code[j]
      /\ \A j \in 1..Len(rest) : src[Len(code) + j] = rest[j]
  OBVIOUS
<1>2. N \in 0..Len(value) /\ N \in Nat /\ N < max /\ (N = max - 1 \/ N = Len(value))
  BY <1>1
<1>3. /\ at \in [0..Len(value) -> 0..Len(code)]
      /\ at[0] = 0 /\ at[Len(value)] = Len(code)
      /\ \A i \in 1..Len(value) : at[i - 1] <= at[i] /\ Codes(value[i], Piece(i))
  BY DEF Encodes
<1> HIDE DEF src, N
<1>4. PICK f : DecodeRun(src, max, f)
  BY <1>1, DecodeRuns
<1>5. f[0] = [read |-> 0, dest |-> <<>>] /\ url_decode(src, max) = f[L].dest
  BY <1>4 DEF DecodeRun
<1> DEFINE T == {i \in 0..N : i <= at[i] /\ f[i] = [read |-> at[i], dest |-> First(i)]}
           U == {i \in 0..L : i >= N => f[i] = f[N]}
<1>6. First(0) = <<>>
  OBVIOUS
<1>7. 0 \in T
  BY <1>2, <1>3, <1>5, <1>6
<1>8. ASSUME NEW i \in 1..N, i - 1 \in T PROVE i \in T
  <2> DEFINE a == at[i - 1]
             e == at[i]
  <2>1. /\ i \in 1..Len(value) /\ i - 1 \in 0..Len(value) /\ i \in 0..N /\ i \in Nat
        /\ i - 1 < max - 1 /\ i \in 0..Len(value)
    BY <1>1, <1>2
  <2>2. a \in 0..Len(code) /\ e \in 0..Len(code) /\ a <= e /\ Codes(value[i], Piece(i))
    BY <1>3, <2>1
  <2>3. i - 1 <= a /\ f[i - 1] = [read |-> a, dest |-> First(i - 1)]
    BY <1>8
  <2>4. value[i] \in Chars
    BY <2>1
  <2>5. Len(Piece(i)) \in {1, 3}
    <3> HIDE DEF Piece
    <3> QED
      BY <2>2, <2>4, CodeLength
  <2> HIDE DEF a, e
  <2>6. Piece(i) = SubSeq(code, a + 1, e)
    BY DEF a, e
  <2>7. Len(Piece(i)) = e - a
    <3> HIDE DEF Piece
    <3> QED
      BY <1>1, <2>2, <2>6, PieceIs
  <2>8. i <= e /\ i <= L /\ e <= L /\ a \in 0..L /\ a \in Nat /\ e \in Nat
    <3> HIDE DEF Piece, L
    <3> QED
      BY <1>1, <2>1, <2>2, <2>3, <2>5, <2>7
  <2>9. SubSeq(src, a + 1, e) = Piece(i)
    <3>1. a \in Nat /\ e \in Nat /\ a <= e /\ e <= Len(code)
      BY <1>1, <2>2, <2>8
    <3> HIDE DEF Piece
    <3>2. SubSeq(code \o rest, a + 1, e) = SubSeq(code, a + 1, e)
      BY <3>1, FirstPartOf
    <3> QED
      BY <2>6, <3>2 DEF src
  <2>10. /\ First(i - 1) \in Seq(Chars) /\ Len(First(i - 1)) = i - 1
         /\ Append(First(i - 1), value[i]) = First(i)
    BY <2>1, <2>4
  <2>11. f[i - 1] \in Decoding(src, max)
    <3>1. i - 1 \in 0..L
      BY <2>1, <2>8
    <3> QED
      BY <1>4, <3>1 DEF DecodeRun
  <2>12. ~FieldFull(f[i - 1].dest, max)
    <3>1. Len(f[i - 1].dest) = i - 1
      BY <2>3, <2>10
    <3> QED
      BY <2>1, <3>1 DEF FieldFull
  <2>13. f[i] = DecodeRound(src, f[i - 1], max)
    <3>1. i \in 1..L
      BY <2>1, <2>8
    <3> QED
      BY <1>4, <3>1 DEF DecodeRun
  <2>14. f[i - 1].read = a /\ f[i - 1].dest = First(i - 1)
    BY <2>3
  <2> DEFINE loop == f[i - 1]
             c == value[i]
             code_i == Piece(i)
  <2>15. /\ src \in Seq(Chars) /\ max \in Nat \ {0} /\ loop \in Decoding(src, max)
         /\ c \in Chars /\ Codes(c, code_i) /\ e \in Nat /\ loop.read <= e /\ e <= Len(src)
         /\ SubSeq(src, loop.read + 1, e) = code_i /\ ~FieldFull(loop.dest, max)
    <3> HIDE DEF Piece
    <3> QED
      BY <1>1, <2>2, <2>4, <2>8, <2>9, <2>11, <2>12, <2>14
  <2> HIDE DEF loop, c, code_i
  <2>16. DecodeRound(src, loop, max) = [read |-> e, dest |-> Append(loop.dest, c)]
    BY <2>15, DecodeRoundDecodes, ZenonT(60)
  <2> HIDE DEF Piece, First, L
  <2>17. f[i] = [read |-> e, dest |-> First(i)]
    BY <2>10, <2>13, <2>14, <2>16 DEF loop, c
  <2> QED
    BY <2>1, <2>8, <2>17 DEF e
<1>9. N <= L /\ f[N] = [read |-> at[N], dest |-> First(N)] /\ at[N] \in 0..Len(code)
  <2>1. N \in T
    <3> HIDE DEF T
    <3>1. 0..N \subseteq T
      BY <1>2, <1>7, <1>8, RoundsInduction
    <3> QED
      BY <1>2, <3>1
  <2>2. N <= at[N] /\ f[N] = [read |-> at[N], dest |-> First(N)]
    BY <2>1
  <2>3. at[N] \in 0..Len(code)
    BY <1>2, <1>3
  <2> HIDE DEF L, First
  <2> QED
    BY <1>1, <1>2, <2>2, <2>3
<1>10. Decoded(src, max, f[N])
  <2>1. CASE N = max - 1
    <3>1. Len(First(N)) = N
      BY <1>1, <1>2
    <3> QED
      BY <1>2, <1>9, <2>1, <3>1 DEF Decoded, FieldFull
  <2>2. CASE N = Len(value) /\ (rest = <<>> \/ rest[1] \in {AMP, SPACE, CR, LF})
    <3>1. f[N].read = Len(code)
      BY <1>3, <1>9, <2>2
    <3> DEFINE s == From(src, Len(code) + 1)
    <3>2. Len(code) \in 0..L /\ L - Len(code) = Len(rest)
      <4> HIDE DEF L
      <4> QED
        BY <1>1
    <3>3. Len(s) = Len(rest) /\ \A j \in 1..Len(rest) : s[j] = rest[j]
      <4>1. /\ Len(s) = L - Len(code)
            /\ \A j \in 1..(L - Len(code)) : s[j] = src[Len(code) + j]
        BY <1>1, <3>2, FromIs
      <4> HIDE DEF s, L
      <4> QED
        BY <1>1, <3>2, <4>1
    <3>4. s \in Seq(Chars)
      BY <1>1, <3>2, FromIs
    <3> HIDE DEF s
    <3>5. Stops(s)
      <4>1. CASE rest = <<>>
        BY <3>3, <3>4, <4>1 DEF Stops
      <4>2. CASE rest # <<>> /\ rest[1] \in {AMP, SPACE, CR, LF}
        <5>1. 1 \in 1..Len(rest)
          BY <1>1, <4>2
        <5>2. Head(s) = s[1] /\ s[1] = rest[1]
          BY <3>3, <3>4, <5>1
        <5> QED
          BY <4>2, <5>2 DEF Stops
      <4> QED
        BY <2>2, <4>1, <4>2
    <3> QED
      BY <3>1, <3>5 DEF Decoded, s
  <2>3. Len(value) >= max - 1 => N = max - 1
    BY <1>1 DEF N
  <2> QED
    BY <1>2, <2>1, <2>2, <2>3
<1>11. 0 \in U
  BY <1>1, <1>2
<1>12. ASSUME NEW i \in 1..L, i - 1 \in U PROVE i \in U
  <2> HIDE DEF L
  <2>1. i \in 0..L /\ i \in Nat
    BY <1>1
  <2>2. CASE i <= N
    <3>1. i >= N => i = N
      BY <1>2, <2>1, <2>2
    <3> QED
      BY <2>1, <3>1
  <2>3. CASE i > N
    <3>1. f[i - 1] = f[N]
      BY <1>2, <1>12, <2>1, <2>3
    <3>2. f[i] = DecodeRound(src, f[N], max)
      BY <1>4, <3>1 DEF DecodeRun, L
    <3>3. f[i] = f[N]
      BY <1>10, <3>2 DEF DecodeRound, Decoded
    <3> QED
      BY <2>1, <3>3
  <2> QED
    BY <1>2, <2>1, <2>2, <2>3
<1>13. f[L] = f[N]
  <2>1. 0..L \subseteq U
    <3> HIDE DEF U, L
    <3> QED
      BY <1>1, <1>11, <1>12, RoundsInduction
  <2> HIDE DEF L
  <2>2. L \in 0..L
    BY <1>1
  <2>3. L \in U
    BY <2>1, <2>2
  <2> QED
    BY <1>9, <2>3
<1> QED
  BY <1>5, <1>9, <1>13 DEF src, N

\* Where the parts of a text are.
LEMMA PartsAre ==
  ASSUME NEW a \in Seq(Chars), NEW b \in Seq(Chars), NEW c \in Seq(Chars)
  PROVE  /\ a \o b \o c \in Seq(Chars)
         /\ At(a \o b \o c, b, Len(a) + 1)
         /\ From(a \o b \o c, Len(a) + Len(b) + 1) = c
<1> DEFINE s == a \o b \o c
<1>1. /\ s \in Seq(Chars) /\ Len(s) = Len(a) + Len(b) + Len(c)
      /\ Len(a) \in Nat /\ Len(b) \in Nat /\ Len(c) \in Nat
      /\ \A i \in 1..Len(b) : s[Len(a) + i] = b[i]
      /\ \A i \in 1..Len(c) : s[Len(a) + Len(b) + i] = c[i]
  OBVIOUS
<1> HIDE DEF s
<1>2. SubSeq(s, Len(a) + 1, Len(a) + Len(b)) = b
  <2>1. SubSeq(s, Len(a) + 1, Len(a) + Len(b)) = [i \in 1..Len(b) |-> s[Len(a) + i]]
    BY <1>1
  <2>2. b = [i \in 1..Len(b) |-> b[i]]
    OBVIOUS
  <2> QED
    BY <1>1, <2>1, <2>2
<1>3. Len(a) + 1 + Len(b) - 1 = Len(a) + Len(b) /\ Len(a) + Len(b) <= Len(s)
  BY <1>1
<1>4. At(s, b, Len(a) + 1)
  BY <1>2, <1>3 DEF At
<1>5. From(s, Len(a) + Len(b) + 1) = c
  <2> DEFINE n == Len(a) + Len(b)
             t == From(s, n + 1)
  <2>1. n \in 0..Len(s) /\ Len(s) - n = Len(c)
    BY <1>1
  <2>2. t \in Seq(Chars) /\ Len(t) = Len(c) /\ \A i \in 1..Len(c) : t[i] = s[n + i]
    <3> HIDE DEF n
    <3> QED
      BY <1>1, <2>1, FromIs
  <2>3. \A i \in 1..Len(c) : t[i] = c[i]
    <3> HIDE DEF t
    <3> QED
      BY <1>1, <2>2
  <2>4. t = c
    <3> HIDE DEF t
    <3> QED
      BY <2>2, <2>3
  <2> QED
    BY <2>4
<1> QED
  BY <1>1, <1>4, <1>5 DEF s

\* get_field yields the value of the first field of that name, up to the size of
\* the buffer, as the user entered it, wherever the field stands in the form.
THEOREM FieldRead ==
  ASSUME NEW value \in Seq(Chars), NEW code \in Seq(Chars), NEW at, Encodes(value, code, at),
         NEW max \in Nat \ {0}, NEW rest \in Seq(Chars), rest = <<>> \/ rest[1] = AMP,
         NEW before \in Seq(Chars), before = <<>> \/ before[Len(before)] = AMP,
         NEW name \in Seq(Chars), name # <<>>,
         \A i \in 1..Len(before) : ~FieldAt(before \o name \o (code \o rest), name, i)
  PROVE  get_field(before \o name \o (code \o rest), name, max)
           = SubSeq(value, 1, IF Len(value) < max THEN Len(value) ELSE max - 1)
<1> DEFINE body == before \o name \o (code \o rest)
           I == {i \in DOMAIN body : FieldAt(body, name, i)}
           q == Len(before) + 1
<1>1. code \o rest \in Seq(Chars)
  OBVIOUS
<1>2. /\ body \in Seq(Chars) /\ At(body, name, q)
      /\ From(body, Len(before) + Len(name) + 1) = code \o rest
  BY <1>1, PartsAre
<1>3. Len(before) \in Nat /\ Len(name) \in Nat /\ Len(name) >= 1 /\ q \in Nat \ {0}
  OBVIOUS
<1>4. Len(before) + Len(name) <= Len(body) /\ (\A i \in 1..Len(before) : body[i] = before[i])
  BY <1>1
<1>5. FieldAt(body, name, q)
  <2>1. CASE before = <<>>
    <3>1. q = 1
      BY <2>1
    <3> QED
      BY <1>2, <3>1 DEF FieldAt
  <2>2. CASE before # <<>> /\ before[Len(before)] = AMP
    <3>1. Len(before) \in 1..Len(before) /\ q - 1 = Len(before)
      BY <2>2
    <3>2. body[q - 1] = AMP
      BY <1>4, <2>2, <3>1
    <3> QED
      BY <1>2, <3>2 DEF FieldAt
  <2> QED
    BY <2>1, <2>2
<1>6. \A i \in 1..Len(before) : ~FieldAt(body, name, i)
  OBVIOUS
<1> DEFINE p == FirstPlace(body, LAMBDA i : FieldAt(body, name, i))
<1>7. p = IF I = {} THEN 0 ELSE Min(I)
  BY DEF FirstPlace
<1>8. get_field(body, name, max)
        = IF p = 0 THEN <<>> ELSE url_decode(From(body, p + Len(name)), max)
  BY DEF get_field
<1> HIDE DEF body, p
<1>9. I \in SUBSET Nat /\ q \in I /\ \A i \in I : q <= i
  <2>1. DOMAIN body = 1..Len(body)
    BY <1>2
  <2> QED
    BY <1>2, <1>3, <1>4, <1>5, <1>6, <2>1
<1>10. p = q
  <2> HIDE DEF I, q
  <2>1. Min(I) \in I /\ \A i \in I : Min(I) <= i
    BY <1>9, MinOfIsLeast
  <2>2. q <= Min(I) /\ Min(I) <= q /\ Min(I) \in Nat /\ q \in Nat
    BY <1>9, <2>1
  <2>3. Min(I) = q
    BY <2>2
  <2> QED
    BY <1>7, <1>9, <2>3
<1>11. p # 0 /\ p + Len(name) = Len(before) + Len(name) + 1
  BY <1>3, <1>10
<1>12. get_field(body, name, max) = url_decode(code \o rest, max)
  BY <1>2, <1>8, <1>11
<1>13. rest = <<>> \/ rest[1] \in {AMP, SPACE, CR, LF}
  OBVIOUS
<1>14. url_decode(code \o rest, max)
         = SubSeq(value, 1, IF Len(value) < max THEN Len(value) ELSE max - 1)
  BY <1>13, DecodedRight
<1> QED
  BY <1>12, <1>14 DEF body

\* http_request_cookie yields the value of the first cookie of that name, up to the
\* size of the buffer, if it ends the header or fills the buffer, as the session's
\* token does (get_session_user): then another cookie behind it does no harm.
THEOREM CookieRead ==
  ASSUME NEW value \in Seq(Chars), NEW code \in Seq(Chars), NEW at, Encodes(value, code, at),
         NEW max \in Nat \ {0}, NEW rest \in Seq(Chars), rest = <<>> \/ Len(value) >= max - 1,
         NEW before \in Seq(Chars),
         before = <<>> \/ before[Len(before)] \in {SPACE, SEMICOLON},
         NEW name \in Seq(Chars),
         \A i \in 1..Len(before) :
           ~CookieAt(before \o (name \o <<EQ>>) \o (code \o rest), name, i)
  PROVE  http_request_cookie(before \o (name \o <<EQ>>) \o (code \o rest), name, max)
           = SubSeq(value, 1, IF Len(value) < max THEN Len(value) ELSE max - 1)
<1> DEFINE key == name \o <<EQ>>
           header == before \o key \o (code \o rest)
           I == {i \in DOMAIN header : CookieAt(header, name, i)}
           q == Len(before) + 1
<1>1. /\ code \o rest \in Seq(Chars) /\ key \in Seq(Chars)
      /\ Len(key) = Len(name) + 1 /\ Len(name) \in Nat /\ Len(key) \in Nat
  BY DEF EQ, Chars
<1> HIDE DEF key
<1>2. /\ header \in Seq(Chars) /\ At(header, key, q)
      /\ From(header, Len(before) + Len(key) + 1) = code \o rest
  BY <1>1, PartsAre
<1>3. Len(before) \in Nat /\ q \in Nat \ {0}
  OBVIOUS
<1>4. Len(before) + Len(key) <= Len(header) /\ (\A i \in 1..Len(before) : header[i] = before[i])
  BY <1>1
<1>5. CookieAt(header, name, q)
  <2>1. CASE before = <<>>
    <3>1. q = 1
      BY <2>1
    <3> QED
      BY <1>2, <3>1 DEF CookieAt, key
  <2>2. CASE before # <<>> /\ before[Len(before)] \in {SPACE, SEMICOLON}
    <3>1. Len(before) \in 1..Len(before) /\ q - 1 = Len(before)
      BY <2>2
    <3>2. header[q - 1] \in {SPACE, SEMICOLON}
      BY <1>4, <2>2, <3>1
    <3> QED
      BY <1>2, <3>2 DEF CookieAt, key
  <2> QED
    BY <2>1, <2>2
<1>6. \A i \in 1..Len(before) : ~CookieAt(header, name, i)
  BY DEF key
<1> DEFINE p == FirstPlace(header, LAMBDA i : CookieAt(header, name, i))
<1>7. p = IF I = {} THEN 0 ELSE Min(I)
  BY DEF FirstPlace
<1>8. http_request_cookie(header, name, max)
        = IF p = 0 THEN <<>>
          ELSE url_decode(From(header, p + Len(name) + 1) \o <<CR, LF>>, max)
  BY DEF http_request_cookie
<1> HIDE DEF header, p
<1>9. I \in SUBSET Nat /\ q \in I /\ \A i \in I : q <= i
  <2>1. DOMAIN header = 1..Len(header)
    BY <1>2
  <2> QED
    BY <1>1, <1>2, <1>3, <1>4, <1>5, <1>6, <2>1
<1>10. p = q
  <2> HIDE DEF I, q
  <2>1. Min(I) \in I /\ \A i \in I : Min(I) <= i
    BY <1>9, MinOfIsLeast
  <2>2. q <= Min(I) /\ Min(I) <= q /\ Min(I) \in Nat /\ q \in Nat
    BY <1>9, <2>1
  <2>3. Min(I) = q
    BY <2>2
  <2> QED
    BY <1>7, <1>9, <2>3
<1>11. p # 0 /\ p + Len(name) + 1 = Len(before) + Len(key) + 1
  BY <1>1, <1>3, <1>10
<1> DEFINE end == rest \o <<CR, LF>>
<1>12. /\ end \in Seq(Chars) /\ (code \o rest) \o <<CR, LF>> = code \o end
       /\ rest = <<>> => end[1] = CR
  <2>1. CR \in Chars /\ LF \in Chars
    BY DEF CR, LF, Chars
  <2>2. <<CR, LF>> \in Seq(Chars)
    BY <2>1
  <2> QED
    BY <2>2
<1>13. http_request_cookie(header, name, max) = url_decode(code \o end, max)
  <2> HIDE DEF end
  <2> QED
    BY <1>2, <1>8, <1>11, <1>12
<1> HIDE DEF end
<1>14. end[1] \in {AMP, SPACE, CR, LF} \/ Len(value) >= max - 1
  BY <1>12
<1>15. url_decode(code \o end, max)
         = SubSeq(value, 1, IF Len(value) < max THEN Len(value) ELSE max - 1)
  BY <1>12, <1>14, DecodedRight
<1> QED
  BY <1>13, <1>15 DEF header, key

\* Every field and cookie that a handler reads is a C string that fits its
\* buffer, whatever the request has where it is looked for.
THEOREM FieldsFit ==
  ASSUME NEW src \in Seq(Chars), NEW name \in Seq(Chars), NEW max \in Nat \ {0}
  PROVE  /\ get_field(src, name, max) \in Seq(Chars)
         /\ Len(get_field(src, name, max)) < max
         /\ http_request_cookie(src, name, max) \in Seq(Chars)
         /\ Len(http_request_cookie(src, name, max)) < max
<1> DEFINE Fit(out) == out \in Seq(Chars) /\ Len(out) < max
<1>1. Fit(<<>>)
  OBVIOUS
<1>2. \A part \in Seq(Chars) : Fit(url_decode(part, max))
  BY DecodedFits
<1>3. ASSUME NEW p \in DOMAIN src, NEW n \in Nat PROVE From(src, p + n) \in Seq(Chars)
  BY DEF From
<1>4. Fit(get_field(src, name, max))
  <2> DEFINE I == {i \in DOMAIN src : FieldAt(src, name, i)}
             p == FirstPlace(src, LAMBDA i : FieldAt(src, name, i))
  <2>1. p = 0 \/ p \in DOMAIN src
    <3>1. I \in SUBSET Nat
      OBVIOUS
    <3>2. I = {} \/ Min(I) \in I
      BY <3>1, MinOfIsLeast
    <3> QED
      BY <3>2 DEF FirstPlace
  <2>2. get_field(src, name, max)
          = IF p = 0 THEN <<>> ELSE url_decode(From(src, p + Len(name)), max)
    BY DEF get_field
  <2>3. Len(name) \in Nat
    OBVIOUS
  <2> HIDE DEF p, Fit
  <2> QED
    BY <1>1, <1>2, <1>3, <2>1, <2>2, <2>3
<1>5. Fit(http_request_cookie(src, name, max))
  <2> DEFINE I == {i \in DOMAIN src : CookieAt(src, name, i)}
             p == FirstPlace(src, LAMBDA i : CookieAt(src, name, i))
  <2>1. p = 0 \/ p \in DOMAIN src
    <3>1. I \in SUBSET Nat
      OBVIOUS
    <3>2. I = {} \/ Min(I) \in I
      BY <3>1, MinOfIsLeast
    <3> QED
      BY <3>2 DEF FirstPlace
  <2>2. http_request_cookie(src, name, max)
          = IF p = 0 THEN <<>>
            ELSE url_decode(From(src, p + Len(name) + 1) \o <<CR, LF>>, max)
    BY DEF http_request_cookie
  <2>3. CASE p = 0
    BY <1>1, <2>2, <2>3
  <2>4. CASE p \in DOMAIN src
    <3>1. p + Len(name) + 1 = p + (Len(name) + 1) /\ Len(name) + 1 \in Nat
      BY <2>4
    <3>2. From(src, p + Len(name) + 1) \in Seq(Chars)
      BY <1>3, <2>4, <3>1
    <3>3. <<CR, LF>> \in Seq(Chars)
      BY DEF CR, LF, Chars
    <3>4. From(src, p + Len(name) + 1) \o <<CR, LF>> \in Seq(Chars)
      BY <3>2, <3>3
    <3>5. p # 0
      BY <2>4
    <3> HIDE DEF p, Fit
    <3> QED
      BY <1>2, <2>2, <3>4, <3>5
  <2> QED
    BY <2>1, <2>3, <2>4
<1> QED
  BY <1>4, <1>5

-----------------------------------------------------------------------------
(* The passes of parse_fragments.                                          *)

\* The texts that two pointers into src delimit.
Slices(src) ==
  {SubSeq(src, p[1], p[2]) :
     p \in {q \in (1..End(src)) \X (0..Len(src)) : q[1] <= q[2] + 1}}

Filling(src) ==
  [cur : 1..End(src),
   fragments : Seq([type : {"literal", "variable"}, text : Slices(src)])]

Counting(src) == [cur : 1..End(src), count : Nat]

LEMMA SliceIs ==
  ASSUME NEW src, Len(src) \in Nat,
         NEW a \in 1..End(src), NEW b \in 0..Len(src), a <= b + 1
  PROVE  SubSeq(src, a, b) \in Slices(src)
<1> DEFINE p == <<a, b>>
<1>1. p \in {q \in (1..End(src)) \X (0..Len(src)) : q[1] <= q[2] + 1}
  OBVIOUS
<1>2. p[1] = a /\ p[2] = b
  OBVIOUS
<1> QED
  BY <1>1, <1>2 DEF Slices

LEMMA DoubledIs ==
  ASSUME NEW src, Len(src) \in Nat, NEW c, NEW cur \in Nat, NEW none
  PROVE  Doubled(src, c, cur, none) \in {none} \cup (cur..(Len(src) - 1))
<1> DEFINE I == {i \in cur..(Len(src) - 1) : src[i] = c /\ src[i + 1] = c}
<1>1. I \in SUBSET Nat
  OBVIOUS
<1>2. I = {} \/ Min(I) \in I
  BY <1>1, MinOfIsLeast
<1> QED
  BY <1>2 DEF Doubled

\* Where a round of either pass finds its placeholder and goes on.
LEMMA PlaceholderIs ==
  ASSUME NEW src, Len(src) \in Nat, NEW cur \in 1..Len(src), find_open(src, cur) # 0
  PROVE  LET open == find_open(src, cur)
             ke   == find_close(src, open + 2)
         IN  /\ open \in cur..(Len(src) - 1)
             /\ ke \in (open + 2)..End(src)
             /\ After(src, ke) \in (open + 2)..End(src)
<1> DEFINE open == find_open(src, cur)
           ke   == find_close(src, open + 2)
<1>1. open \in cur..(Len(src) - 1)
  BY DoubledIs DEF find_open
<1> HIDE DEF open
<1>2. open + 2 \in Nat /\ open + 2 <= End(src)
  BY <1>1 DEF End
<1>3. ke \in {End(src)} \cup ((open + 2)..(Len(src) - 1))
  BY <1>2, DoubledIs DEF find_close
<1>4. ke \in (open + 2)..End(src)
  BY <1>2, <1>3 DEF End
<1> HIDE DEF ke
<1>5. After(src, ke) \in (open + 2)..End(src)
  BY <1>1, <1>3, <1>4 DEF After, End
<1> QED
  BY <1>1, <1>4, <1>5 DEF open, ke

\* What the first pass would have counted when the second is in state loop.
Tally(loop) == [cur |-> loop.cur, count |-> Len(loop.fragments)]

\* A round of the second pass adds fragments inside the page, as many as a round
\* of the first one counts, and reads on unless it is at the end.
LEMMA FillRoundIs ==
  ASSUME NEW src, Len(src) \in Nat, NEW loop \in Filling(src)
  PROVE  /\ FillRound(src, loop) \in Filling(src)
         /\ CountRound(src, Tally(loop)) = Tally(FillRound(src, loop))
         /\ loop.cur < End(src) => FillRound(src, loop).cur > loop.cur
         /\ loop.cur = End(src) => FillRound(src, loop) = loop
<1> DEFINE F == [type : {"literal", "variable"}, text : Slices(src)]
           next == FillRound(src, loop)
           open == find_open(src, loop.cur)
           ke == find_close(src, open + 2)
<1>1. /\ loop.cur \in 1..End(src) /\ loop.fragments \in Seq(F)
      /\ Len(src) \in Nat /\ End(src) = Len(src) + 1
  BY DEF Filling, End
<1>2. Tally(loop).cur = loop.cur /\ Tally(loop).count = Len(loop.fragments)
  BY DEF Tally
<1>3. ASSUME NEW c \in 1..End(src), NEW fs \in Seq(F)
      PROVE  [cur |-> c, fragments |-> fs] \in Filling(src)
  BY <1>3 DEF Filling
<1>4. CASE loop.cur = End(src)
  <2>1. next = loop
    BY <1>1, <1>4 DEF FillRound
  <2>2. CountRound(src, Tally(loop)) = Tally(loop)
    BY <1>1, <1>2, <1>4 DEF CountRound
  <2> QED
    BY <1>4, <1>1, <2>1, <2>2
<1>5. CASE loop.cur < End(src) /\ open = 0
  <2> DEFINE fs == Append(loop.fragments, Literal(SubSeq(src, loop.cur, Len(src))))
  <2>1. next = [cur |-> End(src), fragments |-> fs]
    BY <1>1, <1>5 DEF FillRound
  <2>2. SubSeq(src, loop.cur, Len(src)) \in Slices(src)
    BY <1>1, <1>5, SliceIs
  <2>3. Literal(SubSeq(src, loop.cur, Len(src))) \in F
    BY <2>2 DEF Literal
  <2> HIDE DEF F
  <2>4. fs \in Seq(F) /\ Len(fs) = Len(loop.fragments) + 1
    BY <1>1, <2>3
  <2> HIDE DEF fs
  <2>5. CountRound(src, Tally(loop)) = [cur |-> End(src), count |-> Len(fs)]
    BY <1>1, <1>2, <1>5, <2>4 DEF CountRound
  <2>6. Tally(next) = [cur |-> End(src), count |-> Len(fs)]
    BY <2>1 DEF Tally
  <2>7. End(src) \in 1..End(src)
    BY <1>1
  <2>8. next \in Filling(src) /\ next.cur = End(src)
    BY <1>3, <2>1, <2>4, <2>7
  <2> HIDE DEF next
  <2>9. /\ next \in Filling(src) /\ CountRound(src, Tally(loop)) = Tally(next)
        /\ next.cur > loop.cur /\ loop.cur # End(src)
    BY <1>1, <1>5, <2>5, <2>6, <2>8
  <2> QED
    BY <2>9 DEF next
<1>6. CASE loop.cur < End(src) /\ open # 0
  <2> DEFINE lit == Literal(SubSeq(src, loop.cur, open - 1))
             var == Variable(SubSeq(src, open + 2, ke - 1))
             new == IF open > loop.cur THEN <<lit, var>> ELSE <<var>>
             fs == loop.fragments \o new
  <2>1. next = [cur |-> After(src, ke), fragments |-> fs]
    BY <1>1, <1>6 DEF FillRound
  <2>2. loop.cur \in 1..Len(src)
    BY <1>1, <1>6
  <2>3. /\ open \in loop.cur..(Len(src) - 1) /\ ke \in (open + 2)..End(src)
        /\ After(src, ke) \in (open + 2)..End(src)
    BY <1>6, <2>2, PlaceholderIs
  <2> HIDE DEF open, ke
  <2>4. SubSeq(src, loop.cur, open - 1) \in Slices(src)
    BY <1>1, <2>2, <2>3, SliceIs
  <2>5. SubSeq(src, open + 2, ke - 1) \in Slices(src)
    <3>1. open + 2 \in 1..End(src) /\ ke - 1 \in 0..Len(src) /\ open + 2 <= (ke - 1) + 1
      BY <1>1, <2>2, <2>3
    <3> QED
      BY <1>1, <3>1, SliceIs
  <2>6. lit \in F /\ var \in F
    BY <2>4, <2>5 DEF Literal, Variable
  <2> HIDE DEF F, lit, var
  <2>7. new \in Seq(F) /\ Len(new) = IF open > loop.cur THEN 2 ELSE 1
    BY <2>6
  <2> HIDE DEF new
  <2>8. fs \in Seq(F) /\ Len(fs) = Len(loop.fragments) + Len(new)
    <3>1. loop.fragments \in Seq(F) /\ new \in Seq(F)
      BY <1>1, <2>7
    <3> QED
      BY <3>1, ConcatProperties
  <2> HIDE DEF fs
  <2>9. CountRound(src, Tally(loop)) = [cur |-> After(src, ke), count |-> Len(fs)]
    <3>1. CountRound(src, Tally(loop))
            = [cur |-> After(src, ke),
               count |-> Len(loop.fragments) + (IF open > loop.cur THEN 2 ELSE 1)]
      BY <1>1, <1>2, <1>6, <2>2 DEF CountRound, open, ke
    <3> QED
      BY <3>1, <2>7, <2>8
  <2>10. Tally(next) = [cur |-> After(src, ke), count |-> Len(fs)]
    BY <2>1 DEF Tally
  <2>11. After(src, ke) \in 1..End(src) /\ After(src, ke) > loop.cur
    BY <1>1, <2>2, <2>3
  <2>12. next \in Filling(src) /\ next.cur = After(src, ke)
    BY <1>3, <2>1, <2>8, <2>11
  <2> HIDE DEF next
  <2>13. /\ next \in Filling(src) /\ CountRound(src, Tally(loop)) = Tally(next)
         /\ next.cur > loop.cur /\ loop.cur # End(src)
    BY <1>1, <1>6, <2>9, <2>10, <2>11, <2>12
  <2> QED
    BY <2>13 DEF next
<1> QED
  BY <1>1, <1>4, <1>5, <1>6

\* The first pass, as a function of the number of rounds.
CountRun(src, f) ==
  /\ f[0] = [cur |-> 1, count |-> 0]
  /\ \A i \in 1..Len(src) : f[i] = CountRound(src, f[i - 1])
  /\ fragCount(src) = f[Len(src)].count

\* The second one.
FillRun(src, f) ==
  /\ f \in [0..Len(src) -> Filling(src)]
  /\ f[0] = [cur |-> 1, fragments |-> <<>>]
  /\ \A i \in 1..Len(src) : f[i] = FillRound(src, f[i - 1])
  /\ parse_fragments(src) = f[Len(src)].fragments

LEMMA FillRuns ==
  ASSUME NEW src, Len(src) \in Nat
  PROVE  \E f : FillRun(src, f)
<1> DEFINE n == Len(src)
           S == Filling(src)
           first == [cur |-> 1, fragments |-> <<>>]
           round == [i \in 1..n |-> [s \in S |-> FillRound(src, s)]]
           Body(f) == [i \in 0..n |->
                         IF i = 0 THEN first ELSE FillRound(src, f[i - 1])]
           Run == CHOOSE f : f = Body(f)
<1>1. n \in Nat
  OBVIOUS
<1>2. first \in S
  <2>1. 1 \in 1..End(src)
    BY DEF End
  <2> QED
    BY <2>1 DEF Filling
<1>3. \A s \in S : FillRound(src, s) \in S
  BY FillRoundIs
<1>4. Closed(n, S, round)
  <2> HIDE DEF S, n
  <2> QED
    BY <1>3 DEF Closed
<1>5. PICK f : Loop(n, S, first, round, f)
  <2> HIDE DEF round, S, n, first
  <2> QED
    BY <1>1, <1>2, <1>4, Rounds
<1>6. f \in [0..n -> S] /\ f[0] = first /\ \A i \in 1..n : f[i] = round[i][f[i - 1]]
  BY <1>5 DEF Loop
<1> HIDE DEF S, first
<1>7. f = Body(f)
  <2>1. ASSUME NEW i \in 1..n PROVE f[i] = FillRound(src, f[i - 1])
    <3>1. f[i - 1] \in S
      BY <1>1, <1>6
    <3>2. f[i] = round[i][f[i - 1]]
      BY <1>6
    <3> QED
      BY <3>1, <3>2
  <2> QED
    BY <1>1, <1>6, <2>1
<1>8. Run = Body(Run)
  <2> HIDE DEF Body
  <2> QED
    BY <1>7
<1>9. parse_fragments(src) = Run[n].fragments
  BY DEF parse_fragments, first
<1>10. Run[0] = first /\ \A i \in 1..n : Run[i] = FillRound(src, Run[i - 1])
  <2> HIDE DEF Run
  <2> QED
    BY <1>1, <1>8
<1> HIDE DEF Run
<1>11. \A i \in 0..n : Run[i] \in S
  <2> DEFINE T == {i \in 0..n : Run[i] \in S}
  <2>1. 0 \in T
    BY <1>1, <1>2, <1>10
  <2>2. ASSUME NEW i \in 1..n, i - 1 \in T PROVE i \in T
    BY <2>2, <1>3, <1>10
  <2>3. 0..n \subseteq T
    <3> HIDE DEF T
    <3> QED
      BY <1>1, <2>1, <2>2, RoundsInduction
  <2> QED
    BY <2>3
<1>12. Run \in [0..n -> S]
  <2>1. Run = [i \in 0..n |-> Run[i]]
    BY <1>8
  <2> QED
    BY <2>1, <1>11
<1>13. FillRun(src, Run)
  BY <1>9, <1>10, <1>12 DEF FillRun, S, first
<1> QED
  BY <1>13

\* The tallies of the second pass are a run of the first.
LEMMA CountRuns ==
  ASSUME NEW src, Len(src) \in Nat, NEW g, FillRun(src, g)
  PROVE  fragCount(src) = Len(g[Len(src)].fragments)
<1> DEFINE n == Len(src)
           first == [cur |-> 1, count |-> 0]
           Body(f) == [i \in 0..n |->
                         IF i = 0 THEN first ELSE CountRound(src, f[i - 1])]
           Run == CHOOSE f : f = Body(f)
           h == [i \in 0..n |-> Tally(g[i])]
<1>1. n \in Nat /\ \A i \in 0..n : g[i] \in Filling(src)
  BY DEF FillRun
<1>2. Tally(g[0]) = first
  BY DEF Tally, FillRun
<1>3. ASSUME NEW i \in 1..n PROVE Tally(g[i]) = CountRound(src, Tally(g[i - 1]))
  <2>1. i - 1 \in 0..n /\ g[i] = FillRound(src, g[i - 1])
    BY <1>1 DEF FillRun
  <2> QED
    BY <1>1, <2>1, FillRoundIs
<1> HIDE DEF first
<1>4. h = Body(h)
  <2>1. ASSUME NEW i \in 1..n PROVE h[i] = CountRound(src, h[i - 1])
    <3>1. h[i] = Tally(g[i]) /\ h[i - 1] = Tally(g[i - 1])
      BY <1>1
    <3> QED
      BY <1>3, <3>1
  <2> QED
    BY <1>1, <1>2, <2>1
<1>5. Run = Body(Run)
  <2> HIDE DEF Body, h
  <2> QED
    BY <1>4
<1>6. fragCount(src) = Run[n].count
  BY DEF fragCount, first
<1> HIDE DEF Run
<1>7. Run[0] = first /\ \A i \in 1..n : Run[i] = CountRound(src, Run[i - 1])
  BY <1>1, <1>5
<1>8. n \in {i \in 0..n : Run[i] = Tally(g[i])}
  <2> DEFINE T == {i \in 0..n : Run[i] = Tally(g[i])}
  <2>1. 0 \in T
    BY <1>1, <1>2, <1>7
  <2>2. ASSUME NEW i \in 1..n, i - 1 \in T PROVE i \in T
    BY <2>2, <1>3, <1>7
  <2> HIDE DEF T
  <2>3. 0..n \subseteq T
    BY <1>1, <2>1, <2>2, RoundsInduction
  <2> QED
    BY <1>1, <2>3 DEF T
<1> QED
  BY <1>6, <1>8 DEF Tally

\* After Len(src) rounds the passes are at the end of the page, as the loops are.
LEMMA FillEnds ==
  ASSUME NEW src, Len(src) \in Nat, NEW g, FillRun(src, g)
  PROVE  g[Len(src)].cur = End(src)
<1> DEFINE n == Len(src)
           T == {i \in 0..n : g[i].cur > i}
<1>1. n \in Nat /\ \A i \in 0..n : g[i] \in Filling(src) /\ g[i].cur \in 1..(n + 1)
  BY DEF FillRun, Filling, End
<1>2. 0 \in T
  BY <1>1 DEF FillRun
<1>3. ASSUME NEW i \in 1..n, i - 1 \in T PROVE i \in T
  <2>1. i - 1 \in 0..n /\ g[i] = FillRound(src, g[i - 1])
    BY <1>1 DEF FillRun
  <2>2. g[i - 1] \in Filling(src) /\ g[i - 1].cur \in 1..(n + 1) /\ g[i].cur \in 1..(n + 1)
    BY <1>1, <2>1
  <2>3. g[i].cur > g[i - 1].cur \/ g[i].cur = End(src)
    BY <2>1, <2>2, FillRoundIs DEF End
  <2>4. g[i].cur > i
    BY <1>3, <2>2, <2>3 DEF End
  <2> QED
    BY <2>4
<1>4. n \in T
  <2> HIDE DEF T, n
  <2>1. 0..n \subseteq T
    BY <1>1, <1>2, <1>3, RoundsInduction
  <2> QED
    BY <1>1, <2>1
<1> QED
  BY <1>1, <1>4 DEF End

\* The array that parse_fragments allocates after its first pass has room for
\* every fragment the second one stores, and no more, and every fragment is a
\* piece of the page: for every page, broken placeholders included.
THEOREM FragmentsFit ==
  ASSUME NEW C, NEW src \in Seq(C)
  PROVE  /\ Len(parse_fragments(src)) = fragCount(src)
         /\ \A i \in DOMAIN parse_fragments(src) :
              \E a \in 1..End(src), b \in 0..Len(src) :
                a <= b + 1 /\ parse_fragments(src)[i].text = SubSeq(src, a, b)
<1>1. Len(src) \in Nat
  OBVIOUS
<1>2. PICK g : FillRun(src, g)
  BY <1>1, FillRuns
<1> DEFINE fs == parse_fragments(src)
<1>3. fs = g[Len(src)].fragments /\ g[Len(src)] \in Filling(src)
  BY <1>1, <1>2 DEF FillRun
<1>4. Len(fs) = fragCount(src)
  BY <1>1, <1>2, <1>3, CountRuns
<1>5. fs \in Seq([type : {"literal", "variable"}, text : Slices(src)])
  BY <1>3 DEF Filling
<1> HIDE DEF fs
<1>6. ASSUME NEW i \in DOMAIN fs PROVE fs[i].text \in Slices(src)
  <2> DEFINE F == [type : {"literal", "variable"}, text : Slices(src)]
  <2>1. \A f \in F : f.text \in Slices(src)
    OBVIOUS
  <2>2. fs[i] \in F
    <3>1. fs \in Seq(F)
      BY <1>5
    <3> HIDE DEF F
    <3> QED
      BY <3>1
  <2> QED
    BY <2>1, <2>2
<1>7. ASSUME NEW s \in Slices(src)
      PROVE  \E a \in 1..End(src), b \in 0..Len(src) : a <= b + 1 /\ s = SubSeq(src, a, b)
  BY DEF Slices
<1> QED
  BY <1>4, <1>6, <1>7 DEF fs

-----------------------------------------------------------------------------
(* tpl_render.                                                             *)

Fragments(C) == Seq([type : {"literal", "variable"}, text : Seq(C)])

\* The states of the loop: dest leaves room for the NUL.
Rendering(C, destSize) ==
  {loop \in [ok : BOOLEAN, dest : Seq(C)] : Len(loop.dest) < destSize}

LEMMA DataIs ==
  ASSUME NEW C, NEW K, NEW values \in [K -> Seq(C)], NEW fragments \in Fragments(C),
         NEW i \in 1..Len(fragments)
  PROVE  Data(fragments[i], values) \in Seq(C)
<1> DEFINE F == [type : {"literal", "variable"}, text : Seq(C)]
           f == fragments[i]
<1>1. f \in F
  <2>1. fragments \in Seq(F)
    BY DEF Fragments
  <2> HIDE DEF F
  <2> QED
    BY <2>1
<1>2. f.text \in Seq(C)
  <2> HIDE DEF f
  <2> QED
    BY <1>1
<1>3. lookup(f.text, values) \in Seq(C)
  <2> HIDE DEF f
  <2>1. CASE f.text \in DOMAIN values
    <3> DEFINE S == Seq(C)
    <3>1. values \in [K -> S]
      OBVIOUS
    <3> HIDE DEF S
    <3>2. values[f.text] \in S
      BY <2>1, <3>1
    <3> QED
      BY <2>1, <3>2 DEF lookup, S
  <2>2. CASE f.text \notin DOMAIN values
    BY <2>2 DEF lookup
  <2> QED
    BY <2>1, <2>2
<1> QED
  BY <1>2, <1>3 DEF Data

LEMMA RenderRoundIs ==
  ASSUME NEW C, NEW destSize \in Nat, NEW loop \in Rendering(C, destSize),
         NEW data \in Seq(C)
  PROVE  RenderRound(loop, data, destSize) \in Rendering(C, destSize)
<1>1. loop.dest \in Seq(C) /\ Len(loop.dest) < destSize /\ loop.ok \in BOOLEAN
  BY DEF Rendering
<1>2. ASSUME NEW ok \in BOOLEAN, NEW dest \in Seq(C), Len(dest) < destSize
      PROVE  [ok |-> ok, dest |-> dest] \in Rendering(C, destSize)
  BY <1>2 DEF Rendering
<1>3. CASE loop.ok /\ Fits(Len(loop.dest), Len(data), destSize)
  <2> DEFINE dest == loop.dest \o data
  <2>1. dest \in Seq(C) /\ Len(dest) = Len(loop.dest) + Len(data)
    BY <1>1, ConcatProperties
  <2>2. Len(dest) < destSize
    BY <1>1, <1>3, <2>1 DEF Fits
  <2>3. RenderRound(loop, data, destSize) = [ok |-> TRUE, dest |-> dest]
    BY <1>3 DEF RenderRound
  <2> HIDE DEF dest
  <2> QED
    BY <1>2, <2>1, <2>2, <2>3
<1>4. CASE ~(loop.ok /\ Fits(Len(loop.dest), Len(data), destSize))
  <2>1. RenderRound(loop, data, destSize) = [ok |-> FALSE, dest |-> loop.dest]
    BY <1>4 DEF RenderRound
  <2> QED
    BY <1>1, <1>2, <2>1
<1> QED
  BY <1>3, <1>4

\* The loop, as a function of the number of rounds.
RenderRun(C, fragments, destSize, values, f) ==
  /\ f \in [0..Len(fragments) -> Rendering(C, destSize)]
  /\ f[0] = [ok |-> TRUE, dest |-> <<>>]
  /\ \A i \in 1..Len(fragments) :
       f[i] = RenderRound(f[i - 1], Data(fragments[i], values), destSize)
  /\ tpl_render(fragments, destSize, values) = f[Len(fragments)]

LEMMA RenderRuns ==
  ASSUME NEW C, NEW K, NEW values \in [K -> Seq(C)], NEW fragments \in Fragments(C),
         NEW destSize \in Nat \ {0}
  PROVE  \E f : RenderRun(C, fragments, destSize, values, f)
<1> DEFINE n == Len(fragments)
           S == Rendering(C, destSize)
           first == [ok |-> TRUE, dest |-> <<>>]
           Rendered(i, s) == RenderRound(s, Data(fragments[i], values), destSize)
           round == [i \in 1..n |-> [s \in S |-> Rendered(i, s)]]
           Body(f) == [i \in 0..n |-> IF i = 0 THEN first ELSE Rendered(i, f[i - 1])]
           Run == CHOOSE f : f = Body(f)
<1>1. n \in Nat
  BY DEF Fragments
<1>2. first \in S
  BY DEF Rendering
<1>3. \A i \in 1..n : \A s \in S : Rendered(i, s) \in S
  BY DataIs, RenderRoundIs
<1>4. Closed(n, S, round)
  <2> HIDE DEF S, n, Rendered
  <2> QED
    BY <1>3 DEF Closed
<1>5. PICK f : Loop(n, S, first, round, f)
  <2> HIDE DEF round, S, n, first
  <2> QED
    BY <1>1, <1>2, <1>4, Rounds
<1>6. f \in [0..n -> S] /\ f[0] = first /\ \A i \in 1..n : f[i] = round[i][f[i - 1]]
  BY <1>5 DEF Loop
<1> HIDE DEF S, first
<1>7. f = Body(f)
  <2> HIDE DEF Rendered
  <2>1. ASSUME NEW i \in 1..n PROVE f[i] = Rendered(i, f[i - 1])
    <3>1. f[i - 1] \in S
      BY <1>1, <1>6
    <3>2. f[i] = round[i][f[i - 1]]
      BY <1>6
    <3> QED
      BY <3>1, <3>2
  <2> QED
    BY <1>1, <1>6, <2>1
<1>8. Run = Body(Run)
  <2> HIDE DEF Body
  <2> QED
    BY <1>7
<1>9. tpl_render(fragments, destSize, values) = Run[n]
  BY DEF tpl_render, first
<1>10. Run[0] = first /\ \A i \in 1..n : Run[i] = Rendered(i, Run[i - 1])
  <2> HIDE DEF Run, Rendered
  <2>1. Run[0] = first
    BY <1>1, <1>8
  <2>2. ASSUME NEW i \in 1..n PROVE Run[i] = Rendered(i, Run[i - 1])
    <3>1. i \in 0..n /\ i # 0
      BY <1>1
    <3> QED
      BY <1>8, <3>1
  <2> QED
    BY <2>1, <2>2
<1> HIDE DEF Run
<1>11. \A i \in 0..n : Run[i] \in S
  <2> DEFINE T == {i \in 0..n : Run[i] \in S}
  <2> HIDE DEF Rendered
  <2>1. 0 \in T
    BY <1>1, <1>2, <1>10
  <2>2. ASSUME NEW i \in 1..n, i - 1 \in T PROVE i \in T
    BY <2>2, <1>3, <1>10
  <2>3. 0..n \subseteq T
    <3> HIDE DEF T
    <3> QED
      BY <1>1, <2>1, <2>2, RoundsInduction
  <2> QED
    BY <2>3
<1>12. Run \in [0..n -> S]
  <2>1. Run = [i \in 0..n |-> Run[i]]
    BY <1>8
  <2> QED
    BY <2>1, <1>11
<1>13. RenderRun(C, fragments, destSize, values, Run)
  BY <1>9, <1>10, <1>12 DEF RenderRun, S, first
<1> QED
  BY <1>13

\* tpl_render never writes past its buffer, for any fragments, variables and
\* buffer: the NUL it writes last has room too.
THEOREM RenderedFits ==
  ASSUME NEW C, NEW K, NEW values \in [K -> Seq(C)], NEW fragments \in Fragments(C),
         NEW destSize \in Nat \ {0}
  PROVE  /\ tpl_render(fragments, destSize, values) \in [ok : BOOLEAN, dest : Seq(C)]
         /\ Len(tpl_render(fragments, destSize, values).dest) < destSize
<1>1. PICK f : RenderRun(C, fragments, destSize, values, f)
  BY RenderRuns
<1>2. Len(fragments) \in Nat
  BY DEF Fragments
<1>3. tpl_render(fragments, destSize, values) \in Rendering(C, destSize)
  BY <1>1, <1>2 DEF RenderRun
<1> QED
  BY <1>3 DEF Rendering

\* tpl_render leaves the literals and values of the first n fragments in dest, each
\* in its place and whole, as it does in any larger buffer, and it returns -1
\* exactly when there is one more, which does not fit.
THEOREM RenderedWhole ==
  ASSUME NEW C, NEW K, NEW values \in [K -> Seq(C)], NEW fragments \in Fragments(C),
         NEW destSize \in Nat \ {0}
  PROVE  LET out == tpl_render(fragments, destSize, values)
         IN  \E n \in 0..Len(fragments) :
               /\ out.ok <=> n = Len(fragments)
               /\ Joins(out.dest, n, [i \in 1..n |-> Data(fragments[i], values)])
               /\ n < Len(fragments) =>
                    ~Fits(Len(out.dest), Len(Data(fragments[n + 1], values)), destSize)
               /\ \A m \in Nat :
                    m >= destSize => tpl_render(SubSeq(fragments, 1, n), m, values)
                                       = [ok |-> TRUE, dest |-> out.dest]
<1>1. PICK f : RenderRun(C, fragments, destSize, values, f)
  BY RenderRuns
<1> DEFINE L == Len(fragments)
           Enough(i) == Fits(Len(f[i].dest), Len(Data(fragments[i + 1], values)), destSize)
           D == {i \in 0..L : i = L \/ ~Enough(i)}
<1>2. L \in Nat
  BY DEF Fragments
<1>3. /\ f[0] = [ok |-> TRUE, dest |-> <<>>]
      /\ \A i \in 1..L : f[i] = RenderRound(f[i - 1], Data(fragments[i], values), destSize)
      /\ tpl_render(fragments, destSize, values) = f[L]
  BY <1>1 DEF RenderRun
<1>4. \A i \in 0..L : f[i] \in [ok : BOOLEAN, dest : Seq(C)]
  BY <1>1 DEF RenderRun, Rendering
<1>5. PICK n \in D : \A i \in D : n <= i
  <2>1. D \in SUBSET Nat /\ L \in D
    BY <1>2
  <2> HIDE DEF D
  <2> QED
    BY <2>1, LeastExists
<1>6. n \in 0..L /\ n \in Nat /\ (n = L \/ ~Enough(n))
  BY <1>2
<1>7. \A i \in 0..(n - 1) : Enough(i)
  <2> HIDE DEF Enough
  <2> QED
    BY <1>2, <1>5, <1>6
<1> HIDE DEF D, L, Enough
<1>8. \A i \in 1..n : Fits(Len(f[i - 1].dest), Len(Data(fragments[i], values)), destSize)
  <2> TAKE i \in 1..n
  <2>1. i - 1 \in 0..(n - 1) /\ (i - 1) + 1 = i
    BY <1>6
  <2> QED
    BY <1>7, <2>1 DEF Enough
<1>9. f[n].ok = TRUE /\ \A i \in 0..n : f[i].ok = TRUE
  <2> DEFINE T == {i \in 0..n : f[i].ok = TRUE}
  <2>1. 0 \in T
    BY <1>3, <1>6
  <2>2. ASSUME NEW i \in 1..n, i - 1 \in T PROVE i \in T
    <3>1. i \in 1..L /\ f[i - 1].ok = TRUE
      BY <1>2, <1>6, <2>2
    <3>2. f[i] = [ok |-> TRUE, dest |-> f[i - 1].dest \o Data(fragments[i], values)]
      BY <1>3, <1>8, <3>1 DEF RenderRound
    <3> QED
      BY <3>2
  <2>3. 0..n \subseteq T
    <3> HIDE DEF T
    <3> QED
      BY <1>6, <2>1, <2>2, RoundsInduction
  <2> QED
    BY <1>6, <2>3
<1>10. f[n] = [ok |-> TRUE, dest |-> f[n].dest]
  BY <1>4, <1>6, <1>9
<1>11. f[L] = IF n = L THEN f[n] ELSE [ok |-> FALSE, dest |-> f[n].dest]
  <2> DEFINE stuck == [ok |-> FALSE, dest |-> f[n].dest]
             T == {i \in 0..L : i > n => f[i] = stuck}
  <2>1. 0 \in T
    BY <1>2, <1>6
  <2>2. ASSUME NEW i \in 1..L, i - 1 \in T PROVE i \in T
    <3>1. CASE i <= n
      BY <1>6, <3>1
    <3>2. CASE i = n + 1
      <4>1. i - 1 = n /\ n # L
        BY <1>2, <1>6, <3>2
      <4>2. ~Fits(Len(f[n].dest), Len(Data(fragments[i], values)), destSize)
        BY <1>6, <3>2, <4>1 DEF Enough
      <4>3. f[i] = stuck
        BY <1>3, <4>1, <4>2 DEF RenderRound
      <4> QED
        BY <4>3
    <3>3. CASE i > n + 1
      <4>1. f[i - 1] = stuck
        BY <1>2, <1>6, <2>2, <3>3
      <4>2. f[i - 1].ok = FALSE /\ f[i - 1].dest = f[n].dest
        BY <4>1
      <4>3. f[i] = RenderRound(f[i - 1], Data(fragments[i], values), destSize)
        BY <1>3
      <4>4. f[i] = [ok |-> FALSE, dest |-> f[i - 1].dest]
        BY <4>2, <4>3 DEF RenderRound
      <4>5. f[i] = stuck
        BY <4>2, <4>4
      <4> QED
        BY <4>5
    <3> QED
      BY <1>6, <3>1, <3>2, <3>3
  <2>3. 0..L \subseteq T
    <3> HIDE DEF T
    <3> QED
      BY <1>2, <2>1, <2>2, RoundsInduction
  <2>4. n # L => f[L] = stuck
    <3>1. L \in T
      <4> HIDE DEF T
      <4> QED
        BY <1>2, <2>3
    <3>2. n # L => L > n
      BY <1>2, <1>6
    <3> QED
      BY <3>1, <3>2
  <2> QED
    BY <2>4
<1>12. f[L].ok <=> n = L
  BY <1>9, <1>11
<1>13. f[L].dest = f[n].dest
  BY <1>11
<1>14. n < L => ~Fits(Len(f[L].dest), Len(Data(fragments[n + 1], values)), destSize)
  BY <1>2, <1>6, <1>13 DEF Enough
<1>15. ASSUME NEW m \in Nat, m >= destSize
       PROVE  tpl_render(SubSeq(fragments, 1, n), m, values) = f[n]
  <2> DEFINE part == SubSeq(fragments, 1, n)
  <2>1. part \in Fragments(C) /\ Len(part) = n /\ \A i \in 1..n : part[i] = fragments[i]
    <3> DEFINE F == [type : {"literal", "variable"}, text : Seq(C)]
    <3>1. fragments \in Seq(F)
      BY DEF Fragments
    <3> HIDE DEF F
    <3>2. part \in Seq(F) /\ Len(part) = n /\ \A i \in 1..n : part[i] = fragments[i]
      BY <1>2, <1>6, <3>1 DEF L
    <3> QED
      BY <3>2 DEF Fragments, F
  <2> HIDE DEF part
  <2>2. m \in Nat \ {0}
    BY <1>15
  <2>3. PICK g : RenderRun(C, part, m, values, g)
    BY <2>1, <2>2, RenderRuns
  <2>4. /\ g[0] = f[0] /\ tpl_render(part, m, values) = g[n]
        /\ \A i \in 1..n : g[i] = RenderRound(g[i - 1], Data(fragments[i], values), m)
    BY <1>3, <2>1, <2>3 DEF RenderRun
  <2> DEFINE T == {i \in 0..n : g[i] = f[i]}
  <2>5. 0 \in T
    BY <1>6, <2>4
  <2>6. ASSUME NEW i \in 1..n, i - 1 \in T PROVE i \in T
    <3> DEFINE data == Data(fragments[i], values)
    <3>1. i \in 1..L /\ i - 1 \in 0..L /\ g[i - 1] = f[i - 1]
      BY <1>2, <1>6, <2>6
    <3>2. f[i] = RenderRound(f[i - 1], data, destSize)
      BY <1>3, <3>1
    <3>3. g[i] = RenderRound(f[i - 1], data, m)
      BY <2>4, <3>1
    <3>4. Fits(Len(f[i - 1].dest), Len(data), destSize)
      BY <1>8
    <3>5. data \in Seq(C) /\ f[i - 1].dest \in Seq(C)
      BY <1>4, <3>1, DataIs DEF L
    <3>6. Fits(Len(f[i - 1].dest), Len(data), m)
      <4> HIDE DEF data
      <4>1. Len(data) \in Nat /\ Len(f[i - 1].dest) \in Nat
        BY <3>5
      <4> QED
        BY <1>15, <3>4, <4>1 DEF Fits
    <3>7. g[i] = f[i]
      BY <3>2, <3>3, <3>4, <3>6 DEF RenderRound
    <3> QED
      BY <3>7
  <2> HIDE DEF T
  <2>7. 0..n \subseteq T
    BY <1>6, <2>5, <2>6, RoundsInduction
  <2> QED
    BY <1>6, <2>4, <2>7 DEF T, part
<1>16. ASSUME NEW m \in Nat, m >= destSize
       PROVE  tpl_render(SubSeq(fragments, 1, n), m, values) = [ok |-> TRUE, dest |-> f[L].dest]
  BY <1>10, <1>13, <1>15, <1>16
<1>17. Joins(f[L].dest, n, [i \in 1..n |-> Data(fragments[i], values)])
  <2> DEFINE piece == [i \in 1..n |-> Data(fragments[i], values)]
             g == [i \in 0..n |-> f[i].dest]
  <2>1. (\A i \in 0..n : g[i] = f[i].dest /\ g[i] \in Seq(C)) /\ g[0] = <<>>
    BY <1>2, <1>3, <1>4, <1>6
  <2>2. ASSUME NEW i \in 1..n PROVE piece[i] \in Seq(C) /\ g[i] = g[i - 1] \o piece[i]
    <3>1. /\ i \in 1..L /\ i - 1 \in 0..n /\ i \in 0..n
          /\ piece[i] = Data(fragments[i], values)
      BY <1>2, <1>6
    <3>2. f[i].dest = f[i - 1].dest \o Data(fragments[i], values)
      <4>1. f[i] = RenderRound(f[i - 1], Data(fragments[i], values), destSize)
        BY <1>3, <3>1
      <4>2. f[i - 1].ok = TRUE
        BY <1>9, <3>1
      <4>3. Fits(Len(f[i - 1].dest), Len(Data(fragments[i], values)), destSize)
        BY <1>8
      <4>4. f[i] = [ok |-> TRUE, dest |-> f[i - 1].dest \o Data(fragments[i], values)]
        BY <4>1, <4>2, <4>3 DEF RenderRound
      <4> DEFINE dest == f[i - 1].dest \o Data(fragments[i], values)
      <4>5. f[i] = [ok |-> TRUE, dest |-> dest]
        BY <4>4
      <4> HIDE DEF piece, g, dest
      <4>6. f[i].dest = dest
        BY <4>5
      <4> QED
        BY <4>6 DEF dest
    <3>3. piece[i] \in Seq(C)
      BY <3>1, DataIs DEF L
    <3> HIDE DEF piece, g
    <3> QED
      BY <2>1, <3>1, <3>2, <3>3
  <2> HIDE DEF piece, g
  <2>3. Joins(g[n], n, piece)
    BY <1>6, <2>1, <2>2, LoopJoins
  <2>4. g[n] = f[L].dest
    BY <1>6, <1>13, <2>1
  <2> QED
    BY <2>3, <2>4 DEF piece
<1> QED
  BY <1>3, <1>6, <1>12, <1>14, <1>16, <1>17 DEF L
=============================================================================
