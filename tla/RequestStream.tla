--------------------------- MODULE RequestStream ---------------------------
(***************************************************************************)
(* Bytes in, responses out: on_buffer_alloc, on_read, send_response and    *)
(* on_write_complete of connection_handler.c with the request parsing of   *)
(* http_utils.c, for several connections that share g_response_buffer.     *)
(* What Connections leaves out, the contents of the buffers, is here; what *)
(* it has, handles, timers and the list of clients, is left out here.      *)
(*                                                                         *)
(* The head of a request is two units: its start line with the headers,    *)
(* and the blank line.  picohttpparser (external) reports a head as        *)
(* incomplete, malformed or complete.  Every other unit is a byte.         *)
(*                                                                         *)
(* A client sends a request, in any pieces, and waits for the answer       *)
(* before it sends another, on this connection or on a new one.            *)
(***************************************************************************)
EXTENDS HttpText, Integers

CONSTANTS
  Clients,
  CLIENT_BUFFER_SIZE,
  FieldMax,   \* size of the buffers a handler decodes fields into
  Sends,      \* client -> the requests it may send
  Names,      \* the names of the two fields that a handler reads
  Garbage,    \* bytes that malloc may leave in a new buffer
  NULL

Byte == 0..255

\* A request: its body is sent with a POST only.
Request == [kind : {"post", "get", "bad"}, body : Seq(Byte), keepAlive : BOOLEAN]

ASSUME SizeAssumption == CLIENT_BUFFER_SIZE \in Nat \ {0} /\ FieldMax \in Nat \ {0}
ASSUME SendAssumption == \A c \in Clients : Sends[c] \subseteq Request
ASSUME GarbageAssumption == Garbage \subseteq Byte
ASSUME NullAssumption == NULL \notin Request /\ NULL \notin [1..CLIENT_BUFFER_SIZE -> Nat]

VARIABLES
  buffer,             \* client -> NULL or the contents of ctx->buffer
  totalRead,          \* client -> ctx->totalRead
  mode,               \* client -> "reading", "writing" or "closed"
  inflight,           \* client -> the WriteReq in flight
  g_response_buffer,  \* body of the latest dispatched response
  unread,             \* client -> units sent and not yet read
  asked,              \* client -> the request it waits for, or waited for last
  got                 \* client -> the response to it, or NULL

vars == <<buffer, totalRead, mode, inflight, g_response_buffer, unread, asked, got>>

-----------------------------------------------------------------------------
(* The client                                                              *)

\* Units that are not bytes.
BLANK == 1000
BAD == 1001
GET == 1002
POST(contentLength) == 2000 + contentLength

Post(body, keepAlive) == [kind |-> "post", body |-> body, keepAlive |-> keepAlive]
Plain(kind, keepAlive) == [kind |-> kind, body |-> <<>>, keepAlive |-> keepAlive]

\* A form, a request without a body, or text that is not HTTP.
Wire(r) ==
  CASE r.kind = "post" -> <<POST(Len(r.body)), BLANK>> \o r.body
    [] r.kind = "get"  -> <<GET, BLANK>>
    [] r.kind = "bad"  -> <<BAD, BLANK>>

Waiting(c) == asked[c] # NULL /\ got[c] = NULL

Send(c) ==
  /\ mode[c] = "reading" /\ ~Waiting(c)
  /\ \E r \in Sends[c] : /\ asked' = [asked EXCEPT ![c] = r]
                         /\ unread' = [unread EXCEPT ![c] = Wire(r)]
  /\ got' = [got EXCEPT ![c] = NULL]
  /\ UNCHANGED <<buffer, totalRead, mode, inflight, g_response_buffer>>

\* A new connection, in a context without a buffer.
Connect(c) ==
  /\ mode[c] = "closed"
  /\ mode' = [mode EXCEPT ![c] = "reading"]
  /\ asked' = [asked EXCEPT ![c] = NULL]
  /\ got' = [got EXCEPT ![c] = NULL]
  /\ UNCHANGED <<buffer, totalRead, unread, inflight, g_response_buffer>>

-----------------------------------------------------------------------------
(* http_utils.c                                                            *)

\* phr_parse_request on the first len units: -2, -1 or where the body starts.
phr_parse_request(buf, len) ==
  IF \E i \in 1..len : buf[i] = BAD THEN -1
  ELSE IF \E i \in 1..len : buf[i] = BLANK THEN Min({i \in 1..len : buf[i] = BLANK})
  ELSE -2

\* Mutant of BodyArrived: the body must be longer than announced.
BodyArrivedLate(len, r, cl) == len - r > cl

BodyArrived(len, r, cl) == cl <= 0 \/ len - r >= cl

http_is_request_complete(buf, len) ==
  LET r == phr_parse_request(buf, len)
  IN  /\ r # -2
      /\ r = -1 \/ buf[1] = GET \/ BodyArrived(len, r, buf[1] - POST(0))

\* The C string in s: what comes before the first NUL.
CString(s) == [i \in {k \in DOMAIN s : \A j \in 1..k : s[j] # NUL} |-> s[i]]

\* req->body of http_request_parse; a NULL body reads as the empty string.
RequestBody(buf, len) ==
  LET r == phr_parse_request(buf, len) IN IF len > r THEN CString(From(buf, r + 1)) ELSE <<>>

-----------------------------------------------------------------------------
(* connection_handler.c                                                    *)

\* What on_buffer_alloc offers.
Remaining(c) == CLIENT_BUFFER_SIZE - 1 - totalRead[c]

\* A handler that answers with two fields of the form.
Fields(body) ==
  [code |-> 200, first |-> get_field(body, Names[1], FieldMax),
   second |-> get_field(body, Names[2], FieldMax)]

handle_request(buf, len) ==
  IF buf[1] = GET THEN [code |-> 200] ELSE Fields(RequestBody(buf, len))

\* close_client and the release of the context: the buffer is freed, bytes
\* still on their way are dropped.
close_client(c) ==
  /\ mode' = [mode EXCEPT ![c] = "closed"]
  /\ buffer' = [buffer EXCEPT ![c] = NULL]
  /\ totalRead' = [totalRead EXCEPT ![c] = 0]
  /\ unread' = [unread EXCEPT ![c] = <<>>]

\* send_response: resp is copied into the WriteReq, or there is no memory.
\* Reading stops meanwhile.
send_response(c, buf, len, rest, resp, keepAlive) ==
  \/ /\ inflight' = [inflight EXCEPT ![c] = [data |-> resp, keepAlive |-> keepAlive]]
     /\ mode' = [mode EXCEPT ![c] = "writing"]
     /\ buffer' = [buffer EXCEPT ![c] = buf]
     /\ totalRead' = [totalRead EXCEPT ![c] = len]
     /\ unread' = [unread EXCEPT ![c] = rest]
  \/ close_client(c) /\ UNCHANGED inflight

\* The contents of the buffer before a read.
BufferOf(c) ==
  IF buffer[c] # NULL THEN {buffer[c]}
  ELSE {[i \in 1..CLIENT_BUFFER_SIZE |-> g] : g \in Garbage}

\* Mutant of Accumulate: the NUL is left out.
AccumulateNoNul(buf, from, n, units) ==
  [i \in 1..CLIENT_BUFFER_SIZE |->
     IF i \in (from + 1)..(from + n) THEN units[i - from] ELSE buf[i]]

\* buf after n units have been read behind the first from, NUL-terminated.
Accumulate(buf, from, n, units) ==
  [i \in 1..CLIENT_BUFFER_SIZE |->
     IF i \in (from + 1)..(from + n) THEN units[i - from]
     ELSE IF i = from + n + 1 THEN NUL ELSE buf[i]]

\* on_read with len units in buf and rest unread.  The rate limiter may
\* refuse a complete request.
Process(c, buf, len, rest) ==
  \/ /\ ~http_is_request_complete(buf, len)
     /\ buffer' = [buffer EXCEPT ![c] = buf]
     /\ totalRead' = [totalRead EXCEPT ![c] = len]
     /\ unread' = [unread EXCEPT ![c] = rest]
     /\ UNCHANGED <<mode, inflight, g_response_buffer>>
  \/ /\ http_is_request_complete(buf, len)
     /\ send_response(c, buf, len, rest, [code |-> 429], FALSE)
     /\ UNCHANGED g_response_buffer
  \/ /\ http_is_request_complete(buf, len)
     /\ phr_parse_request(buf, len) = -1
     /\ send_response(c, buf, len, rest, [code |-> 400], FALSE)
     /\ UNCHANGED g_response_buffer
  \/ /\ http_is_request_complete(buf, len)
     /\ phr_parse_request(buf, len) # -1
     /\ g_response_buffer' = handle_request(buf, len)
     /\ send_response(c, buf, len, rest, g_response_buffer', asked[c].keepAlive)

\* Any number of the unread units arrives at once, as far as there is room.
on_read(c) ==
  /\ mode[c] = "reading"
  /\ \E n \in 1..Min({Len(unread[c]), Remaining(c)}), old \in BufferOf(c) :
       Process(c, Accumulate(old, totalRead[c], n, unread[c]), totalRead[c] + n,
               From(unread[c], n + 1))
  /\ UNCHANGED <<asked, got>>

\* EOF, an error, the idle timer, no memory for the buffer or no room in it.
ReadEnds(c) ==
  /\ mode[c] = "reading"
  /\ close_client(c)
  /\ UNCHANGED <<inflight, g_response_buffer, asked, got>>

\* Mutant of Written: the response is sent from g_response_buffer.
WrittenShared(c) == g_response_buffer

\* What uv_write sends.
Written(c) == inflight[c].data

\* The response is out, and the connection kept or closed; or the write fails.
on_write_complete(c) ==
  /\ mode[c] = "writing"
  /\ inflight' = [inflight EXCEPT ![c] = NULL]
  /\ \/ /\ got' = [got EXCEPT ![c] = Written(c)]
        /\ inflight[c].keepAlive
        /\ mode' = [mode EXCEPT ![c] = "reading"]
        /\ totalRead' = [totalRead EXCEPT ![c] = 0]
        /\ UNCHANGED <<buffer, unread>>
     \/ /\ got' = [got EXCEPT ![c] = Written(c)]
        /\ ~inflight[c].keepAlive
        /\ close_client(c)
     \/ close_client(c) /\ UNCHANGED got
  /\ UNCHANGED <<g_response_buffer, asked>>

Init ==
  /\ buffer = [c \in Clients |-> NULL]
  /\ totalRead = [c \in Clients |-> 0]
  /\ mode = [c \in Clients |-> "reading"]
  /\ inflight = [c \in Clients |-> NULL]
  /\ g_response_buffer = [code |-> 0]
  /\ unread = [c \in Clients |-> <<>>]
  /\ asked = [c \in Clients |-> NULL]
  /\ got = [c \in Clients |-> NULL]

Next == \E c \in Clients :
          Send(c) \/ Connect(c) \/ on_read(c) \/ ReadEnds(c) \/ on_write_complete(c)

Spec == Init /\ [][Next]_vars

-----------------------------------------------------------------------------
(* Properties.                                                             *)

\* The answer that depends on nothing but the request.
Right(r) ==
  CASE r.kind = "post" -> Fields(CString(r.body))
    [] r.kind = "get"  -> [code |-> 200]
    [] r.kind = "bad"  -> [code |-> 400]

\* NULL in got means that there is no answer yet.
ASSUME AnswerAssumption ==
  /\ NULL # [code |-> 429]
  /\ \A c \in Clients : \A r \in Sends[c] : NULL # Right(r)

\* A client gets the answer to its own request, computed from what it sent:
\* however the request was split, whatever an earlier and longer request or
\* malloc left in the buffer, and whatever other clients were answered
\* between dispatch and write (on_read, send_response).
OwnAnswers ==
  \A c \in Clients : got[c] # NULL => got[c] \in {Right(asked[c]), [code |-> 429]}

\* The server does not wait for bytes that will not come: once it has read
\* all of a request, it has begun to answer or closed the connection
\* (http_is_request_complete).
NeverWaitsForMore ==
  \A c \in Clients : Waiting(c) /\ mode[c] = "reading" => unread[c] # <<>>
=============================================================================
