---------------------------- MODULE Connections ----------------------------
(***************************************************************************)
(* The life of a TCP connection: connection_handler.c, client_manager.c    *)
(* and the shutdown of server.c.                                           *)
(*                                                                         *)
(* One action per libuv callback; the loop may run them in any order that  *)
(* the state of the handles allows.  libuv itself (tcp, timer, inflight,   *)
(* listener) is external and modelled from what the code relies on:        *)
(*   - a close callback runs some time after uv_close, once per handle;    *)
(*   - a write in flight gets its callback before its handle's;            *)
(*   - uv_write of one buffer to an open, accepted handle is accepted; its *)
(*     failure comes by the callback, as send_response takes for granted;  *)
(*   - uv_timer_start and uv_read_start refuse a closing handle;           *)
(*   - a listener whose callback did not uv_accept stops polling until     *)
(*     uv_accept is called.                                                *)
(* The slab pool hands out any free block; what a request says is left to  *)
(* the choice of an outcome.                                               *)
(***************************************************************************)
EXTENDS Naturals, Integers, FiniteSets

CONSTANTS
  Blocks,       \* slab blocks for ClientCtx
  MaxClients,   \* MAX_CLIENTS
  BufferSize,   \* CLIENT_BUFFER_SIZE - 1, in units of one read
  MaxRefused,   \* bound: how often uv_accept fails
  NULL

ASSUME BlockAssumption == IsFiniteSet(Blocks) /\ NULL \notin Blocks
ASSUME SizeAssumption == MaxClients \in Nat /\ BufferSize \in Nat \ {0}
ASSUME RefusedAssumption == MaxRefused \in Nat

\* ClientCtx, without its buffer.
Context == [closing : BOOLEAN, pendingCloses : 0..2, totalRead : 0..BufferSize,
            next : Blocks \cup {NULL}, prev : Blocks \cup {NULL}]

ASSUME NullAssumption == NULL \notin Context

VARIABLES
  ctx,       \* block -> NULL (free in the pool) or the ClientCtx in it
  head,      \* ptrActiveClientsHead
  count,     \* activeClientsCount
  tcp,       \* libuv: block -> state of the TCP handle inside it
  timer,     \* libuv: block -> state of the timer inside it
  inflight,  \* libuv: block -> WriteReq in flight: "none", "keep" or "last"
  listener,  \* libuv: "polling", "stalled" or "closed"
  loop,      \* "running", "stopping", "draining" or "down"
  refused    \* history: how often uv_accept has failed

client == <<ctx, head, count>>
libuv == <<tcp, timer, inflight>>
vars == <<ctx, head, count, tcp, timer, inflight, listener, loop, refused>>

Busy == {b \in Blocks : ctx[b] # NULL}

-----------------------------------------------------------------------------
(* client_manager.c                                                        *)

\* client_manager_alloc: every field is reset.
NewCtx == [closing |-> FALSE, pendingCloses |-> 0, totalRead |-> 0,
           next |-> NULL, prev |-> NULL]

\* Mutant of Link: the old head's prev is not set.
LinkForgetsPrev(c, b) ==
  [x \in Blocks |-> IF x = b THEN [c[b] EXCEPT !.next = head, !.prev = NULL] ELSE c[x]]

\* client_manager_link: b becomes the head.
Link(c, b) ==
  [x \in Blocks |->
     IF x = b THEN [c[b] EXCEPT !.next = head, !.prev = NULL]
     ELSE IF x = head THEN [c[x] EXCEPT !.prev = b]
     ELSE c[x]]

\* client_manager_unlink and client_manager_release of b.
Unlink(c, b) ==
  [x \in Blocks |->
     IF x = b \/ c[x] = NULL THEN NULL
     ELSE [c[x] EXCEPT !.next = IF x = c[b].prev THEN c[b].next ELSE @,
                       !.prev = IF x = c[b].next THEN c[b].prev ELSE @]]

HeadWithout(c, b) == IF c[b].prev # NULL THEN head ELSE c[b].next

\* S holds the head, and with a context the one behind it.
FollowsLinks(S) ==
  /\ head \in S \cup {NULL}
  /\ \A b \in S : ctx[b].next \in S \cup {NULL}

\* The connections client_manager_close_all visits: no more than the walk from
\* the head over next has to.
Listed == {b \in Blocks : \A S \in SUBSET Busy : FollowsLinks(S) => b \in S}

-----------------------------------------------------------------------------
(* connection_handler.c                                                    *)

\* Mutant of CloseClients: pendingCloses is set before the guard is tested.
CloseRecounts(S, c, fd, tm) ==
  LET fresh == {b \in S : ~c[b].closing}
  IN  /\ ctx' = [b \in Blocks |->
                   IF b \in S THEN [c[b] EXCEPT !.closing = TRUE, !.pendingCloses = 2]
                   ELSE c[b]]
      /\ tcp' = [b \in Blocks |-> IF b \in fresh THEN "closing" ELSE fd[b]]
      /\ timer' = [b \in Blocks |-> IF b \in fresh THEN "closing" ELSE tm[b]]

\* close_client for each of S: uv_close of both handles, once.  c, fd and tm
\* are the contexts and the handles so far.
CloseClients(S, c, fd, tm) ==
  LET fresh == {b \in S : ~c[b].closing}
  IN  /\ ctx' = [b \in Blocks |->
                   IF b \in fresh THEN [c[b] EXCEPT !.closing = TRUE, !.pendingCloses = 2]
                   ELSE c[b]]
      /\ tcp' = [b \in Blocks |-> IF b \in fresh THEN "closing" ELSE fd[b]]
      /\ timer' = [b \in Blocks |-> IF b \in fresh THEN "closing" ELSE tm[b]]

close_client(b) == CloseClients({b}, ctx, tcp, timer)

\* setup_client.  At the cap, or when the pool has no block left, it returns
\* without uv_accept and the listener stalls.
on_connection ==
  /\ loop \in {"running", "stopping"}
  /\ listener = "polling"
  /\ UNCHANGED <<inflight, loop>>
  /\ \/ /\ count >= MaxClients \/ Busy = Blocks
        /\ listener' = "stalled"
        /\ UNCHANGED <<client, tcp, timer, refused>>
     \/ /\ count < MaxClients
        /\ UNCHANGED listener
        /\ \E b \in Blocks \ Busy :
             LET c == [ctx EXCEPT ![b] = NewCtx]
             IN  \/ /\ ctx' = Link(c, b)
                    /\ head' = b
                    /\ count' = count + 1
                    /\ tcp' = [tcp EXCEPT ![b] = "reading"]
                    /\ timer' = [timer EXCEPT ![b] = "armed"]
                    /\ UNCHANGED refused
                 \/ /\ refused < MaxRefused
                    /\ CloseClients({b}, c, tcp, timer)
                    /\ refused' = refused + 1
                    /\ UNCHANGED <<head, count>>

\* on_read with EOF, an error, no memory for the buffer, or no room in it.
ReadError(b) ==
  /\ tcp[b] = "reading"
  /\ close_client(b)
  /\ UNCHANGED <<head, count, inflight, listener, loop, refused>>

\* Mutant of ReadPart: libuv is offered room in a full buffer.
ReadPartPastEnd(b) ==
  /\ tcp[b] = "reading"
  /\ ctx[b].totalRead <= BufferSize
  /\ ctx' = [ctx EXCEPT ![b].totalRead = @ + 1]
  /\ UNCHANGED <<head, count, libuv, listener, loop, refused>>

\* on_read of bytes that do not complete a request.
ReadPart(b) ==
  /\ tcp[b] = "reading"
  /\ ctx[b].totalRead < BufferSize
  /\ ctx' = [ctx EXCEPT ![b].totalRead = @ + 1]
  /\ UNCHANGED <<head, count, libuv, listener, loop, refused>>

\* on_read of the bytes that complete a request: stop reading and the timer,
\* then answer.  The connection is kept only after a dispatched request that
\* asked for it, not after a 429 or a 400.
ReadRequest(b) ==
  /\ tcp[b] = "reading"
  /\ ctx[b].totalRead < BufferSize
  /\ LET c == [ctx EXCEPT ![b].totalRead = @ + 1]
         fd == [tcp EXCEPT ![b] = "open"]
         tm == [timer EXCEPT ![b] = "idle"]
     IN  \/ /\ \E keep \in {"keep", "last"} : inflight' = [inflight EXCEPT ![b] = keep]
            /\ ctx' = c /\ tcp' = fd /\ timer' = tm
         \/ /\ CloseClients({b}, c, fd, tm)  \* no memory for the response
            /\ UNCHANGED inflight
  /\ UNCHANGED <<head, count, listener, loop, refused>>

\* Mutant of Rearm: the keep-alive path forgets uv_timer_start.
RearmNoTimer(b) ==
  /\ ctx' = [ctx EXCEPT ![b].totalRead = 0]
  /\ tcp' = IF tcp[b] = "closing" THEN tcp ELSE [tcp EXCEPT ![b] = "reading"]
  /\ UNCHANGED timer

\* The keep-alive path; a closing handle refuses to start.
Rearm(b) ==
  /\ ctx' = [ctx EXCEPT ![b].totalRead = 0]
  /\ tcp' = IF tcp[b] = "closing" THEN tcp ELSE [tcp EXCEPT ![b] = "reading"]
  /\ timer' = IF timer[b] \in {"closing", "none"} THEN timer
              ELSE [timer EXCEPT ![b] = "armed"]

\* The write succeeded (Rearm, if kept), failed or was cancelled.
on_write_complete(b) ==
  /\ inflight[b] # "none"
  /\ inflight' = [inflight EXCEPT ![b] = "none"]
  /\ \/ inflight[b] = "keep" /\ Rearm(b)
     \/ close_client(b)
  /\ UNCHANGED <<head, count, listener, loop, refused>>

on_timeout(b) ==
  /\ timer[b] = "armed"
  /\ close_client(b)
  /\ UNCHANGED <<head, count, inflight, listener, loop, refused>>

\* Mutant of Closes: the context is released by the first close callback.
ClosesAtOnce(b) == TRUE

\* The other handle's callback has already run.
Closes(b) == ctx[b].pendingCloses - 1 <= 0

\* on_close, for either handle of b.
CloseCallback(b) ==
  IF Closes(b)
  THEN /\ ctx' = Unlink(ctx, b)
       /\ head' = HeadWithout(ctx, b)
       /\ count' = count - 1
  ELSE /\ ctx' = [ctx EXCEPT ![b].pendingCloses = @ - 1]
       /\ UNCHANGED <<head, count>>

on_close_tcp(b) ==
  /\ tcp[b] = "closing"
  /\ inflight[b] = "none"
  /\ tcp' = [tcp EXCEPT ![b] = "none"]
  /\ CloseCallback(b)
  /\ UNCHANGED <<timer, inflight, listener, loop, refused>>

on_close_timer(b) ==
  /\ timer[b] = "closing"
  /\ timer' = [timer EXCEPT ![b] = "none"]
  /\ CloseCallback(b)
  /\ UNCHANGED <<tcp, inflight, listener, loop, refused>>

-----------------------------------------------------------------------------
(* server.c                                                                *)

on_signal ==
  /\ loop = "running"
  /\ loop' = "stopping"
  /\ UNCHANGED <<client, libuv, listener, refused>>

\* Mutant of server_shutdown: close_all stops after the first connection.
ShutdownFirstOnly ==
  /\ loop = "stopping"
  /\ CloseClients({head} \ {NULL}, ctx, tcp, timer)
  /\ listener' = "closed"
  /\ loop' = "draining"
  /\ UNCHANGED <<head, count, inflight, refused>>

\* server_shutdown up to the final uv_run.
server_shutdown ==
  /\ loop = "stopping"
  /\ CloseClients(Listed, ctx, tcp, timer)
  /\ listener' = "closed"
  /\ loop' = "draining"
  /\ UNCHANGED <<head, count, inflight, refused>>

\* The final uv_run returns when no handle is left; client_manager_destroy.
server_down ==
  /\ loop = "draining"
  /\ \A b \in Blocks : tcp[b] = "none" /\ timer[b] = "none"
  /\ loop' = "down"
  /\ ctx' = [b \in Blocks |-> NULL]
  /\ head' = NULL
  /\ count' = 0
  /\ UNCHANGED <<libuv, listener, refused>>

Init ==
  /\ ctx = [b \in Blocks |-> NULL]
  /\ head = NULL
  /\ count = 0
  /\ tcp = [b \in Blocks |-> "none"]
  /\ timer = [b \in Blocks |-> "none"]
  /\ inflight = [b \in Blocks |-> "none"]
  /\ listener = "polling"
  /\ loop = "running"
  /\ refused = 0

Callback(b) ==
  \/ ReadError(b) \/ ReadPart(b) \/ ReadRequest(b)
  \/ on_write_complete(b) \/ on_timeout(b)
  \/ on_close_tcp(b) \/ on_close_timer(b)

Next ==
  \/ on_connection
  \/ \E b \in Blocks : Callback(b)
  \/ on_signal \/ server_shutdown \/ server_down

Spec == Init /\ [][Next]_vars

\* What libuv has to call for b sooner or later: an expired timer, a close
\* callback, the callback of a write that uv_close cancels.  Any other write
\* completes when the peer reads, which nothing guarantees.
DueCallback(b) ==
  \/ on_timeout(b)
  \/ on_close_tcp(b) \/ on_close_timer(b)
  \/ tcp[b] = "closing" /\ on_write_complete(b)

\* libuv does not leave a block's due callbacks waiting forever; a signal that
\* was caught ends uv_run.
FairSpec ==
  /\ Spec
  /\ WF_vars(server_shutdown)
  /\ WF_vars(server_down)
  /\ \A b \in Blocks : WF_vars(DueCallback(b))

-----------------------------------------------------------------------------
(* Properties.                                                             *)

\* Types; a receive buffer is never filled past its end (on_buffer_alloc).
TypeOK ==
  /\ ctx \in [Blocks -> Context \cup {NULL}]
  /\ head \in Blocks \cup {NULL}
  /\ count \in Int
  /\ tcp \in [Blocks -> {"none", "open", "reading", "closing"}]
  /\ timer \in [Blocks -> {"none", "idle", "armed", "closing"}]
  /\ inflight \in [Blocks -> {"none", "keep", "last"}]
  /\ listener \in {"polling", "stalled", "closed"}
  /\ loop \in {"running", "stopping", "draining", "down"}
  /\ refused \in 0..MaxRefused

\* The active list holds exactly the contexts in use, is linked both ways,
\* and its length is the count that the client cap is tested against
\* (client_manager.c).  A refused connection breaks this for good.
ListIntact == refused = 0 =>
  /\ Listed = Busy
  /\ count = Cardinality(Busy)
  /\ \A b \in Busy :
       /\ ctx[b].next # NULL => ctx[ctx[b].next].prev = b
       /\ IF ctx[b].prev = NULL THEN head = b ELSE ctx[ctx[b].prev].next = b

\* A block goes back to the pool only when libuv is done with everything in
\* it: no handle open or closing, no write in flight whose callback would
\* follow WriteReq.ctx (connection_handler.c, on_close).
NoUseAfterRelease ==
  \A b \in Blocks : ctx[b] = NULL =>
    tcp[b] = "none" /\ timer[b] = "none" /\ inflight[b] = "none"

\* An open connection is never abandoned: either it is read under an armed
\* timer, or one response is in flight and its callback will take over
\* (on_read, on_write_complete).
NeverAbandoned ==
  \A b \in Busy : ~ctx[b].closing =>
    \/ tcp[b] = "reading" /\ timer[b] = "armed" /\ inflight[b] = "none"
    \/ tcp[b] = "open" /\ timer[b] = "idle" /\ inflight[b] # "none"

\* The close callbacks still due are the ones the context counts, so on_close
\* releases it exactly once, at the last one.
ClosesCounted ==
  \A b \in Busy : ctx[b].closing =>
    ctx[b].pendingCloses = (IF tcp[b] = "none" THEN 0 ELSE 1)
                           + (IF timer[b] = "none" THEN 0 ELSE 1)

\* A caught signal brings the server down, whatever the clients do, unless
\* uv_accept has failed: the list then misses connections that nobody closes
\* (server.c, server_shutdown).
ShutdownCompletes == (loop = "stopping") ~> (loop = "down" \/ refused > 0)

\* A connection does not wait for its next request forever, even when bytes
\* keep trickling in: the timer is not restarted by them (on_read).
IdleReaped == \A b \in Blocks : []<>(tcp[b] # "reading")

\* client_manager.h:80 "@pre ctx is currently linked in the list."
UnlinkOnlyLinked ==
  [][\A b \in Blocks : ctx[b] # NULL /\ ctx'[b] = NULL /\ loop' # "down" => b \in Listed]_vars

\* config.h MAX_CLIENTS: "hard cap on simultaneous connections": connections
\* are turned away only while the cap is reached.
StalledOnlyAtCap == listener = "stalled" => count >= MaxClients
=============================================================================
