------------------------- MODULE ConnectionsProofs -------------------------
(***************************************************************************)
(* Proofs about Connections, for any blocks, client cap, buffer size and   *)
(* number of failing uv_accepts.                                           *)
(***************************************************************************)
EXTENDS Connections, FiniteSetTheorems, TLAPS

\* What the state of a block's handles and of its context have to do with
\* each other.
Phase(b) ==
  /\ ctx[b] = NULL => tcp[b] = "none" /\ timer[b] = "none" /\ inflight[b] = "none"
  /\ ctx[b] # NULL /\ ~ctx[b].closing =>
       \/ tcp[b] = "reading" /\ timer[b] = "armed" /\ inflight[b] = "none"
       \/ tcp[b] = "open" /\ timer[b] = "idle" /\ inflight[b] # "none"
  /\ ctx[b] # NULL /\ ctx[b].closing =>
       /\ tcp[b] \in {"none", "closing"} /\ timer[b] \in {"none", "closing"}
       /\ tcp[b] = "none" => timer[b] = "closing" /\ inflight[b] = "none"
       /\ ctx[b].pendingCloses = (IF tcp[b] = "none" THEN 0 ELSE 1)
                                 + (IF timer[b] = "none" THEN 0 ELSE 1)

Phases == \A b \in Blocks : Phase(b)

\* next and prev lead to contexts in use and are inverse to each other, and
\* nothing is before the head.  This holds even when connections are lost.
Links ==
  /\ head # NULL => head \in Busy /\ ctx[head].prev = NULL
  /\ \A b \in Busy :
       /\ ctx[b].next # NULL => ctx[b].next \in Busy /\ ctx[ctx[b].next].prev = b
       /\ ctx[b].prev # NULL => ctx[b].prev \in Busy /\ ctx[ctx[b].prev].next = b

\* Until uv_accept fails, no connection is lost and all are counted.
AllListed ==
  refused = 0 =>
    /\ Busy \subseteq Listed
    /\ \A b \in Busy : ctx[b].prev = NULL => head = b
    /\ count = Cardinality(Busy)

\* The inductive invariant.
Inv == TypeOK /\ Phases /\ Links /\ AllListed

\* The contexts on the list are in use.
LEMMA ListedInUse ==
  ASSUME TypeOK, Links
  PROVE  Listed \subseteq Busy
<1>1. Busy \in SUBSET Busy /\ FollowsLinks(Busy)
  BY DEF Links, FollowsLinks, TypeOK
<1> QED
  BY <1>1 DEF Listed

\* The invariant is what the runs check, and more.
LEMMA InvImplies ==
  ASSUME Inv
  PROVE  TypeOK /\ ListIntact /\ NoUseAfterRelease /\ NeverAbandoned /\ ClosesCounted
<1>1. ListIntact
  BY ListedInUse DEF Inv, Links, AllListed, ListIntact
<1>2. NoUseAfterRelease /\ NeverAbandoned
  BY DEF Inv, Phases, Phase, NoUseAfterRelease, NeverAbandoned, Busy
<1>3. ClosesCounted
  BY DEF Inv, Phases, Phase, ClosesCounted, Busy
<1> QED
  BY <1>1, <1>2, <1>3 DEF Inv

\* A step that only writes the other fields of contexts leaves the list alone.
LEMMA SameList ==
  ASSUME Inv, head' = head, count' = count, refused' = refused,
         \A b \in Blocks : /\ ctx'[b] = NULL <=> ctx[b] = NULL
                           /\ ctx[b] # NULL => /\ ctx'[b].next = ctx[b].next
                                               /\ ctx'[b].prev = ctx[b].prev
  PROVE  Links' /\ AllListed'
<1>1. Busy' = Busy
  BY DEF Busy
<1>2. Links'
  BY <1>1 DEF Inv, Links, Busy
<1>3. \A S \in SUBSET Busy : FollowsLinks(S)' <=> FollowsLinks(S)
  BY DEF FollowsLinks, Busy
<1>4. Listed' = Listed
  BY <1>1, <1>3 DEF Listed
<1>5. AllListed'
  BY <1>1, <1>4 DEF Inv, AllListed, Busy
<1> QED
  BY <1>2, <1>5

\* What client_manager_alloc and client_manager_link write is a context.
LEMMA NewContext ==
  ASSUME NEW h \in Blocks \cup {NULL}
  PROVE  /\ NewCtx \in Context
         /\ [closing |-> FALSE, pendingCloses |-> 0, totalRead |-> 0,
             next |-> h, prev |-> NULL] \in Context
BY SizeAssumption DEF Context, NewCtx

\* client_manager_link of a new context keeps the list.
LEMMA LinkKeepsList ==
  ASSUME Inv, NEW b \in Blocks \ Busy,
         ctx' = Link([ctx EXCEPT ![b] = NewCtx], b),
         head' = b, count' = count + 1, refused' = refused
  PROVE  /\ ctx' \in [Blocks -> Context \cup {NULL}]
         /\ ctx'[b] # NULL /\ ~ctx'[b].closing
         /\ \A x \in Blocks \ {b} :
              /\ ctx'[x] = NULL <=> ctx[x] = NULL
              /\ ctx[x] # NULL => /\ ctx'[x].closing = ctx[x].closing
                                  /\ ctx'[x].pendingCloses = ctx[x].pendingCloses
         /\ Links' /\ AllListed'
<1>1. /\ ctx \in [Blocks -> Context \cup {NULL}] /\ ctx[b] = NULL /\ head \in Busy \cup {NULL}
      /\ NULL \notin Blocks /\ b # head /\ Busy \subseteq Blocks
  BY BlockAssumption DEF Inv, TypeOK, Links, Busy
<1>2. ctx'[b] = [closing |-> FALSE, pendingCloses |-> 0, totalRead |-> 0,
                 next |-> head, prev |-> NULL]
  BY <1>1 DEF Link, NewCtx
<1> DEFINE new == ctx'[b]
<1>21. new.next = head /\ new.prev = NULL /\ new.closing = FALSE
  BY <1>2
<1>3. new \in Context
  <2>1. head \in Blocks \cup {NULL}
    BY <1>1
  <2> QED
    BY <1>2, <2>1, NewContext
<1>4. \A x \in Blocks \ {b} :
        ctx'[x] = IF x = head THEN [ctx[x] EXCEPT !.prev = b] ELSE ctx[x]
  BY <1>1 DEF Link
<1>5. \A x \in Busy : /\ x # b /\ ctx[x] \in Context /\ ctx'[x] \in Context
                      /\ ctx'[x].next = ctx[x].next
                      /\ ctx'[x].prev = IF x = head THEN b ELSE ctx[x].prev
                      /\ ctx'[x].closing = ctx[x].closing
                      /\ ctx'[x].pendingCloses = ctx[x].pendingCloses
  <2> SUFFICES ASSUME NEW x \in Busy
               PROVE  /\ x # b /\ ctx[x] \in Context /\ ctx'[x] \in Context
                      /\ ctx'[x].next = ctx[x].next
                      /\ ctx'[x].prev = IF x = head THEN b ELSE ctx[x].prev
                      /\ ctx'[x].closing = ctx[x].closing
                      /\ ctx'[x].pendingCloses = ctx[x].pendingCloses
    OBVIOUS
  <2>1. x # b /\ ctx[x] \in Context
    BY <1>1 DEF Busy
  <2>2. CASE x = head
    <3>1. ctx'[x] = [ctx[x] EXCEPT !.prev = b]
      BY <1>4, <2>1, <2>2 DEF Busy
    <3> QED
      BY <2>1, <2>2, <3>1 DEF Context
  <2>3. CASE x # head
    BY <1>4, <2>1, <2>3 DEF Busy
  <2> QED
    BY <2>2, <2>3
<1>6. \A x \in Blocks \ {b} : x \notin Busy => ctx'[x] = NULL
  BY <1>1, <1>4 DEF Busy
<1>7. Busy' = Busy \cup {b}
  BY <1>3, <1>5, <1>6, NullAssumption DEF Busy
<1>8. ctx' \in [Blocks -> Context \cup {NULL}]
  <2>1. ctx' = [x \in Blocks |-> ctx'[x]]
    BY DEF Link
  <2> QED
    BY <2>1, <1>3, <1>5, <1>6 DEF Busy
<1>9. /\ head # NULL => ctx[head].prev = NULL
      /\ \A x \in Busy :
           /\ ctx[x].next # NULL => ctx[x].next \in Busy /\ ctx[ctx[x].next].prev = x
           /\ ctx[x].prev # NULL => ctx[x].prev \in Busy /\ ctx[ctx[x].prev].next = x
  BY DEF Inv, Links
<1>10. Links'
  <2>1. head' \in Busy' /\ ctx'[head'].prev = NULL
    BY <1>2, <1>7
  <2>2. /\ ctx'[b].next # NULL => ctx'[b].next \in Busy' /\ ctx'[ctx'[b].next].prev = b
        /\ ctx'[b].prev = NULL
    BY <1>1, <1>5, <1>7, <1>21
  <2>3. ASSUME NEW x \in Busy, ctx'[x].next # NULL
        PROVE  ctx'[x].next \in Busy' /\ ctx'[ctx'[x].next].prev = x
    <3>1. ctx[x].next \in Busy /\ ctx[ctx[x].next].prev = x /\ ctx'[x].next = ctx[x].next
      BY <1>5, <1>9, <2>3
    <3>2. ctx[x].next # head
      BY <1>1, <1>9, <3>1
    <3> QED
      BY <1>5, <1>7, <3>1, <3>2
  <2>4. ASSUME NEW x \in Busy, ctx'[x].prev # NULL
        PROVE  ctx'[x].prev \in Busy' /\ ctx'[ctx'[x].prev].next = x
    <3>1. CASE x = head
      <4>1. ctx'[x].prev = b /\ ctx'[b].next = x
        BY <1>5, <1>21, <3>1
      <4> QED
        BY <1>7, <4>1
    <3>2. CASE x # head
      <4>1. ctx'[x].prev = ctx[x].prev
        BY <1>5, <3>2
      <4>2. ctx[x].prev \in Busy /\ ctx[ctx[x].prev].next = x
        BY <1>9, <2>4, <4>1
      <4> QED
        BY <1>5, <1>7, <4>1, <4>2
    <3> QED
      BY <3>1, <3>2
  <2> QED
    BY <1>7, <2>1, <2>2, <2>3, <2>4 DEF Links
<1>11. ASSUME refused = 0
       PROVE  AllListed'
  <2>1. ASSUME NEW S \in SUBSET Busy', FollowsLinks(S)'
        PROVE  b \in S /\ FollowsLinks(S \ {b})
    <3>1. b \in S /\ head \in S \cup {NULL} /\ \A x \in S : ctx'[x].next \in S \cup {NULL}
      BY <1>1, <1>21, <2>1 DEF FollowsLinks
    <3>2. \A x \in S \ {b} : x \in Busy /\ ctx[x].next \in (S \ {b}) \cup {NULL}
      BY <1>1, <1>5, <1>7, <1>9, <3>1
    <3> QED
      BY <1>1, <3>1, <3>2 DEF FollowsLinks
  <2>2. \A S \in SUBSET Busy' : FollowsLinks(S)' => Busy' \subseteq S
    <3> SUFFICES ASSUME NEW S \in SUBSET Busy', FollowsLinks(S)'
                 PROVE  Busy' \subseteq S
      OBVIOUS
    <3>1. S \ {b} \in SUBSET Busy /\ b \in S /\ FollowsLinks(S \ {b})
      BY <1>7, <2>1
    <3>2. Busy \subseteq S \ {b}
      BY <1>11, <3>1 DEF Inv, AllListed, Listed
    <3> QED
      BY <1>7, <3>1, <3>2
  <2>3. Busy' \subseteq Listed'
    BY <2>2 DEF Listed, Busy
  <2>4. IsFiniteSet(Busy)
    BY BlockAssumption, FS_Subset DEF Busy
  <2>5. Cardinality(Busy') = Cardinality(Busy) + 1
    BY <1>1, <1>7, <2>4, FS_AddElement DEF Busy
  <2> QED
    BY <1>1, <1>2, <1>5, <1>7, <1>11, <2>3, <2>5 DEF Inv, AllListed
<1>12. AllListed'
  BY <1>11 DEF AllListed
<1>13. \A x \in Blocks \ {b} :
         /\ ctx'[x] = NULL <=> ctx[x] = NULL
         /\ ctx[x] # NULL => /\ ctx'[x].closing = ctx[x].closing
                             /\ ctx'[x].pendingCloses = ctx[x].pendingCloses
  BY <1>5, <1>6, NullAssumption DEF Busy
<1> QED
  BY <1>3, <1>8, <1>10, <1>12, <1>13, <1>21, NullAssumption

\* client_manager_unlink and release of a context keep the list.
LEMMA UnlinkKeepsList ==
  ASSUME Inv, NEW b \in Busy,
         ctx' = Unlink(ctx, b), head' = HeadWithout(ctx, b),
         count' = count - 1, refused' = refused
  PROVE  /\ ctx' \in [Blocks -> Context \cup {NULL}]
         /\ head' \in Blocks \cup {NULL}
         /\ ctx'[b] = NULL
         /\ \A x \in Blocks \ {b} :
              /\ ctx'[x] = NULL <=> ctx[x] = NULL
              /\ ctx[x] # NULL => /\ ctx'[x].closing = ctx[x].closing
                                  /\ ctx'[x].pendingCloses = ctx[x].pendingCloses
         /\ Links' /\ AllListed'
<1> DEFINE p == ctx[b].prev
           n == ctx[b].next
<1>1. /\ ctx \in [Blocks -> Context \cup {NULL}] /\ head \in Busy \cup {NULL}
      /\ p \in Busy \cup {NULL} /\ n \in Busy \cup {NULL}
      /\ p # NULL => ctx[p].next = b
      /\ n # NULL => ctx[n].prev = b
      /\ Busy \subseteq Blocks /\ NULL \notin Blocks
  BY BlockAssumption DEF Inv, TypeOK, Links, Busy
<1>2. ctx'[b] = NULL
  BY <1>1 DEF Unlink
<1>3. \A x \in Busy \ {b} :
        /\ ctx[x] \in Context /\ ctx'[x] \in Context
        /\ ctx'[x].next = IF x = p THEN n ELSE ctx[x].next
        /\ ctx'[x].prev = IF x = n THEN p ELSE ctx[x].prev
        /\ ctx'[x].closing = ctx[x].closing
        /\ ctx'[x].pendingCloses = ctx[x].pendingCloses
  <2> SUFFICES ASSUME NEW x \in Busy \ {b}
               PROVE  LET q == IF x = p THEN n ELSE ctx[x].next
                          r == IF x = n THEN p ELSE ctx[x].prev
                      IN  /\ ctx[x] \in Context /\ ctx'[x] \in Context
                          /\ ctx'[x].next = q /\ ctx'[x].prev = r
                          /\ ctx'[x].closing = ctx[x].closing
                          /\ ctx'[x].pendingCloses = ctx[x].pendingCloses
    OBVIOUS
  <2> DEFINE q == IF x = p THEN n ELSE ctx[x].next
             r == IF x = n THEN p ELSE ctx[x].prev
  <2>1. ctx[x] \in Context
    BY <1>1 DEF Busy
  <2>2. ctx'[x] = [ctx[x] EXCEPT !.next = q, !.prev = r]
    BY <1>1 DEF Unlink, Busy
  <2>3. q \in Blocks \cup {NULL} /\ r \in Blocks \cup {NULL}
    BY <1>1, <2>1 DEF Context
  <2> HIDE DEF q, r, p, n
  <2> QED
    BY <2>1, <2>2, <2>3 DEF Context, q, r
<1>4. \A x \in Blocks \ {b} : x \notin Busy => ctx'[x] = NULL
  BY DEF Unlink, Busy
<1>5. Busy' = Busy \ {b}
  <2>1. \A x \in Blocks : x \in Busy <=> ctx[x] # NULL
    BY DEF Busy
  <2>2. \A x \in Busy \ {b} : ctx'[x] # NULL
    BY <1>3, NullAssumption
  <2> QED
    BY <1>1, <1>2, <1>4, <2>2 DEF Busy
<1>6. ctx' \in [Blocks -> Context \cup {NULL}]
  <2>1. ctx' = [x \in Blocks |-> ctx'[x]]
    BY DEF Unlink
  <2>2. \A x \in Blocks : ctx'[x] \in Context \cup {NULL}
    BY <1>2, <1>3, <1>4
  <2> QED
    BY <2>1, <2>2
<1>7. head' = IF p # NULL THEN head ELSE n
  BY DEF HeadWithout
<1>8. /\ head # NULL => ctx[head].prev = NULL
      /\ \A x \in Busy :
           /\ ctx[x].next # NULL => ctx[x].next \in Busy /\ ctx[ctx[x].next].prev = x
           /\ ctx[x].prev # NULL => ctx[x].prev \in Busy /\ ctx[ctx[x].prev].next = x
  BY DEF Inv, Links
<1>9. head' # b /\ (n = b <=> p = b)
  BY <1>1, <1>7, <1>8
<1>10. Links'
  <2>1. head' # NULL => head' \in Busy' /\ ctx'[head'].prev = NULL
    <3>1. CASE p # NULL
      <4>1. head' = head /\ (head # NULL => head \in Busy \ {b})
        BY <1>1, <1>7, <1>8, <3>1
      <4>2. head # NULL => head # n
        BY <1>1, <1>8
      <4> QED
        BY <1>3, <1>5, <1>8, <4>1, <4>2
    <3>2. CASE p = NULL
      BY <1>1, <1>3, <1>5, <1>7, <1>9, <3>2
    <3> QED
      BY <3>1, <3>2
  <2>2. ASSUME NEW x \in Busy \ {b}, ctx'[x].next # NULL
        PROVE  ctx'[x].next \in Busy' /\ ctx'[ctx'[x].next].prev = x
    <3>1. CASE x = p
      BY <1>1, <1>3, <1>5, <1>9, <2>2, <3>1
    <3>2. CASE x # p
      <4>1. ctx'[x].next = ctx[x].next
        BY <1>3, <3>2
      <4>2. ctx[x].next \in Busy /\ ctx[ctx[x].next].prev = x
        BY <1>8, <2>2, <4>1
      <4>3. ctx[x].next # b /\ ctx[x].next # n
        BY <1>1, <3>2, <4>2
      <4> QED
        BY <1>3, <1>5, <4>1, <4>2, <4>3
    <3> QED
      BY <3>1, <3>2
  <2>3. ASSUME NEW x \in Busy \ {b}, ctx'[x].prev # NULL
        PROVE  ctx'[x].prev \in Busy' /\ ctx'[ctx'[x].prev].next = x
    <3>1. CASE x = n
      BY <1>1, <1>3, <1>5, <1>9, <2>3, <3>1
    <3>2. CASE x # n
      <4>1. ctx'[x].prev = ctx[x].prev
        BY <1>3, <3>2
      <4>2. ctx[x].prev \in Busy /\ ctx[ctx[x].prev].next = x
        BY <1>8, <2>3, <4>1
      <4>3. ctx[x].prev # b /\ ctx[x].prev # p
        BY <1>1, <3>2, <4>2
      <4> QED
        BY <1>3, <1>5, <4>1, <4>2, <4>3
    <3> QED
      BY <3>1, <3>2
  <2> QED
    BY <1>5, <2>1, <2>2, <2>3 DEF Links
<1>11. ASSUME refused = 0
       PROVE  /\ Busy' \subseteq Listed'
              /\ \A x \in Busy' : ctx'[x].prev = NULL => head' = x
              /\ count' = Cardinality(Busy')
  <2>1. \A x \in Busy : ctx[x].prev = NULL => head = x
    BY <1>11 DEF Inv, AllListed
  <2>2. ASSUME NEW S \in SUBSET Busy', FollowsLinks(S)'
        PROVE  Busy' \subseteq S
    \* b followed its neighbour; put back behind it, S was closed before.
    <3> DEFINE T == IF p \in S \cup {NULL} THEN S \cup {b} ELSE S
    <3>1. head' \in S \cup {NULL} /\ \A x \in S : ctx'[x].next \in S \cup {NULL}
      BY <2>2 DEF FollowsLinks
    <3>2. S \subseteq Busy \ {b}
      BY <1>5
    <3>3. p = NULL => head = b
      BY <2>1
    <3>4. p # NULL => head' = head
      BY <1>7
    <3>5. head \in T \cup {NULL}
      BY <3>1, <3>3, <3>4
    <3>6. p \in S \cup {NULL} => n \in S \cup {NULL}
      <4>1. CASE p = NULL
        BY <1>7, <3>1, <4>1
      <4>2. CASE p \in S
        BY <1>1, <1>3, <3>1, <3>2, <4>2
      <4> QED
        BY <4>1, <4>2
    <3>7. \A x \in S : x # p => ctx[x].next \in S \cup {NULL}
      BY <1>3, <3>1, <3>2
    <3>8. p # NULL => ctx[p].next = b
      BY <1>1
    <3>9. \A x \in T : ctx[x].next \in T \cup {NULL}
      <4>1. CASE p \in S \cup {NULL}
        BY <1>1, <3>2, <3>6, <3>7, <3>8, <4>1
      <4>2. CASE p \notin S \cup {NULL}
        BY <3>7, <4>2
      <4> QED
        BY <4>1, <4>2
    <3>10. T \in SUBSET Busy /\ FollowsLinks(T)
      <4> HIDE DEF p
      <4>1. T \subseteq Busy
        BY <3>2
      <4> HIDE DEF T
      <4> QED
        BY <3>5, <3>9, <4>1 DEF FollowsLinks
    <3>11. Busy \subseteq T
      <4> HIDE DEF T
      <4> QED
        BY <1>11, <3>10 DEF Inv, AllListed, Listed
    <3> QED
      BY <1>5, <3>11
  <2>3. Busy' \subseteq Listed'
    BY <2>2 DEF Listed, Busy
  <2>4. \A x \in Busy' : ctx'[x].prev = NULL => head' = x
    <3> SUFFICES ASSUME NEW x \in Busy \ {b}, ctx'[x].prev = NULL
                 PROVE  head' = x
      BY <1>5
    <3>1. CASE x = n
      BY <1>3, <1>7, <3>1
    <3>2. CASE x # n
      <4>1. ctx[x].prev = NULL /\ head = x
        BY <1>3, <2>1, <3>2
      <4> QED
        BY <1>7, <2>1, <4>1
    <3> QED
      BY <3>1, <3>2
  <2>5. count' = Cardinality(Busy')
    <3>1. IsFiniteSet(Busy)
      BY BlockAssumption, FS_Subset DEF Busy
    <3>2. Cardinality(Busy') = Cardinality(Busy) - 1
      BY <1>5, <3>1, FS_RemoveElement
    <3> QED
      BY <1>11, <3>2 DEF Inv, AllListed
  <2> QED
    BY <2>3, <2>4, <2>5
<1>12. AllListed'
  BY <1>11 DEF AllListed
<1>13. head' \in Blocks \cup {NULL}
  BY <1>1, <1>7
<1>14. \A x \in Blocks \ {b} :
         /\ ctx'[x] = NULL <=> ctx[x] = NULL
         /\ ctx[x] # NULL => /\ ctx'[x].closing = ctx[x].closing
                             /\ ctx'[x].pendingCloses = ctx[x].pendingCloses
  BY <1>3, <1>4, NullAssumption DEF Busy
<1> QED
  BY <1>2, <1>6, <1>10, <1>12, <1>13, <1>14

\* What a step does to one block only shows in that block's phase.
LEMMA OtherPhases ==
  ASSUME Inv, NEW b \in Blocks, Phase(b)',
         \A x \in Blocks \ {b} :
           /\ ctx'[x] = NULL <=> ctx[x] = NULL
           /\ ctx[x] # NULL => /\ ctx'[x].closing = ctx[x].closing
                               /\ ctx'[x].pendingCloses = ctx[x].pendingCloses
           /\ tcp'[x] = tcp[x] /\ timer'[x] = timer[x] /\ inflight'[x] = inflight[x]
  PROVE  Phases'
BY DEF Inv, Phases, Phase

\* What the type invariant says of one block.
LEMMA BlockTypes ==
  ASSUME Inv, NEW b \in Blocks
  PROVE  /\ ctx[b] \in Context \cup {NULL}
         /\ tcp[b] \in {"none", "open", "reading", "closing"}
         /\ timer[b] \in {"none", "idle", "armed", "closing"}
         /\ inflight[b] \in {"none", "keep", "last"}
         /\ Phase(b)
         /\ b # NULL
BY BlockAssumption DEF Inv, TypeOK, Phases

\* A context is its fields.
LEMMA ContextRecord ==
  ASSUME NEW c \in Context
  PROVE  /\ c = [closing |-> c.closing, pendingCloses |-> c.pendingCloses,
                 totalRead |-> c.totalRead, next |-> c.next, prev |-> c.prev]
         /\ c.closing \in BOOLEAN /\ c.pendingCloses \in 0..2 /\ c.totalRead \in 0..BufferSize
         /\ c.next \in Blocks \cup {NULL} /\ c.prev \in Blocks \cup {NULL}
BY DEF Context

\* What close_client writes into a context.
LEMMA ClosingContext ==
  ASSUME NEW c \in Context, NEW d, d = [c EXCEPT !.closing = TRUE, !.pendingCloses = 2]
  PROVE  /\ d \in Context /\ d.closing = TRUE /\ d.pendingCloses = 2
         /\ d.next = c.next /\ d.prev = c.prev
<1>1. TRUE \in BOOLEAN /\ 2 \in 0..2
  OBVIOUS
<1> QED
  BY <1>1, ContextRecord DEF Context

\* What on_read and on_write_complete write into a context.
LEMMA ReadContext ==
  ASSUME NEW c \in Context, NEW n \in 0..BufferSize, NEW d, d = [c EXCEPT !.totalRead = n]
  PROVE  /\ d \in Context /\ d.next = c.next /\ d.prev = c.prev
         /\ d.closing = c.closing /\ d.pendingCloses = c.pendingCloses
BY ContextRecord DEF Context

\* What on_close writes into a context that waits for another callback.
LEMMA CountedContext ==
  ASSUME NEW c \in Context, NEW n \in 0..2, NEW d, d = [c EXCEPT !.pendingCloses = n]
  PROVE  /\ d \in Context /\ d.pendingCloses = n
         /\ d.next = c.next /\ d.prev = c.prev /\ d.closing = c.closing
BY ContextRecord DEF Context

\* close_client for some of the listed connections; the write in flight on
\* one of them may end with it.
LEMMA CloseOK ==
  ASSUME Inv, NEW S \in SUBSET Busy, CloseClients(S, ctx, tcp, timer),
         inflight' \in [Blocks -> {"none", "keep", "last"}],
         \A b \in Blocks : inflight'[b] = inflight[b] \/ (b \in S /\ inflight'[b] = "none"),
         listener' \in {"polling", "stalled", "closed"},
         loop' \in {"running", "stopping", "draining", "down"},
         UNCHANGED <<head, count, refused>>
  PROVE  Inv'
<1> DEFINE fresh == {b \in S : ~ctx[b].closing}
<1>1. /\ ctx' = [b \in Blocks |->
                   IF b \in fresh THEN [ctx[b] EXCEPT !.closing = TRUE, !.pendingCloses = 2]
                   ELSE ctx[b]]
      /\ tcp' = [b \in Blocks |-> IF b \in fresh THEN "closing" ELSE tcp[b]]
      /\ timer' = [b \in Blocks |-> IF b \in fresh THEN "closing" ELSE timer[b]]
  BY DEF CloseClients
<1>2. \A b \in fresh : b \in Blocks /\ ctx[b] # NULL /\ ctx[b] \in Context
  BY BlockTypes DEF Busy
<1>3. \A b \in fresh : /\ ctx'[b] \in Context
                       /\ ctx'[b].closing = TRUE /\ ctx'[b].pendingCloses = 2
                       /\ ctx'[b].next = ctx[b].next /\ ctx'[b].prev = ctx[b].prev
                       /\ tcp'[b] = "closing" /\ timer'[b] = "closing"
  <2> SUFFICES ASSUME NEW b \in fresh
               PROVE  /\ ctx'[b] \in Context
                      /\ ctx'[b].closing = TRUE /\ ctx'[b].pendingCloses = 2
                      /\ ctx'[b].next = ctx[b].next /\ ctx'[b].prev = ctx[b].prev
                      /\ tcp'[b] = "closing" /\ timer'[b] = "closing"
    OBVIOUS
  <2>1. ctx'[b] = [ctx[b] EXCEPT !.closing = TRUE, !.pendingCloses = 2]
    BY <1>1, <1>2
  <2> HIDE DEF fresh
  <2> QED
    BY <1>1, <1>2, <2>1, ClosingContext
<1>4. \A b \in Blocks \ fresh :
        ctx'[b] = ctx[b] /\ tcp'[b] = tcp[b] /\ timer'[b] = timer[b]
  BY <1>1
<1> HIDE DEF fresh
<1>5. \A b \in Blocks : /\ ctx'[b] \in Context \cup {NULL}
                        /\ tcp'[b] \in {"none", "open", "reading", "closing"}
                        /\ timer'[b] \in {"none", "idle", "armed", "closing"}
  BY <1>3, <1>4, BlockTypes
<1>6. TypeOK'
  BY <1>1, <1>5 DEF Inv, TypeOK
<1>7. Links' /\ AllListed'
  BY <1>2, <1>3, <1>4, NullAssumption, SameList
<1>8. Phases'
  <2> SUFFICES ASSUME NEW b \in Blocks
               PROVE  Phase(b)'
    BY DEF Phases
  <2>1. CASE b \in fresh
    BY <1>3, <2>1, NullAssumption DEF Phase
  <2>2. CASE b \notin fresh
    <3>1. Phase(b) /\ ctx'[b] = ctx[b] /\ tcp'[b] = tcp[b] /\ timer'[b] = timer[b]
      BY <1>4, <2>2, BlockTypes
    <3>2. inflight'[b] = inflight[b] \/ (ctx[b].closing /\ inflight'[b] = "none")
      BY <2>2 DEF fresh
    <3> QED
      BY <3>1, <3>2 DEF Phase
  <2> QED
    BY <2>1, <2>2
<1> QED
  BY <1>6, <1>7, <1>8 DEF Inv

\* A step of one open or closing block that writes other fields of its context
\* than next and prev, and states of its handles that fit.
LEMMA FieldsOK ==
  ASSUME Inv, NEW b \in Busy, NEW c \in Context, c.next = ctx[b].next, c.prev = ctx[b].prev,
         NEW fd \in {"none", "open", "reading", "closing"},
         NEW tm \in {"none", "idle", "armed", "closing"},
         NEW wr \in {"none", "keep", "last"},
         ctx' = [ctx EXCEPT ![b] = c], tcp' = [tcp EXCEPT ![b] = fd],
         timer' = [timer EXCEPT ![b] = tm], inflight' = [inflight EXCEPT ![b] = wr],
         Phase(b)',
         UNCHANGED <<head, count, listener, loop, refused>>
  PROVE  Inv'
<1>1. /\ ctx \in [Blocks -> Context \cup {NULL}] /\ b \in Blocks /\ ctx[b] # NULL
      /\ tcp \in [Blocks -> {"none", "open", "reading", "closing"}]
      /\ timer \in [Blocks -> {"none", "idle", "armed", "closing"}]
      /\ inflight \in [Blocks -> {"none", "keep", "last"}]
  BY DEF Inv, TypeOK, Busy
<1>2. TypeOK'
  BY <1>1 DEF Inv, TypeOK
<1>3. ctx'[b] = c /\ c # NULL /\ \A x \in Blocks \ {b} : ctx'[x] = ctx[x]
  BY <1>1, NullAssumption
<1>4. Links' /\ AllListed'
  BY <1>1, <1>3, SameList
<1>5. \A x \in Blocks \ {b} :
        tcp'[x] = tcp[x] /\ timer'[x] = timer[x] /\ inflight'[x] = inflight[x]
  BY <1>1
<1>6. Phases'
  BY <1>1, <1>3, <1>5, OtherPhases
<1> QED
  BY <1>2, <1>4, <1>6 DEF Inv

\* on_read keeps the invariant.
LEMMA ReadOK ==
  ASSUME Inv, NEW b \in Blocks, ReadError(b) \/ ReadPart(b) \/ ReadRequest(b)
  PROVE  Inv'
<1>1. /\ tcp[b] = "reading" /\ ctx[b] # NULL /\ ctx[b] \in Context /\ b \in Busy
      /\ ~ctx[b].closing /\ timer[b] = "armed" /\ inflight[b] = "none"
      /\ ctx \in [Blocks -> Context \cup {NULL}]
      /\ tcp \in [Blocks -> {"none", "open", "reading", "closing"}]
      /\ timer \in [Blocks -> {"none", "idle", "armed", "closing"}]
      /\ inflight \in [Blocks -> {"none", "keep", "last"}]
  BY BlockTypes DEF ReadError, ReadPart, ReadRequest, Phase, Busy, Inv, TypeOK
<1>2. CASE ReadError(b)
  <2>1. CloseClients({b}, ctx, tcp, timer) /\ inflight' = inflight
    BY <1>2 DEF ReadError, close_client
  <2> QED
    BY <1>1, <1>2, <2>1, CloseOK DEF ReadError, Inv, TypeOK
<1> DEFINE c == [ctx[b] EXCEPT !.totalRead = @ + 1]
<1>3. ASSUME ctx[b].totalRead < BufferSize
      PROVE  /\ c \in Context /\ c.next = ctx[b].next /\ c.prev = ctx[b].prev
             /\ c.closing = ctx[b].closing /\ c.pendingCloses = ctx[b].pendingCloses
  <2>1. ctx[b].totalRead + 1 \in 0..BufferSize
    BY <1>1, <1>3, SizeAssumption DEF Context
  <2> QED
    BY <1>1, <2>1, ReadContext
<1>4. CASE ReadPart(b)
  <2>1. ctx' = [ctx EXCEPT ![b] = c]
    BY <1>4 DEF ReadPart
  <2>2. /\ tcp' = [tcp EXCEPT ![b] = "reading"] /\ timer' = [timer EXCEPT ![b] = "armed"]
        /\ inflight' = [inflight EXCEPT ![b] = "none"]
    BY <1>1, <1>4 DEF ReadPart, libuv
  <2>3. /\ c \in Context /\ c.next = ctx[b].next /\ c.prev = ctx[b].prev /\ c.closing = FALSE
    BY <1>1, <1>3, <1>4 DEF ReadPart
  <2> HIDE DEF c
  <2>4. Phase(b)'
    BY <1>1, <2>1, <2>2, <2>3, NullAssumption DEF Phase
  <2> QED
    BY <1>1, <1>4, <2>1, <2>2, <2>3, <2>4, FieldsOK DEF ReadPart
<1>5. CASE ReadRequest(b)
  <2>1. /\ c \in Context /\ c.next = ctx[b].next /\ c.prev = ctx[b].prev /\ c.closing = FALSE
    BY <1>1, <1>3, <1>5 DEF ReadRequest
  <2>2. ASSUME NEW keep \in {"keep", "last"}, inflight' = [inflight EXCEPT ![b] = keep],
               ctx' = [ctx EXCEPT ![b] = c], tcp' = [tcp EXCEPT ![b] = "open"],
               timer' = [timer EXCEPT ![b] = "idle"]
        PROVE  Inv'
    <3> HIDE DEF c
    <3>1. Phase(b)'
      BY <1>1, <2>1, <2>2, NullAssumption DEF Phase
    <3> QED
      BY <1>1, <1>5, <2>1, <2>2, <3>1, FieldsOK DEF ReadRequest
  <2>3. ASSUME inflight' = inflight,
               CloseClients({b}, [ctx EXCEPT ![b] = c], [tcp EXCEPT ![b] = "open"],
                            [timer EXCEPT ![b] = "idle"])
        PROVE  Inv'
    <3> DEFINE d == [c EXCEPT !.closing = TRUE, !.pendingCloses = 2]
               C == [ctx EXCEPT ![b] = c]
    <3>1. C[b] = c /\ \A x \in Blocks \ {b} : C[x] = ctx[x]
      BY <1>1
    <3>2. /\ ctx' = [x \in Blocks |-> IF x = b THEN d ELSE ctx[x]]
          /\ tcp' = [x \in Blocks |-> IF x = b THEN "closing" ELSE tcp[x]]
          /\ timer' = [x \in Blocks |-> IF x = b THEN "closing" ELSE timer[x]]
      <4> HIDE DEF c
      <4> QED
        BY <1>1, <2>1, <2>3, <3>1 DEF CloseClients
    <3>3. /\ d \in Context /\ d.closing = TRUE /\ d.pendingCloses = 2
          /\ d.next = ctx[b].next /\ d.prev = ctx[b].prev
      BY <2>1, ClosingContext
    <3> HIDE DEF c, d, C
    <3>4. /\ ctx' = [ctx EXCEPT ![b] = d] /\ tcp' = [tcp EXCEPT ![b] = "closing"]
          /\ timer' = [timer EXCEPT ![b] = "closing"]
          /\ inflight' = [inflight EXCEPT ![b] = "none"]
      BY <1>1, <2>3, <3>2
    <3>5. Phase(b)'
      BY <1>1, <3>3, <3>4, NullAssumption DEF Phase
    <3> QED
      BY <1>1, <1>5, <3>3, <3>4, <3>5, FieldsOK DEF ReadRequest
  <2> QED
    BY <1>5, <2>2, <2>3 DEF ReadRequest
<1> QED
  BY <1>2, <1>4, <1>5

\* on_write_complete keeps the invariant.
LEMMA WriteOK ==
  ASSUME Inv, NEW b \in Blocks, on_write_complete(b)
  PROVE  Inv'
<1>1. /\ inflight[b] # "none" /\ ctx[b] # NULL /\ ctx[b] \in Context /\ b \in Busy
      /\ Phase(b)
      /\ ctx \in [Blocks -> Context \cup {NULL}]
      /\ tcp \in [Blocks -> {"none", "open", "reading", "closing"}]
      /\ timer \in [Blocks -> {"none", "idle", "armed", "closing"}]
      /\ inflight \in [Blocks -> {"none", "keep", "last"}]
      /\ inflight' = [inflight EXCEPT ![b] = "none"]
  BY BlockTypes DEF on_write_complete, Phase, Busy, Inv, TypeOK
<1>2. CASE close_client(b)
  <2>1. /\ inflight' \in [Blocks -> {"none", "keep", "last"}]
        /\ \A x \in Blocks : inflight'[x] = inflight[x] \/ (x \in {b} /\ inflight'[x] = "none")
    BY <1>1
  <2>2. CloseClients({b}, ctx, tcp, timer)
    BY <1>2 DEF close_client
  <2> QED
    BY <1>1, <2>1, <2>2, CloseOK DEF on_write_complete, Inv, TypeOK
<1>3. CASE Rearm(b)
  <2> DEFINE c == [ctx[b] EXCEPT !.totalRead = 0]
             fd == IF tcp[b] = "closing" THEN "closing" ELSE "reading"
             tm == IF timer[b] \in {"closing", "none"} THEN timer[b] ELSE "armed"
  <2>1. /\ c \in Context /\ c.next = ctx[b].next /\ c.prev = ctx[b].prev
        /\ c.closing = ctx[b].closing /\ c.pendingCloses = ctx[b].pendingCloses
    <3>1. 0 \in 0..BufferSize
      BY SizeAssumption
    <3> QED
      BY <1>1, <3>1, ReadContext
  <2>2. /\ ctx' = [ctx EXCEPT ![b] = c] /\ tcp' = [tcp EXCEPT ![b] = fd]
        /\ timer' = [timer EXCEPT ![b] = tm]
    BY <1>1, <1>3 DEF Rearm
  <2>3. /\ fd \in {"none", "open", "reading", "closing"}
        /\ tm \in {"none", "idle", "armed", "closing"}
    BY <1>1
  <2>4. /\ ~ctx[b].closing => fd = "reading" /\ tm = "armed"
        /\ ctx[b].closing => fd = tcp[b] /\ tm = timer[b]
    BY <1>1 DEF Phase
  <2> HIDE DEF c, fd, tm
  <2>5. /\ ctx'[b] = c /\ tcp'[b] = fd /\ timer'[b] = tm /\ inflight'[b] = "none" /\ c # NULL
    BY <1>1, <2>1, <2>2, NullAssumption
  <2>6. Phase(b)'
    BY <1>1, <2>1, <2>4, <2>5 DEF Phase
  <2> QED
    BY <1>1, <2>1, <2>2, <2>3, <2>6, FieldsOK DEF on_write_complete
<1> QED
  BY <1>2, <1>3 DEF on_write_complete

\* on_close, for a handle whose callback was due, keeps the invariant: the
\* last of the two releases the context, the first only counts.
LEMMA CloseCallbackOK ==
  ASSUME Inv, NEW b \in Blocks, on_close_tcp(b) \/ on_close_timer(b)
  PROVE  Inv'
<1>1. /\ ctx \in [Blocks -> Context \cup {NULL}]
      /\ tcp \in [Blocks -> {"none", "open", "reading", "closing"}]
      /\ timer \in [Blocks -> {"none", "idle", "armed", "closing"}]
      /\ inflight \in [Blocks -> {"none", "keep", "last"}]
      /\ ctx[b] # NULL /\ ctx[b] \in Context /\ ctx[b].closing /\ b \in Busy
      /\ Phase(b) /\ ctx[b].pendingCloses \in 0..2
  BY BlockTypes DEF on_close_tcp, on_close_timer, Phase, Busy, Inv, TypeOK, Context
<1>2. /\ CloseCallback(b)
      /\ UNCHANGED <<inflight, listener, loop, refused>>
      /\ \/ /\ tcp[b] = "closing" /\ inflight[b] = "none"
            /\ tcp' = [tcp EXCEPT ![b] = "none"] /\ timer' = timer
         \/ /\ timer[b] = "closing"
            /\ timer' = [timer EXCEPT ![b] = "none"] /\ tcp' = tcp
  BY DEF on_close_tcp, on_close_timer
<1>3. /\ tcp' \in [Blocks -> {"none", "open", "reading", "closing"}]
      /\ timer' \in [Blocks -> {"none", "idle", "armed", "closing"}]
      /\ inflight' \in [Blocks -> {"none", "keep", "last"}]
      /\ \A x \in Blocks \ {b} :
           tcp'[x] = tcp[x] /\ timer'[x] = timer[x] /\ inflight'[x] = inflight[x]
  BY <1>1, <1>2
<1>4. CASE Closes(b)
  <2>1. tcp'[b] = "none" /\ timer'[b] = "none" /\ inflight'[b] = "none"
    BY <1>1, <1>2, <1>4 DEF Phase, Closes
  <2>2. ctx' = Unlink(ctx, b) /\ head' = HeadWithout(ctx, b) /\ count' = count - 1
    BY <1>2, <1>4 DEF CloseCallback
  <2>3. /\ ctx' \in [Blocks -> Context \cup {NULL}]
        /\ head' \in Blocks \cup {NULL}
        /\ ctx'[b] = NULL
        /\ \A x \in Blocks \ {b} :
             /\ ctx'[x] = NULL <=> ctx[x] = NULL
             /\ ctx[x] # NULL => /\ ctx'[x].closing = ctx[x].closing
                                 /\ ctx'[x].pendingCloses = ctx[x].pendingCloses
        /\ Links' /\ AllListed'
    BY <1>1, <1>2, <2>2, UnlinkKeepsList
  <2>4. count' \in Int
    BY <2>2 DEF Inv, TypeOK
  <2>5. Phases'
    <3>1. Phase(b)'
      BY <2>1, <2>3 DEF Phase
    <3> QED
      BY <1>3, <2>3, <3>1, OtherPhases
  <2>6. TypeOK'
    BY <1>2, <1>3, <2>3, <2>4 DEF Inv, TypeOK
  <2> QED
    BY <2>3, <2>5, <2>6 DEF Inv
<1>5. CASE ~Closes(b)
  <2> DEFINE c == [ctx[b] EXCEPT !.pendingCloses = @ - 1]
  <2>1. ctx[b].pendingCloses - 1 \in 0..2
    BY <1>1, <1>5 DEF Closes
  <2>2. /\ c \in Context /\ c.pendingCloses = ctx[b].pendingCloses - 1
        /\ c.next = ctx[b].next /\ c.prev = ctx[b].prev /\ c.closing = ctx[b].closing
    BY <1>1, <2>1, CountedContext
  <2>3. ctx' = [ctx EXCEPT ![b] = c] /\ head' = head /\ count' = count
    BY <1>2, <1>5 DEF CloseCallback
  <2> HIDE DEF c
  <2>4. /\ tcp' = [tcp EXCEPT ![b] = tcp'[b]] /\ timer' = [timer EXCEPT ![b] = timer'[b]]
        /\ inflight' = [inflight EXCEPT ![b] = inflight[b]]
    BY <1>1, <1>2
  <2>5. ctx'[b] = c /\ c # NULL /\ inflight'[b] = inflight[b]
    BY <1>1, <1>2, <2>2, <2>3, NullAssumption
  <2>6. /\ tcp'[b] \in {"none", "open", "reading", "closing"}
        /\ timer'[b] \in {"none", "idle", "armed", "closing"}
        /\ inflight[b] \in {"none", "keep", "last"}
    BY <1>1, <1>3
  <2>7. Phase(b)'
    <3>1. CASE tcp[b] = "closing" /\ inflight[b] = "none" /\ tcp'[b] = "none" /\ timer'[b] = timer[b]
      <4>1. timer[b] = "closing" /\ ctx[b].pendingCloses = 2
        BY <1>1, <1>5, <3>1 DEF Phase, Closes
      <4>2. c.closing /\ c.pendingCloses = 1
        BY <1>1, <2>2, <4>1
      <4>3. timer'[b] = "closing" /\ inflight'[b] = "none" /\ ctx'[b].closing
            /\ ctx'[b].pendingCloses = 1 /\ ctx'[b] # NULL
        BY <2>5, <3>1, <4>1, <4>2
      <4> QED
        BY <3>1, <4>3 DEF Phase
    <3>2. CASE timer[b] = "closing" /\ timer'[b] = "none" /\ tcp'[b] = tcp[b]
      <4>1. tcp[b] = "closing" /\ ctx[b].pendingCloses = 2
        BY <1>1, <1>5, <3>2 DEF Phase, Closes
      <4>2. c.closing /\ c.pendingCloses = 1
        BY <1>1, <2>2, <4>1
      <4>3. tcp'[b] = "closing" /\ ctx'[b].closing /\ ctx'[b].pendingCloses = 1 /\ ctx'[b] # NULL
        BY <2>5, <3>2, <4>1, <4>2
      <4> QED
        BY <3>2, <4>3 DEF Phase
    <3> QED
      BY <1>1, <1>2, <3>1, <3>2
  <2> QED
    BY <1>1, <1>2, <2>2, <2>3, <2>4, <2>6, <2>7, FieldsOK
<1> QED
  BY <1>4, <1>5

\* setup_client keeps the invariant, linked, refused or stalled.
LEMMA AcceptOK ==
  ASSUME Inv, on_connection
  PROVE  Inv'
<1>1. /\ ctx \in [Blocks -> Context \cup {NULL}]
      /\ tcp \in [Blocks -> {"none", "open", "reading", "closing"}]
      /\ timer \in [Blocks -> {"none", "idle", "armed", "closing"}]
      /\ inflight \in [Blocks -> {"none", "keep", "last"}]
      /\ inflight' = inflight /\ loop' = loop
  BY DEF on_connection, Inv, TypeOK
<1>2. CASE listener' = "stalled" /\ UNCHANGED <<client, tcp, timer, refused>>
  <2>1. UNCHANGED <<ctx, head, count, tcp, timer, inflight, refused, loop>>
    BY <1>1, <1>2 DEF client
  <2>2. Links' /\ AllListed'
    BY <2>1, SameList
  <2> QED
    BY <1>2, <2>1, <2>2 DEF Inv, TypeOK, Phases, Phase
<1>3. ASSUME NEW b \in Blocks \ Busy,
             ctx' = Link([ctx EXCEPT ![b] = NewCtx], b), head' = b, count' = count + 1,
             tcp' = [tcp EXCEPT ![b] = "reading"], timer' = [timer EXCEPT ![b] = "armed"],
             refused' = refused, listener' = listener
      PROVE  Inv'
  <2>1. /\ ctx' \in [Blocks -> Context \cup {NULL}]
        /\ ctx'[b] # NULL /\ ~ctx'[b].closing
        /\ \A x \in Blocks \ {b} :
             /\ ctx'[x] = NULL <=> ctx[x] = NULL
             /\ ctx[x] # NULL => /\ ctx'[x].closing = ctx[x].closing
                                 /\ ctx'[x].pendingCloses = ctx[x].pendingCloses
        /\ Links' /\ AllListed'
    BY <1>3, LinkKeepsList
  <2>2. TypeOK'
    <3>1. head' \in Blocks \cup {NULL} /\ count' \in Int
      BY <1>3 DEF Inv, TypeOK
    <3>2. /\ tcp' \in [Blocks -> {"none", "open", "reading", "closing"}]
          /\ timer' \in [Blocks -> {"none", "idle", "armed", "closing"}]
      BY <1>1, <1>3
    <3>3. /\ inflight' \in [Blocks -> {"none", "keep", "last"}]
          /\ listener' \in {"polling", "stalled", "closed"}
          /\ loop' \in {"running", "stopping", "draining", "down"}
          /\ refused' \in 0..MaxRefused
      BY <1>1, <1>3 DEF Inv, TypeOK
    <3> QED
      BY <2>1, <3>1, <3>2, <3>3 DEF TypeOK
  <2>3. tcp'[b] = "reading" /\ timer'[b] = "armed" /\ inflight'[b] = "none"
    BY <1>1, <1>3, BlockTypes DEF Phase, Busy
  <2>4. \A x \in Blocks \ {b} :
          tcp'[x] = tcp[x] /\ timer'[x] = timer[x] /\ inflight'[x] = inflight[x]
    BY <1>1, <1>3
  <2>5. Phase(b)'
    BY <2>1, <2>3 DEF Phase
  <2>6. Phases'
    BY <2>1, <2>4, <2>5, OtherPhases
  <2> QED
    BY <2>1, <2>2, <2>6 DEF Inv
<1>4. ASSUME NEW b \in Blocks \ Busy, refused < MaxRefused,
             CloseClients({b}, [ctx EXCEPT ![b] = NewCtx], tcp, timer),
             refused' = refused + 1, head' = head, count' = count, listener' = listener
      PROVE  Inv'
  <2> DEFINE c == [NewCtx EXCEPT !.closing = TRUE, !.pendingCloses = 2]
             C == [ctx EXCEPT ![b] = NewCtx]
  <2>1. C[b] = NewCtx /\ ~NewCtx.closing /\ \A x \in Blocks \ {b} : C[x] = ctx[x]
    BY <1>1 DEF NewCtx
  <2>2. /\ ctx' = [x \in Blocks |-> IF x = b THEN c ELSE ctx[x]]
        /\ tcp' = [x \in Blocks |-> IF x = b THEN "closing" ELSE tcp[x]]
        /\ timer' = [x \in Blocks |-> IF x = b THEN "closing" ELSE timer[x]]
    <3>1. {x \in {b} : ~C[x].closing} = {b}
      BY <2>1
    <3>2. CloseClients({b}, C, tcp, timer)
      BY <1>4
    <3> HIDE DEF C
    <3> QED
      BY <2>1, <3>1, <3>2 DEF CloseClients
  <2>3. /\ c \in Context /\ c.closing = TRUE /\ c.pendingCloses = 2
        /\ c.next = NULL /\ c.prev = NULL
    <3>1. NewCtx \in Context /\ NewCtx.next = NULL /\ NewCtx.prev = NULL
      BY NewContext DEF NewCtx
    <3> QED
      BY <3>1, ClosingContext
  <2> HIDE DEF c, C
  <2>4. /\ ctx'[b] = c /\ c # NULL /\ tcp'[b] = "closing" /\ timer'[b] = "closing"
        /\ \A x \in Blocks \ {b} :
             ctx'[x] = ctx[x] /\ tcp'[x] = tcp[x] /\ timer'[x] = timer[x] /\ inflight'[x] = inflight[x]
    BY <1>1, <2>2, <2>3, NullAssumption
  <2>5. refused \in 0..MaxRefused /\ refused' \in 0..MaxRefused /\ refused' # 0
    BY <1>4, RefusedAssumption DEF Inv, TypeOK
  <2>6. TypeOK'
    BY <1>1, <1>4, <2>2, <2>3, <2>5 DEF Inv, TypeOK
  <2>7. Phases'
    <3>1. Phase(b)'
      BY <2>3, <2>4 DEF Phase
    <3> QED
      BY <2>4, <3>1, OtherPhases
  <2>8. Busy' = Busy \cup {b} /\ b \notin Busy /\ NULL \notin Busy
    BY <2>4, BlockAssumption DEF Busy
  <2>9. \A x \in Busy : x \in Blocks \ {b} /\ ctx'[x] = ctx[x]
    BY <2>4 DEF Busy
  <2>10. Links'
    BY <1>4, <2>3, <2>4, <2>8, <2>9 DEF Inv, Links
  <2> QED
    BY <2>5, <2>6, <2>7, <2>10 DEF Inv, AllListed
<1> QED
  BY <1>2, <1>3, <1>4 DEF on_connection

\* A signal, server_shutdown and the end of the final uv_run keep the
\* invariant.
LEMMA ShutdownOK ==
  ASSUME Inv, on_signal \/ server_shutdown \/ server_down
  PROVE  Inv'
<1>1. CASE on_signal
  <2>1. UNCHANGED <<ctx, head, count, tcp, timer, inflight, refused, listener>> /\ loop' = "stopping"
    BY <1>1 DEF on_signal, client, libuv
  <2>2. Links' /\ AllListed'
    BY <2>1, SameList
  <2> QED
    BY <2>1, <2>2 DEF Inv, TypeOK, Phases, Phase
<1>2. CASE server_shutdown
  <2>1. Listed \in SUBSET Busy
    BY ListedInUse DEF Inv
  <2> QED
    BY <1>2, <2>1, CloseOK DEF server_shutdown, Inv, TypeOK
<1>3. CASE server_down
  <2>1. /\ \A b \in Blocks : tcp[b] = "none" /\ timer[b] = "none"
        /\ loop' = "down" /\ ctx' = [b \in Blocks |-> NULL] /\ head' = NULL /\ count' = 0
        /\ UNCHANGED <<tcp, timer, inflight, listener, refused>>
    BY <1>3 DEF server_down, libuv
  <2>2. Busy' = {}
    BY <2>1 DEF Busy
  <2>3. Links' /\ AllListed'
    BY <2>1, <2>2, FS_EmptySet DEF Links, AllListed
  <2>4. TypeOK'
    BY <2>1 DEF Inv, TypeOK
  <2>5. Phases'
    <3> SUFFICES ASSUME NEW b \in Blocks
                 PROVE  Phase(b)'
      BY DEF Phases
    <3>1. inflight[b] = "none"
      BY <2>1, BlockTypes DEF Phase
    <3> QED
      BY <2>1, <3>1 DEF Phase
  <2> QED
    BY <2>3, <2>4, <2>5 DEF Inv
<1> QED
  BY <1>1, <1>2, <1>3

\* The invariant holds throughout.
LEMMA InvHolds == Spec => []Inv
<1>1. Init => Inv
  <2> SUFFICES ASSUME Init
               PROVE  Inv
    OBVIOUS
  <2>1. Busy = {}
    BY DEF Init, Busy
  <2>2. TypeOK
    BY RefusedAssumption DEF Init, TypeOK
  <2>3. Phases
    BY DEF Init, Phases, Phase
  <2>4. Links /\ AllListed
    BY <2>1, FS_EmptySet DEF Init, Links, AllListed
  <2> QED
    BY <2>2, <2>3, <2>4 DEF Inv
<1>2. Inv /\ [Next]_vars => Inv'
  <2> SUFFICES ASSUME Inv, [Next]_vars
               PROVE  Inv'
    OBVIOUS
  <2>1. ASSUME NEW b \in Blocks, on_timeout(b)
        PROVE  Inv'
    <3>1. b \in Busy /\ CloseClients({b}, ctx, tcp, timer)
      BY <2>1, BlockTypes DEF on_timeout, close_client, Phase, Busy
    <3> QED
      BY <2>1, <3>1, CloseOK DEF on_timeout, Inv, TypeOK
  <2>2. CASE UNCHANGED vars
    <3>1. Links' /\ AllListed'
      BY <2>2, SameList DEF vars
    <3> QED
      BY <2>2, <3>1 DEF vars, Inv, TypeOK, Phases, Phase
  <2> QED
    BY <2>1, <2>2, AcceptOK, ReadOK, WriteOK, CloseCallbackOK, ShutdownOK DEF Next, Callback
<1> QED
  BY <1>1, <1>2, PTL DEF Spec

\* Every variable keeps its type; in particular on_buffer_alloc and on_read
\* never fill a receive buffer past its end, and pendingCloses stays in 0..2.
THEOREM TypeCorrect == Spec => []TypeOK
<1>1. Inv => TypeOK
  BY InvImplies
<1> QED
  BY <1>1, InvHolds, PTL

\* Until uv_accept fails, the doubly linked list of client_manager.c holds every
\* context in use, both ways, and activeClientsCount is its length: the cap
\* setup_client tests is the true number of connections and
\* client_manager_close_all misses none of them.
THEOREM ListStaysIntact == Spec => []ListIntact
<1>1. Inv => ListIntact
  BY InvImplies
<1> QED
  BY <1>1, InvHolds, PTL

\* on_close gives a block back to the pool only when neither handle in it is
\* open or closing and no write whose callback follows WriteReq.ctx is in
\* flight, whatever the order of the callbacks and however many connections
\* were lost.
THEOREM NothingUsedAfterRelease == Spec => []NoUseAfterRelease
<1>1. Inv => NoUseAfterRelease
  BY InvImplies
<1> QED
  BY <1>1, InvHolds, PTL

\* Every open connection is either read under an armed timer or waits for the
\* callback of its one write (on_read, on_write_complete).
THEOREM NobodyAbandoned == Spec => []NeverAbandoned
<1>1. Inv => NeverAbandoned
  BY InvImplies
<1> QED
  BY <1>1, InvHolds, PTL

\* pendingCloses is the number of close callbacks still due, so the release in
\* on_close happens once and at the last of them.
THEOREM AllClosesCounted == Spec => []ClosesCounted
<1>1. Inv => ClosesCounted
  BY InvImplies
<1> QED
  BY <1>1, InvHolds, PTL
=============================================================================
