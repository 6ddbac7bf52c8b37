-------------------------- MODULE SlabPoolProofs --------------------------
(***************************************************************************)
(* Proofs about SlabPool, for any chunks and any chunk capacity.           *)
(***************************************************************************)
EXTENDS SlabPool, SequenceTheorems, FiniteSetTheorems, TLAPS

\* The slots of chunk c in the hands of the caller.
Out(c) == {s \in Slots : <<c, s>> \in held}

\* A chunk with free-list f and count u whose slots in O are handed out: the
\* free-list has each of the others, once.
Accounted(f, u, O) ==
  /\ f \in Seq(Slots)
  /\ {f[i] : i \in DOMAIN f} = Slots \ O
  /\ \A i, j \in DOMAIN f : f[i] = f[j] => i = j
  /\ Len(f) + u = chunkCapacity
  /\ u = Cardinality(O)

\* Every chunk accounts for its slots.
AllAccounted ==
  /\ \A b \in held : b[1] \in Live
  /\ \A c \in Live : Accounted(chunk[c].localFree, chunk[c].usedCount, Out(c))

\* next and prev lead to chunks that exist and are inverse to each other; only
\* the head has none before it.
Links ==
  /\ chunksHead # NULL => chunksHead \in Live /\ chunk[chunksHead].prev = NULL
  /\ \A c \in Live :
       /\ chunk[c].next # NULL => chunk[c].next \in Live /\ chunk[chunk[c].next].prev = c
       /\ chunk[c].prev # NULL => chunk[c].prev \in Live /\ chunk[chunk[c].prev].next = c
       /\ chunk[c].prev = NULL => chunksHead = c

\* No chunk is off the list: what follows next from the head is everything.
AllListed == \A S \in SUBSET Live : FollowsNext(S, Live) => Live \subseteq S

\* The inductive invariant.
Inv == TypeOK /\ AllAccounted /\ Links /\ AllListed /\ EmptyOnlyAlone

-----------------------------------------------------------------------------
(* The free-list of one chunk.                                             *)

\* The free-list that create_chunk threads has every slot.
LEMMA NewAccounted ==
  Accounted(create_chunk.localFree, 0, {})
<1> DEFINE f == [i \in Slots |-> chunkCapacity + 1 - i]
<1>1. create_chunk.localFree = f
  BY DEF create_chunk
<1>2. f \in Seq(Slots) /\ Len(f) = chunkCapacity /\ DOMAIN f = Slots
  BY CapacityAssumption DEF Slots
<1>3. {f[i] : i \in DOMAIN f} = Slots \ {}
  <2>1. \A s \in Slots : chunkCapacity + 1 - s \in Slots /\ f[chunkCapacity + 1 - s] = s
    BY CapacityAssumption DEF Slots
  <2>2. \A i \in Slots : f[i] \in Slots
    BY CapacityAssumption DEF Slots
  <2> HIDE DEF f
  <2> QED
    BY <1>2, <2>1, <2>2
<1>4. \A i, j \in DOMAIN f : f[i] = f[j] => i = j
  BY CapacityAssumption DEF Slots
<1>5. Cardinality({}) = 0
  BY FS_EmptySet
<1> HIDE DEF f
<1> QED
  BY <1>1, <1>2, <1>3, <1>4, <1>5, CapacityAssumption DEF Accounted

\* The handed out slots of a chunk are finitely many.
LEMMA OutFinite ==
  ASSUME NEW O \in SUBSET Slots
  PROVE  IsFiniteSet(O)
<1>1. IsFiniteSet(Slots)
  BY CapacityAssumption, FS_Interval DEF Slots
<1> QED
  BY <1>1, FS_Subset

\* Popping the first free block of a chunk hands out a slot that was not.
LEMMA PopAccounted ==
  ASSUME NEW f, NEW u, NEW O \in SUBSET Slots, Accounted(f, u, O), f # <<>>
  PROVE  /\ Head(f) \in Slots \ O
         /\ u + 1 \in Nat
         /\ Accounted(Tail(f), u + 1, O \cup {Head(f)})
<1> DEFINE g == Tail(f)
           h == Head(f)
<1>1. /\ f \in Seq(Slots) /\ Len(f) \in Nat /\ Len(f) >= 1
      /\ g \in Seq(Slots) /\ Len(g) = Len(f) - 1 /\ h = f[1]
      /\ \A i \in 1..Len(g) : g[i] = f[i + 1]
      /\ DOMAIN f = 1..Len(f) /\ DOMAIN g = 1..Len(g)
  <2>1. f \in Seq(Slots)
    BY DEF Accounted
  <2>2. Len(f) \in Nat /\ Len(f) >= 1 /\ DOMAIN f = 1..Len(f)
    BY <2>1, EmptySeq, LenProperties
  <2> QED
    BY <2>1, <2>2, HeadTailProperties, LenProperties
<1>2. h \in Slots \ O
  <2>1. 1 \in DOMAIN f
    BY <1>1
  <2> QED
    BY <1>1, <2>1 DEF Accounted
<1> HIDE DEF g, h
<1>3. {g[i] : i \in DOMAIN g} = Slots \ (O \cup {h})
  <2>1. ASSUME NEW i \in DOMAIN g
        PROVE  g[i] \in Slots \ (O \cup {h})
    <3>1. i + 1 \in DOMAIN f /\ 1 \in DOMAIN f /\ i + 1 # 1 /\ g[i] = f[i + 1]
      BY <1>1
    <3>2. f[i + 1] \in Slots \ O /\ f[i + 1] # h
      BY <1>1, <3>1 DEF Accounted
    <3> QED
      BY <3>1, <3>2
  <2>2. ASSUME NEW s \in Slots \ (O \cup {h})
        PROVE  \E i \in DOMAIN g : g[i] = s
    <3>1. PICK j \in DOMAIN f : f[j] = s
      BY DEF Accounted
    <3>2. j # 1
      BY <1>1, <3>1
    <3>3. j - 1 \in DOMAIN g /\ g[j - 1] = f[j]
      BY <1>1, <3>2
    <3> QED
      BY <3>1, <3>3
  <2> QED
    BY <2>1, <2>2
<1>4. \A i, j \in DOMAIN g : g[i] = g[j] => i = j
  <2> SUFFICES ASSUME NEW i \in DOMAIN g, NEW j \in DOMAIN g, g[i] = g[j]
               PROVE  i = j
    OBVIOUS
  <2>1. i + 1 \in DOMAIN f /\ j + 1 \in DOMAIN f /\ f[i + 1] = f[j + 1]
    BY <1>1
  <2>2. i + 1 = j + 1
    BY <2>1 DEF Accounted
  <2> QED
    BY <1>1, <2>2
<1>5. u \in Nat /\ Cardinality(O \cup {h}) = u + 1
  BY <1>2, OutFinite, FS_CardinalityType, FS_AddElement DEF Accounted
<1>6. Len(g) + (u + 1) = chunkCapacity
  BY <1>1, <1>5 DEF Accounted
<1> QED
  BY <1>1, <1>2, <1>3, <1>4, <1>5, <1>6 DEF Accounted, g, h

\* Pushing a block back takes its slot out of the caller's hands.
LEMMA PushAccounted ==
  ASSUME NEW f, NEW u, NEW O \in SUBSET Slots, Accounted(f, u, O), NEW s \in O
  PROVE  /\ u - 1 \in Nat
         /\ Accounted(<<s>> \o f, u - 1, O \ {s})
<1> DEFINE g == <<s>> \o f
<1>1. /\ f \in Seq(Slots) /\ Len(f) \in Nat /\ DOMAIN f = 1..Len(f)
      /\ <<s>> \in Seq(Slots) /\ Len(<<s>>) = 1 /\ <<s>>[1] = s
  <2>1. f \in Seq(Slots)
    BY DEF Accounted
  <2> QED
    BY <2>1, LenProperties
<1>2. /\ g \in Seq(Slots) /\ Len(g) = Len(f) + 1 /\ DOMAIN g = 1..Len(g)
      /\ g[1] = s /\ \A i \in 2..Len(g) : g[i] = f[i - 1]
  <2>1. g \in Seq(Slots) /\ Len(g) = 1 + Len(f)
    BY <1>1, ConcatProperties
  <2>2. \A i \in 1..Len(g) : g[i] = IF i <= 1 THEN <<s>>[i] ELSE f[i - 1]
    BY <1>1, ConcatProperties
  <2> HIDE DEF g
  <2> QED
    BY <1>1, <2>1, <2>2, LenProperties
<1> HIDE DEF g
<1>3. {g[i] : i \in DOMAIN g} = Slots \ (O \ {s})
  <2>1. ASSUME NEW i \in DOMAIN g
        PROVE  g[i] \in Slots \ (O \ {s})
    <3>1. CASE i = 1
      BY <1>2, <3>1
    <3>2. CASE i # 1
      <4>1. i - 1 \in DOMAIN f /\ g[i] = f[i - 1]
        BY <1>1, <1>2, <3>2
      <4> QED
        BY <4>1 DEF Accounted
    <3> QED
      BY <3>1, <3>2
  <2>2. ASSUME NEW t \in Slots \ (O \ {s})
        PROVE  \E i \in DOMAIN g : g[i] = t
    <3>1. CASE t = s
      BY <1>1, <1>2, <3>1
    <3>2. CASE t # s
      <4>1. PICK j \in DOMAIN f : f[j] = t
        BY <3>2 DEF Accounted
      <4>2. j + 1 \in DOMAIN g /\ g[j + 1] = f[j]
        BY <1>1, <1>2
      <4> QED
        BY <4>1, <4>2
    <3> QED
      BY <3>1, <3>2
  <2> QED
    BY <2>1, <2>2
<1>4. \A i, j \in DOMAIN g : g[i] = g[j] => i = j
  <2>1. \A i \in DOMAIN f : f[i] # s
    BY DEF Accounted
  <2> SUFFICES ASSUME NEW i \in DOMAIN g, NEW j \in DOMAIN g, g[i] = g[j]
               PROVE  i = j
    OBVIOUS
  <2>2. /\ i # 1 => i - 1 \in DOMAIN f /\ g[i] = f[i - 1]
        /\ j # 1 => j - 1 \in DOMAIN f /\ g[j] = f[j - 1]
    BY <1>1, <1>2
  <2>3. i = 1 <=> j = 1
    BY <1>2, <2>1, <2>2
  <2>4. CASE i # 1
    <3>1. i - 1 = j - 1
      BY <2>2, <2>3, <2>4 DEF Accounted
    <3> QED
      BY <1>2, <3>1
  <2> QED
    BY <2>3, <2>4
<1>5. u \in Nat /\ u - 1 \in Nat /\ Cardinality(O \ {s}) = u - 1
  <2>1. IsFiniteSet(O) /\ IsFiniteSet(O \ {s})
    BY OutFinite
  <2>2. u \in Nat /\ Cardinality(O \ {s}) = u - 1
    BY <2>1, FS_CardinalityType, FS_RemoveElement DEF Accounted
  <2> QED
    BY <2>1, <2>2, FS_CardinalityType
<1>6. Len(g) + (u - 1) = chunkCapacity
  BY <1>1, <1>2, <1>5 DEF Accounted
<1> QED
  BY <1>2, <1>3, <1>4, <1>5, <1>6 DEF Accounted, g

-----------------------------------------------------------------------------
(* The list of chunks.                                                     *)

\* The chunks on the list exist, so what the pool walks is all there is.
LEMMA ListedIsLive ==
  ASSUME TypeOK, Links, AllListed
  PROVE  Listed = Live
<1>1. Live \in SUBSET Live /\ FollowsNext(Live, Live)
  BY DEF Links, FollowsNext
<1>2. Live \subseteq Chunks
  BY DEF Live
<1> QED
  BY <1>1, <1>2 DEF Listed, Visited, AllListed

\* The walk that passes full chunks only stays among the chunks, and does not
\* miss the head.
LEMMA SearchFindsHead ==
  ASSUME TypeOK, Links
  PROVE  /\ Visited(Full) \subseteq Live
         /\ chunksHead # NULL => chunksHead \in Visited(Full)
<1>1. Live \in SUBSET Live /\ FollowsNext(Live, Full)
  BY DEF Links, FollowsNext, Full
<1>2. Visited(Full) \subseteq Live
  BY <1>1 DEF Visited
<1>3. chunksHead # NULL => chunksHead \in Visited(Full)
  BY DEF Visited, FollowsNext, TypeOK
<1> QED
  BY <1>2, <1>3

\* A step that leaves next and prev alone leaves the list alone.
LEMMA SameList ==
  ASSUME Links, AllListed, chunksHead' = chunksHead, Live' = Live,
         \A c \in Live : chunk'[c].next = chunk[c].next /\ chunk'[c].prev = chunk[c].prev
  PROVE  Links' /\ AllListed'
<1>1. Links'
  BY DEF Links
<1>2. \A S \in SUBSET Live : FollowsNext(S, Live)' <=> FollowsNext(S, Live)
  BY DEF FollowsNext
<1>3. AllListed'
  BY <1>2 DEF AllListed
<1> QED
  BY <1>1, <1>3

\* A new chunk before the head keeps the list.
LEMMA PrependKeepsList ==
  ASSUME TypeOK, Links, AllListed, NEW c \in Chunks \ Live,
         chunksHead' = c, Live' = Live \cup {c},
         chunk'[c].next = chunksHead, chunk'[c].prev = NULL,
         \A x \in Live : /\ chunk'[x].next = chunk[x].next
                         /\ chunk'[x].prev = IF x = chunksHead THEN c ELSE chunk[x].prev
  PROVE  Links' /\ AllListed'
<1>1. /\ NULL \notin Chunks /\ Live \subseteq Chunks /\ c \notin Live
      /\ chunksHead \in Live \cup {NULL} /\ c # NULL
  BY ChunkAssumption DEF Links, Live
<1>2. /\ chunksHead # NULL => chunk[chunksHead].prev = NULL
      /\ \A x \in Live :
           /\ chunk[x].next # NULL => chunk[x].next \in Live /\ chunk[chunk[x].next].prev = x
           /\ chunk[x].prev # NULL => chunk[x].prev \in Live /\ chunk[chunk[x].prev].next = x
           /\ chunk[x].prev = NULL => chunksHead = x
  BY DEF Links
<1>3. Links'
  <2>1. chunksHead' \in Live' /\ chunk'[chunksHead'].prev = NULL
    OBVIOUS
  <2>2. /\ chunk'[c].next # NULL => chunk'[c].next \in Live' /\ chunk'[chunk'[c].next].prev = c
        /\ chunk'[c].prev = NULL
    BY <1>1
  <2>3. ASSUME NEW x \in Live, chunk'[x].next # NULL
        PROVE  chunk'[x].next \in Live' /\ chunk'[chunk'[x].next].prev = x
    <3>1. chunk[x].next \in Live /\ chunk[chunk[x].next].prev = x /\ chunk'[x].next = chunk[x].next
      BY <1>2, <2>3
    <3>2. chunk[x].next # chunksHead
      BY <1>1, <1>2, <3>1
    <3> QED
      BY <3>1, <3>2
  <2>4. ASSUME NEW x \in Live
        PROVE  /\ chunk'[x].prev \in Live' /\ chunk'[chunk'[x].prev].next = x
               /\ chunk'[x].prev # NULL
    <3>1. CASE x = chunksHead
      BY <1>1, <3>1
    <3>2. CASE x # chunksHead
      <4>1. chunk'[x].prev = chunk[x].prev /\ chunk[x].prev \in Live /\ chunk[chunk[x].prev].next = x
        BY <1>2, <3>2
      <4> QED
        BY <1>1, <4>1
    <3> QED
      BY <3>1, <3>2
  <2> QED
    BY <2>1, <2>2, <2>3, <2>4 DEF Links
<1>4. ASSUME NEW S \in SUBSET Live', FollowsNext(S, Live)'
      PROVE  Live' \subseteq S
  <2>1. c \in S /\ chunksHead \in S \cup {NULL} /\ \A x \in S : chunk'[x].next \in S \cup {NULL}
    BY <1>1, <1>4 DEF FollowsNext
  <2>2. \A x \in S \ {c} : x \in Live /\ chunk[x].next \in (S \ {c}) \cup {NULL}
    BY <1>1, <1>2, <2>1
  <2>3. S \ {c} \in SUBSET Live /\ FollowsNext(S \ {c}, Live)
    BY <1>1, <2>1, <2>2 DEF FollowsNext
  <2>4. Live \subseteq S \ {c}
    BY <2>3 DEF AllListed
  <2> QED
    BY <2>1, <2>4
<1> QED
  BY <1>3, <1>4 DEF AllListed

\* The release of an empty chunk that is not the only one keeps the list.
LEMMA UnlinkKeepsList ==
  ASSUME TypeOK, Links, AllListed, NEW c \in Live, NEW p, NEW n,
         p = chunk[c].prev, n = chunk[c].next, Live' = Live \ {c},
         chunksHead' = IF chunksHead = c THEN n ELSE chunksHead,
         \A x \in Live \ {c} :
           /\ chunk'[x].next = IF x = p THEN n ELSE chunk[x].next
           /\ chunk'[x].prev = IF x = n THEN p ELSE chunk[x].prev
  PROVE  chunksHead' \in Chunks \cup {NULL} /\ Links' /\ AllListed'
<1>1. /\ chunksHead \in Live \cup {NULL} /\ p \in Live \cup {NULL} /\ n \in Live \cup {NULL}
      /\ p # NULL => chunk[p].next = c
      /\ n # NULL => chunk[n].prev = c
      /\ Live \subseteq Chunks /\ NULL \notin Chunks /\ c # NULL
  BY ChunkAssumption DEF TypeOK, Links, Live
<1>2. /\ chunksHead # NULL => chunk[chunksHead].prev = NULL
      /\ \A x \in Live :
           /\ chunk[x].next # NULL => chunk[x].next \in Live /\ chunk[chunk[x].next].prev = x
           /\ chunk[x].prev # NULL => chunk[x].prev \in Live /\ chunk[chunk[x].prev].next = x
           /\ chunk[x].prev = NULL => chunksHead = x
  BY DEF Links
<1>3. /\ p = NULL <=> chunksHead = c
      /\ n = c <=> p = c
  BY <1>1, <1>2
<1>4. Links'
  <2>1. chunksHead' # NULL => chunksHead' \in Live' /\ chunk'[chunksHead'].prev = NULL
    <3>1. CASE p # NULL
      <4>1. chunksHead' = chunksHead /\ (chunksHead # NULL => chunksHead \in Live \ {c})
        BY <1>1, <1>3, <3>1
      <4>2. chunksHead # NULL => chunksHead # n
        BY <1>1, <1>2
      <4>3. chunksHead # NULL => chunk'[chunksHead].prev = chunk[chunksHead].prev
        BY <4>1, <4>2
      <4> QED
        BY <1>2, <4>1, <4>3
    <3>2. CASE p = NULL
      BY <1>1, <1>3, <3>2
    <3> QED
      BY <3>1, <3>2
  <2>2. ASSUME NEW x \in Live \ {c}, chunk'[x].next # NULL
        PROVE  chunk'[x].next \in Live' /\ chunk'[chunk'[x].next].prev = x
    <3>1. CASE x = p
      BY <1>1, <1>3, <2>2, <3>1
    <3>2. CASE x # p
      <4>1. chunk'[x].next = chunk[x].next
        BY <3>2
      <4>2. chunk[x].next \in Live /\ chunk[chunk[x].next].prev = x
        BY <1>2, <2>2, <4>1
      <4>3. chunk[x].next # c /\ chunk[x].next # n
        BY <1>1, <3>2, <4>2
      <4> QED
        BY <4>1, <4>2, <4>3
    <3> QED
      BY <3>1, <3>2
  <2>3. ASSUME NEW x \in Live \ {c}, chunk'[x].prev # NULL
        PROVE  chunk'[x].prev \in Live' /\ chunk'[chunk'[x].prev].next = x
    <3>1. CASE x = n
      BY <1>1, <1>3, <2>3, <3>1
    <3>2. CASE x # n
      <4>1. chunk'[x].prev = chunk[x].prev
        BY <3>2
      <4>2. chunk[x].prev \in Live /\ chunk[chunk[x].prev].next = x
        BY <1>2, <2>3, <4>1
      <4>3. chunk[x].prev # c /\ chunk[x].prev # p
        BY <1>1, <3>2, <4>2
      <4> QED
        BY <4>1, <4>2, <4>3
    <3> QED
      BY <3>1, <3>2
  <2>4. ASSUME NEW x \in Live \ {c}, chunk'[x].prev = NULL
        PROVE  chunksHead' = x
    <3>1. CASE x = n
      BY <1>3, <2>4, <3>1
    <3>2. CASE x # n
      <4>1. chunksHead = x
        BY <1>2, <2>4, <3>2
      <4> QED
        BY <4>1
    <3> QED
      BY <3>1, <3>2
  <2> QED
    BY <2>1, <2>2, <2>3, <2>4 DEF Links
<1>5. ASSUME NEW S \in SUBSET Live', FollowsNext(S, Live)'
      PROVE  Live' \subseteq S
  \* c followed its neighbour; put back behind it, S was closed before.
  <2> DEFINE T == IF p \in S \cup {NULL} THEN S \cup {c} ELSE S
  <2>1. chunksHead' \in S \cup {NULL} /\ \A x \in S : chunk'[x].next \in S \cup {NULL}
    BY <1>5 DEF FollowsNext
  <2>2. S \subseteq Live \ {c}
    OBVIOUS
  <2>3. chunksHead \in T \cup {NULL}
    BY <1>3, <2>1
  <2>4. p \in S \cup {NULL} => n \in S \cup {NULL}
    <3>1. CASE p = NULL
      BY <1>3, <2>1, <3>1
    <3>2. CASE p \in S
      BY <2>1, <2>2, <3>2
    <3> QED
      BY <3>1, <3>2
  <2>5. \A x \in S : x # p => chunk[x].next \in S \cup {NULL}
    BY <2>1, <2>2
  <2>6. \A x \in T : chunk[x].next \in T \cup {NULL}
    <3>1. CASE p \in S \cup {NULL}
      BY <1>1, <2>2, <2>4, <2>5, <3>1
    <3>2. CASE p \notin S \cup {NULL}
      BY <2>5, <3>2
    <3> QED
      BY <3>1, <3>2
  <2>7. T \subseteq Live
    BY <2>2
  <2> HIDE DEF T
  <2>8. Live \subseteq T
    BY <2>3, <2>6, <2>7 DEF FollowsNext, AllListed
  <2> QED
    BY <2>8 DEF T
<1>6. chunksHead' \in Chunks \cup {NULL}
  BY <1>1
<1> QED
  BY <1>4, <1>5, <1>6 DEF AllListed

-----------------------------------------------------------------------------
(* The operations.                                                         *)

\* A step accounts for all chunks when it touches one and accounts for that.
LEMMA OthersAccounted ==
  ASSUME AllAccounted, NEW c \in Chunks, Live' \ {c} = Live \ {c},
         \A x \in Live \ {c} : /\ chunk'[x].localFree = chunk[x].localFree
                               /\ chunk'[x].usedCount = chunk[x].usedCount,
         NEW b \in Blocks, b[1] = c, held' \in {held \cup {b}, held \ {b}},
         c \in Live' => Accounted(chunk'[c].localFree, chunk'[c].usedCount, Out(c)'),
         c \notin Live' => Out(c)' = {},
         held \subseteq Blocks
  PROVE  AllAccounted'
<1>1. \A x \in Live \ {c} : Out(x)' = Out(x)
  <2> SUFFICES ASSUME NEW x \in Live \ {c}, NEW t \in Slots
               PROVE  <<x, t>> \in held' <=> <<x, t>> \in held
    BY DEF Out
  <2>1. <<x, t>> # b
    BY DEF Blocks
  <2> QED
    BY <2>1
<1>2. \A x \in Live' : Accounted(chunk'[x].localFree, chunk'[x].usedCount, Out(x)')
  BY <1>1 DEF AllAccounted
<1>3. ASSUME NEW a \in held'
      PROVE  a[1] \in Live'
  <2>1. a \in Blocks /\ a = <<a[1], a[2]>> /\ a[2] \in Slots
    BY DEF Blocks
  <2>2. CASE a[1] = c
    <3>1. a[2] \in Out(c)'
      BY <1>3, <2>1, <2>2 DEF Out
    <3> QED
      BY <2>2, <3>1
  <2>3. CASE a[1] # c
    <3>1. a \in held
      BY <1>3, <2>3
    <3> QED
      BY <2>3, <3>1 DEF AllAccounted
  <2> QED
    BY <2>2, <2>3
<1> QED
  BY <1>2, <1>3 DEF AllAccounted

\* What is common to an allocation from an old and from a new chunk c.
LEMMA PopStep ==
  ASSUME TypeOK, NEW ch \in [Chunks -> Chunk \cup {NULL}], NEW c \in Chunks,
         ch[c] \in Chunk, ch[c].localFree # <<>>,
         Accounted(ch[c].localFree, ch[c].usedCount, Out(c)), Pop(ch, c)
  PROVE  /\ chunk' \in [Chunks -> Chunk \cup {NULL}]
         /\ chunk'[c] \in Chunk /\ chunk'[c].next = ch[c].next /\ chunk'[c].prev = ch[c].prev
         /\ chunk'[c].usedCount \in Nat \ {0}
         /\ \A x \in Chunks \ {c} : chunk'[x] = ch[x]
         /\ Accounted(chunk'[c].localFree, chunk'[c].usedCount, Out(c)')
         /\ \E b \in Blocks \ held : b[1] = c /\ held' = held \cup {b} /\ ptr' = b
<1> DEFINE f == ch[c].localFree
           u == ch[c].usedCount
           h == Head(f)
           b == <<c, h>>
<1>1. /\ chunk' = [ch EXCEPT ![c].localFree = Tail(@), ![c].usedCount = @ + 1]
      /\ held' = held \cup {b} /\ ptr' = b
  BY DEF Pop
<1>2. u \in Nat /\ Out(c) \in SUBSET Slots
  BY DEF Chunk, Out
<1>3. h \in Slots \ Out(c) /\ u + 1 \in Nat /\ Accounted(Tail(f), u + 1, Out(c) \cup {h})
  BY <1>2, PopAccounted
<1>4. Tail(f) \in Seq(Slots)
  BY <1>3 DEF Accounted
<1>5. chunk'[c] = [ch[c] EXCEPT !.localFree = Tail(f), !.usedCount = u + 1]
  BY <1>1
<1> HIDE DEF f, u, h
<1>6. /\ chunk'[c] \in Chunk /\ chunk'[c].next = ch[c].next /\ chunk'[c].prev = ch[c].prev
      /\ chunk'[c].localFree = Tail(f) /\ chunk'[c].usedCount = u + 1
  <2> DEFINE g == Tail(f)
             v == u + 1
  <2>1. ch[c] \in Chunk /\ g \in Seq(Slots) /\ v \in Nat
    BY <1>3, <1>4
  <2>2. chunk'[c] = [ch[c] EXCEPT !.localFree = g, !.usedCount = v]
    BY <1>5
  <2> HIDE DEF g, v
  <2>3. /\ chunk'[c] \in Chunk /\ chunk'[c].next = ch[c].next /\ chunk'[c].prev = ch[c].prev
        /\ chunk'[c].localFree = g /\ chunk'[c].usedCount = v
    BY <2>1, <2>2 DEF Chunk
  <2> QED
    BY <2>3 DEF g, v
<1>7. \A x \in Chunks \ {c} : chunk'[x] = ch[x]
  BY <1>1
<1>8. chunk' \in [Chunks -> Chunk \cup {NULL}]
  BY <1>1, <1>6, <1>7
<1>9. b \in Blocks \ held /\ b[1] = c
  BY <1>3 DEF Out, Blocks
<1>10. Out(c)' = Out(c) \cup {h}
  <2>1. \A t \in Slots : <<c, t>> \in held' <=> (<<c, t>> \in held \/ t = h)
    BY <1>1
  <2> QED
    BY <1>3, <2>1 DEF Out
<1>11. u + 1 \in Nat \ {0}
  BY <1>2 DEF u
<1> QED
  BY <1>1, <1>3, <1>6, <1>7, <1>8, <1>9, <1>10, <1>11

\* An allocation from a chunk with room keeps the invariant and is one of the
\* allocator's.
LEMMA AllocFromChunkOK ==
  ASSUME Inv, NEW c \in Chunks, AllocFromChunk(c)
  PROVE  Inv' /\ A!Alloc
<1>1. /\ TypeOK /\ AllAccounted /\ Links /\ AllListed /\ EmptyOnlyAlone
      /\ chunk \in [Chunks -> Chunk \cup {NULL}]
      /\ c \in Live /\ chunk[c] \in Chunk /\ chunk[c].localFree # <<>>
      /\ Pop(chunk, c) /\ chunksHead' = chunksHead
  <2>1. c \in Live \ Full
    BY SearchFindsHead DEF Inv, AllocFromChunk, FirstWithRoom
  <2> QED
    BY <2>1 DEF Inv, TypeOK, Live, Full, AllocFromChunk
<1>2. Accounted(chunk[c].localFree, chunk[c].usedCount, Out(c))
  BY <1>1 DEF AllAccounted
<1>3. /\ chunk' \in [Chunks -> Chunk \cup {NULL}]
      /\ chunk'[c] \in Chunk /\ chunk'[c].next = chunk[c].next /\ chunk'[c].prev = chunk[c].prev
      /\ chunk'[c].usedCount \in Nat \ {0}
      /\ \A x \in Chunks \ {c} : chunk'[x] = chunk[x]
      /\ Accounted(chunk'[c].localFree, chunk'[c].usedCount, Out(c)')
  BY <1>1, <1>2, PopStep
<1>4. PICK b \in Blocks \ held : b[1] = c /\ held' = held \cup {b} /\ ptr' = b
  BY <1>1, <1>2, PopStep
<1>5. Live' = Live
  BY <1>1, <1>3, NullAssumption DEF Live
<1>6. TypeOK'
  BY <1>1, <1>3, <1>4 DEF TypeOK
<1>7. AllAccounted'
  <2>1. \A x \in Live \ {c} : chunk'[x] = chunk[x]
    BY <1>3 DEF Live
  <2>2. held \subseteq Blocks
    BY <1>1 DEF TypeOK
  <2> QED
    BY <1>1, <1>3, <1>4, <1>5, <2>1, <2>2, OthersAccounted
<1>8. Links' /\ AllListed'
  <2>1. \A x \in Live : chunk'[x].next = chunk[x].next /\ chunk'[x].prev = chunk[x].prev
    BY <1>3 DEF Live
  <2> QED
    BY <1>1, <1>5, <2>1, SameList
<1>9. EmptyOnlyAlone'
  <2>1. \A x \in Live \ {c} : chunk'[x].usedCount = chunk[x].usedCount
    BY <1>3 DEF Live
  <2> QED
    BY <1>1, <1>3, <1>5, <2>1 DEF EmptyOnlyAlone
<1>10. A!Alloc
  BY <1>4 DEF A!Alloc
<1> QED
  BY <1>6, <1>7, <1>8, <1>9, <1>10 DEF Inv

\* The new chunk that an allocation puts before the head.
LEMMA NewChunk ==
  ASSUME TypeOK
  PROVE  LET k == [create_chunk EXCEPT !.next = chunksHead]
         IN  /\ k \in Chunk /\ k.next = chunksHead /\ k.prev = NULL
             /\ k.usedCount = 0 /\ k.localFree = create_chunk.localFree
<1> DEFINE f == create_chunk.localFree
           k == [next |-> chunksHead, prev |-> NULL, usedCount |-> 0, localFree |-> f]
<1>1. f \in Seq(Slots)
  BY NewAccounted DEF Accounted
<1>2. [create_chunk EXCEPT !.next = chunksHead] = k
  <2> DEFINE g == [i \in Slots |-> chunkCapacity + 1 - i]
             e == [next |-> NULL, prev |-> NULL, usedCount |-> 0, localFree |-> g]
  <2>1. create_chunk = e
    BY DEF create_chunk
  <2> HIDE DEF g
  <2>2. e.localFree = g
    OBVIOUS
  <2>3. [e EXCEPT !.next = chunksHead]
        = [next |-> chunksHead, prev |-> NULL, usedCount |-> 0, localFree |-> g]
    OBVIOUS
  <2> HIDE DEF e
  <2> QED
    BY <2>1, <2>2, <2>3
<1>3. chunksHead \in Chunks \cup {NULL}
  BY DEF TypeOK
<1> HIDE DEF f
<1>4. k \in Chunk /\ k.next = chunksHead /\ k.prev = NULL /\ k.usedCount = 0 /\ k.localFree = f
  BY <1>1, <1>3 DEF Chunk
<1> HIDE DEF k
<1> QED
  BY <1>2, <1>4 DEF f

\* An allocation from a new chunk keeps the invariant and is one of the
\* allocator's.
LEMMA AllocFromNewOK ==
  ASSUME Inv, NEW c \in Chunks, AllocFromNew(c)
  PROVE  Inv' /\ A!Alloc
<1> DEFINE ch == Prepend(c)
           k == [create_chunk EXCEPT !.next = chunksHead]
<1>1. /\ TypeOK /\ AllAccounted /\ Links /\ AllListed /\ EmptyOnlyAlone
      /\ chunk \in [Chunks -> Chunk \cup {NULL}]
      /\ chunksHead \in Live /\ c \notin Live /\ c # chunksHead
      /\ NoRoom /\ Pop(ch, c) /\ chunksHead' = c
  BY DEF Inv, TypeOK, Links, AllocFromNew
<1>2. /\ k \in Chunk /\ k.next = chunksHead /\ k.prev = NULL
      /\ k.usedCount = 0 /\ k.localFree = create_chunk.localFree
  BY <1>1, NewChunk
<1>3. ch[c] = k /\ ch = [x \in Chunks |-> ch[x]]
  BY DEF Prepend
<1>4. \A x \in Live : /\ x \in Chunks \ {c} /\ ch[x] \in Chunk
                      /\ ch[x].next = chunk[x].next
                      /\ ch[x].prev = IF x = chunksHead THEN c ELSE chunk[x].prev
                      /\ ch[x].localFree = chunk[x].localFree
                      /\ ch[x].usedCount = chunk[x].usedCount
  <2> SUFFICES ASSUME NEW x \in Live
               PROVE  /\ x \in Chunks \ {c} /\ ch[x] \in Chunk
                      /\ ch[x].next = chunk[x].next
                      /\ ch[x].prev = IF x = chunksHead THEN c ELSE chunk[x].prev
                      /\ ch[x].localFree = chunk[x].localFree
                      /\ ch[x].usedCount = chunk[x].usedCount
    OBVIOUS
  <2>1. x \in Chunks \ {c} /\ chunk[x] \in Chunk
    BY <1>1 DEF Live
  <2>2. ch[x] = IF x = chunksHead THEN [chunk[x] EXCEPT !.prev = c] ELSE chunk[x]
    BY <2>1 DEF Prepend
  <2> HIDE DEF ch
  <2>3. CASE x = chunksHead
    BY <2>1, <2>2, <2>3 DEF Chunk
  <2>4. CASE x # chunksHead
    BY <2>1, <2>2, <2>4
  <2> QED
    BY <2>3, <2>4
<1>5. \A x \in Chunks \ (Live \cup {c}) : ch[x] = NULL
  BY <1>1 DEF Prepend, Live
<1> HIDE DEF ch, k
<1>6. ch \in [Chunks -> Chunk \cup {NULL}]
  BY <1>2, <1>3, <1>4, <1>5
<1>7. Out(c) = {}
  BY <1>1 DEF Out, AllAccounted
<1>8. Accounted(ch[c].localFree, ch[c].usedCount, Out(c)) /\ ch[c].localFree # <<>>
  <2>1. Accounted(ch[c].localFree, 0, {}) /\ ch[c].usedCount = 0
    BY <1>2, <1>3, NewAccounted
  <2>2. Len(ch[c].localFree) = chunkCapacity
    BY <2>1, CapacityAssumption DEF Accounted
  <2> QED
    BY <1>7, <2>1, <2>2, CapacityAssumption
<1>9. /\ chunk' \in [Chunks -> Chunk \cup {NULL}]
      /\ chunk'[c] \in Chunk /\ chunk'[c].next = chunksHead /\ chunk'[c].prev = NULL
      /\ chunk'[c].usedCount \in Nat \ {0}
      /\ \A x \in Chunks \ {c} : chunk'[x] = ch[x]
      /\ Accounted(chunk'[c].localFree, chunk'[c].usedCount, Out(c)')
  BY <1>1, <1>2, <1>3, <1>6, <1>8, PopStep
<1>10. PICK b \in Blocks \ held : b[1] = c /\ held' = held \cup {b} /\ ptr' = b
  BY <1>1, <1>2, <1>3, <1>6, <1>8, PopStep
<1>11. Live' = Live \cup {c}
  <2>1. \A x \in Live : chunk'[x] # NULL
    BY <1>4, <1>9, NullAssumption
  <2>2. \A x \in Chunks \ (Live \cup {c}) : chunk'[x] = NULL
    BY <1>5, <1>9
  <2>3. chunk'[c] # NULL
    BY <1>9, NullAssumption
  <2> QED
    BY <2>1, <2>2, <2>3 DEF Live
<1>12. TypeOK'
  BY <1>1, <1>9, <1>10 DEF TypeOK
<1>13. AllAccounted'
  <2>1. Live' \ {c} = Live \ {c} /\ c \in Live'
    BY <1>1, <1>11
  <2>2. \A x \in Live \ {c} : /\ chunk'[x].localFree = chunk[x].localFree
                              /\ chunk'[x].usedCount = chunk[x].usedCount
    BY <1>4, <1>9
  <2>3. held \subseteq Blocks
    BY <1>1 DEF TypeOK
  <2> QED
    BY <1>1, <1>9, <1>10, <2>1, <2>2, <2>3, OthersAccounted
<1>14. Links' /\ AllListed'
  <2>1. \A x \in Live : /\ chunk'[x].next = chunk[x].next
                        /\ chunk'[x].prev = IF x = chunksHead THEN c ELSE chunk[x].prev
    BY <1>4, <1>9
  <2> QED
    BY <1>1, <1>9, <1>11, <2>1, PrependKeepsList
<1>15. EmptyOnlyAlone'
  \* A full chunk, and the head is one, is not empty.
  <2>1. chunksHead \in Full
    BY <1>1, ChunkAssumption, SearchFindsHead DEF NoRoom, Live
  <2>2. chunk[chunksHead].usedCount # 0
    <3>1. Accounted(<<>>, chunk[chunksHead].usedCount, Out(chunksHead))
      BY <1>1, <2>1 DEF AllAccounted, Full
    <3>2. Len(<<>>) = 0
      BY EmptySeq
    <3> QED
      BY <3>1, <3>2, CapacityAssumption DEF Accounted
  <2>3. \A x \in Live : chunk[x].usedCount # 0
    BY <1>1, <2>2 DEF EmptyOnlyAlone
  <2>4. \A x \in Live' : chunk'[x].usedCount # 0
    BY <1>4, <1>9, <1>11, <2>3
  <2> QED
    BY <2>4 DEF EmptyOnlyAlone
<1>16. A!Alloc
  BY <1>10 DEF A!Alloc
<1> QED
  BY <1>12, <1>13, <1>14, <1>15, <1>16 DEF Inv

\* Giving a block back keeps the invariant, whether or not its chunk goes back
\* to the heap, and is one of the allocator's steps.
LEMMA FreeOK ==
  ASSUME Inv, NEW b \in held, slab_pool_free(b)
  PROVE  Inv' /\ A!Free
<1> DEFINE c == b[1]
           s == b[2]
           f == <<s>> \o chunk[c].localFree
           u == chunk[c].usedCount - 1
           ch == [chunk EXCEPT ![c].localFree = <<b[2]>> \o @, ![c].usedCount = @ - 1]
           k == ch[c]
<1>1. /\ TypeOK /\ AllAccounted /\ Links /\ AllListed /\ EmptyOnlyAlone
      /\ chunk \in [Chunks -> Chunk \cup {NULL}] /\ held \subseteq Blocks
      /\ c \in Live /\ c \in Chunks /\ chunk[c] \in Chunk
      /\ s \in Out(c) /\ b \in Blocks /\ b = <<c, s>>
  BY DEF Inv, TypeOK, AllAccounted, Live, Out, Blocks
<1>2. /\ held' = held \ {b} /\ ptr' = ptr
      /\ Emptied(k) => /\ chunk' = Unlink(ch, c)
                       /\ chunksHead' = IF chunksHead = c THEN k.next ELSE chunksHead
      /\ ~Emptied(k) => chunk' = ch /\ chunksHead' = chunksHead
  BY DEF slab_pool_free
<1>3. u \in Nat /\ Accounted(f, u, Out(c) \ {s}) /\ f \in Seq(Slots)
  <2>1. Out(c) \in SUBSET Slots /\ Accounted(chunk[c].localFree, chunk[c].usedCount, Out(c))
    BY <1>1 DEF Out, AllAccounted
  <2>2. u \in Nat /\ Accounted(f, u, Out(c) \ {s})
    BY <1>1, <2>1, PushAccounted
  <2> QED
    BY <2>2 DEF Accounted
<1>4. /\ k = [chunk[c] EXCEPT !.localFree = f, !.usedCount = u]
      /\ \A x \in Chunks \ {c} : ch[x] = chunk[x]
      /\ ch = [x \in Chunks |-> ch[x]]
  BY <1>1
<1> HIDE DEF s, f, u
<1>5. /\ k \in Chunk /\ k.localFree = f /\ k.usedCount = u
      /\ k.next = chunk[c].next /\ k.prev = chunk[c].prev
  <2> HIDE DEF k, c
  <2> QED
    BY <1>1, <1>3, <1>4 DEF Chunk
<1> HIDE DEF ch
<1>6. Out(c)' = Out(c) \ {s} /\ c # NULL
  <2>1. \A t \in Slots : <<c, t>> \in held' <=> (<<c, t>> \in held /\ t # s)
    BY <1>1, <1>2
  <2> QED
    BY <1>1, <2>1, ChunkAssumption DEF Out
<1>7. A!Free
  BY <1>2 DEF A!Free
<1> HIDE DEF k, c
<1>8. CASE ~Emptied(k)
  <2>1. /\ chunk'[c] = k /\ \A x \in Chunks \ {c} : chunk'[x] = chunk[x]
        /\ chunk' = [x \in Chunks |-> chunk'[x]]
    BY <1>2, <1>4, <1>8 DEF k
  <2>2. Live' = Live
    BY <1>1, <1>5, <2>1, NullAssumption DEF Live
  <2>3. TypeOK'
    <3>1. chunk' \in [Chunks -> Chunk \cup {NULL}]
      BY <1>1, <1>5, <2>1
    <3> QED
      BY <1>1, <1>2, <1>8, <3>1 DEF TypeOK
  <2>4. \A x \in Live \ {c} : chunk'[x] = chunk[x]
    BY <2>1 DEF Live
  <2>5. AllAccounted'
    BY <1>1, <1>2, <1>3, <1>5, <1>6, <2>1, <2>2, <2>4, OthersAccounted DEF c
  <2>6. Links' /\ AllListed'
    BY <1>1, <1>2, <1>5, <1>8, <2>1, <2>2, <2>4, SameList
  <2>7. ASSUME u = 0
        PROVE  Live = {c}
    \* Without a neighbour c is the only chunk of the list.
    <3>1. chunk[c].next = NULL /\ chunk[c].prev = NULL
      BY <1>5, <1>8, <2>7 DEF Emptied
    <3>2. chunksHead = c
      BY <1>1, <3>1 DEF Links
    <3>3. {c} \in SUBSET Live /\ FollowsNext({c}, Live)
      BY <1>1, <3>1, <3>2 DEF FollowsNext
    <3> QED
      BY <1>1, <3>3 DEF AllListed
  <2>8. EmptyOnlyAlone'
    BY <1>1, <1>5, <2>1, <2>2, <2>4, <2>7 DEF EmptyOnlyAlone
  <2> QED
    BY <1>7, <2>3, <2>5, <2>6, <2>8 DEF Inv
<1>9. CASE Emptied(k)
  <2> DEFINE p == chunk[c].prev
             n == chunk[c].next
  <2>1. /\ u = 0 /\ (p # NULL \/ n # NULL)
        /\ p \in Chunks \cup {NULL} /\ n \in Chunks \cup {NULL}
        /\ chunk' = Unlink(ch, c) /\ chunksHead' = IF chunksHead = c THEN n ELSE chunksHead
    BY <1>1, <1>2, <1>5, <1>9 DEF Emptied, Chunk
  <2>2. /\ chunk'[c] = NULL /\ chunk' = [x \in Chunks |-> chunk'[x]]
        /\ \A x \in Chunks \ (Live \cup {c}) : chunk'[x] = NULL
    BY <1>1, <1>4, <2>1 DEF Unlink, Live
  <2>3. \A x \in Live \ {c} :
          /\ x \in Chunks /\ chunk'[x] \in Chunk
          /\ chunk'[x].next = IF x = p THEN n ELSE chunk[x].next
          /\ chunk'[x].prev = IF x = n THEN p ELSE chunk[x].prev
          /\ chunk'[x].localFree = chunk[x].localFree
          /\ chunk'[x].usedCount = chunk[x].usedCount
    <3> SUFFICES ASSUME NEW x \in Live \ {c}
                 PROVE  /\ x \in Chunks /\ chunk'[x] \in Chunk
                        /\ chunk'[x].next = IF x = p THEN n ELSE chunk[x].next
                        /\ chunk'[x].prev = IF x = n THEN p ELSE chunk[x].prev
                        /\ chunk'[x].localFree = chunk[x].localFree
                        /\ chunk'[x].usedCount = chunk[x].usedCount
      OBVIOUS
    <3> DEFINE q == IF x = p THEN n ELSE chunk[x].next
               r == IF x = n THEN p ELSE chunk[x].prev
    <3>1. x \in Chunks \ {c} /\ chunk[x] \in Chunk /\ chunk[x] # NULL /\ ch[x] = chunk[x]
      BY <1>1, <1>4 DEF Live
    <3>2. chunk'[x] = [chunk[x] EXCEPT !.next = q, !.prev = r]
      BY <1>5, <2>1, <3>1 DEF Unlink, k
    <3>3. q \in Chunks \cup {NULL} /\ r \in Chunks \cup {NULL}
      BY <2>1, <3>1 DEF Chunk
    <3> HIDE DEF p, n, q, r
    <3> QED
      BY <3>1, <3>2, <3>3 DEF Chunk, q, r
  <2>4. Live' = Live \ {c}
    <3>1. \A x \in Live \ {c} : chunk'[x] # NULL
      BY <2>3, NullAssumption
    <3> QED
      BY <2>2, <3>1 DEF Live
  <2> HIDE DEF p, n
  <2>5. chunksHead' \in Chunks \cup {NULL} /\ Links' /\ AllListed'
    BY <1>1, <2>1, <2>3, <2>4, UnlinkKeepsList DEF p, n
  <2>6. TypeOK'
    <3>1. chunk' \in [Chunks -> Chunk \cup {NULL}]
      BY <2>2, <2>3
    <3> QED
      BY <1>1, <1>2, <2>5, <3>1 DEF TypeOK
  <2>7. AllAccounted'
    \* A chunk with usedCount 0 has nothing handed out.
    <3>1. Out(c)' = {}
      <4>1. IsFiniteSet(Out(c) \ {s}) /\ Cardinality(Out(c) \ {s}) = 0
        BY <1>3, <2>1, OutFinite DEF Accounted, Out
      <4> QED
        BY <1>6, <4>1, FS_EmptySet
    <3>2. c \notin Live' /\ Live' \ {c} = Live \ {c}
      BY <2>4
    <3> QED
      BY <1>1, <1>2, <2>3, <3>1, <3>2, OthersAccounted DEF c
  <2>8. EmptyOnlyAlone'
    BY <1>1, <2>3, <2>4 DEF EmptyOnlyAlone
  <2> QED
    BY <1>7, <2>5, <2>6, <2>7, <2>8 DEF Inv
<1> QED
  BY <1>8, <1>9

\* slab_pool_destroy frees every chunk, since none is off the list.
LEMMA DestroyOK ==
  ASSUME Inv, slab_pool_destroy
  PROVE  Inv' /\ A!Destroy
<1>1. /\ chunk' = [c \in Chunks |-> IF c \in Listed THEN NULL ELSE chunk[c]]
      /\ chunksHead' = NULL /\ held' = {} /\ ptr' = ptr
  BY DEF slab_pool_destroy
<1>2. Live' = {}
  BY <1>1, ListedIsLive DEF Inv, Live
<1>3. \A c \in Chunks : chunk'[c] = NULL
  BY <1>2 DEF Live
<1>4. TypeOK'
  BY <1>1, <1>3 DEF Inv, TypeOK
<1>5. AllAccounted' /\ Links' /\ AllListed' /\ EmptyOnlyAlone'
  BY <1>1, <1>2 DEF AllAccounted, Links, AllListed, EmptyOnlyAlone
<1>6. A!Destroy
  BY <1>1 DEF A!Destroy
<1> QED
  BY <1>4, <1>5, <1>6 DEF Inv

\* slab_pool_init sets the invariant up.
LEMMA InitOK == Init => Inv /\ A!Init
<1> SUFFICES ASSUME Init
             PROVE  Inv /\ A!Init
  OBVIOUS
<1> DEFINE h == chunksHead
<1>1. /\ h \in Chunks /\ h # NULL /\ held = {} /\ ptr = NULL
      /\ chunk = [c \in Chunks |-> IF c = h THEN create_chunk ELSE NULL]
  BY ChunkAssumption DEF Init
<1>2. /\ create_chunk \in Chunk /\ create_chunk.next = NULL /\ create_chunk.prev = NULL
      /\ create_chunk.usedCount = 0
  <2> DEFINE f == [i \in Slots |-> chunkCapacity + 1 - i]
  <2>1. f \in Seq(Slots)
    BY NewAccounted DEF Accounted, create_chunk
  <2> HIDE DEF f
  <2>2. create_chunk = [next |-> NULL, prev |-> NULL, usedCount |-> 0, localFree |-> f]
    BY DEF create_chunk, f
  <2> QED
    BY <2>1, <2>2 DEF Chunk
<1>3. Live = {h} /\ chunk[h] = create_chunk
  BY <1>1, <1>2, NullAssumption DEF Live
<1>4. TypeOK
  BY <1>1, <1>2 DEF TypeOK
<1>5. AllAccounted
  <2>1. Out(h) = {}
    BY <1>1 DEF Out
  <2>2. Accounted(chunk[h].localFree, chunk[h].usedCount, Out(h))
    BY <1>2, <1>3, <2>1, NewAccounted
  <2> QED
    BY <1>1, <1>3, <2>2 DEF AllAccounted
<1>6. Links /\ AllListed /\ EmptyOnlyAlone
  BY <1>1, <1>2, <1>3 DEF Links, AllListed, FollowsNext, EmptyOnlyAlone
<1>7. A!Init
  BY <1>1 DEF A!Init
<1> QED
  BY <1>4, <1>5, <1>6, <1>7 DEF Inv

\* Every step keeps the invariant, and is a step of the allocator or none.
LEMMA StepOK ==
  ASSUME Inv, [Next]_vars
  PROVE  Inv' /\ [A!Next]_<<held, ptr>>
<1>1. CASE AllocFails
  <2>1. UNCHANGED <<chunk, chunksHead, held>> /\ ptr' = NULL
    BY <1>1 DEF AllocFails
  <2>2. Inv'
    <3>1. Live' = Live /\ \A c : Out(c)' = Out(c)
      BY <2>1 DEF Live, Out
    <3>2. Links' /\ AllListed'
      BY <2>1, <3>1, SameList DEF Inv
    <3>3. TypeOK' /\ AllAccounted' /\ EmptyOnlyAlone'
      BY <2>1, <3>1 DEF Inv, TypeOK, AllAccounted, EmptyOnlyAlone
    <3> QED
      BY <3>2, <3>3 DEF Inv
  <2> QED
    BY <2>1, <2>2 DEF A!Next, A!OutOfMemory
<1>2. CASE UNCHANGED vars
  <2>1. UNCHANGED <<chunk, chunksHead, held, ptr>>
    BY <1>2 DEF vars
  <2>2. Live' = Live /\ \A c : Out(c)' = Out(c)
    BY <2>1 DEF Live, Out
  <2>3. Links' /\ AllListed'
    BY <2>1, <2>2, SameList DEF Inv
  <2>4. TypeOK' /\ AllAccounted' /\ EmptyOnlyAlone'
    BY <2>1, <2>2 DEF Inv, TypeOK, AllAccounted, EmptyOnlyAlone
  <2> QED
    BY <2>1, <2>3, <2>4 DEF Inv
<1>3. ASSUME NEW c \in Chunks, AllocFromChunk(c) \/ AllocFromNew(c)
      PROVE  Inv' /\ A!Next
  BY <1>3, AllocFromChunkOK, AllocFromNewOK DEF A!Next
<1>4. ASSUME NEW b \in held, slab_pool_free(b)
      PROVE  Inv' /\ A!Next
  BY <1>4, FreeOK DEF A!Next
<1>5. CASE slab_pool_destroy
  BY <1>5, DestroyOK DEF A!Next
<1> QED
  BY <1>1, <1>2, <1>3, <1>4, <1>5 DEF Next, slab_pool_alloc

\* The invariant holds throughout.
LEMMA InvHolds == Spec => []Inv
<1>1. Init => Inv
  BY InitOK
<1>2. Inv /\ [Next]_vars => Inv'
  BY StepOK
<1> QED
  BY <1>1, <1>2, PTL DEF Spec

\* The fields of every chunk keep their types; usedCount never goes below zero.
THEOREM TypeCorrect == Spec => []TypeOK
<1>1. Inv => TypeOK
  BY DEF Inv
<1> QED
  BY <1>1, InvHolds, PTL

\* In every chunk each slot is on the free-list, once, or in the caller's hands,
\* and usedCount counts the latter.  So slab_pool_free never follows the
\* back-pointer of a block into a chunk that was returned to the heap.
THEOREM AllSlotsAccounted == Spec => []SlotsAccounted
<1>1. Inv => SlotsAccounted
  <2> SUFFICES ASSUME Inv, NEW c \in Live
               PROVE  LET free == chunk[c].localFree
                      IN  /\ {free[i] : i \in DOMAIN free} = Slots \ Out(c)
                          /\ Len(free) = chunkCapacity - Cardinality(Out(c))
                          /\ chunk[c].usedCount = Cardinality(Out(c))
    BY DEF Inv, AllAccounted, SlotsAccounted, Out
  <2> DEFINE f == chunk[c].localFree
             u == chunk[c].usedCount
  <2>1. Accounted(f, u, Out(c))
    BY DEF Inv, AllAccounted
  <2> HIDE DEF f, u
  <2>2. Len(f) \in Nat /\ u \in Nat
    <3>1. Out(c) \in SUBSET Slots
      BY DEF Out
    <3> QED
      BY <2>1, <3>1, OutFinite, FS_CardinalityType, LenProperties DEF Accounted
  <2>3. /\ {f[i] : i \in DOMAIN f} = Slots \ Out(c)
        /\ Len(f) = chunkCapacity - Cardinality(Out(c))
        /\ u = Cardinality(Out(c))
    BY <2>1, <2>2, CapacityAssumption DEF Accounted
  <2> QED
    BY <2>3 DEF f, u
<1> QED
  BY <1>1, InvHolds, PTL

\* No chunk is lost: slab_pool_alloc's and slab_pool_destroy's walk over next
\* reaches every chunk in the heap, and prev leads back.
THEOREM AllChunksLinked == Spec => []ChunksLinked
<1>1. Inv => ChunksLinked
  BY ListedIsLive DEF Inv, Links, ChunksLinked
<1> QED
  BY <1>1, InvHolds, PTL

\* slab_pool_free keeps an empty chunk only when it is the only one.
THEOREM OnlyOneEmpty == Spec => []EmptyOnlyAlone
<1>1. Inv => EmptyOnlyAlone
  BY DEF Inv
<1> QED
  BY <1>1, InvHolds, PTL

\* The pool is an allocator: slab_pool_alloc returns a block nobody holds, or
\* NULL and then loses nothing, and slab_pool_free takes back that block alone.
THEOREM Refinement == Spec => ImplementsAllocator
<1>1. Init => A!Init
  BY InitOK
<1>2. Inv /\ [Next]_vars => [A!Next]_<<held, ptr>>
  BY StepOK
<1> QED
  BY <1>1, <1>2, InvHolds, PTL DEF Spec, ImplementsAllocator, A!Spec
=============================================================================
