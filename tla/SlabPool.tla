------------------------------ MODULE SlabPool ------------------------------
(***************************************************************************)
(* slab_allocator.c: a pool of equal blocks, carved out of chunks that are *)
(* kept in a doubly linked list.  A chunk is an address of the heap with   *)
(* the Chunk in it; a block is a slot of a chunk, which its back-pointer   *)
(* names.  localFree is the chunk's free-list, its head first.             *)
(*                                                                         *)
(* The caller returns only blocks it was given (slab_allocator.h:80).      *)
(***************************************************************************)
EXTENDS Naturals, Sequences, FiniteSets

CONSTANTS
  Chunks,         \* addresses calloc may return for a chunk; it may also fail
  chunkCapacity,  \* slots per chunk
  NULL

ASSUME ChunkAssumption == IsFiniteSet(Chunks) /\ Chunks # {} /\ NULL \notin Chunks
ASSUME CapacityAssumption == chunkCapacity \in Nat \ {0}

Slots == 1..chunkCapacity
Blocks == Chunks \X Slots

\* A Chunk in the heap.
Chunk == [next : Chunks \cup {NULL}, prev : Chunks \cup {NULL},
          usedCount : Nat, localFree : Seq(Slots)]

ASSUME NullAssumption == NULL \notin Blocks /\ NULL \notin Chunk

VARIABLES
  chunk,       \* address -> NULL or the Chunk there
  chunksHead,  \* first chunk of the list, NULL once the pool is destroyed
  held,        \* blocks in the hands of the caller
  ptr          \* what the latest slab_pool_alloc returned

vars == <<chunk, chunksHead, held, ptr>>

Live == {c \in Chunks : chunk[c] # NULL}

-----------------------------------------------------------------------------
(* slab_allocator.c                                                        *)

\* Mutant of create_chunk: one block too many is threaded.
create_chunk_long ==
  [next |-> NULL, prev |-> NULL, usedCount |-> 0,
   localFree |-> [i \in 1..(chunkCapacity + 1) |-> chunkCapacity + 2 - i]]

\* create_chunk: the last block is threaded last and comes out first.
create_chunk ==
  [next |-> NULL, prev |-> NULL, usedCount |-> 0,
   localFree |-> [i \in Slots |-> chunkCapacity + 1 - i]]

\* S holds the head, and with a chunk of T the one behind it.
FollowsNext(S, T) ==
  /\ chunksHead \in S \cup {NULL}
  /\ \A c \in S \cap T : chunk[c].next \in S \cup {NULL}

\* The chunks a walk from the head visits that goes on after a chunk of T: no
\* more than it has to.
Visited(T) == {c \in Chunks : \A S \in SUBSET Live : FollowsNext(S, T) => c \in S}

Full == {c \in Live : chunk[c].localFree = <<>>}

\* The search of slab_pool_alloc goes on after a full chunk; it stops at c ...
FirstWithRoom(c) == c \in Visited(Full) \ Full

\* ... or runs off the end of the list.
NoRoom == Visited(Full) \subseteq Full

\* Mutant of Pop: usedCount is not raised.
PopNoCount(ch, c) ==
  LET b == <<c, Head(ch[c].localFree)>>
  IN  /\ chunk' = [ch EXCEPT ![c].localFree = Tail(@)]
      /\ held' = held \cup {b}
      /\ ptr' = b

\* The first free block of c is popped and handed to the caller.
Pop(ch, c) ==
  LET b == <<c, Head(ch[c].localFree)>>
  IN  /\ chunk' = [ch EXCEPT ![c].localFree = Tail(@), ![c].usedCount = @ + 1]
      /\ held' = held \cup {b}
      /\ ptr' = b

AllocFromChunk(c) ==
  /\ FirstWithRoom(c)
  /\ Pop(chunk, c)
  /\ UNCHANGED chunksHead

\* Mutant of Prepend: the old head keeps a NULL prev.
PrependForgetsPrev(c) ==
  [x \in Chunks |-> IF x = c THEN [create_chunk EXCEPT !.next = chunksHead] ELSE chunk[x]]

\* A new chunk at c becomes the head of the list.
Prepend(c) ==
  [x \in Chunks |->
     IF x = c THEN [create_chunk EXCEPT !.next = chunksHead]
     ELSE IF x = chunksHead THEN [chunk[x] EXCEPT !.prev = c]
     ELSE chunk[x]]

AllocFromNew(c) ==
  /\ chunksHead # NULL /\ NoRoom
  /\ c \notin Live
  /\ Pop(Prepend(c), c)
  /\ chunksHead' = c

\* calloc fails.
AllocFails ==
  /\ chunksHead # NULL /\ NoRoom
  /\ ptr' = NULL
  /\ UNCHANGED <<chunk, chunksHead, held>>

\* Mutant of Emptied: the last chunk of the list is taken for the only one.
EmptiedNotLast(k) == k.usedCount = 0 /\ k.next # NULL

\* Mutant of Emptied: the test is off by one.
EmptiedEarly(k) == k.usedCount <= 1 /\ (k.next # NULL \/ k.prev # NULL)

\* k is empty and not the only chunk.
Emptied(k) == k.usedCount = 0 /\ (k.next # NULL \/ k.prev # NULL)

\* The list without c, whose memory goes back to the heap.
Unlink(ch, c) ==
  [x \in Chunks |->
     IF x = c \/ ch[x] = NULL THEN NULL
     ELSE [ch[x] EXCEPT !.next = IF x = ch[c].prev THEN ch[c].next ELSE @,
                        !.prev = IF x = ch[c].next THEN ch[c].prev ELSE @]]

slab_pool_free(b) ==
  LET c == b[1]
      ch == [chunk EXCEPT ![c].localFree = <<b[2]>> \o @, ![c].usedCount = @ - 1]
  IN  /\ b \in held
      /\ held' = held \ {b}
      /\ UNCHANGED ptr
      /\ IF Emptied(ch[c])
         THEN /\ chunk' = Unlink(ch, c)
              /\ chunksHead' = IF chunksHead = c THEN ch[c].next ELSE chunksHead
         ELSE /\ chunk' = ch
              /\ UNCHANGED chunksHead

\* The chunks slab_pool_destroy frees.
Listed == Visited(Live)

slab_pool_destroy ==
  /\ chunksHead # NULL
  /\ chunk' = [c \in Chunks |-> IF c \in Listed THEN NULL ELSE chunk[c]]
  /\ chunksHead' = NULL
  /\ held' = {}
  /\ UNCHANGED ptr

\* slab_pool_init: the first chunk exists before any other call.
Init ==
  /\ chunksHead \in Chunks
  /\ chunk = [c \in Chunks |-> IF c = chunksHead THEN create_chunk ELSE NULL]
  /\ held = {}
  /\ ptr = NULL

slab_pool_alloc ==
  \/ \E c \in Chunks : AllocFromChunk(c) \/ AllocFromNew(c)
  \/ AllocFails

Next ==
  \/ slab_pool_alloc
  \/ \E b \in held : slab_pool_free(b)
  \/ slab_pool_destroy

Spec == Init /\ [][Next]_vars

-----------------------------------------------------------------------------
(* Properties.                                                             *)

TypeOK ==
  /\ chunk \in [Chunks -> Chunk \cup {NULL}]
  /\ chunksHead \in Chunks \cup {NULL}
  /\ held \subseteq Blocks
  /\ ptr \in Blocks \cup {NULL}

\* Nobody is handed a block that somebody holds, a failed calloc loses
\* nothing, and what was given back can be given out again
\* (slab_allocator.c, slab_pool_alloc and slab_pool_free).
A == INSTANCE Allocator WITH used <- held
ImplementsAllocator == A!Spec

\* In every chunk each slot is either free, once, or held, and usedCount says
\* how many are held.  So the chunk of a held block is never given back to
\* the heap, where slab_pool_free would follow its back-pointer.
SlotsAccounted ==
  /\ \A b \in held : b[1] \in Live
  /\ \A c \in Live :
       LET out == {s \in Slots : <<c, s>> \in held}
           free == chunk[c].localFree
       IN  /\ {free[i] : i \in DOMAIN free} = Slots \ out
           /\ Len(free) = chunkCapacity - Cardinality(out)
           /\ chunk[c].usedCount = Cardinality(out)

\* Every chunk that was allocated is found from the head, over next, and the
\* prev pointers lead back: none is lost when its neighbours are released,
\* and slab_pool_destroy frees them all.
ChunksLinked ==
  /\ Listed = Live
  /\ \A c \in Live :
       /\ chunk[c].next # NULL => chunk[chunk[c].next].prev = c
       /\ IF chunk[c].prev = NULL THEN chunksHead = c ELSE chunk[chunk[c].prev].next = c

\* slab_allocator.h:77: an empty chunk is only kept when it is the last one;
\* memory that a burst of connections took is given back when they are gone.
EmptyOnlyAlone ==
  \A c \in Live : chunk[c].usedCount = 0 => Live = {c}
=============================================================================
