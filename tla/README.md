# Verification of Segnalacity

Segnalacity is an HTTP server in C for reports of urban problems: one libuv
thread, an SQLite database, three roles (citizen, operator, admin).  This
directory holds TLA+ models of its parts, the TLC configurations that check
them on small instances, and TLAPS proofs for every value of the constants.

## 1. The system

| Component | State it keeps | Operations | Hard part |
|---|---|---|---|
| `report.c` | table `reports`; `g_cache`, 32 slots of printed JSON | insert, assign, accept, reject, resolve, rate; list active / archived / all of a city | cache invalidated by every write for every affected reader; expiry, eviction; a statement failing in the middle |
| `route_api.c`, `route_pages.c`, `route_handler.c`, `route_helpers.c` | none | one handler per route: authenticate, validate, call `report.c` / `user.c` / `session.c`, answer | checks made on one row version and writes guarded by another; the forced reassignment in two UPDATEs |
| `db.c` | the connection | prepare, exec, cursors | failures are return codes that callers may ignore |
| `user.c` | table `users` | register, authenticate, look up | one admin per city is check-then-insert |
| `session.c` | hash table token -> copy of the user row, creation time | create, verify (deletes expired), destroy | tokens, expiry only on use |
| `rate_limiter.c` | hash table address -> two counters and a window start | `rate_limit_check` | whole seconds, pauses, recycling of the table |
| `hash_table.c` | buckets of chained entries, size, capacity | create, set, get, delete, resize, save, load | resize, allocation failures |
| `connection_handler.c` | one `ClientCtx` per connection, writes in flight | the libuv callbacks: connection, alloc, read, write done, timeout, close | any order of callbacks, two handles closing, failure before linking |
| `client_manager.c` | doubly linked active list, count, slab pool | alloc, release, link, unlink, close_all | pointers and count |
| `slab_allocator.c` | chunks with free-lists | init, alloc, free, destroy | releasing an empty chunk |
| `server.c` | the loop | init, bind, signal, shutdown | draining |
| `http_utils.c`, `template.c`, `geo.c` | templates and city boxes loaded at start | completeness test, decoding, rendering, point in box | parsing |
| `picohttpparser.c` | none | vendored | - |

How they interact.  A connection accumulates bytes until a request is
complete, stops reading and its timer, asks the rate limiter, dispatches to a
handler which runs to completion, and writes the answer; the write callback
starts the next round or closes.  Handlers share the database, the cache and
the session table.  As there is one thread, what interleaves are *requests* of
different users, libuv callbacks, the clock, failures of single statements or
allocations, and restarts.

## 2. Modules

| Module | Models | Kind |
|---|---|---|
| `Reports` | `report.c`, the handlers of `route_api.c`, `route_post_submit`; `db.c` by its results | state machine |
| `ReportLifecycle` | what the API promises about a report | abstract specification |
| `RateLimiter` | `rate_limiter.c` | state machine |
| `Connections` | `connection_handler.c`, `client_manager.c`, the shutdown of `server.c`; libuv external | state machine |
| `SlabPool`, `Allocator` | `slab_allocator.c`; what an allocator promises | state machine, abstract specification |
| `HashTable`, `FiniteMap` | `hash_table.c`; what a map promises | state machine, abstract specification |
| `Accounts` | `user.c`, `session.c`, the page handlers of `route_pages.c`, `route_api_operators` | state machine |
| `RequestStream` | the buffers of `connection_handler.c`, request assembly and parsing of `http_utils.c` | state machine |
| `HttpText`, `Templates` | the text functions of `http_utils.c`; `template.c` | operators |
| `MCReports`, `MCHashTable`, `MCHttp` | constants and bounded inputs for TLC; `MCHttp` also states what the operators should return | instances |
| `ReportsProofs`, `RateLimiterProofs`, `AccountsProofs`, `ConnectionsProofs`, `SlabPoolProofs`, `HashTableProofs`, `RequestStreamProofs` | the safety theorems of each component | proofs |
| `ReportsRefinement` | `Reports` implements `ReportLifecycle` | proofs |

How the models fit together.  `Accounts` decides who a request comes from, which
`Reports` takes as the choice of a visitor; users are constants there, since no
operation changes a user row.  `Connections` has the handles, the timers and
the list of a connection, `RequestStream` the bytes in it.  `Connections` takes
any free block from the pool, which is what `SlabPool` is shown to give;
`Accounts` and `RateLimiter` take a map, which is what `HashTable` is shown to
be.  `CookieValue` of `Accounts` is what `http_request_cookie` of `HttpText`
returns, checked there as `SessionCookieRead`.

### Reports

`reports` is the table, a sequence indexed by id (ids are AUTOINCREMENT and
rows are never deleted).  `cache` is `g_cache`; an entry keeps its age instead
of `cachedAt`.  `resp` is the last response, so that properties can speak of
what a user received.  Each handler is one action with its early returns in
the code's order.  The write operations are operators from (table, cache) to
(return code, table, cache): the guarded UPDATE, the `db_changes` test, the
re-read of the row and the invalidation.  `DbFaults` names the statements that
may fail; one per request may, as every failure but that of the reset ends the
handler.  Left out: names, coordinates, texts, the order of lists, and the
second a timestamp holds (NULL or set is kept).  A row whose JSON object cannot be
allocated is left out of the array by `cJSON_AddItemToArray`, and the shorter array is
served and cached (fault `row`); an object that lacks a member for the same reason is
taken for one that is left out.  A list's size is its number of
rows, with `CacheRows` and `BodyRows` for `CACHE_JSON_MAX` and
`RESPONSE_BUFFER_SIZE`.  Users and their cities are constants, since no
operation changes a user row and a session copies it.

### RateLimiter

`rateTable` maps an address to its entry, the window start as an age of 0, 1 or
"2 or more" seconds, which is all the code distinguishes.  `admitted` is a
history variable: the admissions of this second and of the one before since
the table was created.  `last` is the latest verdict.  `ht_set` is taken to
succeed and the clock not to go back.

### Connections

`ctx`, `head` and `count` are the program's state with its pointers; `tcp`,
`timer`, `inflight` and `listener` are libuv's, modelled from what the code
relies on: a close callback comes once per handle, some time after `uv_close`;
a write in flight gets its callback before its handle's close callback; `uv_write`,
whose result `send_response` ignores, is accepted for one buffer on an open, accepted
handle and fails only by its callback; start operations refuse a closing handle; a listener whose callback did not call
`uv_accept` is not polled again before `uv_accept`.  Every callback is one
action.  What a request says is a choice between its possible outcomes.
`Listed`, what a walk from `head` visits, is the least set of contexts that
has the head and the successor of each of its members.

`refused` is history: how often `uv_accept` has failed, up to `MaxRefused`.  A
failure breaks the active list for good (see the findings), so `ListIntact` and
`ShutdownCompletes` speak of the time before.

### SlabPool

A chunk is an address with the fields of `Chunk`; a block is a slot of a chunk.
`localFree` is the free-list as a sequence.  `held` are the blocks the caller
has, `ptr` what the latest allocation returned.  `Visited(T)` is what a walk
from `chunksHead` visits when it goes on only from the chunks of `T`, again as
a least set: the search of `slab_pool_alloc` goes on from full chunks, the walk
of `slab_pool_destroy` from all.  The search for a chunk with
room, the new head, the release of an empty chunk and the failure of `calloc`
are as in the code.  The caller returns only what it was given, as
`slab_allocator.h` requires.  `Allocator` knows only which blocks are used.

### HashTable

A chain is a sequence of entries with their cached hash, and an entry is at a
place, its bucket and its position in the chain.  `InOrder` is the order in which
`ht_snapshot` and `ht_resize` visit the places, so that a resize, which puts each
entry at the head of its new bucket, is described without going through the
chains one by one.  Each table draws one of the functions of `Hashes`, as
`generate_seed` does.  `NotStored` is what a table may be after an allocation
inside `ht_set` has failed: in one case it was resized already.  A snapshot has all
entries, or after a failure of `fopen` or `fwrite`, which nobody is told of, the old
file or any prefix of the new one.  The server itself passes no path to any of its
tables, so it never saves or loads one; both are modelled as the header offers them.

Every call holds the lock throughout, and with one thread is one step, but
`ht_load` locks for each record: `loading` counts the records read and remembers
whether `ht_set` has failed for one; a step reads one, and if it cannot be stored it
is passed over and the next one may be stored; `ht_load_clean` ends the call, after
the last record or before, with 1.  `failed` is history: whether the latest save or
load met such a failure.  The search for the next capacity is taken to end
(`SearchEnds`), that is, to find a prime between n and 2n.

`FiniteMap` has the map, the saved map, `failed` and the return value; a step of the
table that changes no value is a stutter of the map.  `ht_load` takes effect when it
returns: until then the map is seen empty, as it was before.  Unless something
failed, a snapshot saves the whole map and a load restores all that was saved; only
with `failed` may it be a part, and then any part, not a prefix.  In no case is a
value changed or a key made up.

### Accounts

`users` is the table, `sessions` the map of `session.c` with ages instead of
creation times, `jar` the browsers' cookies, with who logged in to get them as
history.  Answers may be lost: a login that creates a session nobody holds, a
logout whose browser keeps its cookie.  A drawn token may be that of a live
session, which the loop of `session_create` has to reject; it is taken never to
be one that was used before and that some browser still remembers.  `Trailing`
are the browsers that send another cookie after `sid`.  A password is right or
wrong.

### RequestStream, HttpText and Templates

A text is a sequence of byte values.  The head of a request is two units, its
start line with all headers and the blank line; the rest are bytes.
picohttpparser is external: a head is incomplete, malformed, or complete at an
offset.  `buffer` is the whole receive buffer, what an earlier request or
`malloc` left in it included; C strings in it end at the first NUL.  A body is
any sequence of bytes, NULs included; the forms of browsers are built in
`MCHttp`.
`g_response_buffer` is shared by all connections, `inflight` holds the copy in
the `WriteReq`.  Clients do not pipeline.  The handler is any that reads two
form fields.  A loop of `HttpText` or `Templates` is an operator for one round of
it, which does nothing once the loop has ended, and a function of the number of
rounds; each round reads something, so a text's length of them are enough.

## 3. Runs

| Run | Shows | States |
|---|---|---|
| `reports_cache` | `TypeOK`, `CacheCoherent`, `ServedFresh`, `NoDuplicateKeys`, `ErrorLeavesTable` with two slots for the eight keys of four users, two reports, lists of two rows too large for the cache, and a reset that may fail | 134k |
| `reports_faults` | `RowConsistent`, `ImplementsLifecycle`, `StaleExpires` with two cities, two operators of one city, and every statement failing | 13k |
| `rate_limiter` | `TypeOK`, `TwoSecondBound`, `TableBounded`, `NobodyLockedOut` with four addresses, a rate of 3 and a table limit of 2 | |
| `connections` | `TypeOK`, `ListIntact`, `NoUseAfterRelease`, `NeverAbandoned`, `ClosesCounted`, `ShutdownCompletes`, `IdleReaped` with three connections and one failing `uv_accept` | 133k |
| `slab_pool` | `TypeOK`, `SlotsAccounted`, `ChunksLinked`, `EmptyOnlyAlone`, `ImplementsAllocator` with three chunks of two blocks | 1.6k |
| `hash_table` | `EntriesCounted`, `EntriesPlaced`, `LoadBelowOne`, `ImplementsMap` with three keys, two values, two hash functions; `GrowsToPrime` for capacities up to 150 | 65k |
| `accounts` | `TypeOK`, `ServedAsSelf`, `OneAdminPerCity`, `SessionsEnd` with two names, cities, browsers, tokens and users | 285k |
| `http` | `OwnAnswers`, `NeverWaitsForMore` with two clients; `DecodesEncoded`, `SessionCookieRead`, `EscapeSafe`, `FragmentsCounted`, `RendersRight` over all short inputs | 35k |

Four runs exhibit a disagreement between the code and what a comment or a
header says; TLC finds the counterexample.

| Run | The code | The text |
|---|---|---|
| `reports_reassign` | a forced reassignment whose second UPDATE fails changes the row without invalidating the cache | `report.h:86` "Called after any write operation" |
| `connections_unlink` | a context that was never linked is unlinked after a failed `uv_accept`; the head of the list is lost | `client_manager.h:80` "@pre ctx is currently linked in the list." |
| `connections_cap` | once the cap was reached, nothing is accepted again | `config.h:26` "hard cap on simultaneous connections" |
| `accounts_logout` | the cookie value ends at a space or at the end of the buffer, not at ';'; logout's buffer is one byte larger than the token, so with a second cookie it looks for `TOKEN;` and deletes nothing | `route_pages.h:40` "destroys the session and redirects to /." |

Smaller disagreements that have no run: `report.c:372` says that only non-empty
results are cached, but an empty list is the two bytes `[]` and is cached;
`report.h:190` says that an operator's active list has reports in progress,
but the query selects assigned ones too; `rate_limiter.h:28` says that
`countPrev` counts the previous second, but after a pause it holds the count of
the last active one, however old (`TwoSecondBound` holds all the same, and so
does `NobodyLockedOut`).

Four more are about the hash table.  `README.md:127` of the repository says
"Auto-resize to the next prime ≥ 2× capacity when the load factor reaches 1".
`next_prime` searches odd numbers only (`hash_table.c:376`), so a table of capacity
1 grows to 3 and not to 2: `GrowsTo` states the sentence with this exception.  And
the resize comes before an insertion with which the load factor would reach 1
(`hash_table.c:90`, `size + 1 >= capacity`), so it never does, which is
`LoadBelowOne`.  `hash_table.h:69` says of `ht_snapshot` "All current entries are
serialized to the file at path", but the results of `fwrite` are ignored and the
function returns nothing.  `hash_table.h:126` to `129` say of `ht_load` "The table is
populated with entries from the file" and "1 on success, 0 on failure", but it
returns 1 too when a record could not be stored and was passed over, and when an
allocation, a short read or a bad length ended the loop early (`hash_table.c:285`).
`FiniteMap` has what is left of the two promises: they hold when nothing fails, and
`failed` says when they need not.

### Bounds and why they are enough

- Two reports and two slots in `reports_cache`: coherence is a relation between
  one entry and the rows it selects; entries of different users and both lists
  of each compete for the slots, so every eviction case occurs.  The TTL is 0:
  an entry is live in the second it was made and expired after it.  The proof
  (below) covers any number of rows, users and slots, and every failing
  statement outside `IncoherentFaults`.
- One report in `reports_faults`, by a citizen of either city: every check of a
  city has a wrong user to act on, and rows do not depend on one another.  TTL
  1: an entry is seen live, at the limit and expired.
- Four addresses with a table limit of 2: the table passes its limit (3) and is
  recycled with an address left over; three admissions per second show
  bursts that are split over the boundary.
- Three connections: the first, the middle and the last of the list are
  unlinked.  A receive buffer of one read: it fills up.  `MaxRefused` is 1, as
  every failure of `uv_accept` lowers the count for good.
- Three chunks of two blocks: a chunk is released from each end and from the
  middle of the list, full, half full and empty.
- Three keys in a table that starts with one bucket: two resizes (1, 3, 7),
  chains of two and three.
- Two browsers, tokens and users in `accounts`, and a lifetime of one tick: a
  token changes hands, expires while it is used, and is drawn while live.
- In `http` one client sends forms of several lengths over one connection, one
  of which fills the buffer to the last byte and one of which does not fit; the
  other sends one form.  The two share nothing but `g_response_buffer`.  Field
  names are such that one ends with the other, and values contain `&`, `=` and
  what looks like a field.  Texts have up to three characters and buffers up to
  14 bytes, more than the longest entity; page texts have up to six
  characters out of `{`, `}` and a letter.

### Fairness

- `Reports!FairSpec`: only that time passes.  No user is assumed to do anything.
- `RateLimiter!RetrySpec`: time passes and the addresses of `Retrying` keep
  sending; the others need not.
- `Connections!FairSpec`: libuv does not leave a block with a due callback
  waiting forever (`DueCallback`: its timer, the close callbacks of its handles,
  the callback of a write on a closing handle, which is cancelled), and the
  main thread continues with the shutdown.  A peer need neither send nor read: writes on an
  open handle are not fair.
- `Accounts!FairSpec`: only that time passes.

## 4. Proofs

`ReportsProofs` (for any users, cities, slots, limits and, where not stated
otherwise, any failing statements):

- `TypeCorrect` and `RowsConsistent`, from the inductive invariant `WellFormed`:
  rows are typed *and* consistent, cache entries carry keys of real users, and
  the response is a reply.  Consistency of rows is needed for the types' sake
  and for coherence: a row is only in views of users of its own city.
- `CacheStaysCoherent` and `ListsServedFresh`, under `SafeFaults` (no statement
  of `IncoherentFaults` fails).  The argument: `InvalidateCoherent` shows that
  when one row changes and keeps its author and city, every view that contains
  it before or after belongs to an entry that
  `report_cache_invalidate_city` drops, because by `RowConsistent` an assignee
  is an operator of the row's city and an author's key is dropped by id.  Each
  write operation is then an instance of `GuardedUpdateOK`; the forced
  reassignment composes two (`ReassignOK`).
- `ErrorsChangeNothing`: the action property `ErrorLeavesTable`, unless the
  retry can fail.
- `KeysStayUnique`: `NoDuplicateKeys`, for any failing statements.  A write only
  frees slots (`WriteThins`); a list request stores under a key only after
  `cache_find` went through all slots and freed or returned what had it
  (`ListKeepsKeys`).

`ReportsRefinement`: `Refinement`, that is `Spec => ImplementsLifecycle`, for any
failing statements.  The refinement mapping keeps of a row its phase, holder
and rating.  Each write is shown to be either nothing or the one row update its
WHERE clause describes (`GuardedUpdateDoes` and one lemma per write), each
handler to be a stutter or the lifecycle's step for its user, with what the
handler checked before; the forced reassignment, two UPDATEs in one request, is
one step of the lifecycle whether or not the second fails.  The simulation needs
`RowConsistent`, from `ReportsProofs`.

`RateLimiterProofs`: `AdmissionsBounded`, `TableStaysBounded`, `TypeCorrect`,
from `Inv`: the counters of the two latest windows together stay within the
rate and account for the history (`Accounts`), case by case in the age of the
window.  `TwoSecondBound` alone is not inductive, as it does not speak of the
counters.

`AccountsProofs`: `TypeCorrect`, `NobodyServedAsAnother` and, if the SELECT for
an administrator never fails, `OneAdministration`.  `ServedAsSelf` speaks of one
response only; its inductive strengthening adds that a session's copy of the
row is the row (`SessionsTrue`, as rows never change) and that a cookie which
still opens a session opens the one its browser logged in to (`JarTrue`).
`JarTrue` survives a login because the new token is none that a browser
remembers, the assumption on 128 random bits.  `OneAdminPerCity` is inductive:
a register appends one row, and an administrator's only if no row has the city.

`ConnectionsProofs`, for any number of blocks, any cap and buffer size and any
sequence of callbacks and failures: `TypeCorrect`, `ListStaysIntact`,
`NothingUsedAfterRelease`, `NobodyAbandoned` and `AllClosesCounted`, from
`Inv == TypeOK /\ Phases /\ Links /\ AllListed`.

- `Phases` relates, for each block, the context's `closing` and `pendingCloses`
  to the state of both handles and the write in flight.  The properties each
  speak of a part of this and none is inductive by itself: that the last close
  callback finds no write in flight needs that the TCP handle's callback comes
  after the write's, and that an open context has no close pending.
- `Links` says that `next` and `prev` are inverse and lead to contexts in use.
  It survives a failed `uv_accept`, after which contexts are lost but no pointer
  dangles.
- `AllListed` says that every set with the head that is closed under `next` has
  all contexts in use, and that the count is their number.  With `Listed` as the
  least such set, linking and unlinking are shown by extending or shrinking a
  closed set by one element; no induction along the list is needed.

`SlabPoolProofs`, for any number of chunks and any capacity: `TypeCorrect`,
`AllSlotsAccounted`, `AllChunksLinked`, `OnlyOneEmpty` and `Refinement`
(`Spec => ImplementsAllocator`), from `Inv == TypeOK /\ AllAccounted /\ Links /\
AllListed /\ EmptyOnlyAlone`.  `AllAccounted` makes the free-list of a chunk a
listing without repetition of exactly the slots that are not held, so that a
push and a pop keep it; `Links` and `AllListed` are as above.  Refinement
follows: the head of a free-list is a block that nobody holds.

`HashTableProofs`, for any keys, values, hash functions and first capacity:
`TypeCorrect`, `SizeCounts` (`EntriesCounted`), `HashesPlace` (`EntriesPlaced`),
`RoomLeft` (`LoadBelowOne`) and `Refinement` (`Spec => ImplementsMap`), from `Inv`.

- A table is well-formed (`TableOK`) if every entry is in the bucket of its hash
  (`Placed`), no key is at two places (`KeyedOnce`) and `size` is the number of keys
  (`Counted`).  None is inductive without the others: a key that was placed wrong
  would be inserted a second time, and a key chained twice would be counted once
  too often after `ht_delete`.
- `EntriesCounted` speaks of the listing `Entries`.  That `InOrder` exists and
  lists every place once is shown from the rank of a place, the number of places
  before it; from then on a resize or a delete is a bijection of places that keeps
  the entries (`Relocated`), so the keys and the values found under them stay.
- The size stays below the capacity although a resize may fail at any call,
  because then nothing is stored either.
- A running load has stored only what the file has under the key, and what it has
  read is stored unless `ht_set` has failed (`LoadOK`; a snapshot has one record of a
  key, `FileOK`), so that when it ends the table is the saved map, or after a failure
  a part of it.  That a whole snapshot is the map rests on `Entries` visiting every
  place (`RecordsArePart`).
- `IsPrimeCorrect`: trying 2, 3 and 6k - 1, 6k + 1 up to the root decides primality,
  for every number, by its least divisor.  `NextPrimeIsLeast`: a capacity grows to
  the least prime that is not below its double, 1 excepted, if there is one below four
  times it.

`RequestStreamProofs`, for any number of clients, any requests, buffer size and
splitting of the input: `EveryoneGetsOwnAnswer` (`OwnAnswers`) and
`WaitsOnlyForWhatComes` (`NeverWaitsForMore`).  The inductive invariant says for
each client where its request is: split between the first `totalRead` units of
the buffer and the socket (`Split`) while it is read, answered by a response
that is its own while one is in flight, and nowhere, with `totalRead` 0, in
between.  `CompleteIs` shows that the completeness test accepts at the last unit
and not before, `HandledRight` that the NUL which `on_read` puts behind the
request cuts off whatever else is in the buffer.  What `get_field` makes of the
body does not matter to this argument.

Its second half is about the text and template functions, for every input.
`Rounds` shows that a loop, given as what each round makes of a state, has a run,
and `RoundsInduction` that what holds first and survives each round holds
throughout (by a least counterexample, as `NatInduction` has an operator as its
parameter).  From these:

- `EscapedFits`, `EscapedWhole`: `html_escape` stays within its buffer, leaves no
  markup, and writes the entities of the first characters in a row, all of them
  unless the buffer has no room; it never cuts one.
- `DecodedFits`, `DecodedWhole`: `url_decode` leaves room for the NUL, writes none
  before it, and cuts a value between characters only.
- `DecodedRight`: it undoes every encoding of a value.  `Encodes` is what a browser
  may send, `+` for a space, itself for what needs no escape, or an escape with
  digits of either case.
- `FieldRead`, `CookieRead`: `get_field` and `http_request_cookie` find the first
  field or cookie of the name and return its value up to the size of the buffer,
  a cookie's if it is the header's last or fills the buffer.  The session token
  does; where the buffer is one byte larger the hypothesis fails, which is the
  finding of `accounts_logout`.  `FieldsFit`: whatever the request, the result is a
  C string that fits.
- `FragmentsFit`: the two passes of `parse_fragments` agree, so the array has
  exactly room for what is stored, and each fragment is a piece of the page.
- `RenderedFits`, `RenderedWhole`: `tpl_render` stays within its buffer, writes
  literals and values in a row, each whole, and returns -1 exactly when the next
  one does not fit.

Assumptions are the named ones of the modules: ids are positive numbers, roles
are disjoint, limits are natural numbers, blocks and chunks are finitely many,
requests and the garbage of `malloc` are bytes, NULL is none of the values it is
compared with.

Only model-checked:

- all liveness (`StaleExpires`, `NobodyLockedOut`, `ShutdownCompletes`,
  `IdleReaped`, `SessionsEnd`), which is out of the prover's reach;
- that there is a prime between n and 2n, on which `SearchEnds` rests:
  `GrowsToPrime` looks for it at capacities up to 150;
- that the fragments of a page are the right ones (`RendersRight`): that a key is
  what stands between the braces, and that a failing render leaves exactly the
  longest run of whole fragments that fits.  The theorems say that every fragment is
  a piece of the page and is rendered whole;
- `DecodesEncoded`, `SessionCookieRead`, `EscapeSafe` and `FragmentsCounted` as they
  stand: `MCHttp` computes their inputs, a whole form, a list of cookies or the
  reverse of an escape, by recursion over a text, which no theorem may reach.  What
  they say is stated for every input by `FieldRead`, `CookieRead`, `EscapedWhole`
  with `EscapedFits`, and `FragmentsFit`.  That the other fields of a form are not
  taken for the one sought is a hypothesis there, and what `DecodesEncoded` checks
  for values that look like a field.

## 5. What is left open

The three items above, and the order of a list of reports, which the model does
not have.  Bertrand's postulate would turn `SearchEnds` from a guard into a lemma;
`NextPrimeIsLeast` is the only theorem that has it as a hypothesis of its own.

## 6. Not modelled

Output or computation without shared state: `http_response_render`, which
formats into a buffer sized for it; loading of templates and of the city
boxes, which runs once at the start; the geometry; password hashing and the
generation of tokens; static pages; the vendored HTTP parser; and the scripts
of the browser pages.

The JavaScript in the repository is the viewer that Doxygen puts into the
generated manual under `docs/`; it is not part of the server, which is written
in C, and is not modelled.

A clock that steps back, pipelined requests and a peer that stops reading are
listed as hazards without a property, with the reason.  A failing SELECT in
`user_register_admin` is in `Accounts` (`Fails("admin")`) and left out of the
run: with it a city can get a second administration.
