# Piazza in TLA+

Piazza is a small distributed key-value store in C++.  A *coordinator*
(`coordination_server.cpp`) accepts clients and slaves; a *slave*
(`SlaveServer.cpp`) keeps two tables in memory; a *client* (`Client.cpp`) is an
interactive front end.  This directory holds TLA+ modules translated from that
code, TLC configurations that check them on small instances, and proofs that
TLAPS checks for every instance.

To run something: `tlc -config MCRingTree_ring.cfg MCRingTree`,
`tlapm SlaveServerProofs.tla`.  `PROJECT.json` lists the runs, the lines each
definition was translated from, the hazards the properties are for, and for
each property a mutation of the model under which TLC finds it violated.

## 1. The system

### Components

| component | code | state it keeps | operations |
|---|---|---|---|
| Slave request threads | `SlaveServer.cpp` 167-603 | `data_client`, `data_secondary`, `migration_count`, `thread_count`, `mutex_sync` | get, put, update, delete, termination; migration tasks merge, send, get |
| Coordinator cache of a slave | `lru_cache.hpp` | list `dq` of pairs, map `ma` of iterators | `putInSet`, `getValue`, `deleteKey` |
| Coordinator data path | `coordination_server.cpp` 169-231, 381-643 | per-thread locals, the caches | `clientHandle`, `getData`, `putData`, `updateData`, `deleteData`, `put_update_delete_handle` |
| Hash ring | `coordination_server.cpp` 822-1022 | `treeRoot`, a search tree of slaves by hash | insert, delete, upper bound, predecessor, successor |
| Migration | `coordination_server.cpp` 645-734 | tables of three slaves | the three messages to the successor and its successor, 4 s apart |
| Membership | `coordination_server.cpp` 232-309, `SlaveServer.cpp` 75-139 | tree, `slavemap`, heartbeat timer | registration, heartbeat, time-out |
| Users | `coordination_server.cpp` 311-379 | `clientmap` | `create_user`, `login` |
| Accept loops | `coordination_server.cpp` 22-167, `SlaveServer.cpp` 605-662 | sockets, `file_fds` | first message of a connection, one thread per connection |
| Client | `Client.cpp` | its socket, the user's command | connect, greet, one request at a time, log out |
| Hash functions | `fnv-hash/` | none | FNV-1, FNV-1a of 32 and 64 bits |
| JSON reader | `include/rapidjson/reader.h` | position, handler, stack | three parsers, strings, numbers |
| JSON writers | `writer.h`, `prettywriter.h`, `stringbuffer.h`, `internal/` | buffer, levels | one call per event |
| JSON documents | `document.h`, `allocators.h` | cells in a pool of chunks | parse, find, add, erase, move, copy, compare |
| JSON encodings | `encodings.h`, `encodedstream.h`, `memorystream.h` | a position | decode, encode, validate, detect |
| JSON Pointer | `pointer.h` | tokens | parse, write, compare, create, get, set, erase |
| JSON schema, regex, files | `schema.h`, `internal/regex.h`, file streams | | not used |
| Prototype | `replication_group.cpp`, `s1.cpp`, `s2.cpp` | | does not compile, unused |

### How they interact

A client keeps one connection to the coordinator, served by one thread.  A get
is answered from the cache of the primary slave of its key or by that slave.  A
write opens two connections, to the primary ("addAs" 1, into `data_client`) and
to the next slave of the ring ("addAs" 0, into `data_secondary`), waits for
both, passes on the primary's answer and then touches the cache.  Every one of
these connections is a new thread on the slave.  When the thread that listens
to a slave's heartbeats gives it up, it deletes it from the tree and tells the
next slaves to fetch and merge tables; those messages are requests on the same
port as the data requests.  No thread of the coordinator takes a lock.  A slave
has one lock, which migrations take and which a data request takes only if it
sees a migration at work.

Every message is a JSON text.  It is parsed into a `Document`, changed there
(`document["addAs"]="1"`), and written again by a `Writer` into a
`StringBuffer`; keys and slaves are put on the ring by an FNV-1a hash.  Both
libraries are vendored in the repository, so that a wrong answer of theirs is a
wrong answer of the store: a key hashed differently is looked for on another
slave, a member lost in the document is an entry lost.

### What is hard

* threads of a slave meet on two counters, of which one is updated without the
  lock, and on two hash tables;
* client threads of the coordinator share the tree, the caches and the map of
  users, unlocked;
* state is read, a network round trip follows, and then it is used (the cache
  after the answer, the tree nodes during a migration);
* a slave holds its lock while it waits for another slave's;
* nothing reports that a step of a migration is done: a sleep ends;
* messages are whatever one `recv` returns, and a text that does not parse
  leaves the document of the last one in place;
* failures: a slave cannot be reached or is wrongly suspected, a client leaves,
  a message is cut, a leg of two fails;
* tree code that has to be right for every order of arrivals and deaths;
* a JSON library with three parsers, arithmetic at the limits of three widths,
  buffers written unchecked after a reservation, and values that share, grow and
  move blocks of a pool.

What makes each component correct: the *slave* loses no acknowledged entry,
isolates migrations, and serves every request; the *cache* never answers for
another key and stays within its bound; the *data path* answers as one map
would, keeps the backup equal to the primary and the cache equal to the slave;
the *ring* is exactly the registered slaves, gives every key a primary, and
after a death routes the dead slave's keys to the slave with its backup;
*migration* leaves every entry on its new primary and its new secondary;
*membership* removes the dead, keeps the living, and hears of both; *users*
have one password each, and an answer belongs to the request it follows; the
*reader* accepts JSON and nothing else; what the *writers* write reads back; a
*document* is a tree; the *hash* of a key does not depend on the build.
`PROJECT.json` lists the hazards at their lines.

## 2. The modules

| module | models | checked through |
|---|---|---|
| `SlaveServer` | one slave process | `MCSlaveServer` |
| `SlaveServerProofs` | theorems about it | tlapm |
| `CacheOps` | a cache as a value: `Drop`, `Lookup`, `Put` | its users |
| `CacheOpsProofs` | lemmas about them and about sequences | tlapm |
| `CacheSpec` | abstract: bounded newest-first list | `LruCache` |
| `LruCache` | `lru_cache.hpp`, statement by statement | `LruCacheHistory` |
| `LruCacheHistory` | `LruCache` with the copy that `deleteBST` makes of a cache, and history variables `put`, `copied` | itself |
| `LruCacheProofs` | theorems about both | tlapm |
| `KeyValueStore` | abstract: one map, requests atomic between call and answer | `StoreService` |
| `StoreService` | the data path: coordinator threads, caches, tables of the slaves | `MCStoreService` |
| `StoreServiceProofs` | theorems about it | tlapm |
| `RingMembers` | abstract: how many slaves are at each point | `RingTree` |
| `RingTree` | the search tree on a heap of cells | `MCRingTree` |
| `RingTreeProofs` | theorems about it | tlapm |
| `Migration` | several slaves, deaths, the coordinator's threads that migrate; over `RingTree` | `MCMigration` |
| `MigrationProofs` | theorems about it | tlapm |
| `AcceptLoop` | connections, `recv` and `send`, the coordinator's accept loop | `Sessions`, `Membership` |
| `Accounts` | abstract: a table of users | `Sessions` |
| `Sessions` | `Client.cpp`, `clientHandle`, `create_user`, `login`; over `AcceptLoop` | `MCSessions` |
| `SessionsProofs` | theorems about it | tlapm |
| `Membership` | a slave's main and heartbeats, `slaveHandle`; over `AcceptLoop` | `MCMembership` |
| `MembershipProofs` | theorems about it | tlapm |
| `Utf8` | UTF-8 | `JsonReader`, `JsonWriter` |
| `Encodings` | UTF-16, UTF-32, ASCII, encoded streams | `JsonTexts` |
| `JsonReader` | the three parsers of `reader.h` | `JsonTexts` |
| `JsonGrammar` | abstract: the grammar of JSON, as sets of positions | `JsonTexts` |
| `ByteStack` | `internal::Stack`, `StringBuffer` | `JsonWriter` |
| `JsonWriter` | `Writer`, `PrettyWriter`, number formatting | `JsonTexts` |
| `JsonPointer` | `pointer.h` | `JsonTexts` |
| `FnvHash` | `fnv-hash/` | `JsonTexts` |
| `JsonTexts` | a text on its way through all of these | `MCJsonTexts` |
| `MemoryPool` | `MemoryPoolAllocator` | `JsonValue` |
| `JsonValue` | `GenericValue` in the memory of a pool | `JsonDocument` |
| `JsonTree` | abstract: a tree of values | `JsonDocument` |
| `JsonDocument` | `GenericDocument` and the calls on it | `MCJsonDocument` |

### SlaveServer

State: the two tables (`data["curr"]`, `data["prev"]`; the migration messages
call `data_client` and `data_secondary` so), the two counters, the owner of the
mutex, and for each thread its place `pc`, its request, the value of
`thread_count` it has loaded (`reg`), what its `find()` returned, the branch of
`normal_thread` it took (`path`) and what it answered.  A thread serves one
request and ends, as `request_process` does.

The steps are as fine as the interleavings matter.  The repository's build task
(`.vscode/tasks.json`) compiles without optimisation, where `thread_count++` is
a load and a store: `Load`, `StoreIncrement`, `StoreDecrement`.  A handler is
`Find` and then `Apply` (one of `getData`, `putData`, `updateData`,
`deleteData`, `termination`).  `merge_maps` is `MergeCopy` and `MergeClear`.
`get_data` sends (`AskPeer`) and blocks for the answer (`AddToMap`), all under
the lock.  `migration_count` is only changed under the lock, so its increment
and decrement are one step each (`MigrationCount`).

Undefined behaviour is a choice of outcomes.  Two threads inside operations on
one `unordered_map`, one of them changing it, may end the process (`TableRace`)
or go on as if nothing had happened (the operations' own steps); an `erase` of
an element that is gone may end the process or do nothing.  Other corruptions
of the table's memory are left out: the properties that hold are about the
program's logic on runs where the library's tables survive.

A handler answers (`getData` and so on) before its thread counts itself down
(`Load`, `StoreDecrement`), so the next request of the same client
is served while the last one's thread has still to end.  `overlapped` is a
history variable: a data request was received while another one had no answer
yet.  A single client never causes that.

Texts that do not name what they should: one without a purpose ends the process
(`ReceiveNoPurpose`), an unknown `addAs` makes put, update and delete answer
"no proper map specified", one that is no number is an exception nobody
catches.

Parameters: `Request` is what peers may send, `PeerMap` what a peer may answer.

### LruCache, CacheSpec

A list node is a cell with a pair; `dq` is the sequence of nodes, `ma` maps a
key to a node.  Every statement that changes either is a step (`Refer`,
`EvictLast`, `UnmapLast`, `Unlink`, `PushFront`, `MapFront`; `Dellist`,
`DelUnlink`; `Getlist` reads).  A freed node may be allocated again.  Erasing
an erased node, or `pop_back` on an empty list, ends the process; `Race` lets
any overlap of two calls end it too.

`LruCacheHistory` is the cache in its life.  A slave's cache is a member of its
tree node; when `deleteBST` moves the data of a node (the inorder successor)
into another one (`coordination_server.cpp:891`), list and map are copied
member by member: the list gets nodes of its own, the map keeps pointing into
the list it was copied from, which is freed.  `Copy` is that step, and `copied`
says that it has been.  Everything after it follows dangling iterators and is
not modelled; what is claimed of a cache is claimed up to its first copy.
While one thread writes, `ImplementsCache` shows that this thread sees
`CacheSpec`, mapping a call in progress to its effect; other threads may read
between any two statements.  `put` is what was ever put for a key, which
`AnswersOwnKey` needs.

### StoreService, KeyValueStore

One thread per client: `Receive`, then for a get `CacheHit` or `CacheMiss`, for
a write `Route`, the two legs (`LegFinds` and `LegApplies` are the handler on
the slave, `LegFails` a connection that fails), `Join`, `SendReply`,
`CacheDelete`, `CachePut`, in the order of the code.  After a `recv` that fails
the length is -1, and `SendReply` sends nothing or the zeroed buffer.
The membership is fixed:
`PrimaryOf` and `NextSlave` are what the ring gives, `Unreachable` are slaves
that fail every connection.  For keys of the last slave the secondary is
uninitialized in the code: `Route` chooses any slave or a stray pointer, which
ends the process or drops the request.  `ClientLeaves` is the failing assert of
`clientHandle` when a client disconnects.  A client that got no answer sends
nothing more (`recv_response` blocks).  The slave's counters and lock are left
to `SlaveServer` (no migration runs while membership is fixed, so no data
request takes the lock), the inside of a cache to `LruCache`.

`putInSet` and `deleteKey` run unlocked in the threads of all clients.  A
thread is in the cache from `CacheEnter` to `CacheDelete` or `CachePut`
(`inside`); if another thread is in the same cache in the meantime, also one
that only looks something up (`CacheRace`), the cache is `torn` from then on.
A thread in a torn cache may get any value or a miss, never come out of it
(place `hung`), or end the coordinator (`CacheRace`, `CacheBreaks`); its
contents are not followed.  A cache that no two threads have been in at once is
what `LruCache` shows it to be for one writer.

`ImplementsStore` maps the store to the primaries' tables, and `call` and
`result` to the request and the response on their way; what a torn cache
answers is exempted.

### RingTree, RingMembers

Nodes are cells of a heap, with `left`, `right`, `hash`; deletion of a node
with two children copies the successor's data and unlinks the successor's cell,
as `deleteBST` does, and unlinked cells may be reused.  The searches are
recursive functions on the cells.  `Register` is the tree part of
`slaveHandle`; a slave that comes back is inserted once more.  `SlaveDown` is
`migrationInitDown` up to the point where it knows the three nodes, kept in
`plan`.  Death of the last slave ends the coordinator (a null pointer).

### Migration

Slaves with their two tables, the commands that wait for a slave's mutex
(`todo`), the `get_data` that holds it (`holder`) and what a peer has answered
(`answer`); for each dead slave the thread in `migrationInitDown` (`job`); the
ring of `RingTree` as it is; and one client that writes.  `Detect` takes the
three nodes, `Step1` to `Step3` send, `merge_maps`, `send_map`, `get_data` and
`addToMap` carry out.  The nodes are kept as pointers and read when a step
needs them, as in the code.  `sleep(4)` between the steps
(`coordination_server.cpp:688`, 708, 730) is `SleepOver`: it is longer than what
slaves and coordinator can get done meanwhile, unless they are blocked.  Nothing
is waited for before `Detect`: `slaveHandle` goes straight to
`migrationInitDown`, and a write may have been routed before the deletion and be
carried out after it.  Its key is then in `crossed`.  Slaves die at any moment,
also while the migration for another one is at work (`overlapped`), down to the
last but one (`Lone`); `Apart` says that neither has been.

The finer steps are left to `SlaveServer` (a task under the mutex is one step
here, except that `get_data` waits with the mutex held) and to `StoreService`
(the client's write is an update; its legs are blocked while a slave's mutex is
held).  Both modules show the atomicity this relies on, or say where it fails.
`touched` are the keys written while a slave was dead or a migration at work:
for them a merge may put the backup's value over a newer one, so only their
presence is claimed.  Each call on the tree is whole here: two threads in
`migrationInitDown` at the same time, which race in the tree as well, are
`overlapped`.

### AcceptLoop, Sessions, Accounts

A connection is a stream each way; `recv` takes what is there, up to
`BUFFERSIZE` units.  A unit is a short message or a piece of one that does not
parse by itself.  The end of a connection is as the kernel has it: a peer that
closes with everything read makes `recv` return 0, one that closes with an
answer unread makes it return -1, the first `send` to a closed peer is lost and
the next raises SIGPIPE.

`Sessions` is the client program from `connection_establish` to the end, and the
coordinator's thread.  The thread has one `Document` (`document`), and a text
that does not parse leaves the last one there, which is then served again:
`Receive` says so.  `clientmap` is a `std::map` without a lock: a thread is in
it from `enter_clientmap` to the `Leave` of `create_user` or `login`.  If one
inserts while another is there, the map has `raced`: whoever uses it from then
on gets any answer, never comes out (`hung`), or ends the coordinator
(`clientmap_broken`).  The client's user may type anything at any time, log out, or,
for clients in `Leaver`, kill the process.  How a data request is answered is
`StoreService`'s.

### Membership

A process is one run of a slave; a slave that is run again, and a second slave
on a host, share the address that `slavemap` is keyed by.  `slaveHandle` runs in
a thread per connection, and neither tree nor `slavemap` has a lock: a thread is
in the tree from `insert` to `insertBST` and from `expire` to `delete`, in
`slavemap` from `register` to `registered`.  If two are in one of them at once,
it is `torn`: two insertions may hang their nodes on the same null link, so that
one slave is lost, and a walk may follow a freed node.  What the coordinator
does then is not followed: it may end at any moment (`broken_tree`), and no
property speaks of what it holds.  `poll` takes whatever heartbeats have
arrived; `expire` may happen whenever a `recv` found nothing, because the clock
is the coordinator's own processor time, which has nothing to do with when the
slave sent its last.  What a slave notices of being given up is SIGPIPE on its
second heartbeat after it (`LoseCoordinator`).  The tree is a bag of points
here: that it is one, as long as calls do not overlap, is what `RingTree` shows.
`migrated` is the end of `migrationInitDown`, which closes the connection.

### The hash functions and JSON texts

`JsonTexts` has one state variable that matters: a text that grows piece by
piece.  Everything else is an operator on it.  The text belongs to one of seven
families, each with pieces, parse flags and a length that bring out one part of
the libraries (structure, comments, strings, bytes, numbers, encoded streams,
pointers).

`JsonReader` is a reader as a record: `at`, the events for the handler, the
first error, the stack of the iterative parser, and `fault`, which records a
failed assertion or an overflow.  `Recursive`, `Iterative` and `Pulled` are the
three parsers; the handler accepts `quota` events and then says stop (in the
families about structure and comments also after two, `MCQuotas`).  A double is
exact (significand and power of ten), so that rounding to 64 bits is left out,
but every decision the code takes on the way - when an integer no longer fits,
how many digits count, when a power of ten is out of range - is there, with the
widths as constants so that short numbers reach them.  `JsonGrammar` is the
reference: RFC 8259 as sets of end positions, extended by what the flags allow.

`JsonWriter` writes events into `ByteStack`, which remembers what was reserved
(`overrun`).  `Encodings` and `JsonPointer` have no state.  `FnvHash` computes
with 16-bit digits in each of the ways the C code can be compiled.

### JSON documents

`MemoryPool` is the chunks; `JsonValue` a heap of cells, one for a value, two
for a member; a container's cell has the address, size and capacity of its
block.  A block that is freed is not reused, one that grows may move.
`JsonDocument` parses with the parser of `JsonReader` whose handler it is, and
has one action for each operation at each place in the tree.  A value in a
container is named by its path in `JsonTree`, by its address in `JsonDocument`;
`tree` is what the cells stand for, and `ImplementsTree` says that an operation
changes the value at its path and nothing else.  Precondition, as `document.h`
says of moved values: what is moved into a container is not a part of it, nor
of a block that may grow.

## 3. The runs

### Passing

| run | instance | shows |
|---|---|---|
| `slave_concurrent` | 3 threads, 1 key, all requests, all at once | `TypeOK`, `Isolation`, `MigrationCountIsFlag`, `AckedKeyStays`, `NoBlankEntry`, `OnePutSucceeds` |
| `cache_writer` | 1 writer, 1 reader, 3 keys, 2 values, room for 2; copied at any moment | `TypeOK`, `ReferencesMatch`, `NeverOverfull`, `ImplementsCache`, `AnswersOwnKey` |
| `store_disjoint` | 2 clients with a key each, one cache with room for 1 | `TypeOK`, `BackupAgrees`, `CacheCoherent`, `ImplementsStore` |
| `store_shared` | 2 clients on the same 2 keys, one of the last slave; the backup slave of the other key cut off; fair | `AckedOnBoth`, `Answered` |
| `ring` | 4 cells, 5 points | `TypeOK`, `SearchTree`, `RouteFindsSlave`, `PredecessorSurvives`, `BackupHolderFollowsOwner`, `BackupIsPromoted`, `ImplementsRing` |
| `migration_deaths` | 4 slaves registered in any order, 3 keys, 2 writes; up to 3 deaths, at any moment before the first write, afterwards one after the other | `StepsComplete`, `NoCircularWait`, `CirclesTakeTwo`, `KeysServed`, `BackedUp` |
| `sessions` | 2 clients, 1 user, 2 passwords, 4 commands, 1 client may be killed; fair | `NobodyDisturbed`, `ImplementsAccounts`, `Served` |
| `members` | 3 processes: a slave, the same one again, one on another host; fair | `AliveInRing`, `ViewsConverge` |
| `json_texts` | 7 families of texts, up to 5 pieces | `ReaderMeetsGrammar`, `ParsersAgree`, `WrittenReadsBack`, `HashesAgree` |
| `json_document` | 4 calls on a document and a value beside it | `ImplementsTree` |

Conditions some of them need, and which the code does not enforce:

* `NoBlankEntry` and `OnePutSucceeds` hold as long as no data request was
  received while another one had no answer yet (`~overlapped`), which is all
  that one client causes; threads that have answered and not ended, and
  migrations, may be there;
* the cache's properties hold for one writer; `ReferencesMatch` and
  `ImplementsCache` until the cache is copied (`~copied`);
* `BackupAgrees`, `CacheCoherent` and `ImplementsStore` hold for clients that
  share no key and do not put, with every slave reachable; `CacheCoherent` and
  `ImplementsStore` of caches that no two threads have been in at once
  (`torn`), and `ImplementsStore` also needs that nobody writes a key of the
  last slave;
* `AckedOnBoth` holds without deletes;
* `Answered` holds for requests whose primary can be reached and whose thread is
  not lost in a torn cache, and for writes only if that is not the last slave of
  the ring;
* `BackupIsPromoted` holds when no slave is registered twice and the dead one
  is not the last of the ring;
* `StepsComplete`, `KeysServed` and `BackedUp` hold as long as no slave died
  before the migration for the last one was over and two slaves are left
  (`Apart`), when the last slave of the ring does not die (`LastMayDie`) and its
  keys are not written (`LastWritten`), and if `sleep(4)` is longer than the
  work (`SleepOver`); `KeysServed` and `BackedUp` for slaves that registered in
  the order of their points (`Ascending`), and for keys of which no write was
  under way when a migration began (`crossed`);
* `NoCircularWait` has no condition but says which ones make a circle: one slave
  that is left, or deaths that overlap;
* `ImplementsAccounts` and `NobodyDisturbed` hold until two threads are in
  `clientmap` while one of them inserts (`raced`; nothing in the code sees to
  it);
* `NobodyDisturbed` holds for requests that are short and whose values are no
  JSON themselves (`Shape` is `{"plain"}`), and as long as no client leaves;
* `Served` of `Sessions` has no goal for a client that has left itself, a
  coordinator that has ended, and a thread that is lost in a raced `clientmap`;
* `AliveInRing` holds of every slave, `ViewsConverge` of those with a monitor,
  both as long as no two threads are in the tree or in `slavemap` at once
  (`~torn`).  That a slave dies with its coordinator holds without that.

Most of these conditions are history variables: the run goes on to the states
where they fail, and the property stops there.  Nothing that the code allows is
forbidden to make a property hold, except by `SleepOver` and by the constants
that the configurations name.

### Refuted statements

| run | statement | what happens |
|---|---|---|
| `migration_reroute` | "If value exist then value else failure" (`README.md:34`), `GetFinds` | the search decides by the left child alone, and a slave registers as a leaf: a death changes the slave a key is routed to though its own slave did not die; no data moves, and a get does not find an acknowledged key.  All slaves registered before the first write |
| `slave_wait` | "Wait for current thread to exit" (`SlaveServer.cpp:450`), `WaitEnds` | a client has its answer (179) before the thread counts itself down (573); its next request counts itself up at the same time, one of the two updates of `thread_count` is lost, and the migration waits for ever, with the mutex held, for threads that have ended |

### What the models show besides

Outside their conditions the properties fail as well; none of these has a run
of its own.

*Slave.*  A migration starts between the test of `migration_count` and the
increment of `thread_count` (`SlaveServer.cpp:547`); if an entry is then put
between `merge_maps`' copy and its clear, it is dropped.  Two puts of one key at
the same time both answer "success"; a delete between the two halves of a get
makes it answer and store an empty value.

*Cache.*  With two writers a get can answer another key's value
(`lru_cache.hpp:56`), and the limit is passed and then never enforced again
(`lru_cache.hpp:39` is an equality).  It is not least recently used but oldest
written first (`lru_cache.hpp:41` says otherwise): `CacheSpec` says so.
After the copy at `coordination_server.cpp:891` the map's iterators point into
the list of the node that is freed.

*Data path.*  The value of a refused put is cached and answered from then on
(`coordination_server.cpp:448`); a deleted key stays cached
(`coordination_server.cpp:493`).  No answer goes out when the primary is down.
The secondary of a key of the last slave is an uninitialized pointer
(`coordination_server.cpp:579`).

*Ring.*  `bst_upperBound` can skip a slave, so that the one told to merge after
a death is not the one the dead slave's keys go to
(`coordination_server.cpp:656`, 906).  The last slave's death follows a null
pointer.

*Migration.*  With one slave left, that slave is told to ask itself: it waits for
ever with its mutex held (`SlaveServer.cpp:427`), and its merge never runs.  If
a slave dies before the migration for another one is over, acknowledged keys are
lost, slaves may wait for one another in a circle, and a slave may be told to ask
itself though two are alive, as the pointers of its job are to nodes whose data
has changed.  A write that was routed before the death was noticed and whose
backup leg is carried out after step 1 leaves one copy, in spite of its
acknowledgement; the next death loses it.  A slave without a successor has
nobody to tell when it dies (`LastMayDie`).

*Sessions.*  Two clients that create the same user while one is inserting may
both be told "success".  A value with quotes or braces of its own is put
unescaped into the request (`README.md:80` shows one), does not parse, and the
thread serves its previous request again: after a `create_user` the client
prints the answer to that as the outcome of its update.  So does a request
longer than the buffer.  A client that leaves makes `recv` return the empty
text, with the same effect: after a request for data the text is parsed once
more, by the handler, where it fails an assertion and ends the coordinator.
`logout` sends nothing, and the function has no return value (`Client.cpp:84`);
`README.md:20` says otherwise.

*Membership.*  Two slaves that register at the same time may hang their nodes on
the same link (`coordination_server.cpp:822`): one beats on and is in no ring.  A
second registration from an address is answered and put into
the tree but never monitored (`coordination_server.cpp:259`).  A slave that is
only slow is given up, and then ended by SIGPIPE.  A peer that connects and
says nothing keeps all others out (`coordination_server.cpp:135`).

*JSON.*  With `kParseNanAndInfFlag` the text `Inf.5` is read as 0.5.  The pull
parser does not skip the comments the other two skip, so `ParsersAgree` compares
it without that flag.  A raw number is written in quotes.  The lone low
surrogate `\udc00` is accepted. `-1` equals `2^64-1` in `operator==`.  UTF-32
lets surrogates through, and the UTF-8 writer makes ill-formed bytes of them.  A
text that starts with the byte 0xEF and no byte-order mark loses bytes in
`TakeBOM`; the encoding of one shorter than four bytes is not detected.  The
check against overflow of a pointer's index is `m < n`: `/6000000000` is taken
for index 1705032704, and 2^32 - 1 for no index at all.  In the fragment form of
a pointer `%7E%30` is rejected, and `%2F` is a `/` inside a name, although RFC
6901 decodes percent signs first. The pool of the coordinator's per-thread
`Document` (`coordination_server.cpp:173`) only grows, as parsing never clears
it.

### Bounds

*Slave*: three threads are two data threads that lose an update and a
migration, or two migrations and a data thread; the handlers touch one key, so
one key suffices; two values tell an old from a new one.  *Cache*: room for two
and three keys is an eviction with a survivor (`MAX_CACHE_SIZE` is 8); three cells
are what one writer can have in use at once.  *Store*: three slaves so that primary,
secondary and last slave differ; room for one entry makes the two clients evict
each other.  *Ring*: four cells make deletions with two children below the root
and equal hashes possible; the run was also made with five cells (160 000
states).  *Migration*: four slaves, so that predecessor, dead slave, successor
and its successor differ and further deaths follow; two writes, so that one may
come before and one during a migration.  `MinSurvivors` 1 lets three die.  Two
deaths may overlap, and any write may follow one, but not both in one run:
`OverlapWrites` is 0, as no property speaks of data once deaths have overlapped
(1.02 million states; `CirclesTakeTwo`, which does speak of such runs, was
checked once with `OverlapWrites` 1 and `MaxWrites` 1, 3.6 million).
*Sessions*: two clients and one name make them compete; four commands are two
each; a buffer of two units can hold two messages at once (133 000 states).
*Members*: three processes are two with one address and one that keeps the ring
from being empty; three heartbeats (`MaxBeats`) are a backlog longer than one
`recv` (102 977 states).

*JSON*: the widths are scaled down so that texts of five pieces reach them:
`MaxUint` 31 (the last digit decides, as in 4294967295), `MaxUint64` 6331,
`MaxExact` 35, 17 digits become 2, 10^308 becomes 10^9, an exponent's `int` 255;
the assumption `WidthAssumption` says how they must lie to each other for the
scaled code to take the same branches.  Number formatting is checked at full
size (`MCGroups`, `MCDecimals`).  A buffer starts at 8 bytes (256), an
indentation is 2, a chunk of the pool has 6 cells (64 KB), so that containers
grow in place, move, and start chunks.  113 788 texts and 294 520 documents.

No other counter needed a cap: threads are one-shot, and the cells bound the
tree.  List nodes, tree cells and threads are symmetric in the safety runs; no
run with a liveness property uses symmetry.

### Fairness

`SlaveServer!FairSpec` is weak fairness of every thread's steps: the operating
system runs runnable threads.  It is what `WaitEnds` is refuted under: the wait
does not end although every thread keeps running.  It is assumed that a peer
asked for its table answers or the process dies (`AddToMap`): `NoCircularWait`
of `Migration` says when slaves may ask one another in a circle.
`StoreService!FairSpec` is weak fairness of every coordinator thread and of the
reachable slaves' handlers; `Unreachable` slaves refuse connections (a slave that
accepts and stays silent would block the thread, as `recv` has no time-out).

`Sessions!Spec` and `Membership!Spec` are weak fairness of every process and of
every thread of the coordinator, by the same reason; what a user types, and
crashes, are not fair.  `expire` is fair because a `recv` that finds nothing
prints so, which uses the processor time the timer measures.

`CHECK_DEADLOCK FALSE` stands where the system may stop: when its one-shot
threads are done, all slaves and users are, or the process has crashed.
`store_disjoint` says so too, as its coordinator may crash; the JSON runs stop
at the longest text or the last call.  That a thread does not get stuck, and
where it may, is what `Served`, `Answered`, `ViewsConverge` and `NoCircularWait`
say, and `WaitEnds` refutes.

## 4. The proofs

TLAPS checks the theorems for all values of the constants that satisfy the
assumptions of the modules (any finite set of threads in `SlaveServer`; any
sets of clients, slaves, keys and values elsewhere; the markers such as
`NoValue` are no values; a cache has room for one entry at least).  A run shows
the same property on a small instance; of the invariants of sessions,
membership and migration named below TLC was asked first.

| module | theorem | states | under the hypothesis |
|---|---|---|---|
| `SlaveServerProofs` | `TypeCorrect` | `TypeOK` | |
| | `MutexIsolates` | `Isolation` | |
| | `MigrationCountCorrect` | `MigrationCountIsFlag` | |
| | `AckedKeysStay` | `AckedKeyStays` | |
| | `SerialNoBlank` | `NoBlankEntry` | nobody sends `Blank` |
| | `SerialOnePut` | `OnePutSucceeds` | |
| `LruCacheProofs` | `CacheTypeCorrect` | `TypeOK` | |
| | `ReferencesCorrect` | `ReferencesMatch` | one writer |
| | `NeverHoldsMore` | `NeverOverfull` | one writer |
| | `GetsAnswerOwnKey` | `AnswersOwnKey` | one writer |
| | `CacheImplementsSpec` | `ImplementsCache` | one writer |
| `StoreServiceProofs` | `ServiceTypeCorrect` | `TypeOK` | |
| | `AckedOnBothSlaves` | `AckedOnBoth` | `NobodyDeletes` |
| | `BackupsAgree` | `BackupAgrees` | `Alone` |
| | `CachesAgree` | `CacheCoherent` | `Alone` |
| | `ServiceImplementsStore` | `ImplementsStore` | `Alone`, `LastSpared` |
| | `ApartImplementStore` | `KeyValueStore` is implemented, with no exemption | `Alone`, `LastSpared`, `Apart` |
| `SessionsProofs` | `ClientsUndisturbed` | `NobodyDisturbed` | `PlainTexts` |
| | `SessionsImplementAccounts` | `ImplementsAccounts` | `PlainTexts` |
| `MembershipProofs` | `AliveAreInRing` | `AliveInRing` | |
| | `RingIsMembers` | `RingMembers` is implemented, until `torn` | |
| `RingTreeProofs` | `RingTypeOK` | `TypeOK` | |
| | `RingIsSearchTree` | `SearchTree` | |
| | `RouteIsFound` | `RouteFindsSlave` | |
| | `PredecessorIsKept` | `PredecessorSurvives` | |
| | `BackupIsNextOnRing` | `BackupHolderFollowsOwner` | |
| | `RingImplements` | `ImplementsRing` | |
| | `BackupsArePromoted` | `BackupIsPromoted` | |
| `MigrationProofs` | `StepsAreComplete` | `StepsComplete` | there is a key |
| | `NobodyWaitsInACircle` | `NoCircularWait` | there is a key |
| | `RingIsTree` | `RingTree` is implemented | |
| | `KeysAreServed` | `KeysServed` | a key, a slave, `~LastMayDie`, `~LastWritten`, `InOrder` |
| | `KeysAreBackedUp` | `BackedUp` | the same |

The hypotheses are the conditions of section 3 under which TLC finds the
properties to hold; the runs satisfy them.  What the properties themselves
exempt (`overlapped`, `copied`, `torn`, `raced`, `Apart` of `Migration`) is in
section 3.  `Alone` is: clients share no key, do not put, and reach every slave.
`LastSpared`: nobody writes a key of the ring's last slave.  `Apart` of
`StoreServiceProofs`: the clients' keys are on different slaves, so that no two
threads ever meet in a cache (`ApartInv`).  `InOrder`: slaves
register in the order of their points.  Nothing in the code sees to that; in
other trees `bst_upperBound` may route a key past the slave that has it, which
is the refuted statement of section 3, and `KeysServed` and `BackedUp` speak
only of trees without left children (`Ascending`), which `InOrder` gives
(`AscendingStays`).

The types aside, none of these properties is inductive.  What each needs to know
besides:

*Slave.*  `LockInv`: a thread in a critical place (`Critical`: a migration from
its increment to its unlock, a slow-path request from its lock to its unlock) is
the owner of the mutex, and a data thread that waits for the lock took the slow
path.  With the lock, at most one thread is `Migrating`, so `migration_count` is
1 exactly while one is.  For `AckedKeyStays` one adds that a delete which is
about to be applied was asked for; every other write of `data["curr"]` (puts,
updates, the blank entry of a get, `merge_maps`, `addToMap`) leaves a present
key present. For data requests that do not overlap one adds that, as long as
`overlapped` is false, at most one is `Unanswered`, that a thread in a handler
is that one, and that what `find()` saw is still so when the handler acts on it:
no other request is between the two, and no migration takes a key away or brings
a blank one; and for `OnePutSucceeds`, that while a put that saw its key absent
is about to insert it, nobody has been told that he put that key, unless a
delete was asked for.

*Cache.*  `OneWriterInv` has, for every statement that the writer `w` may be
about to execute, the key and the node that map and list disagree about
(`WriterAt`); for all others the map holds exactly the linked nodes, and the
list is within the capacity, until `copied`.  `HistoryInv` adds that every pair
ever linked was put.  For the refinement, a call takes effect with its first
statement (`Refer`, `Dellist`): `Contents` is the list as the call will leave
it, and the statements that follow evict, unlink and push without changing it.
`CacheOpsProofs` has the facts on `RemoveAt`, `Front` and `Put` that this and
the next need: one entry per key, which entries stay and in which order, the
length.

*Data path.*  `AckInv`: how far each leg of a write is, and that what a leg has
found or applied stays on its slave while nobody deletes.  `AloneInv`: while a
client is the only one to use a key, what its legs have done so far determines
both tables at that key; a cached pair is the slave's own unless a request for
its key is somewhere between its legs and `CachePut`; a backup is equal unless
the legs are at work.  The refinement maps an update's primary leg to the
atomic request of `KeyValueStore`, `CacheHit` and `CacheMiss` to a get.

*Sessions.*  `SessionsInv`: for each place in the client program what is on its
two wires, where its thread is and what the thread's `Document` holds
(`SessionRight`); that the accept loop's queue has each client once
(`LoopRight`); that only a client that left brings the coordinator down
(`DownRight`); that the request that a thread might parse again is one for a
name that is taken (`TakenRight`), so that serving it again changes nothing.
After a race in `clientmap`, `DownRight` and `TakenRight` claim nothing, the
rest still holds.  For the accounts one adds `InsertRight`: until a race, while
a thread is about to insert a name, no other thread is in the map, so that the
name is still free.

*Membership.*  `MembersInv` counts: the ring has at each point as many nodes as
there are processes whose thread inserted one and has not given it up.  For the
count to be kept, a thread must start once only (what is in the queue), and
what sends heartbeats must have been registered.  Once `torn` the handlers stand
still, and so does the count.

*Ring.*  The searches are functions defined by recursion on the cells, and are
the functions they should be only where every path ends.  So the invariant
`RingInv` says first that the heap is `Grounded`: every set of cells that has
some cell has one whose children are not in it.  That is well-foundedness as a
statement about sets, so that induction over a tree (`HeapInduction`) is
first-order: a set that contains each cell whose children it contains contains
all.  `WalkExists` builds, for any walk that goes on to children, the function
that satisfies its equation, as the set of trails it can take; each search then
has its equation as a lemma (`SearchStep`, `UpperBoundStep`, `SuccessorStep`,
...), and `BelowStep` is that of the set of cells below a cell.  From these and
`HeapInduction` follows what each search finds in a search tree
(`SearchFinds`, `SuccessorFinds`, `PredecessorFinds`, `UpperBoundFinds`, ...).
`RingInv` says further that the tree is sorted and finite, and that it is
`Closed`: no cell outside points into it.  Without that a new leaf or a
bypassed cell would change the tree elsewhere as well.  `InsertBelow` and
`BypassBelow` then say which cells are below each cell after an insertion and
a deletion; `DeleteResult` covers the copy of the successor's data.  For
`BackupIsPromoted`, which holds although `bst_upperBound` does not find the
least slave after a key in every tree, `BoundMoves` compares the search for a
key before the deletion with that after it, cell by cell: a key that found the
dead slave finds the next one afterwards, as does the dead slave's own hash.

*Migration.*  While `Apart`, `MigrationInv`: one migration at a time, one
pending command at most and that of the step its thread sleeps for; a slave that
holds its mutex for an answer has the answer, or has asked a peer that lives, is
not itself and has still to send.  Such a peer can always go on, so a sleep that
is over leaves nothing pending (`SleepEnds`).  `Neighbours` is what this takes
from the ring: the nodes of a job name slaves, and the successor is neither the
predecessor nor its own successor.  It follows from `RingOK`, which is proved
along with it: the ring's `RingInv` holds; the points on the ring are those of
the slaves that live and of the one whose death has not been noticed, each once;
while a job is at work the ring does not change (`~overlapped`), so what
`PlanFor` says of the plan still holds of the job; and two slaves at least are
left (`~Lone`: a lone survivor is told to ask itself).  The lemmas of
`RingTreeProofs` are used through an instance of it.

*Migrated data.*  `DataInv`, while `Apart`, of the keys that are not `crossed`.
While no migration is at work it is plain (`CalmData`): of the slaves that live,
the primary of a key and the slave that follows it have what they should
(`Good`: the last acknowledged value, the value of a write whose leg is over, or
just some value if a write overlapped a death). During a migration the tables
are on their way there, and what is invariant is what they will hold once the
pending commands are carried out: `Merged` is succ's `data_client` after the
merge of step 2, `Backup1` and `Backup3` are the backups after the fetches of
steps 1 and 3, from the peer's table or, once it is sent, from the answer
(`WorkData`).  A write's leg that comes in between changes the table and its
future alike.  A step of the coordinator adds the command whose effect was
already expected, a slave's step carries it out, and `MigrationDone` finds the
expected to be the present, since nothing is pending.  That is not yet
inductive: a merge takes the backup's value before the slave's own, so an old
value left in a backup would win.  `Behind` excludes that: a table holds only
keys whose primary is its slave or lies before it (strictly before it, for a
backup that is not due to be merged, unless its slave is the least), so that the
slave that will merge its backup has no key of its own in it; `AnswerBehind`
says it of tables on their way.  From the ring it takes that keys are routed to
the next point (`Routes`, from `AscendingRoutes`), that the nodes of a job are
the slaves around the dead one (`FoundAround`), and that a point taken away
moves just its own keys (`RoutesLeave`).  TLC was asked first whether `DataInv`
holds in the reachable states whose tree is ascending.

### Only model-checked

* Liveness: `Served` of `Sessions`, `Answered`, `ViewsConverge`.  Liveness under
  fairness and `ENABLED` are out of the
  prover's reach.
* `CirclesTakeTwo`: when deaths overlap, nothing is claimed of a job's nodes to
  prove it from.
* `KeysServed` and `BackedUp` of `Migration` where slaves did not register in
  order and the tree has no left children any more: the run has all orders.
* `JsonTexts` and `JsonDocument`: what a parser does with a text of any length,
  or an operation with a tree of any depth, is induction over the data again,
  and the modules use RECURSIVE operators, which exclude the SMT backend.

## 5. Not modelled

* *Prototype* (`replication_group.cpp`, `s1.cpp`, `s2.cpp`): does not compile.
* `migrationInitUp` and `findPreSuc`: never called (the only call is commented
  out at `coordination_server.cpp:263`).
* The slave's `file_fds`: 4096 places, of which none is given back; the models
  start a few threads, and of a longer run nothing good could be stated.
* What a structure holds after two threads were in it at once: the tables of a
  slave other than by ending the process, a copied or torn cache, a torn tree, a
  raced `clientmap`.  The models say when that happens, and what may come of it
  for the threads; walks over the tree by the data path, while a thread changes
  it, are left out (`StoreService` has a fixed membership).
* A path through the two legs of a write while membership changes, but for
  `Migration`'s one client.
* Of the JSON library: `schema.h`, `internal/regex.h` and the file streams,
  which nothing here includes; the SIMD variants, in-situ parsing and
  full-precision parsing with `biginteger.h`, `strtod.h` and `diyfp.h`, which
  the build does not turn on; the search for a double's shortest digits (Grisu),
  whose digits are taken as given.
* Formatting of output, menus, logging, `display`, `inorder`.

## 6. Plan

What could be proved next:

1. `SlaveServer` with `StoreService`: that the atomic handlers of the one are
   what the steps of the other do while no other request is there.
2. `MemoryPool`: blocks are disjoint and inside their chunks.  It needs a
   module without the recursive operators of `JsonValue`.

`JsonReader`, `JsonTexts`, `JsonValue`, `JsonDocument` and `FnvHash` are
recursive and stay with TLC.
