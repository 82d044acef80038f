# A TLA+ model of the dictionary daemon

This directory holds a specification of `dict-server` and its client, TLC
configurations that check it on small instances, and proofs of its main
properties for every size. Paths and line numbers refer to the C sources.

## 1. The system

`dict-server` is one process with one thread. It loads a table of definitions
from sqlite into a hash map, then runs an event loop for ever. `define <word>`
connects over TCP, writes `word:length`, reads one answer and exits. A word that
is not in the map is asked of a web site; the page's definitions are cached,
inserted into the table, and sent.

| component | state it keeps | operations | interacts with | correct when |
|---|---|---|---|---|
| event loop (`eloop.c`, `epoll_loop.c`) | a slot per descriptor with its mask and callbacks, the highest used slot, a batch of reported events; the kernel's interest set | create, add, delete, process events | calls the server's callbacks; `epoll_ctl`, `epoll_wait` | table and kernel agree; the maximum is exact; a callback runs only for the connection its event was reported for |
| server (`server.c`) | listening socket, client count, cache, database handle | initialise, load rows, accept, serve one request | everything else | each client is answered, with its own word's definition; descriptors are not lost; the count is exact |
| cache (`hmap.c`) | buckets of chained entries, size, capacity | add, get, expand, delete, iterate, release | keys and values are the caller's pointers | what was added is found, whatever was expanded meanwhile |
| database client (`dbclient.c`) | a connection; the table `dict` on disk, which survives the process | for each row, count, execute | sqlite | every definition given out is stored, once |
| HTTP client (`http.c`), HTML extraction (`htmlgrep.c`), `list.c` | a response, a list of matches | get a page, pick and join the definitions | libcurl, libxml2 | a page gives its definitions, or none |
| client (`client.c`) | its socket | connect, write, read, exit | the server, over TCP | gets an answer or learns that there is none |
| sockets (`inet.c`) | none | connect, listen, accept | the kernel | no descriptor is lost on a failure |
| string buffer (`aostr.c`) | a buffer, its length and capacity | append, escape, search, split | used by the HTTP and HTML parts | the contents always fit |
| kqueue back end (`kevent_loop.c`) | as `epoll_loop.c` | the same interface | kevent | as the event loop |
| `panic.c`, build files | none | | | |

### What is hard

The daemon has one thread, so its interleavings are those of the event loop with
its clients, the kernel and the process' own end:

- a batch of events is computed once and handled while handlers close and
  reuse descriptors (`eloop.c:136`);
- clients connect, write, leave and reset at any moment, also while their own
  request is being served;
- `epoll_ctl`, `accept`, sqlite, the site and `write` fail, and most results
  are ignored;
- the process may end between caching, inserting and answering, and starts
  again from the rows (`server.c:150-158`);
- the key of a fetched word is the address of a stack buffer (`server.c:154`);
- the table of the loop and the descriptor limit are different numbers
  (`server.c:217`, `server.c:294`), and a failed transfer keeps descriptors
  (`http.c:113`);
- one read is taken for one message (`server.c:173`).

The libraries beside it promise more than the daemon asks of them: `list.c` is
meant for threads, `eloop.c` for any callbacks over two different kernels,
`aostr.c` keeps three numbers (length, capacity, allocation) that part company.

`PROJECT.json` lists every such place as a hazard, with the properties that
would catch it.

## 2. The modules

| module | models | state and actions |
|---|---|---|
| `EventLoop` | `eloop.c` over `epoll_loop.c` | `idle`, `elmax`, `active` are the fields of `struct eloop`, `interest` is the kernel's set; `eloopAddEvent`, `eloopDeleteEventAndClose`, `eloopPoll`, `eloopFires` are the calls. It takes no step of its own. |
| `DictServer` | `server.c` with the parts of `hmap.c`, `dbclient.c`, `http.c`, `htmlgrep.c`, `inet.c` and `client.c` it drives | extends `EventLoop`; described below |
| `HashMap` | `hmap.c` | `table` (a chain, as a sequence of entries, for each bucket), `size`, `fixedsize`; one action per function. `ret` is the last call with its result. |
| `FiniteMap` | what `hmap.h` promises | a map and `ret`; the abstract specification `HashMap` implements |
| `HashMapIterator` | the iterator of `hmap.c` | extends `HashMap` with `idx`, `cur`; the user goes on calling the map |
| `DictService` | what the daemon is to its clients | what each client asked, what it was given, which words are stored; the abstract specification `DictServer` implements |
| `LoopBackends` | `eloop.c` over `epoll_loop.c` or `kevent_loop.c`, with any program | `idle`, `cb`, `elmax`, `active` as in `struct eloop`, `watched` the kernel's side; the calls, the poll, the dispatch of one event, the return of a callback |
| `SharedList` | `list.c` | `list` (the nodes with their pointers), `lock`, and the call each thread is in |
| `Deque` | what `list.h` promises | a sequence; the abstract specification `SharedList` implements |
| `StringBuffer` | the functions of `aostr.c` that change a buffer | `len`, `capacity` as in `struct aoStr`, `room` what is allocated; one action per function |
| `Strings` | search, splitting, escaping, decoding in `aostr.c` | operators |
| `ClientMessage` | what `client.c` writes and `serverReadClientMessage` reads | operators |
| `Sockets` | `inet.c` and `serverSetFileDescriptorLimit` | operators |
| `RoundUp` | `roundup32bit` and the mask of maps of fixed size | operators on sets of bits |
| `Calls` | | one call of any of these operators, from a set of arguments, and what its result must be |
| `DictServerProofs`, `DictServiceProofs`, `HashMapProofs`, `HashMapIteratorProofs`, `LoopBackendsProofs`, `SharedListProofs`, `StringBufferProofs`, `CallsProofs` | | inductive invariants, lemmas, theorems |
| `MCDictServer`, `MCInductive`, `MCHashMap`, `MCHashMapIterator`, `MCLoopBackends`, `MCSharedList`, `MCStringBuffer`, `MCCalls` | | values of the constants for TLC, symmetry, bounds |

### How `DictServer` corresponds to the code

`pc` is where the thread is: `down` (no process), `load` (in
`serverInitDictionary`), `loop` (between callbacks), `fetch`, `persist` and
`reply` (inside `serverSendClientReply`). A callback is split where the outside
world may act or the process may end and the difference shows: at the fetch, at
the insert and at the write of the answer. Everything else in a callback is one
action. The action `CloseConnection` is the label `error` (`server.c:200`), and
is part of every action that reaches it.

`file` is the descriptor table of the process. Descriptors are allocated lowest
first, as by POSIX, and reused. Descriptor 0 stands for the listening socket, and
the others of a real process (standard streams, sqlite, epoll) are left out, so
`NoFile` is the number of descriptors left for sockets.

`cache` is the whole hash map as one sequence, newest entry first, which keeps
the order inside each chain: `hmapAdd` puts an entry at the head of its chain and
`_hmapExpand` reverses each chain (entries of one new bucket all come from one old
bucket, so reversing everything reverses each chain); `HashMap` keeps that sequence beside
the chains, `ChainsAreOrder` says that they agree, and `ServedAsSequence` that the
server cannot tell the difference. An entry has a key, a hash
and a definition. The key of a row is a copy of the word. The key of a fetched
word is `Stack`: the buffer `word` of `serverSendClientReply`, called always from
the same place in the event loop, so at each later lookup the pointer reads as the
word being looked up. Only its stored hash tells it apart, hence `Matches`. This
is the outcome the build produces; reading a dead frame is undefined in C.

A definition is represented by the word it defines. `Defined` are the words whose
page has a definition, `Quoted` those whose INSERT is broken by an apostrophe,
`Unparsable` stands for messages that `serverReadClientMessage` refuses.

`Faults` says what may go wrong in an instance: `accept` (the connection is taken
and dropped), `epoll` (a registration is refused), `db`, `net`, `write` (a short
write, of a definition or of the error text, which may fail altogether as well:
`ErrorTextLost` is the warning of `server.c:181-184` and the close that follows), `kill`, `rst` (a client resets its connection; a write to it ends the
process by SIGPIPE, which nothing ignores). The end of the process (`Die`) resets everything but the
rows: what the next process initialises is already in its initial state.

An action of the environment (`ClientConnect`, `ClientWrite`, `ClientRead`,
`ClientKilled`, `Kill`) may fall between any two steps of the server.

Two guards follow from resources: a fetch needs a free descriptor for its socket,
and a connection needs room in the backlog. A transfer that fails is not cleaned up
(`http.c:111-114`; the success path does so at line 120), so `FetchFails` may leave a
descriptor `Kept` until the process ends. What the handle really keeps is up to the
libcurl that is linked; the model has both outcomes, and one descriptor for all.

### How `HashMap` corresponds to the code

`_hmapGetIndex` is `Rebuilds`: it expands the table, or fails to and goes on, and
only then is the bucket computed. The loop of `_hmapExpand` ends when it has moved
`size` entries (`Reached`), so a wrong `size` would lose entries. `hash & mask` is
`hash % capacity`, which `RoundUp` checks. Keys do not change under the map here;
what happens when they do is in `DictServer`. Memory is not modelled, so it does
not show that `hmapRelease` frees only the entries of the first `size` buckets
(`hmap.c:76`). Nothing calls the iterator, `hmapDelete`, `hmapContains` or fixed
maps yet; their user is one that does not delete the entry its iterator is at, nor
release the map under it, nor ask for more than `HM_MIN_CAPACITY` buckets.

### How the libraries' modules correspond to the code

`LoopBackends`: a callback is a period in which the program makes any calls, from
`Dispatch` or `Return` to `Return`. The read callback and the write callback of an
event are separate periods with the test of `eloop.c:148-153` between them, on the
slot as it is then. With epoll an event has all bits that are ready, and both
after an error or a hang-up; with a kqueue each bit is an event. The deletion of
`epoll_loop.c:89-107` changes nothing in the kernel, whose `EPOLL_CTL_ADD` refuses
a descriptor it watches: after a deletion without a close the loop goes on being
told of a descriptor nobody wants, and a further `eloopAddEvent` of it fails.
`leftover` marks such descriptors. The program is disciplined: it deletes before it
closes, and a callback closes only its own descriptor, as in `server.c`.

`SharedList`: nodes are numbers and pointers functions on them, so the ring is not
taken for granted. A call of a thread-safe function has three steps: it asks, it
gets the lock, it does its work; and its return releases the lock. A function
without the lock is for a thread that is alone. `listQSort` releases nothing when
there is nothing to sort, and its thread goes on with the lock `Stuck`: an unlock
by nobody, after which `Lock` is never enabled. The partition and the recursion
are those of the code, and the relation they are given may be any: `sortstring`
(`htmlgrep.c:82-91`) compares the bytes of two structs. `mboxQSortHelper` is a function
of the depth that is left: `Divides` says what one call does when it is known what
its own two do, and at depth 0 nothing is left to do.

`StringBuffer`: contents are left out. `aoStrSetLen` and `aoStrSlice` are called to
cut. `aoStrExtendBuffer` takes an unsigned int and is given a size_t (`aostr.c:142`,
`aostr.c:168`), so the growth is taken modulo `UIntSize`. After a growth that failed
or was cut (`short`) the code writes on, and nothing is claimed. The sums of two
lengths are taken not to exceed a size_t. `aoStrCatPrintf` formats a text that filled its first buffer again, from
an argument list it has used up: any length may come of it.

`Strings` works on characters as codes, `ClientMessage` in any base; each function
is a function on positions in place of the code's loop, and `Matched`
is the inner loop of the matcher. Both loops of `serverReadClientMessage` stop when
their buffer is full; what comes of reading or writing outside a buffer is
`Undefined`, an outcome of its own. In `Sockets` a function is the sequence of its
calls, each with what is given back when it fails, as the paths of `inet.c` say.

## 3. The properties

Safety, checked by TLC and proved:

- `TableMatchesKernel`: the table and the kernel's interest set hold the same
  masks, for open descriptors only. `eloopStateDelete` never removes anything
  (`epoll_loop.c:98-104`); this holds because its only caller closes at once.
- `MaxIsHighest`: `eloop.max` is exact. Were it too low, the loop would stop.
- `NoStaleEvent`: every event of the batch is still for the file it was reported
  for, whatever the handlers before it did.
- `CountIsExact`: `clientcount` counts the registered connections.
- `LeakOnlyBeyondTable`: the descriptors of connections that `serverAccept` loses
  are those beyond the table. What failed transfers keep is not counted here.
- `WaitersAreHeard`: whenever the loop is about to wait, every client that waits for
  an answer has an event that will wake it, its own or the listener's, unless its
  descriptor is one of the lost.
- `BatchesEnd`: every step of the thread in a batch leaves fewer steps to the end of
  the batch, whatever the clients do meanwhile. With `WaitersAreHeard` this is what
  `EveryRequestEnds` rests on, without fairness.
- `AnswerHashMatches`, `AnswerIsForTheWord`: a client gets a definition whose
  word has its word's hash; its own word's, when no two words share a hash.
- `StoredIsNotDenied`: a client whose word the table holds is not told that it was
  not found, nor hung up on without an answer, however the word came to be there: by
  an insert for another client, or by one of an earlier process. For a word that is
  not stored both happen (the error text may be lost).
- `RowsAreCached`, `NoDuplicateRows`, `FetchOnlyIfUnknown`: the cache holds what
  the table holds, so that nothing stored is fetched or inserted again.
- `AnswersAreStable`: an answer of the cache does not change while the process
  lives, through expansions too.
- `AnsweredIsDurable`: what was given out is stored.
- `ImplementsDictService`: seen by the clients, the daemon is `DictService`. A
  definition is given only once it is stored, the error text or what is left of it
  only for a word that is not, end of file else only for a malformed message, and
  each word is learned once, however often the process dies.

Of the hash map, checked and proved:

- `ImplementsFiniteMap`: `HashMap` implements `FiniteMap`, contents and results,
  through expansions and failed allocations.
- `EntriesInPlace`, `SizeIsExact`: each entry in its bucket and each key once; the
  size is the number of entries, by which the next expansion stops.
- `ServedAsSequence`: that sequence does for `DictServer`: its length is the size, by
  which the map expands, and whichever entries of one hash a comparison of keys takes
  for equal, a walk along their chain finds the one that is first in the sequence. It
  rests on `ChainsAreOrder`, that the chains are parts of the sequence, which is proved
  without a run of its own.
- `VisitsOnce`, `Covers`: unless the table is expanded meanwhile, the iterator
  gives no entry twice, and leaves out only entries of the last bucket. Neither
  holds without the proviso, and entries of the last bucket after its head are
  indeed left out (`hmap.c:323`).

Of the event loop by itself, checked and proved:

- `TableIsSound`: what is wanted is watched; what is watched is open, and wanted
  unless it was left over; the maximum is exact.
- `CallsAreCurrent`: a callback runs for the connection that was ready. There are two
  exceptions: the write callback after the read callback of the same event, and an
  event of a kqueue whose descriptor has had one before in the same batch
  (`dispatched`). The first event of a descriptor is covered over both back ends.
  Both exceptions are reached: drop either and TLC finds the contrary.

Of the list, checked and proved:

- `RingIsSound`: the nodes are one doubly linked ring of the right length.
- `OnlySortStrands`: whoever is in a call gets on, or waits for one who does, until
  a sort finds nothing to sort.
- `ImplementsDeque`: each call takes effect as on a sequence, at one moment between
  its start and its return; a sort by an order sorts, and by anything else permutes.

Of the string buffer, checked and proved: `Fits`, until a growth is refused or cut
to an unsigned int, every byte and every terminator lies inside the allocation, except the terminator of a copy, which may lie one
behind it: `aoStrDup` forgets ten bytes it has, and a following append of 256 or
more grows by just what is asked for.

Of the functions without state, checked and proved: `SearchFindsFirst`,
`CaseSearchIsSound` (it misses an occurrence only when the pattern has one letter
in both cases), `SplitJoins`, `EscapeReadsBack` (for seven bits, and only those),
`MimeReadsBack`, `RequestIsTheWord`, `NothingIsLeftOpen`, `TableWithinLimit`, and
`RoundsUp` (with the mask: a bucket that exists). Each says for
which arguments the function does not do what it is for, and that there are no others.
`RequestIsTheWord` says it of a word that does not fit: it is refused, unless all that
the second loop looks at are digits of the word itself (`RunsOver`), since that loop
stops at 200 characters (`server.c:123`). A word of 401 digits is such a word, and
`atoi` and the copy then leave their buffers. A word that fits never does this,
wherever its message is cut.

Liveness, checked by TLC: `EveryRequestEnds`, under every failure of the run. It holds
however many descriptors failed transfers have kept: the one of the client that is
being served is closed after its request, no handle can keep that, and the next client
gets it. `EveryWordIsLearned`: if from some moment on no fetch that has a descriptor
fails, no write of a definition fails, no connection is dropped and nobody kills the
process (`Misfortune`), and there is a descriptor for every fetch (`RoomToFetch`), then
a word that is sent again and again is stored in the end, whether or not its clients
wait. `RoomToFetch` is needed: without it TLC finds a run in which other clients have
the descriptors at each fetch, and once failed transfers have kept all but one of them
nothing more is learned until the process ends.

### Fairness

`FairSpec` asks for weak fairness of `ServerStep`, the thread's next step taken as
a whole, because `eloopMain` is an endless loop, a blocking call returns, and
nothing else runs in the process. It is not fairness of each action: the thread
may serve the events of a batch in any order. It includes an assumption the code
does not enforce, that a transfer ends, since libcurl is given no timeout
(`http.c:102-110`). It also asks that a client writes after it connects, as
`client.c` does at once; the server reads only what is readable, so this concerns
only a client's own request, and the release of its descriptor in the run
`live`. Nobody has to start the daemon, connect, read, or refrain from killing.

## 4. The runs

| run | instance | question |
|---|---|---|
| `core` | 2 clients, 3 words and a malformed one, every fault but `db`; capacity 2, so the cache expands again and again | do answers, cache and rows agree, and does `IInv`, the invariant of the proofs (section 5), hold, types included? |
| `crowd` | 4 clients, 5 descriptors, 4 slots, resets | is the loop's bookkeeping exact under churn and reuse, what is lost when descriptors outnumber slots, and is everyone else heard? |
| `faults` | 2 clients, every fault, two words of one hash, an apostrophe, a word without definition | what still holds when everything fails? |
| `live` | 3 clients, room for 2 connections, every fault but `epoll`, `db` and `rst` | does every request end, also when accept keeps failing for want of descriptors, by clients and by failed transfers, and is every word stored once the failures stop and there is a descriptor for each fetch? |
| `hashmap` | 3 keys, two of one hash and one always in the last bucket, 2 values; capacity 2 to 8, and fixed 1 and 2; allocations that fail; an iterator | are chains and size right, is it a finite map to its callers, and what does an iterator visit? |
| `loop` | 2 slots, 3 descriptors, 3 connections, 2 callbacks, both back ends | does the table agree with the kernel, and whom do callbacks run for? |
| `list` | 2 threads, 3 nodes, 3 values, an order and a cycle | is it a sequence to its threads, and does anyone wait for ever? |
| `buffer` | lengths 0 to 9 around a growth of 5 and an unsigned int of 8 values, up to a capacity of 40 | does everything that is written fit? |
| `calls` | texts of up to 6 characters, words of up to 7 with room for 3, every number of 8 bits, limits up to 55 | do the functions compute what they are for? |
| `apostrophe`, `collision`, `unknown` | 2 clients, no fault | the three disagreements of section 6 |

Bounds. Two clients are enough for a descriptor to be closed and reused while
another event is pending, and three for an accept to fail while two requests are
pending; four, with three slots for connections, let the maximum move over a gap
and one connection be lost. Three words make the cache expand twice from capacity
2 and let a stored, a cached and an unknown word coexist. The table grows without
bound only when loading fails, so `faults` stops at `MaxRows` rows (a state
constraint, used with safety properties only); in the other runs the rows are
bounded by the words. Clients are interchangeable and used as a symmetry set in
the safety runs, not in `live`. A word without definition and a reset
are left out of `live`, where they would have the effect of the fault `write`: the
process ends. In the hash map's run the number of keys bounds the capacity: with
failed expansions and three keys it is at most 8. Its `VIEW` leaves `ret` out of the
state, since no later step depends on it; a step that changes only `ret` leaves
the map as it is, and TLC still evaluates the refinement on every step it
generates. In `loop` one descriptor lies beyond the table, three connections
let a number be reused while an event for its former owner is pending, and two
callbacks let reading and writing have the same function or not. Three nodes are
enough for a pivot with a part on either side, and for a head, a tail and a
neighbour to be different or the same. In `buffer` the numbers keep their order
(asked for by a character < growth < `UIntSize`; slack < growth) and are small, and the
lengths go beyond `UIntSize`, so that a growth is cut to a rest and to nothing; a state
constraint stops the growth. In `calls` the patterns overlap themselves, and the
arguments include terminators inside a text and signed characters. A word that the
loops run over has at least twice as many characters as there is room for, and one
more without a colon, so words go up to 7 for a room of 3. Rounding works
bit by bit, so 8 bits show what 32 do, with the shifts that are less than the width.

Deadlock is checked in every run but four. In `crowd` a lost connection hangs its
client for ever; in `list` threads wait for a lock nobody holds; in `loop` a loop
without descriptors does nothing, and connections are bounded; a call in `calls`
is over when it has returned. There the system really may stop.

`epoll` is left out of `live` because a listener that was not registered
(`server.c:319`) makes a daemon that holds the port and serves nobody, and a lost
connection's client is never answered: `EveryRequestEnds` is false there, and so it
is in `crowd`. `db` is left out because it makes the table grow.

Every property of a passing run is accompanied by a mutant of the code it is
about (`PROJECT.json`, "mutants"), for which TLC finds it violated.

## 5. The proofs

`DictServerProofs` proves, for all values of the constants allowed by
`SizesAssumption`, `WordsAssumption` and `ServerAssumption` (any number of
clients, words, slots, descriptors, any hash function, any set of faults):

`Spec => []IInv`, where `IInv` is the conjunction of

- `TypeInv`: types, and that a request in progress has an event, a word and, at
  the end, a response;
- `LoopInv`: table and kernel agree exactly (`TableOK`), the maximum is exact, all
  events still to be handled, the current one included, are of different,
  registered descriptors and for the file open there (`EventsOK`), and a process
  that does not run owns nothing (`DownOK`);
- `ClientInv`: a client is held once, in the backlog or by one descriptor, from
  connect to hang-up; a pending event of a connection has something to read; the
  word being served is the one its client sent;
- `AnswerInv`: entries, responses and answers carry their word's hash;
- `BookInv`: the count, and the lost descriptors;
- `HearInv`: no batch is left over outside the loop, every waiting client is in the
  backlog or has a descriptor, and the listener stays registered.

None of the checked invariants is inductive alone. `NoStaleEvent` needs that
different events have different descriptors and that a pending descriptor is
registered, since otherwise a close or an accept might hit it; `MaxIsHighest`
needs that an event's descriptor is in the table; `AnswerHashMatches` needs that
the descriptor a reply goes to is still the requesting client's, hence `ClientInv`.
`NextType` uses `EventsOK`, and each of the other lemmas the ones before it.

From it follow `TypeCorrect`, `TableAgrees`, `MaxCorrect`, `EventsAreFresh`,
`CountCorrect`, `LeakBounded` (when `epoll` is no fault), `AnswersHashed`,
`AnswersCorrect` and `CacheIsStable` (when the hash is injective on
the words). `WaitersHeard` (when `epoll` is no fault) combines four of its parts: the
waiting client is held, its descriptor or the listener is registered, the kernel
watches it, and the maximum is not -1. `BatchesAreFinite` counts four steps for each
event of the batch, which are finitely many since their descriptors differ, and what
is left of the request being served. `RowsInv` and `DurableInv` are inductive relative to `IInv` and give,
when the database does not fail, `CacheComplete`, `RowsDistinct`,
`FetchesAreNeeded`, and, when no definition has an apostrophe either,
`AnswersDurable`. The assumptions are needed: the runs `apostrophe` and
`collision` reach the contrary without them.

`DictServiceProofs` proves `ServiceImplemented`: with an injective hash, a database
that does not fail and no apostrophes, `Spec => Service!Spec`. The initial state
maps to the initial state by the map of `ImplementsDictService`; each action is an
action of `DictService` or changes none of the three variables. It rests on `IInv`,
for who is being served and with what, and on `RowsInv`, since a word is learned
once only if what is stored is never fetched again. `DataInvariance` states the
data invariant itself: `DataInv` at every step, under the same assumptions but for
the hash, which may collide. `StoredWordsAnswered` proves `StoredIsNotDenied` from both: the
step is one of `DictService`, which denies a word only while it is not stored. The run `core` checks what of
it can be seen: `RowsAreCached`, `NoDuplicateRows`, `AnsweredIsDurable`.

`StringBufferProofs` proves `BufferInvariance` and `BufferFits` from
`BufferAssumption`: any growth, slack, lengths and width of the unsigned int, as long as
a character asks for no more than the least growth and that is an unsigned int itself.
Lengths of 2^32 and more are among them, and there `short` is what the growth becomes. `Fits` is not inductive: `BufferInv` adds that the
buffer's own idea of its room is never too large, and that a copy leaves the
terminator out of that by at most one byte.

`LoopBackendsProofs` proves `LoopInvariance`, `LoopTableSound` and
`LoopCallsCurrent` for any number of slots, descriptors, connections and callbacks.
`TableIsSound` needs only types to be inductive. `CallsAreCurrent` needs
`EventsInv`: a pending event whose descriptor has not had one dispatched in the batch
is for the connection that is open there, and over epoll the pending events are of
different descriptors, so that the program's discipline protects them.

`HashMapProofs` proves, for any keys, values, capacities and hash function, that
`HashMap` implements `FiniteMap` (`FiniteMapImplemented`), and `EveryEntryInPlace`,
`SizeCounts`, `ChainsFollowOrder` and `SequenceServes`. The invariant `Inv` says of each chain that its
entries are where their hashes put them (`InPlace`), of `size` that it is the number of
entries, and of the auxiliary sequence that each chain is a part of it (`Ordered`). The
expansion needs the first two: `_hmapExpand` stops when it has moved `size` entries,
so the buckets it does not come to are empty (`UnreachedIsEmpty`), and each new chain
is a part of one old chain, turned round (`ExpandedProperties`). A failed allocation
leaves the table as it was. `SequenceServes` follows: entries of one hash are all in
one chain, which holds them in the order of the sequence.

`HashMapIteratorProofs` proves `IteratorVisitsOnce` and `IteratorCovers` on top of
that. `IterInv` says how far the iterator is (`Progress`): what it has given lies in
earlier buckets or no further down the chain it stands in, and of what was there all
along, all that lies there has been given. An expansion breaks this, which is why the
properties except it.

`SharedListProofs` proves `RingSound`, `OnlySortStrandsCalls` and `DequeImplemented`,
for any number of threads, nodes and values and any relations. Its invariant is that
some sequence of different nodes is the ring (`Whole`: each node's `next` and `prev`
are its neighbours, every node elsewhere is free) and that the lock is held by the
thread between taking it and giving it back (`Threaded`). Each function of `list.c`
is shown to keep it and to do to the items of that sequence what `Deque` says. The
longest argument is the quicksort's. `LoopIs` is its loop's invariant (up to `i` what
is no greater than the pivot, behind it the rest), `DoneTogether` joins two parts that
are done to a whole that is, and `HelpsAre`, by induction on the depth, concludes
that a call for the `a`-th to the `b`-th node needs a depth of no more than `b - a`.
Everything about the order is conditional: the data is permuted within the part
whatever the relation is, and sorted if that is total and transitive on it.

`CallsProofs` proves, for any arguments allowed by `ArgumentsAssumption` and any sizes
allowed by `MessageAssumption`, `LimitAssumption` and `RoundUpAssumption` (the shifts
reach over the width), every property of `Calls`; its
invariant (`CallsInvariance`) only says that what has been returned is what the
function returns.
- `SearchIsExact`: the table of `aoStrComputePrefixTable` holds at each position the
  length of the longest proper border of the pattern up to there, and the matcher's
  `j` is at each position of the text the longest beginning of the pattern that ends
  there, so that no occurrence can begin between the one it follows and the next.
- `CaseSearchFinds`: the case-insensitive search folds characters but uses the exact
  table. Its borders are borders when folded too, so what is found is there; they are
  the longest ones when folding joins no two characters of the pattern.
- `SplitLosesNothing`: at each position the parts so far and the one begun, joined by
  the delimiter, are the text so far, but for one delimiter at its start.
- `RequestIsRead`: a number is written in digits only and read back as it was
  (`DecimalReadsBack`, by induction on the number), and what is copied ends at the
  first colon or at the room there is (`CopiedTo`), and so does the length (`NumberIs`).
  The digits that are read are then those of the length, or have a colon in them, or
  are all of the word's own, which is `RunsOver`.
- `SocketsAreClosed` goes through the calls of each function; `LimitIsMet` is the
  invariant of the loop that lowers the limit.
- `EscapeCanBeUndone` and `DecodingGivesBack`: what is written for the characters of a
  text lies one after the other (`Laid`), and a reader that reads at the beginning of
  each what it was written for reads the text, and nothing else (`TranscribedReads`).
  What is left are the cases for one character: the escape of a negative one is ten
  characters long, of which six are read, as another one (`UnescapeIs`), and a decoded
  byte comes back as the signed character it was (`DecodedIs`).
- `CapacityIsRoundedUp`: the bits of a number lie below its length, the last of them
  among them (`LengthIs`); after `j` shifts the `2^j` last positions are filled
  (`ShiftsFill`), in the end all of them, and these are the power above less one
  (`AllBits`). The mask has the same bits (`MaskBits`), and the bits of a hash below
  `k` are its remainder by the `k`-th power (`LowBits`).

Arithmetic induction is done with sets: a set of numbers that holds 0, and with each
number the next, holds all of them (`UpTo`). Loops and recursion are functions on an
interval, or their sequence of states, and so within the prover's reach.

Only model-checked is the liveness (`EveryRequestEnds`, `EveryWordIsLearned`), since the
prover handles neither fairness nor ENABLED; of `EveryRequestEnds` the part that needs
neither is proved, as `WaitersHeard` and `BatchesAreFinite`.

## 6. What the model shows to differ from the documentation

- `apostrophe`: a definition with an apostrophe is cached and answered, never
  stored. The INSERT is pasted together at `server.c:88` and its result ignored at
  `server.c:155`, while `README.md:3` says it is persisted.
- `collision`: because the cached key aliases the request buffer, a word with the
  hash of a fetched one is answered with the other word's definition and never
  fetched, while `README.md:3` says an unknown word is requested from the site.
- `unknown`: a page without a definition ends the process instead of being
  answered with the error text of `server.c:180`.

Three more remarks are at odds with the code, without a run of their own:
`README.md:11` calls the search case insensitive, while the server hashes and compares
words as they are, so that variants of a word are words of their own; `inet.c:139` says "connect on the first one we can", while the first address there
is a socket for decides; and the list's sort is among functions for threads
(`list.h:32-33`) but keeps the lock when there is nothing to sort, which
`OnlySortStrands` makes room for.

## 7. Not modelled

- Memory: what `hmapRelease` fails to free (`hmap.c:76`), the first slot of
  `aoStrSplit`, which is written to five bytes (`aostr.c:538`), the table for an
  empty pattern (`aostr.c:405-406`), a mutex destroyed while it is locked.
- `aoStrDecodeMimeEncoded`: it copies from ten structs behind the buffer
  (`aostr.c:653`), which has no defined outcome to model.
- The read cursor of `aostr.c`, which no caller uses; `aoStrUnPutChar`'s result,
  which is the character before the one it removes (`aostr.c:205`); the comparison
  functions and the change of case, which hand their arguments to libc.
- The contents of pages and definitions: `htmlgrep.c` asks libxml2 for them and
  scans past a match without letters (`htmlgrep.c:64`); their order, by a comparison
  of pointers, means nothing.
- `http.c` beyond its outcome and what a failure keeps: status codes and content types
  are recorded and not looked at, and a response without a content type, for which
  `curl_easy_getinfo` gives a null pointer that is then compared (`http.c:117`), is
  taken not to come. A transfer that never ends (`http.c:110`) is excluded by assumption.
- Sizes of requests and statements: the client cuts its message at 1024 characters
  (`client.c:31`), and an INSERT at 65535, with a zero then written behind
  the buffer (`server.c:87-90`). A word is as long as the model's sets have it, and a definition has no length.
- The unsigned wrap of `targetlimit` (`server.c:291`): in `Sockets` the loop lowers the
  limit in the integers. The wrap needs a process that may have fewer than four
  descriptors, too few for its standard streams and a listener.
- `serverDaemonise`, which the default build leaves out; `panic.c`, output only;
  option parsing; the build files.
