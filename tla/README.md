# Verification of flood

flood is a BitTorrent client in C: it reads a torrent file, asks trackers for
peers over UDP or HTTP, connects to the peers with a pool of threads, reads
their messages and reports how much of the torrent the swarm holds. It does not
download yet. This directory holds TLA+ models of its core, the TLC
configurations that check them, and TLAPS proofs of what they are checked for.
Paths such as `client.c` are short for `src/src/client.c`.

## 1. Inventory

| Part | State | Operations | Correct when |
|---|---|---|---|
| client, peer threads (`client.c`, `main.c`) | one list of `peer_t*`, a status in each; the run flag | `client_find_peer`, `peer_thread_routine`, `peer_communication`, main's counting loop, SIGINT | one loop at a time uses the list's cursor; a pass overlooks no NEW peer; a peer that is taken is not offered again; every NEW peer is tried; SIGINT ends the process |
| swarm availability (`peer.c`, `client.c:202-250`) | bitfield, length and block of each peer | `peer_update_bitfield`, `peer_update_bitfield_index`, `calculate_total_availability` | no freed or unfilled block is touched; the sum holds what peers claim |
| tracker thread (`tracker.c`, `udp_protocol.c`) | socket, connection id, stop flag, countdown | start, poll, stop, forced stop; connect and announce exchange | replies match requests, ids come from the server, the thread ends when stopped |
| peer wire protocol (`peer_protocol.c`, `client.c:93-171`) | the TCP stream, the fields read so far, the choke and interest flags | send, field-by-field receive, dispatch | what is read is what was sent |
| linked list (`util/list.c`) | nodes, length, mutex, cursor | append, prepend, insert, truncate, get, iteration | each call does to a sequence what list.h says, under every interleaving |
| hash table (`util/hashtable.c`) | chains, capacity, size | get, put with growth, remove, iterator | it is a dictionary |
| bencode (`util/bencode.c`) | the position, the calls in progress, the values | parse, encode | it accepts its language, notes where each value lies, comes to an end, and what it writes can be read back |
| torrent file (`torrent.c`) | the torrent's fields and trackers | `torrent_init_from_file` | a complete file leaves nothing unassigned that is used later |
| start and stop (`main.c`, `client.c:12-55`) | options, the list of trackers, the run flag | `parse_opt`, `main`, `client_init_trackers`, `_start_trackers`, `_stop_trackers` | exactly the file's trackers are started, all are stopped |
| file manager (`file_manager.c`) | an array nobody reads | overlap of a piece with files, without effect | |
| HTTP tracker, URIs, IP discovery, utilities | none that outlives a call | I/O and formatting | |

**How the parts meet.** A tracker thread calls `client_find_peer` through the
function pointer that `client_init_trackers` hands it; that appends to the list
of peers. Peer threads and main iterate over the same list. A peer thread runs
the wire protocol; its BITFIELD and HAVE messages write the peer's bitfield,
which any other peer thread may be summing. The list is the one structure that
threads share on purpose, and its mutex the one lock they all take. Before any
thread runs, main parses the torrent file; the hash table carries the parsed
dictionaries, within one thread.

**What is hard here.** The status of a peer is read under the mutex and written
without it. The cursor of the iteration is a field of the list, not of the
loop. Bitfields are freed and replaced with no lock at all. No receive of a
tracker has a timeout and no receive of a peer is checked. Sockets are never
closed and the message loop has no exit. `torrent_t` and `client_t` lie
unassigned on main's stack, and most of their fields are filled in only if the
torrent file has them. The parser reads a character before it knows that there
is one, and its numbers wrap. `PROJECT.json` lists these hazards
line by line, with the properties that watch them.

## 2. Modules

| Module | Models | Composes |
|---|---|---|
| `Swarm` | the list of peers and every thread that uses it | |
| `Availability` | bitfield updates racing with the sum | fills in the pass that `Swarm` calls `AvailLock` to `AvailEnd` |
| `UdpTracker` | one tracker thread, the network and the server | its `found` is what `Swarm`'s tracker threads report |
| `PeerWire` | one connection, bytes and reader | fills in `Swarm`'s `w_msgs` |
| `List`, `SeqSpec` | list.c at its pointers; the sequence it implements | `List` instances `SeqSpec` |
| `Hashtable`, `Dictionary` | hashtable.c; the dictionary it implements | `Hashtable` instances `Dictionary` |
| `Bencode` | the parser and the encoder | the spans are what `Startup`'s file is hashed by |
| `Startup` | from the command line to the tracker threads and back | its loop is `Swarm`'s main, its trackers are `UdpTracker`s |
| `SwarmProofs`, `AvailabilityProofs`, `UdpTrackerProofs`, `PeerWireProofs`, `ListProofs`, `HashtableProofs` | theorems about the module of that name | that module |
| `TorrentProofs` | theorems about the torrent file | `Bencode` and `Startup` |
| `ProofFacts` | lemmas about sequences, sums and remainders, induction, recursive definitions | |
| `MC*` | constants and symmetry sets for TLC | |

Each operator whose comment starts with "Mutant:" is a plausible wrong version
of the definition that follows it. No specification uses it; it shows that a
property notices the mistake.

### Swarm

`peers` is the list in order. An element is the address and `low`, the low word
of the element's own pointer: the loop of `client_find_peer` copies a pointer
into a `peer_t`, so that word is what it compares with the new address. `low`
and the initial status are chosen freely when a peer is added, since the first
is an address of the heap and `peer->status` is never assigned. `curr` is
`curr_node` as a position, 0 for NULL. One step is one iteration of a loop, one
call that takes or gives back the mutex, or one write of a status.
`list_append` takes and releases the mutex within one step. A peer thread tests
the length without the mutex; the test and the lock are one step, which is
sound because the list never shrinks (`ListGrowsOnly`). `socks` counts sockets
and only grows. A process that has left main takes no step.

### Availability

No lock orders the writers and the reader, so every access to memory that they
share, of a length, of a pointer or of a byte, is a step of its own. A block
records whether it is live, its size, whether it has been filled and its bits;
`blocks[p]` keeps all that `peer->bitfield` has pointed to, the last of them
being the one it points to now. `peer_update_bitfield` is free (`FreeOld`),
malloc, the load of the pointer, memcpy and the length. `peer_update_bitfield_index`
drops an index beyond the length (`HaveDrop`) or goes on (`HaveTest`) to load the
pointer, load the byte and store it. Built without optimisation, `|=` stores
through the pointer that it has loaded (clang) or through one that it loads
again (gcc); `HaveStore` allows both. The reader reads the length of one peer up
to four times: `TestLength`, `Calloc`, `SetMasterLen`, `Compare`; and the
pointer in `TestPointer` and once per byte in `OrPointer`, before `OrByte`. So a
length that changes between the calloc and `master_len` leaves a master that is
too short, and a pointer may be freed before the byte behind it is read. An
access the program may not make puts the peer into `unsafe`; from there on
nothing is said. Two writers may have the same peer, as `Swarm` allows: `target`
is chosen in the initial state. A byte has `ByteBits` bits. History values:
`updates` counts BITFIELDs and `first` holds the bits of the first, `announced`
has the pieces claimed in messages that were not dropped, and `before` what was
stored when the pass began.

### UdpTracker

`reqs` and `resps` are the datagrams on the way, sets, because order is not
kept. A receive takes any of them. A connect reply of less than 16 bytes leaves
`c_resp` as the stack had it: any transaction id and `Junk`. An announce reply
without a peer leaves `a_resp.peers` unassigned: the loop over it finds nothing,
invents peers or crashes. Server, network and cancellation are external and
modelled from their use. `tick` counts the seconds of the polling period.

### PeerWire

The stream is a sequence of bytes and the fields are read one recv at a time.
Each recv takes any number of the bytes asked for; a short one is a fault,
leaves the variable with a value from `Garbage`, and reading goes on. Word
values are cut off at `Huge`, which stands for sizes that malloc refuses. The
68-byte handshake is `HandshakeLen` bytes, of which the first `CheckedLen` (48
in the code) are all that is compared. A word of the model takes two of its
four bytes (`Wide`), and `MessagesAssumption` says what a message is: the fields
of its type, of a length that such a word can hold.

### List

Nodes are numbers, 0 is NULL. A call first announces itself and then waits for
the mutex; `list_insert` reads the length twice before it locks (`CallInsert`,
`Choose`), `list_get` once, and both walk from the nearer end of the list that
they find under the mutex. `Section` is the choice of `list_insert` among
`list_append`, `list_prepend` and its own walk. `Crash` is a null pointer
followed. `op.born` and `op.seen` are history values: the nodes allocated and
those freed before the call. The list starts as `list_new` and some calls of
`list_append` have left it. `Walk` is the loop over `next` or `prev` that the
walks share.

`SeqSpec` is what `list.h` promises: a thread asks for one change, and it takes
place once, with the value given and at the place named: an append at the end, a
prepend at the start, an insert at its index, and a truncation takes the last
element or finds none. It makes one exception, for an insert during which another
call has taken effect (`raced`): that one may also end up at the end or before
the last element. `list.h` knows no such exception and the code needs it: without
it TLC refutes `IsSequence`.

### Hashtable

A chain is a sequence of entries, the table a function from indexes to chains.
`Hash` is a parameter with values of both signs. Operations are one step each,
as they run under the table's mutex. `GrowTable` puts the entries of each chain
one by one into the larger table (`HtInsert`). Iteration is stepwise, and a table that
changes ends it. `MaxDrift` bounds how far `size` may run from the number of
entries.

### Bencode

One step is one call of `b_parse_any` up to its own recursive calls, or the end
of a list or dictionary; `stack` holds the calls in progress and `vals` the
values finished so far, each with its span. Positions count from 0. The
character after the text is `beyond`, any of those the parser treats
differently, because the digit loops look at it. `int` has its width, scaled
down to `IntMax` 31, so that two digits overflow it; `Chars` is what a char may
hold. A length that wraps to a
negative number is accepted as a string of no bytes, and `n + 1` wraps as in
the code. The encoder's length pass and writing pass are separate, as in the
code, and `overrun` is a write past the block that the first one asked for. The
order of keys is left open, because `qsort` hands `strcmp` the addresses of
pointers. `Again` parses what was written.

### Startup

The torrent file is a record of the fields that the code looks up, each present
or missing; a value of a type the code does not expect is left out. `Unset` is
a word that nobody has assigned, and `undef` the state after one was used: from
there on nothing is said. One step is one option line, one tier, one file
entry, one tracker. `urls` is the block of tracker URLs slot by slot. SIGINT
sets `running` at any moment, since `setup` is main's first call.

## 3. Runs

| Run | Shows | Size, and why it is enough |
|---|---|---|
| `swarm_threads` | `IteratorHoldsMutex`, `ScanMissesNoNew`, `ClaimSticks`, `MonitorCount`, `ListGrowsOnly`, `InterruptExits`, `NewPeerTried` | 1 tracker thread, 2 peer threads, main, 2 peers: two threads race for one peer while the tracker adds another, and one thread can be captured while the other has a peer left to try |
| `swarm_listed` | violation of `SearchFinds`: the search walks past a peer that has the new address | 1 tracker thread, so that no race takes part: what fails is the comparison |
| `availability_race` | `UnsafeOnlyWhenReplaced`, `NoPhantomPieces`, `CountsStored` | 2 peers, 2 writers that share a peer or do not, 3 messages, bitfields of 0 to 2 bytes of 2 bits: a second bitfield may shrink, keep or grow the block in the middle of a pass, the peers' lengths may differ, and two HAVEs may meet in one byte |
| `tracker_faults` | `BlockedOnlyByLoss`, `InStep`, `AnnouncesIssuedId`, `FoundListed`, `StopEnds`, `ForcedStopEnds` | 3 requests (connect and two announces), one loss, one duplicate, one error: each property names the fault that breaks it, and one of each is enough for it to happen |
| `tracker_empty` | violation: an empty announce reply crashes the thread | |
| `wire_stream` | `InSync`, `FramesWhole`, `FlagsFollowSender`, `AllRead` | 2 messages out of every type, keep-alives included, empty and longer payloads, at most one short recv, which no fairness asks for; an undisturbed reader carries only the two flags from one message to the next |
| `wire_keepalive` | violation: a keep-alive is not read as one | |
| `list_calls` | `Linked`, `CrashNeedsTruncate`, `GetsElement`, `IsSequence` | 2 threads that add 2 elements to an empty list or to one of four: below five nodes the walk from the tail takes no step |
| `hashtable_map` | `WellPlaced`, `IterComplete`, `IsDictionary` | 4 keys, capacities 2, 4 and 8: keys collide at one capacity and part at the next |
| `bencode_texts` | `FollowsGrammar`, `SpansTile`, `WidthBounds`, `ReadsBack`, `ParseEnds` | every text of up to 4 of the 10 characters that matter, a list and a dictionary around every such shorter alphabet, and longer ones cut at every character: nested, with repeated keys, a NUL in a key, INT_MIN, lengths that wrap |
| `startup_docs` | `StartsWanted`, `CompleteIsSafe`, `InterruptStops` | every command line of up to 2 options, up to 2 tiers of up to 2 URLs, up to 2 files, every field present or missing: the loops run zero, one and two times |
| `startup_piece` | violation: the piece length of the file is not stored | |

`TypeOK` is checked for `Swarm`, `Availability`, `UdpTracker` and `List`. The runs that end in a
violation state what a header, a comment or a test says and show what the code
does instead; "findings" in `PROJECT.json` quotes the lines:

1. `client_find_peer` never recognises a listed address, except by accident: it
   compares half a pointer.
2. An announce reply without peers makes the thread walk an unassigned pointer.
3. A keep-alive shifts the reader of peer messages by one byte.
4. The piece length is stored only if the file has none.

Other departures from comments, headers and tests are part of the models, and
the properties are worded accordingly. After a connect reply whose transaction
id does not match, the tracker's socket stays open and the next poll announces
with connection id 0; `udp_protocol_test.c:80` ends the exchange there
(`AnnouncesIssuedId` holds because a server that makes no error sends no such
reply). `calculate_total_availability` says "OR all the bitfields together"
(`client.c:217`) and leaves out those that are not as long as the first one it
finds; `CountsStored` is about the others and fails without that condition.
`list_insert` ("Inserts `data` at index `idx`", `list.h:39`) picks its case by a
length that it reads before it takes the mutex: its element lands elsewhere when
another thread adds one first. `SeqSpec` has this as its one exception.
`list_truncate` on an empty list returns with the mutex locked, after which
every call waits for ever; the model stops there too, and no property says that
a call returns. Neither of these two list functions has a caller. The parser accepts an
integer without digits, a lone `0` or `i-` if the heap goes on suitably, and
lengths modulo the width of int, and a length of INT_MAX crashes it
(`FollowsGrammar`). A magnet link, a file
without trackers or one without a piece length leads main to unassigned memory
(`CompleteIsSafe` states what a file must have).
`hashtable_size` counts calls, not entries; the dictionary does not depend on
it (`IsDictionary`). `bencode_to_string` does: after a repeated key it reads
slots of its array of keys that it never filled, which the model answers with
`undef`; `ReadsBack` speaks of the other texts, and nothing in the repository
calls the encoder.

Deadlock checking is off where the system stops for good, or where the model
says no more: a bitfield used that may not be, a tracker thread that has ended, a reader with nothing to read, a list whose mutex is lost, a parser that has
answered, a process that has ended or followed a null pointer. `Swarm` runs with it on.

**Bounds.** Every bound is a constant: `MaxPeers`, `FdLimit`, `MaxMessages`,
`MaxRequests`, `MaxLoss`, `MaxDup`, `MaxErrors`, `MaxSent`, `MaxFaults`,
`MaxAdded`, `MaxNodes`, `MaxCap`, `MaxDrift`, `Wide`, `IntMax`. `FdLimit` is the system's and
`IntMax` the machine's, scaled down; the others cut a counter that the code
leaves open.

**Fairness.** `Swarm`: every thread keeps being scheduled (weak fairness), and
one that waits for the mutex gets it (strong fairness on the locking steps),
because the other loops are finite and their threads sleep for a second or more
between them. Nothing is assumed of how a connection attempt turns out, of new
reports or of signals. `UdpTracker`: the thread runs, the server answers what
reaches it and what is not lost arrives; nothing is owed by an HTTP server.
`PeerWire`: the reading thread runs and what is sent arrives; fairness is asked
only of the steps that get all their bytes, so that no behaviour is excused from
`AllRead` by a fault that it was made to have. `Bencode` and
`Startup`: the one thread that runs goes on; no signal is owed to anybody.

## 4. Proofs

Every safety property that a passing run checks, but `ReadsBack`, is a
theorem of the specification: it holds for any number of threads, peers, keys,
messages, requests and faults, and for any texts, not only at the bounds of the
runs. So do the two refinements.

| Module | Theorems |
|---|---|
| `SwarmProofs` | `TypeCorrect`, `IterationExclusive` (`IteratorHoldsMutex`), `SelectionListed` (`SelectedListed`), `ScanComplete` (`ScanMissesNoNew`), `ClaimsStick` (`ClaimSticks`), `MonitorBounds` (`MonitorCount`), `GrowsOnly` (the action property `ListGrowsOnly`) |
| `AvailabilityProofs` | `TypeCorrect`, `SafeUnlessReplaced` (`UnsafeOnlyWhenReplaced`), `NoPhantoms` (`NoPhantomPieces`), `SumsStored` (`CountsStored`) |
| `UdpTrackerProofs` | `TypeCorrect`, `OnlyLossBlocks` (`BlockedOnlyByLoss`), `RepliesInStep` (`InStep`), `IdsIssued` (`AnnouncesIssuedId`), `FindsListed` (`FoundListed`) |
| `PeerWireProofs` | `ReadsInStep` (`InSync`), `TakesWholeMessages` (`FramesWhole`), `FlagsAsSent` (`FlagsFollowSender`) |
| `ListProofs` | `TypeCorrect`, `ListLinked` (`Linked`), `OnlyTruncateCrashes` (`CrashNeedsTruncate`), `GetCorrect` (the action property `GetsElement`), `ImplementsSequence` (the refinement `IsSequence`) |
| `HashtableProofs` | `PlacedWell` (`WellPlaced`), `IterationComplete` (`IterComplete`), `ImplementsDictionary` (the refinement `IsDictionary`) |
| `TorrentProofs` | `ParserInvariant` (`ParserInv`), `SpansAreTiled` (`SpansTile`), `WidthIsBounded` (`WidthBounds`), `AcceptsLanguage` (`FollowsGrammar`), `StartsExactly` (`StartsWanted`), `CompleteSafe` (`CompleteIsSafe`) |

**Assumptions.** Each module states those on its constants (`SwarmAssumption`,
...), and TLC evaluates them in every run: bounds are natural numbers, markers
are none of the values they stand beside, sets whose members are counted are
finite. The ones that say more: a bitfield has no bit beyond its size and a
message has the fields of its type, as the sender of the other end writes them;
the first capacity is no more than the largest; `MaxNodes` has room for the
nodes a list starts with and those that are added; `IntMax` has two digits
(with one, `INT_MIN` is no longer than the space for it, and the count is off
without an overrun: `WidthBounds` would be false).

**Swarm.** The conjunction `Inv` of the invariants is inductive
(`Invariance`), and no conjunct is so by itself. `ScanMissesNoNew` speaks of
the positions before the cursor, so it needs that nobody else moves the cursor
during the pass: `IteratorHoldsMutex`. It also needs that no status behind the
cursor turns NEW; statuses are written without the mutex, but only to IN_USE
or BAD and only at `sel`, which `SelectedListed` keeps inside the list, so that
no write changes the length of `status`. An append happens only with the mutex
free, hence during no pass, which is why a fresh NEW peer cannot appear behind
a cursor; and it leaves earlier positions alone, which `ClaimSticks` needs for
the threads in contact. `ClaimSticks` survives races for one peer because every
write in the race is to a status other than NEW. `GrowsOnly` follows from `Inv`
step by step. `MonitorCount` needs only that the counter is 0 when a pass
begins (`CountInv`): a status that changes can only lower the number of NEW
peers behind the cursor.

**Availability.** `Typed` adds to the types that a pointer in hand leads to a
block that was allocated. `Once` says of a peer with at most one bitfield that
it was used safely, that a length above 0 means a live, filled block of that
length, and how far each thread has come with it; it is inductive because the
length is written last. For such a peer neither length nor block changes after
the length is set, so that what the reader reads again is what it has read:
`Measured` says so at each point of its pass, and of the master that was made
after the peer. `Claimed` bounds the bits of every block, of the messages and of
the bytes under way by what was announced, whatever is replaced meanwhile.
`OwnByte`: a thread that is alone with its peer stores the byte that it has
read, so its HAVEs are not undone. `PassInv` follows the sum byte by byte: what
was stored before the pass is still in the block, and is in the master once the
pass has come by, if the lengths agree.

**UdpTracker.** `OneOnTheWay`: without a duplicate there is at most one
datagram on the way, it carries the current transaction id, and there is none
unless the thread waits; so it cannot take a stale one. `ConnectionKnown`: as
long as the server makes no error, what answers a connect is a connect reply
with an issued id, and an open socket has one. `RepliesListed` speaks of the
replies on the way.

**PeerWire.** `Sync`: while nothing has disturbed the reader, the messages
handed over are the first of those sent, the fields read so far are those of
the next one, and the stream is the rest of that message followed by the
messages after it. The lemmas give the encoding of a message field by field
(`EncodeIs`), what a recv takes from the front of the stream (`Reads`), and
that sending only adds at its end (`SendKeeps`). The flags follow the messages
handed over, disturbed or not (`FlagInv`); `Sync` makes these the ones sent.

**List.** `Chained`: there is a sequence of distinct live nodes that `next`
follows from `head` and `prev` from `tail`; `Budget`: nodes suffice for the
calls that have announced one. Each call is shown to insert one node into the
sequence, at a place that its lemma names (`AppendGrows`, `PrependGrows`,
`InsertGrows`), or to take its last one off; from that follow the links and the
walks from both ends. `FitInv` relates the index of a call to the length that it
read: only a truncation can put it beyond the list, and only a call that took
effect meanwhile (`Raced`) can part an insert that chose `list_append` from the
end it saw. With it, the place is one that `SeqSpec` allows (`PlaceAllowed`),
and every step is one of `SeqSpec` or changes neither its contents nor its calls
(`AddImplements`, `TruncateImplements`, `EmptyImplements`, `QuietStutters`).

**Hashtable.** `HashInv`: every entry is in the bucket of its key's index at
the current capacity, and keys are distinct. Growth is shown to move every
entry exactly once, by following the loop over the buckets. The dictionary is
the entries of all buckets as a function of their keys. `IterInv`: what was
visited and the rest of the present chain are, together, the first buckets.

**Bencode.** `ParserInv` says of every list and dictionary what `SpansTile`
says (`Tiled`) and the same of every call in progress, whose values end where
the call it waits for begins (`Waits`); that the parser goes on only before the
end of the text (`Inside`); and that a string is as long as the number read for
it, or that number did not fit an int (`Numbers`). The loop over digits computes
the number modulo the width of int (`ReadsModulo`), because a number may wrap
after every digit or once at the end. `WidthBounds` follows for the encoder by
comparing its two passes value by value (`EncoderFits`): the text of each is as
long as counted, or at least two longer and there is an `INT_MIN`, and sums of
such differences are again none or at least two, whatever the order of the keys;
one extra character would be lost in the byte that the block has for the NUL.

`GrammarInv` is the other half, and compares the parser with the grammar, which
looks at a stretch of text from both ends and knows no stack. `IsValue`: every
finished value is one of the grammar; for a list or dictionary this goes
backwards over its values (`ItemsFill`, `PairsFill`). `Live`: whenever the
grammar finds a value at the start of the text, the calls in progress can still
be completed to it: there is an end for each of them, one inside the other, so
that what lies between is what that call has still to read (`Viable`). A call
that gets a value keeps such ends (`FinishResumes`), because at each position
the grammar has at most one integer or string and it is the one that the loops
read (`IntFound`, `StrFound`); an error answer would leave none. So a text is
refused only if the grammar has no value for it. The grammar itself is a
recursive function on stretches of text, shown to be well founded (`DerivesEq`).

**Startup.** `TrackInv` says at each point of main how many of the slots of the
block of URLs, of the list of trackers and of the threads are filled; `SafeInv`
does the same for the files, given a complete file.

**Induction.** What a loop or `FlattenSeq` computes is proved from
`LeastNumber` in `ProofFacts`, that a set of numbers has a least element, which
names a set instead of a predicate. That a recursive function satisfies its
equation is proved in the same way, from `RecursionHasSolution`: the right-hand
side, as a function of the function, looks only where a measure is smaller.

**Only model-checked.** The liveness properties `InterruptExits`,
`NewPeerTried`, `StopEnds`, `ForcedStopEnds`, `AllRead`, `InterruptStops` and
`ParseEnds`, which are out of the prover's reach. `ReadsBack` of `Bencode`: the
second reading has to be followed through the text that the encoder made of the
first one's values, which the state no longer holds. `SearchFinds`, `NoCrash`,
`KeepaliveRead` and `PieceLengthKnown` fail.

## 5. Not modelled

The file manager: `file_manager_write_piece` has no caller, calls nothing and
returns nothing, so there is no behaviour to state a property of. (It adds a
file's length to the offset only if the file overlaps the piece, so that every
later file would be placed too early.) `torrent_init_from_magnet` is declared
and not defined. URI parsing is the uriparser library's; `UdpTracker` takes the
scheme of a URL as given. The HTTP tracker's query string is composed of
constants by the library, and its reply is dropped: only that the request takes
some time or for ever is modelled. Address discovery: pure I/O, no caller. The
table of client names, `bencode_debug` and the printing of messages: wording.
`list_each`, `hashtable_foreach`, `hashtable_free`, `printf_safe`,
`printf_lock`: no caller. The hash functions are a parameter of `Hashtable`. In
`Startup`, values of an unexpected type (a number for a list) are left out: the
code reads the wrong member of a union, after which nothing can be said.

## 6. Plan

1. Proofs: `ReadsBack` of `Bencode`. Every value of the second reading is
   written as the stretch of text that it was read from, if the numbers of that
   text are as the encoder writes them.
2. When downloading is written: requests and pieces in `PeerWire`, and the file
   manager.
