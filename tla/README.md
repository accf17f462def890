# toytorrent in TLA+

A verification development for toytorrent, a small BitTorrent client in C++20
(`src/src/`). It models the parts of the program that keep state or can fail
half way, checks them with TLC on small instances, and proves every safety
property that TLC checks, the refinement of `PeerChannel` included, with TLAPS
for every value of the constants. Liveness is model-checked.

Paths below are relative to `src/src/` of the repository.

## The system

Everything runs on one thread. What makes the program hard is not
interleaving of threads but *stopping*: nearly every call can throw, and
whatever it did until then stays in place for the next call; the kernel and
remote peers act in between; several parts are undefined on malformed input.

| Component | State it keeps | Operations | Talks to |
|---|---|---|---|
| `smolsocket::Sock` | a descriptor or -1 or nothing; SO_SNDTIMEO on the socket | construct (look up, open, connect), move, destroy, `send`, `recv` | kernel |
| `peer::Peer` | `optional<Sock>`, ip, port, id | construct, move, `handshake`, `send_message`, `send_keepalive`, `wait_for_message` | Sock, message formats |
| peer messages, byte order | none | serialise all messages, parse `Piece` | Sock |
| `piece::Piece`, `piece::Map`, piece jobs | state of a piece, its subpieces, the file stream | download, verify, flush | Peer, `fstream` |
| `Torrent` | metainfo, pieces, file, peers, ourselves | construct, `start_tracker`, `create_handshake_jobs` | tracker, Peer |
| `job::JobQueue` | a deque of jobs | `enqueue`, `process` (empty), `deque` (empty) | jobs |
| `tracker` | none | `send_request` and its checks | HTTP, bencode |
| `bencode` | the rest of the input; the C++ stack | `Parser::next` | - |
| `MetaInfo` | parsed fields, bytes for the infohash | construct, infohash | bencode |
| `main`, `log` | - | build the jobs; print | all |

Correctness, per component: a descriptor has one owner and is closed once, by
it; an operation's bytes reach the wire once and in order or the call throws;
a call ends; a piece marked as had is complete and is the published one; a
flush stays inside its piece and is not lost while the program runs; the
messages can be told apart on the wire; the peers of a tracker's answer are
learned, and known peers keep their connection; a malformed response or file is
rejected and a well-formed one accepted; the infohash is taken of the info
dictionary. That the peer list has no duplicates and not ourselves would be
worth having, but nothing in the code ensures it: `m_peers` is public, ports are
narrowed, and the merge compares pointers.

## Modules

| Module | Models | State in the code |
|---|---|---|
| `SockOwnership` | special members of `Sock` and `Peer`, connection half of `handshake` | `handle[p]` is `m_sock` of the Peer in storage p (descriptor, -1, nullopt or no object); `addr[p]` is `m_ip` and `m_port`; `open`, `remote` are the kernel's |
| `SockOwnershipProofs` | theorems about it | |
| `PeerChannel` | what a client of a Peer may rely on: operations appended whole, or the connection given up | `link` is whether the connection may be used, `written` the operations on it |
| `PeerSession` | `Sock::send`, `recv`, every call on a Peer, the kernel's buffers, the remote peer | `call`, `part`, `sent`, `copied` are the program counter and locals of the running call; `armed` is SO_SNDTIMEO, set by `enable_timeout` and removed by the `disable_timeout` of each way out; `out` is what was written to the connection |
| `PeerSessionProofs` | theorems about it | |
| `PeerChannelProofs` | that `PeerSession` implements `PeerChannel` | |
| `Wire` | `serialize` and `get_type` of every message, `byteorder.cpp`, compact peer lists | `stream` is what `send_message` put on one connection; `peers` what `bep52_peer_str_to_peers` returned |
| `WireProofs` | theorems about it | |
| `PieceStore` | `Torrent`'s constructor, pieces, `PieceDownloadJob`, `PieceVerificationJob`, `PieceFlushJob`, end and restart of the program | `state`, `subs` are `m_state`, `m_subpieces`; `job` is the running download's piece and loop index; `file` is the file on disk, `buffer` and `fileBad` the buffer and failure bits of the stream, `path` what is at the destination, `up` whether the program runs |
| `PieceStoreProofs` | theorems about it | |
| `Bencode` | `Parser::next`, `Object`, `take_*` | `pos` is what was popped off `m_data`; `frames` is the call stack of `take_dict` and `take_list` |
| `MetaInfo` (extends `Bencode`) | `metainfo_from_path` and the constructor, read by read | `step` is the read it is at; `bencodedInfo` is `m_bencoded_info` |
| `Torrent` | job queue, tracker and handshake jobs, `start_tracker`, `send_request` | `peers` is `m_peers` (object identity and address), `queue` is `m_jobs`, `made` the jobs the client holds, `outcome` how the last call ended and `response` what the tracker answered it |
| `MetaInfoProofs` | theorems about both | |
| `TorrentProofs` | theorems about `Torrent` | |
| `DataLemmas` | induction over the natural numbers, and facts about sequences, that these proofs share | |
| `MC*` | constants, inputs and symmetry for TLC | |

Definitions whose comment begins with "Slip of" are deliberately wrong
variants of the definition they name, kept to show that a property notices
them; no specification uses them.

### Decisions a reader should know

* **The client.** The library is a static library used by `main` and by the
  tests in `test/`, which call it in different orders. Each module's client is
  therefore any single-threaded sequence of calls, `main`'s among them. That
  `JobQueue::process` is empty means `main` itself never runs a job;
  `Torrent` has that action, and lets the client call `process()` of a job it
  holds, which is how a job runs at all in this revision. `m_peers` is a public
  vector, so the client may also append any peer to it: one with a known address,
  with ours, or a pointer it already has (`Addable`).
* **Received bytes.** `Sock::recv` reserves capacity in a vector and never
  resizes it, so it returns an empty vector, and
  `blocking_read_message_from_socket` always ends in `out_of_range` from
  `type_buf.at(0)` (`peer_message.cpp:25`). `PeerSession` models exactly
  that. `PieceStore` would be inert behind it, so what `wait_for_message` may
  return is a parameter: `CanAnswer = FALSE`, `Forgeries = {}` is today's
  code, and the run uses the richer contract of its interface. An empty answer
  is among the `Forgeries`, because `MessagePiece` has the same defect.
* **Undefined behaviour.** Reading the front of an empty deque (`Bencode`) or
  through a failed `find()` (`MetaInfo`) ends in the status "undefined",
  about which nothing more is said. In `Torrent` the text of a tracker may be
  truncated too: then the parser may throw, return anything, or lose the process
  (`BodyOutcomes`, `RunLost`). `send_keepalive` before a handshake and
  the overrun in `peer::ID(string_view)` are choices between the outcomes the
  build shows.
* **Kernel.** Linux TCP: a full send buffer blocks; SO_SNDTIMEO gives up one
  `::send`, which returns the part it accepted if any, and the next `::send` of
  the loop starts the timer again; a reset after a close leaves only EPIPE, and
  with it SIGPIPE, which ends the process. These actions, and those of the
  remote peer, are external to the repository.
* **Timeouts.** `enable_timeout` sets `tv_usec` to `(millis * 1000) % 1000`,
  which is always 0: `Timeout` is the whole seconds of `TimeoutMillis`. Below a
  second that would be no timeout at all; every caller passes 2000, and
  `SessionAssumption` asks for at least 1000.
* **The promise of a Peer.** `PeerChannel` says that a connection carries a
  handshake and then whole operations, one call at a time, and that a call which
  does not deliver gives the connection up; that a sending call ends is stated of
  the session (`SendEnds`), because it needs fairness. `PeerSession` implements
  the channel: an operation takes effect when the kernel copies its last unit, even if `send_message` has not returned
  by then; `written` is read off the units on the wire (`OnWire`): an operation is
  where its last unit is, with all the others before it (`Ending`); "failed" is
  a connection on which a call threw although `m_sock` is still engaged, "lost"
  a process that SIGPIPE ended. What is written on a failed connection is not
  promised anything.
* **The stream and the crash.** A flush writes through a `std::fstream`. How much
  of a piece reaches the file and how much stays in the buffer depends on the
  library, so every split into a prefix and a suffix is allowed; the next
  `seekp` writes the rest, and when that fails it is reported as a failure of
  the other piece. `Stop` may come at any moment, inside a download too: the
  stream's destructor may write any prefix of the buffer, or nothing after a
  crash. A restart opens what is there as it is and wants every piece again.
  The destination is only changed from outside while the program is down.
* **Bytes on the wire.** A 32 bit number is its four bytes, most significant
  first, whatever the host, and `LittleEndian` says which host it is. The
  reader of the stream (`ReadFrom`) stands for a peer that knows the encoding;
  it is part of the property, not of the program.
* **Hashes** are injective: a SHA1 value is the bytes it was taken of.
* **Sizes.** `PieceAssumption` says that no published piece is longer than the
  piece length and no answer longer than what was asked for: `MessagePiece`
  reads a fixed number of bytes (`peer_message.cpp:87-109`). `InRange` is what
  32 bit seeks (`piece.cpp:75`) and the loop over whole subpieces get right: less
  than 4 GiB, and pieces of whole subpieces. The run satisfies it, and the theorems
  about the file name it.
* **Unreadable files.** `metainfo_from_path` looks at `eof()` only, so a read error
  makes it append bytes for ever and the exception of `metainfo.cpp:42` is never
  reached. `LoadFails` and `Fill` model that loop; `ConstructorEnds` is a property
  of files that could be read and says nothing of it.
* **Tokens.** `BencodeAssumption`: a string is no bracket, and no string is the
  value that stands for "no key yet".
* **Integers.** `Torrent` narrows ports modulo `PortWord`, `PieceStore` seeks
  modulo `WordSize`, as the code's `uint16_t` and `uint32_t` do.

## Runs

| Run | Instance | Shows |
|---|---|---|
| `sock_ownership` | 3 peers, 3 descriptors, 2 addresses, symmetric | `SingleOwner`, `OwnedOpen`, `TalksToOwnPeer`, `CloseOnlyOwn`, `NoLeakOnceOwned`. Three peers are what a swap and a bystander need; a descriptor is reused as soon as it is closed, so three are enough for every confusion of two |
| `sock_leak` | same | **violated** `ExactlyOneManager`: a failed `connect()` leaks |
| `piece_store` | 2 pieces of 2 subpieces of 2 bytes, the last piece full or short, answers truthful, empty, short or wrong, any number of restarts | `UnverifiedIsComplete`, `HonestPieceIsPublished`, `FlushedNotLost`, `HonestPlaceInFile`, `SubpiecesSticky`, `FlushInPlace`, `BrokenStreamFreezesFile`. The first piece is published with zeros in front, so that verification can succeed despite `get_curr_hash` and flushes are reached, with two bytes to split between the file and the buffer |
| `piece_hash` | same | **violated** `CorrectPieceVerifies` |
| `peer_session` | parts of 2 units, a buffer of 3, 2500 ms (2 ticks), 12 units per connection (a handshake and a request), 1 unread unit | `Framed`, `SendBlockedBounded`, `TimeoutIffInCall`, `ChannelImplemented`, `SendEnds`. The buffer is larger than a part and no multiple of it, so a block happens before, inside and after a part; a handshake replaces a connection any number of times |
| `recv_timeout` | same, 1 tick | **violated** `RecvEnds`, under the fairness below |
| `metainfo` | all token sequences up to length 5 over six tokens; torrent files with every key right, of a wrong type or missing, and `info` last, not last, repeated, or followed by another object; a file that cannot be opened or read | `ParsesExactlyOne` (against a grammar stated without a parser), `ConstructedIffComplete`, `InfohashRightWhenLast`, `ConstructorEnds` |
| `infohash` | same | **violated** `InfohashIsOfInfo` |
| `torrent` | 2 jobs, 2 peers added by the client, of any address, known ones and ourselves included; responses with every single fault and some with two, a truncated text among them; port 4 equal to ours after narrowing | `AnswerSound`, `KnownPeersKept`. Two peers are one that is known and one that may be merged over it; the responses have one fault each, or a bad entry and another, so that the order of the checks matters |
| `peers_learned` | same, only compact answers, which reach no undefined behaviour | **violated** `PeersLearned` |
| `wire` | up to 3 messages of every type, two numbers whose bytes equal message types and limits, data as long as the reader assumes or not; compact lists of up to two entries and torn ones; a little endian host | `StreamDeterminesMessages`, `CompactPeersRead`. Three messages are one whose end may be misread, one that is read from there, and one behind it |
| `wire_request` | same, 1 message | **violated** `RequestInNetworkOrder` |

The violated properties are sentences of the repository's own comments; what
the code does instead is in `PROJECT.json`, "findings". `KnownPeersKept` holds
today because the merge never appends. It is kept because an obvious repair
breaks it: replacing a known peer by its new version would drop its connection
(`MergeReplaces`).

`tracker.hpp:60` says that `send_request` returns the peers if successful and
throws if not. `AnswerSound` is what the code keeps of that: a call that the
tracker answered has returned only for an answer without a fault and with its
peers, has thrown only for one with a fault, and is undefined only behind a
truncated text or a classic peer list. `CompactPeersRead` is the same for the bytes
of a compact list: exactly the torn ones are refused. `TimeoutIffInCall` looks at
each of the four places that remove SO_SNDTIMEO (`smolsocket.cpp:152`, 157, 169,
174): one forgotten would leave the timeout to the next call (`RecvFailsArmed`).

Two comments of `smolsocket.hpp` are looser than what holds, and what does hold
is stated instead. Line 66 promises an exception when a transfer does not
complete in time; since every `::send` starts the timer again, a transfer that
makes progress is blocked for up to one timeout per unit (`SendBlockedBounded`).
And a call to a peer that is gone may end the process rather than throw:
`PeerChannel` has both in `GiveUp`.

Bounds: `MaxOut`, `MaxIn` (PeerSession), `MaxJobs`, `MaxPeers` (Torrent) and
`MaxMessages` (Wire) stop counters that the code does not bound; they only stop
new calls, never a call that is running, so no behaviour is cut in the middle.
`MaxOut = 12` has room for one request behind a handshake. Any number of them
is what `StreamFramed` is proved for.

Deadlock is checked for `sock_ownership`, `piece_store` and `wire`. It is not for
`peer_session` and `torrent`, where the process may be gone (SIGPIPE; the
overrun), nor for `metainfo`, where the constructor ends.

**Fairness.** `PeerSession` assumes weak fairness of the running `::send` and
of the running `::recv`: the only thread runs on when it can, the kernel copies
into a buffer that has room, and a timer that was started runs down. Nothing
is assumed of the remote peer (it may never read, send or close) nor of the
client's wish to call. `MetaInfo` assumes weak fairness of the thread that
runs the constructor.

## Proofs

Every invariant and action property of the passing runs, and the refinement, is
a theorem for all values of the constants that satisfy the named assumptions.
`tlapm` checks every step. Each proof has an inductive invariant `IInv`: it
holds initially, every action preserves it, and it implies the property.

`SockOwnershipProofs`, for any sets of peers, descriptors and addresses,
assuming only that the sentinels (`"dead"`, `"nosock"`, ...) are no
descriptors or addresses (`SentinelsAssumption`):
`TypeCorrect`, `OneOwner`, `HeldIsOpen`, `OwnConnection`, `ClosedByHolder`,
`HeldUntilClosed`. The four invariants are inductive only together (`IInv`):
that a new descriptor is not already held follows from `OwnedOpen`; that
closing one disturbs no other peer follows from `SingleOwner`; that a
connection stays its peer's needs both. The two action properties are one step
of the same invariant.

`PieceStoreProofs`, for any number and size of pieces, any published file and
any answers, from `PieceAssumption`. `UnverifiedIsComplete` (`HadIsComplete`)
is not inductive: the strengthening adds `Loop`, that the running download has
passed only subpieces that are there. Three more conjuncts speak of the slots of
a piece: `HonestSlots`, that a slot holds what was published for it; `InOrder`,
that slots fill from the first on; `ShortSlots`, that none holds more than was
asked for.
- `HonestPiecesArePublished`: the bytes of a piece are the concatenation of its
  slots, so `HonestPrefix` shows by induction that the first m slots are the
  beginning of the published piece. `InOrder` is what excludes a hole in the
  middle, and `InRange` what makes the slots cover the piece.
- `TypeCorrect`, `FlushStaysInPlace`, `HonestFile`, `FlushedStays`: what matters
  is not the file but `Drained`, the file once the stream's buffer is written.
  One lemma per action of the stream (`FlushEffect`, `FlushFailsEffect`,
  `StopEffect`, `ConstructEffect`) says which bytes of the file and of `Drained`
  it changes, for every split of what it writes; `SplitWrite` is the fact
  about a split they share. A byte belongs to one piece only (`Places`), so a
  flush cannot touch a neighbour's. `HonestDisk` strengthens `HonestPlaceInFile`
  to the file and `Drained`, because a later seek may write the buffer and a crash
  may lose it; `ShortFlushed` keeps what was flushed inside its piece.
- The first of these and the last three need `InRange`, as the code does: a
  torrent above 4 GiB seeks to the wrong place (`piece.cpp:75`).

`PeerSessionProofs`, for any part length, send buffer, timeout and bounds, from
`SessionAssumption`: `TypeCorrect`, `BlockedBounded`, `TimeoutInCall` and
`StreamFramed`. The type of `waited` and `SendBlockedBounded` need each other and
`Counted`: a tick is only added when a unit is still missing, and when the
timer is started again at least one unit was counted for it. `Framed` is not
inductive: `InPlace` says how long the stream is for the part and the count that
the running `::send` has reached (`Offset`), and that between calls it ends where
an operation does (`Boundary`). The position of a request in the stream is a
remainder, so two lemmas about division come first.

`PeerChannelProofs`: `SessionImplementsChannel`, the refinement. `WholeOfAppend`
and `WholeOfCopy` say what one more unit does to the operations read off the
stream: nothing, unless it is the last of the operation in hand. With that every
action of `PeerSession` is one step of `PeerChannel` or shows nothing, one lemma
each: `Handshake` connects, `SendMessage` begins, the copy of the last unit
delivers, a failure gives up, SIGPIPE gives up or loses, everything else
stutters. The invariant adds to the session's that a connection with the length
of a handshake on it carries an operation (`Begun`), which is what allows
`send_message` to begin.

`TorrentProofs`, for any ports, responses and numbers, from `TorrentAssumption`:
`TypeCorrect`, `AnswersSound`, `PeersKept`. `FirstFound` says what a row of checks
returns, and `RequestOk` that `send_request` returns exactly when the parser does
and no field has a fault; `AnswerSound` is part of the invariant and relates that
to how the call ended. The invariant also has `Numbered`, that no object in the list
has a higher number than its place, whatever the client adds: the peers of an
answer are therefore objects the list does not have, and the merge passes each over
(`MergedKeeps`, by induction over the loop). That is also why the initial peer
list is lost (`peers_learned`).

`MetaInfoProofs`, for any strings and any inputs, from `BencodeAssumption`:
- `TypeCorrect`, `Complete`, `InfohashRight`. Objects nest without a bound, so the
  invariant says of each only where it starts and ends (`ParserOK`), and of a
  value in a dictionary that it ends before the dictionary does: that is what
  leaves exactly one character behind the info dictionary. `Found` says what
  the reads so far have established. `Complete` requires of `length` only that it
  is there, as `metainfo.cpp:78` does, and says when the length of the file is
  known.
- `ExactlyOneParsed`: the call stack is related to the brackets of the input
  (`Going`). Frame i belongs to the bracket that raises the depth to i and is not
  closed since (`Nested`); every other bracket is closed, and fine if it is a
  dictionary's (`Matched`); and `take_dict` holds a key exactly after an odd
  number of elements, each odd one of them a string (`Keys`). When the parser
  throws or runs out of input, `KeyRefused`, `EndRefused` and `EndsLater` show
  that no continuation would have made the input an encoding.

`WireProofs`, for any numbers, data, lists and number of messages, on either
kind of host, from `WireAssumption`: `TypeCorrect`, `ListsRead`, `StreamIsRead`.
`ListsRead` has the addresses on every host, and the ports on a little endian one:
`ntoh` takes the first byte as the low one and leaves it to `ntohs` to swap them. `NumberOfField` says that a 32 bit field loses nothing. The invariant knows where
each message starts on the stream (`Starts`). `MessageRead` says that a reader at
such a place takes exactly that message, and an induction from the last
message to the first that it reads them all.

`DataLemmas`: the library states induction for an operator, which the provers
cannot instantiate. Here it is derived for sets, from < being well-founded on
Nat; with it the recursive functions behind `FlattenSeq`, `Merged` and
`ReadFrom` are shown to exist and unfolded.

Only model-checked: liveness (`SendEnds`, `ConstructorEnds`),
which the provers do not reach because it rests on fairness. The violated
properties are false, and have counterexamples instead.

## Not modelled

* The constructor of `MessagePiece` that reads from a socket, and `arr_to_int`:
  they are never reached, because `Sock::recv` returns an empty vector and the
  type byte is asked for first.
* HTTP, the wording of the tracker's URL, hexadecimal output, logging, the check
  of `main`'s argument count: input, output and formatting.
* Name resolution with more than one address: the code uses the first.
* Another process that works on the destination while the program runs.

## Plan

Done, in order of importance: ownership of sockets, pieces, the session with a
peer, parsing, the peer list; `PeerChannel` and its refinement; restarts and the
buffered stream; `Wire`; proofs of every safety property the runs check.

Next:

1. A composition of `Torrent`, `PieceStore` and `PeerSession` for a whole
   download, from the tracker's answer to the flushed file. Behind today's
   `Sock::recv` it would show only that no download ends.
2. `PieceStore` with a word that wraps, for the seek beyond 4 GiB.
3. A shorter statement of what `PieceStore` promises its client (a published file
   with holes) with `PieceStore` shown to implement it, as `PeerChannel` is for
   the session.
