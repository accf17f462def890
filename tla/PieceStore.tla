---------------------------- MODULE PieceStore ----------------------------
(* The pieces of one torrent, the job that downloads a piece, the job that *)
(* verifies it, the job that flushes it to the file, and the file, over    *)
(* several runs of the program: it may end at any moment, and start again.  *)
(*                                                                         *)
(* Jobs run one at a time on one thread, so what matters is where a job    *)
(* stops: an exception leaves everything it did so far in place for the    *)
(* next job.  A download is one action per subpiece for that reason.       *)
(* Bytes are members of Units; a SHA1 value is represented by the bytes it *)
(* is taken of (no collisions); the 32 bit arithmetic of piece.cpp is done *)
(* modulo WordSize.  What Peer::wait_for_message may return is a parameter *)
(* (Forgeries, and the published bytes when CanAnswer): PeerSession shows  *)
(* that in this revision it never returns at all, which is the instance    *)
(* with CanAnswer = FALSE and Forgeries = {}.                              *)
EXTENDS Naturals, Sequences, SequencesExt

CONSTANTS
    NumPieces,      \* number of hashes in the metainfo file
    PieceLength,    \* MetaInfo::m_piece_length
    SubpieceSize,   \* peer::Request_Subpiece_Size
    WordSize,       \* 2^32
    Units, Zero,    \* byte values, and the one vector::resize fills with
    Contents,       \* the published files considered, one sequence per piece
    CanAnswer,      \* may a peer answer with the bytes it was asked for?
    Forgeries,      \* payloads a peer may answer with whatever it was asked
    Missing, Hole   \* a std::nullopt subpiece; a byte of the file that no
                    \* flush of this program wrote

Pieces == 0..(NumPieces - 1)
Size == PieceLength % WordSize
NumSubpieces == (Size \div SubpieceSize)
                  + (IF Size % SubpieceSize # 0 THEN 1 ELSE 0)
Subpieces == 1..NumSubpieces    \* index i is the code's subpiece_idx i - 1
Positions == 0..(NumPieces * (PieceLength + SubpieceSize))
States == {"Want", "HaveUnverified", "HaveVerified", "Unwanted"}
Idle == [piece |-> 0, next |-> 0]
Pending(pos, bytes) == [pos |-> IF bytes = <<>> THEN 0 ELSE pos, bytes |-> bytes]
Nothing == Pending(0, <<>>)

ASSUME PieceAssumption ==
    /\ NumPieces \in Nat \ {0} /\ PieceLength \in Nat \ {0}
    /\ SubpieceSize \in Nat \ {0} /\ WordSize \in Nat \ {0}
    /\ Zero \in Units /\ Hole \notin Units /\ Missing \notin Seq(Units)
    /\ Contents \subseteq [Pieces -> Seq(Units)]
    /\ \A c \in Contents, p \in Pieces : Len(c[p]) <= PieceLength
    \* wait_for_message reads a piece message of Request_Subpiece_Size bytes
    /\ Forgeries \subseteq Seq(Units)
    /\ \A data \in Forgeries : Len(data) <= SubpieceSize
    /\ CanAnswer \in BOOLEAN

\* The torrents piece.cpp gets right: less than 4 GiB, and pieces of whole
\* subpieces (those of every common torrent are a power of two).
InRange ==
    /\ NumPieces * PieceLength < WordSize
    /\ PieceLength % SubpieceSize = 0

VARIABLES
    content,    \* what was published: fixes each piece's m_expected_hash
    up,         \* the program runs, and has constructed its Torrent
    path,       \* what is at the destination: "absent", "file" or "other"
    state,      \* Piece::m_state
    subs,       \* Piece::m_subpieces
    job,        \* the running PieceDownloadJob: its piece and loop position
    file,       \* the bytes of the file
    buffer,     \* the end of the last write, still in the std::fstream
    fileBad,    \* a failure bit is set on the std::fstream
    flushed,    \* history: what the last flush of a piece, if it returned, wrote
    forged      \* history: pieces that were given bytes other than published

pieces == <<state, subs, job>>
disk   == <<up, path, file, buffer, fileBad, flushed>>
vars   == <<content, pieces, disk, forged>>

MemoryOK ==
    /\ content \in Contents
    /\ state \in [Pieces -> States]
    /\ subs \in [Pieces -> [Subpieces -> Seq(Units) \cup {Missing}]]
    /\ job \in [piece : Pieces, next : 0..(NumSubpieces + 1)]
    /\ up \in BOOLEAN /\ path \in {"absent", "file", "other"}
    /\ fileBad \in BOOLEAN
    /\ forged \subseteq Pieces

TypeOK ==
    /\ MemoryOK
    /\ file \in [Positions -> Units \cup {Hole}]
    /\ buffer \in [pos : Nat, bytes : Seq(Units)]
    /\ flushed \in [Pieces -> Seq(Units)]

Running == job # Idle
Ready == up /\ ~Running
Present(p, i) == subs[p][i] # Missing
Complete(p) == \A i \in Subpieces : Present(p, i)

\* Slip of Dumped: a subpiece that is not there is written all the same.
DumpedUnchecked(s) ==
    FlattenSeq([i \in Subpieces |-> IF s[i] = Missing THEN <<Missing>> ELSE s[i]])

\* What flush_to_disk writes: the subpieces that are there, one after another.
Dumped(s) == FlattenSeq([i \in Subpieces |-> IF s[i] = Missing THEN <<>> ELSE s[i]])

Zeros(n) == [i \in 1..n |-> Zero]

\* What get_curr_hash hashes: the buffer is resized by the length of a
\* subpiece, and then the subpiece is inserted after the new zeros.
Hashed(s) ==
    FlattenSeq([i \in Subpieces |->
                  IF s[i] = Missing THEN <<>> ELSE Zeros(Len(s[i])) \o s[i]])

HashesMatch(p) == Hashed(subs[p]) = content[p]

\* Slip of BeginOf: a one-based offset.
BeginOfNext(i) == i * SubpieceSize

\* The begin and length fields of the MessageRequest for a subpiece.
BeginOf(i) == (i - 1) * SubpieceSize

\* The bytes a truthful peer returns for that request: what there is of them.
Answer(p, i) ==
    LET end == BeginOf(i) + SubpieceSize
        len == Len(content[p])
    IN  SubSeq(content[p], BeginOf(i) + 1, IF end < len THEN end ELSE len)

\* Slip of SeekPos: every piece seeks as if it were one piece further on.
SeekPosNext(p) == ((p + 1) * Size) % WordSize

\* flush_to_disk: m_idx * m_size in std::uint32_t.
SeekPos(p) == (p * Size) % WordSize

Onto(f, pos, bytes) ==
    [x \in Positions |->
        IF pos <= x /\ x < pos + Len(bytes) THEN bytes[x - pos + 1] ELSE f[x]]

Upto(bytes, n)  == SubSeq(bytes, 1, n)
After(bytes, n) == SubSeq(bytes, n + 1, Len(bytes))

\* The file once what is in the buffer was written to it.
Drained == Onto(file, buffer.pos, buffer.bytes)

----------------------------------------------------------------------------
\* Torrent::Torrent: every piece is wanted, all have m_piece_length, and the
\* stream is a new one.
Constructed ==
    /\ state' = [p \in Pieces |-> "Want"]
    /\ subs' = [p \in Pieces |-> [i \in Subpieces |-> Missing]]
    /\ job' = Idle
    /\ buffer' = Nothing
    /\ fileBad' = FALSE
    /\ flushed' = [p \in Pieces |-> <<>>]

\* Before the first run.  While the program is down its memory has no meaning
\* and is given the value the constructor will give it.
Init ==
    /\ content \in Contents
    /\ up = FALSE
    /\ path \in {"absent", "file", "other"}
    /\ state = [p \in Pieces |-> "Want"]
    /\ subs = [p \in Pieces |-> [i \in Subpieces |-> Missing]]
    /\ job = Idle
    /\ file = [x \in Positions |-> Hole]
    /\ buffer = Nothing
    /\ fileBad = FALSE
    /\ flushed = [p \in Pieces |-> <<>>]
    /\ forged = {}

\* Torrent::Torrent and file_open_or_create: a file that is there is opened as
\* it is, and is neither read nor cut off; else an empty one is made.
Construct ==
    /\ ~up /\ path # "other"
    /\ up' = TRUE /\ path' = "file"
    /\ file' = IF path = "file" THEN file ELSE [x \in Positions |-> Hole]
    /\ Constructed
    /\ UNCHANGED <<content, forged>>

\* The destination is neither a regular file nor a symlink, or it cannot be
\* opened: the constructor throws.
ConstructFails == ~up /\ UNCHANGED vars

\* The program ends, by a return, by an exception or by a crash, whatever runs.
\* The stream's destructor tries to write what is in the buffer and reports no
\* error; after a crash nobody does.
Stop ==
    /\ up
    /\ up' = FALSE
    /\ \E n \in 0..Len(buffer.bytes) :
         file' = Onto(file, buffer.pos, Upto(buffer.bytes, n))
    /\ Constructed
    /\ UNCHANGED <<content, path, forged>>

\* Between two runs the user removes the file, or puts something else there.
PathChanges ==
    /\ ~up
    /\ path' \in {"absent", "other"}
    /\ file' = [x \in Positions |-> Hole]
    /\ UNCHANGED <<content, up, pieces, buffer, fileBad, flushed, forged>>

\* PieceDownloadJob::process finds a peer and the piece.
BeginDownload(p) ==
    /\ Ready
    /\ job' = [piece |-> p, next |-> 1]
    /\ UNCHANGED <<content, state, subs, disk, forged>>

\* m_peers.at(0) throws: there is no peer.
DownloadWithoutPeer(p) == Ready /\ UNCHANGED vars

\* The loop passes over a subpiece that is already there.
SkipPresent ==
    /\ Running /\ job.next \in Subpieces /\ Present(job.piece, job.next)
    /\ job' = [piece |-> job.piece, next |-> job.next + 1]
    /\ UNCHANGED <<content, state, subs, disk, forged>>

\* What wait_for_message may return to the request for a subpiece.
Replies(p, i) == Forgeries \cup (IF CanAnswer THEN {Answer(p, i)} ELSE {})

Awaiting == Running /\ job.next \in Subpieces /\ ~Present(job.piece, job.next)

\* Request, wait, store.  The index and offset the answer carries are not
\* looked at: whatever arrives is stored as the subpiece that was asked for.
StoreAnswer ==
    /\ Awaiting
    /\ \E data \in Replies(job.piece, job.next) :
         /\ subs' = [subs EXCEPT ![job.piece][job.next] = data]
         /\ forged' = IF CanAnswer /\ data = Answer(job.piece, job.next)
                      THEN forged ELSE forged \cup {job.piece}
    /\ job' = [piece |-> job.piece, next |-> job.next + 1]
    /\ UNCHANGED <<content, state, disk>>

\* Slip of FinishDownload: the loop ends one subpiece early.
FinishDownloadEarly ==
    /\ Running /\ job.next >= NumSubpieces
    /\ state' = [state EXCEPT ![job.piece] = "HaveUnverified"]
    /\ job' = Idle
    /\ UNCHANGED <<content, subs, disk, forged>>

\* Slip of DownloadThrows: an exception that drops what was fetched so far.
DownloadThrowsAndDrops ==
    /\ Awaiting
    /\ job' = Idle
    /\ subs' = [subs EXCEPT ![job.piece] = [i \in Subpieces |-> Missing]]
    /\ UNCHANGED <<content, state, disk, forged>>

\* send_message or wait_for_message throws: process() is left at once.
DownloadThrows ==
    /\ Awaiting
    /\ job' = Idle
    /\ UNCHANGED <<content, state, subs, disk, forged>>

\* The loop is through; the previous state of the piece does not matter.
FinishDownload ==
    /\ Running /\ job.next > NumSubpieces
    /\ state' = [state EXCEPT ![job.piece] = "HaveUnverified"]
    /\ job' = Idle
    /\ UNCHANGED <<content, subs, disk, forged>>

\* PieceVerificationJob::process, on a piece in any state.  A mismatch is
\* logged and changes nothing.
Verify(p) ==
    /\ Ready
    /\ state' = IF HashesMatch(p) THEN [state EXCEPT ![p] = "HaveVerified"] ELSE state
    /\ UNCHANGED <<content, subs, job, disk, forged>>

\* PieceFlushJob::process throws before it touches the file, or
\* f->exceptions() does because an earlier failure is still set.
FlushRefused(p) ==
    /\ Ready
    /\ state[p] # "HaveVerified" \/ fileBad
    /\ UNCHANGED vars

\* Slip of Flush: the stream's failure bits are cleared first.
FlushClears(p) ==
    /\ Ready /\ state[p] = "HaveVerified"
    /\ file' = Onto(Drained, SeekPos(p), Dumped(subs[p]))
    /\ buffer' = Nothing /\ fileBad' = FALSE
    /\ UNCHANGED <<content, up, path, pieces, flushed, forged>>

\* Slip of Flush: seeking drops what the stream had not written yet.
FlushDrops(p) ==
    LET bytes == Dumped(subs[p]) IN
    /\ Ready /\ state[p] = "HaveVerified" /\ ~fileBad
    /\ \E n \in 0..Len(bytes) :
         /\ file' = Onto(file, SeekPos(p), Upto(bytes, n))
         /\ buffer' = Pending(SeekPos(p) + n, After(bytes, n))
    /\ flushed' = [flushed EXCEPT ![p] = bytes]
    /\ UNCHANGED <<content, up, path, pieces, fileBad, forged>>

\* PieceFlushJob::process and Piece::flush_to_disk: seekp writes what is in the
\* buffer first, then some or all of the piece goes to the file and the rest
\* stays in the buffer.
Flush(p) ==
    LET bytes == Dumped(subs[p]) IN
    /\ Ready /\ state[p] = "HaveVerified" /\ ~fileBad
    /\ \E n \in 0..Len(bytes) :
         /\ file' = Onto(Drained, SeekPos(p), Upto(bytes, n))
         /\ buffer' = Pending(SeekPos(p) + n, After(bytes, n))
    /\ flushed' = [flushed EXCEPT ![p] = bytes]
    /\ UNCHANGED <<content, up, path, pieces, fileBad, forged>>

\* seekp fails to write the buffer, which holds the end of another piece.
SeekFails ==
    \E n \in 0..Len(buffer.bytes) :
        /\ file' = Onto(file, buffer.pos, Upto(buffer.bytes, n))
        /\ buffer' = Pending(buffer.pos + n, After(buffer.bytes, n))

\* write fails: a prefix reached the file, and a part of the rest the buffer.
WriteFails(p) ==
    LET bytes == Dumped(subs[p]) IN
    \E m \in 0..Len(bytes) : \E n \in 0..m :
        /\ file' = Onto(Drained, SeekPos(p), Upto(bytes, n))
        /\ buffer' = Pending(SeekPos(p) + n, SubSeq(bytes, n + 1, m))

\* seekp or write fails, and nothing ever clears the stream's failure bits.
FlushFails(p) ==
    /\ Ready /\ state[p] = "HaveVerified" /\ ~fileBad
    /\ SeekFails \/ WriteFails(p)
    /\ fileBad' = TRUE
    /\ UNCHANGED <<content, up, path, pieces, flushed, forged>>

Next ==
    \/ Construct \/ ConstructFails \/ Stop \/ PathChanges
    \/ \E p \in Pieces : \/ BeginDownload(p) \/ DownloadWithoutPeer(p)
                         \/ Verify(p)
                         \/ FlushRefused(p) \/ Flush(p) \/ FlushFails(p)
    \/ SkipPresent
    \/ StoreAnswer
    \/ DownloadThrows
    \/ FinishDownload

Spec == Init /\ [][Next]_vars

----------------------------------------------------------------------------
\* A piece is marked as had only when every subpiece of it has arrived, in
\* however many aborted and resumed downloads that took (piece.hpp:20).
UnverifiedIsComplete ==
    \A p \in Pieces : state[p] = "HaveUnverified" => Complete(p)

\* A piece that only ever got truthful answers and is marked as had holds
\* exactly the published bytes: the offset that is requested, the slot that is
\* filled and the order in which the slots are written agree, over retries.
HonestPieceIsPublished ==
    \A p \in Pieces : state[p] = "HaveUnverified" /\ p \notin forged
                        => Dumped(subs[p]) = content[p]

\* Nothing that arrived is dropped or replaced while the program runs: a
\* download never fetches a subpiece twice, and none of the failures rolls back.
SubpiecesSticky ==
    [][up /\ up' => \A p \in Pieces, i \in Subpieces :
         Present(p, i) => subs'[p][i] = subs[p][i]]_vars

\* What the file holds once the buffer is written changes only inside the
\* place of a piece that is verified at that moment, or goes back to what the
\* file held when the buffer is lost: a flush, complete or failed half way, and
\* the end of the program never touch a neighbour (piece.cpp:72).
FlushInPlace ==
    [][up => \A x \in Positions :
         \/ Drained'[x] \in {Drained[x], file[x]}
         \/ \E p \in Pieces :
              /\ state[p] = "HaveVerified"
              /\ p * PieceLength <= x /\ x < (p + 1) * PieceLength]_vars

\* A flush that returned is not undone: until one fails or the program ends,
\* its bytes are in the file or in the buffer, in the place of the piece, and
\* no seek or flush of another piece loses them.
FlushedNotLost ==
    up /\ ~fileBad => \A p \in Pieces : \A k \in 1..Len(flushed[p]) :
        Drained[p * PieceLength + k - 1] = flushed[p][k]

\* Whatever downloads were aborted, flushes failed and runs crashed, in the
\* place of a piece that never got a false answer there is nothing of this
\* program but published bytes at their published offsets.
HonestPlaceInFile ==
    \A p \in Pieces \ forged : \A k \in 1..PieceLength :
        LET byte == file[p * PieceLength + k - 1]
        IN  byte # Hole => k <= Len(content[p]) /\ byte = content[p][k]

\* One failed flush ends all flushing of the run, for every piece: the failure
\* bits make every later one throw before it writes (piece.cpp:73).
BrokenStreamFreezesFile ==
    [][up /\ up' /\ fileBad => fileBad' /\ file' = file]_vars

\* piece.hpp:67 "Verifies the hash of an already downloaded piece. The state
\* of the piece is set accordingly.": a piece that holds the published bytes
\* passes.
CorrectPieceVerifies ==
    \A p \in Pieces : Complete(p) /\ Dumped(subs[p]) = content[p] => HashesMatch(p)
============================================================================
