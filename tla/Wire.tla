------------------------------- MODULE Wire -------------------------------
(* What the program puts on the wire for a peer, and what it reads out of  *)
(* a tracker's compact peer list: MessageX::serialize and get_type,        *)
(* bo::hton, ntoh and int_to_arr, bep52_peer_str_to_peers and ip_to_str.    *)
(*                                                                         *)
(* A std::uint32_t is its four bytes, the most significant first, whatever  *)
(* the host: hton then reverses the value on a little endian host.  All of  *)
(* this is pure; the state is the stream of one connection, because what    *)
(* can go wrong needs several messages: nothing marks where one ends.       *)
EXTENDS Naturals, Sequences, SequencesExt, Functions

CONSTANTS
    LittleEndian,   \* is the host's byte order little endian?
    Numbers,        \* values of the std::uint32_t fields considered
    Payloads,       \* piece data considered
    PieceLen,       \* the length a reader assumes a piece to have
    PeerStrings,    \* compact peer lists considered
    MaxMessages     \* bound: messages on one connection

Byte == 0..255
Port == 0..(256 * 256 - 1)
Word == [1..4 -> Byte]

ASSUME WireAssumption ==
    /\ LittleEndian \in BOOLEAN
    /\ Numbers \subseteq Word
    /\ Payloads \subseteq Seq(Byte) /\ PeerStrings \subseteq Seq(Byte)
    /\ PieceLen \in Nat /\ MaxMessages \in Nat

----------------------------------------------------------------------------
(* byteorder.cpp                                                           *)
hton(x) == IF LittleEndian THEN Reverse(x) ELSE x

\* Slip of int_to_arr: the first byte is taken four times, as in arr_to_int.
IntToArrFirst(x) == [i \in 1..4 |-> 255 - x[1]]

\* Slip of int_to_arr: the word is negated, and no byte cut off.
IntToArrNegated(x) == [i \in 1..4 |-> 256 - x[i]]

\* Each byte is XORed, not ANDed, with 0xFF and the others are cut off: the
\* bytes come out complemented.
int_to_arr(x) == [i \in 1..4 |-> 255 - x[i]]

\* Slip of ntoh: the bytes are taken to be in host order already.
NtohUnswapped(a) == a[1] + 256 * a[2]

\* The first byte becomes the low one, and ntohs swaps them back on a little
\* endian host.
ntoh(a) == IF LittleEndian THEN 256 * a[1] + a[2] ELSE a[1] + 256 * a[2]

Field(x) == int_to_arr(hton(x))

----------------------------------------------------------------------------
(* peer_message.cpp                                                        *)
Code == [Choke |-> 0, Unchoke |-> 1, Interested |-> 2, NotInterested |-> 3,
         Request |-> 6, Piece |-> 7]

Plain == {"Choke", "Unchoke", "Interested", "NotInterested"}

Message ==
    [type : Plain]
      \cup [type : {"Request"}, piece_idx : Numbers, begin_offset : Numbers,
            length : Numbers]
      \cup [type : {"Piece"}, piece_idx : Numbers, begin_offset : Numbers,
            data : Payloads]

RequestBytes(m) == Field(m.piece_idx) \o Field(m.begin_offset) \o Field(m.length)

\* The data is inserted at the front of the vector, before the two fields.
PieceBytes(m) == m.data \o Field(m.piece_idx) \o Field(m.begin_offset)

serialize(m) == CASE m.type \in Plain -> <<>>
                  [] m.type = "Request" -> RequestBytes(m)
                  [] m.type = "Piece" -> PieceBytes(m)

\* Peer::send_message: the type byte and the payload, and no length.
MessageBytes(m) == <<Code[m.type]>> \o serialize(m)

----------------------------------------------------------------------------
(* bep52_peer_str_to_peers                                                 *)
Digits(b) == IF b < 10 THEN 1 ELSE IF b < 100 THEN 2 ELSE 3

\* inet_ntop needs room for the text and its '\0'; the buffer is sized by the
\* 16 bytes of a binary IPv6 address, and an exception is thrown otherwise.
BufferSize == 17
FitsBuffer(ip) ==
    Digits(ip[1]) + Digits(ip[2]) + Digits(ip[3]) + Digits(ip[4]) + 3 < BufferSize

EntryAt(s, i) == SubSeq(s, i + 1, i + 6)

\* The loop over the string, six bytes a turn.  An address is its four bytes,
\* which determine the text that ip_to_str makes of them.
Parsed(s) ==
    [k \in 1..(Len(s) \div 6) |->
       LET e == EntryAt(s, 6 * (k - 1))
       IN  [ip |-> SubSeq(e, 1, 4), port |-> ntoh(SubSeq(e, 5, 6))]]

\* A length that is no multiple of six throws, an address that does not fit
\* the buffer does, and the peers before it are lost with the vector.
Throws(s) == Len(s) % 6 # 0 \/ \E k \in DOMAIN Parsed(s) : ~FitsBuffer(Parsed(s)[k].ip)

----------------------------------------------------------------------------
VARIABLES
    sent,       \* history: the messages given to Peer::send_message
    stream,     \* the bytes they put on the connection
    peer_str,   \* history: the tracker's last compact list
    peers,      \* the peers that were read from it
    threw       \* the parser threw, and returned none

vars == <<sent, stream, peer_str, peers, threw>>

TypeOK ==
    /\ sent \in Seq(Message) /\ Len(sent) <= MaxMessages
    /\ stream \in Seq(Byte)
    /\ peer_str \in PeerStrings \cup {<<>>}
    /\ peers \in Seq([ip : Word, port : Port])
    /\ threw \in BOOLEAN

Init ==
    /\ sent = <<>> /\ stream = <<>>
    /\ peer_str = <<>> /\ peers = <<>> /\ threw = FALSE

Send(m) ==
    /\ Len(sent) < MaxMessages
    /\ sent' = Append(sent, m)
    /\ stream' = stream \o MessageBytes(m)
    /\ UNCHANGED <<peer_str, peers, threw>>

ParsePeers(s) ==
    /\ peer_str' = s
    /\ threw' = Throws(s)
    /\ peers' = IF Throws(s) THEN <<>> ELSE Parsed(s)
    /\ UNCHANGED <<sent, stream>>

Next ==
    \/ \E m \in Message : Send(m)
    \/ \E s \in PeerStrings : ParsePeers(s)

Spec == Init /\ [][Next]_vars

----------------------------------------------------------------------------
(* A reader that knows the encoding, and like                              *)
(* blocking_read_message_from_socket assumes every piece to have PieceLen   *)
(* bytes of data (peer_message.cpp:16).                                    *)
Number(bytes) == hton([i \in 1..4 |-> 255 - bytes[i]])

TypeOf(code) == CHOOSE t \in DOMAIN Code : Code[t] = code

SizeOf(code) == CASE code \in Range([t \in Plain |-> Code[t]]) -> 1
                  [] code = Code["Request"] -> 1 + 12
                  [] code = Code["Piece"] -> 1 + PieceLen + 8

Understood(b) ==
    CASE TypeOf(b[1]) \in Plain -> [type |-> TypeOf(b[1])]
      [] TypeOf(b[1]) = "Request" ->
           [type |-> "Request", piece_idx |-> Number(SubSeq(b, 2, 5)),
            begin_offset |-> Number(SubSeq(b, 6, 9)), length |-> Number(SubSeq(b, 10, 13))]
      [] TypeOf(b[1]) = "Piece" ->
           [type |-> "Piece", data |-> SubSeq(b, 2, PieceLen + 1),
            piece_idx |-> Number(SubSeq(b, PieceLen + 2, PieceLen + 5)),
            begin_offset |-> Number(SubSeq(b, PieceLen + 6, PieceLen + 9))]

Garbled == [type |-> "garbled"]

\* The messages from byte k of the stream on.
ReadFrom[k \in 1..(Len(stream) + 1)] ==
    LET size == IF stream[k] \in Range(Code) THEN SizeOf(stream[k]) ELSE Len(stream) + 1
    IN  IF k > Len(stream) THEN <<>>
        ELSE IF k + size - 1 > Len(stream) THEN <<Garbled>>
        ELSE <<Understood(SubSeq(stream, k, k + size - 1))>> \o ReadFrom[k + size]

\* Although no message carries its length, the stream determines the messages
\* that were sent, in order and with every field, as long as each piece has the
\* length the reader assumes (peer_message.cpp:16 FIXME).  The complement and
\* the byte order of the fields lose nothing.
StreamDeterminesMessages ==
    (\A i \in DOMAIN sent : sent[i].type = "Piece" => Len(sent[i].data) = PieceLen)
      => ReadFrom[1] = sent

\* A compact list is refused exactly when it is torn, and then no peer of it is
\* kept; no IPv4 address is too long for the buffer of ip_to_str.  A list of
\* whole entries gives each entry's peer its own address, and on a little endian
\* host its own port, in network byte order.
CompactPeersRead ==
    /\ threw <=> Len(peer_str) % 6 # 0
    /\ threw => peers = <<>>
    /\ ~threw =>
        /\ Len(peers) * 6 = Len(peer_str)
        /\ \A i \in DOMAIN peer_str :
             LET p == peers[((i - 1) \div 6) + 1]
                 j == ((i - 1) % 6) + 1
             IN  /\ j <= 4 => p.ip[j] = peer_str[i]
                 /\ LittleEndian /\ j = 5 => p.port \div 256 = peer_str[i]
                 /\ LittleEndian /\ j = 6 => p.port % 256 = peer_str[i]

\* byteorder.hpp:8 "Convert from host to network endianness" and byteorder.hpp:11
\* "Convert from integer type to byte array (endianness is not changed!)": so the
\* fields of a request are on the wire in network byte order.
RequestInNetworkOrder ==
    sent # <<>> /\ Last(sent).type = "Request" =>
        LET m == Last(sent)
        IN  SubSeq(stream, Len(stream) - 11, Len(stream))
              = m.piece_idx \o m.begin_offset \o m.length
============================================================================
