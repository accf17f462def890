----------------------------- MODULE WireProofs -----------------------------
(* Wire for either byte order, any numbers, payloads and peer lists.       *)
EXTENDS Wire, DataLemmas, TLAPS

----------------------------------------------------------------------------
(* Words and messages as bytes.                                            *)

LEMMA WordIs ==
    ASSUME NEW x \in Word
    PROVE  /\ x \in Seq(Byte) /\ Len(x) = 4
           /\ x = <<x[1], x[2], x[3], x[4]>>
           /\ x[1] \in Byte /\ x[2] \in Byte /\ x[3] \in Byte /\ x[4] \in Byte
BY DEF Word

LEMMA HtonIs ==
    ASSUME NEW x \in Word
    PROVE  hton(x) = [i \in 1..4 |-> IF LittleEndian THEN x[5 - i] ELSE x[i]]
<1>1. Len(x) = 4 /\ x = [i \in 1..4 |-> x[i]]
  BY WordIs DEF Word
<1>2. Reverse(x) = [i \in 1..4 |-> x[(4 - i) + 1]]
  BY <1>1 DEF Reverse
<1>3. Reverse(x) = [i \in 1..4 |-> x[5 - i]]
  BY <1>2
<1> QED
  BY <1>1, <1>3 DEF hton

LEMMA FieldIs ==
    ASSUME NEW x \in Word
    PROVE  /\ Field(x) \in Word
           /\ Field(x) = [i \in 1..4 |-> 255 - (IF LittleEndian THEN x[5 - i] ELSE x[i])]
<1>1. Field(x) = [i \in 1..4 |-> 255 - (IF LittleEndian THEN x[5 - i] ELSE x[i])]
  BY HtonIs DEF Field, int_to_arr
<1>2. ASSUME NEW i \in 1..4 PROVE 255 - (IF LittleEndian THEN x[5 - i] ELSE x[i]) \in Byte
  <2>1. 5 - i \in 1..4
    OBVIOUS
  <2>2. x[i] \in Byte /\ x[5 - i] \in Byte
    BY <2>1 DEF Word
  <2> QED
    BY <2>2 DEF Byte
<1> QED
  BY <1>1, <1>2 DEF Word

\* The complement and the byte order lose nothing.
LEMMA NumberOfField == ASSUME NEW x \in Word PROVE Number(Field(x)) = x
<1> DEFINE f == Field(x)
           y == [i \in 1..4 |-> 255 - f[i]]
<1>1. f \in Word /\ \A i \in 1..4 : f[i] = 255 - (IF LittleEndian THEN x[5 - i] ELSE x[i])
  BY FieldIs
<1>2. \A i \in 1..4 : 5 - i \in 1..4 /\ 5 - (5 - i) = i /\ x[i] \in 0..255
  BY DEF Word, Byte
<1>3. \A i \in 1..4 : 255 - f[i] = IF LittleEndian THEN x[5 - i] ELSE x[i]
  <2> HIDE DEF f
  <2> TAKE i \in 1..4
  <2>1. f[i] = 255 - (IF LittleEndian THEN x[5 - i] ELSE x[i]) /\ x[i] \in 0..255 /\ x[5 - i] \in 0..255
    BY <1>1, <1>2
  <2> QED
    BY <2>1
<1>4. y = [i \in 1..4 |-> IF LittleEndian THEN x[5 - i] ELSE x[i]]
  BY <1>3
<1>5. y \in Word /\ Number(f) = hton(y)
  <2>1. y \in Word
    BY <1>2, <1>4 DEF Word, Byte
  <2> QED
    BY <2>1 DEF Number
<1> HIDE DEF y
<1>6. hton(y) = [i \in 1..4 |-> IF LittleEndian THEN y[5 - i] ELSE y[i]]
  BY <1>5, HtonIs
<1>7. \A i \in 1..4 : (IF LittleEndian THEN y[5 - i] ELSE y[i]) = x[i]
  <2> TAKE i \in 1..4
  <2>1. y[5 - i] = (IF LittleEndian THEN x[5 - (5 - i)] ELSE x[5 - i])
    BY <1>2, <1>4
  <2> QED
    BY <1>2, <1>4, <2>1
<1>8. x = [i \in 1..4 |-> x[i]]
  BY DEF Word
<1> QED
  BY <1>5, <1>6, <1>7, <1>8

\* Where the parts of two and three sequences put together are.
LEMMA PairAt ==
    ASSUME NEW a \in Seq(Byte), NEW b \in Seq(Byte)
    PROVE  /\ a \o b \in Seq(Byte) /\ Len(a \o b) = Len(a) + Len(b)
           /\ \A i \in 1..Len(a) : (a \o b)[i] = a[i]
           /\ \A i \in 1..Len(b) : (a \o b)[Len(a) + i] = b[i]
OBVIOUS

LEMMA SameSeq ==
    ASSUME NEW u \in Seq(Byte), NEW v \in Seq(Byte), Len(u) = Len(v),
           \A i \in 1..Len(u) : u[i] = v[i]
    PROVE  u = v
OBVIOUS

LEMMA ConcatAssoc ==
    ASSUME NEW a \in Seq(Byte), NEW b \in Seq(Byte), NEW c \in Seq(Byte)
    PROVE  a \o (b \o c) = (a \o b) \o c
OBVIOUS

\* A part of a sequence that is put together is found at its place.
LEMMA PartFound ==
    ASSUME NEW a \in Seq(Byte), NEW b \in Seq(Byte), NEW c \in Seq(Byte)
    PROVE  SubSeq((a \o b) \o c, Len(a) + 1, Len(a) + Len(b)) = b
OBVIOUS

LEMMA PartLast ==
    ASSUME NEW a \in Seq(Byte), NEW b \in Seq(Byte)
    PROVE  SubSeq(a \o b, Len(a) + 1, Len(a) + Len(b)) = b
OBVIOUS

LEMMA CodeIs ==
    /\ DOMAIN Code = {"Choke", "Unchoke", "Interested", "NotInterested", "Request", "Piece"}
    /\ Code["Choke"] = 0 /\ Code["Unchoke"] = 1 /\ Code["Interested"] = 2
    /\ Code["NotInterested"] = 3 /\ Code["Request"] = 6 /\ Code["Piece"] = 7
    /\ \A t \in DOMAIN Code : Code[t] \in Byte /\ TypeOf(Code[t]) = t
    /\ \A t, u \in DOMAIN Code : Code[t] = Code[u] => t = u
<1>1. /\ DOMAIN Code = {"Choke", "Unchoke", "Interested", "NotInterested", "Request", "Piece"}
      /\ Code["Choke"] = 0 /\ Code["Unchoke"] = 1 /\ Code["Interested"] = 2
      /\ Code["NotInterested"] = 3 /\ Code["Request"] = 6 /\ Code["Piece"] = 7
  BY DEF Code
<1>2. \A t \in DOMAIN Code : Code[t] \in Byte
  BY <1>1 DEF Byte
<1>3. \A t, u \in DOMAIN Code : Code[t] = Code[u] => t = u
  BY <1>1
<1>4. \A t \in DOMAIN Code : TypeOf(Code[t]) = t
  BY <1>3 DEF TypeOf
<1> QED
  BY <1>1, <1>2, <1>3, <1>4

\* The three shapes of a message.
LEMMA MessageShapes ==
    ASSUME NEW m \in Message
    PROVE  /\ m.type \in DOMAIN Code
           /\ m.type \in Plain => m = [type |-> m.type]
           /\ m.type = "Request" =>
                /\ m = [type |-> "Request", piece_idx |-> m.piece_idx,
                        begin_offset |-> m.begin_offset, length |-> m.length]
                /\ m.piece_idx \in Word /\ m.begin_offset \in Word /\ m.length \in Word
           /\ m.type = "Piece" =>
                /\ m = [type |-> "Piece", data |-> m.data, piece_idx |-> m.piece_idx,
                        begin_offset |-> m.begin_offset]
                /\ m.piece_idx \in Word /\ m.begin_offset \in Word /\ m.data \in Seq(Byte)
           /\ m.type \in Plain \/ m.type = "Request" \/ m.type = "Piece"
<1>1. CASE m \in [type : Plain]
  BY <1>1, CodeIs DEF Plain
<1>2. CASE m \in [type : {"Request"}, piece_idx : Numbers, begin_offset : Numbers,
                  length : Numbers]
  BY <1>2, CodeIs, WireAssumption DEF Plain
<1>3. CASE m \in [type : {"Piece"}, piece_idx : Numbers, begin_offset : Numbers,
                  data : Payloads]
  BY <1>3, CodeIs, WireAssumption DEF Plain
<1> QED
  BY <1>1, <1>2, <1>3 DEF Message

LEMMA OneByte == ASSUME NEW t \in DOMAIN Code
                 PROVE  <<Code[t]>> \in Seq(Byte) /\ Len(<<Code[t]>>) = 1 /\ <<Code[t]>>[1] = Code[t]
BY CodeIs

\* A reader that is given the bytes of one message understands it.
LEMMA PlainRead ==
    ASSUME NEW m \in Message, m.type \in Plain
    PROVE  /\ MessageBytes(m) \in Seq(Byte) /\ Len(MessageBytes(m)) = 1
           /\ MessageBytes(m)[1] = Code[m.type]
           /\ Understood(MessageBytes(m)) = m
<1>1. serialize(m) = <<>> /\ m.type \in DOMAIN Code /\ m = [type |-> m.type]
  BY MessageShapes DEF serialize
<1>2. MessageBytes(m) = <<Code[m.type]>> \o <<>>
  BY <1>1 DEF MessageBytes
<1>3. MessageBytes(m) = <<Code[m.type]>>
  BY <1>1, <1>2, OneByte, ConcatNone
<1>4. TypeOf(Code[m.type]) = m.type
  BY <1>1, CodeIs
<1> DEFINE b == MessageBytes(m)
<1>5. b \in Seq(Byte) /\ Len(b) = 1 /\ b[1] = Code[m.type]
  BY <1>1, <1>3, OneByte
<1>6. Understood(b) = [type |-> TypeOf(b[1])]
  BY <1>4, <1>5 DEF Understood, Plain
<1> QED
  BY <1>1, <1>4, <1>5, <1>6

LEMMA RequestRead ==
    ASSUME NEW m \in Message, m.type = "Request"
    PROVE  /\ MessageBytes(m) \in Seq(Byte) /\ Len(MessageBytes(m)) = 13
           /\ MessageBytes(m)[1] = Code[m.type]
           /\ Understood(MessageBytes(m)) = m
<1> DEFINE h == <<Code[m.type]>>
           p == Field(m.piece_idx)
           o == Field(m.begin_offset)
           l == Field(m.length)
           b == MessageBytes(m)
<1>1. /\ h \in Seq(Byte) /\ Len(h) = 1 /\ h[1] = Code[m.type] /\ TypeOf(h[1]) = "Request"
      /\ m = [type |-> "Request", piece_idx |-> m.piece_idx,
              begin_offset |-> m.begin_offset, length |-> m.length]
  BY MessageShapes, OneByte, CodeIs
<1>2. /\ p \in Seq(Byte) /\ Len(p) = 4 /\ Number(p) = m.piece_idx
      /\ o \in Seq(Byte) /\ Len(o) = 4 /\ Number(o) = m.begin_offset
      /\ l \in Seq(Byte) /\ Len(l) = 4 /\ Number(l) = m.length
  BY MessageShapes, FieldIs, WordIs, NumberOfField
<1>3. b = h \o ((p \o o) \o l)
  BY DEF MessageBytes, serialize, RequestBytes, Plain
<1>4. Understood(b) = CASE TypeOf(b[1]) \in Plain -> [type |-> TypeOf(b[1])]
      [] TypeOf(b[1]) = "Request" ->
           [type |-> "Request", piece_idx |-> Number(SubSeq(b, 2, 5)),
            begin_offset |-> Number(SubSeq(b, 6, 9)), length |-> Number(SubSeq(b, 10, 13))]
      [] TypeOf(b[1]) = "Piece" ->
           [type |-> "Piece", data |-> SubSeq(b, 2, PieceLen + 1),
            piece_idx |-> Number(SubSeq(b, PieceLen + 2, PieceLen + 5)),
            begin_offset |-> Number(SubSeq(b, PieceLen + 6, PieceLen + 9))]
  BY DEF Understood
<1> HIDE DEF h, p, o, l, b
<1>20. b = (h \o p) \o (o \o l) /\ b = ((h \o p) \o o) \o l
  <2>1. p \o o \in Seq(Byte) /\ h \o p \in Seq(Byte)
    BY <1>1, <1>2, ConcatType
  <2>2. b = (h \o (p \o o)) \o l
    BY <1>1, <1>2, <1>3, <2>1, ConcatAssoc
  <2>3. h \o (p \o o) = (h \o p) \o o
    BY <1>1, <1>2, ConcatAssoc
  <2>4. ((h \o p) \o o) \o l = (h \o p) \o (o \o l)
    BY <1>1, <1>2, <2>1, ConcatAssoc
  <2> QED
    BY <2>2, <2>3, <2>4
<1>21. /\ h \o p \in Seq(Byte) /\ Len(h \o p) = 5 /\ (h \o p)[1] = h[1]
       /\ o \o l \in Seq(Byte) /\ Len(o \o l) = 8
  <2>1. 1 \in 1..Len(h)
    BY <1>1
  <2>2. h \o p \in Seq(Byte) /\ Len(h \o p) = Len(h) + Len(p) /\ (h \o p)[1] = h[1]
    BY <1>1, <1>2, <2>1, PairAt
  <2>3. o \o l \in Seq(Byte) /\ Len(o \o l) = Len(o) + Len(l)
    BY <1>2, PairAt
  <2> QED
    BY <1>1, <1>2, <2>2, <2>3
<1>22. (h \o p) \o o \in Seq(Byte) /\ Len((h \o p) \o o) = 9
  BY <1>2, <1>21, PairAt
<1>5. b \in Seq(Byte) /\ Len(b) = 13 /\ b[1] = h[1]
  BY <1>20, <1>21, PairAt
<1>6. SubSeq(b, 2, 5) = p
  <2>1. 2 = Len(h) + 1 /\ 5 = Len(h) + Len(p)
    BY <1>1, <1>2
  <2>2. SubSeq((h \o p) \o (o \o l), Len(h) + 1, Len(h) + Len(p)) = p
    BY <1>1, <1>2, <1>21, PartFound, Zenon
  <2> QED
    BY <1>20, <2>1, <2>2
<1>7. SubSeq(b, 6, 9) = o
  BY <1>2, <1>20, <1>21, PartFound
<1>8. SubSeq(b, 10, 13) = l
  <2>1. 10 = Len((h \o p) \o o) + 1 /\ 13 = Len((h \o p) \o o) + Len(l)
    BY <1>2, <1>22
  <2>2. SubSeq(b, Len((h \o p) \o o) + 1, Len((h \o p) \o o) + Len(l)) = l
    BY <1>2, <1>20, <1>22, PartLast, Zenon
  <2> QED
    BY <2>1, <2>2
<1>9. Understood(b) = m
  BY <1>1, <1>2, <1>4, <1>5, <1>6, <1>7, <1>8 DEF Plain
<1> QED
  BY <1>1, <1>5, <1>9 DEF b

LEMMA PieceRead ==
    ASSUME NEW m \in Message, m.type = "Piece"
    PROVE  /\ MessageBytes(m) \in Seq(Byte) /\ Len(MessageBytes(m)) = 1 + Len(m.data) + 8
           /\ Len(m.data) \in Nat
           /\ MessageBytes(m)[1] = Code[m.type]
           /\ Len(m.data) = PieceLen => Understood(MessageBytes(m)) = m
<1> DEFINE h == <<Code[m.type]>>
           d == m.data
           p == Field(m.piece_idx)
           o == Field(m.begin_offset)
           b == MessageBytes(m)
<1>1. /\ h \in Seq(Byte) /\ Len(h) = 1 /\ h[1] = Code[m.type] /\ TypeOf(h[1]) = "Piece"
      /\ m = [type |-> "Piece", data |-> d, piece_idx |-> m.piece_idx,
              begin_offset |-> m.begin_offset]
      /\ d \in Seq(Byte) /\ Len(d) \in Nat
  BY MessageShapes, OneByte, CodeIs
<1>2. /\ p \in Seq(Byte) /\ Len(p) = 4 /\ Number(p) = m.piece_idx
      /\ o \in Seq(Byte) /\ Len(o) = 4 /\ Number(o) = m.begin_offset
  BY MessageShapes, FieldIs, WordIs, NumberOfField
<1>3. b = h \o ((d \o p) \o o)
  BY DEF MessageBytes, serialize, PieceBytes, Plain
<1>4. Understood(b) = CASE TypeOf(b[1]) \in Plain -> [type |-> TypeOf(b[1])]
      [] TypeOf(b[1]) = "Request" ->
           [type |-> "Request", piece_idx |-> Number(SubSeq(b, 2, 5)),
            begin_offset |-> Number(SubSeq(b, 6, 9)), length |-> Number(SubSeq(b, 10, 13))]
      [] TypeOf(b[1]) = "Piece" ->
           [type |-> "Piece", data |-> SubSeq(b, 2, PieceLen + 1),
            piece_idx |-> Number(SubSeq(b, PieceLen + 2, PieceLen + 5)),
            begin_offset |-> Number(SubSeq(b, PieceLen + 6, PieceLen + 9))]
  BY DEF Understood
<1> HIDE DEF h, d, p, o, b
<1>20. b = (h \o d) \o (p \o o) /\ b = ((h \o d) \o p) \o o
  <2>1. d \o p \in Seq(Byte) /\ h \o d \in Seq(Byte)
    BY <1>1, <1>2, ConcatType
  <2>2. b = (h \o (d \o p)) \o o
    BY <1>1, <1>2, <1>3, <2>1, ConcatAssoc
  <2>3. h \o (d \o p) = (h \o d) \o p
    BY <1>1, <1>2, ConcatAssoc
  <2>4. ((h \o d) \o p) \o o = (h \o d) \o (p \o o)
    BY <1>1, <1>2, <2>1, ConcatAssoc
  <2> QED
    BY <2>2, <2>3, <2>4
<1>21. /\ h \o d \in Seq(Byte) /\ Len(h \o d) = Len(d) + 1 /\ (h \o d)[1] = h[1]
       /\ p \o o \in Seq(Byte) /\ Len(p \o o) = 8
  <2>1. 1 \in 1..Len(h)
    BY <1>1
  <2>2. h \o d \in Seq(Byte) /\ Len(h \o d) = Len(h) + Len(d) /\ (h \o d)[1] = h[1]
    BY <1>1, <2>1, PairAt
  <2>3. p \o o \in Seq(Byte) /\ Len(p \o o) = Len(p) + Len(o)
    BY <1>2, PairAt
  <2> QED
    BY <1>1, <1>2, <2>2, <2>3
<1>22. (h \o d) \o p \in Seq(Byte) /\ Len((h \o d) \o p) = Len(d) + 5
  BY <1>1, <1>2, <1>21, PairAt
<1>5. b \in Seq(Byte) /\ Len(b) = 1 + Len(d) + 8 /\ b[1] = h[1]
  BY <1>1, <1>20, <1>21, PairAt
<1>6. ASSUME Len(d) = PieceLen PROVE Understood(b) = m
  <2>1. SubSeq(b, 2, PieceLen + 1) = d
    <3>1. 2 = Len(h) + 1 /\ PieceLen + 1 = Len(h) + Len(d)
      BY <1>1, <1>6
    <3>2. SubSeq((h \o d) \o (p \o o), Len(h) + 1, Len(h) + Len(d)) = d
      BY <1>1, <1>21, PartFound, Zenon
    <3> QED
      BY <1>20, <3>1, <3>2
  <2>2. SubSeq(b, PieceLen + 2, PieceLen + 5) = p
    <3>1. PieceLen + 2 = Len(h \o d) + 1 /\ PieceLen + 5 = Len(h \o d) + Len(p)
      BY <1>1, <1>2, <1>6, <1>21
    <3>2. SubSeq(((h \o d) \o p) \o o, Len(h \o d) + 1, Len(h \o d) + Len(p)) = p
      BY <1>2, <1>21, PartFound, Zenon
    <3> QED
      BY <1>20, <3>1, <3>2
  <2>3. SubSeq(b, PieceLen + 6, PieceLen + 9) = o
    <3>1. PieceLen + 6 = Len((h \o d) \o p) + 1 /\ PieceLen + 9 = Len((h \o d) \o p) + Len(o)
      BY <1>1, <1>2, <1>6, <1>22
    <3>2. SubSeq(b, Len((h \o d) \o p) + 1, Len((h \o d) \o p) + Len(o)) = o
      BY <1>1, <1>2, <1>20, <1>22, PartLast, Zenon
    <3> QED
      BY <3>1, <3>2
  <2> QED
    BY <1>1, <1>2, <1>4, <1>5, <2>1, <2>2, <2>3 DEF Plain
<1> QED
  BY <1>1, <1>5, <1>6 DEF b, d

\* What the reader has to know of a message on the stream.
Legible(m) == m.type = "Piece" => Len(m.data) = PieceLen

LEMMA MessageRead ==
    ASSUME NEW m \in Message
    PROVE  /\ MessageBytes(m) \in Seq(Byte) /\ Len(MessageBytes(m)) \in Nat \ {0}
           /\ MessageBytes(m)[1] \in Range(Code)
           /\ Legible(m) => /\ Understood(MessageBytes(m)) = m
                            /\ SizeOf(MessageBytes(m)[1]) = Len(MessageBytes(m))
<1>1. Code[m.type] \in Range(Code) /\ m.type \in DOMAIN Code
  BY MessageShapes DEF Range
<1>2. Range([t \in Plain |-> Code[t]]) = {0, 1, 2, 3}
  BY CodeIs DEF Range, Plain
<1>3. CASE m.type \in Plain
  <2>1. SizeOf(Code[m.type]) = 1
    BY <1>2, <1>3, CodeIs DEF SizeOf, Plain
  <2>2. /\ MessageBytes(m) \in Seq(Byte) /\ Len(MessageBytes(m)) = 1
        /\ MessageBytes(m)[1] = Code[m.type] /\ Understood(MessageBytes(m)) = m
    BY <1>3, PlainRead
  <2> QED
    BY <1>1, <2>1, <2>2
<1>4. CASE m.type = "Request"
  <2>1. SizeOf(Code[m.type]) = 13
    BY <1>2, <1>4, CodeIs DEF SizeOf
  <2>2. /\ MessageBytes(m) \in Seq(Byte) /\ Len(MessageBytes(m)) = 13
        /\ MessageBytes(m)[1] = Code[m.type] /\ Understood(MessageBytes(m)) = m
    BY <1>4, RequestRead
  <2> QED
    BY <1>1, <2>1, <2>2
<1>5. CASE m.type = "Piece"
  <2>1. SizeOf(Code[m.type]) = 1 + PieceLen + 8
    BY <1>2, <1>5, CodeIs DEF SizeOf
  <2> QED
    BY <1>1, <1>5, <2>1, PieceRead DEF Legible
<1> QED
  BY <1>3, <1>4, <1>5, MessageShapes

----------------------------------------------------------------------------
(* Compact peer lists.                                                     *)

Peers == [ip : Word, port : Port]

LEMMA BySix ==
    ASSUME NEW a \in Nat
    PROVE  a \div 6 \in Nat /\ a % 6 \in 0..5 /\ a = 6 * (a \div 6) + (a % 6)
OBVIOUS

LEMMA ByByte ==
    ASSUME NEW a \in Nat
    PROVE  a \div 256 \in Nat /\ a % 256 \in 0..255 /\ a = 256 * (a \div 256) + (a % 256)
OBVIOUS

LEMMA EntryParts ==
    ASSUME NEW e \in Seq(Byte), Len(e) = 6
    PROVE  /\ SubSeq(e, 1, 4) \in Word /\ \A j \in 1..4 : SubSeq(e, 1, 4)[j] = e[j]
           /\ SubSeq(e, 5, 6)[1] = e[5] /\ SubSeq(e, 5, 6)[2] = e[6]
           /\ e[5] \in 0..255 /\ e[6] \in 0..255
<1>1. \A j \in 1..6 : e[j] \in Byte
  <2>1. ASSUME NEW T, NEW s \in Seq(T) PROVE \A j \in 1..Len(s) : s[j] \in T
    OBVIOUS
  <2>2. \A j \in 1..Len(e) : e[j] \in Byte
    BY <2>1
  <2> QED
    BY <2>2
<1>2. ASSUME NEW T, NEW s \in Seq(T), NEW a \in Nat \ {0}, NEW b \in Nat, a <= b, b <= Len(s)
      PROVE  SubSeq(s, a, b) = [i \in 1..(b - a + 1) |-> s[a + i - 1]]
  BY <1>2
<1>3. SubSeq(e, 1, 4) = [i \in 1..(4 - 1 + 1) |-> e[1 + i - 1]]
  BY <1>2
<1>4. SubSeq(e, 5, 6) = [i \in 1..(6 - 5 + 1) |-> e[5 + i - 1]]
  BY <1>2
<1>5. SubSeq(e, 1, 4) = [i \in 1..4 |-> e[i]]
  BY <1>3
<1>6. SubSeq(e, 5, 6)[1] = e[5] /\ SubSeq(e, 5, 6)[2] = e[6]
  BY <1>4
<1>7. SubSeq(e, 1, 4) \in Word
  <2>1. \A j \in 1..4 : j \in 1..6
    OBVIOUS
  <2>2. \A j \in 1..4 : e[j] \in Byte
    BY <1>1, <2>1
  <2> QED
    BY <1>5, <2>2 DEF Word
<1> QED
  BY <1>1, <1>5, <1>6, <1>7 DEF Byte

LEMMA TwoDigits ==
    ASSUME NEW b \in Nat, NEW x \in Nat, NEW y \in Nat, x < b, y < b
    PROVE  b * x + y \in 0..(b * b - 1)
<1>1. b * x \in Nat /\ b * x <= b * (b - 1)
  OBVIOUS
<1>2. b * (b - 1) = b * b - b /\ b * b \in Nat
  OBVIOUS
<1> QED
  BY <1>1, <1>2

LEMMA PortBig == ASSUME NEW x \in 0..255, NEW y \in 0..255 PROVE 256 * x + y \in Port
<1>1. x \in Nat /\ y \in Nat /\ x < 256 /\ y < 256 /\ 256 \in Nat
  OBVIOUS
<1> QED
  BY <1>1, TwoDigits DEF Port

LEMMA PortLittle == ASSUME NEW x \in 0..255, NEW y \in 0..255 PROVE x + 256 * y \in Port
<1>1. x \in Nat /\ y \in Nat
  OBVIOUS
<1>2. x + 256 * y = 256 * y + x
  BY <1>1
<1> QED
  BY <1>2, PortBig

LEMMA EntryPeer ==
    ASSUME NEW e \in Seq(Byte), Len(e) = 6
    PROVE  /\ ntoh(SubSeq(e, 5, 6)) = ntoh(<<e[5], e[6]>>)
           /\ [ip |-> SubSeq(e, 1, 4), port |-> ntoh(SubSeq(e, 5, 6))] \in Peers
<1> DEFINE x == e[5]
           y == e[6]
<1>1. SubSeq(e, 1, 4) \in Word /\ x \in 0..255 /\ y \in 0..255
  BY EntryParts
<1>2. ntoh(SubSeq(e, 5, 6)) = IF LittleEndian THEN 256 * x + y ELSE x + 256 * y
  BY EntryParts DEF ntoh
<1>3. ntoh(<<x, y>>) = IF LittleEndian THEN 256 * x + y ELSE x + 256 * y
  BY DEF ntoh
<1> HIDE DEF x, y
<1>4. ntoh(SubSeq(e, 5, 6)) \in Port
  <2>1. 256 * x + y \in Port /\ x + 256 * y \in Port
    BY <1>1, PortBig, PortLittle
  <2> QED
    BY <1>2, <2>1
<1>5. ASSUME NEW A, NEW B, NEW u \in A, NEW v \in B
      PROVE  [ip |-> u, port |-> v] \in [ip : A, port : B]
  OBVIOUS
<1>6. [ip |-> SubSeq(e, 1, 4), port |-> ntoh(SubSeq(e, 5, 6))] \in [ip : Word, port : Port]
  BY <1>1, <1>4, <1>5
<1> QED
  BY <1>2, <1>3, <1>6 DEF Peers, x, y

\* The k-th peer is made of the k-th six bytes.
LEMMA ParsedAt ==
    ASSUME NEW s \in Seq(Byte), NEW k \in 1..(Len(s) \div 6)
    PROVE  /\ 6 * (k - 1) \in Nat /\ 6 * (k - 1) + 6 <= Len(s)
           /\ Parsed(s)[k] \in Peers
           /\ \A j \in 1..4 : Parsed(s)[k].ip[j] = s[6 * (k - 1) + j]
           /\ Parsed(s)[k].port = ntoh(<<s[6 * (k - 1) + 5], s[6 * (k - 1) + 6]>>)
<1>1. Len(s) \in Nat /\ Len(s) \div 6 \in Nat /\ 6 * (Len(s) \div 6) <= Len(s)
  BY BySix
<1>2. PICK q \in Nat : q = 6 * (k - 1) /\ q + 6 <= Len(s)
  BY <1>1
<1> DEFINE e == SubSeq(s, q + 1, q + 6)
<1>3. q + 1 \in 1..(Len(s) + 1) /\ q + 6 \in 0..Len(s)
  BY <1>1, <1>2
<1>4. /\ e \in Seq(Byte) /\ Len(e) = 6
      /\ \A j \in 1..4 : e[j] = s[q + j]
      /\ e[5] = s[q + 5] /\ e[6] = s[q + 6]
  <2>1. e \in Seq(Byte) /\ Len(e) = 6 /\ \A j \in 1..6 : e[j] = s[q + j]
    BY <1>2, <1>3
  <2>2. 5 \in 1..6 /\ 6 \in 1..6 /\ \A j \in 1..4 : j \in 1..6
    OBVIOUS
  <2> QED
    BY <2>1, <2>2, Zenon
<1>5. Parsed(s)[k] = [ip |-> SubSeq(e, 1, 4), port |-> ntoh(SubSeq(e, 5, 6))]
  <2>1. EntryAt(s, 6 * (k - 1)) = e
    BY <1>2 DEF EntryAt
  <2> HIDE DEF e
  <2> QED
    BY <2>1 DEF Parsed
<1> HIDE DEF e
<1>6. \A j \in 1..4 : SubSeq(e, 1, 4)[j] = e[j]
  BY <1>4, EntryParts
<1>7. e[5] = s[q + 5] /\ e[6] = s[q + 6]
  BY <1>4
<1>8. Parsed(s)[k] \in Peers /\ ntoh(SubSeq(e, 5, 6)) = ntoh(<<e[5], e[6]>>)
  BY <1>4, <1>5, EntryPeer
<1>9. Parsed(s)[k].ip = SubSeq(e, 1, 4) /\ Parsed(s)[k].port = ntoh(SubSeq(e, 5, 6))
  <2>1. ASSUME NEW u, NEW v
        PROVE  [ip |-> u, port |-> v].ip = u /\ [ip |-> u, port |-> v].port = v
    OBVIOUS
  <2> QED
    BY <1>5, <2>1
<1>10. \A j \in 1..4 : Parsed(s)[k].ip[j] = s[q + j]
  BY <1>4, <1>6, <1>9
<1> QED
  BY <1>2, <1>7, <1>8, <1>9, <1>10

LEMMA ParsedType ==
    ASSUME NEW s \in Seq(Byte)
    PROVE  /\ Len(s) \div 6 \in Nat /\ Len(s) % 6 \in 0..5
           /\ Len(s) = 6 * (Len(s) \div 6) + (Len(s) % 6)
           /\ Parsed(s) \in Seq(Peers) /\ Len(Parsed(s)) = Len(s) \div 6
           /\ DOMAIN Parsed(s) = 1..(Len(s) \div 6)
<1>1. /\ Len(s) \div 6 \in Nat /\ Len(s) % 6 \in 0..5
      /\ Len(s) = 6 * (Len(s) \div 6) + (Len(s) % 6)
  BY BySix
<1>2. Parsed(s) = [k \in 1..(Len(s) \div 6) |-> Parsed(s)[k]]
  BY DEF Parsed
<1>3. \A k \in 1..(Len(s) \div 6) : Parsed(s)[k] \in Peers
  BY ParsedAt
<1> QED
  BY <1>1, <1>2, <1>3

\* The longest address has fifteen characters.
LEMMA AddressFits == ASSUME NEW ip \in Word PROVE FitsBuffer(ip)
<1>1. \A i \in 1..4 : ip[i] \in 0..255 /\ Digits(ip[i]) \in 1..3
  BY DEF Word, Byte, Digits
<1> QED
  BY <1>1 DEF FitsBuffer, BufferSize

LEMMA ThrowsIs == ASSUME NEW s \in Seq(Byte) PROVE Throws(s) <=> Len(s) % 6 # 0
<1>1. \A k \in DOMAIN Parsed(s) : Parsed(s)[k].ip \in Word
  <2>1. \A k \in DOMAIN Parsed(s) : Parsed(s)[k] \in Peers
    BY ParsedType, ParsedAt
  <2>2. \A p \in Peers : p.ip \in Word
    BY DEF Peers
  <2> QED
    BY <2>1, <2>2
<1> QED
  BY <1>1, AddressFits DEF Throws

----------------------------------------------------------------------------
(* The state: where the messages are on the stream.                        *)

\* at[i] is where the bytes of message i start.
Starts(at, msgs, bytes) ==
    /\ at \in [1..(Len(msgs) + 1) -> Nat \ {0}]
    /\ at[1] = 1 /\ at[Len(msgs) + 1] = Len(bytes) + 1
    /\ \A i \in 1..Len(msgs) :
         /\ at[i + 1] = at[i] + Len(MessageBytes(msgs[i])) /\ at[i + 1] <= Len(bytes) + 1
         /\ \A j \in 1..Len(MessageBytes(msgs[i])) :
              bytes[at[i] + j - 1] = MessageBytes(msgs[i])[j]

IInv ==
    /\ sent \in Seq(Message) /\ Len(sent) <= MaxMessages
    /\ stream \in Seq(Byte)
    /\ \E at : Starts(at, sent, stream)
    /\ peer_str \in PeerStrings \cup {<<>>}
    /\ threw = Throws(peer_str)
    /\ peers = IF Throws(peer_str) THEN <<>> ELSE Parsed(peer_str)

LEMMA StringType == ASSUME NEW s \in PeerStrings \cup {<<>>} PROVE s \in Seq(Byte)
BY WireAssumption, EmptyType

LEMMA InitOK == Init => IInv
<1> SUFFICES ASSUME Init PROVE IInv
  OBVIOUS
<1>1. sent \in Seq(Message) /\ Len(sent) = 0 /\ stream \in Seq(Byte) /\ Len(stream) = 0
  BY DEF Init
<1>2. Starts([i \in 1..1 |-> 1], sent, stream)
  BY <1>1 DEF Starts
<1>3. <<>> \in Seq(Byte) /\ Len(<<>>) % 6 = 0
  OBVIOUS
<1>4. ~Throws(<<>>)
  BY <1>3, ThrowsIs
<1>5. Parsed(<<>>) = <<>>
  BY DEF Parsed
<1>6. \E at : Starts(at, sent, stream)
  BY <1>2
<1>7. peer_str = <<>> /\ peers = <<>> /\ threw = FALSE
  BY DEF Init
<1>8. threw = Throws(peer_str)
  BY <1>4, <1>7 DEF Throws
<1> QED
  BY <1>1, <1>4, <1>5, <1>6, <1>7, <1>8, WireAssumption DEF IInv

LEMMA Sends ==
    ASSUME IInv, NEW m \in Message, Send(m)
    PROVE  IInv'
<1> DEFINE n == Len(sent)
           b == MessageBytes(m)
           len == Len(stream)
<1>1. /\ sent \in Seq(Message) /\ n \in Nat /\ n < MaxMessages /\ MaxMessages \in Nat
      /\ stream \in Seq(Byte) /\ len \in Nat
  BY WireAssumption DEF IInv, Send
<1>2. b \in Seq(Byte) /\ Len(b) \in Nat \ {0}
  BY MessageRead
<1>3. PICK at : Starts(at, sent, stream)
  BY DEF IInv
<1>4. sent' = Append(sent, m) /\ stream' = stream \o b /\ UNCHANGED <<peer_str, peers, threw>>
  BY DEF Send
<1> HIDE DEF b
<1>5. /\ sent' \in Seq(Message) /\ Len(sent') = n + 1 /\ sent'[n + 1] = m
      /\ \A i \in 1..n : sent'[i] = sent[i]
  BY <1>1, <1>4
<1>6. /\ stream' \in Seq(Byte) /\ Len(stream') = len + Len(b)
      /\ \A i \in 1..len : stream'[i] = stream[i]
      /\ \A i \in 1..Len(b) : stream'[len + i] = b[i]
  BY <1>1, <1>2, <1>4, PairAt
<1> DEFINE new == [i \in 1..(n + 2) |-> IF i = n + 2 THEN len + Len(b) + 1 ELSE at[i]]
<1>7. /\ at \in [1..(n + 1) -> Nat \ {0}] /\ n \in Nat /\ at[1] = 1 /\ at[n + 1] = len + 1
      /\ \A i \in 1..n : at[i + 1] = at[i] + Len(MessageBytes(sent[i])) /\ at[i + 1] <= len + 1
      /\ \A i \in 1..n : \A j \in 1..Len(MessageBytes(sent[i])) :
           stream[at[i] + j - 1] = MessageBytes(sent[i])[j]
  BY <1>1, <1>3 DEF Starts
<1>8. /\ new \in [1..(n + 2) -> Nat \ {0}] /\ new[n + 2] = len + Len(b) + 1
      /\ \A i \in 1..(n + 1) : new[i] = at[i]
  BY <1>1, <1>2, <1>7
<1> HIDE DEF new, n, len
<1>9. ASSUME NEW i \in 1..(n + 1)
      PROVE  /\ new[i + 1] = new[i] + Len(MessageBytes(sent'[i]))
             /\ new[i + 1] <= len + Len(b) + 1
             /\ \A j \in 1..Len(MessageBytes(sent'[i])) :
                  stream'[new[i] + j - 1] = MessageBytes(sent'[i])[j]
  <2>1. CASE i = n + 1
    <3>1. MessageBytes(sent'[i]) = b /\ new[i] = len + 1 /\ new[i + 1] = len + Len(b) + 1
      BY <1>1, <1>5, <1>7, <1>8, <2>1 DEF b
    <3>2. \A j \in 1..Len(b) : (len + 1) + j - 1 = len + j
      BY <1>1, <1>2
    <3> QED
      BY <1>1, <1>2, <1>6, <3>1, <3>2
  <2>2. CASE i # n + 1
    <3>1. i \in 1..n /\ i \in 1..(n + 1) /\ i + 1 \in 1..(n + 1)
      BY <1>1, <2>2
    <3>2. sent'[i] = sent[i] /\ new[i] = at[i] /\ new[i + 1] = at[i + 1] /\ sent[i] \in Message
      BY <1>1, <1>5, <1>8, <3>1 DEF n
    <3>3. Len(MessageBytes(sent[i])) \in Nat /\ at[i] \in Nat \ {0}
      BY <1>7, <3>1, <3>2, MessageRead
    <3>4. ASSUME NEW j \in 1..Len(MessageBytes(sent[i]))
          PROVE  stream'[at[i] + j - 1] = MessageBytes(sent[i])[j]
      <4>1. at[i] + j - 1 \in 1..len
        <5>1. at[i + 1] = at[i] + Len(MessageBytes(sent[i])) /\ at[i + 1] <= len + 1
          BY <1>7, <3>1
        <5> QED
          BY <1>1, <3>3, <5>1
      <4> QED
        BY <1>6, <1>7, <3>1, <4>1
    <3>5. at[i + 1] = at[i] + Len(MessageBytes(sent[i])) /\ at[i + 1] <= len + 1
      BY <1>7, <3>1
    <3>6. at[i + 1] <= len + Len(b) + 1
      BY <1>1, <1>2, <1>7, <3>1, <3>5
    <3> QED
      BY <3>2, <3>4, <3>5, <3>6
  <2> QED
    BY <2>1, <2>2
<1>10. Starts(new, sent', stream')
  <2>1. Len(sent') = n + 1 /\ Len(stream') = len + Len(b) /\ (n + 1) + 1 = n + 2 /\ n \in Nat
    BY <1>1, <1>5, <1>6 DEF n
  <2>2. new[1] = 1
    <3>1. 1 \in 1..(n + 1)
      BY <2>1
    <3> QED
      BY <1>7, <1>8, <3>1
  <2> QED
    BY <1>8, <1>9, <2>1, <2>2 DEF Starts
<1> QED
  BY <1>1, <1>4, <1>5, <1>6, <1>10 DEF IInv

LEMMA StepOK == IInv /\ [Next]_vars => IInv'
<1> SUFFICES ASSUME IInv, [Next]_vars PROVE IInv'
  OBVIOUS
<1>1. CASE UNCHANGED vars
  BY <1>1 DEF vars, IInv
<1>2. ASSUME NEW s \in PeerStrings, ParsePeers(s) PROVE IInv'
  BY <1>2 DEF ParsePeers, IInv
<1> QED
  BY <1>1, <1>2, Sends DEF Next

LEMMA Inductive == Spec => []IInv
BY InitOK, StepOK, PTL DEF Spec

----------------------------------------------------------------------------
\* Type correctness: what is on the wire is bytes, and every peer that was read
\* has a 16 bit port.
THEOREM TypeCorrect == Spec => []TypeOK
<1>1. IInv => TypeOK
  <2> SUFFICES ASSUME IInv PROVE TypeOK
    OBVIOUS
  <2>1. peer_str \in Seq(Byte)
    BY StringType DEF IInv
  <2>2. peers \in Seq(Peers)
    BY <2>1, ParsedType, EmptyType DEF IInv
  <2>3. threw \in BOOLEAN
    BY DEF IInv, Throws
  <2> QED
    BY <2>2, <2>3 DEF IInv, TypeOK, Peers
<1> QED
  BY <1>1, Inductive, PTL

\* A compact list is refused if and only if it is torn, whatever its bytes; the
\* peers of any other have the addresses of their entries on every host, and
\* their ports on a little endian one.
THEOREM ListsRead == Spec => []CompactPeersRead
<1>1. IInv => /\ threw <=> Len(peer_str) % 6 # 0
              /\ threw => peers = <<>>
  BY StringType, ThrowsIs DEF IInv
<1>2. IInv /\ ~threw => CompactPeersRead
  <2> SUFFICES ASSUME IInv, ~threw PROVE CompactPeersRead
    OBVIOUS
  <2>0. Len(peer_str) % 6 = 0
    BY <1>1
  <2> DEFINE n == Len(peer_str) \div 6
  <2>1. /\ peer_str \in Seq(Byte) /\ ~threw /\ peers = Parsed(peer_str)
        /\ n \in Nat /\ Len(peer_str) = 6 * n /\ Len(peers) = n
    <3>1. peer_str \in Seq(Byte)
      BY StringType DEF IInv
    <3>2. ~Throws(peer_str)
      BY DEF IInv
    <3>3. n \in Nat /\ Len(peer_str) = 6 * n + (Len(peer_str) % 6) /\ Len(Parsed(peer_str)) = n
      BY <3>1, ParsedType
    <3> QED
      BY <2>0, <3>1, <3>2, <3>3 DEF IInv
  <2> HIDE DEF n
  <2>2. ASSUME NEW i \in DOMAIN peer_str
        PROVE  LET p == peers[((i - 1) \div 6) + 1]
                   j == ((i - 1) % 6) + 1
               IN  /\ j <= 4 => p.ip[j] = peer_str[i]
                   /\ LittleEndian /\ j = 5 => p.port \div 256 = peer_str[i]
                   /\ LittleEndian /\ j = 6 => p.port % 256 = peer_str[i]
    <3> DEFINE q == (i - 1) \div 6
               r == (i - 1) % 6
               p == peers[q + 1]
    <3>1. i \in 1..(6 * n) /\ i - 1 \in Nat
      BY <2>1
    <3>2. q \in Nat /\ r \in 0..5 /\ i - 1 = 6 * q + r
      BY <3>1, BySix
    <3> HIDE DEF q, r
    <3>3. q + 1 \in 1..n /\ 6 * ((q + 1) - 1) = 6 * q /\ i = 6 * q + (r + 1)
      BY <2>1, <3>1, <3>2
    <3>4. /\ p \in Peers /\ \A j \in 1..4 : p.ip[j] = peer_str[6 * q + j]
          /\ p.port = ntoh(<<peer_str[6 * q + 5], peer_str[6 * q + 6]>>)
      <4>1. q + 1 \in 1..(Len(peer_str) \div 6)
        BY <3>3 DEF n
      <4>2. /\ Parsed(peer_str)[q + 1] \in Peers
            /\ \A j \in 1..4 : Parsed(peer_str)[q + 1].ip[j] = peer_str[6 * ((q + 1) - 1) + j]
            /\ Parsed(peer_str)[q + 1].port
                 = ntoh(<<peer_str[6 * ((q + 1) - 1) + 5], peer_str[6 * ((q + 1) - 1) + 6]>>)
        BY <2>1, <4>1, ParsedAt
      <4> QED
        BY <2>1, <3>3, <4>2
    <3> HIDE DEF p
    <3>5. ASSUME r + 1 <= 4 PROVE peer_str[i] = p.ip[r + 1]
      BY <3>2, <3>3, <3>4, <3>5
    <3>6. ASSUME r + 1 > 4, LittleEndian
          PROVE  /\ r + 1 = 5 => peer_str[i] = p.port \div 256
                 /\ r + 1 = 6 => peer_str[i] = p.port % 256
                 /\ r + 1 = 5 \/ r + 1 = 6
      <4> DEFINE x == peer_str[6 * q + 5]
                 y == peer_str[6 * q + 6]
      <4>1. x \in 0..255 /\ y \in 0..255
        <5>1. 6 * q + 5 \in 1..Len(peer_str) /\ 6 * q + 6 \in 1..Len(peer_str)
          BY <2>1, <3>2, <3>3
        <5>2. \A j \in 1..Len(peer_str) : peer_str[j] \in Byte
          BY <2>1
        <5> QED
          BY <5>1, <5>2 DEF Byte
      <4>2. p.port = 256 * x + y
        BY <3>4, <3>6 DEF ntoh
      <4> HIDE DEF x, y
      <4>3. p.port \div 256 = x /\ p.port % 256 = y
        <5>1. p.port \in Nat
          BY <4>1, <4>2
        <5>2. /\ p.port \div 256 \in Nat /\ p.port % 256 \in 0..255
              /\ p.port = 256 * (p.port \div 256) + (p.port % 256)
          BY <5>1, ByByte
        <5> QED
          BY <4>1, <4>2, <5>2
      <4>4. r = 4 \/ r = 5
        BY <3>2, <3>6
      <4>5. r = 4 => i = 6 * q + 5
        BY <3>3
      <4>6. r = 5 => i = 6 * q + 6
        BY <3>3
      <4> QED
        BY <3>2, <4>3, <4>4, <4>5, <4>6 DEF x, y
    <3>7. /\ r + 1 <= 4 => p.ip[r + 1] = peer_str[i]
          /\ LittleEndian /\ r + 1 = 5 => p.port \div 256 = peer_str[i]
          /\ LittleEndian /\ r + 1 = 6 => p.port % 256 = peer_str[i]
      BY <3>2, <3>5, <3>6
    <3> QED
      BY <3>7 DEF p, q, r
  <2> QED
    BY <1>1, <2>1, <2>2 DEF CompactPeersRead
<1>3. IInv => CompactPeersRead
  <2> SUFFICES ASSUME IInv, threw PROVE CompactPeersRead
    BY <1>2
  <2> QED
    BY <1>1 DEF CompactPeersRead
<1> QED
  BY <1>3, Inductive, PTL

----------------------------------------------------------------------------
(* The reader of the stream: the recursion that defines it goes forward, so *)
(* it exists for every stream, and is unfolded message by message.         *)

SizeAt(k) == IF stream[k] \in Range(Code) THEN SizeOf(stream[k]) ELSE Len(stream) + 1

ReadStep(f, k) ==
    IF k > Len(stream) THEN <<>>
    ELSE IF k + SizeAt(k) - 1 > Len(stream) THEN <<Garbled>>
    ELSE <<Understood(SubSeq(stream, k, k + SizeAt(k) - 1))>> \o f[k + SizeAt(k)]

LEMMA SizePositive == ASSUME stream \in Seq(Byte), NEW k PROVE SizeAt(k) \in Nat \ {0}
<1>1. Len(stream) + 1 \in Nat \ {0}
  OBVIOUS
<1>2. ASSUME NEW t \in DOMAIN Code PROVE SizeOf(Code[t]) \in Nat \ {0}
  <2>1. Range([u \in Plain |-> Code[u]]) = {0, 1, 2, 3}
    BY CodeIs DEF Range, Plain
  <2>2. PieceLen \in Nat
    BY WireAssumption
  <2>3. CASE t \in Plain
    BY <2>1, <2>3, CodeIs DEF SizeOf, Plain
  <2>4. CASE t = "Request"
    BY <2>1, <2>4, CodeIs DEF SizeOf
  <2>5. CASE t = "Piece"
    BY <2>1, <2>2, <2>5, CodeIs DEF SizeOf
  <2> QED
    BY <2>3, <2>4, <2>5, CodeIs DEF Plain
<1>3. \A c \in Range(Code) : SizeOf(c) \in Nat \ {0}
  BY <1>2 DEF Range
<1> QED
  BY <1>1, <1>3 DEF SizeAt

LEMMA ReadIs ==
    ASSUME stream \in Seq(Byte)
    PROVE  \A k \in 1..(Len(stream) + 1) : ReadFrom[k] = ReadStep(ReadFrom, k)
<1> DEFINE len == Len(stream)
           D == 1..(len + 1)
           Good(f, n) == /\ DOMAIN f = D
                         /\ \A k \in D : k > len + 1 - n => f[k] = ReadStep(f, k)
           S == {n \in Nat : n <= len + 1 => \E f : Good(f, n)}
           Reads(f) == f = [k \in D |-> ReadStep(f, k)]
<1>1. len \in Nat
  OBVIOUS
<1> HIDE DEF len
<1>2. 0 \in S
  <2>1. Good([k \in D |-> <<>>], 0)
    BY <1>1
  <2> QED
    BY <2>1
<1>3. ASSUME NEW n \in Nat, n \in S PROVE n + 1 \in S
  <2> SUFFICES ASSUME n + 1 <= len + 1 PROVE \E f : Good(f, n + 1)
    OBVIOUS
  <2>1. PICK f : Good(f, n)
    BY <1>1, <1>3
  <2> DEFINE at == len + 1 - n
             g == [k \in D |-> IF k = at THEN ReadStep(f, at) ELSE f[k]]
  <2>2. at \in D /\ at \in Nat
    BY <1>1
  <2>3. ASSUME NEW k \in D, k >= at PROVE ReadStep(g, k) = ReadStep(f, k)
    <3>1. SizeAt(k) \in Nat \ {0}
      BY SizePositive
    <3>2. CASE k > len \/ k + SizeAt(k) - 1 > len
      BY <3>2 DEF ReadStep, len
    <3>3. CASE k <= len /\ k + SizeAt(k) - 1 <= len
      <4>1. k + SizeAt(k) \in D /\ k + SizeAt(k) # at
        BY <1>1, <2>2, <2>3, <3>1, <3>3
      <4>2. g[k + SizeAt(k)] = f[k + SizeAt(k)]
        BY <4>1
      <4> HIDE DEF g
      <4> QED
        BY <4>2 DEF ReadStep
    <3> QED
      BY <1>1, <3>1, <3>2, <3>3
  <2>4. ASSUME NEW k \in D, k > len + 1 - (n + 1) PROVE g[k] = ReadStep(g, k)
    <3>1. k >= at
      BY <1>1, <2>2, <2>4
    <3>2. ReadStep(g, k) = ReadStep(f, k)
      BY <2>3, <3>1
    <3>3. CASE k = at
      <4>1. g[k] = ReadStep(f, k)
        BY <3>3
      <4> QED
        BY <3>2, <4>1
    <3>4. CASE k # at
      <4>1. k > len + 1 - n
        BY <1>1, <2>2, <3>1, <3>4
      <4>2. f[k] = ReadStep(f, k)
        BY <2>1, <4>1
      <4>3. g[k] = f[k]
        BY <3>4
      <4> QED
        BY <3>2, <4>2, <4>3
    <3> QED
      BY <3>3, <3>4
  <2>5. DOMAIN g = D
    OBVIOUS
  <2>6. Good(g, n + 1)
    <3> HIDE DEF g
    <3> QED
      BY <2>4, <2>5
  <2> QED
    BY <2>6
<1> HIDE DEF S
<1>4. Nat \subseteq S
  BY <1>2, <1>3, Induction
<1>5. PICK f : Good(f, len + 1)
  <2>1. len + 1 \in S
    BY <1>1, <1>4
  <2> QED
    BY <1>1, <2>1 DEF S
<1>6. \A k \in D : f[k] = ReadStep(f, k)
  BY <1>1, <1>5
<1>7. \E h : Reads(h)
  <2> DEFINE h == [k \in D |-> f[k]]
  <2>1. \A k \in D : ReadStep(h, k) = ReadStep(f, k)
    <3> TAKE k \in D
    <3>1. SizeAt(k) \in Nat \ {0}
      BY SizePositive
    <3>2. CASE k > len \/ k + SizeAt(k) - 1 > len
      BY <3>2 DEF ReadStep, len
    <3>3. CASE k <= len /\ k + SizeAt(k) - 1 <= len
      <4>1. k + SizeAt(k) \in D
        BY <1>1, <3>1, <3>3
      <4>2. h[k + SizeAt(k)] = f[k + SizeAt(k)]
        BY <4>1
      <4> HIDE DEF h
      <4> QED
        BY <4>2 DEF ReadStep
    <3> QED
      BY <1>1, <3>1, <3>2, <3>3
  <2>2. h = [k \in D |-> ReadStep(h, k)]
    <3>1. \A k \in D : f[k] = ReadStep(h, k)
      BY <1>6, <2>1
    <3> QED
      BY <3>1
  <2> QED
    BY <2>2
<1>8. ReadFrom = CHOOSE h : Reads(h)
  BY DEF ReadFrom, ReadStep, SizeAt, len
<1>9. Reads(ReadFrom)
  <2> HIDE DEF Reads
  <2> QED
    BY <1>7, <1>8
<1>10. \A k \in D : ReadFrom[k] = ReadStep(ReadFrom, k)
  BY <1>9
<1> QED
  BY <1>10 DEF len

\* The reader, put where a legible message starts, gives it and what follows.
LEMMA OneRead ==
    ASSUME IInv, NEW at, Starts(at, sent, stream), NEW i \in 1..Len(sent), Legible(sent[i])
    PROVE  ReadFrom[at[i]] = <<sent[i]>> \o ReadFrom[at[i + 1]]
<1> DEFINE b == MessageBytes(sent[i])
           k == at[i]
           len == Len(stream)
           to == k + Len(b) - 1
<1>1. /\ stream \in Seq(Byte) /\ len \in Nat /\ sent \in Seq(Message) /\ Len(sent) \in Nat
      /\ sent[i] \in Message
  BY DEF IInv
<1>2. /\ b \in Seq(Byte) /\ Len(b) \in Nat \ {0} /\ b[1] \in Range(Code)
      /\ Understood(b) = sent[i] /\ SizeOf(b[1]) = Len(b)
  BY <1>1, MessageRead
<1>3. /\ k \in Nat \ {0} /\ at[i + 1] = k + Len(b) /\ at[i + 1] <= len + 1
      /\ \A j \in 1..Len(b) : stream[k + j - 1] = b[j]
  <2>1. i \in 1..(Len(sent) + 1) /\ at \in [1..(Len(sent) + 1) -> Nat \ {0}]
    BY <1>1 DEF Starts
  <2>2. k \in Nat \ {0}
    BY <2>1
  <2> QED
    BY <1>1, <2>2 DEF Starts
<1> HIDE DEF b, k, len, to
<1>4. stream[k] = b[1]
  <2>1. 1 \in 1..Len(b) /\ k + 1 - 1 = k
    BY <1>2, <1>3
  <2> QED
    BY <1>3, <2>1
<1>5. SizeAt(k) = Len(b)
  BY <1>2, <1>4 DEF SizeAt
<1>6. k \in 1..len /\ to \in k..len /\ to = k + Len(b) - 1
  BY <1>1, <1>2, <1>3 DEF to
<1>7. SubSeq(stream, k, to) = b
  <2>1. ASSUME NEW T, NEW s \in Seq(T), NEW x \in 1..Len(s), NEW y \in x..Len(s)
        PROVE  /\ SubSeq(s, x, y) \in Seq(T) /\ Len(SubSeq(s, x, y)) = y - x + 1
               /\ \A j \in 1..(y - x + 1) : SubSeq(s, x, y)[j] = s[x + j - 1]
    OBVIOUS
  <2>2. /\ SubSeq(stream, k, to) \in Seq(Byte) /\ Len(SubSeq(stream, k, to)) = to - k + 1
        /\ \A j \in 1..(to - k + 1) : SubSeq(stream, k, to)[j] = stream[k + j - 1]
    BY <1>1, <1>6, <2>1 DEF len
  <2>3. to - k + 1 = Len(b)
    BY <1>2, <1>3, <1>6
  <2>4. \A j \in 1..Len(b) : SubSeq(stream, k, to)[j] = b[j]
    BY <1>3, <2>2, <2>3
  <2> QED
    BY <1>2, <2>2, <2>3, <2>4, SameSeq
<1>8. ReadFrom[k] = ReadStep(ReadFrom, k)
  <2>1. k \in 1..(len + 1)
    BY <1>1, <1>6
  <2> QED
    BY <1>1, <2>1, ReadIs DEF len
<1>9. ~ (k > len) /\ ~ (k + Len(b) - 1 > len)
  BY <1>1, <1>2, <1>3, <1>6
<1>10. ReadStep(ReadFrom, k) = <<Understood(SubSeq(stream, k, to))>> \o ReadFrom[k + Len(b)]
  BY <1>5, <1>6, <1>9 DEF ReadStep, len
<1> QED
  BY <1>2, <1>3, <1>7, <1>8, <1>10 DEF k

\* The stream determines the messages: any number of them, with any fields.
THEOREM StreamIsRead == Spec => []StreamDeterminesMessages
<1>1. IInv => StreamDeterminesMessages
  <2> SUFFICES ASSUME IInv,
                      \A i \in DOMAIN sent : sent[i].type = "Piece" => Len(sent[i].data) = PieceLen
               PROVE  ReadFrom[1] = sent
    BY DEF StreamDeterminesMessages
  <2> DEFINE n == Len(sent)
  <2>1. PICK at : Starts(at, sent, stream)
    BY DEF IInv
  <2>2. sent \in Seq(Message) /\ n \in Nat /\ stream \in Seq(Byte) /\ Len(stream) \in Nat
    BY DEF IInv
  <2>3. ASSUME NEW i \in 1..n PROVE ReadFrom[at[i]] = <<sent[i]>> \o ReadFrom[at[i + 1]]
    BY <2>1, <2>2, OneRead DEF Legible
  <2>4. at[1] = 1 /\ at[n + 1] = Len(stream) + 1
    BY <2>1 DEF Starts
  <2> DEFINE Rest(m) == SubSeq(sent, n + 1 - m, n)
             S == {m \in Nat : m <= n => ReadFrom[at[n + 1 - m]] = Rest(m)}
  <2>5. 0 \in S
    <3>1. ReadFrom[Len(stream) + 1] = <<>>
      <4>1. Len(stream) + 1 \in 1..(Len(stream) + 1) /\ Len(stream) + 1 > Len(stream)
        BY <2>2
      <4>2. ReadFrom[Len(stream) + 1] = ReadStep(ReadFrom, Len(stream) + 1)
        BY <2>2, <4>1, ReadIs
      <4> QED
        BY <4>1, <4>2 DEF ReadStep
    <3>2. Rest(0) = <<>>
      BY <2>2
    <3>3. n + 1 - 0 = n + 1
      BY <2>2
    <3>4. ReadFrom[at[n + 1 - 0]] = Rest(0)
      BY <2>4, <3>1, <3>2, <3>3
    <3> HIDE DEF Rest
    <3> QED
      BY <3>4
  <2>6. ASSUME NEW m \in Nat, m \in S PROVE m + 1 \in S
    <3> DEFINE Read(l) == l <= n => ReadFrom[at[n + 1 - l]] = Rest(l)
    <3> SUFFICES Read(m + 1)
      <4> HIDE DEF Rest
      <4> QED
        BY <2>6
    <3> SUFFICES ASSUME m + 1 <= n
                 PROVE  ReadFrom[at[n + 1 - (m + 1)]] = Rest(m + 1)
      BY DEF Read
    <3>1. PICK i \in 1..n : i = n - m
      <4>1. n - m \in 1..n
        <5> HIDE DEF n
        <5> QED
          BY <2>2
      <4> QED
        BY <4>1
    <3>2. n + 1 - (m + 1) = i /\ n + 1 - m = i + 1 /\ m <= n
      BY <2>2, <3>1
    <3>3. ReadFrom[at[i + 1]] = SubSeq(sent, i + 1, n)
      BY <2>6, <3>2
    <3>4. ASSUME NEW T, NEW s \in Seq(T), NEW x \in 1..Len(s)
          PROVE  <<s[x]>> \o SubSeq(s, x + 1, Len(s)) = SubSeq(s, x, Len(s))
      OBVIOUS
    <3>5. <<sent[i]>> \o SubSeq(sent, i + 1, n) = SubSeq(sent, i, n)
      BY <2>2, <3>4
    <3> QED
      BY <2>3, <3>2, <3>3, <3>5
  <2> HIDE DEF S
  <2>7. n \in S
    BY <2>2, <2>5, <2>6, Induction
  <2>8. ReadFrom[at[n + 1 - n]] = SubSeq(sent, n + 1 - n, n)
    BY <2>2, <2>7 DEF S
  <2>9. n + 1 - n = 1
    BY <2>2
  <2>10. SubSeq(sent, 1, n) = sent
    BY <2>2, SubSeqAll
  <2> QED
    BY <2>4, <2>8, <2>9, <2>10
<1> QED
  BY <1>1, Inductive, PTL
============================================================================
