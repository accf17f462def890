--------------------------- MODULE MetaInfoProofs ---------------------------
(* Bencode and MetaInfo for any strings and inputs.                        *)
EXTENDS MetaInfo, DataLemmas, TLAPS

Tokens == Strs \cup Brackets \cup {"int", "bad"}

----------------------------------------------------------------------------
(* The parser.  Objects nest without a bound, so no set holds them all: the *)
(* invariant says of each object only where it starts and ends, and of the *)
(* values of a dictionary that they end before it does.                     *)

Placed(o, n) == o.from \in Nat \ {0} /\ o.to \in Nat /\ o.from <= o.to /\ o.to <= n
Values(map, n) == \A k \in DOMAIN map : Placed(map[k], n)

Finished(o, n) ==
    /\ Placed(o, n)
    /\ o.type = "dict" => Values(o.val, o.to - 1) /\ input[o.to] = "e"

FrameOK(f, n) ==
    /\ DOMAIN f = {"kind", "from", "map", "list", "key"}
    /\ f.from \in 1..n /\ Values(f.map, n)

FramesOK(open, n) ==
    /\ \E T : open \in Seq(T)
    /\ \A i \in 1..Len(open) : FrameOK(open[i], n)

ParserOK ==
    /\ input \in Inputs /\ pos \in 0..Len(input)
    /\ FramesOK(frames, pos) /\ Len(frames) <= pos
    /\ status \in {"running", "done", "none", "threw", "undefined"}
    /\ status = "done" => Finished(result, pos)

LEMMA InputType ==
    ASSUME ParserOK PROVE input \in Seq(Tokens) /\ Len(input) \in Nat /\ pos \in Nat
<1>1. input \in Seq(Tokens)
  BY BencodeAssumption DEF ParserOK, Tokens
<1> QED
  BY <1>1 DEF ParserOK

LEMMA ValuesLater ==
    ASSUME NEW map, NEW n \in Nat, Values(map, n) PROVE Values(map, n + 1)
BY DEF Values, Placed

LEMMA FramesLater ==
    ASSUME NEW open, NEW n \in Nat, FramesOK(open, n) PROVE FramesOK(open, n + 1)
BY ValuesLater DEF FramesOK, FrameOK

LEMMA Emplaced ==
    ASSUME NEW map, NEW n \in Nat, Values(map, n), NEW k, NEW o, Placed(o, n)
    PROVE  Values(Emplace(map, k, o), n)
BY DEF Values, Emplace

\* Replacing the innermost frame, and adding and dropping one.
LEMMA FramesReplaced ==
    ASSUME NEW open, NEW n \in Nat, FramesOK(open, n), open # <<>>, NEW g, FrameOK(g, n)
    PROVE  /\ FramesOK([open EXCEPT ![Len(open)] = g], n)
           /\ Len([open EXCEPT ![Len(open)] = g]) = Len(open)
<1>1. PICK T : open \in Seq(T)
  BY DEF FramesOK
<1> DEFINE U == T \cup {g}
           new == [open EXCEPT ![Len(open)] = g]
<1>2. open \in Seq(U) /\ g \in U
  BY <1>1
<1> HIDE DEF U
<1>3. new \in Seq(U) /\ Len(new) = Len(open)
  BY <1>2
<1>4. \A i \in 1..Len(open) : new[i] = IF i = Len(open) THEN g ELSE open[i]
  BY <1>2
<1> HIDE DEF new
<1>5. \A i \in 1..Len(new) : FrameOK(new[i], n)
  BY <1>3, <1>4 DEF FramesOK
<1> QED
  BY <1>3, <1>5 DEF FramesOK, new

LEMMA FramesAppended ==
    ASSUME NEW open, NEW n \in Nat, FramesOK(open, n), NEW g, FrameOK(g, n)
    PROVE  FramesOK(Append(open, g), n) /\ Len(Append(open, g)) = Len(open) + 1
<1>1. PICK T : open \in Seq(T)
  BY DEF FramesOK
<1> DEFINE new == Append(open, g)
<1>2. open \in Seq(T \cup {g}) /\ g \in T \cup {g}
  BY <1>1
<1>3. ASSUME NEW U, NEW s \in Seq(U), NEW x \in U PROVE Append(s, x) \in Seq(U)
  OBVIOUS
<1>4. new \in Seq(T \cup {g})
  BY <1>2, <1>3, Zenon
<1>5. /\ Len(open) \in Nat /\ Len(new) = Len(open) + 1
      /\ \A i \in 1..Len(open) : new[i] = open[i]
      /\ new[Len(open) + 1] = g
  BY <1>2, AppendAt
<1> HIDE DEF new
<1>6. \A i \in 1..Len(new) : FrameOK(new[i], n)
  BY <1>5 DEF FramesOK
<1> QED
  BY <1>4, <1>5, <1>6 DEF FramesOK

LEMMA FramesPopped ==
    ASSUME NEW open, NEW n \in Nat, FramesOK(open, n), open # <<>>
    PROVE  /\ FramesOK(SubSeq(open, 1, Len(open) - 1), n)
           /\ Len(SubSeq(open, 1, Len(open) - 1)) = Len(open) - 1
           /\ Len(open) \in Nat \ {0}
<1>1. PICK T : open \in Seq(T)
  BY DEF FramesOK
<1>2. Len(open) \in Nat \ {0}
  BY <1>1
<1>3. PICK m \in Nat : m = Len(open) - 1
  BY <1>2
<1>4. ASSUME NEW s \in Seq(T), NEW k \in 0..Len(s)
      PROVE  /\ SubSeq(s, 1, k) \in Seq(T) /\ Len(SubSeq(s, 1, k)) = k
             /\ \A i \in 1..k : SubSeq(s, 1, k)[i] = s[i]
  OBVIOUS
<1>5. m \in 0..Len(open)
  BY <1>2, <1>3
<1>6. /\ SubSeq(open, 1, m) \in Seq(T) /\ Len(SubSeq(open, 1, m)) = m
      /\ \A i \in 1..m : SubSeq(open, 1, m)[i] = open[i]
  BY <1>1, <1>4, <1>5
<1>7. \A i \in 1..m : FrameOK(open[i], n)
  BY <1>2, <1>3 DEF FramesOK
<1>8. FramesOK(SubSeq(open, 1, m), n)
  BY <1>6, <1>7 DEF FramesOK
<1> QED
  BY <1>2, <1>3, <1>6, <1>8

\* A finished object is put where it belongs.
LEMMA Delivered ==
    ASSUME ParserOK, status = "running", NEW n, n = pos + 1, n <= Len(input),
           pos' = n, UNCHANGED input,
           NEW o, Finished(o, n),
           NEW open, FramesOK(open, n), Len(open) <= n, Deliver(o, open)
    PROVE  ParserOK'
<1>1. /\ n \in Nat /\ n \in 0..Len(input) /\ Len(open) \in Nat /\ Placed(o, n)
      /\ FramesOK(frames, n) /\ Len(frames) <= n
  BY InputType, FramesLater DEF FramesOK, Finished, ParserOK
<1>2. CASE open = <<>>
  <2>1. status' = "done" /\ result' = o /\ frames' = open
    BY <1>2 DEF Deliver
  <2> QED
    BY <1>1, <2>1 DEF ParserOK, Finished
<1>3. CASE open # <<>>
  <2> DEFINE f == open[Len(open)]
  <2>1. FrameOK(f, n)
    BY <1>3, FramesPopped DEF FramesOK
  <2>2. CASE UNCHANGED <<frames, result>> /\ status' = "threw"
    BY <1>1, <2>2 DEF ParserOK
  <2>3. ASSUME NEW g, FrameOK(g, n), frames' = [open EXCEPT ![Len(open)] = g],
               UNCHANGED <<status, result>>
        PROVE  ParserOK'
    <3>1. FramesOK(frames', n) /\ Len(frames') = Len(open)
      BY <1>1, <1>3, <2>3, FramesReplaced
    <3> QED
      BY <1>1, <2>3, <3>1 DEF ParserOK
  <2>4. FrameOK([f EXCEPT !.list = Append(@, o)], n)
    BY <2>1 DEF FrameOK
  <2>5. FrameOK([f EXCEPT !.key = o.val], n)
    BY <2>1 DEF FrameOK
  <2>6. FrameOK([f EXCEPT !.map = Emplace(@, f.key, o), !.key = NoKey], n)
    <3>1. Values(Emplace(f.map, f.key, o), n)
      BY <1>1, <2>1, Emplaced DEF FrameOK
    <3> QED
      BY <2>1, <3>1 DEF FrameOK
  <2> QED
    BY <1>3, <2>2, <2>3, <2>4, <2>5, <2>6 DEF Deliver
<1> QED
  BY <1>2, <1>3

LEMMA ParserStarts == ParserInit => ParserOK
<1> SUFFICES ASSUME ParserInit PROVE ParserOK
  OBVIOUS
<1>1. input \in Seq(Tokens)
  BY BencodeAssumption DEF ParserInit, Tokens
<1>2. FramesOK(<<>>, 0)
  BY EmptyType DEF FramesOK
<1> QED
  BY <1>1, <1>2 DEF ParserInit, ParserOK

LEMMA ParserStep == ParserOK /\ ParserNext => ParserOK'
<1> SUFFICES ASSUME ParserOK, ParserNext PROVE ParserOK'
  OBVIOUS
<1>1. Len(input) \in Nat /\ pos \in Nat /\ FramesOK(frames, pos) /\ FramesOK(frames, pos + 1)
      /\ Len(frames) \in Nat /\ Len(frames) <= pos
  BY InputType, FramesLater DEF ParserOK, FramesOK
<1>2. CASE NextOnEmpty \/ Throw \/ ReadPastEnd
  BY <1>2 DEF NextOnEmpty, Throw, ReadPastEnd, ParserOK
<1>3. CASE TakeAtom
  <2> DEFINE o == IF Token = "int" THEN Object("int", 0, pos + 1, pos + 1)
                  ELSE Object("str", Token, pos + 1, pos + 1)
  <2>1. o.from = pos + 1 /\ o.to = pos + 1 /\ o.type # "dict"
    BY DEF Object
  <2>2. Deliver(o, frames) /\ pos' = pos + 1 /\ pos < Len(input) /\ UNCHANGED input /\ status = "running"
    BY <1>3 DEF TakeAtom, Running
  <2> HIDE DEF o
  <2>3. Finished(o, pos + 1)
    BY <1>1, <2>1 DEF Finished, Placed
  <2> QED
    BY <1>1, <2>2, <2>3, Delivered
<1>4. CASE Enter
  <2> DEFINE f == Frame(Token, pos + 1)
  <2>1. FrameOK(f, pos + 1)
    BY <1>1 DEF FrameOK, Frame, Values, EmptyMap
  <2> HIDE DEF f
  <2>2. FramesOK(Append(frames, f), pos + 1) /\ Len(Append(frames, f)) = Len(frames) + 1
    BY <1>1, <2>1, FramesAppended
  <2>3. frames' = Append(frames, f) /\ pos' = pos + 1 /\ pos < Len(input)
        /\ UNCHANGED <<input, status, result>> /\ status = "running"
    BY <1>4 DEF Enter, f, Running
  <2> QED
    BY <1>1, <2>2, <2>3 DEF ParserOK
<1>5. CASE Leave
  <2>1. frames # <<>> /\ status = "running" /\ input[pos + 1] = "e" /\ pos < Len(input)
        /\ pos' = pos + 1 /\ UNCHANGED input
    BY <1>5 DEF Leave, CanLeave, Running, Token
  <2>2. FramesOK(Pop, pos + 1) /\ Len(Pop) = Len(frames) - 1 /\ FrameOK(Top, pos)
    <3>1. FramesOK(SubSeq(frames, 1, Len(frames) - 1), pos + 1)
          /\ Len(SubSeq(frames, 1, Len(frames) - 1)) = Len(frames) - 1
          /\ Len(frames) \in Nat \ {0}
      BY <1>1, <2>1, FramesPopped
    <3>2. FrameOK(frames[Len(frames)], pos)
      BY <1>1, <3>1 DEF FramesOK
    <3> QED
      BY <3>1, <3>2 DEF Pop, Top
  <2> DEFINE o == IF Top.kind = "d" THEN Object("dict", Top.map, Top.from, pos + 1)
                                    ELSE Object("list", Top.list, Top.from, pos + 1)
  <2>3. /\ o.from = Top.from /\ o.to = pos + 1
        /\ o.type = "dict" => o.val = Top.map
    BY DEF Object
  <2>4. Deliver(o, Pop)
    BY <1>5 DEF Leave
  <2> HIDE DEF o
  <2>5. Finished(o, pos + 1)
    BY <1>1, <2>1, <2>2, <2>3 DEF Finished, Placed, FrameOK
  <2> QED
    BY <1>1, <2>1, <2>2, <2>4, <2>5, Delivered
<1> QED
  BY <1>2, <1>3, <1>4, <1>5 DEF ParserNext

----------------------------------------------------------------------------
(* The constructor: what the reads so far have found.                      *)

LEMMA Order ==
    /\ Then["load"] = "next" /\ Then["next"] = "announce" /\ Then["announce"] = "info"
    /\ Then["info"] = "piece length" /\ Then["piece length"] = "name"
    /\ Then["name"] = "length" /\ Then["length"] = "pieces"
    /\ Then["pieces"] = "constructed"
BY DEF Then, Reads

AtPieces == {"pieces", "constructed"}
AtLength == AtPieces \cup {"length"}
AtName == AtLength \cup {"name"}
AtPieceLength == AtName \cup {"piece length"}
AtInfo == AtPieceLength \cup {"info"}
AtAnnounce == AtInfo \cup {"announce"}

Found ==
    /\ step \in AtAnnounce => status = "done" /\ result.type = "dict"
    /\ step \in AtInfo => HasTyped(result, "announce", "str")
    /\ step \in AtPieceLength => /\ HasTyped(result, "info", "dict")
                                 /\ bencodedInfo = InfoBytes(Info)
    /\ step \in AtName => HasTyped(Info, "piece length", "int")
    /\ step \in AtLength => HasTyped(Info, "name", "str")
    /\ step \in AtPieces => /\ Has(Info, "length") /\ ~Has(Info, "files")
                            /\ fileLength <=> HasTyped(Info, "length", "int")
    /\ step = "constructed" => /\ HasTyped(Info, "pieces", "str")
                               /\ Info.val["pieces"].val \in Whole

IInv ==
    /\ ParserOK
    /\ step \in {"load", "next", Filling, "threw", "undefined"} \cup AtAnnounce
    /\ step \in {"load", Filling} => status = "running"
    /\ Found
    /\ step \in {"threw", "undefined"} => ~Mandatory
    /\ Len(bencodedInfo) <= Len(input)
    /\ fileLength \in BOOLEAN

LEMMA InfoBytesFit ==
    ASSUME ParserOK, NEW o, Placed(o, Len(input))
    PROVE  /\ Len(InfoBytes(o)) <= Len(input)
           /\ o.to = Len(input) - 1 /\ input[Len(input)] = "e" => InfoBytes(o) = Encoding(o)
<1> DEFINE raw == RawBytes(o)
           n == Len(input)
<1>1. input \in Seq(Tokens) /\ n \in Nat /\ o.from \in 1..n /\ o.to \in Nat /\ o.from <= o.to
  BY InputType DEF Placed
<1>2. raw \in Seq(Tokens) /\ Len(raw) = n - o.from + 1
      /\ \A i \in 1..(n - o.from + 1) : raw[i] = input[o.from + i - 1]
  BY <1>1, WindowType DEF RawBytes
<1>3. PICK m \in Nat : m = Len(raw) - 1
  BY <1>1, <1>2
<1>4. SubSeq(raw, 1, m) \in Seq(Tokens) /\ Len(SubSeq(raw, 1, m)) = m
      /\ \A i \in 1..m : SubSeq(raw, 1, m)[i] = raw[i]
  BY <1>2, <1>3
<1>5. InfoBytes(o) = IF raw[Len(raw)] = "e" THEN SubSeq(raw, 1, m) ELSE Append(SubSeq(raw, 1, m), "cut")
  BY <1>3 DEF InfoBytes
<1>6. Len(Append(SubSeq(raw, 1, m), "cut")) = m + 1
  BY <1>4
<1>7. Len(InfoBytes(o)) <= n
  BY <1>1, <1>2, <1>3, <1>4, <1>5, <1>6
<1>8. ASSUME o.to = n - 1, input[n] = "e" PROVE InfoBytes(o) = Encoding(o)
  <2>1. raw[Len(raw)] = "e"
    <3>1. Len(raw) \in 1..(n - o.from + 1) /\ o.from + Len(raw) - 1 = n
      BY <1>1, <1>2
    <3>2. raw[Len(raw)] = input[o.from + Len(raw) - 1]
      BY <1>2, <3>1
    <3> QED
      BY <1>8, <3>1, <3>2
  <2>2. o.to \in 0..n /\ m = o.to - o.from + 1
    BY <1>1, <1>2, <1>3, <1>8
  <2>3. Encoding(o) \in Seq(Tokens) /\ Len(Encoding(o)) = m
        /\ \A i \in 1..m : Encoding(o)[i] = input[o.from + i - 1]
    BY <1>1, <2>2, WindowType DEF Encoding
  <2>4. \A i \in 1..m : SubSeq(raw, 1, m)[i] = Encoding(o)[i]
    BY <1>1, <1>2, <1>3, <1>4, <2>3
  <2>5. ASSUME NEW T, NEW u \in Seq(T), NEW v \in Seq(T), Len(u) = Len(v),
               \A i \in 1..Len(u) : u[i] = v[i]
        PROVE  u = v
    BY <2>5
  <2>6. \A i \in 1..Len(SubSeq(raw, 1, m)) : SubSeq(raw, 1, m)[i] = Encoding(o)[i]
    BY <1>4, <2>4
  <2> HIDE DEF raw
  <2>7. SubSeq(raw, 1, m) = Encoding(o)
    BY <1>4, <2>3, <2>5, <2>6
  <2> QED
    BY <1>5, <2>1, <2>7
<1> QED
  BY <1>7, <1>8

LEMMA InitOK == Init => IInv
<1> SUFFICES ASSUME Init PROVE IInv
  OBVIOUS
<1>1. ParserOK /\ status = "running" /\ Len(input) \in Nat
  BY ParserStarts, InputType DEF Init, ParserInit
<1>2. step = "load" /\ Len(bencodedInfo) = 0 /\ fileLength = FALSE
  BY DEF Init
<1>3. Found
  BY <1>2 DEF Found, AtAnnounce, AtInfo, AtPieceLength, AtName, AtLength, AtPieces
<1>4. Len(bencodedInfo) <= Len(input)
  BY <1>1, <1>2
<1> QED
  BY <1>1, <1>2, <1>3, <1>4 DEF IInv

\* The reads leave the parser alone.
LEMMA SameParser ==
    ASSUME UNCHANGED parser
    PROVE  /\ ParserOK' = ParserOK /\ Len(input)' = Len(input)
           /\ UNCHANGED <<input, pos, frames, status, result>>
           /\ Info' = Info
           /\ \A k, t : HasTyped(result, k, t)' = HasTyped(result, k, t)
           /\ \A k, t : HasTyped(Info, k, t)' = HasTyped(Info, k, t)
BY DEF parser, ParserOK, FramesOK, FrameOK, Finished, HasTyped, Has, Info, Values, Placed

\* A read goes on exactly if it finds what it looks for.
LEMMA Outcomes ==
    ASSUME NEW d, NEW key, NEW type
    PROVE  Outcome(d, key, type) = IF HasTyped(d, key, type) THEN Then[step]
                                   ELSE IF Has(d, key) THEN "threw" ELSE "undefined"
BY DEF Outcome, HasTyped

\* The info dictionary is a value of the top one, and ends before it does.
LEMMA InfoPlaced ==
    ASSUME ParserOK, status = "done", result.type = "dict", Has(result, "info")
    PROVE  /\ Placed(Info, Len(input)) /\ Info.to < result.to
           /\ input[result.to] = "e" /\ result.to \in Nat /\ result.to <= Len(input)
<1>1. Finished(result, pos) /\ Len(input) \in Nat /\ pos \in Nat /\ pos <= Len(input)
  BY InputType DEF ParserOK
<1>2. Placed(Info, result.to - 1)
  BY <1>1 DEF Finished, Values, Has, Info
<1> QED
  BY <1>1, <1>2 DEF Finished, Placed

LEMMA StepOK == IInv /\ [Next]_vars => IInv'
<1> SUFFICES ASSUME IInv, [Next]_vars PROVE IInv'
  OBVIOUS
<1> USE DEF AtAnnounce, AtInfo, AtPieceLength, AtName, AtLength, AtPieces
<1>1. ParserOK /\ fileLength \in BOOLEAN /\ Len(bencodedInfo) <= Len(input) /\ Found
  BY DEF IInv
<1>2. CASE UNCHANGED vars
  <2>1. UNCHANGED parser /\ UNCHANGED <<step, bencodedInfo, fileLength>>
    BY <1>2 DEF vars
  <2> QED
    BY <2>1, SameParser DEF IInv, Found, Mandatory, InfoBytes, RawBytes, Has
<1>3. CASE OpenFails \/ Load \/ LoadFails
  BY <1>1, <1>3, SameParser, Order
  DEF OpenFails, Load, LoadFails, IInv, Found, Mandatory, Filling
<1>4. CASE Parse
  <2>1. ParserOK' /\ step = "next" /\ UNCHANGED <<step, bencodedInfo, fileLength, input>>
    BY <1>1, <1>4, ParserStep DEF Parse, ParserNext, NextOnEmpty, TakeAtom, Enter, Leave,
       Throw, ReadPastEnd
  <2>2. Found'
    BY <2>1 DEF Found
  <2> QED
    BY <1>1, <2>1, <2>2 DEF IInv, Filling
<1>5. ASSUME UNCHANGED parser, step' = "threw" \/ step' = "undefined", ~Mandatory,
             Len(bencodedInfo') <= Len(input), fileLength' \in BOOLEAN
      PROVE  IInv'
  <2>1. ~Mandatory'
    BY <1>5, SameParser DEF Mandatory, Has
  <2>2. Found'
    BY <1>5 DEF Found
  <2> QED
    BY <1>1, <1>5, <2>1, <2>2, SameParser DEF IInv, Filling
<1>6. ASSUME UNCHANGED parser, Found', step' \in AtAnnounce,
             Len(bencodedInfo') <= Len(input), fileLength' \in BOOLEAN
      PROVE  IInv'
  BY <1>1, <1>6, SameParser DEF IInv, Filling
<1>7. CASE ReadTop
  <2>1. UNCHANGED parser /\ UNCHANGED <<bencodedInfo, fileLength>>
    BY <1>7 DEF ReadTop
  <2>2. CASE status = "done" /\ result.type = "dict"
    <3>1. step' = "announce"
      BY <1>7, <2>2, Order DEF ReadTop, At
    <3>2. Found'
      BY <2>1, <2>2, <3>1, SameParser DEF Found
    <3> QED
      BY <1>1, <1>6, <2>1, <3>1, <3>2
  <2>3. CASE ~ (status = "done" /\ result.type = "dict")
    BY <1>1, <1>5, <1>7, <2>1, <2>3 DEF ReadTop, Mandatory
  <2> QED
    BY <2>2, <2>3
<1>8. CASE ReadAnnounce
  <2>1. UNCHANGED parser /\ UNCHANGED <<bencodedInfo, fileLength>> /\ step = "announce"
        /\ step' = Outcome(result, "announce", "str")
    BY <1>8 DEF ReadAnnounce, At
  <2>2. CASE HasTyped(result, "announce", "str")
    <3>1. step' = "info"
      BY <2>1, <2>2, Order, Outcomes
    <3>2. Found'
      BY <1>1, <2>1, <2>2, <3>1, SameParser DEF Found
    <3> QED
      BY <1>1, <1>6, <2>1, <3>1, <3>2
  <2>3. CASE ~HasTyped(result, "announce", "str")
    BY <1>1, <1>5, <2>1, <2>3, Outcomes DEF Mandatory
  <2> QED
    BY <2>2, <2>3
<1>9. CASE ReadInfo
  <2>1. UNCHANGED parser /\ UNCHANGED fileLength /\ step = "info"
        /\ step' = Outcome(result, "info", "dict")
        /\ bencodedInfo' = IF step' = Then[step] THEN InfoBytes(Info) ELSE bencodedInfo
    BY <1>9 DEF ReadInfo, At
  <2>2. CASE HasTyped(result, "info", "dict")
    <3>1. step' = "piece length" /\ bencodedInfo' = InfoBytes(Info)
      BY <2>1, <2>2, Order, Outcomes
    <3>2. Len(InfoBytes(Info)) <= Len(input)
      BY <1>1, <2>1, <2>2, InfoPlaced, InfoBytesFit DEF Found, HasTyped
    <3>3. InfoBytes(Info)' = InfoBytes(Info)
      BY <2>1, SameParser DEF InfoBytes, RawBytes
    <3>4. Found'
      BY <1>1, <2>1, <2>2, <3>1, <3>3, SameParser DEF Found
    <3> QED
      BY <1>1, <1>6, <2>1, <3>1, <3>2, <3>4
  <2>3. CASE ~HasTyped(result, "info", "dict")
    <3>1. step' \in {"threw", "undefined"} /\ bencodedInfo' = bencodedInfo
      BY <2>1, <2>3, Order, Outcomes
    <3> QED
      BY <1>1, <1>5, <2>1, <2>3, <3>1 DEF Mandatory
  <2> QED
    BY <2>2, <2>3
<1>10. ASSUME UNCHANGED <<parser, bencodedInfo, fileLength>>
       PROVE  InfoBytes(Info)' = InfoBytes(Info) /\ bencodedInfo' = bencodedInfo
  BY <1>10, SameParser DEF InfoBytes, RawBytes
<1>11. CASE ReadPieceLength
  <2>1. UNCHANGED <<parser, bencodedInfo, fileLength>> /\ step = "piece length"
        /\ step' = Outcome(Info, "piece length", "int")
    BY <1>11 DEF ReadPieceLength, At
  <2>2. CASE HasTyped(Info, "piece length", "int")
    <3>1. step' = "name"
      BY <2>1, <2>2, Order, Outcomes
    <3>2. Found'
      BY <1>1, <1>10, <2>1, <2>2, <3>1, SameParser DEF Found
    <3> QED
      BY <1>1, <1>6, <2>1, <3>1, <3>2
  <2>3. CASE ~HasTyped(Info, "piece length", "int")
    BY <1>1, <1>5, <2>1, <2>3, Outcomes DEF Mandatory
  <2> QED
    BY <2>2, <2>3
<1>12. CASE ReadName
  <2>1. UNCHANGED <<parser, bencodedInfo, fileLength>> /\ step = "name"
        /\ step' = Outcome(Info, "name", "str")
    BY <1>12 DEF ReadName, At
  <2>2. CASE HasTyped(Info, "name", "str")
    <3>1. step' = "length"
      BY <2>1, <2>2, Order, Outcomes
    <3>2. Found'
      BY <1>1, <1>10, <2>1, <2>2, <3>1, SameParser DEF Found
    <3> QED
      BY <1>1, <1>6, <2>1, <3>1, <3>2
  <2>3. CASE ~HasTyped(Info, "name", "str")
    BY <1>1, <1>5, <2>1, <2>3, Outcomes DEF Mandatory
  <2> QED
    BY <2>2, <2>3
<1>13. CASE ReadLength
  <2>1. UNCHANGED <<parser, bencodedInfo>> /\ step = "length" /\ fileLength' \in BOOLEAN
        /\ fileLength' = (HasTyped(Info, "length", "int") /\ ~Has(Info, "files"))
        /\ step' = IF Has(Info, "length") /\ ~Has(Info, "files") THEN Then[step] ELSE "threw"
    BY <1>13 DEF ReadLength, At, HasTyped
  <2>2. CASE Has(Info, "length") /\ ~Has(Info, "files")
    <3>1. step' = "pieces"
      BY <2>1, <2>2, Order
    <3>2. InfoBytes(Info)' = InfoBytes(Info)
      BY <2>1, SameParser DEF InfoBytes, RawBytes
    <3>3. Found'
      BY <1>1, <2>1, <2>2, <3>1, <3>2, SameParser DEF Found, Has
    <3> QED
      BY <1>1, <1>6, <2>1, <3>1, <3>3
  <2>3. CASE ~ (Has(Info, "length") /\ ~Has(Info, "files"))
    BY <1>1, <1>5, <2>1, <2>3 DEF Mandatory
  <2> QED
    BY <2>2, <2>3
<1>14. CASE ReadPieces
  <2> DEFINE good == HasTyped(Info, "pieces", "str") /\ Info.val["pieces"].val \in Whole
  <2>1. UNCHANGED <<parser, bencodedInfo, fileLength>> /\ step = "pieces"
        /\ step' = LET o == Outcome(Info, "pieces", "str")
                   IN  IF o # Then[step] THEN o
                       ELSE IF Info.val["pieces"].val \in Whole THEN "constructed" ELSE "threw"
    BY <1>14 DEF ReadPieces, At
  <2>2. CASE good
    <3>1. step' = "constructed"
      BY <2>1, <2>2, Order, Outcomes
    <3>2. Found'
      BY <1>1, <1>10, <2>1, <2>2, <3>1, SameParser DEF Found, Has
    <3> QED
      BY <1>1, <1>6, <2>1, <3>1, <3>2
  <2>3. CASE ~good
    <3>1. step' \in {"threw", "undefined"}
      BY <2>1, <2>3, Order, Outcomes
    <3>2. ~Mandatory
      BY <2>3 DEF Mandatory
    <3> QED
      BY <1>1, <1>5, <2>1, <3>1, <3>2
  <2> QED
    BY <2>2, <2>3
<1> QED
  BY <1>2, <1>3, <1>4, <1>7, <1>8, <1>9, <1>11, <1>12, <1>13, <1>14 DEF Next, Fill

LEMMA Inductive == Spec => []IInv
BY InitOK, StepOK, PTL DEF Spec

----------------------------------------------------------------------------
\* Type correctness: the call stack of the parser is never deeper than the
\* tokens it consumed, and never more is hashed than the file has.
THEOREM TypeCorrect == Spec => []TypeOK
<1>1. IInv => TypeOK
  BY DEF IInv, TypeOK, ParserOK, AtAnnounce, AtInfo, AtPieceLength, AtName, AtLength,
     AtPieces, Reads, Ends
<1> QED
  BY <1>1, Inductive, PTL

\* The constructor succeeds on exactly the files that have every mandatory part
\* ("length" with any type), and then knows the length of the file exactly when
\* "length" is an integer.
THEOREM Complete == Spec => []ConstructedIffComplete
<1>1. IInv => ConstructedIffComplete
  BY DEF IInv, Found, ConstructedIffComplete, Mandatory, AtAnnounce, AtInfo, AtPieceLength,
     AtName, AtLength, AtPieces
<1> QED
  BY <1>1, Inductive, PTL

\* The infohash is taken of the info dictionary when that is the last thing in
\* the file, for any file.
THEOREM InfohashRight == Spec => []InfohashRightWhenLast
<1>1. IInv => InfohashRightWhenLast
  <2> SUFFICES ASSUME IInv, step = "constructed", Info.to = Len(input) - 1
               PROVE  bencodedInfo = Encoding(Info)
    BY DEF InfohashRightWhenLast, infohash_binary
  <2>1. ParserOK /\ status = "done" /\ result.type = "dict" /\ Has(result, "info")
        /\ bencodedInfo = InfoBytes(Info)
    BY DEF IInv, Found, HasTyped, AtAnnounce, AtInfo, AtPieceLength, AtName, AtLength, AtPieces
  <2>2. Placed(Info, Len(input)) /\ input[Len(input)] = "e"
    BY <2>1, InfoPlaced, InputType DEF Placed
  <2> QED
    BY <2>1, <2>2, InfoBytesFit
<1> QED
  BY <1>1, Inductive, PTL

----------------------------------------------------------------------------
(* Brackets and elements.                                                  *)

\* One token more.
LEMMA DepthStep ==
    /\ Depth(0) = 0
    /\ \A n \in Nat :
         /\ Depth(n) \in Int
         /\ Cardinality(Opens(n)) > Cardinality(Closes(n)) <=> Depth(n) >= 1
         /\ Depth(n + 1) = IF input[n + 1] \in {"d", "l"} THEN Depth(n) + 1
                           ELSE IF input[n + 1] = "e" THEN Depth(n) - 1 ELSE Depth(n)
<1>1. ASSUME NEW n \in Nat
      PROVE  /\ IsFiniteSet(Opens(n)) /\ Cardinality(Opens(n)) \in Nat
             /\ IsFiniteSet(Closes(n)) /\ Cardinality(Closes(n)) \in Nat
  <2>1. IsFiniteSet(1..n)
    BY FS_Interval
  <2>2. Opens(n) \in SUBSET (1..n) /\ Closes(n) \in SUBSET (1..n)
    BY DEF Opens, Closes
  <2> QED
    BY <2>1, <2>2, FS_Subset, FS_CardinalityType
<1>2. Depth(0) = 0
  <2>1. Opens(0) = {} /\ Closes(0) = {}
    BY DEF Opens, Closes
  <2> QED
    BY <2>1, FS_EmptySet DEF Depth
<1>3. ASSUME NEW n \in Nat
      PROVE  Depth(n + 1) = IF input[n + 1] \in {"d", "l"} THEN Depth(n) + 1
                            ELSE IF input[n + 1] = "e" THEN Depth(n) - 1 ELSE Depth(n)
  <2>1. 1..(n + 1) = (1..n) \cup {n + 1} /\ n + 1 \notin 1..n
    OBVIOUS
  <2>2. Opens(n + 1) = IF input[n + 1] \in {"d", "l"} THEN Opens(n) \cup {n + 1} ELSE Opens(n)
    BY <2>1 DEF Opens
  <2>3. Closes(n + 1) = IF input[n + 1] = "e" THEN Closes(n) \cup {n + 1} ELSE Closes(n)
    BY <2>1 DEF Closes
  <2>4. /\ Cardinality(Opens(n) \cup {n + 1}) = Cardinality(Opens(n)) + 1
        /\ Cardinality(Closes(n) \cup {n + 1}) = Cardinality(Closes(n)) + 1
    <3>1. n + 1 \notin Opens(n) /\ n + 1 \notin Closes(n)
      BY <2>1 DEF Opens, Closes
    <3> QED
      BY <1>1, <3>1, FS_AddElement
  <2> DEFINE a == Cardinality(Opens(n))
             b == Cardinality(Closes(n))
  <2>5. Cardinality(Opens(n + 1)) = IF input[n + 1] \in {"d", "l"} THEN a + 1 ELSE a
    BY <2>2, <2>4
  <2>6. Cardinality(Closes(n + 1)) = IF input[n + 1] = "e" THEN b + 1 ELSE b
    BY <2>3, <2>4
  <2>7. a \in Nat /\ b \in Nat
    BY <1>1
  <2>8. Depth(n) = a - b /\ Depth(n + 1) = Cardinality(Opens(n + 1)) - Cardinality(Closes(n + 1))
    BY DEF Depth
  <2>9. ~ (input[n + 1] \in {"d", "l"} /\ input[n + 1] = "e")
    OBVIOUS
  <2> HIDE DEF a, b
  <2> QED
    BY <2>5, <2>6, <2>7, <2>8, <2>9
<1>4. ASSUME NEW n \in Nat
      PROVE  /\ Depth(n) \in Int
             /\ Cardinality(Opens(n)) > Cardinality(Closes(n)) <=> Depth(n) >= 1
  BY <1>1 DEF Depth
<1> QED
  BY <1>2, <1>3, <1>4

LEMMA Parity == ASSUME NEW n \in Nat PROVE n % 2 \in {0, 1} /\ (n + 1) % 2 = 1 - (n % 2)
OBVIOUS

\* What stands directly inside the bracket at k, up to e.
Inside(k, e) == {j \in (k + 1)..e : Depth(j - 1) = Depth(k) /\ input[j] # "e"}
Count(k, e) == Cardinality(Inside(k, e))

\* A dictionary's elements so far: every other one is a string.
Alternates(k, e) == \A j \in Inside(k, e) : Count(k, j) % 2 = 1 => input[j] \in Strs

\* c is the bracket that closes the one at k.
Closing(k, c) == Depth(c) = Depth(k) - 1 /\ \A m \in k..(c - 1) : Depth(m) >= Depth(k)

LEMMA InsideType ==
    ASSUME NEW k \in Nat, NEW e \in Nat
    PROVE  /\ IsFiniteSet(Inside(k, e)) /\ Count(k, e) \in Nat
           /\ Inside(k, e) \subseteq (k + 1)..e
           /\ \A j \in Nat : j <= e => {i \in Inside(k, e) : i <= j} = Inside(k, j)
<1>1. IsFiniteSet((k + 1)..e) /\ Inside(k, e) \in SUBSET ((k + 1)..e)
  BY FS_Interval DEF Inside
<1> QED
  BY <1>1, FS_Subset, FS_CardinalityType DEF Inside, Count

\* One element more, at j, and the tokens inside it.
LEMMA OneElement ==
    ASSUME NEW k \in Nat, NEW e \in Nat, NEW j \in (k + 1)..e,
           Depth(j - 1) = Depth(k), input[j] # "e",
           \A m \in j..(e - 1) : Depth(m) # Depth(k)
    PROVE  /\ Inside(k, e) = Inside(k, j - 1) \cup {j}
           /\ Inside(k, j) = Inside(k, e)
           /\ Count(k, e) = Count(k, j - 1) + 1
           /\ Count(k, e) % 2 = 1 - (Count(k, j - 1) % 2)
<1>1. ASSUME NEW i \in (j + 1)..e PROVE i \notin Inside(k, e)
  <2>1. i - 1 \in j..(e - 1)
    BY <1>1
  <2> QED
    BY <2>1 DEF Inside
<1>2. Inside(k, e) = Inside(k, j - 1) \cup {j}
  BY <1>1 DEF Inside
<1>3. Inside(k, j) = Inside(k, j - 1) \cup {j}
  BY DEF Inside
<1>4. j \notin Inside(k, j - 1) /\ j - 1 \in Nat
  BY DEF Inside
<1>5. IsFiniteSet(Inside(k, j - 1)) /\ Count(k, j - 1) \in Nat
  BY <1>4, InsideType
<1>6. Count(k, e) = Count(k, j - 1) + 1
  BY <1>2, <1>4, <1>5, FS_AddElement DEF Count
<1> QED
  BY <1>2, <1>3, <1>5, <1>6, Parity

\* The bracket that closes one is the only one, and Elements finds it.
LEMMA ElementsInside ==
    ASSUME NEW n \in Nat, NEW k \in 1..n, NEW c \in k..n, Closing(k, c)
    PROVE  Elements(k, n) = Inside(k, c - 1)
<1>1. ASSUME NEW d \in k..n, Closing(k, d) PROVE d = c
  <2>1. Depth(k) \in Int
    BY DepthStep
  <2>2. ~ (d < c)
    <3>1. ASSUME d < c PROVE Depth(d) >= Depth(k)
      BY <3>1 DEF Closing
    <3> QED
      BY <1>1, <2>1, <3>1 DEF Closing
  <2>3. ~ (c < d)
    <3>1. ASSUME c < d PROVE Depth(c) >= Depth(k)
      BY <1>1, <3>1 DEF Closing
    <3> QED
      BY <2>1, <3>1 DEF Closing
  <2> QED
    BY <2>2, <2>3
<1> DEFINE close == CHOOSE d \in k..n : /\ Depth(d) = Depth(k) - 1
                                        /\ \A m \in k..(d - 1) : Depth(m) >= Depth(k)
<1>2. close = c
  <2>1. close \in k..n /\ Closing(k, close)
    BY DEF Closing
  <2> HIDE DEF close
  <2> QED
    BY <1>1, <2>1
<1>3. Elements(k, n) = {j \in (k + 1)..(close - 1) : Depth(j - 1) = Depth(k) /\ input[j] # "e"}
  BY DEF Elements
<1> HIDE DEF close
<1> QED
  BY <1>2, <1>3 DEF Inside

\* What the grammar asks of a dictionary, seen from the bracket that closes it.
Alternating(k, n) ==
    LET es == Elements(k, n) IN
    \A j \in es :
        LET nth == Cardinality({i \in es : i <= j}) IN
        /\ nth % 2 = 1 => input[j] \in Strs
        /\ nth % 2 = 1 => \E i \in es : i > j

LEMMA DictionaryFine ==
    ASSUME NEW n \in Nat, NEW k \in 1..n, NEW c \in k..n, Closing(k, c)
    PROVE  Alternating(k, n) <=> Alternates(k, c - 1) /\ Count(k, c - 1) % 2 = 0
<1> DEFINE es == Inside(k, c - 1)
<1>1. Elements(k, n) = es /\ c - 1 \in Nat /\ c \in Nat /\ k \in Nat
  BY ElementsInside
<1>2. /\ es \subseteq (k + 1)..(c - 1) /\ Count(k, c - 1) \in Nat
      /\ \A j \in Nat : j <= c - 1 => {i \in es : i <= j} = Inside(k, j)
  BY <1>1, InsideType
<1>3. \A j \in es : Cardinality({i \in es : i <= j}) = Count(k, j) /\ j \in Nat
  <2> SUFFICES ASSUME NEW j \in es PROVE Cardinality({i \in es : i <= j}) = Count(k, j) /\ j \in Nat
    OBVIOUS
  <2>1. j \in Nat /\ j <= c - 1
    BY <1>1, <1>2
  <2>2. {i \in es : i <= j} = Inside(k, j)
    BY <1>2, <2>1
  <2> QED
    BY <2>1, <2>2 DEF Count
<1>4. Alternating(k, n) <=> \A j \in es :
        /\ Count(k, j) % 2 = 1 => input[j] \in Strs
        /\ Count(k, j) % 2 = 1 => \E i \in es : i > j
  BY <1>1, <1>3 DEF Alternating
<1>5. \A j \in es : (\A i \in es : i <= j) => Count(k, j) = Count(k, c - 1)
  <2> SUFFICES ASSUME NEW j \in es, \A i \in es : i <= j PROVE Inside(k, j) = es
    BY DEF Count
  <2>1. {i \in es : i <= j} = es
    OBVIOUS
  <2> QED
    BY <1>2, <2>1
<1>6. ASSUME Alternates(k, c - 1), Count(k, c - 1) % 2 = 0, NEW j \in es, Count(k, j) % 2 = 1
      PROVE  \E i \in es : i > j
  <2>1. ~ \A i \in es : i <= j
    BY <1>5, <1>6
  <2> QED
    BY <1>2, <2>1
<1>7. ASSUME Count(k, c - 1) % 2 # 0 PROVE \E j \in es : Count(k, j) % 2 = 1 /\ \A i \in es : i <= j
  <2> DEFINE Above == {m \in Nat : \A i \in es : i <= m}
  <2>1. es # {}
    <3>1. Cardinality({}) = 0 /\ 0 % 2 = 0
      BY FS_EmptySet
    <3> QED
      BY <1>7, <3>1 DEF Count
  <2>2. c \in Above
    BY <1>1, <1>2
  <2>3. PICK m \in Above : \A a \in Above : m <= a
    <3>1. Above \subseteq Nat /\ Above # {}
      BY <2>2
    <3> HIDE DEF Above
    <3> QED
      BY <3>1, Least
  <2>4. m \in es
    <3> SUFFICES ASSUME m \notin es PROVE FALSE
      OBVIOUS
    <3>1. PICK i \in es : TRUE
      BY <2>1
    <3>2. m - 1 \in Nat /\ m # 0
      BY <1>2, <2>3, <3>1
    <3>3. \A a \in es : a <= m - 1
      BY <1>2, <2>3
    <3>4. m - 1 \in Above
      BY <3>2, <3>3
    <3> QED
      BY <2>3, <3>4
  <2>5. Count(k, m) = Count(k, c - 1)
    BY <1>5, <2>3, <2>4
  <2> QED
    BY <1>2, <1>7, <2>3, <2>4, <2>5, Parity
<1> HIDE DEF es
<1>8. Alternates(k, c - 1) <=> \A j \in es : Count(k, j) % 2 = 1 => input[j] \in Strs
  BY DEF Alternates, es
<1>9. ASSUME Alternating(k, n) PROVE Count(k, c - 1) % 2 = 0
  <2>1. ASSUME NEW j \in es, Count(k, j) % 2 = 1, \A i \in es : i <= j PROVE FALSE
    <3>1. PICK i \in es : i > j
      BY <1>4, <1>9, <2>1
    <3> QED
      BY <1>2, <2>1, <3>1
  <2> QED
    BY <1>7, <2>1
<1> QED
  BY <1>4, <1>6, <1>8, <1>9

----------------------------------------------------------------------------
(* The state of the parser in the terms of the grammar.                    *)

\* The open calls are the brackets that are not closed yet, outermost first.
Nested(open, n) ==
    /\ Len(open) = Depth(n)
    /\ \A i \in 1..Len(open) :
         /\ open[i].from \in 1..n /\ open[i].kind \in {"d", "l"}
         /\ input[open[i].from] = open[i].kind
         /\ Depth(open[i].from) = i
         /\ \A m \in (open[i].from)..n : Depth(m) >= i

\* Every other bracket is closed, and was a proper dictionary if it was one.
Closed(k, n) ==
    \E c \in k..n : /\ Closing(k, c)
                    /\ input[k] = "d" => Alternates(k, c - 1) /\ Count(k, c - 1) % 2 = 0

Matched(open, n) ==
    \A k \in Opens(n) : (\E i \in 1..Len(open) : open[i].from = k) \/ Closed(k, n)

\* A call has its elements complete up to the call inside it, or up to e.
Until(open, i, e) == IF i = Len(open) THEN e ELSE open[i + 1].from - 1

\* take_dict holds a key exactly after an odd number of elements.
Keys(open, e) ==
    \A i \in 1..Len(open) :
        IF open[i].kind = "d"
        THEN /\ Alternates(open[i].from, Until(open, i, e))
             /\ open[i].key = NoKey <=> Count(open[i].from, Until(open, i, e)) % 2 = 0
        ELSE open[i].key = NoKey

Legal(n) == \A k \in 1..n : input[k] # "bad"
Within(n) == \A m \in 1..n : Depth(m) >= 1

Going(open, n) ==
    Legal(n) /\ Within(n) /\ Nested(open, n) /\ Matched(open, n) /\ Keys(open, n)

Grammar == (status = "running" => Going(frames, pos)) /\ ParsesExactlyOne

----------------------------------------------------------------------------
(* Inputs that are refused.                                                *)

\* An encoding is longer than what stays inside its first bracket.
LEMMA EndsLater ==
    ASSUME NEW e \in Nat, Within(e), NEW n \in 1..Len(input), Len(input) \in Nat, EncodesOne(n)
    PROVE  n > e /\ Depth(n) = 0 /\ n \in Nat
<1>1. Depth(n) = 0 /\ n \in Nat
  BY DEF EncodesOne
<1>2. ~ (n <= e)
  BY <1>1 DEF Within
<1> QED
  BY <1>1, <1>2

\* Depth changes by one, so what ends below a bracket closes it.
LEMMA ClosingExists ==
    ASSUME NEW k \in Nat, NEW e \in Nat, k <= e, NEW n \in Nat, e < n,
           \A m \in k..e : Depth(m) >= Depth(k), Depth(n) < Depth(k)
    PROVE  \E c \in (e + 1)..n : Closing(k, c)
<1> DEFINE S == {m \in (e + 1)..n : Depth(m) < Depth(k)}
<1>1. n \in S
  OBVIOUS
<1>2. PICK c \in S : \A m \in S : c <= m
  <2>1. S \subseteq Nat /\ S # {}
    BY <1>1
  <2> HIDE DEF S
  <2> QED
    BY <2>1, Least
<1>3. \A m \in Nat : Depth(m) \in Int
  BY DepthStep
<1>4. ASSUME NEW m \in k..(c - 1) PROVE Depth(m) >= Depth(k)
  <2>1. CASE m \in k..e
    BY <2>1
  <2>2. CASE m \in (e + 1)..n
    BY <1>2, <1>3, <2>2
  <2> QED
    BY <1>2, <2>1, <2>2
<1>5. c - 1 \in k..(c - 1) /\ c - 1 \in Nat /\ (c - 1) + 1 = c
  BY <1>2
<1>6. Depth(c) >= Depth(c - 1) - 1
  <2>1. Depth((c - 1) + 1) >= Depth(c - 1) - 1
    BY <1>3, <1>5, DepthStep
  <2> QED
    BY <1>5, <2>1
<1>7. Depth(c - 1) >= Depth(k)
  BY <1>4, <1>5
<1>8. Depth(c) = Depth(k) - 1
  BY <1>2, <1>3, <1>5, <1>6, <1>7
<1> QED
  BY <1>2, <1>4, <1>8 DEF Closing

\* What an encoding says of one dictionary in it.
LEMMA DictionaryIn ==
    ASSUME NEW n \in Nat, EncodesOne(n), NEW k \in 1..n, input[k] = "d",
           NEW c \in k..n, Closing(k, c)
    PROVE  Alternates(k, c - 1) /\ Count(k, c - 1) % 2 = 0
<1>1. k \in Opens(n)
  BY DEF Opens
<1>2. Alternating(k, n)
  BY <1>1 DEF EncodesOne, Alternating
<1> QED
  BY <1>2, DictionaryFine

\* A dictionary key that is no string.
LEMMA KeyRefused ==
    ASSUME Len(input) \in Nat, NEW k \in Nat \ {0}, NEW j \in Nat, k < j, input[k] = "d",
           Within(j - 1), \A m \in k..(j - 1) : Depth(m) >= Depth(k),
           Depth(j - 1) = Depth(k), input[j] # "e", input[j] \notin Strs,
           Count(k, j - 1) % 2 = 0
    PROVE  \A n \in 1..Len(input) : ~EncodesOne(n)
<1> SUFFICES ASSUME NEW n \in 1..Len(input), EncodesOne(n) PROVE FALSE
  OBVIOUS
<1>1. j - 1 \in Nat /\ (j - 1) + 1 = j /\ \A m \in Nat : Depth(m) \in Int
  BY DepthStep
<1>2. Depth(j) >= Depth(j - 1)
  <2>1. \A q \in Nat : input[q + 1] # "e" => Depth(q + 1) >= Depth(q)
    <3> SUFFICES ASSUME NEW q \in Nat, input[q + 1] # "e" PROVE Depth(q + 1) >= Depth(q)
      OBVIOUS
    <3>1. Depth(q + 1) = IF input[q + 1] \in {"d", "l"} THEN Depth(q) + 1 ELSE Depth(q)
      BY DepthStep
    <3>2. Depth(q) \in Int
      BY <1>1
    <3> QED
      BY <3>1, <3>2
  <2>2. Depth((j - 1) + 1) >= Depth(j - 1)
    <3>1. input[(j - 1) + 1] # "e"
      BY <1>1
    <3> QED
      BY <1>1, <2>1, <3>1
  <2> QED
    BY <1>1, <2>2
<1>3. Depth(j) >= 1 /\ Depth(k) >= 1
  <2>1. Depth(j - 1) >= 1
    BY <1>1 DEF Within
  <2> QED
    BY <1>1, <1>2, <2>1
<1>4. n > j /\ Depth(n) = 0 /\ n \in Nat
  <2>1. n > j - 1 /\ Depth(n) = 0 /\ n \in Nat
    BY <1>1, EndsLater
  <2> QED
    BY <1>1, <1>3, <2>1
<1>5. \A m \in k..j : Depth(m) >= Depth(k)
  <2>1. ASSUME NEW m \in k..j PROVE Depth(m) >= Depth(k)
    <3>1. m = j \/ m \in k..(j - 1)
      OBVIOUS
    <3> QED
      BY <1>1, <1>2, <3>1
  <2> QED
    BY <2>1
<1>6. PICK c \in (j + 1)..n : Closing(k, c)
  <2>1. k \in Nat /\ k <= j /\ j < n /\ Depth(n) < Depth(k)
    BY <1>1, <1>3, <1>4
  <2> QED
    BY <1>4, <1>5, <2>1, ClosingExists
<1>7. Alternates(k, c - 1)
  <2>1. k \in 1..n /\ c \in k..n
    BY <1>4, <1>6
  <2> QED
    BY <1>4, <1>6, <2>1, DictionaryIn
<1>8. Count(k, j) % 2 = 1
  <2>1. j \in (k + 1)..j /\ \A m \in j..(j - 1) : Depth(m) # Depth(k)
    OBVIOUS
  <2> QED
    BY <2>1, OneElement
<1>9. j \in Inside(k, c - 1)
  BY <1>6 DEF Inside
<1> QED
  BY <1>7, <1>8, <1>9 DEF Alternates

\* A dictionary that ends after a key.
LEMMA EndRefused ==
    ASSUME Len(input) \in Nat, NEW k \in Nat \ {0}, NEW e \in Nat, k <= e, input[k] = "d",
           Within(e), \A m \in k..e : Depth(m) >= Depth(k),
           Depth(e + 1) = Depth(k) - 1, Count(k, e) % 2 # 0
    PROVE  \A n \in 1..Len(input) : ~EncodesOne(n)
<1> SUFFICES ASSUME NEW n \in 1..Len(input), EncodesOne(n) PROVE FALSE
  OBVIOUS
<1>1. n > e /\ n \in Nat
  BY EndsLater
<1>2. k \in 1..n /\ e + 1 \in k..n /\ (e + 1) - 1 = e
  BY <1>1
<1>3. Closing(k, e + 1)
  BY <1>2 DEF Closing
<1>4. Count(k, (e + 1) - 1) % 2 = 0
  BY <1>1, <1>2, <1>3, DictionaryIn
<1> QED
  BY <1>2, <1>4

\* The other way round: what is complete at depth 0 is an encoding.
LEMMA Finishes ==
    ASSUME NEW n \in Nat \ {0}, Legal(n), Within(n - 1), Depth(n) = 0, Matched(<<>>, n)
    PROVE  EncodesOne(n)
<1>1. \A m \in 1..(n - 1) : Cardinality(Opens(m)) > Cardinality(Closes(m))
  BY DepthStep DEF Within
<1>2. ASSUME NEW k \in Opens(n), input[k] = "d" PROVE Alternating(k, n)
  <2>1. PICK c \in k..n : Closing(k, c) /\ Alternates(k, c - 1) /\ Count(k, c - 1) % 2 = 0
    BY <1>2 DEF Matched, Closed
  <2>2. k \in 1..n
    BY DEF Opens
  <2> QED
    BY <2>1, <2>2, DictionaryFine
<1> QED
  BY <1>1, <1>2 DEF EncodesOne, Alternating, Legal

----------------------------------------------------------------------------
(* The steps.                                                              *)

\* A call gets the element it was waiting for.
LEMMA Replaced ==
    ASSUME NEW n \in Nat, NEW open, FramesOK(open, n), open # <<>>, Nested(open, n),
           Matched(open, n),
           NEW j \in 1..n, Keys(open, j - 1), open[Len(open)].from < j,
           input[j] # "e", Depth(j - 1) = Len(open),
           \A m \in j..(n - 1) : Depth(m) > Len(open),
           NEW g, g.kind = open[Len(open)].kind, g.from = open[Len(open)].from,
           IF g.kind = "d" THEN IF open[Len(open)].key = NoKey
                                THEN g.key \in Strs /\ g.key = input[j]
                                ELSE g.key = NoKey
           ELSE g.key = NoKey
    PROVE  LET new == [open EXCEPT ![Len(open)] = g]
           IN  Nested(new, n) /\ Matched(new, n) /\ Keys(new, n)
<1> DEFINE L == Len(open)
           f == open[L]
           k == f.from
           new == [open EXCEPT ![L] = g]
<1>1. L \in Nat \ {0} /\ Len(new) = L
      /\ \A i \in 1..L : new[i] = IF i = L THEN g ELSE open[i]
  <2>1. PICK T : open \in Seq(T)
    BY DEF FramesOK
  <2> QED
    BY <2>1
<1> HIDE DEF new, L
<1>2. \A i \in 1..L : new[i].from = open[i].from /\ new[i].kind = open[i].kind
  BY <1>1 DEF L
<1>3. Nested(new, n)
  BY <1>1, <1>2 DEF Nested, L
<1>4. Matched(new, n)
  BY <1>1, <1>2 DEF Matched, L
<1>5. ASSUME NEW i \in 1..L, i # L
      PROVE  Until(new, i, n) = Until(open, i, j - 1) /\ new[i] = open[i]
  <2>1. i + 1 \in 1..L /\ new[i + 1].from = open[i + 1].from
    BY <1>1, <1>2, <1>5
  <2> QED
    BY <1>1, <1>5, <2>1 DEF Until, L
<1>6. Until(new, L, n) = n /\ Until(open, L, j - 1) = j - 1
  BY <1>1 DEF Until, L
<1>7. k \in 1..n /\ Depth(k) = L /\ k < j
  BY <1>1 DEF Nested, L
<1>8. /\ Inside(k, n) = Inside(k, j - 1) \cup {j} /\ Inside(k, j) = Inside(k, n)
      /\ Count(k, n) % 2 = 1 - (Count(k, j - 1) % 2)
      /\ Count(k, j - 1) % 2 \in {0, 1}
  <2>1. k \in Nat /\ j \in (k + 1)..n /\ j - 1 \in Nat
    BY <1>7
  <2>2. Depth(j - 1) = Depth(k) /\ \A m \in j..(n - 1) : Depth(m) # Depth(k)
    BY <1>1, <1>7 DEF L
  <2>3. Count(k, j - 1) \in Nat
    BY <2>1, InsideType
  <2> QED
    BY <2>1, <2>2, <2>3, OneElement, Parity
<1>9. ASSUME g.kind = "d" PROVE Alternates(k, n) /\ (g.key = NoKey <=> Count(k, n) % 2 = 0)
  <2>1. Alternates(k, j - 1) /\ (f.key = NoKey <=> Count(k, j - 1) % 2 = 0)
    <3>1. L \in 1..Len(open) /\ open[L].kind = "d"
      BY <1>1, <1>9 DEF L
    <3> QED
      BY <1>6, <3>1 DEF Keys
  <2>2. NoKey \notin Strs
    BY BencodeAssumption
  <2>3. g.key = NoKey <=> Count(k, n) % 2 = 0
    BY <1>8, <1>9, <2>1, <2>2 DEF L
  <2>4. Count(k, j) = Count(k, n)
    BY <1>8 DEF Count
  <2>5. Count(k, j) % 2 = 1 => input[j] \in Strs
    BY <1>8, <1>9, <2>1, <2>2, <2>4 DEF L
  <2>6. Alternates(k, n)
    BY <1>8, <2>1, <2>5 DEF Alternates
  <2> QED
    BY <2>3, <2>6
<1>10. ASSUME NEW i \in 1..Len(new)
       PROVE  IF new[i].kind = "d"
              THEN /\ Alternates(new[i].from, Until(new, i, n))
                   /\ new[i].key = NoKey <=> Count(new[i].from, Until(new, i, n)) % 2 = 0
              ELSE new[i].key = NoKey
  <2>1. CASE i = L
    <3>1. new[i] = g /\ new[i].from = k
      BY <1>1, <2>1 DEF L
    <3> HIDE DEF f
    <3> QED
      BY <1>6, <1>9, <2>1, <3>1 DEF L
  <2>2. CASE i # L
    <3>1. i \in 1..Len(open) /\ new[i] = open[i] /\ Until(new, i, n) = Until(open, i, j - 1)
      BY <1>1, <1>5, <2>2 DEF L
    <3> QED
      BY <3>1 DEF Keys
  <2> QED
    BY <2>1, <2>2
<1>11. Keys(new, n)
  BY <1>10 DEF Keys
<1> QED
  BY <1>3, <1>4, <1>11 DEF new, L

\* Deliver finishes the input, refuses it, or goes on.
LEMMA Placing ==
    ASSUME Len(input) \in Nat, NEW n \in 1..Len(input), Legal(n), Within(n - 1),
           NEW o, o.from \in 1..n, o.to = n, input[o.from] # "e",
           IF o.type = "str" THEN input[o.from] \in Strs /\ o.val = input[o.from]
           ELSE input[o.from] \notin Strs,
           NEW open, FramesOK(open, n), Nested(open, n), Matched(open, n),
           Keys(open, o.from - 1), Depth(o.from - 1) = Len(open),
           open # <<>> => open[Len(open)].from < o.from,
           \A m \in (o.from)..(n - 1) : Depth(m) > Len(open),
           status = "running", Deliver(o, open)
    PROVE  \/ status' = "running" /\ Going(frames', n)
           \/ status' = "done" /\ EncodesOne(n) /\ result' = o /\ o.from = 1
           \/ status' = "threw" /\ \A m \in 1..Len(input) : ~EncodesOne(m)
<1> DEFINE L == Len(open)
           f == open[L]
           j == o.from
<1>1. n \in Nat \ {0} /\ j \in 1..n /\ j - 1 \in Nat /\ L \in Nat /\ Depth(n) = L
  <2>1. PICK T : open \in Seq(T)
    BY DEF FramesOK
  <2> QED
    BY <2>1 DEF Nested
<1>2. CASE open = <<>>
  <2>1. L = 0
    BY <1>2
  <2>2. status' = "done" /\ result' = o
    BY <1>2 DEF Deliver
  <2>3. EncodesOne(n)
    BY <1>1, <1>2, <2>1, Finishes
  <2>4. j = 1
    <3>1. ASSUME j - 1 \in 1..(n - 1) PROVE FALSE
      <4>1. Depth(j - 1) >= 1
        BY <3>1 DEF Within
      <4> QED
        BY <2>1, <4>1
    <3> QED
      BY <1>1, <3>1
  <2> QED
    BY <2>2, <2>3, <2>4
<1>3. CASE open # <<>>
  <2>1. L \in Nat \ {0}
    BY <1>1, <1>3, FramesPopped
  <2>2. /\ f.from \in 1..n /\ f.kind \in {"d", "l"} /\ input[f.from] = f.kind /\ Depth(f.from) = L
        /\ \A m \in (f.from)..n : Depth(m) >= L
        /\ f.from < j
    BY <1>3, <2>1 DEF Nested
  <2>3. IF f.kind = "d" THEN f.key = NoKey <=> Count(f.from, j - 1) % 2 = 0 ELSE f.key = NoKey
    <3>1. Until(open, L, j - 1) = j - 1
      BY DEF Until
    <3> QED
      BY <2>1, <3>1 DEF Keys
  <2>4. Within(n)
    BY <1>1, <2>1 DEF Within
  <2>5. CASE f.kind = "d" /\ f.key = NoKey /\ o.type # "str"
    <3>1. status' = "threw"
      BY <1>3, <2>5 DEF Deliver
    <3>2. f.from \in Nat \ {0} /\ j \in Nat /\ f.from < j
      BY <1>1, <2>2
    <3>3. Within(j - 1)
      BY <1>1 DEF Within
    <3>4. \A m \in (f.from)..(j - 1) : Depth(m) >= Depth(f.from)
      BY <1>1, <2>2
    <3>5. \A m \in 1..Len(input) : ~EncodesOne(m)
      <4> HIDE DEF f, j, L
      <4>1. input[f.from] = "d" /\ Depth(j - 1) = Depth(f.from) /\ Count(f.from, j - 1) % 2 = 0
        BY <2>2, <2>3, <2>5 DEF j, L
      <4>2. input[j] # "e" /\ input[j] \notin Strs
        BY <2>5 DEF j
      <4> QED
        BY <3>2, <3>3, <3>4, <4>1, <4>2, KeyRefused
    <3> QED
      BY <3>1, <3>5
  <2>6. ASSUME NEW g, frames' = [open EXCEPT ![L] = g], status' = status,
               g.kind = f.kind, g.from = f.from,
               IF g.kind = "d" THEN IF f.key = NoKey THEN g.key \in Strs /\ g.key = input[j]
                                    ELSE g.key = NoKey
               ELSE g.key = NoKey
        PROVE  status' = "running" /\ Going(frames', n)
    BY <1>1, <1>3, <2>2, <2>4, <2>6, Replaced DEF Going
  <2>7. CASE ~ (f.kind = "d" /\ f.key = NoKey /\ o.type # "str")
    <3>1. status' = status
      BY <1>3, <2>7 DEF Deliver
    <3>2. DOMAIN f = {"kind", "from", "map", "list", "key"}
      BY <2>1 DEF FramesOK, FrameOK
    <3>3. CASE f.kind = "l"
      <4> DEFINE g == [f EXCEPT !.list = Append(@, o)]
      <4>1. frames' = [open EXCEPT ![L] = g]
        BY <1>3, <3>3 DEF Deliver
      <4>2. g.kind = f.kind /\ g.from = f.from /\ g.key = f.key
        BY <3>2
      <4> HIDE DEF g
      <4> QED
        BY <2>3, <2>6, <3>1, <3>3, <4>1, <4>2
    <3>4. CASE f.kind = "d" /\ f.key = NoKey
      <4> DEFINE g == [f EXCEPT !.key = o.val]
      <4>1. frames' = [open EXCEPT ![L] = g]
        BY <1>3, <2>7, <3>4 DEF Deliver
      <4>2. g.kind = f.kind /\ g.from = f.from /\ g.key = o.val
        BY <3>2
      <4>3. o.val = input[j] /\ o.val \in Strs
        BY <2>7, <3>4
      <4> HIDE DEF g
      <4> QED
        BY <2>6, <3>1, <3>4, <4>1, <4>2, <4>3
    <3>5. CASE f.kind = "d" /\ f.key # NoKey
      <4> DEFINE g == [f EXCEPT !.map = Emplace(@, f.key, o), !.key = NoKey]
      <4>1. frames' = [open EXCEPT ![L] = g]
        BY <1>3, <3>5 DEF Deliver
      <4>2. g.kind = f.kind /\ g.from = f.from /\ g.key = NoKey
        BY <3>2
      <4> HIDE DEF g
      <4> QED
        BY <2>6, <3>1, <3>5, <4>1, <4>2
    <3> QED
      BY <2>2, <3>3, <3>4, <3>5
  <2> QED
    BY <2>5, <2>7
<1> QED
  BY <1>2, <1>3

\* The grammar speaks of the input only, which no step changes.
LEMMA SameGrammar ==
    ASSUME UNCHANGED input
    PROVE  \A n : Opens(n)' = Opens(n) /\ Closes(n)' = Closes(n) /\ Depth(n)' = Depth(n)
BY DEF Opens, Closes, Depth

LEMMA SameInside ==
    ASSUME UNCHANGED input
    PROVE  \A k, n : /\ Inside(k, n)' = Inside(k, n) /\ Count(k, n)' = Count(k, n)
                     /\ Closing(k, n)' = Closing(k, n)
                     /\ Alternates(k, n)' = Alternates(k, n)
BY SameGrammar DEF Inside, Count, Closing, Alternates

LEMMA SameElements ==
    ASSUME UNCHANGED input
    PROVE  \A k, n : Elements(k, n)' = Elements(k, n)
<1> SUFFICES ASSUME NEW k, NEW n PROVE Elements(k, n)' = Elements(k, n)
  OBVIOUS
<1> DEFINE close == CHOOSE c \in k..n : /\ Depth(c) = Depth(k) - 1
                                        /\ \A m \in k..(c - 1) : Depth(m) >= Depth(k)
<1>1. close' = close
  BY SameGrammar
<1>2. Elements(k, n) = {j \in (k + 1)..(close - 1) : Depth(j - 1) = Depth(k) /\ input[j] # "e"}
  BY DEF Elements
<1>3. Elements(k, n)' = {j \in (k + 1)..(close' - 1) : Depth(j - 1)' = Depth(k)' /\ input'[j] # "e"}
  BY DEF Elements
<1> HIDE DEF close
<1> QED
  BY <1>1, <1>2, <1>3, SameGrammar

LEMMA SameEncodes ==
    ASSUME UNCHANGED input
    PROVE  \A n : EncodesOne(n)' = EncodesOne(n)
<1> SUFFICES ASSUME NEW n PROVE EncodesOne(n)' = EncodesOne(n)
  OBVIOUS
<1>1. \A k : Alternating(k, n)' = Alternating(k, n)
  BY SameElements DEF Alternating
<1>2. EncodesOne(n) = /\ \A k \in 1..n : input[k] # "bad"
                      /\ Depth(n) = 0
                      /\ \A m \in 1..(n - 1) : Cardinality(Opens(m)) > Cardinality(Closes(m))
                      /\ \A k \in Opens(n) : input[k] = "d" => Alternating(k, n)
  BY DEF EncodesOne, Alternating
<1>3. EncodesOne(n)' = /\ \A k \in 1..n : input'[k] # "bad"
                       /\ Depth(n)' = 0
                       /\ \A m \in 1..(n - 1) : Cardinality(Opens(m)') > Cardinality(Closes(m)')
                       /\ \A k \in Opens(n)' : input'[k] = "d" => Alternating(k, n)'
  BY DEF EncodesOne, Alternating
<1> QED
  BY <1>1, <1>2, <1>3, SameGrammar

LEMMA GoingNext ==
    ASSUME UNCHANGED input, Going(frames', pos')
    PROVE  Going(frames, pos)'
BY SameGrammar, SameInside DEF Going, Legal, Within, Nested, Matched, Keys, Closed, Until

\* The ways a step of the parser may end.
LEMMA GrammarNext ==
    ASSUME UNCHANGED input,
           \/ status' = "running" /\ Going(frames', pos')
           \/ status' = "done" /\ EncodesOne(pos') /\ result'.from = 1 /\ result'.to = pos'
           \/ status' \in {"threw", "undefined", "none"} /\ \A n \in 1..Len(input) : ~EncodesOne(n)
    PROVE  Grammar'
<1>1. CASE status' = "running" /\ Going(frames', pos')
  BY <1>1, GoingNext DEF Grammar, ParsesExactlyOne
<1>2. CASE status' = "done" /\ EncodesOne(pos') /\ result'.from = 1 /\ result'.to = pos'
  <2>1. EncodesOne(pos)' /\ Encoding(result)' = SubSeq(input, 1, pos)'
    BY <1>2, SameEncodes DEF Encoding
  <2> QED
    BY <1>2, <2>1 DEF Grammar, ParsesExactlyOne
<1>3. CASE status' \in {"threw", "undefined", "none"} /\ \A n \in 1..Len(input) : ~EncodesOne(n)
  <2>1. ~ (\E n \in 1..Len(input) : EncodesOne(n))'
    BY <1>3, SameEncodes
  <2> QED
    BY <1>3, <2>1 DEF Grammar, ParsesExactlyOne
<1> QED
  BY <1>1, <1>2, <1>3

LEMMA GrammarStarts == ParserInit => Grammar
<1> SUFFICES ASSUME ParserInit PROVE Going(frames, pos) /\ status = "running"
  BY DEF Grammar, ParsesExactlyOne
<1>1. pos = 0 /\ Len(frames) = 0 /\ Depth(0) = 0
  BY DepthStep DEF ParserInit
<1>2. Opens(0) = {}
  BY DEF Opens
<1> QED
  BY <1>1, <1>2 DEF Going, Legal, Within, Nested, Matched, Keys, ParserInit

\* What a step that reads a token starts from.
LEMMA Reading ==
    ASSUME ParserOK, Grammar, status = "running"
    PROVE  /\ Going(frames, pos) /\ FramesOK(frames, pos) /\ FramesOK(frames, pos + 1)
           /\ Len(input) \in Nat /\ pos \in Nat /\ pos <= Len(input)
           /\ Len(frames) \in Nat /\ Len(frames) = Depth(pos)
           /\ (pos > 0 => Len(frames) > 0)
           /\ \A n \in Nat : Depth(n) \in Int
<1>1. Len(input) \in Nat /\ pos \in Nat /\ pos <= Len(input)
  BY InputType DEF ParserOK
<1>2. FramesOK(frames, pos) /\ FramesOK(frames, pos + 1) /\ Len(frames) \in Nat
  BY <1>1, FramesLater DEF ParserOK, FramesOK
<1>3. Going(frames, pos)
  BY DEF Grammar
<1>4. pos > 0 => Depth(pos) >= 1
  BY <1>1, <1>3 DEF Going, Within
<1>5. Len(frames) = Depth(pos)
  BY <1>3 DEF Going, Nested
<1>6. \A n \in Nat : Depth(n) \in Int
  BY DepthStep
<1> QED
  BY <1>1, <1>2, <1>3, <1>4, <1>5, <1>6

LEMMA ClosedLater ==
    ASSUME NEW k \in Nat, NEW n \in Nat, Closed(k, n) PROVE Closed(k, n + 1)
BY DEF Closed

\* take_string and take_integer: one token is one element.
LEMMA GrammarAtom == ASSUME ParserOK, Grammar, TakeAtom PROVE Grammar'
<1> DEFINE n == pos + 1
           o == IF Token = "int" THEN Object("int", 0, n, n) ELSE Object("str", Token, n, n)
<1>1. /\ status = "running" /\ pos < Len(input) /\ Token \in Strs \cup {"int"} /\ Token = input[n]
      /\ pos' = n /\ Deliver(o, frames) /\ UNCHANGED input
  BY DEF TakeAtom, Running, Token
<1>2. /\ Going(frames, pos) /\ FramesOK(frames, n) /\ Len(input) \in Nat /\ pos \in Nat
      /\ Len(frames) \in Nat /\ Len(frames) = Depth(pos) /\ (pos > 0 => Len(frames) > 0)
  BY <1>1, Reading
<1>3. /\ o.from = n /\ o.to = n
      /\ IF o.type = "str" THEN o.val = Token /\ Token # "int" ELSE Token = "int"
  BY DEF Object
<1>4. input[n] \notin Brackets /\ input[n] # "bad" /\ "int" \notin Strs
  BY <1>1, BencodeAssumption DEF Brackets
<1>5. Depth(n) = Depth(pos)
  BY <1>2, <1>4, DepthStep DEF Brackets
<1>6. n \in 1..Len(input) /\ n - 1 = pos /\ n \in Nat
  BY <1>1, <1>2
<1> HIDE DEF o
<1>7. Legal(n) /\ Within(n - 1)
  BY <1>2, <1>4, <1>6 DEF Going, Legal
<1>8. Nested(frames, n)
  <2> SUFFICES ASSUME NEW i \in 1..Len(frames), NEW m \in (frames[i].from)..n PROVE Depth(m) >= i
    BY <1>2, <1>5 DEF Nested, Going
  <2>1. m = n \/ m \in (frames[i].from)..pos
    BY <1>2 DEF Nested, Going
  <2> QED
    BY <1>2, <1>5, <2>1 DEF Nested, Going
<1>9. Matched(frames, n)
  <2>1. Opens(n) = Opens(pos)
    BY <1>2, <1>4 DEF Opens, Brackets
  <2>2. Opens(pos) \subseteq Nat
    BY DEF Opens
  <2> QED
    BY <1>2, <2>1, <2>2, ClosedLater DEF Matched, Going
<1>10. Keys(frames, o.from - 1)
  BY <1>2, <1>3, <1>6 DEF Going
<1>11. frames # <<>> => frames[Len(frames)].from < o.from
  <2>1. ASSUME frames # <<>> PROVE frames[Len(frames)].from \in 1..pos
    <3>1. Len(frames) \in 1..Len(frames)
      BY <1>2, <2>1, FramesPopped
    <3> QED
      BY <1>2, <3>1 DEF Going, Nested
  <2> QED
    BY <1>2, <1>3, <2>1
<1>12. \/ status' = "running" /\ Going(frames', n)
       \/ status' = "done" /\ EncodesOne(n) /\ result' = o /\ o.from = 1
       \/ status' = "threw" /\ \A m \in 1..Len(input) : ~EncodesOne(m)
  <2>1. o.from \in 1..n /\ o.to = n /\ input[o.from] # "e" /\ Depth(o.from - 1) = Len(frames)
    <3>1. o.from - 1 = pos /\ o.from \in 1..n
      BY <1>3, <1>6
    <3>2. Depth(o.from - 1) = Len(frames)
      BY <1>2, <3>1
    <3>3. o.to = n /\ input[o.from] # "e"
      BY <1>3, <1>4 DEF Brackets
    <3> QED
      BY <3>1, <3>2, <3>3
  <2>2. IF o.type = "str" THEN input[o.from] \in Strs /\ o.val = input[o.from]
        ELSE input[o.from] \notin Strs
    BY <1>1, <1>3, <1>4
  <2>3. \A m \in (o.from)..(n - 1) : Depth(m) > Len(frames)
    BY <1>2, <1>3, <1>6
  <2> HIDE DEF n
  <2> QED
    BY <1>1, <1>2, <1>6, <1>7, <1>8, <1>9, <1>10, <1>11, <2>1, <2>2, <2>3, Placing
<1> QED
  BY <1>1, <1>3, <1>12, GrammarNext

\* A bracket opens: its elements are none yet.
LEMMA GrammarEnter == ASSUME ParserOK, Grammar, Enter PROVE Grammar'
<1> DEFINE n == pos + 1
           L == Len(frames)
           g == Frame(Token, n)
           new == Append(frames, g)
<1>1. /\ status = "running" /\ pos < Len(input) /\ Token \in {"d", "l"} /\ Token = input[n]
      /\ pos' = n /\ frames' = new /\ status' = status /\ UNCHANGED input
  BY DEF Enter, Running, Token
<1>2. /\ Going(frames, pos) /\ FramesOK(frames, pos) /\ Len(input) \in Nat /\ pos \in Nat
      /\ L \in Nat /\ L = Depth(pos)
  BY <1>1, Reading
<1>3. /\ g.kind = input[n] /\ g.from = n /\ g.key = NoKey
  BY <1>1 DEF Frame
<1>4. Depth(n) = L + 1
  BY <1>1, <1>2, DepthStep
<1> HIDE DEF g
<1>5. Len(new) = L + 1 /\ new[L + 1] = g /\ \A i \in 1..L : new[i] = frames[i]
  <2>1. PICK T : frames \in Seq(T)
    BY <1>2 DEF FramesOK
  <2> QED
    BY <2>1, AppendAt
<1> HIDE DEF new, L
<1>6. \A i \in 1..Len(new) : i = L + 1 \/ i \in 1..L
  BY <1>2, <1>5
<1>7. Legal(n) /\ Within(n)
  BY <1>1, <1>2, <1>4 DEF Going, Legal, Within
<1>8. Nested(new, n)
  <2>1. ASSUME NEW i \in 1..L
        PROVE  /\ new[i].from \in 1..n /\ new[i].kind \in {"d", "l"}
               /\ input[new[i].from] = new[i].kind /\ Depth(new[i].from) = i
               /\ \A m \in (new[i].from)..n : Depth(m) >= i
    <3>1. \A m \in (frames[i].from)..n : m = n \/ m \in (frames[i].from)..pos
      BY <1>2 DEF Nested, Going, L
    <3> QED
      BY <1>2, <1>4, <1>5, <3>1 DEF Nested, Going, L
  <2>2. /\ new[L + 1].from \in 1..n /\ new[L + 1].kind \in {"d", "l"}
        /\ input[new[L + 1].from] = new[L + 1].kind /\ Depth(new[L + 1].from) = L + 1
        /\ \A m \in (new[L + 1].from)..n : Depth(m) >= L + 1
    BY <1>1, <1>2, <1>3, <1>4, <1>5
  <2> QED
    BY <1>4, <1>5, <1>6, <2>1, <2>2 DEF Nested
<1>9. Matched(new, n)
  <2> SUFFICES ASSUME NEW k \in Opens(n)
               PROVE  (\E i \in 1..Len(new) : new[i].from = k) \/ Closed(k, n)
    BY DEF Matched
  <2>1. CASE k = n
    <3>1. L + 1 \in 1..Len(new) /\ new[L + 1].from = k
      BY <1>2, <1>3, <1>5, <2>1
    <3> QED
      BY <3>1
  <2>2. CASE k # n
    <3>1. k \in Opens(pos) /\ k \in Nat
      BY <1>2, <2>2 DEF Opens
    <3>2. ASSUME NEW i \in 1..L, frames[i].from = k PROVE \E a \in 1..Len(new) : new[a].from = k
      BY <1>2, <1>5, <3>2
    <3> QED
      BY <1>2, <3>1, <3>2, ClosedLater DEF Matched, Going, L
  <2> QED
    BY <2>1, <2>2
<1>10. Keys(new, n)
  <2>1. ASSUME NEW i \in 1..L PROVE Until(new, i, n) = Until(frames, i, pos)
    <3>1. CASE i = L
      <4>1. i # Len(new) /\ new[i + 1].from - 1 = pos
        BY <1>2, <1>3, <1>5, <3>1
      <4> QED
        BY <3>1, <4>1 DEF Until, L
    <3>2. CASE i # L
      <4>1. i # Len(new) /\ i + 1 \in 1..L
        BY <1>2, <1>5, <3>2
      <4> QED
        BY <1>5, <3>2, <4>1 DEF Until, L
    <3> QED
      BY <3>1, <3>2
  <2>2. Inside(n, n) = {} /\ Count(n, n) = 0 /\ 0 % 2 = 0
    <3>1. Inside(n, n) = {}
      BY <1>2 DEF Inside
    <3> QED
      BY <3>1, FS_EmptySet DEF Count
  <2>3. Until(new, L + 1, n) = n
    BY <1>5 DEF Until
  <2>4. ASSUME NEW i \in 1..Len(new)
        PROVE  IF new[i].kind = "d"
               THEN /\ Alternates(new[i].from, Until(new, i, n))
                    /\ new[i].key = NoKey <=> Count(new[i].from, Until(new, i, n)) % 2 = 0
               ELSE new[i].key = NoKey
    <3>1. CASE i = L + 1
      BY <1>3, <1>5, <2>2, <2>3, <3>1 DEF Alternates
    <3>2. CASE i \in 1..L
      BY <1>2, <1>5, <2>1, <3>2 DEF Keys, Going, L
    <3> QED
      BY <1>6, <3>1, <3>2
  <2> QED
    BY <2>4 DEF Keys
<1>11. Going(new, n)
  BY <1>7, <1>8, <1>9, <1>10 DEF Going
<1> QED
  BY <1>1, <1>11, GrammarNext

\* An 'e' closes the innermost bracket, which is one element of the one around it.
LEMMA GrammarLeave == ASSUME ParserOK, Grammar, Leave PROVE Grammar'
<1> DEFINE n == pos + 1
           L == Len(frames)
           k == Top.from
           o == IF Top.kind = "d" THEN Object("dict", Top.map, k, n)
                                  ELSE Object("list", Top.list, k, n)
<1>1. /\ status = "running" /\ pos < Len(input) /\ input[n] = "e" /\ frames # <<>>
      /\ Top.key = NoKey /\ pos' = n /\ Deliver(o, Pop) /\ UNCHANGED input
  BY DEF Leave, CanLeave, Running, Token
<1>2. /\ Going(frames, pos) /\ FramesOK(frames, n) /\ Len(input) \in Nat /\ pos \in Nat
      /\ L = Depth(pos) /\ \A m \in Nat : Depth(m) \in Int
  BY <1>1, Reading
<1>3. L \in Nat \ {0} /\ FramesOK(Pop, n) /\ Len(Pop) = L - 1
      /\ \A i \in 1..(L - 1) : Pop[i] = frames[i]
  <2>1. n \in Nat
    BY <1>2
  <2>2. L \in Nat \ {0} /\ FramesOK(Pop, n) /\ Len(Pop) = L - 1
    BY <1>1, <1>2, <2>1, FramesPopped DEF Pop
  <2>3. PICK T : frames \in Seq(T)
    BY <1>2 DEF FramesOK
  <2>4. \A i \in 1..(L - 1) : Pop[i] = frames[i]
    BY <2>2, <2>3 DEF Pop
  <2> QED
    BY <2>2, <2>4
<1>4. /\ o.from = k /\ o.to = n /\ o.type # "str"
  BY DEF Object
<1>5. Depth(n) = L - 1
  BY <1>1, <1>2, DepthStep
<1>6. /\ k \in 1..pos /\ Top.kind \in {"d", "l"} /\ input[k] = Top.kind /\ Depth(k) = L
      /\ \A m \in k..pos : Depth(m) >= L
  <2>1. L \in 1..Len(frames) /\ Top = frames[L]
    BY <1>3 DEF Top
  <2> HIDE DEF L
  <2> QED
    BY <1>2, <2>1 DEF Going, Nested
<1> HIDE DEF o, k
<1>7. n \in 1..Len(input) /\ n - 1 = pos /\ n \in Nat
  BY <1>1, <1>2
<1>8. Legal(n) /\ Within(pos)
  BY <1>1, <1>2 DEF Going, Legal
<1>9. Depth(k - 1) = L - 1
  <2>1. k - 1 \in Nat /\ (k - 1) + 1 = k
    BY <1>2, <1>6
  <2>2. Depth((k - 1) + 1) = Depth(k - 1) + 1
    BY <1>6, <2>1, DepthStep
  <2> QED
    BY <1>2, <1>3, <1>6, <2>1, <2>2
<1>10. ASSUME NEW i \in 1..(L - 1)
       PROVE  /\ i \in 1..L /\ i \in 1..Len(Pop) /\ Pop[i] = frames[i]
              /\ frames[i].from \in 1..(k - 1) /\ frames[i].kind \in {"d", "l"}
              /\ input[frames[i].from] = frames[i].kind /\ Depth(frames[i].from) = i
              /\ \A m \in (frames[i].from)..n : Depth(m) >= i
  <2>1. i \in 1..L /\ i \in 1..Len(Pop) /\ i \in Nat /\ i <= L - 1
    BY <1>3
  <2>2. /\ frames[i].from \in 1..pos /\ frames[i].kind \in {"d", "l"}
        /\ input[frames[i].from] = frames[i].kind /\ Depth(frames[i].from) = i
        /\ \A m \in (frames[i].from)..pos : Depth(m) >= i
    BY <1>2, <2>1 DEF Going, Nested
  <2>3. ~ (frames[i].from >= k)
    <3>1. ASSUME frames[i].from >= k PROVE Depth(frames[i].from) >= L
      BY <1>6, <2>2, <3>1
    <3> QED
      BY <1>3, <2>1, <2>2, <3>1
  <2>4. frames[i].from \in 1..(k - 1)
    BY <1>6, <2>2, <2>3
  <2>5. ASSUME NEW m \in (frames[i].from)..n PROVE Depth(m) >= i
    <3>1. m = n \/ m \in (frames[i].from)..pos
      BY <1>2, <2>2
    <3> QED
      BY <1>3, <1>5, <2>1, <2>2, <3>1
  <2> QED
    BY <1>3, <2>1, <2>2, <2>4, <2>5
<1>11. Nested(Pop, n)
  <2>1. ASSUME NEW i \in 1..Len(Pop)
        PROVE  /\ Pop[i].from \in 1..n /\ Pop[i].kind \in {"d", "l"}
               /\ input[Pop[i].from] = Pop[i].kind /\ Depth(Pop[i].from) = i
               /\ \A m \in (Pop[i].from)..n : Depth(m) >= i
    <3>1. i \in 1..(L - 1)
      BY <1>3
    <3>2. \A a \in 1..(k - 1) : a \in 1..n
      BY <1>2, <1>6
    <3> HIDE DEF n, L
    <3> QED
      BY <1>10, <3>1, <3>2
  <2> QED
    BY <1>3, <1>5, <2>1 DEF Nested
<1>12. ASSUME input[k] = "d" PROVE Alternates(k, pos) /\ Count(k, pos) % 2 = 0
  <2>1. L \in 1..Len(frames) /\ frames[L] = Top /\ Top.kind = "d" /\ Until(frames, L, pos) = pos
    BY <1>3, <1>6, <1>12 DEF Top, Until
  <2> HIDE DEF L
  <2> QED
    BY <1>1, <1>2, <2>1 DEF Going, Keys, k
<1>13. Closed(k, n)
  <2>1. Closing(k, n)
    BY <1>5, <1>6, <1>7 DEF Closing
  <2>2. n \in k..n
    BY <1>6, <1>7
  <2> HIDE DEF n
  <2> QED
    BY <1>7, <1>12, <2>1, <2>2 DEF Closed
<1>14. Matched(Pop, n)
  <2> SUFFICES ASSUME NEW a \in Opens(n)
               PROVE  (\E i \in 1..Len(Pop) : Pop[i].from = a) \/ Closed(a, n)
    BY DEF Matched
  <2>1. a \in Opens(pos) /\ a \in Nat
    BY <1>1, <1>2 DEF Opens
  <2>2. ASSUME NEW i \in 1..L, frames[i].from = a
        PROVE  (\E b \in 1..Len(Pop) : Pop[b].from = a) \/ Closed(a, n)
    <3>1. CASE i = L
      BY <1>13, <2>2, <3>1 DEF Top, k
    <3>2. CASE i # L
      <4>1. i \in 1..(L - 1)
        BY <1>3, <3>2
      <4> QED
        BY <1>10, <2>2, <4>1
    <3> QED
      BY <3>1, <3>2
  <2>3. CASE Closed(a, pos)
    BY <1>2, <2>1, <2>3, ClosedLater
  <2> QED
    BY <1>2, <2>1, <2>2, <2>3 DEF Matched, Going
<1>15. Keys(Pop, k - 1)
  <2>1. ASSUME NEW i \in 1..(L - 1) PROVE Until(Pop, i, k - 1) = Until(frames, i, pos)
    <3>1. CASE i = L - 1
      <4>1. i + 1 = L /\ i # L
        BY <1>3, <3>1
      <4> QED
        BY <1>3, <3>1, <4>1 DEF Until, Top, k
    <3>2. CASE i # L - 1
      <4>1. i + 1 \in 1..(L - 1) /\ i # L
        BY <1>3, <3>2
      <4> QED
        BY <1>3, <3>2, <4>1 DEF Until
    <3> QED
      BY <3>1, <3>2
  <2>2. ASSUME NEW i \in 1..Len(Pop)
        PROVE  IF Pop[i].kind = "d"
               THEN /\ Alternates(Pop[i].from, Until(Pop, i, k - 1))
                    /\ Pop[i].key = NoKey <=> Count(Pop[i].from, Until(Pop, i, k - 1)) % 2 = 0
               ELSE Pop[i].key = NoKey
    <3>1. i \in 1..(L - 1) /\ i \in 1..Len(frames) /\ Pop[i] = frames[i]
      BY <1>3
    <3> HIDE DEF L
    <3> QED
      BY <1>2, <2>1, <3>1 DEF Keys, Going
  <2> QED
    BY <2>2 DEF Keys
<1>16. Pop # <<>> => Pop[Len(Pop)].from < o.from
  <2>1. ASSUME Pop # <<>> PROVE L - 1 \in 1..(L - 1)
    <3>1. Len(Pop) \in Nat \ {0}
      BY <1>3, <1>7, <2>1, FramesPopped
    <3> QED
      BY <1>3, <3>1
  <2>2. ASSUME L - 1 \in 1..(L - 1) PROVE Pop[Len(Pop)].from < k
    <3>1. frames[L - 1].from \in 1..(k - 1) /\ Pop[L - 1] = frames[L - 1]
      BY <1>10, <2>2
    <3> QED
      BY <1>3, <1>6, <3>1
  <2> QED
    BY <1>4, <2>1, <2>2
<1>17. \/ status' = "running" /\ Going(frames', n)
       \/ status' = "done" /\ EncodesOne(n) /\ result' = o /\ o.from = 1
       \/ status' = "threw" /\ \A m \in 1..Len(input) : ~EncodesOne(m)
  <2>1. k \in 1..n /\ input[k] # "e" /\ input[k] \notin Strs
    BY <1>2, <1>6, BencodeAssumption DEF Brackets
  <2>2. \A m \in k..pos : Depth(m) > L - 1
    BY <1>2, <1>3, <1>6
  <2> HIDE DEF n, L
  <2> QED
    BY <1>1, <1>2, <1>3, <1>4, <1>7, <1>8, <1>9, <1>11, <1>14, <1>15, <1>16, <2>1, <2>2, Placing
<1> QED
  BY <1>1, <1>4, <1>17, GrammarNext

\* No continuation makes an encoding of what was thrown at.
LEMMA GrammarThrow == ASSUME ParserOK, Grammar, Throw PROVE Grammar'
<1>1. /\ status = "running" /\ pos < Len(input) /\ status' = "threw" /\ UNCHANGED input
      /\ input[pos + 1] = "bad" \/ (input[pos + 1] = "e" /\ ~CanLeave)
  BY DEF Throw, Running, Token
<1>2. /\ Going(frames, pos) /\ FramesOK(frames, pos) /\ Len(input) \in Nat /\ pos \in Nat
      /\ Len(frames) \in Nat /\ Len(frames) = Depth(pos) /\ (pos > 0 => Len(frames) > 0)
  BY <1>1, Reading
<1>3. Within(pos)
  BY <1>2 DEF Going
<1>4. CASE input[pos + 1] = "bad"
  <2>1. ASSUME NEW n \in 1..Len(input), EncodesOne(n) PROVE FALSE
    <3>1. n > pos /\ n \in Nat
      BY <1>2, <1>3, <2>1, EndsLater
    <3>2. pos + 1 \in 1..n
      BY <1>2, <3>1
    <3> QED
      BY <1>4, <2>1, <3>2 DEF EncodesOne
  <2> QED
    BY <1>1, <2>1, GrammarNext
<1>5. CASE input[pos + 1] = "e" /\ ~CanLeave
  <2>1. Depth(pos + 1) = Len(frames) - 1
    <3>1. input[pos + 1] \notin {"d", "l"} /\ input[pos + 1] = "e"
      BY <1>5
    <3>2. Depth(pos + 1) = Depth(pos) - 1
      BY <1>2, <3>1, DepthStep
    <3> QED
      BY <1>2, <3>2
  <2>2. CASE frames = <<>>
    <3>1. pos = 0 /\ Depth(1) = -1
      <4>1. Len(frames) = 0 /\ pos = 0 /\ 0 + 1 = 1
        BY <1>2, <2>2
      <4> QED
        BY <2>1, <4>1
    <3>2. ASSUME NEW n \in 1..Len(input), EncodesOne(n) PROVE FALSE
      <4>1. n \in Nat /\ Depth(n) = 0
        BY <3>2 DEF EncodesOne
      <4>2. CASE n = 1
        BY <3>1, <4>1, <4>2
      <4>3. CASE n > 1
        <5>1. 1 \in 1..(n - 1) /\ 1 \in Nat
          BY <4>1, <4>3
        <5>2. Cardinality(Opens(1)) > Cardinality(Closes(1))
          BY <3>2, <5>1 DEF EncodesOne
        <5>3. Depth(1) >= 1
          BY <5>1, <5>2, DepthStep
        <5> QED
          BY <3>1, <5>3
      <4> QED
        BY <4>1, <4>2, <4>3
    <3> QED
      BY <1>1, <3>2, GrammarNext
  <2>3. CASE frames # <<>> /\ Top.key # NoKey
    <3> DEFINE L == Len(frames)
               k == Top.from
    <3>1. L \in Nat \ {0} /\ L \in 1..Len(frames) /\ Top = frames[L] /\ Until(frames, L, pos) = pos
      BY <1>2, <2>3, FramesPopped DEF Top, Until
    <3> HIDE DEF L
    <3>2. /\ k \in 1..pos /\ Depth(k) = L /\ \A m \in k..pos : Depth(m) >= L
          /\ input[k] = Top.kind
      BY <1>2, <3>1 DEF Going, Nested
    <3>3. Top.kind = "d" /\ Count(k, pos) % 2 # 0
      BY <1>2, <2>3, <3>1 DEF Going, Keys
    <3> HIDE DEF k
    <3>4. k \in Nat \ {0} /\ k <= pos /\ Depth(pos + 1) = Depth(k) - 1
      BY <1>2, <2>1, <3>2 DEF L
    <3>5. \A n \in 1..Len(input) : ~EncodesOne(n)
      BY <1>2, <1>3, <3>2, <3>3, <3>4, EndRefused
    <3> QED
      BY <1>1, <3>5, GrammarNext
  <2> QED
    BY <1>5, <2>2, <2>3 DEF CanLeave
<1> QED
  BY <1>1, <1>4, <1>5

LEMMA GrammarStep == ParserOK /\ Grammar /\ ParserNext => Grammar'
<1> SUFFICES ASSUME ParserOK, Grammar, ParserNext PROVE Grammar'
  OBVIOUS
<1>1. CASE NextOnEmpty
  <2>1. status' = "none" /\ UNCHANGED input /\ Len(input) = 0
    BY <1>1 DEF NextOnEmpty
  <2> QED
    BY <2>1, GrammarNext
<1>2. CASE ReadPastEnd
  <2>1. status = "running" /\ pos = Len(input) /\ status' = "undefined" /\ UNCHANGED input
    BY <1>2 DEF ReadPastEnd, Running
  <2>2. Going(frames, pos) /\ Len(input) \in Nat /\ pos \in Nat
    BY <2>1, Reading
  <2>3. ASSUME NEW n \in 1..Len(input), EncodesOne(n) PROVE FALSE
    <3>1. n > pos
      BY <2>2, <2>3, EndsLater DEF Going
    <3> QED
      BY <2>1, <2>2, <3>1
  <2> QED
    BY <2>1, <2>3, GrammarNext
<1> QED
  BY <1>1, <1>2, GrammarAtom, GrammarEnter, GrammarLeave, GrammarThrow DEF ParserNext

LEMMA GrammarSame == ASSUME Grammar, UNCHANGED parser PROVE Grammar'
<1>1. UNCHANGED <<input, pos, frames, status, result>>
  BY DEF parser
<1>2. status = "running" => Going(frames, pos)'
  BY <1>1, GoingNext DEF Grammar
<1>3. EncodesOne(pos)' = EncodesOne(pos) /\ \A n : EncodesOne(n)' = EncodesOne(n)
  BY <1>1, SameEncodes
<1>4. ParsesExactlyOne'
  BY <1>1, <1>3 DEF Grammar, ParsesExactlyOne, Encoding
<1> QED
  BY <1>1, <1>2, <1>4 DEF Grammar

----------------------------------------------------------------------------
\* next() returns an object exactly when the input starts with one that the
\* grammar knows, and takes exactly its tokens, for inputs of any length and
\* nesting.
THEOREM ExactlyOneParsed == Spec => []ParsesExactlyOne
<1>1. Init => Grammar
  BY GrammarStarts DEF Init
<1>2. IInv /\ Grammar /\ [Next]_vars => Grammar'
  <2> SUFFICES ASSUME IInv, Grammar, [Next]_vars PROVE Grammar'
    OBVIOUS
  <2>1. ParserOK
    BY DEF IInv
  <2>2. CASE Parse
    BY <2>1, <2>2, GrammarStep DEF Parse
  <2>3. CASE UNCHANGED parser
    BY <2>3, GrammarSame
  <2> QED
    BY <2>2, <2>3 DEF Next, vars, OpenFails, Load, LoadFails, Fill, ReadTop, ReadAnnounce,
       ReadInfo, ReadPieceLength, ReadName, ReadLength, ReadPieces
<1>3. Grammar => ParsesExactlyOne
  BY DEF Grammar
<1> QED
  BY <1>1, <1>2, <1>3, Inductive, PTL DEF Spec
=============================================================================
