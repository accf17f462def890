------------------------------ MODULE MetaInfo ------------------------------
(* metainfo_from_path and MetaInfo::MetaInfo: the file is read, one object *)
(* is parsed (Bencode), then the fields are read out of it in the order of *)
(* the constructor.  Every read can end the constructor: a find() that     *)
(* misses is dereferenced all the same, which is undefined, and the        *)
(* value() of an optional that is empty throws.                            *)
EXTENDS Bencode

CONSTANTS
    Whole       \* the strings whose length is a multiple of Piece_Hash_Len

VARIABLES
    step,       \* the read the constructor is at
    bencodedInfo,   \* m_bencoded_info
    fileLength      \* m_file_length has a value

vars == <<parser, step, bencodedInfo, fileLength>>

\* The reads in order, each with what follows it.
Reads == {"load", "next", "announce", "info", "piece length", "name", "length", "pieces"}
Then == [read \in Reads |->
            CASE read = "load" -> "next"              [] read = "next" -> "announce"
              [] read = "announce" -> "info"          [] read = "info" -> "piece length"
              [] read = "piece length" -> "name"      [] read = "name" -> "length"
              [] read = "length" -> "pieces"          [] read = "pieces" -> "constructed"]
Ends == {"constructed", "threw", "undefined"}
Filling == "filling"

TypeOK ==
    /\ input \in Inputs /\ pos \in 0..Len(input)
    /\ Len(frames) <= pos
    /\ status \in {"running", "done", "none", "threw", "undefined"}
    /\ step \in Reads \cup Ends \cup {Filling}
    /\ Len(bencodedInfo) <= Len(input)
    /\ fileLength \in BOOLEAN

Init ==
    /\ ParserInit
    /\ step = "load" /\ bencodedInfo = <<>> /\ fileLength = FALSE

\* read_torrent_file throws: the file cannot be opened.
OpenFails ==
    /\ step = "load"
    /\ step' = "threw"
    /\ UNCHANGED <<parser, bencodedInfo, fileLength>>

\* Every byte up to the end of the file was read.
Load ==
    /\ step = "load"
    /\ step' = Then[step]
    /\ UNCHANGED <<parser, bencodedInfo, fileLength>>

\* A read error, of a directory for one, sets badbit but not eofbit.
LoadFails ==
    /\ step = "load"
    /\ step' = Filling
    /\ UNCHANGED <<parser, bencodedInfo, fileLength>>

\* The loop only looks at eof(): it appends what get() returns for an error,
\* for ever, and never gets to the test of bad().
Fill == step = Filling /\ UNCHANGED vars

Parse ==
    /\ step = "next"
    /\ ParserNext
    /\ UNCHANGED <<step, bencodedInfo, fileLength>>

At(read) == status # "running" /\ step = read

Has(d, key) == key \in DOMAIN d.val
Info == result.val["info"]

\* The end of one read: the constructor goes on, throws or is undefined.
Outcome(d, key, type) ==
    CASE ~Has(d, key)             -> "undefined"
      [] Has(d, key) /\ d.val[key].type # type -> "threw"
      [] OTHER                    -> Then[step]

\* next().value().dict.value(); an exception of the parser passes through.
ReadTop ==
    /\ At("next")
    /\ step' = IF status = "undefined" THEN "undefined"
               ELSE IF status = "done" /\ result.type = "dict" THEN Then[step] ELSE "threw"
    /\ UNCHANGED <<parser, bencodedInfo, fileLength>>

ReadAnnounce ==
    /\ At("announce")
    /\ step' = Outcome(result, "announce", "str")
    /\ UNCHANGED <<parser, bencodedInfo, fileLength>>

\* Slip of InfoBytes: the surplus is not removed.
InfoBytesAll(o) == RawBytes(o)

\* as_raw_bytes() and pop_back(): all that follows the start of the info
\* dictionary, without the last character, which is all there is of an "e".
InfoBytes(o) ==
    LET raw  == RawBytes(o)
        kept == SubSeq(raw, 1, Len(raw) - 1)
    IN  IF raw[Len(raw)] = "e" THEN kept ELSE Append(kept, "cut")

ReadInfo ==
    /\ At("info")
    /\ step' = Outcome(result, "info", "dict")
    /\ bencodedInfo' = IF step' = Then[step] THEN InfoBytes(Info) ELSE bencodedInfo
    /\ UNCHANGED <<parser, fileLength>>

ReadPieceLength ==
    /\ At("piece length")
    /\ step' = Outcome(Info, "piece length", "int")
    /\ UNCHANGED <<parser, bencodedInfo, fileLength>>

ReadName ==
    /\ At("name")
    /\ step' = Outcome(Info, "name", "str")
    /\ UNCHANGED <<parser, bencodedInfo, fileLength>>

\* Slip of ReadLength: both keys at once are let through.
ReadLengthBoth ==
    /\ At("length")
    /\ step' = IF Has(Info, "length") THEN Then[step] ELSE "threw"
    /\ fileLength' = (Has(Info, "length") /\ Info.val["length"].type = "int")
    /\ UNCHANGED <<parser, bencodedInfo>>

\* "length" alone is accepted, of whatever type: m_file_length is copied from
\* the optional and is empty when the value is no integer.  "files" alone is
\* not supported, both or neither are an error.
ReadLength ==
    /\ At("length")
    /\ step' = IF Has(Info, "length") /\ ~Has(Info, "files") THEN Then[step] ELSE "threw"
    /\ fileLength' = /\ Has(Info, "length") /\ ~Has(Info, "files")
                     /\ Info.val["length"].type = "int"
    /\ UNCHANGED <<parser, bencodedInfo>>

\* The hashes must be whole; then the object is constructed.
ReadPieces ==
    /\ At("pieces")
    /\ step' = LET o == Outcome(Info, "pieces", "str")
               IN  IF o # Then[step] THEN o
                   ELSE IF Info.val["pieces"].val \in Whole THEN "constructed" ELSE "threw"
    /\ UNCHANGED <<parser, bencodedInfo, fileLength>>

Next ==
    \/ OpenFails \/ Load \/ LoadFails \/ Fill
    \/ Parse
    \/ ReadTop \/ ReadAnnounce \/ ReadInfo \/ ReadPieceLength \/ ReadName
    \/ ReadLength \/ ReadPieces

Spec == Init /\ [][Next]_vars /\ WF_vars(Next)

----------------------------------------------------------------------------
\* Once the file is read the constructor ends, whatever the file holds: the
\* parser consumes at every turn, unclosed lists and dictionaries included, and
\* no read loops.  Of a file that cannot be read it says nothing: there
\* metainfo.cpp:36 does loop for ever (Fill).
ConstructorEnds == step = "next" ~> step \in Ends

\* A SHA1 value is represented by the bytes it is taken of.
infohash_binary == bencodedInfo

HasTyped(d, key, type) == Has(d, key) /\ d.val[key].type = type

\* What a single-file metainfo file must contain.  The type of "length" is not
\* looked at (metainfo.cpp:78).
Mandatory ==
    /\ status = "done" /\ result.type = "dict"
    /\ HasTyped(result, "announce", "str") /\ HasTyped(result, "info", "dict")
    /\ HasTyped(Info, "piece length", "int") /\ HasTyped(Info, "name", "str")
    /\ HasTyped(Info, "pieces", "str") /\ Info.val["pieces"].val \in Whole
    /\ Has(Info, "length") /\ ~Has(Info, "files")

\* The constructor succeeds on exactly the files that have every mandatory
\* part; everything else ends in an exception or, where a key is missing, in
\* undefined behaviour.  A field is never read from the wrong dictionary, and
\* the length of the file is known exactly when "length" is an integer: a
\* "length" of another type is accepted and leaves it unknown.
ConstructedIffComplete ==
    /\ step = "constructed" => Mandatory /\ (fileLength <=> HasTyped(Info, "length", "int"))
    /\ step \in {"threw", "undefined"} => ~Mandatory

\* The infohash is computed over the info dictionary when that is the last
\* thing in the file: the one character that is removed is the top-level 'e'.
InfohashRightWhenLast ==
    step = "constructed" /\ Info.to = Len(input) - 1 => infohash_binary = Encoding(Info)

\* metainfo.hpp:42 "Computes the binary form of the infohash for this
\* MetaInfo": what is hashed is the bencoded info dictionary.
InfohashIsOfInfo == step = "constructed" => infohash_binary = Encoding(Info)
============================================================================
