------------------------------ MODULE Bencode ------------------------------
(* bencode::Parser::next on one input: the recursive descent of Object,    *)
(* take_dict and take_list, with the C++ call stack as a sequence of       *)
(* frames and one action per token consumed.                               *)
(*                                                                         *)
(* A token is a whole lexical unit: "d", "l" and "e" are the brackets,     *)
(* "int" is i<digits>e, "bad" is anything take_string, take_integer or the *)
(* Object constructor throws at (a sign in an integer, a length that is no *)
(* number, an unknown first character), and every member of Strs is a      *)
(* length-prefixed string.  The end of the input stands for every place    *)
(* where the code reads the front of an empty deque, inside a token or     *)
(* between two: that is undefined behaviour, and the status records it.    *)
EXTENDS Naturals, Sequences, FiniteSets

CONSTANTS
    Strs,       \* the strings that occur, keys among them
    Inputs      \* the token sequences a parser is given

Brackets == {"d", "l", "e"}
NoKey == "nokey"

ASSUME BencodeAssumption ==
    /\ Strs \cap (Brackets \cup {"int", "bad", NoKey}) = {}
    /\ Inputs \subseteq Seq(Strs \cup Brackets \cup {"int", "bad"})

VARIABLES
    input,      \* what Parser was constructed with
    pos,        \* tokens popped off the front of m_data
    frames,     \* the open take_dict and take_list calls, outermost first
    status,     \* "running", "done", "none", "threw" or "undefined"
    result      \* the object next() returned

parser == <<input, pos, frames, status, result>>

NoObject == [type |-> "none"]
EmptyMap == [k \in {} |-> NoObject]

\* An Object: its type, its value, and where m_raw_bytes starts.  The buffer
\* is copied before the object is taken out of it, so it reaches to the end
\* of the input; to is where the object really ends.
Object(type, val, from, to) == [type |-> type, val |-> val, from |-> from, to |-> to]

\* Object::as_raw_bytes.
RawBytes(o) == SubSeq(input, o.from, Len(input))

\* The object in its bencoded form.
Encoding(o) == SubSeq(input, o.from, o.to)

Frame(kind, from) ==
    [kind |-> kind, from |-> from, map |-> EmptyMap, list |-> <<>>, key |-> NoKey]

ParserInit ==
    /\ input \in Inputs
    /\ pos = 0 /\ frames = <<>> /\ status = "running" /\ result = NoObject

Running == status = "running"
Token == input[pos + 1]
Top == frames[Len(frames)]
Pop == SubSeq(frames, 1, Len(frames) - 1)

\* std::map::emplace: the first of two equal keys wins.
Emplace(map, k, o) ==
    [x \in DOMAIN map \cup {k} |-> IF x \in DOMAIN map THEN map[x] ELSE o]

\* A finished object goes to the call that wanted it: next(), take_list, or
\* take_dict as a key or as the value of the key before it.  Only after the
\* whole key is parsed does take_dict look at its type.
Deliver(o, open) ==
    IF open = <<>> THEN
        /\ status' = "done" /\ result' = o /\ frames' = open
    ELSE LET f == open[Len(open)]
             Replace(g) == frames' = [open EXCEPT ![Len(open)] = g]
         IN IF f.kind = "d" /\ f.key = NoKey /\ o.type # "str" THEN
                status' = "threw" /\ UNCHANGED <<frames, result>>
            ELSE
                /\ UNCHANGED <<status, result>>
                /\ IF f.kind = "l" THEN Replace([f EXCEPT !.list = Append(@, o)])
                   ELSE IF f.key = NoKey THEN Replace([f EXCEPT !.key = o.val])
                   ELSE Replace([f EXCEPT !.map = Emplace(@, f.key, o), !.key = NoKey])

\* Parser::next on an empty deque returns nullopt.
NextOnEmpty ==
    /\ Running /\ input = <<>>
    /\ status' = "none"
    /\ UNCHANGED <<input, pos, frames, result>>

\* take_string or take_integer.
TakeAtom ==
    /\ Running /\ pos < Len(input) /\ Token \in Strs \cup {"int"}
    /\ pos' = pos + 1
    /\ Deliver(IF Token = "int" THEN Object("int", 0, pos + 1, pos + 1)
                                ELSE Object("str", Token, pos + 1, pos + 1), frames)
    /\ UNCHANGED input

\* Slip of Enter: the bracket stays in the input.
EnterWithoutPop ==
    /\ Running /\ pos < Len(input) /\ Token \in {"d", "l"}
    /\ frames' = Append(frames, Frame(Token, pos + 1))
    /\ UNCHANGED <<input, pos, status, result>>

\* take_dict or take_list is entered.
Enter ==
    /\ Running /\ pos < Len(input) /\ Token \in {"d", "l"}
    /\ pos' = pos + 1
    /\ frames' = Append(frames, Frame(Token, pos + 1))
    /\ UNCHANGED <<input, status, result>>

\* Slip of CanLeave: a dictionary may end after a key.
CanLeaveAfterKey == frames # <<>>

\* An 'e' ends the innermost call, unless take_dict is waiting for a value.
CanLeave == frames # <<>> /\ Top.key = NoKey

Leave ==
    /\ Running /\ pos < Len(input) /\ Token = "e" /\ CanLeave
    /\ pos' = pos + 1
    /\ Deliver(IF Top.kind = "d" THEN Object("dict", Top.map, Top.from, pos + 1)
                                 ELSE Object("list", Top.list, Top.from, pos + 1), Pop)
    /\ UNCHANGED input

\* No object starts with this token.
Throw ==
    /\ Running /\ pos < Len(input)
    /\ Token = "bad" \/ (Token = "e" /\ ~CanLeave)
    /\ status' = "threw"
    /\ UNCHANGED <<input, pos, frames, result>>

\* Slip of ReadPastEnd: the parser waits for more.
ReadPastEndWaits == Running /\ pos = Len(input) /\ UNCHANGED parser

\* The input ends inside an object: front() of an empty deque.
ReadPastEnd ==
    /\ Running /\ input # <<>> /\ pos = Len(input)
    /\ status' = "undefined"
    /\ UNCHANGED <<input, pos, frames, result>>

ParserNext == NextOnEmpty \/ TakeAtom \/ Enter \/ Leave \/ Throw \/ ReadPastEnd

----------------------------------------------------------------------------
(* The grammar, stated without a parser.                                   *)
Opens(n) == {k \in 1..n : input[k] \in {"d", "l"}}
Closes(n) == {k \in 1..n : input[k] = "e"}
Depth(n) == Cardinality(Opens(n)) - Cardinality(Closes(n))

\* The tokens the elements of the bracket opened at k start with: those that
\* stand directly inside it.
Elements(k, n) ==
    LET close == CHOOSE c \in k..n : /\ Depth(c) = Depth(k) - 1
                                     /\ \A m \in k..(c - 1) : Depth(m) >= Depth(k)
    IN  {j \in (k + 1)..(close - 1) : Depth(j - 1) = Depth(k) /\ input[j] # "e"}

\* The first n tokens encode exactly one value: brackets match, nothing is
\* illegal, and a dictionary alternates strings and values.
EncodesOne(n) ==
    /\ \A k \in 1..n : input[k] # "bad"
    /\ Depth(n) = 0
    /\ \A m \in 1..(n - 1) : Cardinality(Opens(m)) > Cardinality(Closes(m))
    /\ \A k \in Opens(n) : input[k] = "d" =>
         LET es == Elements(k, n) IN
         \A j \in es :
             LET nth == Cardinality({i \in es : i <= j}) IN
             /\ nth % 2 = 1 => input[j] \in Strs
             /\ nth % 2 = 1 => \E i \in es : i > j

\* next() returns an object exactly when the input starts with one, takes
\* exactly its tokens, and never takes the beginning of the next.
ParsesExactlyOne ==
    /\ status = "done" => EncodesOne(pos) /\ Encoding(result) = SubSeq(input, 1, pos)
    /\ status \in {"threw", "undefined", "none"} => ~ \E n \in 1..Len(input) : EncodesOne(n)
============================================================================
