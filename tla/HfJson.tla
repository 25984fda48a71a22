------------------------------- MODULE HfJson -------------------------------
(***************************************************************************)
(* The JSON reader of the Hugging Face loader                              *)
(* (src/model/formats/hf/hf_json_reader.cpp) on token sequences: white     *)
(* space is gone, "string" and "number" are well-formed scalars, "word" is *)
(* true, false or null.  A parser is called with the position of the next  *)
(* token and answers with the position after what it consumed, or fails.   *)
(***************************************************************************)
EXTENDS Integers, Sequences

CONSTANTS kMaxSkipDepth, \* nesting depth that SkipValue follows
          MaxTokens      \* length of the texts read

VARIABLE query

Scalars == {"string", "number", "word"}
Tokens == Scalars \cup {"{", "}", "[", "]", ",", ":"}

-----------------------------------------------------------------------------
AtEnd(text, p) == p > Len(text)
TryConsume(text, p, token) == ~AtEnd(text, p) /\ text[p] = token

Consumed(p) == [ok |-> TRUE, at |-> p]
Error == [ok |-> FALSE, at |-> 0]

(* After an element of a list: its end, its next element, or an error.     *)
Continue(text, element, close, Next1(_)) ==
  IF ~element.ok THEN Error
  ELSE IF TryConsume(text, element.at, close) THEN Consumed(element.at + 1)
  ELSE IF TryConsume(text, element.at, ",") THEN Next1(element.at + 1)
  ELSE Error

ParseScalar(text, p, kind) ==
  IF TryConsume(text, p, kind) THEN Consumed(p + 1) ELSE Error

RECURSIVE Elements(_, _, _)
Elements(text, p, kind) ==
  Continue(text, ParseScalar(text, p, kind), "]", LAMBDA q : Elements(text, q, kind))

\* Mutant: the bracket that closes an empty array is left in the text.
ParseArrayUnclosed(text, p, kind) ==
  IF ~TryConsume(text, p, "[") THEN Error
  ELSE IF TryConsume(text, p + 1, "]") THEN Consumed(p + 1)
  ELSE Elements(text, p + 1, kind)

(* ParseStringArray and ParseInt64Array.                                   *)
ParseArray(text, p, kind) ==
  IF ~TryConsume(text, p, "[") THEN Error
  ELSE IF TryConsume(text, p + 1, "]") THEN Consumed(p + 2)
  ELSE Elements(text, p + 1, kind)

ParseOffsetPair(text, p) ==
  IF \A i \in 0..4 :
       TryConsume(text, p + i, <<"[", "number", ",", "number", "]">>[i + 1])
  THEN Consumed(p + 5) ELSE Error

-----------------------------------------------------------------------------
RECURSIVE SkipValueInternal(_, _, _), SkipMembers(_, _, _), SkipElements(_, _, _)

SkipMembers(text, p, depth) ==
  IF TryConsume(text, p, "string") /\ TryConsume(text, p + 1, ":")
  THEN Continue(text, SkipValueInternal(text, p + 2, depth + 1), "}",
                LAMBDA q : SkipMembers(text, q, depth))
  ELSE Error

SkipElements(text, p, depth) ==
  Continue(text, SkipValueInternal(text, p, depth + 1), "]",
           LAMBDA q : SkipElements(text, q, depth))

SkipValueInternal(text, p, depth) ==
  CASE depth > kMaxSkipDepth \/ AtEnd(text, p) -> Error
    [] OTHER ->
       CASE text[p] = "{" -> IF TryConsume(text, p + 1, "}") THEN Consumed(p + 2)
                             ELSE SkipMembers(text, p + 1, depth)
         [] text[p] = "[" -> IF TryConsume(text, p + 1, "]") THEN Consumed(p + 2)
                             ELSE SkipElements(text, p + 1, depth)
         [] text[p] \in Scalars -> Consumed(p + 1)
         [] OTHER -> Error

SkipValue(text, p) == SkipValueInternal(text, p, 0)

-----------------------------------------------------------------------------
(* The grammar: the values, and the lists of items that fill an array or   *)
(* an object, of n tokens and d levels of nesting below them.              *)

Between(open, lists, close) == {<<open>> \o l \o <<close>> : l \in lists}

Lists(items, n) ==
  LET list[k \in 0..n] ==
        items[k] \cup UNION {{i \o <<",">> \o l : i \in items[j], l \in list[k - j - 1]} :
                             j \in 1..(k - 1)}
  IN  list[n]

ValuesAt ==
  LET values[d \in 0..kMaxSkipDepth] ==
        [n \in 0..MaxTokens |->
           IF n = 0 THEN {}
           ELSE IF n = 1 THEN {<<s>> : s \in Scalars}
           ELSE IF n = 2 THEN {<<"[", "]">>, <<"{", "}">>}
           ELSE IF d = 0 THEN {}
           ELSE LET members == [k \in 0..(n - 2) |->
                       IF k < 3 THEN {}
                       ELSE {<<"string", ":">> \o v : v \in values[d - 1][k - 2]}]
                IN  Between("[", Lists(values[d - 1], n - 2), "]")
                    \cup Between("{", Lists(members, n - 2), "}")]
  IN  values[kMaxSkipDepth]

ArraysOf(kind) ==
  [n \in 0..MaxTokens |->
     IF n < 2 THEN {} ELSE IF n = 2 THEN {<<"[", "]">>}
     ELSE Between("[", Lists([k \in 0..n |-> IF k = 1 THEN {<<kind>>} ELSE {}], n - 2), "]")]

Strings == ArraysOf("string")
Numbers == ArraysOf("number")
Pairs == [n \in 0..MaxTokens |-> {a \in Numbers[n] : n = 5}]

-----------------------------------------------------------------------------
Init == query = <<>>
Next == /\ Len(query) < MaxTokens
        /\ query # <<>> => query[1] \in {"{", "["}
        /\ \E t \in Tokens : query' = Append(query, t)

Recognises(result, language) ==
  LET prefixes == {n \in 0..Len(query) : SubSeq(query, 1, n) \in language[n]}
  IN  IF result.ok THEN prefixes = {result.at - 1} ELSE prefixes = {}

(* SkipValue, by which every parser of the loader passes over a field it   *)
(* does not know, consumes exactly one JSON value: of every text it        *)
(* accepts the one prefix that is a value, and it refuses a text only if   *)
(* no prefix of it is a value nested at most kMaxSkipDepth deep.  The      *)
(* arrays of strings, of integers and the offset pairs likewise.           *)
ReadsOneValue ==
  /\ Recognises(SkipValue(query, 1), ValuesAt)
  /\ Recognises(ParseArray(query, 1, "string"), Strings)
  /\ Recognises(ParseArray(query, 1, "number"), Numbers)
  /\ Recognises(ParseOffsetPair(query, 1), Pairs)
=============================================================================
