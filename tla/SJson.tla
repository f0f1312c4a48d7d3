-------------------------------- MODULE SJson --------------------------------
(***************************************************************************)
(* The JSON codec: documents that the server builds and encodes, and the   *)
(* decoder's state machine, which is fed one character at a time.          *)
(*                                                                         *)
(* An object is a function from keys to nodes, which stands for a tree     *)
(* ordered by lts_str_compare.  Objects live in a heap (a sequence) and    *)
(* hold other objects by index, as the code holds them by address.         *)
(***************************************************************************)
EXTENDS AdvString, SequencesExt

CONSTANTS
  Key, Val,   \* strings that documents are built from
  MaxObjs,    \* bounds: objects and nodes of a document
  MaxNodes,
  Body,       \* characters inside the strings that are decoded
  MaxStr,     \* bounds: length of these strings, of the whole text, and
  MaxText,    \* number of blanks in it
  MaxBlank

VARIABLES
  doc,   \* heap of a document under construction; doc[1] is the document
  dec,   \* the decoder
  text   \* what it was given so far

vars == <<doc, dec, text>>

QUOT == 34
COMMA == 44
COLON == 58
LBRACKET == 91
RBRACKET == 93
LBRACE == 123
RBRACE == 125

Struct == {QUOT, COMMA, COLON, LBRACKET, RBRACKET, LBRACE, RBRACE}
invisible == {TAB, LF, CR, SPACE}

Empty == [k \in {} |-> 0]

-----------------------------------------------------------------------------
(* Building                                                                 *)

\* Mutant: a second node with the same key replaces the first.
SearchReplaces(objs, o, key, node) ==
  [objs EXCEPT ![o] = (key :> node) @@ @]

\* __lts_sjson_search with link: a key that is taken keeps its node.
Search(objs, o, key, node) ==
  IF key \in DOMAIN objs[o] THEN objs
  ELSE [objs EXCEPT ![o] = (key :> node) @@ @]

NodeCount == FoldLeft(LAMBDA n, o : n + Cardinality(DOMAIN o), 0, doc)

\* Documents are built by a server that is not decoding.
Building == text = <<>> /\ UNCHANGED <<dec, text>>

lts_sjson_add_kv(o, key, val) ==
  /\ Building /\ NodeCount < MaxNodes
  /\ doc' = Search(doc, o, key, [str |-> val])

\* The new object is attached unless the key is taken, when it is lost.
lts_sjson_add_sjson(o, key) ==
  /\ Building /\ NodeCount < MaxNodes
  /\ Len(doc) < MaxObjs
  /\ key \notin DOMAIN doc[o]
  /\ doc' = Append(Search(doc, o, key, [obj |-> Len(doc) + 1]), Empty)

SortedKeys(o) == SetToSortSeq(DOMAIN o, LAMBDA a, b : lts_str_compare(a, b) < 0)

\* rb_first and rb_erase
lts_sjson_pop_min(o) ==
  /\ Building /\ doc[o] # Empty
  /\ doc' = [doc EXCEPT ![o] =
               [k \in DOMAIN @ \ {Head(SortedKeys(@))} |-> @[k]]]

-----------------------------------------------------------------------------
(* Encoding                                                                 *)

Quoted(s) == <<QUOT>> \o s \o <<QUOT>>

\* Items with commas between them
Joined(items) ==
  FoldLeft(LAMBDA t, i : IF t = <<>> THEN i ELSE t \o <<COMMA>> \o i, <<>>, items)

\* __lts_sjson_encode
RECURSIVE sjson_encode(_, _)
sjson_encode(objs, o) ==
  LET value(node) ==
        CASE "str" \in DOMAIN node -> Quoted(node.str)
          [] "list" \in DOMAIN node ->
               <<LBRACKET>> \o Joined([i \in DOMAIN node.list |-> Quoted(node.list[i])])
                 \o <<RBRACKET>>
          [] "obj" \in DOMAIN node -> sjson_encode(objs, node.obj)
      keys == SortedKeys(objs[o])
  IN <<LBRACE>>
       \o Joined([i \in DOMAIN keys |->
                    Quoted(keys[i]) \o <<COLON>> \o value(objs[o][keys[i]])])
       \o <<RBRACE>>

\* Mutant: the commas between the strings of a list are not counted.
RECURSIVE lts_sjson_encode_size_short(_, _)
lts_sjson_encode_size_short(objs, o) ==
  LET size(k) ==
        LET node == objs[o][k] IN
        1 + Len(k) + 3 +
        (CASE "str" \in DOMAIN node -> Len(node.str) + 2
           [] "list" \in DOMAIN node ->
                2 + FoldLeft(LAMBDA n, s : n + Len(s) + 2, 0, node.list)
           [] "obj" \in DOMAIN node -> lts_sjson_encode_size_short(objs, node.obj))
      keys == SortedKeys(objs[o])
  IN IF keys = <<>> THEN 2
     ELSE FoldLeft(LAMBDA n, k : n + size(k), 2, keys) - 1

\* One comma is counted for every node, and for every string of a list, and one
\* of each kind is taken back at the end.
RECURSIVE lts_sjson_encode_size(_, _)
lts_sjson_encode_size(objs, o) ==
  LET size(k) ==
        LET node == objs[o][k] IN
        1 + Len(k) + 3 +
        (CASE "str" \in DOMAIN node -> Len(node.str) + 2
           [] "list" \in DOMAIN node ->
                2 + FoldLeft(LAMBDA n, s : n + Len(s) + 3, 0, node.list)
                  - (IF node.list = <<>> THEN 0 ELSE 1)
           [] "obj" \in DOMAIN node -> lts_sjson_encode_size(objs, node.obj))
      keys == SortedKeys(objs[o])
  IN IF keys = <<>> THEN 2
     ELSE FoldLeft(LAMBDA n, k : n + size(k), 2, keys) - 1

-----------------------------------------------------------------------------
(* Decoding: one operator per state of the machine.  SJSON_EXP_K_QUOT_START *)
(* and SJSON_EXP_END are never entered.                                     *)

NewDecoder ==
  [stat |-> "START", key |-> <<>>, str |-> <<>>, in_bracket |-> FALSE,
   list |-> <<>>, objs |-> <<Empty>>, stack |-> <<>>]

To(d, stat) == [d EXCEPT !.stat = stat]
Invalid(d) == To(d, "INVALID")   \* return -1
Abort(d) == To(d, "ABORT")       \* abort()

\* The object that nodes are attached to: the innermost open one
Top(d) == IF d.stack = <<>> THEN 1 ELSE Last(d.stack)

Attach(d, node) == [d EXCEPT !.objs = Search(@, Top(d), d.key, node)]

OnStart(d, c) == IF c = LBRACE THEN To(d, "KEY_OR_END") ELSE Invalid(d)

\* A closing brace ends the innermost open object, or the document.
Close(d) ==
  IF d.stack = <<>> THEN To(d, "NOTHING")
  ELSE [d EXCEPT !.stat = "COMMA_OR_END", !.stack = Front(@)]

OnKeyOrEnd(d, c) ==
  CASE c = QUOT -> [d EXCEPT !.stat = "KEY_QUOT_END", !.key = <<>>]
    [] c = RBRACE -> Close(d)
    [] OTHER -> Invalid(d)

OnKeyQuotEnd(d, c) ==
  IF c = QUOT THEN To(d, "COLON") ELSE [d EXCEPT !.key = Append(@, c)]

OnColon(d, c) == IF c = COLON THEN To(d, "VALUE") ELSE Invalid(d)

\* A new object is attached at once and becomes the innermost one.  When its key
\* is taken it is not attached, and what it contains is lost with it.
OpenObject(d) ==
  LET new == Len(d.objs) + 1
      a == Attach(d, [obj |-> new])
  IN [a EXCEPT !.stat = "KEY_OR_END", !.objs = Append(@, Empty),
               !.stack = Append(@, new)]

OnValue(d, c) ==
  CASE c = QUOT -> [d EXCEPT !.stat = "VALUE_QUOT_END", !.str = <<>>]
    [] c = LBRACKET -> [d EXCEPT !.stat = "ITEM_OR_BRACKET_END",
                                 !.in_bracket = TRUE, !.list = <<>>]
    [] c = LBRACE -> OpenObject(d)
    [] OTHER -> Invalid(d)

CloseList(d) ==
  [Attach(d, [list |-> d.list]) EXCEPT !.stat = "COMMA_OR_END", !.in_bracket = FALSE]

OnItemOrBracketEnd(d, c) ==
  CASE ~d.in_bracket -> Abort(d)
    [] d.in_bracket /\ c = QUOT -> [d EXCEPT !.stat = "VALUE_QUOT_END", !.str = <<>>]
    [] d.in_bracket /\ c = RBRACKET -> CloseList(d)
    [] OTHER -> Invalid(d)

\* list_add_node puts a string in front of those before it.
OnValueQuotEnd(d, c) ==
  CASE c # QUOT -> [d EXCEPT !.str = Append(@, c)]
    [] c = QUOT /\ d.in_bracket ->
         [d EXCEPT !.stat = "COMMA_OR_BRACKET_END", !.list = <<d.str>> \o @]
    [] c = QUOT /\ ~d.in_bracket ->
         To(Attach(d, [str |-> d.str]), "COMMA_OR_END")

OnCommaOrBracketEnd(d, c) ==
  CASE ~d.in_bracket -> Abort(d)
    [] d.in_bracket /\ c = COMMA -> To(d, "ITEM_OR_BRACKET_END")
    [] d.in_bracket /\ c = RBRACKET -> CloseList(d)
    [] OTHER -> Invalid(d)

\* Mutant: a closing brace ends the document, however many objects are open.
OnCommaOrEndShallow(d, c) ==
  CASE c = COMMA -> To(d, "KEY_OR_END")
    [] c = RBRACE -> To(d, "NOTHING")
    [] OTHER -> Invalid(d)

OnCommaOrEnd(d, c) ==
  CASE d.in_bracket -> Abort(d)
    [] ~d.in_bracket /\ c = COMMA -> To(d, "KEY_OR_END")
    [] ~d.in_bracket /\ c = RBRACE -> Close(d)
    [] OTHER -> Invalid(d)

\* One turn of the loop of lts_sjson_decode
Step(d, c) ==
  CASE d.stat = "START" -> OnStart(d, c)
    [] d.stat = "KEY_OR_END" -> OnKeyOrEnd(d, c)
    [] d.stat = "KEY_QUOT_END" -> OnKeyQuotEnd(d, c)
    [] d.stat = "COLON" -> OnColon(d, c)
    [] d.stat = "VALUE" -> OnValue(d, c)
    [] d.stat = "ITEM_OR_BRACKET_END" -> OnItemOrBracketEnd(d, c)
    [] d.stat = "VALUE_QUOT_END" -> OnValueQuotEnd(d, c)
    [] d.stat = "COMMA_OR_BRACKET_END" -> OnCommaOrBracketEnd(d, c)
    [] d.stat = "COMMA_OR_END" -> OnCommaOrEnd(d, c)
    [] OTHER -> Invalid(d)

\* The decoder after a whole text, from which blanks are taken out first
lts_sjson_decode(t) == FoldLeft(Step, NewDecoder, lts_str_filter_multi(t, invisible))

-----------------------------------------------------------------------------
InString == dec.stat \in {"KEY_QUOT_END", "VALUE_QUOT_END"}
StrLen == IF dec.stat = "KEY_QUOT_END" THEN Len(dec.key) ELSE Len(dec.str)

\* The next character of the text.  The filter ran before the machine, so that
\* the machine does not see a blank.
Feed(c) ==
  /\ Len(text) < MaxText /\ doc = <<Empty>>
  /\ dec.stat \notin {"INVALID", "ABORT", "NOMEM"}
  /\ InString /\ c # QUOT => StrLen < MaxStr /\ c \in Body
  /\ c \in invisible => Len(SelectSeq(text, LAMBDA b : b \in invisible)) < MaxBlank
  /\ text' = Append(text, c)
  /\ dec' = IF c \in invisible THEN dec ELSE Step(dec, c)
  /\ UNCHANGED doc

\* lts_palloc fails where the decoder needs memory for a node.
NoMemory ==
  /\ Len(text) < MaxText
  /\ dec.stat \in {"VALUE", "ITEM_OR_BRACKET_END"}
  /\ text' = Append(text, QUOT)
  /\ dec' = To(dec, "NOMEM")
  /\ UNCHANGED doc

Init == doc = <<Empty>> /\ dec = NewDecoder /\ text = <<>>

Next ==
  \/ \E o \in DOMAIN doc, key \in Key :
       \/ \E val \in Val : lts_sjson_add_kv(o, key, val)
       \/ lts_sjson_add_sjson(o, key)
  \/ \E o \in DOMAIN doc : lts_sjson_pop_min(o)
  \/ \E c \in Struct \cup Body : Feed(c)
  \/ NoMemory

Spec == Init /\ [][Next]_vars

-----------------------------------------------------------------------------
(* Reference: what a text means, by recursive descent over the grammar      *)
(*    object ::= "{" { string ":" value "," } [ string ":" value ] "}"      *)
(*    list   ::= "[" { string "," } [ string ] "]"                          *)
(* A parse is [ok, val, at]: the value and the position behind it.          *)

No == [ok |-> FALSE]
Is(t, i, c) == i <= Len(t) /\ t[i] = c

ParseString(t, i) ==
  LET ends == {j \in i + 1 .. Len(t) : t[j] = QUOT}
  IN IF Is(t, i, QUOT) /\ ends # {}
     THEN [ok |-> TRUE, val |-> SubSeq(t, i + 1, Min(ends) - 1), at |-> Min(ends) + 1]
     ELSE No

\* The strings of a list end up in the opposite order.
RECURSIVE ParseItems(_, _, _)
ParseItems(t, i, items) ==
  LET s == ParseString(t, i) IN
  IF Is(t, i, RBRACKET) THEN [ok |-> TRUE, val |-> [list |-> items], at |-> i + 1]
  ELSE IF ~s.ok THEN No
  ELSE IF Is(t, s.at, COMMA) THEN ParseItems(t, s.at + 1, <<s.val>> \o items)
  ELSE IF Is(t, s.at, RBRACKET)
  THEN [ok |-> TRUE, val |-> [list |-> <<s.val>> \o items], at |-> s.at + 1]
  ELSE No

\* The first of several nodes with the same key counts.
RECURSIVE ParsePairs(_, _, _)
ParsePairs(t, i, pairs) ==
  LET k == ParseString(t, i)
      s == ParseString(t, k.at + 1)
      v == IF Is(t, k.at + 1, LBRACE) THEN ParsePairs(t, k.at + 2, Empty)
           ELSE IF Is(t, k.at + 1, LBRACKET) THEN ParseItems(t, k.at + 2, <<>>)
           ELSE IF s.ok THEN [ok |-> TRUE, val |-> [str |-> s.val], at |-> s.at] ELSE No
      more == pairs @@ (k.val :> v.val)
  IN IF Is(t, i, RBRACE) THEN [ok |-> TRUE, val |-> [obj |-> pairs], at |-> i + 1]
     ELSE IF ~k.ok THEN No
     ELSE IF ~Is(t, k.at, COLON) THEN No
     ELSE IF ~v.ok THEN No
     ELSE IF Is(t, v.at, COMMA) THEN ParsePairs(t, v.at + 1, more)
     ELSE IF Is(t, v.at, RBRACE) THEN [ok |-> TRUE, val |-> [obj |-> more], at |-> v.at + 1]
     ELSE No

Parse(t) ==
  LET p == IF Is(t, 1, LBRACE) THEN ParsePairs(t, 2, Empty) ELSE No
  IN IF p.ok THEN IF p.at = Len(t) + 1 THEN p ELSE No ELSE No

\* The value of a heap as Parse writes it
RECURSIVE Nested(_, _)
Nested(objs, o) ==
  [obj |-> [k \in DOMAIN objs[o] |->
              IF "obj" \in DOMAIN objs[o][k] THEN Nested(objs, objs[o][k].obj)
              ELSE objs[o][k]]]

RECURSIVE ListsTurned(_)
ListsTurned(v) ==
  CASE "obj" \in DOMAIN v -> [obj |-> [k \in DOMAIN v.obj |-> ListsTurned(v.obj[k])]]
    [] "list" \in DOMAIN v -> [list |-> Reverse(v.list)]
    [] OTHER -> v

-----------------------------------------------------------------------------
(* Properties                                                               *)

\* Whatever the decoder is fed, it never reaches its abort() calls; it accepts
\* exactly the texts of the grammar, and gives each the objects, lists and
\* strings it describes.
DecodesGrammar ==
  LET p == Parse(lts_str_filter_multi(text, invisible))
  IN /\ dec.stat # "ABORT"
     /\ dec.stat # "NOMEM" =>
          /\ p.ok <=> dec.stat = "NOTHING"
          /\ p.ok => p.val = Nested(dec.objs, 1)

\* An encoded document fills exactly the room lts_sjson_encode reserved for it.
SizeIsExact ==
  \A objs \in {doc} \cup (IF dec.stat = "NOTHING" THEN {dec.objs} ELSE {}) :
    Len(sjson_encode(objs, 1)) = lts_sjson_encode_size(objs, 1)

\* What the server encodes, the peer decodes: the same document, if it was built
\* by the server, and one with its lists turned round, if it was decoded before.
RoundTrip ==
  /\ LET d == lts_sjson_decode(sjson_encode(doc, 1))
     IN d.stat = "NOTHING" /\ Nested(d.objs, 1) = Nested(doc, 1)
  /\ dec.stat = "NOTHING" =>
       LET d == lts_sjson_decode(sjson_encode(dec.objs, 1))
       IN d.stat = "NOTHING" /\ Nested(d.objs, 1) = ListsTurned(Nested(dec.objs, 1))
=============================================================================
