---------------------------- MODULE KrnExtraction ----------------------------
(***************************************************************************)
(* The reference for the guest: JSON documents as trees, the tokens a      *)
(* server sends for them, and the value a path leads to.  The properties   *)
(* compare the outcome submit_proof would read with the one the document   *)
(* gives.                                                                  *)
(*                                                                         *)
(* A document is a function from places to nodes.  The document itself is  *)
(* at the place <<>>, the n-th member or item of what is at p at           *)
(* Append(p, n).                                                           *)
(***************************************************************************)
EXTENDS KrnGuest

Number(token)        == [kind |-> "number", token |-> token]
String(name, inside) == [kind |-> "string", name |-> name, inside |-> inside]
Null                 == [kind |-> "null"]
ObjectOf(names)      == [kind |-> "object", names |-> names]
ArrayOf(size)        == [kind |-> "array", size |-> size]

(* A string or the name of a member begins with a letter.                  *)
Node ==
    [kind : {"number"}, token : NumberToken]
    \cup [kind : {"string"}, name : STRING, inside : Seq(Token)]
    \cup [kind : {"null"}]
    \cup [kind : {"object"}, names : Seq(STRING)]
    \cup [kind : {"array"}, size : Nat]

Size(node) ==
    CASE node.kind = "object" -> Len(node.names)
      [] node.kind = "array"  -> node.size
      [] OTHER                -> 0

IsDocument(doc) ==
    /\ IsFiniteSet(DOMAIN doc) /\ DOMAIN doc \subseteq Seq(Nat \ {0})
    /\ <<>> \in DOMAIN doc
    /\ \A p \in DOMAIN doc :
           /\ doc[p] \in Node
           /\ \A n \in 1 .. Size(doc[p]) : Append(p, n) \in DOMAIN doc
           /\ p # <<>> => Front(p) \in DOMAIN doc /\ Last(p) <= Size(doc[Front(p)])

-----------------------------------------------------------------------------
(* What a server sends                                                     *)

Colon(pretty) == IF pretty THEN <<Mark(":"), Mark(" ")>> ELSE <<Mark(":")>>
Comma(pretty) == IF pretty THEN <<Mark(","), Mark("newline")>> ELSE <<Mark(",")>>

Opening(node) == IF node.kind = "array" THEN Mark("[") ELSE Mark("{")
Closing(node) == IF node.kind = "array" THEN Mark("]") ELSE Mark("}")

(* What stands before the n-th member or item.                             *)
Lead(node, n, pretty) ==
    (IF n = 1 THEN <<>> ELSE Comma(pretty))
    \o (IF node.kind = "object" THEN <<Text(node.names[n])>> \o Colon(pretty) ELSE <<>>)

(* The tokens of a node, given those of its members or items.              *)
NodeTokens(node, parts, pretty) ==
    CASE node.kind = "number" -> <<node.token>>
      [] node.kind = "string" -> <<Text(node.name)>> \o node.inside
      [] node.kind = "null"   -> <<Mark("null")>>
      [] OTHER ->
             <<Opening(node)>>
             \o FlattenSeq([n \in DOMAIN parts |-> Lead(node, n, pretty) \o parts[n]])
             \o <<Closing(node)>>

(* The tokens of what is at each place.                                    *)
Tokens(doc, pretty) ==
    LET tokens[p \in DOMAIN doc] ==
            NodeTokens(doc[p], [n \in 1 .. Size(doc[p]) |-> tokens[Append(p, n)]], pretty)
    IN  tokens

(* A status line and headers, with a number of their own.                  *)
Headers == <<Mark("status"), Mark(":"), Mark(" "), Bare(<<9>>), Mark("newline")>>

Response(doc, pretty) == Headers \o <<Mark("blank line")>> \o Tokens(doc, pretty)[<<>>]

ASSUME DocumentAssumption ==
    \A i \in Inputs : /\ IsDocument(i.doc) /\ i.pretty \in BOOLEAN
                      /\ i.response = Response(i.doc, i.pretty)

-----------------------------------------------------------------------------
(* The value a path leads to                                               *)

(* What is at p, from its k-th ancestor down: doc[Upper(p, k)] has it as   *)
(* or below its member or item p[k].                                       *)
Upper(p, k) == SubSeq(p, 1, k - 1)

(* A segment is for the n-th member or item of a node.                     *)
IsFor(segment, node, n) ==
    \/ segment.kind = "key" /\ node.kind = "object" /\ node.names[n] = segment.name
    \/ segment.kind = "index" /\ node.kind = "array" /\ n = segment.index + 1

(* The places a path leads to.                                             *)
PlacesAt(doc, path) ==
    {p \in DOMAIN doc : /\ Len(p) = Len(path)
                        /\ \A k \in DOMAIN path : IsFor(path[k], doc[Upper(p, k)], p[k])}

(* A plain number: an optional sign, digits, a point and digits.           *)
Plain(chars) ==
    /\ ~Contains(chars, Other)
    /\ \A n \in DOMAIN chars : chars[n] = Minus => n = 1

WholePart(chars) == FoldLeft(LAMBDA v, c : v * 10 + c, 0, UpTo(chars, Dot))

(* The documented reading: the integer part; a negative number counts as 0.*)
ValueOf(node) == IF Head(node.token.chars) = Minus THEN 0 ELSE WholePart(node.token.chars)

InRange(node) == Plain(node.token.chars) /\ ValueOf(node) < WordSize

IsNumber(node) == node.kind = "number" /\ InRange(node)
IsQuoted(node) == node.kind = "number" /\ node.token.kind = "quoted"

(* The names and strings a scan for a key would stop at.                   *)
Names(tokens) == {tokens[n].name : n \in {m \in DOMAIN tokens : tokens[m].kind = "text"}}

(* No string at or below p has a bracket in it, nor one at p a comma: a    *)
(* scan for an element counts them.                                        *)
NothingToCount(doc, p) ==
    \A q \in DOMAIN doc :
        IsPrefix(p, q) /\ doc[q].kind = "string" =>
            \A n \in DOMAIN doc[q].inside :
                /\ ~IsMark(doc[q].inside[n], Openers \cup Closers)
                /\ q = p => ~IsMark(doc[q].inside[n], Commas)

(* No earlier member has the name of a key or mentions it, no earlier item *)
(* disturbs the count: the first match is the right one, all the way down. *)
Clear(doc, pretty, path) ==
    \A p \in PlacesAt(doc, path), k \in DOMAIN path :
        \A n \in 1 .. p[k] - 1 :
            LET earlier == Append(Upper(p, k), n)
            IN  IF path[k].kind = "key"
                THEN /\ doc[Upper(p, k)].names[n] # path[k].name
                     /\ path[k].name \notin Names(Tokens(doc, pretty)[earlier])
                ELSE NothingToCount(doc, earlier)

(* The first value of a document that is not an object or an array with    *)
(* something in it, and whether it is a member.                            *)
IsFirst(doc, p)  == (\A k \in DOMAIN p : p[k] = 1) /\ Size(doc[p]) = 0
IsMember(doc, p) == p # <<>> /\ doc[Front(p)].kind = "object"

-----------------------------------------------------------------------------
(* Properties                                                              *)

Ended == pc \in {"done", "panicked"}

HeadToHead == input.comparison = 3

(* The question is one the guest documents: paths for a comparison, two of *)
(* them for the comparison of two values.                                  *)
Asked(parts) ==
    /\ input.comparison \in 0 .. 3
    /\ Len(parts) = IF HeadToHead THEN 2 ELSE 1
    /\ \A p \in DOMAIN parts : parts[p] # <<>>

Truth(v) ==
    \/ input.comparison = 0 /\ v[1] > input.threshold
    \/ input.comparison = 1 /\ v[1] < input.threshold
    \/ input.comparison = 2 /\ v[1] = input.threshold
    \/ HeadToHead /\ v[1] > v[2]

(* The parser can tell the parts of the public values apart.               *)
Legible ==
    Readable(input.output,
             [server_name |-> input.server_name, json_path |-> input.json_path.raw])

Decided(v) ==
    /\ pc = "done"
    /\ WellFormed(committed)
    /\ Parsed(committed).outcome = IF Truth(v) THEN 1 ELSE 0

(* When each path leads, without an earlier string in the way, to a quoted *)
(* number that fits, a proof is made and the outcome submit_proof reads is *)
(* the one the document gives, however deep, pretty-printed or surrounded  *)
(* by other values it is (main.rs:119-228).                                *)
QuotedValueDecides ==
    LET parts == input.json_path.parts
        found(n) == PlacesAt(input.doc, parts[n])
        right(n) == \E p \in found(n) : IsNumber(input.doc[p]) /\ IsQuoted(input.doc[p])
    IN  Ended /\ Asked(parts) /\ Legible
            /\ (\A n \in DOMAIN parts : Clear(input.doc, input.pretty, parts[n]) /\ right(n))
        => Decided([n \in DOMAIN parts |-> ValueOf(input.doc[CHOOSE p \in found(n) : TRUE])])

(* With an empty path, a document whose first value is a quoted number or  *)
(* a member that is a number is decided by it: the headers and the names   *)
(* before it are passed over (main.rs:108-117, 234-271).                   *)
FirstNumberDecides ==
    \A p \in DOMAIN input.doc :
        LET first == input.doc[p]
        IN  Ended /\ input.comparison \in 0 .. 2 /\ Legible
                /\ input.json_path.parts = <<<<>>>>
                /\ IsFirst(input.doc, p) /\ IsNumber(first)
                /\ (IsMember(input.doc, p) \/ IsQuoted(first))
            => Decided(<<ValueOf(first)>>)

(* main.rs:118 "Returns the integer part of the value found at the path":  *)
(* no proof is made with a value from elsewhere in the document.           *)
ValueAtPath ==
    LET parts == input.json_path.parts
    IN  pc = "done" /\ Asked(parts) /\ ~HeadToHead
        => \E p \in PlacesAt(input.doc, parts[1]) :
               IsNumber(input.doc[p]) /\ values = <<ValueOf(input.doc[p])>>

=============================================================================
