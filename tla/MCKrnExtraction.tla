--------------------------- MODULE MCKrnExtraction ---------------------------
(***************************************************************************)
(* Inputs of the guest for TLC.  A byte has six values and a word two      *)
(* bytes, so that numbers of two digits overflow and names of six bytes    *)
(* have a length that does not fit.                                        *)
(***************************************************************************)
EXTENDS KrnExtraction

Kay == 5   \* the bytes of the marker
Are == 4
En  == 3
KRN == <<Kay, Are, En>>

(* Documents from their parts.                                             *)
Leaf(node) == [p \in {<<>>} |-> node]

Compound(node, parts) ==
    [p \in {<<>>} \cup UNION {{<<n>> \o q : q \in DOMAIN parts[n]} : n \in DOMAIN parts} |->
        IF p = <<>> THEN node ELSE parts[Head(p)][Tail(p)]]

Member(name, value) == [name |-> name, value |-> value]

Object(members) ==
    Compound(ObjectOf([n \in DOMAIN members |-> members[n].name]),
             [n \in DOMAIN members |-> members[n].value])

Array(items) == Compound(ArrayOf(Len(items)), items)

Quote(chars) == Leaf(Number(Quoted(chars)))
Unquoted(chars) == Leaf(Number(Bare(chars)))
Said(name, inside) == Leaf(String(name, inside))

(* Values a member may have: quoted and bare numbers, whole, fractional,   *)
(* negative, too large or with an exponent; a string that is also a name,  *)
(* one with a number and one with a comma inside; nothing.                 *)
Values ==
    {Quote(chars) : chars \in {<<7>>, <<1, 2, Dot, 9>>, <<Minus, 8>>, <<4, 0>>, <<1, Other, 1>>}}
    \cup {Unquoted(chars) : chars \in {<<8>>, <<1, Other, 1>>}}
    \cup {Said("usd", <<>>), Said("at", <<Mark(":"), Bare(<<6>>)>>),
          Said("list", <<Mark(",")>>), Leaf(Null)}

FewValues == {Quote(<<7>>), Quote(<<9>>), Unquoted(<<8>>), Said("usd", <<>>)}

Quotes(V) ==
    {Object(<<Member("usd", v)>>) : v \in V}
    \cup {Object(<<Member("usd", v), Member("eur", w)>>) : v, w \in V}
    \cup {Object(<<Member("eur", v), Member("usd", w)>>) : v, w \in V}

Items ==
    Quotes(FewValues)
    \cup {Said("list", <<Mark(",")>>), Array(<<Quote(<<5>>), Leaf(Null)>>),
          Array(<<Said("open", <<Mark("[")>>)>>), Array(<<Said("list", <<Mark(",")>>)>>)}

Path(path) == [parts |-> <<path>>, raw |-> <<1, 2>>]

Documents(V) ==
    [doc : Quotes(V), json_path : {Path(<<>>), Path(<<Key("usd")>>)}]

Nested ==
    [doc : {Object(<<Member("btc", v), Member("eth", w)>>) : v, w \in Quotes(FewValues)},
     json_path : {Path(<<Key("eth"), Key("usd")>>)}]

Listed ==
    [doc : {Object(<<Member("events", Array(<<v, w>>))>>) : v, w \in Items},
     json_path : {Path(<<Key("events"), Index(1), Key("usd")>>),
                  Path(<<Key("events"), Index(2), Key("usd")>>)}]

(* What the guest is asked of a document.                                  *)
Ask(docs, comparison, threshold, pretty) ==
    {[doc |-> d.doc, pretty |-> pretty, response |-> Response(d.doc, pretty), output |-> <<>>,
      server_name |-> <<1>>, threshold |-> threshold, comparison |-> comparison,
      json_path |-> d.json_path] : d \in docs}

(* Two scores of one event, and paths that lack a bar or a part.           *)
Scores ==
    [doc : {Object(<<Member("events", Array(<<v, w>>))>>) :
                v, w \in {Object(<<Member("usd", Quote(<<n>>))>>) : n \in {6, 7}}},
     json_path :
        {[parts |-> <<<<Key("events"), Index(0), Key("usd")>>, <<Key("events"), Index(1), Key("usd")>>>>,
          raw |-> <<1>>],
         [parts |-> <<<<Key("usd")>>, <<>>>>, raw |-> <<1>>],
         Path(<<Key("usd")>>)}]

(* The shape of the answer of the registered price source.                 *)
Price == Object(<<Member("btc", Object(<<Member("usd", Unquoted(<<8>>))>>))>>)

(* Outputs of the TLS replay that end in, begin with or hold parts of a    *)
(* length and a marker; and names and paths up to and beyond a byte.       *)
Outputs == UNION {[1 .. n -> {0, Are, Kay, En}] : n \in 0 .. 6}
Bytes(n) == [k \in 1 .. n |-> k % Base]

Encoded ==
    {[i EXCEPT !.output = output] :
        i \in Ask([doc : {Price}, json_path : {Path(<<>>)}], 0, 7, FALSE), output \in Outputs}
    \cup {[i EXCEPT !.server_name = Bytes(n), !.json_path.raw = Bytes(m)] :
              i \in Ask([doc : {Price}, json_path : {Path(<<>>)}], 2, 30, FALSE), n, m \in 0 .. 7}

AllInputs ==
    UNION {Ask(Documents(Values), 0, 7, pretty) : pretty \in BOOLEAN}
    \cup Ask(Nested, 2, 9, TRUE)
    \cup Ask(Listed, 1, 8, FALSE)
    \cup Ask(Scores, 3, 0, TRUE) \cup Ask(Scores, 0, 6, FALSE)
    \cup Ask([doc : {Price, Leaf(Null)}, json_path : {Path(<<>>), Path(<<Index(0)>>)}], 4, 0, FALSE)
    \cup Encoded

(* Prices as numbers, which the registered source answers with.            *)
Prices ==
    Ask([doc : {Object(<<Member("usd", Unquoted(<<n>>)), Member("eur", Unquoted(<<m>>))>>) :
                    n, m \in 7 .. 9},
         json_path : {Path(<<Key("usd")>>)}], 0, 8, FALSE)

=============================================================================
