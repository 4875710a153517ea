------------------------------ MODULE KrnGuest ------------------------------
(***************************************************************************)
(* The zkVM guest (zktls-prover/program/src/main.rs): it finds the number  *)
(* a JSON path leads to in the body of a recorded HTTP response, compares  *)
(* it and commits the public values.  It has no JSON parser: it scans the  *)
(* bytes.  A response is a sequence of tokens, each for the bytes that the *)
(* scanning loops treat as one; where a loop can stop inside a string,     *)
(* the string's inner tokens follow it.                                    *)
(***************************************************************************)
EXTENDS KrnPublicValues

CONSTANTS Inputs   \* what the guest may be run with

(* Tokens: punctuation, blanks and the blank line that ends the headers;   *)
(* a string; a string that begins with a digit or a minus; a bare number.  *)
Mark(c)       == [kind |-> c]
Text(name)    == [kind |-> "text", name |-> name]
Quoted(chars) == [kind |-> "quoted", chars |-> chars]
Bare(chars)   == [kind |-> "bare", chars |-> chars]

(* The characters of a number are its digits and these.                    *)
Minus == -1
Dot   == -2
Other == -3   \* an exponent, a letter

NumberToken ==
    [kind : {"quoted", "bare"}, chars : Seq(0 .. 9 \cup {Minus, Dot, Other}) \ {<<>>}]

Marks == {"{", "}", "[", "]", ",", ":", " ", "newline", "blank line", "null", "status"}

Token == NumberToken \cup [kind : {"text"}, name : STRING] \cup [kind : Marks]

(* Segments of a path.                                                     *)
Key(name)  == [kind |-> "key", name |-> name]
Index(n)   == [kind |-> "index", index |-> n]

Segment == [kind : {"key"}, name : STRING] \cup [kind : {"index"}, index : Nat]

ASSUME InputsAssumption ==
    \A i \in Inputs :
        /\ i.response \in Seq(Token)
        /\ {i.output, i.server_name, i.json_path.raw} \subseteq Seq(Byte)
        /\ i.threshold \in Word /\ i.comparison \in Byte
        /\ i.json_path.parts \in Seq(Seq(Segment))

VARIABLES
    input,      \* response, output of the TLS replay, server_name,
                \* threshold, comparison, json_path
    pc,
    paths,      \* paths whose value is still to be extracted
    segments,   \* what is left of the current path
    current,    \* the slice of the body navigated to
    values,     \* the values extracted so far
    committed   \* public values

vars == <<input, pc, paths, segments, current, values, committed>>

-----------------------------------------------------------------------------
(* Mutants.                                                                *)
CommasAnywhere(json, from, n) ==
    Cardinality({m \in from .. n - 1 : json[m].kind = ","})
HeadersAreBody(response) == response

-----------------------------------------------------------------------------
(* Scanning                                                                *)

IsMark(token, marks) == token.kind \in marks

(* The first of a set of positions; just past the end if there is none.    *)
FirstOf(json, positions) ==
    IF positions = {} THEN Len(json) + 1 ELSE Min(positions)

SkipFrom(json, n, marks) ==
    FirstOf(json, {m \in n .. Len(json) : ~IsMark(json[m], marks)})

From(json, n) == SubSeq(json, n, Len(json))

Blanks == {" ", "newline"}
ArrayOpeners == {"["}
Openers == {"{"} \cup ArrayOpeners
Closers == {"}", "]"}
Commas == {","}

(* extract_http_body                                                       *)
Body(response) ==
    LET ends == {n \in DOMAIN response : IsMark(response[n], {"blank line"})}
    IN  IF ends = {} THEN response ELSE From(response, Min(ends) + 1)

(* navigate_to_key: the first string that equals the key, wherever it is   *)
(* and whether or not it is a key.                                         *)
KeysIn(json, name) ==
    {n \in DOMAIN json : json[n].kind = "text" /\ json[n].name = name}

AfterKey(json, name) ==
    From(json, SkipFrom(json, Min(KeysIn(json, name)) + 1, Blanks \cup {":"}))

(* navigate_to_array_element: commas are counted at the depth of the first *)
(* bracket, which need not belong to the current value.                    *)
Arrays(json) == {n \in DOMAIN json : IsMark(json[n], ArrayOpeners)}

DepthAt(json, from, n) ==
    Cardinality({m \in from .. n - 1 : IsMark(json[m], Openers)})
    - Cardinality({m \in from .. n - 1 : IsMark(json[m], Closers)})

CommasBefore(json, from, n) ==
    Cardinality({m \in from .. n - 1 : IsMark(json[m], Commas) /\ DepthAt(json, from, m) = 0})

Element(json, index) ==
    LET from == Min(Arrays(json)) + 1
        start == FirstOf(json, {n \in from .. Len(json) : CommasBefore(json, from, n) = index})
    IN  From(json, SkipFrom(json, start, Blanks))

(* extract_json_number: a quoted number, or a bare one behind a colon.     *)
AfterColon(json, n) ==
    /\ json[n].kind = "bare"
    /\ \E m \in 1 .. n - 1 :
           /\ IsMark(json[m], {":"})
           /\ \A k \in m + 1 .. n - 1 : IsMark(json[k], {" "})

Numbers(json) ==
    {n \in DOMAIN json : json[n].kind = "quoted" \/ AfterColon(json, n)}

UpTo(chars, stop) ==
    LET stops == {n \in DOMAIN chars : chars[n] = stop}
    IN  IF stops = {} THEN chars ELSE SubSeq(chars, 1, Min(stops) - 1)

(* parse_number_bytes: other characters are passed over, u64 wraps, and a  *)
(* minus anywhere before the point makes the number 0.                     *)
ParseNumber(chars) ==
    LET whole == UpTo(chars, Dot)
        value == FoldLeft(LAMBDA v, c : IF c < 0 THEN v ELSE (v * 10 + c) % WordSize, 0, whole)
    IN  IF Contains(whole, Minus) THEN 0 ELSE value

NumberAt(token) ==
    ParseNumber(IF token.kind = "bare" THEN UpTo(token.chars, Other) ELSE token.chars)

-----------------------------------------------------------------------------
(* main                                                                    *)

(* json_path.parts: the path split at the bar, and each part at the dots.  *)
(* With one path, a bar is a character of a key; with two, an empty one    *)
(* splits into one empty segment, which counts as an index.                *)
OnePath(parts) ==
    IF Len(parts) = 1 THEN parts[1]
    ELSE SubSeq(parts[1], 1, Len(parts[1]) - 1) \o <<Key("|")>>
         \o SubSeq(parts[2], 2, Len(parts[2]))

TwoPaths(parts) == [p \in 1 .. 2 |-> IF parts[p] = <<>> THEN <<Index(0)>> ELSE parts[p]]

PathsOf(parts) == IF input.comparison = 3 THEN TwoPaths(parts) ELSE <<OnePath(parts)>>

GoTo(label) == pc' = label

(* A panic ends the run with an exit code that is not 0.                   *)
Panic == GoTo("panicked") /\ UNCHANGED <<paths, segments, current, values, committed>>

(* The output of the TLS replay is committed before anything can fail.     *)
Start ==
    /\ pc = "start"
    /\ committed' = input.output
    /\ IF input.comparison = 3 /\ Len(input.json_path.parts) = 1
       THEN GoTo("panicked") /\ UNCHANGED <<paths, segments, current>>
       ELSE /\ GoTo("extracting")
            /\ paths' = Tail(PathsOf(input.json_path.parts))
            /\ segments' = Head(PathsOf(input.json_path.parts))
            /\ current' = Body(input.response)
    /\ UNCHANGED <<input, values>>

Navigate(slice) ==
    /\ segments' = Tail(segments)
    /\ current' = slice
    /\ UNCHANGED <<pc, paths, values, committed>>

NavigateToKey ==
    /\ pc = "extracting" /\ segments # <<>> /\ Head(segments).kind = "key"
    /\ IF KeysIn(current, Head(segments).name) = {} THEN Panic
       ELSE Navigate(AfterKey(current, Head(segments).name))
    /\ UNCHANGED input

(* Without a bracket the slice would start behind the end: a panic.        *)
NavigateToElement ==
    /\ pc = "extracting" /\ segments # <<>> /\ Head(segments).kind = "index"
    /\ IF Arrays(current) = {} THEN Panic
       ELSE Navigate(Element(current, Head(segments).index))
    /\ UNCHANGED input

ExtractNumber ==
    /\ pc = "extracting" /\ segments = <<>>
    /\ IF Numbers(current) = {} THEN Panic
       ELSE /\ values' = Append(values, NumberAt(current[Min(Numbers(current))]))
            /\ IF paths = <<>>
               THEN GoTo("comparing") /\ UNCHANGED <<paths, segments, current>>
               ELSE /\ paths' = Tail(paths)
                    /\ segments' = Head(paths)
                    /\ current' = Body(input.response)
                    /\ UNCHANGED pc
            /\ UNCHANGED committed
    /\ UNCHANGED input

FirstGreater(v) == v[1] > v[2]

Answer(v) ==
    CASE input.comparison = 0 -> v[1] > input.threshold
      [] input.comparison = 1 -> v[1] < input.threshold
      [] input.comparison = 2 -> v[1] = input.threshold
      [] input.comparison = 3 -> FirstGreater(v)

Fields(v) ==
    [outcome |-> IF Answer(v) THEN 1 ELSE 0, comparison |-> input.comparison,
     threshold |-> input.threshold, value |-> v[1],
     server_name |-> input.server_name, json_path |-> input.json_path.raw]

Commit ==
    /\ pc = "comparing"
    /\ IF input.comparison \notin 0 .. 3 THEN Panic
       ELSE /\ committed' = Committed(committed, Fields(values))
            /\ GoTo("done")
            /\ UNCHANGED <<paths, segments, current, values>>
    /\ UNCHANGED input

Init ==
    /\ input \in Inputs
    /\ pc = "start"
    /\ paths = <<>> /\ segments = <<>> /\ current = <<>> /\ values = <<>>
    /\ committed = <<>>

Next == Start \/ NavigateToKey \/ NavigateToElement \/ ExtractNumber \/ Commit

Spec == Init /\ [][Next]_vars

-----------------------------------------------------------------------------
(* Properties                                                              *)

(* What submit_proof reads is what the guest committed, also when the      *)
(* output holds parts of a length or of the marker; but not when it has,   *)
(* inside it or across its end, a place that passes for its end, which     *)
(* Readable excludes (submit_proof.rs:124-137).                            *)
ParsedAsCommitted ==
    pc = "done" /\ Readable(input.output, Fields(values))
    => WellFormed(committed) /\ Parsed(committed) = Fields(values)

=============================================================================
