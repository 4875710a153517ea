--------------------------- MODULE KrnPublicValues ---------------------------
(***************************************************************************)
(* The public values of a proof, byte by byte: what the guest commits      *)
(* (zktls-prover/program/src/main.rs) and how submit_proof reads them      *)
(* back (parse_krn_public_values).  Behind the output of the TLS replay,   *)
(* whose length varies, come its length, a marker and the KRN fields; the  *)
(* parser finds the length by trying every offset.                         *)
(***************************************************************************)
EXTENDS Integers, SequencesExt

CONSTANTS
    Base,       \* values of a byte
    LenBytes,   \* bytes of the length (a u32)
    WordBytes,  \* bytes of threshold and value (u64)
    Marker,     \* "KRN"
    Version     \* 0x02

ASSUME WidthAssumption ==
    /\ Base \in Nat \ {0, 1}
    /\ LenBytes \in Nat \ {0} /\ WordBytes \in Nat \ {0}
    /\ Marker \in Seq(0 .. Base - 1) /\ Version \in 0 .. Base - 1

Power[k \in Nat] == IF k = 0 THEN 1 ELSE Base * Power[k - 1]

WordSize == Power[WordBytes]

Byte == 0 .. Base - 1
Word == 0 .. WordSize - 1     \* a u64

(* Mutant.                                                                 *)
LittleEndian(n, width) == [k \in 1 .. width |-> (n \div Power[k - 1]) % Base]

(* to_be_bytes and from_be_bytes                                           *)
BigEndian(n, width) == [k \in 1 .. width |-> (n \div Power[width - k]) % Base]

FromBytes(bytes) == FoldLeft(LAMBDA value, byte : value * Base + byte, 0, bytes)

-----------------------------------------------------------------------------
(* The guest's commits.  A length is cut to a byte (as u8).                *)

FieldsType ==
    [outcome : {0, 1}, comparison : Byte, threshold : Word, value : Word,
     server_name : Seq(Byte), json_path : Seq(Byte)]

LengthByte(bytes) == Len(bytes) % Base

KrnFields(k) ==
    <<Version, k.outcome, k.comparison>>
    \o BigEndian(k.threshold, WordBytes) \o BigEndian(k.value, WordBytes)
    \o <<LengthByte(k.server_name)>> \o k.server_name
    \o <<LengthByte(k.json_path)>> \o k.json_path

Framed(output) == output \o BigEndian(Len(output), LenBytes) \o Marker

Committed(output, k) == Framed(output) \o KrnFields(k)

-----------------------------------------------------------------------------
(* parse_krn_public_values                                                 *)

(* Length, marker, version, outcome, comparison, two words and the lengths *)
(* of two empty names: 28 bytes.                                           *)
FixedFields == 4 + 2 * WordBytes      \* up to and with the name's length
MinLength   == LenBytes + Len(Marker) + FixedFields + 1

SelfDescribing(pv, n) ==
    /\ FromBytes(SubSeq(pv, n + 1, n + LenBytes)) = n
    /\ SubSeq(pv, n + LenBytes + 1, n + LenBytes + Len(Marker)) = Marker

Offsets(pv) == {n \in 0 .. Len(pv) - MinLength : SelfDescribing(pv, n)}

FirstPrefix(offsets) == CHOOSE n \in offsets : \A m \in offsets : n <= m

(* Where the fields start, counted from 0, and where the lengths of the    *)
(* two names stand.                                                        *)
FieldsAt(pv)      == FirstPrefix(Offsets(pv)) + LenBytes + Len(Marker)
NameAt(start)     == start + FixedFields
PathAt(pv, start) == NameAt(start) + pv[NameAt(start)] + 1

(* All the require!s.                                                      *)
WellFormed(pv) ==
    /\ Len(pv) >= MinLength
    /\ Offsets(pv) # {}
    /\ LET start == FieldsAt(pv)
       IN  /\ pv[start + 1] = Version
           /\ Len(pv) >= NameAt(start) + 1
           /\ Len(pv) >= PathAt(pv, start)
           /\ Len(pv) >= PathAt(pv, start) + pv[PathAt(pv, start)]

Parsed(pv) ==
    LET start == FieldsAt(pv)
        from(k, width) == SubSeq(pv, k + 1, k + width)
        named(k) == from(k, pv[k])
    IN  [outcome     |-> pv[start + 2],
         comparison  |-> pv[start + 3],
         threshold   |-> FromBytes(from(start + 3, WordBytes)),
         value       |-> FromBytes(from(start + 3 + WordBytes, WordBytes)),
         server_name |-> named(NameAt(start)),
         json_path   |-> named(PathAt(pv, start))]

-----------------------------------------------------------------------------
(* The parser takes the first offset that describes itself.  The layout    *)
(* can only be read back if the length fits and no earlier place describes *)
(* itself, neither inside the output nor across its end; and the lengths   *)
(* of the names only if they fit in a byte.                                *)
Unambiguous(output) ==
    /\ Len(output) < Power[LenBytes]
    /\ \A n \in 0 .. Len(output) - 1 : ~SelfDescribing(Framed(output), n)

Readable(output, k) ==
    /\ Unambiguous(output)
    /\ Len(k.server_name) < Base /\ Len(k.json_path) < Base

=============================================================================
