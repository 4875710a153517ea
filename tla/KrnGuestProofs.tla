---------------------------- MODULE KrnGuestProofs ----------------------------
(***************************************************************************)
(* What is proved of the guest: the public values can be read back from    *)
(* their bytes, the guest commits such values, and the outcome submit_proof*)
(* reads is the one the document gives, where the path leads to a number.  *)
(***************************************************************************)
EXTENDS KrnDocumentProofs

-----------------------------------------------------------------------------
(* Bytes and numbers                                                       *)

(* The powers of the base are positive.                                    *)
LEMMA PowerType ==
    /\ Power \in [Nat -> Nat \ {0}]
    /\ Power[0] = 1
    /\ \A k \in Nat : Power[k + 1] = Base * Power[k]
  <1> DEFINE step == [k \in Nat |-> [v \in Nat \ {0} |-> Base * v]]
  <1>1. Base \in Nat \ {0}
    BY WidthAssumption
  <1>2. step \in [Nat -> [Nat \ {0} -> Nat \ {0}]] /\ 1 \in Nat \ {0}
    BY <1>1
  <1>3. \A k \in Nat : \A v \in Nat \ {0} : step[k][v] = Base * v
    OBVIOUS
  <1> HIDE DEF step
  <1>4. PICK f \in [Nat -> Nat \ {0}] : f[0] = 1 /\ \A k \in Nat : f[k + 1] = step[k][f[k]]
    <2> DEFINE V == Nat \ {0}
               one == 1
    <2>1. step \in [Nat -> [V -> V]]
      BY <1>2
    <2>2. one \in V
      OBVIOUS
    <2>3. \A b \in V : \A g \in [Nat -> [V -> V]] :
              \E f \in [Nat -> V] : f[0] = b /\ \A k \in Nat : f[k + 1] = g[k][f[k]]
      <3> HIDE DEF V
      <3> QED  BY RecursionExists
    <2>4. \E f \in [Nat -> V] : f[0] = one /\ \A k \in Nat : f[k + 1] = step[k][f[k]]
      <3> HIDE DEF V, one
      <3> QED  BY <2>1, <2>2, <2>3
    <2> QED  BY <2>4
  <1>5. \A k \in Nat : f[k + 1] = Base * f[k]
    BY <1>3, <1>4
  <1>6. f = [k \in Nat |-> IF k = 0 THEN 1 ELSE Base * f[k - 1]]
    <2>1. ASSUME NEW k \in Nat
          PROVE  f[k] = IF k = 0 THEN 1 ELSE Base * f[k - 1]
      <3>1. CASE k = 0
        BY <3>1, <1>4
      <3>2. CASE k # 0
        <4>1. k - 1 \in Nat /\ (k - 1) + 1 = k
          BY <3>2
        <4> QED  BY <1>5, <3>2, <4>1
      <3> QED  BY <3>1, <3>2
    <2> QED  BY <1>4, <2>1
  <1>7. Power = [k \in Nat |-> IF k = 0 THEN 1 ELSE Base * Power[k - 1]]
    BY <1>6 DEF Power
  <1>8. Power[0] = 1
    BY <1>7
  <1>9. \A k \in Nat : Power[k + 1] = Base * Power[k]
    <2>1. ASSUME NEW k \in Nat
          PROVE  Power[k + 1] = Base * Power[k]
      <3>1. k + 1 \in Nat /\ k + 1 # 0 /\ (k + 1) - 1 = k
        OBVIOUS
      <3> QED  BY <1>7, <3>1
    <2> QED  BY <2>1
  <1>10. \A k \in Nat : Power[k] \in Nat \ {0}
    <2> DEFINE T == {k \in Nat : Power[k] \in Nat \ {0}}
    <2>1. 0 \in T
      BY <1>8
    <2>2. ASSUME NEW k \in Nat, k \in T
          PROVE  k + 1 \in T
      <3>1. Power[k + 1] = Base * Power[k] /\ Power[k] \in Nat \ {0}
        BY <1>9, <2>2
      <3>2. Power[k + 1] \in Nat \ {0}
        BY <1>1, <3>1
      <3> QED  BY <3>2
    <2> HIDE DEF T
    <2>3. Nat \subseteq T
      BY <2>1, <2>2, NumberInduction
    <2> QED  BY <2>3 DEF T
  <1> QED  BY <1>7, <1>8, <1>9, <1>10

(* How wide words and bytes are.                                           *)
LEMMA Widths ==
    /\ Base \in Nat /\ Base > 1 /\ LenBytes \in Nat /\ WordBytes \in Nat
    /\ LenBytes > 0 /\ WordBytes > 0 /\ WordSize \in Nat /\ WordSize > 0
    /\ Marker \in Seq(Byte) /\ Version \in Byte /\ Len(Marker) \in Nat
    /\ 0 \in Byte /\ 1 \in Byte
  <1>1. WordSize \in Nat \ {0}
    BY PowerType, WidthAssumption DEF WordSize
  <1> QED  BY <1>1, WidthAssumption DEF Byte

(* The number read from bytes, place by place.                             *)
LEMMA BytesRead ==
    ASSUME NEW s \in Seq(Int)
    PROVE  \E f : /\ f[0] = 0
                  /\ \A k \in 0 .. Len(s) - 1 : f[k + 1] = f[k] * Base + s[k + 1]
                  /\ FromBytes(s) = f[Len(s)]
  <1>1. FromBytes(s) = ReadIn(Base, s)
    BY DEF FromBytes, ReadIn, FoldLeft, MapThenFoldSet
  <1>2. Base \in Int
    BY Widths
  <1> QED  BY <1>1, <1>2, NumberRead

(* A number is written as bytes.                                           *)
LEMMA BigEndianType ==
    ASSUME NEW n \in Nat, NEW width \in Nat
    PROVE  BigEndian(n, width) \in Seq(Byte) /\ Len(BigEndian(n, width)) = width
  <1>1. \A k \in 1 .. width : (n \div Power[width - k]) % Base \in Byte
    <2>1. ASSUME NEW k \in 1 .. width
          PROVE  (n \div Power[width - k]) % Base \in Byte
      <3>1. width - k \in Nat
        OBVIOUS
      <3>2. Power[width - k] \in Nat /\ Power[width - k] > 0
        BY <3>1, PowerType
      <3> DEFINE q == n \div Power[width - k]
      <3>3. q \in Int
        BY <3>2
      <3> HIDE DEF q
      <3>4. q % Base \in 0 .. Base - 1
        BY <3>3, Widths
      <3> QED  BY <3>4 DEF Byte, q
    <2> QED  BY <2>1
  <1>2. BigEndian(n, width) \in [1 .. width -> Byte]
    BY <1>1 DEF BigEndian
  <1> HIDE DEF Byte
  <1> QED  BY <1>2

(* The last digit of a number goes back behind the others.                 *)
LEMMA LastDigit ==
    ASSUME NEW m \in Int, NEW b \in Nat, b > 0
    PROVE  (m \div b) * b + (m % b) = m
  OBVIOUS

(* What fits is not changed by the wrap.                                   *)
LEMMA SmallRemainder ==
    ASSUME NEW b \in Nat, NEW n \in 0 .. b - 1
    PROVE  n % b = n
  OBVIOUS

(* A number that fits is read back from its bytes: after k of them what is *)
(* read is what remains of the number without its last width - k digits.   *)
LEMMA ReadBack ==
    ASSUME NEW width \in Nat, NEW n \in Nat, n < Power[width]
    PROVE  FromBytes(BigEndian(n, width)) = n
  <1> DEFINE s == BigEndian(n, width)
  <1>1. s \in Seq(Int) /\ Len(s) = width
    <2>1. s \in Seq(Byte) /\ Len(s) = width
      BY BigEndianType
    <2>2. Byte \subseteq Int
      BY DEF Byte
    <2> HIDE DEF s, Byte
    <2> QED  BY <2>1, <2>2, SeqMonotonic
  <1>2. PICK f : /\ f[0] = 0
                 /\ \A k \in 0 .. width - 1 : f[k + 1] = f[k] * Base + s[k + 1]
                 /\ FromBytes(s) = f[width]
    <2> HIDE DEF s
    <2> QED  BY <1>1, BytesRead
  <1>3. \A k \in 0 .. width - 1 : s[k + 1] = (n \div Power[width - (k + 1)]) % Base
    BY DEF BigEndian
  <1> HIDE DEF s
  <1> DEFINE T == {k \in Nat : k <= width => f[k] = n \div Power[width - k]}
  <1>4. 0 \in T
    <2>1. Power[width] \in Nat /\ n < Power[width]
      BY PowerType
    <2>2. n \div Power[width] = 0
      BY <2>1
    <2> QED  BY <1>2, <2>2
  <1>5. ASSUME NEW k \in Nat, k \in T
        PROVE  k + 1 \in T
    <2> SUFFICES ASSUME k + 1 <= width
                 PROVE  f[k + 1] = n \div Power[width - (k + 1)]
      OBVIOUS
    <2> DEFINE p == Power[width - (k + 1)]
               m == n \div p
    <2>1. width - (k + 1) \in Nat /\ (width - (k + 1)) + 1 = width - k /\ k \in 0 .. width - 1
      OBVIOUS
    <2>2. p \in Nat /\ p > 0 /\ Power[width - k] = Base * p
      BY <2>1, PowerType
    <2>3. f[k] = n \div (p * Base)
      <3>1. f[k] = n \div Power[width - k]
        BY <1>5
      <3> QED  BY <2>2, <3>1, Widths
    <2>4. n \div (p * Base) = m \div Base
      <3> HIDE DEF p
      <3> QED  BY <2>2, Widths
    <2>5. s[k + 1] = m % Base
      BY <1>3, <2>1
    <2>6. m \in Int
      BY <2>2
    <2> HIDE DEF m, p
    <2>7. f[k] = m \div Base
      BY <2>3, <2>4 DEF m
    <2>8. f[k] * Base + s[k + 1] = m
      <3>1. s[k + 1] = m % Base
        BY <2>5
      <3>2. m \in Int /\ Base \in Nat /\ Base > 0
        BY <2>6, Widths
      <3>3. (m \div Base) * Base + (m % Base) = m
        BY <3>2, LastDigit
      <3> QED  BY <2>7, <3>1, <3>3
    <2>9. f[k + 1] = m
      BY <1>2, <2>1, <2>8
    <2> QED  BY <2>9 DEF m, p
  <1> HIDE DEF T
  <1>6. width \in T
    BY <1>4, <1>5, NumberInduction
  <1>7. f[width] = n \div Power[width - width]
    BY <1>6 DEF T
  <1>8. Power[width - width] = 1
    BY PowerType
  <1> QED  BY <1>2, <1>7, <1>8 DEF s

-----------------------------------------------------------------------------
(* The layout                                                              *)

(* What the fields can be.                                                 *)
LEMMA FieldsHaveType ==
    ASSUME NEW k \in FieldsType
    PROVE  /\ k.outcome \in {0, 1} /\ k.comparison \in Byte
           /\ k.threshold \in Nat /\ k.threshold < Power[WordBytes]
           /\ k.value \in Nat /\ k.value < Power[WordBytes]
           /\ k.server_name \in Seq(Byte) /\ k.json_path \in Seq(Byte)
  <1>1. k.threshold \in Word /\ k.value \in Word
    BY DEF FieldsType
  <1>2. WordSize \in Nat
    BY Widths
  <1>3. /\ k.threshold \in Nat /\ k.threshold < WordSize
        /\ k.value \in Nat /\ k.value < WordSize
    BY <1>1, <1>2 DEF Word
  <1> QED  BY <1>3 DEF FieldsType, WordSize

(* A short text has a length of one byte.                                  *)
LEMMA ShortLength ==
    ASSUME NEW s \in Seq(Byte), Len(s) < Base
    PROVE  /\ <<LengthByte(s)>> \in Seq(Byte) /\ Len(<<LengthByte(s)>>) = 1
           /\ <<LengthByte(s)>>[1] = Len(s)
  <1>1. Len(s) \in Byte /\ Len(s) \in 0 .. Base - 1
    BY Widths DEF Byte
  <1>2. LengthByte(s) = Len(s)
    BY <1>1, Widths, SmallRemainder DEF LengthByte
  <1> QED  BY <1>1, <1>2

(* Where the KRN fields lie: the places of the two lengths and the length  *)
(* of the last field.                                                      *)
Places(k, name, path, last) ==
    /\ name = Len(k.server_name) /\ name \in Nat
    /\ path = FixedFields + name + 1 /\ path \in Nat
    /\ last = Len(k.json_path) /\ last \in Nat

FieldsLie(k, s, name, path, last) ==
    /\ s \in Seq(Byte) /\ Len(s) = path + last
    /\ s[1] = Version /\ s[2] = k.outcome /\ s[3] = k.comparison
    /\ SubSeq(s, 3 + 1, 3 + WordBytes) = BigEndian(k.threshold, WordBytes)
    /\ SubSeq(s, 3 + WordBytes + 1, 3 + WordBytes + WordBytes) = BigEndian(k.value, WordBytes)
    /\ s[FixedFields] = name
    /\ SubSeq(s, FixedFields + 1, FixedFields + name) = k.server_name
    /\ s[path] = last
    /\ SubSeq(s, path + 1, path + last) = k.json_path

(* The fields, one behind the other.                                       *)
LEMMA FieldsLayout ==
    ASSUME NEW k \in FieldsType, Len(k.server_name) < Base, Len(k.json_path) < Base
    PROVE  \E name, path, last : /\ Places(k, name, path, last)
                                 /\ FieldsLie(k, KrnFields(k), name, path, last)
  <1> DEFINE s == KrnFields(k)
             name == Len(k.server_name)
             last == Len(k.json_path)
             path == FixedFields + name + 1
             head == <<Version, k.outcome, k.comparison>>
             thr  == BigEndian(k.threshold, WordBytes)
             p4   == head \o thr
             val  == BigEndian(k.value, WordBytes)
             p5   == p4 \o val
             ln   == <<LengthByte(k.server_name)>>
             p6   == p5 \o ln
             p7   == p6 \o k.server_name
             lp   == <<LengthByte(k.json_path)>>
             p8   == p7 \o lp
             p9   == p8 \o k.json_path
  <1>1. s = p9
    BY DEF KrnFields
  <1>2. thr \in Seq(Byte) /\ Len(thr) = WordBytes /\ val \in Seq(Byte) /\ Len(val) = WordBytes
    BY BigEndianType, Widths, FieldsHaveType
  <1>3. head \in Seq(Byte) /\ Len(head) = 3
        /\ head[1] = Version /\ head[2] = k.outcome /\ head[3] = k.comparison
    <2>1. Version \in Byte /\ k.outcome \in Byte /\ k.comparison \in Byte
      BY FieldsHaveType, Widths
    <2> HIDE DEF Byte
    <2> QED  BY <2>1
  <1>4. /\ ln \in Seq(Byte) /\ Len(ln) = 1 /\ ln[1] = Len(k.server_name)
        /\ lp \in Seq(Byte) /\ Len(lp) = 1 /\ lp[1] = Len(k.json_path)
    BY ShortLength, FieldsHaveType
  <1>5. k.server_name \in Seq(Byte) /\ k.json_path \in Seq(Byte)
        /\ Len(k.server_name) \in Nat /\ Len(k.json_path) \in Nat
    BY FieldsHaveType
  <1> HIDE DEF s, head, thr, val, ln, lp, Byte
  <1>6. /\ p4 \in Seq(Byte) /\ p5 \in Seq(Byte) /\ p6 \in Seq(Byte)
        /\ p7 \in Seq(Byte) /\ p8 \in Seq(Byte) /\ p9 \in Seq(Byte)
    <2>1. \A x, y \in Seq(Byte) : x \o y \in Seq(Byte)
      OBVIOUS
    <2> QED  BY <1>2, <1>3, <1>4, <1>5, <2>1
  <1>7. Begins(s, p9)
    BY <1>1, <1>6 DEF Begins
  <1> HIDE DEF p9
  <1>8. s \in Seq(Byte)
    BY <1>1, <1>6
  <1>9. ASSUME NEW p \in Seq(Byte), NEW q \in Seq(Byte), Begins(s, p \o q)
        PROVE  /\ Begins(s, p) /\ Len(p \o q) = Len(p) + Len(q) /\ Len(p) \in Nat
               /\ \A n \in 1 .. Len(q) : s[Len(p) + n] = q[n]
               /\ SubSeq(s, Len(p) + 1, Len(p) + Len(q)) = q
    BY <1>8, <1>9, PieceOf
  <1>10. /\ Begins(s, p8) /\ Len(p8) \in Nat
         /\ Len(p9) = Len(p8) + Len(k.json_path)
         /\ SubSeq(s, Len(p8) + 1, Len(p8) + Len(k.json_path)) = k.json_path
    <2>1. Begins(s, p8 \o k.json_path) /\ Len(p9) = Len(p8 \o k.json_path)
      BY <1>7 DEF p9
    <2>2. /\ Begins(s, p8) /\ Len(p8 \o k.json_path) = Len(p8) + Len(k.json_path) /\ Len(p8) \in Nat
          /\ \A n \in 1 .. Len(k.json_path) : s[Len(p8) + n] = k.json_path[n]
          /\ SubSeq(s, Len(p8) + 1, Len(p8) + Len(k.json_path)) = k.json_path
      BY <1>5, <1>6, <1>9, <2>1
    <2> QED  BY <1>5, <2>1, <2>2
  <1> HIDE DEF p8
  <1>11. /\ Begins(s, p7) /\ Len(p7) \in Nat
         /\ Len(p8) = Len(p7) + 1 /\ s[Len(p7) + 1] = Len(k.json_path)
    <2>1. Begins(s, p7 \o lp) /\ Len(p8) = Len(p7 \o lp)
      BY <1>10 DEF p8
    <2>2. /\ Begins(s, p7) /\ Len(p7 \o lp) = Len(p7) + Len(lp) /\ Len(p7) \in Nat
          /\ \A n \in 1 .. Len(lp) : s[Len(p7) + n] = lp[n]
          /\ SubSeq(s, Len(p7) + 1, Len(p7) + Len(lp)) = lp
      BY <1>4, <1>6, <1>9, <2>1
    <2>3. s[Len(p7) + 1] = lp[1]
      <3>1. 1 \in 1 .. Len(lp)
        BY <1>4
      <3>2. \A n \in 1 .. Len(lp) : s[Len(p7) + n] = lp[n]
        BY <2>2
      <3> HIDE DEF p7
      <3> QED  BY <3>1, <3>2
    <2> QED  BY <1>4, <2>1, <2>2, <2>3
  <1> HIDE DEF p7
  <1>12. /\ Begins(s, p6) /\ Len(p6) \in Nat
         /\ Len(p7) = Len(p6) + Len(k.server_name)
         /\ SubSeq(s, Len(p6) + 1, Len(p6) + Len(k.server_name)) = k.server_name
    <2>1. Begins(s, p6 \o k.server_name) /\ Len(p7) = Len(p6 \o k.server_name)
      BY <1>11 DEF p7
    <2>2. /\ Begins(s, p6) /\ Len(p6 \o k.server_name) = Len(p6) + Len(k.server_name) /\ Len(p6) \in Nat
          /\ \A n \in 1 .. Len(k.server_name) : s[Len(p6) + n] = k.server_name[n]
          /\ SubSeq(s, Len(p6) + 1, Len(p6) + Len(k.server_name)) = k.server_name
      BY <1>5, <1>6, <1>9, <2>1
    <2> QED  BY <1>5, <2>1, <2>2
  <1> HIDE DEF p6
  <1>13. /\ Begins(s, p5) /\ Len(p5) \in Nat
         /\ Len(p6) = Len(p5) + 1 /\ s[Len(p5) + 1] = Len(k.server_name)
    <2>1. Begins(s, p5 \o ln) /\ Len(p6) = Len(p5 \o ln)
      BY <1>12 DEF p6
    <2>2. /\ Begins(s, p5) /\ Len(p5 \o ln) = Len(p5) + Len(ln) /\ Len(p5) \in Nat
          /\ \A n \in 1 .. Len(ln) : s[Len(p5) + n] = ln[n]
          /\ SubSeq(s, Len(p5) + 1, Len(p5) + Len(ln)) = ln
      BY <1>4, <1>6, <1>9, <2>1
    <2>3. s[Len(p5) + 1] = ln[1]
      <3>1. 1 \in 1 .. Len(ln)
        BY <1>4
      <3>2. \A n \in 1 .. Len(ln) : s[Len(p5) + n] = ln[n]
        BY <2>2
      <3> HIDE DEF p5
      <3> QED  BY <3>1, <3>2
    <2> QED  BY <1>4, <2>1, <2>2, <2>3
  <1> HIDE DEF p5
  <1>14. /\ Begins(s, p4) /\ Len(p4) \in Nat
         /\ Len(p5) = Len(p4) + WordBytes
         /\ SubSeq(s, Len(p4) + 1, Len(p4) + WordBytes) = val
    <2>1. Begins(s, p4 \o val) /\ Len(p5) = Len(p4 \o val)
      BY <1>13 DEF p5
    <2>2. /\ Begins(s, p4) /\ Len(p4 \o val) = Len(p4) + Len(val) /\ Len(p4) \in Nat
          /\ \A n \in 1 .. Len(val) : s[Len(p4) + n] = val[n]
          /\ SubSeq(s, Len(p4) + 1, Len(p4) + Len(val)) = val
      BY <1>2, <1>6, <1>9, <2>1
    <2> QED  BY <1>2, <2>1, <2>2
  <1> HIDE DEF p4
  <1>15. /\ Begins(s, head) /\ Len(head) \in Nat
         /\ Len(p4) = Len(head) + WordBytes
         /\ SubSeq(s, Len(head) + 1, Len(head) + WordBytes) = thr
    <2>1. Begins(s, head \o thr) /\ Len(p4) = Len(head \o thr)
      BY <1>14 DEF p4
    <2>2. /\ Begins(s, head) /\ Len(head \o thr) = Len(head) + Len(thr) /\ Len(head) \in Nat
          /\ \A n \in 1 .. Len(thr) : s[Len(head) + n] = thr[n]
          /\ SubSeq(s, Len(head) + 1, Len(head) + Len(thr)) = thr
      BY <1>2, <1>3, <1>9, <2>1
    <2> QED  BY <1>2, <2>1, <2>2
  <1>16. s[1] = Version /\ s[2] = k.outcome /\ s[3] = k.comparison
    BY <1>3, <1>15 DEF Begins
  <1>17. Len(p4) = 3 + WordBytes /\ Len(p6) = FixedFields /\ Len(p5) + 1 = FixedFields
    BY <1>3, <1>13, <1>14, <1>15, Widths DEF FixedFields
  <1>18. Len(p7) + 1 = path /\ Len(p8) = path /\ Len(s) = path + Len(k.json_path)
    BY <1>1, <1>5, <1>10, <1>11, <1>12, <1>17
  <1>19. SubSeq(s, 3 + 1, 3 + WordBytes) = thr
    BY <1>3, <1>15
  <1>20. SubSeq(s, 3 + WordBytes + 1, 3 + WordBytes + WordBytes) = val
    BY <1>14, <1>17
  <1>21. Places(k, name, path, last)
    <2>1. FixedFields \in Nat
      BY Widths DEF FixedFields
    <2>2. path \in Nat
      BY <1>5, <2>1
    <2> QED  BY <1>5, <2>2 DEF Places
  <1>22. /\ s[FixedFields] = name /\ s[path] = last
         /\ SubSeq(s, FixedFields + 1, FixedFields + name) = k.server_name
         /\ SubSeq(s, path + 1, path + last) = k.json_path
    BY <1>10, <1>11, <1>12, <1>13, <1>17, <1>18
  <1> HIDE DEF name, path, last
  <1>23. FieldsLie(k, s, name, path, last)
    BY <1>8, <1>16, <1>18, <1>19, <1>20, <1>22 DEF FieldsLie, thr, val, last
  <1> QED  BY <1>21, <1>23 DEF s

(* What lies in the beginning of s lies in s.                              *)
LEMMA SameSlice ==
    ASSUME NEW S, NEW s \in Seq(S), NEW p \in Seq(S), Begins(s, p),
           NEW m \in Nat, NEW w \in Nat, m + w <= Len(p)
    PROVE  SubSeq(s, m + 1, m + w) = SubSeq(p, m + 1, m + w)
  <1> DEFINE long == SubSeq(s, m + 1, m + w)
             short == SubSeq(p, m + 1, m + w)
  <1>1. Len(s) \in Nat /\ Len(p) \in Nat /\ m + w <= Len(s)
    BY DEF Begins
  <1>2. long \in Seq(S) /\ Len(long) = w /\ \A n \in 1 .. w : long[n] = s[m + n]
    BY <1>1, Slice
  <1>3. short \in Seq(S) /\ Len(short) = w /\ \A n \in 1 .. w : short[n] = p[m + n]
    BY <1>1, Slice
  <1>4. \A n \in 1 .. w : s[m + n] = p[m + n]
    <2>1. \A n \in 1 .. w : m + n \in 1 .. Len(p)
      BY <1>1
    <2> QED  BY <2>1 DEF Begins
  <1> HIDE DEF long, short
  <1>5. long = short
    BY <1>2, <1>3, <1>4, SeqEqual
  <1> QED  BY <1>5 DEF long, short

(* The output with its length and the marker: the place behind the output  *)
(* describes itself.                                                       *)
LEMMA FrameLayout ==
    ASSUME NEW output \in Seq(Byte), Len(output) < Power[LenBytes],
           NEW frame, frame = Framed(output)
    PROVE  /\ frame \in Seq(Byte) /\ Len(output) \in Nat
           /\ Len(frame) = Len(output) + LenBytes + Len(Marker)
           /\ SelfDescribing(frame, Len(output))
  <1> DEFINE len == BigEndian(Len(output), LenBytes)
             p1  == output \o len
             p2  == p1 \o Marker
  <1>1. frame = p2
    BY DEF Framed
  <1>2. Len(output) \in Nat
    OBVIOUS
  <1>3. len \in Seq(Byte) /\ Len(len) = LenBytes /\ FromBytes(len) = Len(output)
    BY <1>2, BigEndianType, ReadBack, Widths
  <1> HIDE DEF len, Byte
  <1>4. p1 \in Seq(Byte) /\ Len(p1) = Len(output) + LenBytes /\ Len(p1) \in Nat
    BY <1>2, <1>3, Shifted, Widths
  <1>5. p2 \in Seq(Byte) /\ Len(p2) = Len(p1) + Len(Marker)
    <2> HIDE DEF p1
    <2> QED  BY <1>4, Shifted, Widths
  <1>6. Begins(p2, p2)
    BY <1>5 DEF Begins
  <1>7. Begins(p2, p1) /\ SubSeq(p2, Len(p1) + 1, Len(p1) + Len(Marker)) = Marker
    <2>1. Begins(p2, p1 \o Marker)
      BY <1>6
    <2>2. Marker \in Seq(Byte) /\ p1 \in Seq(Byte) /\ p2 \in Seq(Byte)
      BY <1>4, <1>5, Widths
    <2> HIDE DEF p1, p2
    <2> QED  BY <2>1, <2>2, PieceOf
  <1> HIDE DEF p2
  <1>8. SubSeq(p2, Len(output) + 1, Len(output) + Len(len)) = len
    <2>1. Begins(p2, output \o len) /\ p2 \in Seq(Byte) /\ len \in Seq(Byte)
      BY <1>3, <1>5, <1>7
    <2> QED  BY <2>1, PieceOf
  <1> HIDE DEF p1
  <1>9. SelfDescribing(p2, Len(output))
    BY <1>3, <1>4, <1>7, <1>8 DEF SelfDescribing
  <1> QED  BY <1>1, <1>2, <1>4, <1>5, <1>9

(* Places that end in the frame are the same in the public values.         *)
LEMMA SamePlace ==
    ASSUME NEW pv \in Seq(Byte), NEW frame \in Seq(Byte), Begins(pv, frame),
           NEW n \in Nat, n + LenBytes + Len(Marker) <= Len(frame)
    PROVE  SelfDescribing(pv, n) <=> SelfDescribing(frame, n)
  <1>1. n + LenBytes \in Nat /\ n + LenBytes <= Len(frame) /\ LenBytes \in Nat /\ Len(Marker) \in Nat
    <2>1. Len(frame) \in Nat
      OBVIOUS
    <2> QED  BY <2>1, Widths
  <1> HIDE DEF Byte
  <1>2. SubSeq(pv, n + 1, n + LenBytes) = SubSeq(frame, n + 1, n + LenBytes)
    BY <1>1, SameSlice
  <1>3. SubSeq(pv, n + LenBytes + 1, n + LenBytes + Len(Marker))
            = SubSeq(frame, n + LenBytes + 1, n + LenBytes + Len(Marker))
    BY <1>1, SameSlice
  <1> QED  BY <1>2, <1>3 DEF SelfDescribing

(* The parser stops behind the output.                                     *)
LEMMA FoundBehindOutput ==
    ASSUME NEW output \in Seq(Byte), Unambiguous(output),
           NEW pv \in Seq(Byte), Begins(pv, Framed(output)),
           Len(pv) >= Len(output) + MinLength, MinLength \in Nat
    PROVE  Offsets(pv) # {} /\ FirstPrefix(Offsets(pv)) = Len(output)
  <1> DEFINE frame == Framed(output)
             L == Len(output)
  <1>1. /\ frame \in Seq(Byte) /\ L \in Nat /\ Len(frame) = L + LenBytes + Len(Marker)
        /\ SelfDescribing(frame, L)
    BY FrameLayout DEF Unambiguous
  <1>2. Len(pv) \in Nat /\ L \in 0 .. Len(pv) - MinLength
    BY <1>1
  <1>3. \A n \in 0 .. L - 1 : ~SelfDescribing(frame, n)
    BY DEF Unambiguous
  <1>4. Begins(pv, frame)
    OBVIOUS
  <1> HIDE DEF frame, L, Byte
  <1>5. ASSUME NEW n \in 0 .. L
        PROVE  SelfDescribing(pv, n) <=> SelfDescribing(frame, n)
    <2>1. n \in Nat /\ n + LenBytes + Len(Marker) <= Len(frame)
      BY <1>1, Widths
    <2> QED  BY <1>1, <1>4, <2>1, SamePlace
  <1>6. L \in Offsets(pv)
    BY <1>1, <1>2, <1>5 DEF Offsets
  <1>7. ASSUME NEW n \in Offsets(pv)
        PROVE  L <= n /\ n \in Nat
    <2>1. n \in Nat /\ SelfDescribing(pv, n)
      BY DEF Offsets
    <2>2. CASE n < L
      <3>1. n \in 0 .. L - 1 /\ n \in 0 .. L
        BY <1>1, <2>1, <2>2
      <3> QED  BY <1>3, <1>5, <2>1, <3>1
    <2>3. CASE ~(n < L)
      BY <1>1, <2>1, <2>3
    <2> QED  BY <2>2, <2>3
  <1>8. FirstPrefix(Offsets(pv)) = L
    <2> DEFINE n == FirstPrefix(Offsets(pv))
    <2>1. n \in Offsets(pv) /\ \A m \in Offsets(pv) : n <= m
      BY <1>6, <1>7 DEF FirstPrefix
    <2>2. n <= L /\ L <= n /\ n \in Nat
      BY <1>6, <1>7, <2>1
    <2> QED  BY <1>1, <2>2
  <1> QED  BY <1>6, <1>8 DEF L

(* Numbers of the places.                                                  *)
LEMMA PlaceNumbers ==
    ASSUME NEW k, NEW name, NEW path, NEW last, Places(k, name, path, last)
    PROVE  /\ {1, 2, 3, FixedFields, path} \subseteq 1 .. path + last
           /\ {3, WordBytes, 3 + WordBytes, FixedFields, name, path, last} \subseteq Nat
           /\ 3 + WordBytes + WordBytes <= path + last /\ FixedFields + name <= path + last
           /\ path = FixedFields + name + 1 /\ path + last >= FixedFields + 1
  <1>1. WordBytes \in Nat /\ FixedFields = 4 + 2 * WordBytes
    BY Widths DEF FixedFields
  <1>2. name \in Nat /\ last \in Nat /\ path = FixedFields + name + 1
    BY DEF Places
  <1> QED  BY <1>1, <1>2

(* What is committed is read back once the parser has found where the      *)
(* fields start.                                                           *)
LEMMA FieldsFound ==
    ASSUME NEW k \in FieldsType, NEW s \in Seq(Byte), NEW frame \in Seq(Byte),
           FieldsAt(frame \o s) = Len(frame),
           Len(frame \o s) >= MinLength, Offsets(frame \o s) # {},
           NEW name, NEW path, NEW last,
           Places(k, name, path, last), FieldsLie(k, s, name, path, last)
    PROVE  WellFormed(frame \o s) /\ Parsed(frame \o s) = k
  <1> DEFINE pv == frame \o s
             start == Len(frame)
             Cut == \A m, w \in Nat : m + w <= Len(s) =>
                        SubSeq(pv, (start + m) + 1, (start + m) + w) = SubSeq(s, m + 1, m + w)
  <1>1. /\ start \in Nat /\ Len(s) \in Nat /\ Len(pv) = start + Len(s) /\ Cut
        /\ \A n \in 1 .. Len(s) : pv[start + n] = s[n]
    BY Shifted
  <1>2. FieldsAt(pv) = start /\ Len(pv) >= MinLength /\ Offsets(pv) # {}
    OBVIOUS
  <1> HIDE DEF pv, start, Cut, Byte
  <1>3. /\ s[1] = Version /\ s[2] = k.outcome /\ s[3] = k.comparison
        /\ s[FixedFields] = name /\ s[path] = last /\ Len(s) = path + last
        /\ name = Len(k.server_name) /\ last = Len(k.json_path)
    BY DEF FieldsLie, Places
  <1>4. /\ {1, 2, 3, FixedFields, path} \subseteq 1 .. Len(s)
        /\ 3 \in Nat /\ WordBytes \in Nat /\ 3 + WordBytes \in Nat /\ FixedFields \in Nat
        /\ name \in Nat /\ path \in Nat /\ last \in Nat
        /\ 3 + WordBytes + WordBytes <= Len(s) /\ FixedFields + name <= Len(s)
        /\ path = FixedFields + name + 1 /\ Len(s) >= FixedFields + 1
    <2>1. Places(k, name, path, last)
      OBVIOUS
    <2>2. /\ {1, 2, 3, FixedFields, path} \subseteq 1 .. path + last
          /\ {3, WordBytes, 3 + WordBytes, FixedFields, name, path, last} \subseteq Nat
          /\ 3 + WordBytes + WordBytes <= path + last /\ FixedFields + name <= path + last
          /\ path = FixedFields + name + 1 /\ path + last >= FixedFields + 1
      BY <2>1, PlaceNumbers
    <2>3. Len(s) = path + last
      BY <1>3
    <2> QED  BY <2>2, <2>3
  <1>5. /\ pv[start + 1] = Version /\ pv[start + 2] = k.outcome /\ pv[start + 3] = k.comparison
        /\ pv[start + FixedFields] = name /\ pv[start + path] = last
    BY <1>1, <1>3, <1>4
  <1>6. SubSeq(pv, (start + 3) + 1, (start + 3) + WordBytes) = BigEndian(k.threshold, WordBytes)
    <2>1. 3 + WordBytes <= Len(s)
      BY <1>1, <1>4
    <2>2. SubSeq(pv, (start + 3) + 1, (start + 3) + WordBytes) = SubSeq(s, 3 + 1, 3 + WordBytes)
      BY <1>1, <1>4, <2>1 DEF Cut
    <2> QED  BY <2>2 DEF FieldsLie
  <1>7. SubSeq(pv, (start + 3 + WordBytes) + 1, (start + 3 + WordBytes) + WordBytes)
            = BigEndian(k.value, WordBytes)
    <2>1. SubSeq(pv, (start + (3 + WordBytes)) + 1, (start + (3 + WordBytes)) + WordBytes)
              = SubSeq(s, 3 + WordBytes + 1, 3 + WordBytes + WordBytes)
      BY <1>1, <1>4 DEF Cut
    <2>2. start + (3 + WordBytes) = start + 3 + WordBytes
      BY <1>1, <1>4
    <2> QED  BY <2>1, <2>2 DEF FieldsLie
  <1>8. SubSeq(pv, (start + FixedFields) + 1, (start + FixedFields) + name) = k.server_name
    <2>1. SubSeq(pv, (start + FixedFields) + 1, (start + FixedFields) + name)
              = SubSeq(s, FixedFields + 1, FixedFields + name)
      BY <1>1, <1>4 DEF Cut
    <2> QED  BY <2>1 DEF FieldsLie
  <1>9. SubSeq(pv, (start + path) + 1, (start + path) + last) = k.json_path
    <2>1. path + last <= Len(s)
      BY <1>3, <1>4
    <2>2. SubSeq(pv, (start + path) + 1, (start + path) + last) = SubSeq(s, path + 1, path + last)
      BY <1>1, <1>4, <2>1 DEF Cut
    <2> QED  BY <2>2 DEF FieldsLie
  <1>10. FromBytes(BigEndian(k.threshold, WordBytes)) = k.threshold
         /\ FromBytes(BigEndian(k.value, WordBytes)) = k.value
    BY FieldsHaveType, ReadBack, Widths
  <1>11. NameAt(start) = start + FixedFields
    BY DEF NameAt
  <1>12. PathAt(pv, start) = start + path
    <2>1. (start + FixedFields) + name + 1 = start + path
      BY <1>1, <1>4
    <2> QED  BY <1>5, <1>11, <2>1 DEF PathAt
  <1>13. WellFormed(pv)
    <2>1. /\ Len(pv) >= (start + FixedFields) + 1 /\ Len(pv) >= start + path
          /\ Len(pv) >= (start + path) + last
      <3>1. Len(pv) = start + (path + last) /\ path + last >= FixedFields + 1
        BY <1>1, <1>3, <1>4
      <3>2. start \in Nat /\ path \in Nat /\ last \in Nat /\ FixedFields \in Nat
        BY <1>1, <1>4
      <3> QED  BY <3>1, <3>2
    <2>2. /\ Len(pv) >= NameAt(start) + 1 /\ Len(pv) >= PathAt(pv, start)
          /\ Len(pv) >= PathAt(pv, start) + pv[PathAt(pv, start)]
      BY <1>5, <1>11, <1>12, <2>1
    <2> QED  BY <1>2, <1>5, <2>2 DEF WellFormed
  <1>14. Parsed(pv) = [outcome |-> k.outcome, comparison |-> k.comparison,
                       threshold |-> k.threshold, value |-> k.value,
                       server_name |-> k.server_name, json_path |-> k.json_path]
    BY <1>2, <1>5, <1>6, <1>7, <1>8, <1>9, <1>10, <1>11, <1>12 DEF Parsed
  <1>15. k = [outcome |-> k.outcome, comparison |-> k.comparison,
              threshold |-> k.threshold, value |-> k.value,
              server_name |-> k.server_name, json_path |-> k.json_path]
    BY DEF FieldsType
  <1> QED  BY <1>13, <1>14, <1>15 DEF pv

(* The public values are as long as the parser demands.                    *)
LEMMA LongEnough ==
    ASSUME NEW a \in Nat, NEW b \in Nat, NEW c \in Nat, NEW d \in Nat, NEW e \in Nat, e >= d + 1
    PROVE  b + c + d + 1 \in Nat /\ (a + b + c) + e >= a + (b + c + d + 1)
  OBVIOUS

(* What is committed is read back, for every output the parser can tell    *)
(* apart from its own length and marker and all fields that fit            *)
(* (main.rs:87-99, submit_proof.rs:119-198).                               *)
THEOREM CodecCorrect ==
    ASSUME NEW output \in Seq(Byte), NEW k \in FieldsType, Readable(output, k)
    PROVE  WellFormed(Committed(output, k)) /\ Parsed(Committed(output, k)) = k
  <1> DEFINE frame == Framed(output)
             s == KrnFields(k)
             pv == frame \o s
  <1>1. PICK name, path, last : Places(k, name, path, last) /\ FieldsLie(k, s, name, path, last)
    BY FieldsLayout DEF Readable
  <1>2. /\ frame \in Seq(Byte) /\ Len(output) \in Nat
        /\ Len(frame) = Len(output) + LenBytes + Len(Marker)
    BY FrameLayout DEF Readable, Unambiguous
  <1>3. s \in Seq(Byte) /\ Len(s) = path + last
    BY <1>1 DEF FieldsLie
  <1> HIDE DEF Byte, s
  <1>4. pv \in Seq(Byte) /\ Begins(pv, frame) /\ Len(pv) = Len(frame) + Len(s)
    <2> HIDE DEF frame
    <2> QED  BY <1>2, <1>3, Shifted
  <1>5. MinLength \in Nat /\ Len(pv) >= Len(output) + MinLength /\ Len(pv) >= MinLength
    <2>1. Len(s) >= FixedFields + 1 /\ Len(s) \in Nat /\ FixedFields \in Nat
      BY <1>1, <1>3, PlaceNumbers
    <2>2. LenBytes \in Nat /\ Len(Marker) \in Nat
      BY Widths
    <2>3. Len(pv) = (Len(output) + LenBytes + Len(Marker)) + Len(s)
      BY <1>2, <1>4
    <2>4. MinLength \in Nat /\ Len(pv) >= Len(output) + MinLength
      BY <1>2, <2>1, <2>2, <2>3, LongEnough DEF MinLength
    <2> HIDE DEF pv
    <2>5. Len(pv) \in Nat
      BY <1>4
    <2> QED  BY <1>2, <2>4, <2>5
  <1>6. Offsets(pv) # {} /\ FirstPrefix(Offsets(pv)) = Len(output)
    <2> HIDE DEF pv
    <2> QED  BY <1>4, <1>5, FoundBehindOutput DEF Readable, frame
  <1>7. FieldsAt(pv) = Len(frame)
    BY <1>2, <1>6 DEF FieldsAt
  <1>8. WellFormed(pv) /\ Parsed(pv) = k
    BY <1>1, <1>2, <1>3, <1>5, <1>6, <1>7, FieldsFound
  <1> QED  BY <1>8 DEF Committed, s

-----------------------------------------------------------------------------
(* The guest                                                               *)

(* The digits of a number, read one after the other, stay a word.          *)
NextDigit(v, c) == IF c < 0 THEN v ELSE (v * 10 + c) % WordSize

(* One digit more is a word.                                               *)
LEMMA NextDigitType ==
    ASSUME NEW v \in Word, NEW c \in Int
    PROVE  NextDigit(v, c) \in Word
  <1>1. WordSize \in Nat /\ WordSize > 0
    BY Widths
  <1>2. CASE c < 0
    BY <1>2 DEF NextDigit
  <1>3. CASE ~(c < 0)
    <2> DEFINE n == v * 10 + c
    <2>1. n \in Int
      BY <1>1 DEF Word
    <2> HIDE DEF n
    <2>2. n % WordSize \in 0 .. WordSize - 1
      BY <1>1, <2>1
    <2> QED  BY <1>3, <2>2 DEF NextDigit, Word, n
  <1> QED  BY <1>2, <1>3

(* The numbers up to k + 1 are those up to k and one more.                 *)
LEMMA UpToNext ==
    ASSUME NEW n \in Nat, NEW k \in Nat, k + 1 <= n
    PROVE  /\ 1 .. k + 1 \in SUBSET (1 .. n) /\ 1 .. k + 1 # {} /\ k + 1 \in 1 .. k + 1
           /\ (1 .. k + 1) \ {k + 1} = 1 .. k /\ k + 1 \in 1 .. n
  <1>1. k + 1 \in 1 .. k + 1 /\ k + 1 \in 1 .. n
    OBVIOUS
  <1>2. 1 .. k + 1 \in SUBSET (1 .. n)
    OBVIOUS
  <1>3. (1 .. k + 1) \ {k + 1} = 1 .. k
    OBVIOUS
  <1> QED  BY <1>1, <1>2, <1>3

(* ParseNumber reads digit by digit.                                       *)
LEMMA DigitsRead ==
    ASSUME NEW s \in Seq(Int)
    PROVE  \E f : /\ f[0] = 0
                  /\ \A k \in 0 .. Len(s) - 1 : f[k + 1] = NextDigit(f[k], s[k + 1])
                  /\ FoldLeft(LAMBDA v, c : IF c < 0 THEN v ELSE (v * 10 + c) % WordSize, 0, s)
                         = f[Len(s)]
  <1> DEFINE n == Len(s)
             step == [k \in 1 .. n |-> [v \in Word |-> NextDigit(v, s[k])]]
             top(S) == CHOOSE x \in S : \A y \in S : x >= y
             follows(h) == h = [S \in SUBSET (1 .. n) |->
                                   IF S = {} THEN 0
                                   ELSE NextDigit(h[S \ {top(S)}], s[top(S)])]
  <1>1. n \in Nat /\ DOMAIN s = 1 .. n /\ \A k \in 1 .. n : s[k] \in Int
    OBVIOUS
  <1>2. 0 \in Word
    BY Widths DEF Word
  <1>3. FoldLeft(LAMBDA v, c : IF c < 0 THEN v ELSE (v * 10 + c) % WordSize, 0, s)
            = (CHOOSE h : follows(h))[1 .. n]
    BY <1>1 DEF FoldLeft, MapThenFoldSet, Max, NextDigit
  <1>4. ASSUME NEW S \in SUBSET (1 .. n), S # {}
        PROVE  top(S) \in S /\ \A k \in S : k <= top(S)
    <2>1. n \in Nat /\ S \in SUBSET (0 .. n) /\ S # {} /\ S \subseteq Int
      BY <1>1, <1>4
    <2>2. \E x \in S : \A y \in S : x >= y
      <3> HIDE DEF n
      <3> QED  BY <2>1, HighestNumber
    <2> QED  BY <2>1, <2>2
  <1>5. step \in [1 .. n -> [Word -> Word]]
        /\ \A k \in 1 .. n : \A v \in Word : step[k][v] = NextDigit(v, s[k])
    BY <1>1, NextDigitType
  <1> HIDE DEF top, step
  <1>6. PICK h \in [SUBSET (1 .. n) -> Word] : FoldsBy(0, step, n, h)
    <2>1. n \in Nat
      BY <1>1
    <2>2. Foldable(Word, 0, step, n)
      <3> HIDE DEF n
      <3> QED  BY <1>2, <1>5, <2>1, FoldExists
    <2> QED  BY <2>2 DEF Foldable
  <1>7. follows(h)
    <2>1. ASSUME NEW S \in SUBSET (1 .. n), S # {}
          PROVE  h[S] = NextDigit(h[S \ {top(S)}], s[top(S)])
      <3>1. top(S) \in S /\ top(S) \in 1 .. n /\ S \ {top(S)} \in SUBSET (1 .. n)
        BY <1>4, <2>1
      <3>2. h[S] = step[top(S)][h[S \ {top(S)}]]
        BY <1>4, <1>6, <2>1, <3>1 DEF FoldsBy
      <3>3. h[S \ {top(S)}] \in Word
        BY <1>6, <3>1
      <3> QED  BY <1>5, <3>1, <3>2, <3>3
    <2>2. h[{}] = 0
      BY <1>6 DEF FoldsBy
    <2> QED  BY <1>6, <2>1, <2>2
  <1> DEFINE g == CHOOSE g : follows(g)
  <1>8. follows(g)
    BY <1>7
  <1>9. \A S \in SUBSET (1 .. n) : g[S] = IF S = {} THEN 0
                                          ELSE NextDigit(g[S \ {top(S)}], s[top(S)])
    BY <1>8
  <1> HIDE DEF g, follows
  <1> DEFINE f == [k \in 0 .. n |-> g[1 .. k]]
  <1>10. f[0] = 0
    <2>1. 1 .. 0 = {} /\ {} \in SUBSET (1 .. n) /\ 0 \in 0 .. n
      BY <1>1
    <2> QED  BY <1>9, <2>1
  <1>11. ASSUME NEW k \in 0 .. n - 1
         PROVE  f[k + 1] = NextDigit(f[k], s[k + 1])
    <2>1. k \in Nat /\ k + 1 <= n /\ k \in 0 .. n /\ k + 1 \in 0 .. n
      <3>1. n \in Nat
        BY <1>1
      <3> HIDE DEF n
      <3> QED  BY <3>1
    <2>2. /\ 1 .. k + 1 \in SUBSET (1 .. n) /\ 1 .. k + 1 # {} /\ k + 1 \in 1 .. k + 1
          /\ (1 .. k + 1) \ {k + 1} = 1 .. k /\ k + 1 \in 1 .. n
      <3>1. n \in Nat
        BY <1>1
      <3> HIDE DEF n
      <3> QED  BY <2>1, <3>1, UpToNext
    <2>3. top(1 .. k + 1) = k + 1
      <3>1. top(1 .. k + 1) \in 1 .. k + 1 /\ k + 1 <= top(1 .. k + 1)
        BY <1>4, <2>2
      <3> QED  BY <2>1, <3>1
    <2>4. g[1 .. k + 1] = NextDigit(g[1 .. k], s[k + 1])
      BY <1>9, <2>2, <2>3
    <2> QED  BY <2>1, <2>4
  <1>12. f[n] = g[1 .. n]
    BY <1>1
  <1>13. FoldLeft(LAMBDA v, c : IF c < 0 THEN v ELSE (v * 10 + c) % WordSize, 0, s) = f[n]
    BY <1>3, <1>12 DEF g
  <1> HIDE DEF f
  <1> QED  BY <1>10, <1>11, <1>13

(* What it reads is a word.                                                *)
LEMMA DigitsType ==
    ASSUME NEW s \in Seq(Int)
    PROVE  FoldLeft(LAMBDA v, c : IF c < 0 THEN v ELSE (v * 10 + c) % WordSize, 0, s) \in Word
  <1>1. PICK f : /\ f[0] = 0
                 /\ \A k \in 0 .. Len(s) - 1 : f[k + 1] = NextDigit(f[k], s[k + 1])
                 /\ FoldLeft(LAMBDA v, c : IF c < 0 THEN v ELSE (v * 10 + c) % WordSize, 0, s)
                        = f[Len(s)]
    BY DigitsRead
  <1>2. PICK n \in Nat : n = Len(s) /\ \A k \in 1 .. n : s[k] \in Int
    OBVIOUS
  <1> DEFINE T == {k \in Nat : k <= n => f[k] \in Word}
  <1>3. 0 \in T
    <2>1. f[0] = 0
      BY <1>1
    <2>2. 0 \in Word
      BY Widths DEF Word
    <2> QED  BY <2>1, <2>2
  <1>4. ASSUME NEW k \in Nat, k \in T
        PROVE  k + 1 \in T
    <2> SUFFICES ASSUME k + 1 <= n PROVE f[k + 1] \in Word
      OBVIOUS
    <2>1. k <= n /\ k \in 0 .. n - 1 /\ k + 1 \in 1 .. n
      BY <1>2
    <2>2. f[k] \in Word /\ s[k + 1] \in Int /\ f[k + 1] = NextDigit(f[k], s[k + 1])
      BY <1>1, <1>2, <1>4, <2>1
    <2> QED  BY <2>2, NextDigitType
  <1> HIDE DEF T
  <1>5. n \in T
    BY <1>2, <1>3, <1>4, NumberInduction
  <1>6. f[n] \in Word
    BY <1>5 DEF T
  <1> QED  BY <1>1, <1>2, <1>6

(* The characters of a number are integers.                                *)
LEMMA NumberCharacters ==
    ASSUME NEW token \in Token, token.kind \in {"quoted", "bare"}
    PROVE  token \in NumberToken /\ token.chars \in Seq(Int) /\ token.chars # <<>>
  <1>1. token.kind \notin Marks
    BY Zenon DEF Marks
  <1>2. token \in NumberToken
    <2> HIDE DEF Marks
    <2> QED  BY <1>1 DEF Token, NumberToken
  <1>3. PICK C \in SUBSET Int : C = 0 .. 9 \cup {Minus, Dot, Other}
    <2>1. 0 .. 9 \cup {Minus, Dot, Other} \in SUBSET Int
      BY DEF Minus, Dot, Other
    <2> QED  BY <2>1
  <1>4. token.chars \in Seq(C) /\ token.chars # <<>>
    BY <1>2, <1>3 DEF NumberToken
  <1>5. token.chars \in Seq(Int)
    BY <1>4, SeqMonotonic
  <1> QED  BY <1>2, <1>4, <1>5

(* So is every number the guest reads.                                     *)
LEMMA NumberIsWord ==
    ASSUME NEW token \in Token, token.kind \in {"quoted", "bare"}
    PROVE  NumberAt(token) \in Word
  <1>1. ASSUME NEW chars \in Seq(Int), NEW stop
        PROVE  UpTo(chars, stop) \in Seq(Int)
    <2> DEFINE stops == {n \in DOMAIN chars : chars[n] = stop}
    <2>1. stops \subseteq 1 .. Len(chars) /\ Len(chars) \in Nat
      OBVIOUS
    <2>2. CASE stops = {}
      BY <2>2 DEF UpTo
    <2>3. CASE stops # {}
      <3>1. Min(stops) \in 1 .. Len(chars)
        <4>1. stops \in SUBSET Nat
          BY <2>1
        <4> HIDE DEF stops
        <4> QED  BY <2>1, <2>3, <4>1, FirstNumber
      <3>2. SubSeq(chars, 1, Min(stops) - 1) \in Seq(Int)
        <4> DEFINE w == Min(stops) - 1
        <4>1. w \in Nat /\ 0 + w <= Len(chars) /\ 0 + w = w /\ 0 + 1 = 1
          BY <2>1, <3>1
        <4> HIDE DEF w
        <4>2. SubSeq(chars, 0 + 1, 0 + w) \in Seq(Int)
          BY <4>1, Slice
        <4> QED  BY <4>1, <4>2 DEF w
      <3> QED  BY <2>3, <3>2 DEF UpTo
    <2> QED  BY <2>2, <2>3
  <1>2. ASSUME NEW chars \in Seq(Int)
        PROVE  ParseNumber(chars) \in Word
    <2>1. UpTo(chars, Dot) \in Seq(Int)
      BY <1>1
    <2>2. 0 \in Word
      BY Widths DEF Word
    <2> QED  BY <2>1, <2>2, DigitsType DEF ParseNumber
  <1>3. token.chars \in Seq(Int)
    BY NumberCharacters
  <1> QED  BY <1>1, <1>2, <1>3 DEF NumberAt

(* However the guest navigates, it has a slice of the response before it.  *)
LEMMA SlicesOfResponse ==
    ASSUME NEW json \in Seq(Token)
    PROVE  /\ Body(json) \in Seq(Token)
           /\ \A name : KeysIn(json, name) # {} => AfterKey(json, name) \in Seq(Token)
           /\ \A index : Arrays(json) # {} => Element(json, index) \in Seq(Token)
  <1>1. DOMAIN json \in SUBSET (Nat \ {0})
    OBVIOUS
  <1>2. Body(json) \in Seq(Token)
    <2> DEFINE ends == {n \in DOMAIN json : IsMark(json[n], {"blank line"})}
    <2>1. ends \in SUBSET Nat
      BY <1>1
    <2>2. ends # {} => From(json, Min(ends) + 1) \in Seq(Token)
      <3> SUFFICES ASSUME ends # {} PROVE From(json, Min(ends) + 1) \in Seq(Token)
        OBVIOUS
      <3> HIDE DEF ends
      <3>1. Min(ends) \in Nat
        BY <2>1, FirstNumber
      <3>2. Min(ends) + 1 \in Nat /\ Min(ends) + 1 > 0
        BY <3>1
      <3> QED  BY <3>2, FromType
    <2> QED  BY <2>2 DEF Body
  <1>3. ASSUME NEW name, KeysIn(json, name) # {}
        PROVE  AfterKey(json, name) \in Seq(Token)
    <2>1. KeysIn(json, name) \in SUBSET Nat
      BY <1>1 DEF KeysIn
    <2>2. Min(KeysIn(json, name)) + 1 \in Nat \ {0}
      BY <1>3, <2>1, FirstNumber
    <2>3. SkipFrom(json, Min(KeysIn(json, name)) + 1, Blanks \cup {":"}) \in Nat \ {0}
      BY <2>2, SkipFromType
    <2> QED  BY <2>3, FromType DEF AfterKey
  <1>4. ASSUME NEW index, Arrays(json) # {}
        PROVE  Element(json, index) \in Seq(Token)
    <2> DEFINE from == Min(Arrays(json)) + 1
               places == {n \in from .. Len(json) : CommasBefore(json, from, n) = index}
               start == FirstOf(json, places)
    <2>1. Arrays(json) \in SUBSET Nat
      BY <1>1 DEF Arrays
    <2>2. from \in Nat \ {0}
      BY <1>4, <2>1, FirstNumber
    <2>3. places \in SUBSET (Nat \ {0})
      <3> HIDE DEF from
      <3> QED  BY <2>2
    <2>4. start \in Nat \ {0}
      <3> HIDE DEF places
      <3> QED  BY <2>3, FirstOfType
    <2>5. SkipFrom(json, start, Blanks) \in Nat \ {0}
      <3> HIDE DEF start
      <3> QED  BY <2>4, SkipFromType
    <2>6. From(json, SkipFrom(json, start, Blanks)) \in Seq(Token)
      <3> HIDE DEF start
      <3> QED  BY <2>5, FromType
    <2> QED  BY <2>6 DEF Element
  <1> QED  BY <1>2, <1>3, <1>4

(* The inductive invariant of the guest: until it commits, only the output *)
(* is committed, and it commits with at least one value, all of them words.*)
GuestInv ==
    /\ input \in Inputs
    /\ pc \in {"start", "extracting", "comparing", "done", "panicked"}
    /\ values \in Seq(Word)
    /\ pc = "extracting" => current \in Seq(Token)
    /\ pc \in {"extracting", "comparing"} => committed = input.output
    /\ pc \in {"comparing", "done"} => values # <<>>
    /\ pc = "done" => committed = Committed(input.output, Fields(values))

(* Nothing is committed at the beginning.                                  *)
LEMMA GuestInit == Init => GuestInv
  BY DEF Init, GuestInv

(* A step of the guest keeps it.                                           *)
LEMMA GuestStep == GuestInv /\ [Next]_vars => GuestInv'
  <1> SUFFICES ASSUME GuestInv, [Next]_vars PROVE GuestInv'
    OBVIOUS
  <1>1. input.response \in Seq(Token)
    BY InputsAssumption DEF GuestInv
  <1>2. CASE Start
    <2>1. Body(input.response) \in Seq(Token)
      BY <1>1, SlicesOfResponse
    <2> QED  BY <1>2, <2>1 DEF GuestInv, Start, GoTo, Panic
  <1>3. ASSUME NEW slice \in Seq(Token), Navigate(slice), UNCHANGED input, pc = "extracting"
        PROVE  GuestInv'
    BY <1>3 DEF GuestInv, Navigate
  <1>4. ASSUME Panic, UNCHANGED input
        PROVE  GuestInv'
    BY <1>4 DEF GuestInv, Panic, GoTo
  <1>5. CASE NavigateToKey
    <2>1. current \in Seq(Token)
      BY <1>5 DEF GuestInv, NavigateToKey
    <2>2. KeysIn(current, Head(segments).name) # {} =>
              AfterKey(current, Head(segments).name) \in Seq(Token)
      BY <2>1, SlicesOfResponse
    <2> QED  BY <1>3, <1>4, <1>5, <2>2 DEF NavigateToKey
  <1>6. CASE NavigateToElement
    <2>1. current \in Seq(Token)
      BY <1>6 DEF GuestInv, NavigateToElement
    <2>2. Arrays(current) # {} => Element(current, Head(segments).index) \in Seq(Token)
      BY <2>1, SlicesOfResponse
    <2> QED  BY <1>3, <1>4, <1>6, <2>2 DEF NavigateToElement
  <1>7. CASE ExtractNumber
    <2>1. CASE Numbers(current) = {}
      BY <1>4, <1>7, <2>1 DEF ExtractNumber
    <2>2. CASE Numbers(current) # {}
      <3> DEFINE token == current[Min(Numbers(current))]
      <3>1. current \in Seq(Token)
        BY <1>7 DEF GuestInv, ExtractNumber
      <3>2. Numbers(current) \subseteq DOMAIN current /\ DOMAIN current \subseteq Nat
        BY <3>1 DEF Numbers
      <3>3. Min(Numbers(current)) \in Numbers(current)
        BY <2>2, <3>2, FirstNumber
      <3>4. token \in Token /\ token.kind \in {"quoted", "bare"}
        <4> DEFINE place == Min(Numbers(current))
        <4>1. place \in DOMAIN current
          BY <3>2, <3>3
        <4>2. current[place].kind = "quoted" \/ AfterColon(current, place)
          <5>1. place \in {n \in DOMAIN current : current[n].kind = "quoted" \/ AfterColon(current, n)}
            BY <3>3 DEF Numbers
          <5> QED  BY <5>1
        <4> HIDE DEF place
        <4>3. current[place] \in Token
          BY <3>1, <4>1
        <4>4. current[place].kind \in {"quoted", "bare"}
          BY <4>2 DEF AfterColon
        <4> QED  BY <4>3, <4>4 DEF place
      <3>5. NumberAt(token) \in Word
        BY <3>4, NumberIsWord
      <3> DEFINE more == Append(values, NumberAt(token))
      <3>6. values' = more /\ committed' = committed /\ UNCHANGED input /\ pc = "extracting"
        BY <1>7, <2>2 DEF ExtractNumber
      <3>7. more \in Seq(Word) /\ more # <<>>
        <4>1. values \in Seq(Word)
          BY DEF GuestInv
        <4>2. more \in Seq(Word) /\ Len(more) = Len(values) + 1 /\ Len(values) \in Nat
          <5> DEFINE number == NumberAt(token)
          <5>1. number \in Word
            BY <3>5
          <5> HIDE DEF number
          <5>2. Append(values, number) \in Seq(Word) /\ Len(Append(values, number)) = Len(values) + 1
                /\ Len(values) \in Nat
            BY <4>1, <5>1, AppendProperties
          <5> QED  BY <5>2 DEF number
        <4> HIDE DEF more
        <4>3. Len(more) # 0
          BY <4>2
        <4> QED  BY <4>2, <4>3
      <3>8. Body(input.response) \in Seq(Token)
        BY <1>1, SlicesOfResponse
      <3>9. \/ pc' = "comparing"
            \/ pc' = "extracting" /\ current' = Body(input.response)
        BY <1>7, <2>2 DEF ExtractNumber, GoTo
      <3> HIDE DEF more
      <3> QED  BY <3>6, <3>7, <3>8, <3>9 DEF GuestInv
    <2> QED  BY <2>1, <2>2
  <1>8. CASE Commit
    <2>1. CASE input.comparison \notin 0 .. 3
      BY <1>4, <1>8, <2>1 DEF Commit
    <2>2. CASE input.comparison \in 0 .. 3
      <3>1. /\ committed' = Committed(committed, Fields(values)) /\ pc' = "done"
            /\ pc = "comparing" /\ UNCHANGED <<input, values>>
        BY <1>8, <2>2 DEF Commit, GoTo
      <3>2. Fields(values)' = Fields(values)
        BY <3>1 DEF Fields, Answer, FirstGreater
      <3>3. committed' = Committed(input.output, Fields(values))'
        BY <3>1, <3>2 DEF GuestInv
      <3> QED  BY <3>1, <3>3 DEF GuestInv
    <2> QED  BY <2>1, <2>2
  <1>9. CASE UNCHANGED vars
    <2>1. Fields(values)' = Fields(values)
      BY <1>9 DEF Fields, Answer, FirstGreater, vars
    <2> QED  BY <1>9, <2>1 DEF GuestInv, vars
  <1> QED  BY <1>2, <1>5, <1>6, <1>7, <1>8, <1>9 DEF Next

(* Every number the guest extracts is a word, and nothing but the output   *)
(* is committed before the fields (main.rs:43-99, 228-289).                *)
THEOREM GuestInvariance == Spec => []GuestInv
  BY GuestInit, GuestStep, PTL DEF Spec

(* The fields the guest commits have their types.                          *)
LEMMA FieldsOfGuest == GuestInv /\ pc = "done" => Fields(values) \in FieldsType
  <1> SUFFICES ASSUME GuestInv, pc = "done" PROVE Fields(values) \in FieldsType
    OBVIOUS
  <1>1. /\ input.output \in Seq(Byte) /\ input.server_name \in Seq(Byte)
        /\ input.json_path.raw \in Seq(Byte)
        /\ input.threshold \in Word /\ input.comparison \in Byte
    BY InputsAssumption DEF GuestInv
  <1>2. values[1] \in Word
    <2>1. values \in Seq(Word) /\ values # <<>>
      BY DEF GuestInv
    <2> QED  BY <2>1
  <1> QED  BY <1>1, <1>2 DEF Fields, FieldsType

(* For every input, every path through its JSON and all numbers in it, the *)
(* public values the guest commits parse to what it committed, unless the  *)
(* output describes itself earlier or a name is longer than a byte counts. *)
THEOREM GuestCorrect == Spec => []ParsedAsCommitted
  <1>1. GuestInv => ParsedAsCommitted
    <2> SUFFICES ASSUME GuestInv, pc = "done", Readable(input.output, Fields(values))
                 PROVE  WellFormed(committed) /\ Parsed(committed) = Fields(values)
      BY DEF ParsedAsCommitted
    <2>1. input.output \in Seq(Byte)
      BY InputsAssumption DEF GuestInv
    <2>2. committed = Committed(input.output, Fields(values))
      BY DEF GuestInv
    <2> QED  BY <2>1, <2>2, FieldsOfGuest, CodecCorrect
  <1> QED  BY <1>1, GuestInvariance, PTL

-----------------------------------------------------------------------------
(* Numbers                                                                 *)

(* The beginning of a number, up to a character.                           *)
LEMMA UpToFirst ==
    ASSUME NEW chars \in Seq(Int), NEW stop
    PROVE  /\ UpTo(chars, stop) \in Seq(Int) /\ Len(UpTo(chars, stop)) <= Len(chars)
           /\ \A n \in 1 .. Len(UpTo(chars, stop)) :
                  UpTo(chars, stop)[n] = chars[n] /\ chars[n] # stop
           /\ chars # <<>> /\ chars[1] # stop => 1 \in 1 .. Len(UpTo(chars, stop))
           /\ (\A n \in 1 .. Len(chars) : chars[n] # stop) => UpTo(chars, stop) = chars
  <1>1. PICK size \in Nat : size = Len(chars) /\ DOMAIN chars = 1 .. size
    BY LenProperties
  <1>0. size \in Nat
    BY <1>1
  <1> DEFINE stops == {n \in DOMAIN chars : chars[n] = stop}
             part == UpTo(chars, stop)
  <1>2. CASE stops = {}
    <2>1. part = chars
      BY <1>2 DEF UpTo
    <2>2. \A n \in 1 .. size : chars[n] # stop
      BY <1>1, <1>2
    <2>3. chars # <<>> => size # 0
      BY <1>1, EmptySeq
    <2>4. chars # <<>> => 1 \in 1 .. size
      BY <1>0, <2>3
    <2> QED  BY <1>1, <2>1, <2>2, <2>4
  <1>3. CASE stops # {}
    <2>1. PICK last \in Nat : last = Min(stops) /\ last \in stops /\ \A n \in stops : last <= n
      <3>1. stops \in SUBSET Nat
        BY <1>1
      <3> HIDE DEF stops
      <3>2. \E n \in stops : \A m \in stops : n <= m
        BY <1>3, <3>1, LeastNumber
      <3> QED  BY <3>1, <3>2 DEF Min
    <2>2. last \in 1 .. size /\ chars[last] = stop
      BY <1>1, <2>1
    <2>3. PICK w \in Nat : w = last - 1 /\ w < size
      BY <1>0, <2>2
    <2>4. part = SubSeq(chars, 1, w)
      BY <1>3, <2>1, <2>3 DEF UpTo
    <2>5. /\ part \in Seq(Int) /\ Len(part) = w
          /\ \A n \in 1 .. w : part[n] = chars[n]
      <3>1. SubSeq(chars, 0 + 1, 0 + w) \in Seq(Int) /\ Len(SubSeq(chars, 0 + 1, 0 + w)) = w
            /\ \A n \in 1 .. w : SubSeq(chars, 0 + 1, 0 + w)[n] = chars[0 + n]
        BY <1>1, <2>3, Slice
      <3>2. 0 + 1 = 1 /\ 0 + w = w /\ \A n \in 1 .. w : 0 + n = n
        BY <2>3
      <3> QED  BY <2>4, <3>1, <3>2
    <2>6. ASSUME NEW n \in 1 .. w
          PROVE  chars[n] # stop
      <3>1. n \in 1 .. size /\ ~(last <= n)
        BY <1>0, <2>2, <2>3
      <3>2. n \notin stops
        BY <2>1, <3>1
      <3> QED  BY <1>1, <3>1, <3>2
    <2>7. chars[1] # stop => 1 \in 1 .. w
      <3>1. chars[1] # stop => last # 1
        BY <2>2
      <3> QED  BY <2>2, <2>3, <3>1
    <2>8. w <= size
      BY <1>0, <2>3
    <2> HIDE DEF part, stops
    <2> QED  BY <1>1, <2>2, <2>5, <2>6, <2>7, <2>8 DEF part
  <1> QED  BY <1>2, <1>3

(* One digit more.                                                         *)
LEMMA TimesTen ==
    ASSUME NEW v \in Nat, NEW c \in 0 .. 9
    PROVE  v * 10 + c \in Nat /\ v <= v * 10 + c /\ ~(c < 0)
  OBVIOUS

(* Digits read one after the other, with a wrap and without, when what is  *)
(* read in the end fits.                                                   *)
Digits(s, n)     == \A k \in 1 .. n : s[k] \in 0 .. 9
PlainRead(s, n, g) == g[0] = 0 /\ \A k \in 0 .. n - 1 : g[k + 1] = g[k] * 10 + s[k + 1]
WordRead(s, n, f)  == f[0] = 0 /\ \A k \in 0 .. n - 1 : f[k + 1] = NextDigit(f[k], s[k + 1])

(* Digit by digit, nothing wraps when the number they end in fits.         *)
LEMMA SameDigits ==
    ASSUME NEW n \in Nat, NEW s, NEW g, NEW f,
           Digits(s, n), PlainRead(s, n, g), WordRead(s, n, f), g[n] < WordSize
    PROVE  f[n] = g[n]
  <1>0. n \in Nat
    OBVIOUS
  <1>3. g[0] = 0 /\ \A k \in 0 .. n - 1 : g[k + 1] = g[k] * 10 + s[k + 1]
    BY DEF PlainRead
  <1>4. f[0] = 0 /\ \A k \in 0 .. n - 1 : f[k + 1] = NextDigit(f[k], s[k + 1])
    BY DEF WordRead
  <1>5. PICK bound \in Nat : bound = WordSize /\ bound > 0
    BY Widths
  <1>6. \A k \in 1 .. n : s[k] \in 0 .. 9
    BY DEF Digits
  <1>12. g[n] < bound
    BY <1>5
  <1>7. ASSUME NEW k \in Nat, k + 1 <= n
        PROVE  k <= n /\ k \in 0 .. n - 1 /\ k + 1 \in 1 .. n
    BY <1>0, <1>7
  <1> DEFINE G == {k \in Nat : k <= n => g[k] \in Nat /\ \A i \in 0 .. k : g[i] <= g[k]}
  <1>8. 0 \in G
    BY <1>3
  <1>9. ASSUME NEW k \in Nat, k \in G
        PROVE  k + 1 \in G
    <2> SUFFICES ASSUME k + 1 <= n
                 PROVE  g[k + 1] \in Nat /\ \A i \in 0 .. k + 1 : g[i] <= g[k + 1]
      OBVIOUS
    <2>1. k <= n /\ k \in 0 .. n - 1 /\ k + 1 \in 1 .. n
      BY <1>7
    <2>2. g[k] \in Nat /\ \A i \in 0 .. k : g[i] <= g[k]
      BY <1>9, <2>1
    <2>3. PICK v \in Nat, c \in 0 .. 9 : v = g[k] /\ c = s[k + 1]
      BY <1>6, <2>1, <2>2
    <2>4. g[k + 1] = v * 10 + c
      BY <1>3, <2>1, <2>3
    <2>5. PICK u \in Nat : u = g[k + 1] /\ v <= u
      BY <2>3, <2>4, TimesTen
    <2>6. ASSUME NEW i \in 0 .. k + 1
          PROVE  g[i] <= u
      <3>1. CASE i = k + 1
        BY <2>5, <3>1
      <3>2. CASE i # k + 1
        <4>1. i \in 0 .. k
          BY <3>2
        <4>2. g[i] <= v
          BY <2>2, <2>3, <4>1
        <4>3. g[i] \in Nat
          <5> DEFINE I == {j \in Nat : j <= k => g[j] \in Nat}
          <5>1. 0 \in I
            BY <1>3
          <5>2. ASSUME NEW j \in Nat, j \in I
                PROVE  j + 1 \in I
            <6> SUFFICES ASSUME j + 1 <= k PROVE g[j + 1] \in Nat
              OBVIOUS
            <6>1. j <= k /\ j + 1 <= n
              BY <1>0, <2>1
            <6>2. g[j] \in Nat /\ g[j + 1] = g[j] * 10 + s[j + 1] /\ s[j + 1] \in 0 .. 9
              BY <1>3, <1>6, <1>7, <5>2, <6>1
            <6> QED  BY <6>2, TimesTen
          <5> HIDE DEF I
          <5>3. Nat \subseteq I
            BY <5>1, <5>2, NumberInduction
          <5>4. i \in Nat /\ i <= k
            BY <4>1
          <5> QED  BY <5>3, <5>4 DEF I
        <4> QED  BY <2>3, <2>5, <4>2, <4>3
      <3> QED  BY <3>1, <3>2
    <2> QED  BY <2>5, <2>6
  <1>10. Nat \subseteq G
    <2> HIDE DEF G
    <2> QED  BY <1>8, <1>9, NumberInduction
  <1>11. \A k \in Nat : k <= n => g[k] \in Nat /\ \A i \in 0 .. k : g[i] <= g[k]
    BY <1>10
  <1> DEFINE T == {k \in Nat : k <= n => f[k] = g[k]}
  <1>13. 0 \in T
    BY <1>3, <1>4
  <1>14. ASSUME NEW k \in Nat, k \in T
         PROVE  k + 1 \in T
    <2> SUFFICES ASSUME k + 1 <= n PROVE f[k + 1] = g[k + 1]
      OBVIOUS
    <2>1. k <= n /\ k \in 0 .. n - 1 /\ k + 1 \in 1 .. n /\ k + 1 \in 0 .. n /\ n <= n
      BY <1>0, <1>7
    <2>2. PICK v \in Nat, c \in 0 .. 9 : v = g[k] /\ c = s[k + 1] /\ v = f[k]
      BY <1>6, <1>11, <1>14, <2>1
    <2>3. PICK u \in Nat : u = g[k + 1] /\ u = v * 10 + c /\ u < bound
      <3>1. g[k + 1] = v * 10 + c
        BY <1>3, <2>1, <2>2
      <3>2. g[k + 1] \in Nat /\ g[k + 1] <= g[n] /\ g[n] \in Nat
        BY <1>0, <1>11, <2>1
      <3> QED  BY <1>5, <1>12, <3>1, <3>2
    <2>4. f[k + 1] = (v * 10 + c) % bound
      <3>1. f[k + 1] = NextDigit(v, c)
        BY <1>4, <2>1, <2>2
      <3>2. ~(c < 0)
        BY <2>2
      <3> QED  BY <1>5, <3>1, <3>2 DEF NextDigit
    <2>5. u % bound = u
      <3>1. u \in 0 .. bound - 1
        BY <1>5, <2>3
      <3> QED  BY <1>5, <3>1, SmallRemainder
    <2> QED  BY <2>3, <2>4, <2>5
  <1> HIDE DEF T
  <1>15. n \in T
    BY <1>0, <1>13, <1>14, NumberInduction
  <1> QED  BY <1>0, <1>15 DEF T

(* What digits are read as, with a wrap and without.                       *)
Wrapped(s) == FoldLeft(LAMBDA v, c : IF c < 0 THEN v ELSE (v * 10 + c) % WordSize, 0, s)
Unwrapped(s) == FoldLeft(LAMBDA v, c : v * 10 + c, 0, s)

(* The digits are read one after the other, with a wrap ...                *)
LEMMA WrappedRead ==
    ASSUME NEW s \in Seq(Int)
    PROVE  \E f : /\ f[0] = 0
                  /\ \A k \in 0 .. Len(s) - 1 : f[k + 1] = NextDigit(f[k], s[k + 1])
                  /\ Wrapped(s) = f[Len(s)]
  BY DigitsRead DEF Wrapped

(* ... and without.                                                        *)
LEMMA UnwrappedRead ==
    ASSUME NEW s \in Seq(Int)
    PROVE  \E g : /\ g[0] = 0
                  /\ \A k \in 0 .. Len(s) - 1 : g[k + 1] = g[k] * 10 + s[k + 1]
                  /\ Unwrapped(s) = g[Len(s)]
  <1>1. Unwrapped(s) = ReadIn(10, s)
    BY DEF Unwrapped, ReadIn
  <1>2. 10 \in Int
    OBVIOUS
  <1> QED  BY <1>1, <1>2, NumberRead

(* A number that fits is read without a wrap.                              *)
LEMMA NoWrap ==
    ASSUME NEW s \in Seq(Int), \A n \in 1 .. Len(s) : s[n] \in 0 .. 9, Unwrapped(s) < WordSize
    PROVE  Wrapped(s) = Unwrapped(s)
  <1>1. PICK n \in Nat : n = Len(s)
    BY LenProperties
  <1>2. PICK g : /\ g[0] = 0 /\ Unwrapped(s) = g[n]
                 /\ \A k \in 0 .. n - 1 : g[k + 1] = g[k] * 10 + s[k + 1]
    BY <1>1, UnwrappedRead
  <1>3. PICK f : /\ f[0] = 0 /\ Wrapped(s) = f[n]
                 /\ \A k \in 0 .. n - 1 : f[k + 1] = NextDigit(f[k], s[k + 1])
    BY <1>1, WrappedRead
  <1>4. Digits(s, n) /\ PlainRead(s, n, g) /\ WordRead(s, n, f) /\ g[n] < WordSize
    BY <1>1, <1>2, <1>3 DEF Digits, PlainRead, WordRead
  <1>5. f[n] = g[n]
    BY <1>1, <1>4, SameDigits
  <1> QED  BY <1>2, <1>3, <1>5

(* A plain number that fits is read as its integer part, or as 0 if it is  *)
(* negative, however many digits it has (parse_number_bytes:               *)
(* main.rs:274-289).                                                       *)
THEOREM NumberAsWritten ==
    ASSUME NEW node \in Node, IsNumber(node)
    PROVE  NumberAt(node.token) = ValueOf(node) /\ ValueOf(node) \in Nat
  <1>1. PICK token : token = node.token /\ token \in NumberToken /\ token.kind \in {"quoted", "bare"}
    <2>1. node.token \in NumberToken
      BY NodeParts DEF IsNumber
    <2> QED  BY <2>1 DEF NumberToken
  <1>2. PICK chars : /\ chars = token.chars /\ chars \in Seq(Int) /\ chars # <<>>
                     /\ \A n \in 1 .. Len(chars) : chars[n] \in 0 .. 9 \cup {Minus, Dot, Other}
    <2>1. token \in Token
      BY <1>1 DEF Token
    <2>2. token.chars \in Seq(Int) /\ token.chars # <<>>
      BY <1>1, <2>1, NumberCharacters
    <2>3. token.chars \in Seq(0 .. 9 \cup {Minus, Dot, Other})
      BY <1>1 DEF NumberToken
    <2>4. \A n \in 1 .. Len(token.chars) : token.chars[n] \in 0 .. 9 \cup {Minus, Dot, Other}
      BY <2>3, ElementOfSeq
    <2> QED  BY <2>2, <2>4
  <1>3. DOMAIN chars = 1 .. Len(chars) /\ Len(chars) \in Nat /\ Len(chars) # 0 /\ 1 \in 1 .. Len(chars)
    <2>1. DOMAIN chars = 1 .. Len(chars) /\ Len(chars) \in Nat
      BY <1>2, LenProperties
    <2>2. Len(chars) # 0
      BY <1>2, EmptySeq
    <2> QED  BY <2>1, <2>2
  <1>4. /\ \A n \in 1 .. Len(chars) : chars[n] # Other
        /\ \A n \in 1 .. Len(chars) : chars[n] = Minus => n = 1
    BY <1>1, <1>2, <1>3 DEF IsNumber, InRange, Plain, Contains
  <1>5. NumberAt(token) = ParseNumber(chars)
    <2>1. UpTo(chars, Other) = chars
      BY <1>2, <1>4, UpToFirst
    <2> QED  BY <1>2, <2>1 DEF NumberAt
  <1>6. PICK s : /\ s = UpTo(chars, Dot) /\ s \in Seq(Int) /\ Len(s) \in Nat /\ Len(s) <= Len(chars)
                 /\ \A n \in 1 .. Len(s) : s[n] = chars[n] /\ chars[n] # Dot
                 /\ chars[1] # Dot => 1 \in 1 .. Len(s)
    BY <1>2, UpToFirst, LenProperties
  <1>7. Head(chars) = chars[1]
    BY <1>2
  <1>8. CASE chars[1] = Minus
    <2>1. 1 \in 1 .. Len(s) /\ s[1] = Minus
      BY <1>6, <1>8 DEF Minus, Dot
    <2>2. Contains(s, Minus)
      BY <2>1 DEF Contains
    <2>3. ParseNumber(chars) = 0
      BY <1>6, <2>2 DEF ParseNumber
    <2>4. ValueOf(node) = 0
      BY <1>1, <1>2, <1>7, <1>8 DEF ValueOf
    <2> QED  BY <1>1, <1>5, <2>3, <2>4
  <1>9. CASE chars[1] # Minus
    <2>1. ASSUME NEW n \in 1 .. Len(s)
          PROVE  s[n] \in 0 .. 9 /\ s[n] # Minus
      <3>1. n \in 1 .. Len(chars)
        BY <1>3, <1>6
      <3>2. chars[n] # Minus
        BY <1>4, <1>9, <3>1
      <3> QED  BY <1>2, <1>4, <1>6, <3>1, <3>2
    <2>2. ~Contains(s, Minus)
      BY <2>1 DEF Contains
    <2>3. ValueOf(node) = WholePart(chars)
      BY <1>1, <1>2, <1>7, <1>9 DEF ValueOf
    <2>4. WholePart(chars) = Unwrapped(s)
      BY <1>6 DEF WholePart, Unwrapped
    <2>5. WholePart(chars) < WordSize
      BY <2>3 DEF IsNumber, InRange
    <2>6. Wrapped(s) = Unwrapped(s)
      BY <1>6, <2>1, <2>4, <2>5, NoWrap
    <2>7. ParseNumber(chars) = Wrapped(s)
      BY <1>6, <2>2 DEF ParseNumber, Wrapped
    <2>8. ParseNumber(chars) = WholePart(chars)
      BY <2>4, <2>6, <2>7
    <2>9. ParseNumber(chars) \in Word
      BY <1>6, <2>7, DigitsType DEF Wrapped
    <2>10. ParseNumber(chars) \in Nat
      <3>1. WordSize \in Nat
        BY Widths
      <3> QED  BY <2>9, <3>1 DEF Word
    <2> QED  BY <1>1, <1>5, <2>3, <2>8, <2>10
  <1> QED  BY <1>8, <1>9

-----------------------------------------------------------------------------
(* The first number                                                        *)

Unread(s) == \A m \in 1 .. Len(s) : s[m].kind \notin {"quoted", "bare"}

(* Behind a colon and blanks.                                              *)
Led(json, n, colons, spaces) ==
    \E m \in 1 .. n - 1 : /\ IsMark(json[m], colons)
                          /\ \A k \in m + 1 .. n - 1 : IsMark(json[k], spaces)

EndsIn(s, colons, spaces) == Led(s, Len(s) + 1, colons, spaces)

Announces(s) == EndsIn(s, {":"}, {" "})

Reads(json, v) == Numbers(json) # {} /\ NumberAt(json[Min(Numbers(json))]) = v

(* What led to the end of s leads to what follows it.                      *)
LEMMA LedBy ==
    ASSUME NEW s \in Seq(Token), NEW t \in Seq(Token), NEW colons, NEW spaces,
           EndsIn(s, colons, spaces)
    PROVE  Led(s \o t, Len(s) + 1, colons, spaces)
  <1>1. PICK json, size :
            json = s \o t /\ size \in Nat /\ size = Len(s) /\ \A n \in 1 .. size : json[n] = s[n]
    <2>1. Len(s) \in Nat /\ \A n \in 1 .. Len(s) : (s \o t)[n] = s[n]
      BY Joined
    <2> QED  BY <2>1
  <1>0. size \in Nat
    BY <1>1
  <1>2. PICK m \in 1 .. (size + 1) - 1 : /\ IsMark(s[m], colons)
                                         /\ \A k \in m + 1 .. (size + 1) - 1 : IsMark(s[k], spaces)
    BY <1>1 DEF EndsIn, Led
  <1>3. m \in 1 .. size /\ \A k \in m + 1 .. (size + 1) - 1 : k \in 1 .. size
    BY <1>0, <1>2
  <1>4. IsMark(json[m], colons) /\ \A k \in m + 1 .. (size + 1) - 1 : IsMark(json[k], spaces)
    BY <1>1, <1>2, <1>3
  <1>5. Led(json, size + 1, colons, spaces)
    BY <1>2, <1>4 DEF Led
  <1> QED  BY <1>1, <1>5

(* The colon of a member announces its value.                              *)
LEMMA ColonAnnounces ==
    ASSUME NEW s \in Seq(Token), NEW pretty \in BOOLEAN
    PROVE  Announces(s \o Colon(pretty))
  <1>1. PICK colons, spaces : colons = {":"} /\ spaces = {" "}
    BY Zenon
  <1>2. PICK colon, space : colon = Mark(":") /\ space = Mark(" ")
    BY Zenon
  <1>3. IsMark(colon, colons) /\ IsMark(space, spaces)
    BY Zenon, <1>1, <1>2 DEF IsMark, Mark
  <1>4. PICK t : t = Colon(pretty) /\ (t = <<colon, space>> \/ t = <<colon>>) /\ t \in Seq(Token)
    <2>1. Colon(pretty) = <<colon, space>> \/ Colon(pretty) = <<colon>>
      BY Zenon, <1>2 DEF Colon
    <2>2. PICK node \in Node : TRUE
      <3>1. Null \in Node
        BY DEF Node, Null
      <3> QED  BY <3>1
    <2>3. Colon(pretty) \in Seq(Token)
      BY <2>2, NodeParts
    <2> QED  BY <2>1, <2>3
  <1>a. PICK json, size, width : json = s \o t /\ size = Len(s) /\ width = Len(t)
    OBVIOUS
  <1>5. /\ size \in Nat /\ width \in Nat /\ Len(json) = size + width
        /\ \A n \in 1 .. width : json[size + n] = t[n]
    <2>1. /\ Len(s) \in Nat /\ Len(t) \in Nat /\ Len(s \o t) = Len(s) + Len(t)
          /\ \A n \in 1 .. Len(t) : (s \o t)[Len(s) + n] = t[n]
      BY <1>4, Joined
    <2> QED  BY <1>a, <2>1
  <1>0. size \in Nat
    BY <1>5
  <1>6. /\ t[1] = colon /\ (width = 1 \/ (width = 2 /\ t[2] = space))
    BY <1>4, <1>a, ShortElements
  <1>7. CASE width = 1
    <2>1. json[size + 1] = colon
      BY <1>5, <1>6, <1>7
    <2>2. /\ size + 1 \in 1 .. (size + width + 1) - 1
          /\ (size + 1) + 1 .. (size + width + 1) - 1 = {}
      BY <1>0, <1>7
    <2>3. Led(json, size + width + 1, colons, spaces)
      BY <1>3, <2>1, <2>2 DEF Led
    <2> QED  BY <1>1, <1>4, <1>5, <1>a, <2>3 DEF Announces, EndsIn
  <1>8. CASE width = 2 /\ t[2] = space
    <2>1. json[size + 1] = colon /\ json[size + 2] = space
      BY <1>5, <1>6, <1>8
    <2>2. /\ size + 1 \in 1 .. (size + width + 1) - 1
          /\ \A k \in (size + 1) + 1 .. (size + width + 1) - 1 : k = size + 2
      BY <1>0, <1>8
    <2>3. Led(json, size + width + 1, colons, spaces)
      BY <1>3, <2>1, <2>2 DEF Led
    <2> QED  BY <1>1, <1>4, <1>5, <1>a, <2>3 DEF Announces, EndsIn
  <1> QED  BY <1>6, <1>7, <1>8

(* The first number, quoted or behind a colon, is the one that is read.    *)
LEMMA NumberFound ==
    ASSUME NEW pre \in Seq(Token), Unread(pre), NEW token \in NumberToken,
           NEW rest \in Seq(Token), token.kind = "quoted" \/ Announces(pre),
           NEW json, json = pre \o (<<token>> \o rest)
    PROVE  Reads(json, NumberAt(token))
  <1>1. PICK t \in Seq(Token) : /\ t = <<token>> \o rest /\ Len(t) \in Nat /\ Len(t) # 0 /\ t[1] = token
                                /\ 1 \in 1 .. Len(t)
    <2>1. token \in Token
      BY DEF Token
    <2>2. <<token>> \in Seq(Token) /\ Len(<<token>>) = 1 /\ <<token>>[1] = token
      BY <2>1, ShortSequences, ShortElements
    <2>3. PICK one \in Seq(Token) : one = <<token>> /\ Len(one) = 1 /\ one[1] = token
      BY <2>2
    <2>4. /\ one \o rest \in Seq(Token) /\ Len(rest) \in Nat /\ Len(one \o rest) = 1 + Len(rest)
          /\ \A n \in 1 .. 1 : (one \o rest)[n] = one[n]
      BY <2>3, Joined
    <2>5. 1 \in 1 .. 1 /\ 1 + Len(rest) # 0 /\ 1 + Len(rest) \in Nat /\ 1 \in 1 .. 1 + Len(rest)
      BY <2>4
    <2> QED  BY <2>3, <2>4, <2>5
  <1>2. PICK size \in Nat :
            /\ size = Len(pre) /\ DOMAIN json = 1 .. size + Len(t)
            /\ \A n \in 1 .. size : json[n] = pre[n]
            /\ json[size + 1] = token
    <2>1. /\ Len(pre) \in Nat /\ DOMAIN (pre \o t) = 1 .. Len(pre) + Len(t)
          /\ \A n \in 1 .. Len(pre) : (pre \o t)[n] = pre[n]
          /\ \A n \in 1 .. Len(t) : (pre \o t)[Len(pre) + n] = t[n]
      BY Joined
    <2> QED  BY <1>1, <2>1
  <1>0. size \in Nat /\ Len(t) \in Nat /\ Len(t) # 0
    BY <1>1, <1>2
  <1>3. size + 1 \in DOMAIN json
    BY <1>0, <1>2
  <1>4. token.kind = "quoted" \/ (token.kind = "bare" /\ Announces(pre))
    <2>1. token.kind = "quoted" \/ token.kind = "bare"
      BY DEF NumberToken
    <2> QED  BY <2>1
  <1>5. Announces(pre) => Led(json, size + 1, {":"}, {" "})
    <2>1. ASSUME NEW colons, NEW spaces, EndsIn(pre, colons, spaces)
          PROVE  Led(json, size + 1, colons, spaces)
      <3>1. json = pre \o t
        BY <1>1
      <3> QED  BY <1>2, <2>1, <3>1, LedBy
    <2>2. Announces(pre) <=> EndsIn(pre, {":"}, {" "})
      BY Zenon DEF Announces
    <2> QED  BY Zenon, <2>1, <2>2
  <1>6. token.kind = "bare" /\ Announces(pre) => AfterColon(json, size + 1)
    <2>1. json[size + 1].kind = "bare" /\ Led(json, size + 1, {":"}, {" "})
              => AfterColon(json, size + 1)
      BY Zenon DEF Led, AfterColon
    <2> QED  BY Zenon, <1>2, <1>5, <2>1
  <1>7. size + 1 \in Numbers(json)
    BY Zenon, <1>2, <1>3, <1>4, <1>6 DEF Numbers
  <1>8. ASSUME NEW n \in Numbers(json)
        PROVE  size + 1 <= n /\ n \in Nat
    <2>1. n \in DOMAIN json /\ (json[n].kind = "quoted" \/ json[n].kind = "bare")
      BY Zenon, <1>8 DEF Numbers, AfterColon
    <2>2. n \in Nat /\ n \in 1 .. size + Len(t)
      BY <1>0, <1>2, <2>1
    <2>3. ~(n \in 1 .. size)
      BY <1>2, <2>1 DEF Unread
    <2> QED  BY <1>0, <2>2, <2>3
  <1>9. PICK found : found = Numbers(json)
    OBVIOUS
  <1>10. found \in SUBSET Nat /\ size + 1 \in found /\ \A m \in found : size + 1 <= m
    BY <1>7, <1>8, <1>9
  <1>11. Min(found) = size + 1
    BY <1>10, FirstIs
  <1>12. Numbers(json) # {} /\ Min(Numbers(json)) = size + 1
    BY <1>7, <1>9, <1>11
  <1> QED  BY <1>2, <1>12 DEF Reads

-----------------------------------------------------------------------------
(* The first value of a document                                           *)

(* A number is sent as its one token.                                      *)
LEMMA NumberTokens ==
    ASSUME NEW doc, IsDocument(doc), NEW pretty \in BOOLEAN, NEW p \in DOMAIN doc,
           IsNumber(doc[p])
    PROVE  /\ Tokens(doc, pretty)[p] = <<doc[p].token>> /\ doc[p].token \in NumberToken
           /\ NumberAt(doc[p].token) = ValueOf(doc[p]) /\ ValueOf(doc[p]) \in Nat
  <1>1. doc[p] \in Node /\ doc[p].kind = "number"
    BY DocumentParts DEF IsNumber
  <1>2. doc[p].token \in NumberToken
    BY <1>1, NodeParts
  <1>3. Tokens(doc, pretty)[p] = <<doc[p].token>>
    <2>1. PICK parts : Tokens(doc, pretty)[p] = NodeTokens(doc[p], parts, pretty)
      BY TokensLaw
    <2>2. NodeTokens(doc[p], parts, pretty) = <<doc[p].token>>
      BY Zenon, <1>1 DEF NodeTokens
    <2> QED  BY <2>1, <2>2
  <1>4. NumberAt(doc[p].token) = ValueOf(doc[p]) /\ ValueOf(doc[p]) \in Nat
    BY <1>1, NumberAsWritten
  <1> QED  BY <1>2, <1>3, <1>4

(* A quoted number is read where it begins.                                *)
LEMMA QuotedFound ==
    ASSUME NEW doc, IsDocument(doc), NEW pretty \in BOOLEAN, NEW p \in DOMAIN doc,
           IsNumber(doc[p]), IsQuoted(doc[p]), NEW rest, Spelt(rest)
    PROVE  Reads(Tokens(doc, pretty)[p] \o rest, ValueOf(doc[p]))
  <1>1. PICK token \in NumberToken :
            /\ token = doc[p].token /\ Tokens(doc, pretty)[p] = <<token>>
            /\ NumberAt(token) = ValueOf(doc[p])
    BY NumberTokens
  <1>2. token.kind = "quoted"
    BY <1>1 DEF IsQuoted
  <1>3. PICK pre \in Seq(Token) : pre = <<>> /\ Unread(pre)
    <2>1. <<>> \in Seq(Token) /\ Len(<<>>) = 0
      OBVIOUS
    <2>2. Unread(<<>>)
      BY <2>1 DEF Unread
    <2> QED  BY <2>1, <2>2
  <1>4. PICK t \in Seq(Token) : t = <<token>> \o rest
    <2>1. <<token>> \in Seq(Token)
      BY ShortSequences DEF Token
    <2> QED  BY <2>1, TokenSequences DEF Spelt
  <1>5. t = pre \o t
    BY <1>3, <1>4, ConcatEmptySeq
  <1>6. Reads(t, NumberAt(token))
    <2>1. t = pre \o (<<token>> \o rest) /\ rest \in Seq(Token)
      BY <1>4, <1>5 DEF Spelt
    <2> QED  BY <1>2, <1>3, <2>1, NumberFound
  <1> QED  BY <1>1, <1>4, <1>6

(* No number, then no number.                                              *)
LEMMA UnreadJoin ==
    ASSUME NEW s \in Seq(Token), NEW t \in Seq(Token), Unread(s), Unread(t)
    PROVE  Unread(s \o t)
  <1>a. PICK json, size, width : json = s \o t /\ size = Len(s) /\ width = Len(t)
    OBVIOUS
  <1>1. /\ size \in Nat /\ width \in Nat /\ Len(json) = size + width
        /\ \A n \in 1 .. size : json[n] = s[n]
        /\ \A n \in 1 .. width : json[size + n] = t[n]
    <2>1. /\ Len(s) \in Nat /\ Len(t) \in Nat /\ Len(s \o t) = Len(s) + Len(t)
          /\ \A n \in 1 .. Len(s) : (s \o t)[n] = s[n]
          /\ \A n \in 1 .. Len(t) : (s \o t)[Len(s) + n] = t[n]
      BY Joined
    <2> QED  BY <1>a, <2>1
  <1>0. size \in Nat /\ width \in Nat
    BY <1>1
  <1>2. ASSUME NEW m \in 1 .. size + width
        PROVE  json[m].kind \notin {"quoted", "bare"}
    <2>1. CASE m <= size
      <3>1. m \in 1 .. size
        BY <1>0, <2>1
      <3> QED  BY <1>1, <1>a, <3>1 DEF Unread
    <2>2. CASE ~(m <= size)
      <3>1. PICK n \in 1 .. width : size + n = m
        <4>1. m - size \in 1 .. width /\ size + (m - size) = m
          BY <1>0, <2>2
        <4> QED  BY <4>1
      <3> QED  BY <1>1, <1>a, <3>1 DEF Unread
    <2> QED  BY <2>1, <2>2
  <1> QED  BY <1>1, <1>2, <1>a DEF Unread

(* No number stands before the first member or item.                       *)
LEMMA NothingBefore ==
    ASSUME NEW node \in Node, NEW pretty \in BOOLEAN, 1 \in 1 .. Size(node)
    PROVE  \E s : /\ s = (<<Opening(node)>> \o <<>>) \o Lead(node, 1, pretty)
                  /\ s \in Seq(Token) /\ Unread(s)
                  /\ node.kind = "object" => \E t \in Seq(Token) : s = t \o Colon(pretty)
  <1>1. PICK open, lead, colon :
            /\ open = <<Opening(node)>> /\ lead = Lead(node, 1, pretty) /\ colon = Colon(pretty)
            /\ open \in Seq(Token) /\ lead \in Seq(Token) /\ colon \in Seq(Token)
    <2>1. Opening(node) \in Token /\ Lead(node, 1, pretty) \in Seq(Token)
          /\ Colon(pretty) \in Seq(Token)
      BY NodeParts
    <2>2. <<Opening(node)>> \in Seq(Token)
      BY <2>1, ShortSequences
    <2> QED  BY <2>1, <2>2
  <1>2. open \o <<>> = open
    BY <1>1, ConcatEmptySeq
  <1>3. ASSUME NEW token, token.kind \notin {"quoted", "bare"}
        PROVE  Unread(<<token>>)
    BY <1>3, ShortElements DEF Unread
  <1>4. ASSUME NEW c, c \in {"{", "[", ":", " "}
        PROVE  Mark(c).kind \notin {"quoted", "bare"}
    BY Zenon, <1>4 DEF Mark
  <1>5. Unread(open)
    <2>1. Opening(node).kind \notin {"quoted", "bare"}
      BY Zenon, <1>4 DEF Opening
    <2> QED  BY <1>1, <1>3, <2>1
  <1>6. Unread(colon)
    <2>1. PICK a, b : a = Mark(":") /\ b = Mark(" ")
      BY Zenon
    <2>2. a.kind \notin {"quoted", "bare"} /\ b.kind \notin {"quoted", "bare"}
      BY Zenon, <1>4, <2>1
    <2>3. colon = <<a, b>> \/ colon = <<a>>
      BY Zenon, <1>1, <2>1 DEF Colon
    <2>4. Unread(<<a>>)
      BY <1>3, <2>2
    <2>5. Unread(<<a, b>>)
      BY <2>2, ShortElements DEF Unread
    <2> QED  BY <2>3, <2>4, <2>5
  <1>7. node.kind = "object" \/ node.kind = "array"
    <2>1. Size(node) # 0
      OBVIOUS
    <2> QED  BY <2>1, NodeParts
  <1>8. CASE node.kind = "object"
    <2>1. PICK name : name = <<Text(node.names[1])>> /\ name \in Seq(Token)
      <3>1. node.names \in Seq(STRING) /\ 1 \in 1 .. Len(node.names)
        BY <1>8, NodeParts
      <3>2. node.names[1] \in STRING
        BY <3>1, ElementOfSeq
      <3>3. Text(node.names[1]) \in Token
        BY <3>2, NodeParts
      <3> QED  BY <3>3, ShortSequences
    <2>2. lead = name \o colon
      <3>1. lead = <<>> \o (name \o colon)
        BY Zenon, <1>1, <1>8, <2>1 DEF Lead
      <3>2. name \o colon \in Seq(Token)
        BY <1>1, <2>1, TokenSequences
      <3> QED  BY <3>1, <3>2, ConcatEmptySeq
    <2>3. Unread(name)
      <3>1. Text(node.names[1]).kind \notin {"quoted", "bare"}
        BY DEF Text
      <3> QED  BY <1>3, <2>1, <3>1
    <2>4. PICK t \in Seq(Token) : t = open \o name /\ Unread(t)
      <3>1. open \o name \in Seq(Token)
        BY <1>1, <2>1, TokenSequences
      <3> QED  BY <1>1, <1>5, <2>1, <2>3, <3>1, UnreadJoin
    <2>5. open \o lead = t \o colon
      BY <1>1, <2>1, <2>2, <2>4, TokenSequences
    <2>6. Unread(t \o colon) /\ t \o colon \in Seq(Token)
      BY <1>1, <1>6, <2>4, UnreadJoin, TokenSequences
    <2> QED  BY <1>1, <1>2, <2>4, <2>5, <2>6
  <1>9. CASE node.kind = "array"
    <2>1. lead = <<>>
      <3>1. lead = <<>> \o <<>>
        BY Zenon, <1>1, <1>9 DEF Lead
      <3>2. <<>> \o <<>> = <<>>
        OBVIOUS
      <3> QED  BY <3>1, <3>2
    <2>2. open \o lead = open
      BY <1>1, <2>1, ConcatEmptySeq
    <2>3. node.kind # "object"
      BY <1>9
    <2> QED  BY <1>1, <1>2, <1>5, <2>2, <2>3
  <1> QED  BY <1>7, <1>8, <1>9

(* The tokens before the first value of a document, and what follows it.   *)
Before(doc, pretty, p, k, pre, rest) ==
    /\ pre \in Seq(Token) /\ rest \in Seq(Token) /\ Unread(pre)
    /\ Tokens(doc, pretty)[<<>>] = pre \o (Tokens(doc, pretty)[Upper(p, k)] \o rest)
    /\ k > 1 /\ doc[Upper(p, k - 1)].kind = "object" =>
           \E s \in Seq(Token) : pre = s \o Colon(pretty)

(* One step down to the first value.                                       *)
LEMMA BeforeStep ==
    ASSUME NEW doc, IsDocument(doc), NEW pretty \in BOOLEAN, NEW p \in DOMAIN doc,
           NEW k \in 1 .. Len(p), p[k] = 1, NEW pre, NEW rest,
           Before(doc, pretty, p, k, pre, rest)
    PROVE  \E longer, more : Before(doc, pretty, p, k + 1, longer, more)
  <1>1. PICK q : /\ q = Upper(p, k) /\ q \in DOMAIN doc /\ 1 \in 1 .. Size(doc[q])
                 /\ Append(q, 1) = Upper(p, k + 1)
    <2>1. k \in 1 .. Len(p) + 1
      BY LenProperties, DocumentParts
    <2> QED  BY <2>1, WayDown
  <1>2. PICK f, more : MemberAt(doc, pretty, q, 1, rest, f, more)
    <2>1. Spelt(rest)
      BY DEF Before, Spelt
    <2> QED  BY <1>1, <2>1, MemberIn
  <1>3. f[0] = <<>> /\ more \in Seq(Token)
    BY <1>2 DEF MemberAt, Spells, Spelt
  <1>4. PICK node \in Node : node = doc[q]
    BY <1>1, DocumentParts
  <1>5. PICK s : /\ s = (<<Opening(node)>> \o <<>>) \o Lead(node, 1, pretty)
                 /\ s \in Seq(Token) /\ Unread(s)
                 /\ node.kind = "object" => \E t \in Seq(Token) : s = t \o Colon(pretty)
    BY <1>1, <1>4, NothingBefore
  <1>6. PICK below : below = Tokens(doc, pretty)[Append(q, 1)] /\ below \in Seq(Token)
    <2>1. Append(q, 1) \in DOMAIN doc
      BY <1>1, DocumentParts
    <2> QED  BY <2>1, TokensType
  <1>7. Tokens(doc, pretty)[q] \o rest = s \o (below \o more)
    <2>1. 1 - 1 = 0
      OBVIOUS
    <2> QED  BY <1>2, <1>3, <1>4, <1>5, <1>6, <2>1 DEF MemberAt
  <1>8. Tokens(doc, pretty)[<<>>] = pre \o (s \o (below \o more))
    BY <1>1, <1>7 DEF Before
  <1>9. PICK longer \in Seq(Token) : longer = pre \o s /\ Unread(longer)
    <2>1. pre \in Seq(Token) /\ Unread(pre)
      BY DEF Before
    <2>2. s \in Seq(Token) /\ Unread(s)
      BY <1>5
    <2>3. pre \o s \in Seq(Token)
      BY <2>1, <2>2, TokenSequences
    <2>4. Unread(pre \o s)
      BY <2>1, <2>2, UnreadJoin
    <2> QED  BY <2>3, <2>4
  <1>10. Tokens(doc, pretty)[<<>>] = longer \o (below \o more)
    <2>1. PICK u : u = below \o more /\ u \in Seq(Token)
      BY <1>3, <1>6, TokenSequences
    <2>2. (pre \o s) \o u = pre \o (s \o u)
      <3>1. pre \in Seq(Token) /\ s \in Seq(Token)
        BY <1>5 DEF Before
      <3> QED  BY <2>1, <3>1, TokenSequences
    <2> QED  BY <1>8, <1>9, <2>1, <2>2
  <1>11. node.kind = "object" => \E t \in Seq(Token) : longer = t \o Colon(pretty)
    <2> SUFFICES ASSUME node.kind = "object"
                 PROVE  \E t \in Seq(Token) : longer = t \o Colon(pretty)
      OBVIOUS
    <2>1. PICK t \in Seq(Token) : s = t \o Colon(pretty)
      BY <1>5
    <2>2. Colon(pretty) \in Seq(Token) /\ pre \in Seq(Token)
      BY <1>4, NodeParts DEF Before
    <2>3. PICK u \in Seq(Token) : u = pre \o t
      BY <2>1, <2>2, TokenSequences
    <2>4. (pre \o t) \o Colon(pretty) = pre \o (t \o Colon(pretty))
      BY <2>1, <2>2, TokenSequences
    <2> QED  BY <1>9, <2>1, <2>3, <2>4
  <1>12. (k + 1) - 1 = k
    OBVIOUS
  <1>13. Before(doc, pretty, p, k + 1, longer, more)
    BY <1>1, <1>3, <1>4, <1>6, <1>9, <1>10, <1>11, <1>12 DEF Before
  <1> QED  BY <1>13

(* The first value of a document, if it is a number that can be read there,*)
(* is read first.                                                          *)
LEMMA FirstFound ==
    ASSUME NEW doc, IsDocument(doc), NEW pretty \in BOOLEAN, NEW p \in DOMAIN doc,
           IsFirst(doc, p), IsNumber(doc[p]), IsMember(doc, p) \/ IsQuoted(doc[p])
    PROVE  Reads(Tokens(doc, pretty)[<<>>], ValueOf(doc[p]))
  <1>1. PICK size : size = Len(p) /\ p \in Seq(Nat \ {0})
    BY DocumentParts
  <1>0. size \in Nat
    BY <1>1, DocumentParts
  <1>2. \A k \in 1 .. size : p[k] = 1
    BY <1>1, LenProperties DEF IsFirst
  <1> DEFINE T == {k \in Nat : k <= size =>
                       \E pre, rest : Before(doc, pretty, p, k + 1, pre, rest)}
  <1>3. 0 \in T
    <2>1. Upper(p, 1) = <<>> /\ 0 + 1 = 1 /\ ~(1 > 1)
      BY WayDown
    <2>2. PICK all : all = Tokens(doc, pretty)[<<>>] /\ all \in Seq(Token)
      BY TokensType DEF IsDocument
    <2>3. PICK none \in Seq(Token) : none = <<>> /\ Unread(none)
      <3>1. <<>> \in Seq(Token) /\ Len(<<>>) = 0
        OBVIOUS
      <3>2. Unread(<<>>)
        BY <3>1 DEF Unread
      <3> QED  BY <3>1, <3>2
    <2>4. all = none \o (all \o none)
      BY <2>2, <2>3, ConcatEmptySeq
    <2>5. Before(doc, pretty, p, 1, none, none)
      BY <2>1, <2>2, <2>3, <2>4 DEF Before
    <2> QED  BY <2>1, <2>5
  <1>4. ASSUME NEW k \in Nat, k \in T
        PROVE  k + 1 \in T
    <2> SUFFICES ASSUME k + 1 <= size
                 PROVE  \E pre, rest : Before(doc, pretty, p, (k + 1) + 1, pre, rest)
      OBVIOUS
    <2>1. k <= size /\ k + 1 \in 1 .. size
      BY <1>0
    <2>2. PICK pre, rest : Before(doc, pretty, p, k + 1, pre, rest)
      BY <1>4, <2>1
    <2>3. p[k + 1] = 1 /\ k + 1 \in 1 .. Len(p)
      BY <1>1, <1>2, <2>1
    <2> QED  BY <2>2, <2>3, BeforeStep
  <1>5. Nat \subseteq T
    <2> HIDE DEF T
    <2> QED  BY <1>3, <1>4, NumberInduction
  <1>6. PICK pre, rest : Before(doc, pretty, p, size + 1, pre, rest)
    <2>1. size <= size
      BY <1>0
    <2> QED  BY <1>0, <1>5, <2>1
  <1>7. PICK token \in NumberToken :
            /\ token = doc[p].token /\ Tokens(doc, pretty)[p] = <<token>>
            /\ NumberAt(token) = ValueOf(doc[p])
    BY NumberTokens
  <1>8. Tokens(doc, pretty)[<<>>] = pre \o (<<token>> \o rest)
    <2>1. Upper(p, size + 1) = p
      BY <1>1, WayDown
    <2> QED  BY <1>6, <1>7, <2>1 DEF Before
  <1>9. token.kind = "quoted" \/ Announces(pre)
    <2>1. CASE IsQuoted(doc[p])
      BY <1>7, <2>1 DEF IsQuoted
    <2>2. CASE IsMember(doc, p)
      <3>1. size # 0 /\ doc[Upper(p, size)].kind = "object"
        <4>1. p # <<>> /\ doc[SubSeq(p, 1, Len(p) - 1)].kind = "object"
          BY <2>2 DEF IsMember, Front
        <4>2. size # 0
          BY <1>1, <4>1, EmptySeq
        <4> QED  BY <1>1, <4>1, <4>2 DEF Upper
      <3>2. size + 1 > 1 /\ (size + 1) - 1 = size
        BY <1>0, <3>1
      <3>3. PICK s \in Seq(Token) : pre = s \o Colon(pretty)
        BY <1>6, <3>1, <3>2 DEF Before
      <3> QED  BY <3>3, ColonAnnounces
    <2> QED  BY <2>1, <2>2
  <1>10. pre \in Seq(Token) /\ rest \in Seq(Token) /\ Unread(pre)
    BY <1>6 DEF Before
  <1>11. PICK json : json = Tokens(doc, pretty)[<<>>]
    OBVIOUS
  <1>12. Reads(json, NumberAt(token))
    BY <1>8, <1>9, <1>10, <1>11, NumberFound
  <1> QED  BY <1>7, <1>11, <1>12

-----------------------------------------------------------------------------
(* What is left of a path                                                  *)

(* A slice from which what is left of a path leads to a number: the path   *)
(* is at its end and the number is read next, or it is one that leads to a *)
(* quoted number, and the slice begins at the place it has come to.        *)
OnTheWay(doc, pretty, left, json, v) ==
    \/ left = <<>> /\ Reads(json, v)
    \/ \E path \in Seq(Segment) : \E p \in PlacesAt(doc, path), k \in DOMAIN path :
           /\ Clear(doc, pretty, path)
           /\ IsNumber(doc[p]) /\ IsQuoted(doc[p]) /\ v = ValueOf(doc[p])
           /\ left = SubSeq(path, k, Len(path))
           /\ \E rest : Spelt(rest) /\ json = Tokens(doc, pretty)[Upper(p, k)] \o rest

(* What is left of a path from its k-th segment on.                        *)
LEMMA PathLeft ==
    ASSUME NEW path \in Seq(Segment), NEW k \in DOMAIN path
    PROVE  /\ SubSeq(path, k, Len(path)) # <<>>
           /\ Head(SubSeq(path, k, Len(path))) = path[k]
           /\ Tail(SubSeq(path, k, Len(path))) =
                  IF k + 1 \in DOMAIN path THEN SubSeq(path, k + 1, Len(path)) ELSE <<>>
           /\ k + 1 \notin DOMAIN path => k = Len(path)
  <1>1. PICK size : size = Len(path) /\ size \in Nat /\ DOMAIN path = 1 .. size
    BY LenProperties
  <1>0. size \in Nat /\ k \in 1 .. size
    BY <1>1
  <1>2. PICK m \in Nat, w \in Nat : k = m + 1 /\ size = m + w /\ w # 0
    <2>1. k - 1 \in Nat /\ size - (k - 1) \in Nat /\ size - (k - 1) # 0
          /\ k = (k - 1) + 1 /\ size = (k - 1) + (size - (k - 1))
      BY <1>0
    <2> QED  BY <2>1
  <1>3. PICK left \in Seq(Segment) :
            /\ left = SubSeq(path, k, size) /\ Len(left) = w
            /\ \A n \in 1 .. w : left[n] = path[m + n]
    <2>1. m + w <= Len(path)
      BY <1>1, <1>2
    <2>2. /\ SubSeq(path, m + 1, m + w) \in Seq(Segment) /\ Len(SubSeq(path, m + 1, m + w)) = w
          /\ \A n \in 1 .. w : SubSeq(path, m + 1, m + w)[n] = path[m + n]
      BY <1>2, <2>1, Slice
    <2>3. SubSeq(path, m + 1, m + w) = SubSeq(path, k, size)
      BY <1>2
    <2> QED  BY <2>2, <2>3
  <1>4. left # <<>> /\ Head(left) = path[k]
    <2>1. 1 \in 1 .. w
      BY <1>2
    <2>2. left # <<>>
      BY <1>2, <1>3, EmptySeq
    <2>3. Head(left) = left[1]
      BY <2>2, HeadTailProperties
    <2> QED  BY <1>2, <1>3, <2>1, <2>2, <2>3
  <1>5. PICK tail \in Seq(Segment) :
            tail = Tail(left) /\ Len(tail) = w - 1 /\ \A n \in 1 .. w - 1 : tail[n] = left[n + 1]
    <2>1. /\ Tail(left) \in Seq(Segment) /\ Len(Tail(left)) = Len(left) - 1
          /\ \A n \in 1 .. Len(Tail(left)) : Tail(left)[n] = left[n + 1]
      BY <1>3, <1>4, HeadTailProperties
    <2> QED  BY <1>3, <2>1
  <1>6. CASE k + 1 \in DOMAIN path
    <2>1. PICK v \in Nat : v = w - 1 /\ size = (m + 1) + v /\ k + 1 = (m + 1) + 1 /\ v + 1 = w
      BY <1>2
    <2>2. PICK next \in Seq(Segment) :
              /\ next = SubSeq(path, k + 1, size) /\ Len(next) = v
              /\ \A n \in 1 .. v : next[n] = path[(m + 1) + n]
      <3>1. (m + 1) + v <= Len(path) /\ m + 1 \in Nat
        BY <1>1, <1>2, <2>1
      <3>2. PICK a \in Nat : a = m + 1 /\ a + v <= Len(path)
        BY <3>1
      <3>3. /\ SubSeq(path, a + 1, a + v) \in Seq(Segment) /\ Len(SubSeq(path, a + 1, a + v)) = v
            /\ \A n \in 1 .. v : SubSeq(path, a + 1, a + v)[n] = path[a + n]
        BY <2>1, <3>2, Slice
      <3>4. SubSeq(path, a + 1, a + v) = SubSeq(path, k + 1, size)
        BY <2>1, <3>2
      <3> QED  BY <3>2, <3>3, <3>4
    <2>3. ASSUME NEW n \in 1 .. v
          PROVE  tail[n] = next[n]
      <3>1. n + 1 \in 1 .. w /\ n \in 1 .. w - 1 /\ m + (n + 1) = (m + 1) + n
        BY <2>1
      <3> QED  BY <1>3, <1>5, <2>2, <3>1
    <2>4. tail = next
      BY <1>5, <2>1, <2>2, <2>3, SeqEqual
    <2> QED  BY <1>1, <1>3, <1>4, <1>5, <1>6, <2>2, <2>4
  <1>7. CASE k + 1 \notin DOMAIN path
    <2>1. k = size /\ w = 1
      BY <1>1, <1>2, <1>7
    <2>2. tail = <<>>
      BY <1>5, <2>1, EmptySeq
    <2> QED  BY <1>1, <1>3, <1>4, <1>5, <1>7, <2>1, <2>2
  <1> QED  BY <1>6, <1>7

(* The way to a quoted number begins at the document.                      *)
LEMMA WayBegins ==
    ASSUME NEW doc, IsDocument(doc), NEW pretty \in BOOLEAN, NEW path \in Seq(Segment),
           path # <<>>, Clear(doc, pretty, path), NEW p \in PlacesAt(doc, path),
           IsNumber(doc[p]), IsQuoted(doc[p])
    PROVE  OnTheWay(doc, pretty, path, Tokens(doc, pretty)[<<>>], ValueOf(doc[p]))
  <1>1. 1 \in DOMAIN path
    BY EmptySeq, LenProperties
  <1>2. path = SubSeq(path, 1, Len(path))
    OBVIOUS
  <1>3. p \in DOMAIN doc
    BY DEF PlacesAt
  <1>4. Upper(p, 1) = <<>>
    BY <1>3, WayDown
  <1>5. PICK rest : rest = <<>> /\ Spelt(rest)
    <2>1. <<>> \in Seq(Token)
      OBVIOUS
    <2> QED  BY <2>1 DEF Spelt
  <1>6. PICK all : all = Tokens(doc, pretty)[<<>>] /\ all \in Seq(Token)
    BY TokensType DEF IsDocument
  <1>7. all = all \o rest
    BY <1>5, <1>6, ConcatEmptySeq
  <1> QED  BY <1>1, <1>2, <1>4, <1>5, <1>6, <1>7 DEF OnTheWay

(* At the end of a path the number is read.                                *)
LEMMA WayEnds ==
    ASSUME NEW doc, NEW pretty, NEW json, NEW v, OnTheWay(doc, pretty, <<>>, json, v)
    PROVE  Reads(json, v)
  BY PathLeft DEF OnTheWay

(* The scans lead from one slice to the next.                              *)
LEMMA WayOn ==
    ASSUME NEW doc, IsDocument(doc), NEW pretty \in BOOLEAN, NEW left, left # <<>>, NEW json, NEW v,
           OnTheWay(doc, pretty, left, json, v)
    PROVE  \E value : /\ Leads(json, Head(left), value)
                      /\ OnTheWay(doc, pretty, Tail(left), value, v)
  <1>1. PICK path \in Seq(Segment) : \E p \in PlacesAt(doc, path), k \in DOMAIN path :
           /\ Clear(doc, pretty, path)
           /\ IsNumber(doc[p]) /\ IsQuoted(doc[p]) /\ v = ValueOf(doc[p])
           /\ left = SubSeq(path, k, Len(path))
           /\ \E rest : Spelt(rest) /\ json = Tokens(doc, pretty)[Upper(p, k)] \o rest
    BY DEF OnTheWay
  <1>2. PICK p \in PlacesAt(doc, path), k \in DOMAIN path :
           /\ Clear(doc, pretty, path)
           /\ IsNumber(doc[p]) /\ IsQuoted(doc[p]) /\ v = ValueOf(doc[p])
           /\ left = SubSeq(path, k, Len(path))
           /\ \E rest : Spelt(rest) /\ json = Tokens(doc, pretty)[Upper(p, k)] \o rest
    BY <1>1
  <1>3. PICK rest : Spelt(rest) /\ json = Tokens(doc, pretty)[Upper(p, k)] \o rest
    BY <1>2
  <1>4. PICK more : /\ Spelt(more)
                    /\ Leads(Tokens(doc, pretty)[Upper(p, k)] \o rest, path[k],
                             Tokens(doc, pretty)[Upper(p, k + 1)] \o more)
    BY <1>2, <1>3, StepDown
  <1>5. PICK value : value = Tokens(doc, pretty)[Upper(p, k + 1)] \o more
    OBVIOUS
  <1>6. Leads(json, Head(left), value)
    BY <1>2, <1>3, <1>4, <1>5, PathLeft
  <1>7. CASE k + 1 \in DOMAIN path
    <2>1. Tail(left) = SubSeq(path, k + 1, Len(path))
      BY <1>2, <1>7, PathLeft
    <2>2. OnTheWay(doc, pretty, Tail(left), value, v)
      BY <1>2, <1>4, <1>5, <1>7, <2>1 DEF OnTheWay
    <2> QED  BY <1>6, <2>2
  <1>8. CASE k + 1 \notin DOMAIN path
    <2>1. Tail(left) = <<>> /\ k = Len(path)
      BY <1>2, <1>8, PathLeft
    <2>2. p \in DOMAIN doc /\ Len(p) = Len(path)
      BY <1>2 DEF PlacesAt
    <2>3. Upper(p, k + 1) = p
      BY <2>1, <2>2, WayDown
    <2>4. Reads(value, v)
      BY <1>2, <1>4, <1>5, <2>2, <2>3, QuotedFound
    <2> QED  BY <1>6, <2>1, <2>4 DEF OnTheWay
  <1> QED  BY <1>7, <1>8

-----------------------------------------------------------------------------
(* The run of the guest                                                    *)

Ahead(left, json, v) == OnTheWay(input.doc, input.pretty, left, json, v)

(* Every path of the question leads to a number: w are the numbers.        *)
Expects(w) ==
    LET sought == PathsOf(input.json_path.parts)
    IN  /\ input.comparison \in 0 .. 3
        /\ ~(input.comparison = 3 /\ Len(input.json_path.parts) = 1)
        /\ \/ \E a, v : /\ sought = <<a>> /\ w = <<v>>
                        /\ Ahead(a, Body(input.response), v)
           \/ \E a, b, u, v : /\ sought = <<a, b>> /\ w = <<u, v>>
                              /\ Ahead(a, Body(input.response), u)
                              /\ Ahead(b, Body(input.response), v)

(* The inductive invariant: the guest is on its way to the first number or *)
(* has it and is on its way to the second, until it has them all.          *)
Progress(w) ==
    /\ pc # "panicked"
    /\ pc = "start" => values = <<>>
    /\ pc = "extracting" =>
           \/ \E v : /\ w = <<v>> /\ values = <<>> /\ paths = <<>>
                     /\ Ahead(segments, current, v)
           \/ \E b, u, v : /\ w = <<u, v>> /\ values = <<>> /\ paths = <<b>>
                           /\ Ahead(segments, current, u)
                           /\ Ahead(b, Body(input.response), v)
           \/ \E u, v : /\ w = <<u, v>> /\ values = <<u>> /\ paths = <<>>
                        /\ Ahead(segments, current, v)
    /\ pc \in {"comparing", "done"} => values = w

ReadInv == \A w : Expects(w) => Progress(w)

(* At the beginning nothing is read.                                       *)
LEMMA ReadInit == Init => ReadInv
  BY DEF Init, ReadInv, Progress

(* What is expected depends on the input alone.                            *)
LEMMA SameExpectation ==
    ASSUME input' = input, NEW w
    PROVE  Expects(w)' <=> Expects(w)
  BY DEF Expects, PathsOf, Ahead

(* The lists of paths and values, one by one.                              *)
LEMMA ListsOfOne ==
    /\ \A a : Head(<<a>>) = a /\ Tail(<<a>>) = <<>> /\ <<a>> # <<>>
    /\ \A a, b : Head(<<a, b>>) = a /\ Tail(<<a, b>>) = <<b>>
    /\ \A a : Append(<<>>, a) = <<a>>
    /\ \A a, b : Append(<<a>>, b) = <<a, b>>
  <1>1. ASSUME NEW a
        PROVE  Head(<<a>>) = a /\ Tail(<<a>>) = <<>> /\ <<a>> # <<>> /\ Append(<<>>, a) = <<a>>
    <2>1. Head(<<a>>) = a
      OBVIOUS
    <2>2. Tail(<<a>>) = <<>>
      OBVIOUS
    <2>3. <<a>> # <<>>
      OBVIOUS
    <2>4. Append(<<>>, a) = <<a>>
      OBVIOUS
    <2> QED  BY <2>1, <2>2, <2>3, <2>4
  <1>2. ASSUME NEW a, NEW b
        PROVE  Head(<<a, b>>) = a /\ Tail(<<a, b>>) = <<b>> /\ Append(<<a>>, b) = <<a, b>>
    <2>1. Head(<<a, b>>) = a
      OBVIOUS
    <2>2. Tail(<<a, b>>) = <<b>>
      OBVIOUS
    <2>3. Append(<<a>>, b) = <<a, b>>
      <3>1. PICK S : a \in S /\ b \in S
        <4>1. a \in {a, b} /\ b \in {a, b}
          OBVIOUS
        <4> QED  BY <4>1
      <3>2. <<a>> \in Seq(S)
        BY <3>1, ShortSequences
      <3>3. Append(<<a>>, b) = <<a>> \o <<b>>
        BY <3>1, <3>2, AppendIsConcat
      <3> QED  BY <3>3, PutBefore
    <2> QED  BY <2>1, <2>2, <2>3
  <1> QED  BY <1>1, <1>2

(* A scan that leads on leaves the guest on its way.                       *)
LEMMA ScanStep ==
    ASSUME IsDocument(input.doc), input.pretty \in BOOLEAN, input' = input,
           NEW w, Progress(w), pc = "extracting", segments # <<>>,
           NEW slice, pc' = "extracting", paths' = paths, values' = values,
           segments' = Tail(segments), current' = slice,
           \A value : Leads(current, Head(segments), value) => slice = value
    PROVE  Progress(w)'
  <1>1. ASSUME NEW v, Ahead(segments, current, v)
        PROVE  Ahead(segments, current, v)'
    <2>1. PICK value : /\ Leads(current, Head(segments), value)
                       /\ OnTheWay(input.doc, input.pretty, Tail(segments), value, v)
      BY <1>1, WayOn DEF Ahead
    <2>2. OnTheWay(input'.doc, input'.pretty, segments', current', v)
      BY <2>1
    <2> QED  BY <2>2 DEF Ahead
  <1>2. ASSUME NEW b, NEW v, Ahead(b, Body(input.response), v)
        PROVE  Ahead(b, Body(input.response), v)'
    BY <1>2 DEF Ahead
  <1>3. CASE \E v : /\ w = <<v>> /\ values = <<>> /\ paths = <<>>
                    /\ Ahead(segments, current, v)
    BY <1>1, <1>3 DEF Progress
  <1>4. CASE \E b, u, v : /\ w = <<u, v>> /\ values = <<>> /\ paths = <<b>>
                          /\ Ahead(segments, current, u)
                          /\ Ahead(b, Body(input.response), v)
    BY <1>1, <1>2, <1>4 DEF Progress
  <1>5. CASE \E u, v : /\ w = <<u, v>> /\ values = <<u>> /\ paths = <<>>
                       /\ Ahead(segments, current, v)
    BY <1>1, <1>5 DEF Progress
  <1> QED  BY <1>3, <1>4, <1>5 DEF Progress

(* A step stays on the way.                                                *)
LEMMA ReadStep ==
    ASSUME IsDocument(input.doc), input.pretty \in BOOLEAN, ReadInv, [Next]_vars
    PROVE  ReadInv'
  <1>1. input' = input
    BY DEF Next, vars, Start, NavigateToKey, NavigateToElement, ExtractNumber, Commit
  <1> SUFFICES ASSUME NEW w, Expects(w) PROVE Progress(w)'
    BY <1>1, SameExpectation DEF ReadInv
  <1>2. Progress(w)
    BY DEF ReadInv
  <1>3. CASE Start
    <2>1. pc = "start" /\ values = <<>> /\ values' = <<>>
      BY <1>2, <1>3 DEF Start, Progress
    <2>2. ~(input.comparison = 3 /\ Len(input.json_path.parts) = 1)
      BY DEF Expects
    <2>3. /\ pc' = "extracting" /\ paths' = Tail(PathsOf(input.json_path.parts))
          /\ segments' = Head(PathsOf(input.json_path.parts))
          /\ current' = Body(input.response)
      BY <1>3, <2>2 DEF Start, GoTo
    <2>4. ASSUME NEW left, NEW v, Ahead(left, Body(input.response), v)
          PROVE  Ahead(left, Body(input.response), v)'
      BY <1>1, <2>4 DEF Ahead
    <2>5. ASSUME NEW a, NEW v, PathsOf(input.json_path.parts) = <<a>>, w = <<v>>,
                 Ahead(a, Body(input.response), v)
          PROVE  Progress(w)'
      <3>1. paths' = <<>> /\ segments' = a
        BY <2>3, <2>5, ListsOfOne
      <3>2. Ahead(segments, current, v)'
        BY <1>1, <2>3, <2>5, <3>1 DEF Ahead
      <3> QED  BY <2>1, <2>3, <2>5, <3>1, <3>2 DEF Progress
    <2>6. ASSUME NEW a, NEW b, NEW u, NEW v, PathsOf(input.json_path.parts) = <<a, b>>,
                 w = <<u, v>>, Ahead(a, Body(input.response), u),
                 Ahead(b, Body(input.response), v)
          PROVE  Progress(w)'
      <3>1. paths' = <<b>> /\ segments' = a
        BY <2>3, <2>6, ListsOfOne
      <3>2. Ahead(segments, current, u)'
        BY <1>1, <2>3, <2>6, <3>1 DEF Ahead
      <3>3. Ahead(b, Body(input.response), v)'
        BY <2>4, <2>6
      <3> QED  BY <2>1, <2>3, <2>6, <3>1, <3>2, <3>3 DEF Progress
    <2> QED  BY <2>5, <2>6 DEF Expects
  <1>4. ASSUME pc = "extracting", segments # <<>>
        PROVE  \E value : Leads(current, Head(segments), value)
    <2>1. PICK v : Ahead(segments, current, v)
      BY <1>2, <1>4 DEF Progress
    <2>2. OnTheWay(input.doc, input.pretty, segments, current, v)
      BY <2>1 DEF Ahead
    <2> QED  BY <1>4, <2>2, WayOn
  <1>5. CASE NavigateToKey
    <2>1. pc = "extracting" /\ segments # <<>> /\ Head(segments).kind = "key"
      BY <1>5 DEF NavigateToKey
    <2>2. \A value : Leads(current, Head(segments), value) =>
              /\ KeysIn(current, Head(segments).name) # {}
              /\ AfterKey(current, Head(segments).name) = value
      BY <2>1 DEF Leads, ReachesKey
    <2>3. KeysIn(current, Head(segments).name) # {}
      BY <1>4, <2>1, <2>2
    <2>4. Navigate(AfterKey(current, Head(segments).name))
      BY <1>5, <2>3 DEF NavigateToKey
    <2>5. /\ pc' = "extracting" /\ paths' = paths /\ values' = values
          /\ segments' = Tail(segments)
          /\ current' = AfterKey(current, Head(segments).name)
      BY <2>1, <2>4 DEF Navigate
    <2> QED  BY <1>1, <1>2, <2>1, <2>2, <2>5, ScanStep
  <1>6. CASE NavigateToElement
    <2>1. pc = "extracting" /\ segments # <<>> /\ Head(segments).kind = "index"
      BY <1>6 DEF NavigateToElement
    <2>2. \A value : Leads(current, Head(segments), value) =>
              /\ Arrays(current) # {}
              /\ Element(current, Head(segments).index) = value
      BY <2>1 DEF Leads, ReachesItem
    <2>3. Arrays(current) # {}
      BY <1>4, <2>1, <2>2
    <2>4. Navigate(Element(current, Head(segments).index))
      BY <1>6, <2>3 DEF NavigateToElement
    <2>5. /\ pc' = "extracting" /\ paths' = paths /\ values' = values
          /\ segments' = Tail(segments)
          /\ current' = Element(current, Head(segments).index)
      BY <2>1, <2>4 DEF Navigate
    <2> QED  BY <1>1, <1>2, <2>1, <2>2, <2>5, ScanStep
  <1>7. CASE ExtractNumber
    <2>1. pc = "extracting" /\ segments = <<>>
      BY <1>7 DEF ExtractNumber
    <2>2. ASSUME NEW v, Ahead(segments, current, v)
          PROVE  Numbers(current) # {} /\ values' = Append(values, v)
      <3>1. Reads(current, v)
        BY <2>1, <2>2, WayEnds DEF Ahead
      <3> QED  BY <1>7, <3>1 DEF ExtractNumber, Reads
    <2>3. CASE \E v : /\ w = <<v>> /\ values = <<>> /\ paths = <<>>
                      /\ Ahead(segments, current, v)
      <3>1. PICK v : /\ w = <<v>> /\ values = <<>> /\ paths = <<>>
                     /\ Ahead(segments, current, v)
        BY <2>3
      <3>2. values' = w /\ Numbers(current) # {}
        BY <2>2, <3>1, ListsOfOne
      <3>3. pc' = "comparing"
        BY <1>7, <3>1, <3>2 DEF ExtractNumber, GoTo
      <3> QED  BY <3>2, <3>3 DEF Progress
    <2>4. CASE \E b, u, v : /\ w = <<u, v>> /\ values = <<>> /\ paths = <<b>>
                            /\ Ahead(segments, current, u)
                            /\ Ahead(b, Body(input.response), v)
      <3>1. PICK b, u, v : /\ w = <<u, v>> /\ values = <<>> /\ paths = <<b>>
                           /\ Ahead(segments, current, u)
                           /\ Ahead(b, Body(input.response), v)
        BY <2>4
      <3>2. values' = <<u>> /\ Numbers(current) # {}
        BY <2>2, <3>1, ListsOfOne
      <3>3. /\ pc' = "extracting" /\ paths' = <<>> /\ segments' = b
            /\ current' = Body(input.response)
        <4>1. paths # <<>> /\ Head(paths) = b /\ Tail(paths) = <<>>
          BY <3>1, ListsOfOne
        <4> QED  BY <1>7, <2>1, <3>2, <4>1 DEF ExtractNumber, GoTo
      <3>4. Ahead(segments, current, v)'
        BY <1>1, <3>1, <3>3 DEF Ahead
      <3> QED  BY <3>1, <3>2, <3>3, <3>4 DEF Progress
    <2>5. CASE \E u, v : /\ w = <<u, v>> /\ values = <<u>> /\ paths = <<>>
                         /\ Ahead(segments, current, v)
      <3>1. PICK u, v : /\ w = <<u, v>> /\ values = <<u>> /\ paths = <<>>
                        /\ Ahead(segments, current, v)
        BY <2>5
      <3>2. values' = w /\ Numbers(current) # {}
        BY <2>2, <3>1, ListsOfOne
      <3>3. pc' = "comparing"
        BY <1>7, <3>1, <3>2 DEF ExtractNumber, GoTo
      <3> QED  BY <3>2, <3>3 DEF Progress
    <2> QED  BY <1>2, <2>1, <2>3, <2>4, <2>5 DEF Progress
  <1>8. CASE Commit
    <2>1. /\ pc = "comparing" /\ pc' = "done" /\ values' = values
      BY <1>8 DEF Commit, GoTo, Expects
    <2> QED  BY <1>2, <2>1 DEF Progress
  <1>9. CASE UNCHANGED vars
    BY <1>2, <1>9 DEF Progress, Ahead, vars
  <1> QED  BY <1>3, <1>5, <1>6, <1>7, <1>8, <1>9 DEF Next

(* What the guest was given.                                               *)
LEMMA DocumentRead ==
    ASSUME GuestInv
    PROVE  /\ IsDocument(input.doc) /\ input.pretty \in BOOLEAN
           /\ Body(input.response) = Tokens(input.doc, input.pretty)[<<>>]
           /\ input.json_path.parts \in Seq(Seq(Segment))
  <1>1. /\ IsDocument(input.doc) /\ input.pretty \in BOOLEAN
        /\ input.response = Response(input.doc, input.pretty)
    BY DocumentAssumption DEF GuestInv
  <1>2. input.json_path.parts \in Seq(Seq(Segment))
    BY InputsAssumption DEF GuestInv
  <1> QED  BY <1>1, <1>2, BodyIsDocument

(* Where every path leads to a number, the guest reads these and no others,*)
(* and does not panic (main.rs:108-228).                                   *)
THEOREM ReadsWhatIsThere == Spec => [](GuestInv /\ ReadInv)
  <1>1. GuestInv /\ ReadInv /\ [Next]_vars => ReadInv'
    BY DocumentRead, ReadStep
  <1> QED  BY <1>1, ReadInit, GuestInit, GuestStep, PTL DEF Spec

-----------------------------------------------------------------------------
(* The outcome                                                             *)

(* With the right numbers, the outcome that can be read is the right one.  *)
LEMMA RightOutcome ==
    ASSUME GuestInv, ReadInv, Ended, Legible, NEW w, Expects(w)
    PROVE  Decided(w)
  <1>1. pc = "done" /\ values = w
    BY DEF ReadInv, Progress, Ended
  <1>2. input.comparison \in 0 .. 3
    BY DEF Expects
  <1>3. /\ committed = Committed(input.output, Fields(w)) /\ Fields(w) \in FieldsType
        /\ input.output \in Seq(Byte)
    <2>1. Fields(values) \in FieldsType
      BY <1>1, FieldsOfGuest
    <2> QED  BY <1>1, <2>1, InputsAssumption DEF GuestInv
  <1>4. Readable(input.output, Fields(w))
    BY DEF Legible, Readable, Fields
  <1>5. WellFormed(committed) /\ Parsed(committed) = Fields(w)
    BY <1>3, <1>4, CodecCorrect
  <1>6. Fields(w).outcome = IF Answer(w) THEN 1 ELSE 0
    BY DEF Fields
  <1>7. Answer(w) <=> Truth(w)
    <2>1. CASE input.comparison = 0
      BY <2>1 DEF Answer, Truth, HeadToHead
    <2>2. CASE input.comparison = 1
      BY <2>2 DEF Answer, Truth, HeadToHead
    <2>3. CASE input.comparison = 2
      BY <2>3 DEF Answer, Truth, HeadToHead
    <2>4. CASE input.comparison = 3
      BY <2>4 DEF Answer, Truth, HeadToHead, FirstGreater
    <2>5. \/ input.comparison = 0 \/ input.comparison = 1
          \/ input.comparison = 2 \/ input.comparison = 3
      BY <1>2
    <2> QED  BY <2>1, <2>2, <2>3, <2>4, <2>5
  <1> QED  BY <1>1, <1>5, <1>6, <1>7 DEF Decided

(* A quoted number at the end of a path is what it leads to.               *)
LEMMA QuotedExpected ==
    ASSUME GuestInv, NEW n \in DOMAIN input.json_path.parts,
           input.json_path.parts[n] # <<>>,
           Clear(input.doc, input.pretty, input.json_path.parts[n]),
           \E p \in PlacesAt(input.doc, input.json_path.parts[n]) :
               IsNumber(input.doc[p]) /\ IsQuoted(input.doc[p])
    PROVE  Ahead(input.json_path.parts[n], Body(input.response),
                 ValueOf(input.doc[CHOOSE p \in PlacesAt(input.doc, input.json_path.parts[n]) : TRUE]))
  <1>1. PICK path \in Seq(Segment) : path = input.json_path.parts[n]
    BY DocumentRead
  <1>2. PICK p \in PlacesAt(input.doc, path) : IsNumber(input.doc[p]) /\ IsQuoted(input.doc[p])
    BY <1>1
  <1>3. PICK doc, pretty : /\ doc = input.doc /\ pretty = input.pretty /\ IsDocument(doc)
                           /\ pretty \in BOOLEAN
                           /\ Body(input.response) = Tokens(doc, pretty)[<<>>]
    BY DocumentRead
  <1>4. PICK r : r = CHOOSE q \in PlacesAt(doc, path) : TRUE
    OBVIOUS
  <1>5. r \in PlacesAt(doc, path)
    BY <1>2, <1>3, <1>4
  <1>6. Clear(doc, pretty, path) /\ path # <<>>
    BY <1>1, <1>3
  <1>7. r = p
    BY <1>2, <1>3, <1>5, <1>6, PlaceUnique
  <1>8. OnTheWay(doc, pretty, path, Tokens(doc, pretty)[<<>>], ValueOf(doc[p]))
    BY <1>2, <1>3, <1>6, WayBegins
  <1> QED  BY <1>1, <1>3, <1>4, <1>7, <1>8 DEF Ahead

(* For every document, every place in it and all that stands around it: a  *)
(* path that leads to a quoted number without an earlier string in the way *)
(* is decided by that number (main.rs:119-228).                            *)
THEOREM QuotedDecided == Spec => []QuotedValueDecides
  <1>1. GuestInv /\ ReadInv => QuotedValueDecides
    <2> DEFINE parts == input.json_path.parts
               found(n) == PlacesAt(input.doc, parts[n])
               right(n) == \E p \in found(n) : IsNumber(input.doc[p]) /\ IsQuoted(input.doc[p])
               sought(n) == ValueOf(input.doc[CHOOSE p \in found(n) : TRUE])
               w == [n \in DOMAIN parts |-> sought(n)]
    <2> SUFFICES ASSUME GuestInv, ReadInv, Ended, Asked(parts), Legible,
                        \A n \in DOMAIN parts : Clear(input.doc, input.pretty, parts[n]) /\ right(n)
                 PROVE  Decided(w)
      BY DEF QuotedValueDecides
    <2>1. parts \in Seq(Seq(Segment))
      BY DocumentRead
    <2>2. ASSUME NEW n \in DOMAIN parts
          PROVE  Ahead(parts[n], Body(input.response), sought(n))
      BY <2>2, QuotedExpected DEF Asked
    <2>3. CASE HeadToHead
      <3>1. Len(parts) = 2
        BY <2>3 DEF Asked
      <3>2. DOMAIN parts = 1 .. 2
        BY <2>1, <3>1
      <3>3. parts[1] # <<>> /\ parts[2] # <<>>
        BY <3>2 DEF Asked
      <3>4. PathsOf(parts) = <<parts[1], parts[2]>>
        BY <2>3, <3>3 DEF PathsOf, TwoPaths, HeadToHead
      <3>5. w = <<sought(1), sought(2)>>
        <4> HIDE DEF sought, parts
        <4> QED  BY <3>2
      <3>6. Expects(w)
        <4>1. Ahead(parts[1], Body(input.response), sought(1))
              /\ Ahead(parts[2], Body(input.response), sought(2))
          BY <2>2, <3>2
        <4> HIDE DEF sought, w
        <4> QED  BY <3>1, <3>4, <3>5, <4>1 DEF Expects, Asked
      <3> HIDE DEF w
      <3> QED  BY <3>6, RightOutcome
    <2>4. CASE ~HeadToHead
      <3>1. Len(parts) = 1 /\ input.comparison # 3
        BY <2>4 DEF Asked, HeadToHead
      <3>2. DOMAIN parts = 1 .. 1
        BY <2>1, <3>1
      <3>3. PathsOf(parts) = <<parts[1]>>
        BY <3>1 DEF PathsOf, OnePath
      <3>4. w = <<sought(1)>>
        <4> HIDE DEF sought, parts
        <4> QED  BY <3>2
      <3>5. Expects(w)
        <4>1. Ahead(parts[1], Body(input.response), sought(1))
          BY <2>2, <3>2
        <4> HIDE DEF sought, w
        <4> QED  BY <3>1, <3>3, <3>4, <4>1 DEF Expects, Asked
      <3> HIDE DEF w
      <3> QED  BY <3>5, RightOutcome
    <2> QED  BY <2>3, <2>4
  <1> QED  BY <1>1, ReadsWhatIsThere, PTL

(* For every document whose first value is a quoted number or a member     *)
(* that is a number, an empty path is decided by it, whatever names,       *)
(* openings and headers stand before it (main.rs:108-117, 234-271).        *)
THEOREM FirstDecided == Spec => []FirstNumberDecides
  <1>1. GuestInv /\ ReadInv => FirstNumberDecides
    <2> SUFFICES ASSUME GuestInv, ReadInv, NEW p \in DOMAIN input.doc, Ended,
                        input.comparison \in 0 .. 2, Legible,
                        input.json_path.parts = <<<<>>>>,
                        IsFirst(input.doc, p), IsNumber(input.doc[p]),
                        IsMember(input.doc, p) \/ IsQuoted(input.doc[p])
                 PROVE  Decided(<<ValueOf(input.doc[p])>>)
      BY DEF FirstNumberDecides
    <2>1. PICK v : v = ValueOf(input.doc[p])
      OBVIOUS
    <2>2. Reads(Body(input.response), v)
      BY <2>1, DocumentRead, FirstFound
    <2>3. Ahead(<<>>, Body(input.response), v)
      BY <2>2 DEF Ahead, OnTheWay
    <2>4. PathsOf(input.json_path.parts) = <<<<>>>> /\ input.comparison # 3
      <3>1. input.comparison # 3
        OBVIOUS
      <3>2. PICK path : path = <<>> /\ input.json_path.parts = <<path>>
        OBVIOUS
      <3>3. Len(<<path>>) = 1 /\ <<path>>[1] = path
        OBVIOUS
      <3> QED  BY <3>1, <3>2, <3>3 DEF PathsOf, OnePath
    <2>5. input.comparison \in 0 .. 3
      OBVIOUS
    <2>6. Expects(<<v>>)
      BY <2>3, <2>4, <2>5 DEF Expects
    <2> QED  BY <2>1, <2>6, RightOutcome
  <1> QED  BY <1>1, ReadsWhatIsThere, PTL

===============================================================================
