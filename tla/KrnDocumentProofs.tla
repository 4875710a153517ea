-------------------------- MODULE KrnDocumentProofs --------------------------
(***************************************************************************)
(* JSON documents of any depth and any width, as the tokens a server sends *)
(* for them, and what the guest's scans find in these tokens: the body of  *)
(* the response, and the member or item the next segment of a path is for. *)
(***************************************************************************)
EXTENDS KrnExtraction, InductionLemmas, SequenceTheorems

-----------------------------------------------------------------------------
(* Pieces of a sequence                                                    *)

(* s begins with p.                                                        *)
Begins(s, p) == Len(p) <= Len(s) /\ \A n \in 1 .. Len(p) : s[n] = p[n]

(* If s begins with p and then q, then q is found in s behind p.           *)
LEMMA PieceOf ==
    ASSUME NEW S, NEW s \in Seq(S), NEW p \in Seq(S), NEW q \in Seq(S), Begins(s, p \o q)
    PROVE  /\ Begins(s, p)
           /\ \A n \in 1 .. Len(q) : s[Len(p) + n] = q[n]
           /\ SubSeq(s, Len(p) + 1, Len(p) + Len(q)) = q
           /\ p \o q \in Seq(S) /\ Len(p \o q) = Len(p) + Len(q)
  <1>1. /\ p \o q \in Seq(S) /\ Len(p \o q) = Len(p) + Len(q)
        /\ \A n \in 1 .. Len(p) : (p \o q)[n] = p[n]
        /\ \A n \in 1 .. Len(q) : (p \o q)[Len(p) + n] = q[n]
        /\ Len(p) \in Nat /\ Len(q) \in Nat /\ Len(s) \in Nat
    OBVIOUS
  <1>2. Begins(s, p)
    BY <1>1 DEF Begins
  <1>3. \A n \in 1 .. Len(q) : s[Len(p) + n] = q[n]
    <2>1. ASSUME NEW n \in 1 .. Len(q)
          PROVE  s[Len(p) + n] = q[n]
      <3>1. Len(p) + n \in 1 .. Len(p \o q)
        BY <1>1
      <3> QED  BY <1>1, <3>1 DEF Begins
    <2> QED  BY <2>1
  <1>4. SubSeq(s, Len(p) + 1, Len(p) + Len(q)) = q
    <2> DEFINE part == SubSeq(s, Len(p) + 1, Len(p) + Len(q))
    <2>1. Len(p) + Len(q) <= Len(s)
      BY <1>1 DEF Begins
    <2>2. Len(p) + 1 \in 1 .. Len(s) + 1 /\ Len(p) + Len(q) \in Len(p) .. Len(s)
      BY <1>1, <2>1
    <2>3. part \in Seq(S) /\ Len(part) = Len(q)
          /\ \A n \in 1 .. Len(q) : part[n] = s[Len(p) + n]
      BY <1>1, <2>1
    <2> HIDE DEF part
    <2>4. part = q
      BY <1>1, <1>3, <2>3, SeqEqual
    <2> QED  BY <2>4 DEF part
  <1> QED  BY <1>1, <1>2, <1>3, <1>4

(* A part of a sequence.                                                   *)
LEMMA Slice ==
    ASSUME NEW S, NEW s \in Seq(S), NEW m \in Nat, NEW w \in Nat, m + w <= Len(s)
    PROVE  /\ SubSeq(s, m + 1, m + w) \in Seq(S) /\ Len(SubSeq(s, m + 1, m + w)) = w
           /\ \A n \in 1 .. w : SubSeq(s, m + 1, m + w)[n] = s[m + n]
  OBVIOUS

(* What lies in q lies in p \o q, shifted.                                  *)
LEMMA Shifted ==
    ASSUME NEW S, NEW p \in Seq(S), NEW q \in Seq(S)
    PROVE  /\ p \o q \in Seq(S) /\ Begins(p \o q, p)
           /\ Len(p) \in Nat /\ Len(q) \in Nat /\ Len(p \o q) = Len(p) + Len(q)
           /\ \A n \in 1 .. Len(q) : (p \o q)[Len(p) + n] = q[n]
           /\ \A m, w \in Nat : m + w <= Len(q) =>
                  SubSeq(p \o q, (Len(p) + m) + 1, (Len(p) + m) + w) = SubSeq(q, m + 1, m + w)
  <1>1. /\ p \o q \in Seq(S) /\ Len(p) \in Nat /\ Len(q) \in Nat
        /\ Len(p \o q) = Len(p) + Len(q)
        /\ \A n \in 1 .. Len(p) : (p \o q)[n] = p[n]
        /\ \A n \in 1 .. Len(q) : (p \o q)[Len(p) + n] = q[n]
    OBVIOUS
  <1>2. Begins(p \o q, p)
    BY <1>1 DEF Begins
  <1>3. ASSUME NEW m \in Nat, NEW w \in Nat, m + w <= Len(q)
        PROVE  SubSeq(p \o q, (Len(p) + m) + 1, (Len(p) + m) + w) = SubSeq(q, m + 1, m + w)
    <2> DEFINE s == p \o q
               long == SubSeq(s, (Len(p) + m) + 1, (Len(p) + m) + w)
               short == SubSeq(q, m + 1, m + w)
    <2>1. s \in Seq(S) /\ Len(s) = Len(p) + Len(q)
          /\ \A n \in 1 .. Len(q) : s[Len(p) + n] = q[n]
      BY <1>1
    <2> HIDE DEF s
    <2>2. long \in Seq(S) /\ Len(long) = w /\ \A n \in 1 .. w : long[n] = s[(Len(p) + m) + n]
      BY <1>1, <1>3, <2>1
    <2>3. short \in Seq(S) /\ Len(short) = w /\ \A n \in 1 .. w : short[n] = q[m + n]
      BY <1>1, <1>3
    <2> HIDE DEF long, short
    <2>4. ASSUME NEW n \in 1 .. w
          PROVE  long[n] = short[n]
      <3>1. m + n \in 1 .. Len(q) /\ (Len(p) + m) + n = Len(p) + (m + n)
        BY <1>1, <1>3
      <3> QED  BY <2>1, <2>2, <2>3, <3>1
    <2>5. long = short
      BY <2>2, <2>3, <2>4, SeqEqual
    <2> QED  BY <2>5 DEF long, short, s
  <1> QED  BY <1>1, <1>2, <1>3

(* The first of some numbers from 1 on is one of them.                     *)
LEMMA FirstNumber ==
    ASSUME NEW S \in SUBSET Nat, S # {}
    PROVE  Min(S) \in S
  <1>1. \E n \in S : \A m \in S : n <= m
    BY LeastNumber
  <1> QED  BY <1>1 DEF Min

(* A part of a sequence from n to its end.                                 *)
LEMMA FromType ==
    ASSUME NEW S, NEW s \in Seq(S), NEW n \in Nat, n > 0
    PROVE  From(s, n) \in Seq(S)
  <1>1. Len(s) \in Nat /\ \A i \in 1 .. Len(s) : s[i] \in S
    OBVIOUS
  <1>2. \A i \in n .. Len(s) : s[i] \in S
    BY <1>1
  <1> QED  BY <1>1, <1>2, SubSeqProperties DEF From

(* The first of some positions, or the end, is a position.                 *)
LEMMA FirstOfType ==
    ASSUME NEW json \in Seq(Token), NEW S \in SUBSET (Nat \ {0})
    PROVE  FirstOf(json, S) \in Nat \ {0}
  <1>1. Len(json) + 1 \in Nat \ {0}
    <2>1. Len(json) \in Nat
      OBVIOUS
    <2> QED  BY <2>1
  <1>2. S # {} => Min(S) \in Nat \ {0}
    BY FirstNumber
  <1> QED  BY <1>1, <1>2 DEF FirstOf

(* Skipping ends at a position.                                            *)
LEMMA SkipFromType ==
    ASSUME NEW json \in Seq(Token), NEW n \in Nat \ {0}, NEW marks
    PROVE  SkipFrom(json, n, marks) \in Nat \ {0}
  <1>1. {m \in n .. Len(json) : ~IsMark(json[m], marks)} \in SUBSET (Nat \ {0})
    OBVIOUS
  <1> QED  BY <1>1, FirstOfType DEF SkipFrom

(* The same, to be cited for a set of any form.                            *)
RecursionIn(V) ==
    \A base \in V : \A step \in [Nat -> [V -> V]] :
        \E f \in [Nat -> V] : f[0] = base /\ \A k \in Nat : f[k + 1] = step[k][f[k]]

LEMMA RecursionInAny == \A V : RecursionIn(V)
  BY RecursionExists DEF RecursionIn

(* A flattened sequence of sequences is read piece by piece.               *)
LEMMA Flattened ==
    ASSUME NEW S, NEW parts \in Seq(Seq(S))
    PROVE  \E f : /\ f[0] = <<>>
                  /\ \A k \in 0 .. Len(parts) : f[k] \in Seq(S)
                  /\ \A k \in 0 .. Len(parts) - 1 : f[k + 1] = f[k] \o parts[k + 1]
                  /\ FlattenSeq(parts) = f[Len(parts)]
  <1>0. PICK n, strings : n \in Nat /\ n = Len(parts) /\ strings = Seq(S)
    OBVIOUS
  <1> DEFINE follows(g) == g = [k \in 1 .. n |-> IF k = 1 THEN parts[k] ELSE g[k - 1] \o parts[k]]
             step == [k \in Nat |-> [v \in strings |-> IF k < n THEN v \o parts[k + 1] ELSE v]]
  <1>1. n \in Nat /\ \A k \in 1 .. n : parts[k] \in strings
    BY <1>0
  <1>2. <<>> \in strings /\ \A v, w \in strings : v \o w \in strings
    BY <1>0
  <1>3. step \in [Nat -> [strings -> strings]]
    <2>1. \A k \in Nat : k < n => parts[k + 1] \in strings
      BY <1>1
    <2> QED  BY <1>2, <2>1
  <1>4. PICK f \in [Nat -> strings] : f[0] = <<>> /\ \A k \in Nat : f[k + 1] = step[k][f[k]]
    <2> HIDE DEF step
    <2> DEFINE base == <<>>
    <2>1. base \in strings
      BY <1>2
    <2> HIDE DEF base
    <2>2. RecursionIn(strings)
      BY RecursionInAny
    <2>3. \E f \in [Nat -> strings] : f[0] = base /\ \A k \in Nat : f[k + 1] = step[k][f[k]]
      BY <1>3, <2>1, <2>2 DEF RecursionIn
    <2> QED  BY <2>3 DEF base
  <1>5. \A k \in 0 .. n - 1 : f[k + 1] = f[k] \o parts[k + 1]
    <2>1. ASSUME NEW k \in 0 .. n - 1
          PROVE  f[k + 1] = f[k] \o parts[k + 1]
      <3>1. k \in Nat /\ k < n /\ f[k] \in strings
        BY <1>1
      <3>2. step[k][f[k]] = f[k] \o parts[k + 1]
        BY <3>1
      <3> QED  BY <1>4, <3>1, <3>2
    <2> QED  BY <2>1
  <1> HIDE DEF step
  <1> DEFINE g == [k \in 1 .. n |-> f[k]]
             h == CHOOSE h : follows(h)
  <1>6. follows(g)
    <2>1. ASSUME NEW k \in 1 .. n
          PROVE  f[k] = IF k = 1 THEN parts[k] ELSE g[k - 1] \o parts[k]
      <3>1. k - 1 \in 0 .. n - 1 /\ (k - 1) + 1 = k
        BY <1>1
      <3>2. f[k] = f[k - 1] \o parts[k]
        BY <1>5, <3>1
      <3>3. CASE k = 1
        <4>1. k - 1 = 0 /\ parts[k] \in Seq(S)
          BY <1>0, <1>1, <3>3
        <4>2. f[k] = <<>> \o parts[k]
          BY <1>4, <3>2, <4>1
        <4> QED  BY <3>3, <4>1, <4>2, ConcatEmptySeq
      <3>4. CASE k # 1
        <4>1. k - 1 \in 1 .. n
          BY <1>1, <3>4
        <4> QED  BY <3>2, <3>4, <4>1
      <3> QED  BY <3>3, <3>4
    <2> QED  BY <2>1
  <1>7. follows(h)
    <2> HIDE DEF g
    <2> QED  BY <1>6
  <1>8. \A k \in 1 .. n : h[k] = IF k = 1 THEN parts[k] ELSE h[k - 1] \o parts[k]
    <2> HIDE DEF h
    <2> QED  BY <1>7
  <1>9. FlattenSeq(parts) = IF n = 0 THEN <<>> ELSE h[n]
    <2>1. n = 0 => parts = <<>>
      BY <1>0, EmptySeq
    <2> QED  BY <1>0, <2>1 DEF FlattenSeq
  <1> HIDE DEF h, follows, g
  <1> DEFINE T == {k \in Nat : k + 1 <= n => h[k + 1] = f[k + 1]}
  <1>10. 0 \in T
    <2> SUFFICES ASSUME 0 + 1 <= n PROVE h[0 + 1] = f[0 + 1]
      OBVIOUS
    <2>1. 0 + 1 = 1 /\ 1 \in 1 .. n /\ 0 \in 0 .. n - 1
      BY <1>1
    <2>2. h[1] = parts[1] /\ f[1] = <<>> \o parts[1] /\ parts[1] \in Seq(S)
      BY <1>0, <1>1, <1>4, <1>5, <1>8, <2>1
    <2> QED  BY <2>1, <2>2, ConcatEmptySeq
  <1>11. ASSUME NEW k \in Nat, k \in T
         PROVE  k + 1 \in T
    <2> SUFFICES ASSUME (k + 1) + 1 <= n PROVE h[(k + 1) + 1] = f[(k + 1) + 1]
      OBVIOUS
    <2>1. (k + 1) + 1 \in 1 .. n /\ (k + 1) + 1 # 1 /\ ((k + 1) + 1) - 1 = k + 1 /\ k + 1 <= n
          /\ k + 1 \in 0 .. n - 1
      BY <1>1
    <2>2. h[k + 1] = f[k + 1]
      BY <1>11, <2>1
    <2> QED  BY <1>5, <1>8, <2>1, <2>2
  <1> HIDE DEF T
  <1>12. Nat \subseteq T
    BY <1>10, <1>11, NumberInduction
  <1>13. n # 0 => h[n] = f[n]
    <2> SUFFICES ASSUME n # 0 PROVE h[n] = f[n]
      OBVIOUS
    <2>1. n - 1 \in Nat /\ (n - 1) + 1 = n /\ n <= n
      BY <1>1
    <2>2. n - 1 \in T
      BY <1>12, <2>1
    <2> QED  BY <2>1, <2>2 DEF T
  <1>14. FlattenSeq(parts) = f[n]
    BY <1>4, <1>9, <1>13
  <1>15. \A k \in 0 .. n : f[k] \in Seq(S)
    BY <1>0, <1>4
  <1> QED  BY <1>0, <1>4, <1>5, <1>14, <1>15

(* How many numbers from a up to n are in a set.                           *)
CountIn(C, a, n) == Cardinality({m \in a .. n - 1 : m \in C})

(* One number more.                                                        *)
LEMMA CountNext ==
    ASSUME NEW C, NEW a \in Int, NEW n \in Int, a <= n
    PROVE  /\ CountIn(C, a, n) \in Nat /\ CountIn(C, a, a) = 0
           /\ CountIn(C, a, n + 1) = CountIn(C, a, n) + IF n \in C THEN 1 ELSE 0
  <1> DEFINE before == {m \in a .. n - 1 : m \in C}
  <1>1. IsFiniteSet(a .. n - 1) /\ before \in SUBSET (a .. n - 1)
    BY FS_Interval
  <1>2. IsFiniteSet(before) /\ Cardinality(before) \in Nat
    <2>1. IsFiniteSet(before)
      BY <1>1, FS_Subset
    <2> QED  BY <2>1, FS_CardinalityType
  <1>3. n \notin before
    OBVIOUS
  <1>4. {m \in a .. (n + 1) - 1 : m \in C} = IF n \in C THEN before \cup {n} ELSE before
    OBVIOUS
  <1>5. {m \in a .. a - 1 : m \in C} = {}
    OBVIOUS
  <1>6. Cardinality(before \cup {n}) = Cardinality(before) + 1
    BY <1>2, <1>3, FS_AddElement
  <1>7. Cardinality({}) = 0
    BY FS_EmptySet
  <1>8. CountIn(C, a, n) = Cardinality(before) /\ CountIn(C, a, a) = 0
    BY <1>5, <1>7 DEF CountIn
  <1>9. CountIn(C, a, n + 1) = Cardinality(IF n \in C THEN before \cup {n} ELSE before)
    BY <1>4 DEF CountIn
  <1> HIDE DEF before
  <1> QED  BY <1>2, <1>6, <1>8, <1>9

(* Sequences of one and of two.                                            *)
LEMMA ShortSequences ==
    ASSUME NEW S, NEW x \in S, NEW y \in S
    PROVE  <<x>> \in Seq(S) /\ <<x, y>> \in Seq(S) /\ Len(<<x>>) = 1 /\ Len(<<x, y>>) = 2
  OBVIOUS

(* What is in them.                                                        *)
LEMMA ShortElements ==
    /\ \A x : Len(<<x>>) = 1 /\ \A m \in 1 .. Len(<<x>>) : <<x>>[m] = x
    /\ \A x, y : /\ Len(<<x, y>>) = 2 /\ <<x, y>>[1] = x /\ <<x, y>>[2] = y
                /\ \A m \in 1 .. Len(<<x, y>>) : <<x, y>>[m] = x \/ <<x, y>>[m] = y
  <1>1. ASSUME NEW x
        PROVE  Len(<<x>>) = 1 /\ \A m \in 1 .. Len(<<x>>) : <<x>>[m] = x
    <2>1. Len(<<x>>) = 1 /\ <<x>>[1] = x /\ \A m \in 1 .. 1 : m = 1
      OBVIOUS
    <2> QED  BY <2>1
  <1>2. ASSUME NEW x, NEW y
        PROVE  /\ Len(<<x, y>>) = 2 /\ <<x, y>>[1] = x /\ <<x, y>>[2] = y
               /\ \A m \in 1 .. Len(<<x, y>>) : <<x, y>>[m] = x \/ <<x, y>>[m] = y
    <2>1. Len(<<x, y>>) = 2 /\ <<x, y>>[1] = x /\ <<x, y>>[2] = y /\ \A m \in 1 .. 2 : m = 1 \/ m = 2
      OBVIOUS
    <2>2. \A m \in 1 .. Len(<<x, y>>) : m = 1 \/ m = 2
      BY <2>1
    <2>3. \A m \in 1 .. Len(<<x, y>>) : <<x, y>>[m] = x \/ <<x, y>>[m] = y
      BY <2>1, <2>2
    <2> QED  BY <2>1, <2>3
  <1> QED  BY <1>1, <1>2

(* One put before one or two.                                              *)
LEMMA PutBefore ==
    /\ \A x, y : <<x>> \o <<y>> = <<x, y>>
    /\ \A x, y, z : <<x>> \o <<y, z>> = <<x, y, z>>
  <1>1. ASSUME NEW x, NEW y
        PROVE  <<x>> \o <<y>> = <<x, y>>
    <2> DEFINE S == {x, y}
    <2>1. <<x>> \in Seq(S) /\ <<y>> \in Seq(S) /\ <<x, y>> \in Seq(S)
      OBVIOUS
    <2>2. Len(<<x>> \o <<y>>) = 2 /\ \A i \in 1 .. 2 : (<<x>> \o <<y>>)[i] = <<x, y>>[i]
      OBVIOUS
    <2>3. <<x>> \o <<y>> \in Seq(S) /\ Len(<<x, y>>) = 2
      BY <2>1, ConcatProperties
    <2> HIDE DEF S
    <2> QED  BY <2>1, <2>2, <2>3, SeqEqual
  <1>2. ASSUME NEW x, NEW y, NEW z
        PROVE  <<x>> \o <<y, z>> = <<x, y, z>>
    <2> DEFINE S == {x, y, z}
    <2>1. <<x>> \in Seq(S) /\ <<y, z>> \in Seq(S) /\ <<x, y, z>> \in Seq(S)
      OBVIOUS
    <2>2. Len(<<x>> \o <<y, z>>) = 3 /\ \A i \in 1 .. 3 : (<<x>> \o <<y, z>>)[i] = <<x, y, z>>[i]
      OBVIOUS
    <2>3. <<x>> \o <<y, z>> \in Seq(S) /\ Len(<<x, y, z>>) = 3
      BY <2>1, ConcatProperties
    <2> HIDE DEF S
    <2> QED  BY <2>1, <2>2, <2>3, SeqEqual
  <1> QED  BY <1>1, <1>2

(* What a sequence made of two has at each place.                          *)
LEMMA Joined ==
    ASSUME NEW S, NEW lead \in Seq(S), NEW rest \in Seq(S)
    PROVE  /\ lead \o rest \in Seq(S) /\ Len(lead) \in Nat /\ Len(rest) \in Nat
           /\ Len(lead \o rest) = Len(lead) + Len(rest)
           /\ DOMAIN (lead \o rest) = 1 .. Len(lead) + Len(rest)
           /\ \A n \in 1 .. Len(lead) : (lead \o rest)[n] = lead[n]
           /\ \A n \in 1 .. Len(rest) : (lead \o rest)[Len(lead) + n] = rest[n]
           /\ From(lead \o rest, Len(lead) + 1) = rest
  <1> DEFINE all == lead \o rest
  <1>1. /\ all \in Seq(S) /\ Len(lead) \in Nat /\ Len(rest) \in Nat
        /\ Len(all) = Len(lead) + Len(rest) /\ DOMAIN all = 1 .. Len(lead) + Len(rest)
        /\ \A n \in 1 .. Len(lead) : all[n] = lead[n]
        /\ \A n \in 1 .. Len(rest) : all[Len(lead) + n] = rest[n]
    OBVIOUS
  <1> HIDE DEF all
  <1>2. SubSeq(all, Len(lead) + 1, Len(lead) + Len(rest)) = rest
    <2> DEFINE part == SubSeq(all, Len(lead) + 1, Len(lead) + Len(rest))
    <2>1. part \in Seq(S) /\ Len(part) = Len(rest)
          /\ \A n \in 1 .. Len(rest) : part[n] = all[Len(lead) + n]
      BY <1>1, Slice
    <2> HIDE DEF part
    <2>2. part = rest
      BY <1>1, <2>1, SeqEqual
    <2> QED  BY <2>2 DEF part
  <1>3. From(all, Len(lead) + 1) = rest
    BY <1>1, <1>2 DEF From
  <1> QED  BY <1>1, <1>3 DEF all

(* The first position of a set.                                            *)
LEMMA FirstIs ==
    ASSUME NEW S \in SUBSET Nat, NEW n \in S, \A m \in S : n <= m
    PROVE  Min(S) = n
  <1>1. Min(S) \in S /\ \A m \in S : Min(S) <= m
    BY DEF Min
  <1>2. PICK m \in S : m = Min(S)
    BY <1>1
  <1>3. m <= n /\ n <= m /\ m \in Nat /\ n \in Nat
    BY <1>1, <1>2
  <1>4. m = n
    BY <1>3
  <1> QED  BY <1>2, <1>4

(* What is skipped up to a token that is not skipped.                      *)
LEMMA SkipOver ==
    ASSUME NEW lead \in Seq(Token), NEW rest \in Seq(Token), NEW marks,
           NEW n \in 1 .. Len(lead) + 1,
           \A m \in n .. Len(lead) : IsMark(lead[m], marks),
           rest # <<>>, ~IsMark(rest[1], marks)
    PROVE  From(lead \o rest, SkipFrom(lead \o rest, n, marks)) = rest
  <1> DEFINE json == lead \o rest
             stops == {m \in n .. Len(json) : ~IsMark(json[m], marks)}
             here == Len(lead) + 1
  <1>1. /\ Len(lead) \in Nat /\ Len(rest) \in Nat /\ Len(json) = Len(lead) + Len(rest)
        /\ \A m \in 1 .. Len(lead) : json[m] = lead[m]
        /\ \A m \in 1 .. Len(rest) : json[Len(lead) + m] = rest[m]
        /\ From(json, here) = rest
    BY Joined
  <1>2. Len(rest) # 0
    BY EmptySeq
  <1> HIDE DEF json
  <1>3. json[here] = rest[1] /\ here \in n .. Len(json)
    BY <1>1, <1>2
  <1>4. here \in stops
    BY <1>3
  <1>5. ASSUME NEW m \in stops
        PROVE  here <= m
    <2> SUFFICES ASSUME ~(here <= m) PROVE FALSE
      OBVIOUS
    <2>1. m \in n .. Len(lead) /\ m \in 1 .. Len(lead)
      BY <1>1
    <2> QED  BY <1>1, <2>1
  <1>6. stops \in SUBSET Nat
    OBVIOUS
  <1> HIDE DEF stops
  <1>7. Min(stops) = here
    <2> HIDE DEF here
    <2> QED  BY <1>4, <1>5, <1>6, FirstIs
  <1>8. SkipFrom(json, n, marks) = here
    BY <1>4, <1>7 DEF SkipFrom, FirstOf, stops
  <1> QED  BY <1>1, <1>8 DEF json

-----------------------------------------------------------------------------
(* Documents                                                               *)

(* The places of a document are not longer than some length.               *)
LEMMA Bounded ==
    ASSUME NEW doc, IsDocument(doc)
    PROVE  \E D \in Nat : \A p \in DOMAIN doc : Len(p) <= D
  <1> DEFINE C == {s \in SUBSET DOMAIN doc : \E D \in Nat : \A p \in s : Len(p) <= D}
  <1>1. IsFiniteSet(DOMAIN doc) /\ DOMAIN doc \subseteq Seq(Nat \ {0})
    BY DEF IsDocument
  <1>2. {} \in C
    OBVIOUS
  <1>3. ASSUME NEW s \in SUBSET DOMAIN doc, NEW q \in DOMAIN doc \ s, s \in C
        PROVE  s \cup {q} \in C
    <2>1. PICK D \in Nat : \A p \in s : Len(p) <= D
      BY <1>3
    <2>2. \A p \in s \cup {q} : Len(p) \in Nat
      BY <1>1, LenProperties
    <2>3. \A p \in s \cup {q} : Len(p) <= D + Len(q)
      BY <2>1, <2>2
    <2>4. D + Len(q) \in Nat
      BY <2>2
    <2> QED  BY <1>3, <2>3, <2>4
  <1> HIDE DEF C
  <1>4. SUBSET DOMAIN doc \subseteq C
    BY <1>1, <1>2, <1>3, SubsetInduction
  <1>5. DOMAIN doc \in C
    BY <1>4
  <1> QED  BY <1>5 DEF C

(* What holds of a node when it holds of its members and items holds of    *)
(* every node.                                                             *)
LEMMA PlaceInduction ==
    ASSUME NEW doc, IsDocument(doc), NEW T,
           \A p \in DOMAIN doc : (\A n \in 1 .. Size(doc[p]) : Append(p, n) \in T) => p \in T
    PROVE  DOMAIN doc \subseteq T
  <1>1. PICK D \in Nat : \A p \in DOMAIN doc : Len(p) <= D
    BY Bounded
  <1>2. /\ DOMAIN doc \subseteq Seq(Nat \ {0})
        /\ \A p \in DOMAIN doc : \A n \in 1 .. Size(doc[p]) : Append(p, n) \in DOMAIN doc
    BY DEF IsDocument
  <1> DEFINE others == {p \in DOMAIN doc : p \notin T}
             heights == {D - Len(p) : p \in others}
  <1> SUFFICES ASSUME others # {} PROVE FALSE
    OBVIOUS
  <1>3. \A p \in DOMAIN doc : Len(p) \in Nat
    BY <1>2, LenProperties
  <1>4. heights \in SUBSET Nat /\ heights # {}
    BY <1>1, <1>3
  <1>5. PICK p \in others : \A q \in others : D - Len(p) <= D - Len(q)
    <2>1. \E h \in heights : \A g \in heights : h <= g
      <3> HIDE DEF heights
      <3> QED  BY <1>4, LeastNumber
    <2> QED  BY <2>1
  <1>6. ASSUME NEW n \in 1 .. Size(doc[p])
        PROVE  Append(p, n) \in T
    <2>1. Append(p, n) \in DOMAIN doc
      BY <1>2
    <2>2. Len(Append(p, n)) = Len(p) + 1
      <3>1. p \in Seq(Nat \ {0})
        BY <1>2
      <3> QED  BY <3>1
    <2>3. ~(D - Len(p) <= D - Len(Append(p, n)))
      BY <1>3, <2>2
    <2> QED  BY <1>5, <2>1, <2>3
  <1> QED  BY <1>6

(* The tokens of a node come from those of its members or items.           *)
LEMMA TokensLaw ==
    ASSUME NEW doc, IsDocument(doc), NEW pretty
    PROVE  \A p \in DOMAIN doc :
               Tokens(doc, pretty)[p] =
                   NodeTokens(doc[p],
                              [n \in 1 .. Size(doc[p]) |-> Tokens(doc, pretty)[Append(p, n)]],
                              pretty)
  <1>1. PICK D \in Nat : \A p \in DOMAIN doc : Len(p) <= D
    BY Bounded
  <1>2. /\ DOMAIN doc \subseteq Seq(Nat \ {0})
        /\ \A p \in DOMAIN doc : \A n \in 1 .. Size(doc[p]) : Append(p, n) \in DOMAIN doc
    BY DEF IsDocument
  <1>3. \A p \in DOMAIN doc : Len(p) \in Nat
    BY <1>2, LenProperties
  <1> DEFINE low(k) == {p \in DOMAIN doc : Len(p) + k > D}
             next(g, p) == NodeTokens(doc[p], [n \in 1 .. Size(doc[p]) |-> g[Append(p, n)]], pretty)
             follows(g, k) == g = [p \in low(k) |-> next(g, p)]
             T == {k \in Nat : \E g : follows(g, k)}
  <1>4. 0 \in T
    <2>1. low(0) = {}
      BY <1>1, <1>3
    <2> DEFINE g == [p \in low(0) |-> <<>>]
    <2>2. follows(g, 0)
      <3> HIDE DEF next
      <3> QED  BY <2>1
    <2> QED  BY <2>2
  <1>5. ASSUME NEW k \in Nat, k \in T
        PROVE  k + 1 \in T
    <2>1. PICK g : follows(g, k)
      BY <1>5
    <2> DEFINE more == [p \in low(k + 1) |-> next(g, p)]
    <2>2. ASSUME NEW p \in low(k + 1)
          PROVE  next(g, p) = next(more, p)
      <3>1. ASSUME NEW n \in 1 .. Size(doc[p])
            PROVE  more[Append(p, n)] = g[Append(p, n)]
        <4> DEFINE q == Append(p, n)
        <4>1. q \in DOMAIN doc /\ p \in Seq(Nat \ {0})
          BY <1>2
        <4>2. Len(q) = Len(p) + 1 /\ Len(p) \in Nat
          BY <4>1
        <4>3. q \in low(k) /\ q \in low(k + 1)
          <5> HIDE DEF q
          <5> QED  BY <4>1, <4>2
        <4>4. more[q] = next(g, q)
          <5> HIDE DEF next, q
          <5> QED  BY <4>3
        <4>5. g[q] = next(g, q)
          <5> HIDE DEF next, q, low
          <5> QED  BY <2>1, <4>3
        <4> QED  BY <4>4, <4>5
      <3> HIDE DEF more
      <3>2. [n \in 1 .. Size(doc[p]) |-> more[Append(p, n)]]
                = [n \in 1 .. Size(doc[p]) |-> g[Append(p, n)]]
        BY <3>1
      <3> QED  BY <3>2
    <2>3. follows(more, k + 1)
      <3>1. [p \in low(k + 1) |-> next(g, p)] = [p \in low(k + 1) |-> next(more, p)]
        <4> HIDE DEF next, low, more
        <4> QED  BY <2>2
      <3> HIDE DEF next, low
      <3> QED  BY <3>1
    <2> HIDE DEF follows, more
    <2> QED  BY <2>3
  <1> HIDE DEF T
  <1>6. Nat \subseteq T
    BY <1>4, <1>5, NumberInduction
  <1>7. D + 1 \in T
    BY <1>6
  <1>8. low(D + 1) = DOMAIN doc
    <2>1. \A p \in DOMAIN doc : Len(p) + (D + 1) > D
      BY <1>3
    <2> QED  BY <2>1
  <1>9. \E g : g = [p \in DOMAIN doc |-> next(g, p)]
    <2>1. PICK g : follows(g, D + 1)
      BY <1>7 DEF T
    <2> HIDE DEF low, next
    <2> QED  BY <1>8, <2>1
  <1> DEFINE tokens == CHOOSE g : g = [p \in DOMAIN doc |-> next(g, p)]
  <1>10. Tokens(doc, pretty) = tokens
    BY DEF Tokens
  <1>11. tokens = [p \in DOMAIN doc |-> next(tokens, p)]
    <2> HIDE DEF next
    <2> QED  BY <1>9
  <1>12. \A p \in DOMAIN doc : tokens[p] = next(tokens, p)
    <2> HIDE DEF next, tokens
    <2> QED  BY <1>11
  <1> HIDE DEF tokens
  <1> QED  BY <1>10, <1>12

(* What stands before, between and around members and items are tokens.    *)
LEMMA NodeParts ==
    ASSUME NEW node \in Node, NEW pretty \in BOOLEAN
    PROVE  /\ Size(node) \in Nat
           /\ node.kind \in {"number", "string", "null", "object", "array"}
           /\ node.kind \notin {"object", "array"} => Size(node) = 0
           /\ node.kind = "number" => node.token \in NumberToken
           /\ node.kind = "string" => node.name \in STRING /\ node.inside \in Seq(Token)
           /\ \A n \in 1 .. Size(node) : Lead(node, n, pretty) \in Seq(Token)
           /\ node.kind = "object" => node.names \in Seq(STRING) /\ Size(node) = Len(node.names)
           /\ {Opening(node), Closing(node)} \subseteq Token
           /\ Colon(pretty) \in Seq(Token) /\ Comma(pretty) \in Seq(Token)
           /\ \A name \in STRING : Text(name) \in Token /\ <<Text(name)>> \o Colon(pretty) \in Seq(Token)
           /\ \A c \in Marks : Mark(c) \in Token
           /\ NumberToken \subseteq Token
  <1>1. node.kind \in {"number", "string", "null", "object", "array"}
    BY DEF Node
  <1>2. /\ node.kind = "number" => node.token \in NumberToken
        /\ node.kind = "string" => node.name \in STRING /\ node.inside \in Seq(Token)
        /\ node.kind = "object" => node.names \in Seq(STRING)
        /\ node.kind = "array" => node.size \in Nat
    BY DEF Node
  <1>3. /\ Size(node) \in Nat
        /\ node.kind \notin {"object", "array"} => Size(node) = 0
        /\ node.kind = "object" => Size(node) = Len(node.names)
    BY <1>1, <1>2 DEF Size
  <1>4. \A c \in Marks : Mark(c) \in Token
    BY DEF Token, Mark
  <1>5. \A name \in STRING : Text(name) \in Token
    BY DEF Token, Text
  <1>6. NumberToken \subseteq Token
    BY DEF Token
  <1>7. Opening(node) \in Token /\ Closing(node) \in Token
    <2>1. Mark("[") \in Token /\ Mark("]") \in Token /\ Mark("{") \in Token /\ Mark("}") \in Token
      BY <1>4 DEF Marks
    <2> QED  BY <2>1 DEF Opening, Closing
  <1>8. Colon(pretty) \in Seq(Token) /\ Comma(pretty) \in Seq(Token)
    <2>1. Mark(":") \in Token /\ Mark(" ") \in Token /\ Mark(",") \in Token /\ Mark("newline") \in Token
      BY <1>4 DEF Marks
    <2>2. /\ <<Mark(":")>> \in Seq(Token) /\ <<Mark(":"), Mark(" ")>> \in Seq(Token)
          /\ <<Mark(",")>> \in Seq(Token) /\ <<Mark(","), Mark("newline")>> \in Seq(Token)
      BY <2>1, ShortSequences
    <2> QED  BY <2>2 DEF Colon, Comma
  <1>9. ASSUME NEW name \in STRING
        PROVE  <<Text(name)>> \o Colon(pretty) \in Seq(Token)
    <2>1. Text(name) \in Token
      BY <1>5
    <2>2. <<Text(name)>> \in Seq(Token)
      BY <2>1, ShortSequences
    <2> QED  BY <1>8, <2>2, ConcatProperties
  <1>10. ASSUME NEW n \in 1 .. Size(node)
         PROVE  Lead(node, n, pretty) \in Seq(Token)
    <2> DEFINE sep == IF n = 1 THEN <<>> ELSE Comma(pretty)
               label == IF node.kind = "object" THEN <<Text(node.names[n])>> \o Colon(pretty)
                        ELSE <<>>
    <2>1. sep \in Seq(Token)
      BY <1>8
    <2>2. label \in Seq(Token)
      <3>1. CASE node.kind = "object"
        <4>1. node.names[n] \in STRING
          BY <1>2, <1>3, <3>1
        <4> QED  BY <1>9, <3>1, <4>1
      <3>2. CASE node.kind # "object"
        BY <3>2
      <3> QED  BY <3>1, <3>2
    <2> HIDE DEF sep, label
    <2>3. sep \o label \in Seq(Token)
      BY <2>1, <2>2
    <2> QED  BY <2>3 DEF Lead, sep, label
  <1> QED  BY <1>1, <1>2, <1>3, <1>4, <1>5, <1>6, <1>7, <1>8, <1>9, <1>10

(* f[k] spells the first k members or items of a node.                     *)
Spells(node, parts, pretty, f) ==
    /\ f[0] = <<>>
    /\ \A k \in 0 .. Size(node) : f[k] \in Seq(Token)
    /\ \A k \in 0 .. Size(node) - 1 : f[k + 1] = f[k] \o (Lead(node, k + 1, pretty) \o parts[k + 1])

(* An object or an array is spelled member by member or item by item.      *)
LEMMA NodeSpelled ==
    ASSUME NEW node \in Node, node.kind \in {"object", "array"}, NEW pretty \in BOOLEAN,
           NEW parts \in [1 .. Size(node) -> Seq(Token)]
    PROVE  \E f : /\ Spells(node, parts, pretty, f)
                  /\ NodeTokens(node, parts, pretty) =
                         (<<Opening(node)>> \o f[Size(node)]) \o <<Closing(node)>>
  <1>0. PICK size \in Nat : size = Size(node)
    BY NodeParts
  <1> DEFINE pieces == [n \in DOMAIN parts |-> Lead(node, n, pretty) \o parts[n]]
  <1>1. DOMAIN parts = 1 .. size
    BY <1>0
  <1>2. \A n \in 1 .. size : Lead(node, n, pretty) \o parts[n] \in Seq(Token)
    <2>1. ASSUME NEW n \in 1 .. size
          PROVE  Lead(node, n, pretty) \o parts[n] \in Seq(Token)
      <3>1. Lead(node, n, pretty) \in Seq(Token) /\ parts[n] \in Seq(Token)
        BY <1>0, NodeParts
      <3> QED  BY <3>1, ConcatProperties
    <2> QED  BY <2>1
  <1>3. pieces \in Seq(Seq(Token)) /\ Len(pieces) = size
        /\ \A n \in 1 .. size : pieces[n] = Lead(node, n, pretty) \o parts[n]
    <2>1. pieces \in [1 .. size -> Seq(Token)]
      BY <1>1, <1>2
    <2>2. \A n \in 1 .. size : pieces[n] = Lead(node, n, pretty) \o parts[n]
      BY <1>1
    <2> HIDE DEF pieces
    <2>3. pieces \in Seq(Seq(Token)) /\ Len(pieces) = size
      BY <2>1
    <2> QED  BY <2>2, <2>3
  <1>4. NodeTokens(node, parts, pretty) =
            (<<Opening(node)>> \o FlattenSeq(pieces)) \o <<Closing(node)>>
    BY DEF NodeTokens
  <1> HIDE DEF pieces
  <1>5. PICK f : /\ f[0] = <<>>
                 /\ \A k \in 0 .. size : f[k] \in Seq(Token)
                 /\ \A k \in 0 .. size - 1 : f[k + 1] = f[k] \o pieces[k + 1]
                 /\ FlattenSeq(pieces) = f[size]
    BY <1>3, Flattened
  <1>6. \A k \in 0 .. size - 1 : f[k + 1] = f[k] \o (Lead(node, k + 1, pretty) \o parts[k + 1])
    <2>1. \A k \in 0 .. size - 1 : k + 1 \in 1 .. size
      OBVIOUS
    <2> QED  BY <1>3, <1>5, <2>1
  <1> QED  BY <1>0, <1>4, <1>5, <1>6 DEF Spells

(* What the members or items of a place are sent as.                       *)
PartsOf(doc, pretty, p) == [n \in 1 .. Size(doc[p]) |-> Tokens(doc, pretty)[Append(p, n)]]

(* What is at a place, and at the places below it.                         *)
LEMMA DocumentParts ==
    ASSUME NEW doc, IsDocument(doc), NEW p \in DOMAIN doc
    PROVE  /\ doc[p] \in Node /\ p \in Seq(Nat \ {0}) /\ Len(p) \in Nat
           /\ \A n \in 1 .. Size(doc[p]) : Append(p, n) \in DOMAIN doc
  BY LenProperties DEF IsDocument

(* A node is sent as tokens.                                               *)
LEMMA TokensType ==
    ASSUME NEW doc, IsDocument(doc), NEW pretty \in BOOLEAN
    PROVE  \A p \in DOMAIN doc : Tokens(doc, pretty)[p] \in Seq(Token)
  <1> DEFINE T == {p \in DOMAIN doc : Tokens(doc, pretty)[p] \in Seq(Token)}
  <1>1. ASSUME NEW p \in DOMAIN doc, \A n \in 1 .. Size(doc[p]) : Append(p, n) \in T
        PROVE  p \in T
    <2> DEFINE node == doc[p]
               parts == PartsOf(doc, pretty, p)
    <2>1. Tokens(doc, pretty)[p] = NodeTokens(node, parts, pretty)
      BY TokensLaw DEF PartsOf
    <2>2. node \in Node
      BY DocumentParts
    <2>3. parts \in [1 .. Size(node) -> Seq(Token)]
      BY <1>1 DEF PartsOf
    <2> HIDE DEF node, parts
    <2>4. CASE node.kind \in {"object", "array"}
      <3>1. PICK f : /\ Spells(node, parts, pretty, f)
                     /\ NodeTokens(node, parts, pretty) =
                            (<<Opening(node)>> \o f[Size(node)]) \o <<Closing(node)>>
        BY <2>2, <2>3, <2>4, NodeSpelled
      <3>2. f[Size(node)] \in Seq(Token)
        <4>1. Size(node) \in 0 .. Size(node)
          BY <2>2, NodeParts
        <4> QED  BY <3>1, <4>1 DEF Spells
      <3>3. <<Opening(node)>> \in Seq(Token) /\ <<Closing(node)>> \in Seq(Token)
        BY <2>2, NodeParts, ShortSequences
      <3>4. <<Opening(node)>> \o f[Size(node)] \in Seq(Token)
        BY <3>2, <3>3, ConcatProperties
      <3>5. NodeTokens(node, parts, pretty) \in Seq(Token)
        BY <3>1, <3>3, <3>4, ConcatProperties
      <3> QED  BY <2>1, <3>5
    <2>5. CASE node.kind = "number"
      <3>1. NodeTokens(node, parts, pretty) = <<node.token>> /\ node.token \in Token
        BY <2>2, <2>5, NodeParts DEF NodeTokens
      <3> QED  BY <2>1, <3>1, ShortSequences
    <2>6. CASE node.kind = "string"
      <3>1. NodeTokens(node, parts, pretty) = <<Text(node.name)>> \o node.inside
        BY <2>6 DEF NodeTokens
      <3>2. Text(node.name) \in Token /\ node.inside \in Seq(Token)
        BY <2>2, <2>6, NodeParts
      <3>3. <<Text(node.name)>> \in Seq(Token)
        BY <3>2, ShortSequences
      <3>4. NodeTokens(node, parts, pretty) \in Seq(Token)
        BY <3>1, <3>2, <3>3, ConcatProperties
      <3> QED  BY <2>1, <3>4
    <2>7. CASE node.kind = "null"
      <3>1. NodeTokens(node, parts, pretty) = <<Mark("null")>>
        BY <2>7 DEF NodeTokens
      <3>2. Mark("null") \in Token
        BY <2>2, NodeParts DEF Marks
      <3> QED  BY <2>1, <3>1, <3>2, ShortSequences
    <2> QED  BY <2>2, <2>4, <2>5, <2>6, <2>7, NodeParts
  <1> HIDE DEF T
  <1>2. DOMAIN doc \subseteq T
    BY <1>1, PlaceInduction
  <1> QED  BY <1>2 DEF T

(* The tokens of an object or an array.                                    *)
LEMMA Spelled ==
    ASSUME NEW doc, IsDocument(doc), NEW pretty \in BOOLEAN, NEW p \in DOMAIN doc,
           doc[p].kind \in {"object", "array"}
    PROVE  \E f : /\ Spells(doc[p], PartsOf(doc, pretty, p), pretty, f)
                  /\ Tokens(doc, pretty)[p] =
                         (<<Opening(doc[p])>> \o f[Size(doc[p])]) \o <<Closing(doc[p])>>
  <1>1. PartsOf(doc, pretty, p) \in [1 .. Size(doc[p]) -> Seq(Token)]
    BY DocumentParts, TokensType DEF PartsOf
  <1>2. Tokens(doc, pretty)[p] = NodeTokens(doc[p], PartsOf(doc, pretty, p), pretty)
    BY TokensLaw DEF PartsOf
  <1>3. doc[p] \in Node
    BY DocumentParts
  <1> DEFINE node == doc[p]
             parts == PartsOf(doc, pretty, p)
  <1>4. \E f : /\ Spells(node, parts, pretty, f)
               /\ NodeTokens(node, parts, pretty) =
                      (<<Opening(node)>> \o f[Size(node)]) \o <<Closing(node)>>
    <2>1. node \in Node /\ node.kind \in {"object", "array"}
          /\ parts \in [1 .. Size(node) -> Seq(Token)]
      BY <1>1, <1>3
    <2> HIDE DEF node, parts
    <2> QED  BY <2>1, NodeSpelled
  <1> QED  BY <1>2, <1>4

(* What begins with neither a blank nor a colon.                           *)
IsValue(s) == s \in Seq(Token) /\ s # <<>> /\ ~IsMark(s[1], Blanks \cup {":"})

(* No value begins with a blank or a colon.                                *)
LEMMA ValueStarts ==
    ASSUME NEW doc, IsDocument(doc), NEW pretty \in BOOLEAN, NEW p \in DOMAIN doc
    PROVE  /\ Tokens(doc, pretty)[p] # <<>>
           /\ ~IsMark(Tokens(doc, pretty)[p][1], Blanks \cup {":"})
           /\ doc[p].kind \in {"object", "array"} => Tokens(doc, pretty)[p][1] = Opening(doc[p])
  <1> DEFINE node == doc[p]
             tokens == Tokens(doc, pretty)[p]
  <1>1. node \in Node /\ Tokens(doc, pretty)[p] = NodeTokens(node, PartsOf(doc, pretty, p), pretty)
    BY TokensLaw, DocumentParts DEF PartsOf
  <1>2. ASSUME NEW first \in Token, NEW rest \in Seq(Token), tokens = <<first>> \o rest
        PROVE  tokens # <<>> /\ tokens[1] = first
    <2> HIDE DEF tokens
    <2>1. <<first>> \in Seq(Token) /\ Len(<<first>>) = 1
      BY ShortSequences
    <2>2. Len(tokens) = 1 + Len(rest) /\ Len(rest) \in Nat /\ tokens[1] = first
      BY <1>2, <2>1, Joined
    <2>3. Len(tokens) # 0
      BY <2>2
    <2> QED  BY <2>2, <2>3
  <1>3. ASSUME NEW first \in Token, tokens = <<first>>
        PROVE  tokens # <<>> /\ tokens[1] = first
    BY <1>3
  <1>4. CASE node.kind \in {"object", "array"}
    <2>1. PICK f : /\ Spells(node, PartsOf(doc, pretty, p), pretty, f)
                   /\ tokens = (<<Opening(node)>> \o f[Size(node)]) \o <<Closing(node)>>
      BY <1>4, Spelled
    <2>2. f[Size(node)] \in Seq(Token)
      <3>1. Size(node) \in 0 .. Size(node)
        BY <1>1, NodeParts
      <3> QED  BY <2>1, <3>1 DEF Spells
    <2>3. /\ Opening(node) \in Token /\ <<Opening(node)>> \in Seq(Token)
          /\ <<Closing(node)>> \in Seq(Token)
      BY <1>1, NodeParts, ShortSequences
    <2>4. tokens = <<Opening(node)>> \o (f[Size(node)] \o <<Closing(node)>>)
      <3>1. PICK spelt \in Seq(Token), left \in Seq(Token), right \in Seq(Token) :
                spelt = f[Size(node)] /\ left = <<Opening(node)>> /\ right = <<Closing(node)>>
        BY <2>2, <2>3
      <3>2. (left \o spelt) \o right = left \o (spelt \o right)
        BY ConcatAssociative
      <3> QED  BY <2>1, <3>1, <3>2
    <2>5. f[Size(node)] \o <<Closing(node)>> \in Seq(Token)
      BY <2>2, <2>3, ConcatProperties
    <2>6. tokens # <<>> /\ tokens[1] = Opening(node)
      BY <1>2, <2>3, <2>4, <2>5
    <2>7. ~IsMark(Opening(node), Blanks \cup {":"})
      BY DEF Opening, Mark, IsMark, Blanks
    <2> QED  BY <2>6, <2>7
  <1>5. CASE node.kind = "number"
    <2>1. tokens = <<node.token>> /\ node.token \in Token /\ node.token.kind \in {"quoted", "bare"}
      BY <1>1, <1>5, NodeParts DEF NodeTokens, NumberToken
    <2>2. ~IsMark(node.token, Blanks \cup {":"})
      BY <2>1 DEF IsMark, Blanks
    <2> HIDE DEF tokens, node
    <2> QED  BY <1>3, <1>5, <2>1, <2>2 DEF node, tokens
  <1>6. CASE node.kind = "string"
    <2>1. tokens = <<Text(node.name)>> \o node.inside
      BY <1>1, <1>6 DEF NodeTokens
    <2>2. Text(node.name) \in Token /\ node.inside \in Seq(Token)
      BY <1>1, <1>6, NodeParts
    <2>3. ~IsMark(Text(node.name), Blanks \cup {":"})
      BY DEF IsMark, Blanks, Text
    <2> QED  BY <1>2, <1>6, <2>1, <2>2, <2>3
  <1>7. CASE node.kind = "null"
    <2>1. tokens = <<Mark("null")>> /\ Mark("null") \in Token
      BY <1>1, <1>7, NodeParts DEF NodeTokens, Marks
    <2>2. ~IsMark(Mark("null"), Blanks \cup {":"})
      BY DEF IsMark, Blanks, Mark
    <2> QED  BY <1>3, <1>7, <2>1, <2>2
  <1> QED  BY <1>1, <1>4, <1>5, <1>6, <1>7, NodeParts

(* Tokens put one behind the other.                                        *)
LEMMA TokenSequences ==
    /\ \A s, t \in Seq(Token) : s \o t \in Seq(Token)
    /\ \A s, t, u \in Seq(Token) : (s \o t) \o u = s \o (t \o u)
  <1>1. \A s, t \in Seq(Token) : s \o t \in Seq(Token)
    BY ConcatProperties
  <1>2. \A s, t, u \in Seq(Token) : (s \o t) \o u = s \o (t \o u)
    BY ConcatAssociative
  <1> QED  BY <1>1, <1>2

(* The same under names of their own, which keeps what the provers know of *)
(* sequences out of a proof that only moves brackets.                      *)
Spelt(s)    == s \in Seq(Token)
Chain(s, t) == s \o t

(* The same under names of their own, for the long sums below.             *)
LEMMA Chains ==
    /\ \A s, t : Spelt(s) /\ Spelt(t) => Spelt(Chain(s, t))
    /\ \A s, t, u : Spelt(s) /\ Spelt(t) /\ Spelt(u) =>
           Chain(Chain(s, t), u) = Chain(s, Chain(t, u))
  BY TokenSequences DEF Spelt, Chain

(* A member is between what stands before it and what stands behind it.    *)
LEMMA Regrouped ==
    \A a, b, l, v, r, c :
        Spelt(a) /\ Spelt(b) /\ Spelt(l) /\ Spelt(v) /\ Spelt(r) /\ Spelt(c) =>
            Chain(Chain(a, Chain(Chain(b, Chain(l, v)), r)), c)
                = Chain(Chain(Chain(a, b), l), Chain(v, Chain(r, c)))
  BY Chains

(* What is spelled first is spelled at the beginning.                      *)
Lengthens(f, pieces, size) ==
    /\ \A k \in 0 .. size : f[k] \in Seq(Token)
    /\ \A k \in 0 .. size - 1 : f[k + 1] = f[k] \o pieces[k + 1] /\ pieces[k + 1] \in Seq(Token)

(* What is spelled first stays at the beginning.                           *)
LEMMA SpelledFirst ==
    ASSUME NEW size \in Nat, NEW f, NEW pieces, Lengthens(f, pieces, size), NEW n \in 0 .. size
    PROVE  \E rest \in Seq(Token) : f[size] = f[n] \o rest
  <1> DEFINE T == {k \in Nat : k <= size => \E rest \in Seq(Token) : f[size] = f[size - k] \o rest}
  <1>2. 0 \in T
    <2>1. f[size] = f[size - 0] \o <<>> /\ <<>> \in Seq(Token)
      <3>1. size \in 0 .. size /\ size - 0 = size
        OBVIOUS
      <3>2. f[size] \in Seq(Token)
        BY <3>1 DEF Lengthens
      <3> QED  BY <3>1, <3>2, ConcatEmptySeq, EmptySeq
    <2> QED  BY <2>1
  <1>3. ASSUME NEW k \in Nat, k \in T
        PROVE  k + 1 \in T
    <2> SUFFICES ASSUME k + 1 <= size
                 PROVE  \E rest \in Seq(Token) : f[size] = f[size - (k + 1)] \o rest
      OBVIOUS
    <2>1. k <= size
      OBVIOUS
    <2>2. PICK rest \in Seq(Token) : f[size] = f[size - k] \o rest
      BY <1>3, <2>1
    <2>3. PICK m \in 0 .. size - 1 : m = size - (k + 1) /\ m + 1 = size - k
      OBVIOUS
    <2>4. m + 1 \in 1 .. size /\ m \in 0 .. size
      BY <2>3
    <2>5. f[m + 1] = f[m] \o pieces[m + 1] /\ pieces[m + 1] \in Seq(Token) /\ f[m] \in Seq(Token)
      BY <2>3, <2>4 DEF Lengthens
    <2>6. PICK start \in Seq(Token), piece \in Seq(Token) : start = f[m] /\ piece = pieces[m + 1]
      BY <2>5
    <2>7. (start \o piece) \o rest = start \o (piece \o rest) /\ piece \o rest \in Seq(Token)
      BY <2>2, <2>6, TokenSequences
    <2> QED  BY <2>2, <2>3, <2>5, <2>6, <2>7
  <1> HIDE DEF T
  <1>4. Nat \subseteq T
    BY <1>2, <1>3, NumberInduction
  <1>5. size - n \in Nat /\ size - n <= size /\ size - (size - n) = n
    OBVIOUS
  <1>6. size - n \in T
    BY <1>4, <1>5
  <1> QED  BY <1>5, <1>6 DEF T

(* Each member or item is found in its object or array behind its lead.    *)
PartAt(node, pretty, parts, f, n) ==
    /\ f[n - 1] \in Seq(Token) /\ Lead(node, n, pretty) \in Seq(Token)
    /\ <<Opening(node)>> \in Seq(Token) /\ parts[n] \in Seq(Token)
    /\ \E rest \in Seq(Token) :
           (<<Opening(node)>> \o f[Size(node)]) \o <<Closing(node)>> =
               ((<<Opening(node)>> \o f[n - 1]) \o Lead(node, n, pretty)) \o (parts[n] \o rest)

(* The n-th member or item among the tokens of its node.                   *)
LEMMA PartIn ==
    ASSUME NEW node \in Node, NEW pretty \in BOOLEAN,
           NEW parts \in [1 .. Size(node) -> Seq(Token)], NEW f, Spells(node, parts, pretty, f),
           NEW n \in 1 .. Size(node)
    PROVE  PartAt(node, pretty, parts, f, n)
  <1>0. PICK size \in Nat : size = Size(node)
    BY NodeParts
  <1>1. n - 1 \in 0 .. size /\ n - 1 \in 0 .. size - 1 /\ (n - 1) + 1 = n /\ n \in 0 .. Size(node)
    BY <1>0
  <1>2. /\ f[n] = f[n - 1] \o (Lead(node, n, pretty) \o parts[n])
        /\ f[n - 1] \in Seq(Token) /\ f[n] \in Seq(Token)
    BY <1>0, <1>1 DEF Spells
  <1>3. \E r \in Seq(Token) : f[Size(node)] = f[n] \o r
    <2> DEFINE pieces == [k \in 1 .. size |-> Lead(node, k, pretty) \o parts[k]]
    <2>1. \A k \in 0 .. size - 1 : f[k + 1] = f[k] \o pieces[k + 1] /\ pieces[k + 1] \in Seq(Token)
      <3>1. ASSUME NEW k \in 0 .. size - 1
            PROVE  f[k + 1] = f[k] \o pieces[k + 1] /\ pieces[k + 1] \in Seq(Token)
        <4>1. k + 1 \in 1 .. size /\ k + 1 \in 1 .. Size(node)
          BY <1>0
        <4>2. pieces[k + 1] = Lead(node, k + 1, pretty) \o parts[k + 1]
          BY <4>1
        <4> HIDE DEF pieces
        <4>3. f[k + 1] = f[k] \o (Lead(node, k + 1, pretty) \o parts[k + 1])
          BY <1>0 DEF Spells
        <4>4. Lead(node, k + 1, pretty) \in Seq(Token) /\ parts[k + 1] \in Seq(Token)
          BY <4>1, NodeParts
        <4> QED  BY <4>2, <4>3, <4>4, ConcatProperties
      <3> QED  BY <3>1
    <2> HIDE DEF pieces
    <2>2. \A k \in 0 .. size : f[k] \in Seq(Token)
      BY <1>0 DEF Spells
    <2>3. n \in 0 .. size
      BY <1>0, <1>1
    <2>4. Lengthens(f, pieces, size)
      BY <2>1, <2>2 DEF Lengthens
    <2>5. \E r \in Seq(Token) : f[size] = f[n] \o r
      BY <2>3, <2>4, SpelledFirst
    <2> QED  BY <1>0, <2>5
  <1>4. Lead(node, n, pretty) \in Seq(Token) /\ parts[n] \in Seq(Token)
    BY NodeParts
  <1>5. <<Opening(node)>> \in Seq(Token) /\ <<Closing(node)>> \in Seq(Token)
    BY NodeParts, ShortSequences
  <1>6. ASSUME NEW a, NEW c, NEW b, NEW l, NEW v, NEW t, NEW r,
               Spelt(a), Spelt(b), Spelt(c), Spelt(l), Spelt(v), Spelt(r),
               t = Chain(Chain(b, Chain(l, v)), r)
        PROVE  /\ Chain(Chain(a, t), c) = Chain(Chain(Chain(a, b), l), Chain(v, Chain(r, c)))
               /\ Spelt(Chain(r, c))
    BY <1>6, Regrouped, Chains
  <1>7. f[Size(node)] \in Seq(Token)
    BY <1>0 DEF Spells
  <1>8. PICK r \in Seq(Token) : f[Size(node)] = f[n] \o r
    BY <1>3
  <1> DEFINE open == <<Opening(node)>>
             close == <<Closing(node)>>
             lead == Lead(node, n, pretty)
             all == f[Size(node)]
             before == f[n - 1]
             part == parts[n]
  <1>9. /\ Spelt(open) /\ Spelt(close) /\ Spelt(before) /\ Spelt(lead) /\ Spelt(part) /\ Spelt(r)
        /\ all = Chain(Chain(before, Chain(lead, part)), r)
    BY <1>2, <1>4, <1>5, <1>8 DEF Spelt, Chain
  <1> HIDE DEF open, close, lead, all, before, part
  <1>10. /\ Chain(Chain(open, all), close)
                = Chain(Chain(Chain(open, before), lead), Chain(part, Chain(r, close)))
         /\ Spelt(Chain(r, close))
    BY <1>6, <1>9
  <1>11. /\ (open \o all) \o close = ((open \o before) \o lead) \o (part \o (r \o close))
         /\ r \o close \in Seq(Token)
    BY <1>10 DEF Spelt, Chain
  <1>12. \E rest \in Seq(Token) :
             (open \o all) \o close = ((open \o before) \o lead) \o (part \o rest)
    BY <1>11
  <1> QED  BY <1>2, <1>4, <1>5, <1>12 DEF open, close, lead, all, before, part, PartAt

-----------------------------------------------------------------------------
(* Navigating a document                                                   *)

(* The tokens a scan for a key passes over.                                *)
Others(name) == {t \in Token : ~(t.kind = "text" /\ t.name = name)}

ReachesKey(json, name, value) == KeysIn(json, name) # {} /\ AfterKey(json, name) = value

(* The first string with the name of a key leads to the value behind it.   *)
LEMMA KeyFound ==
    ASSUME NEW name \in STRING, NEW pretty \in BOOLEAN, NEW before \in Seq(Others(name)),
           NEW value, IsValue(value),
           NEW json, json = (before \o (<<Text(name)>> \o Colon(pretty))) \o value
    PROVE  ReachesKey(json, name, value)
  <1>0. value \in Seq(Token) /\ value # <<>> /\ ~IsMark(value[1], Blanks \cup {":"})
    BY DEF IsValue
  <1>1. PICK label \in Seq(Token) : label = <<Text(name)>> \o Colon(pretty)
    <2>1. <<Text(name)>> \o Colon(pretty) \in Seq(Token)
      <3>1. PICK node \in Node : node = Null
        BY DEF Node, Null
      <3> QED  BY <3>1, NodeParts
    <2> QED  BY <2>1
  <1>2. /\ label[1].kind = "text" /\ label[1].name = name /\ Len(label) \in Nat /\ Len(label) > 0
        /\ \A m \in 2 .. Len(label) : IsMark(label[m], Blanks \cup {":"})
    <2>1. CASE pretty
      <3>1. label = <<Text(name), Mark(":"), Mark(" ")>>
        BY <1>1, <2>1, PutBefore DEF Colon
      <3>2. Len(label) = 3 /\ label[1] = Text(name) /\ label[2] = Mark(":") /\ label[3] = Mark(" ")
        BY <3>1
      <3>3. \A m \in 2 .. 3 : m = 2 \/ m = 3
        OBVIOUS
      <3>4. Text(name).kind = "text" /\ Text(name).name = name
        BY DEF Text
      <3>5. IsMark(Mark(":"), Blanks \cup {":"}) /\ IsMark(Mark(" "), Blanks \cup {":"})
        BY DEF Mark, IsMark, Blanks
      <3>6. \A m \in 2 .. Len(label) : IsMark(label[m], Blanks \cup {":"})
        BY <3>2, <3>3, <3>5
      <3>7. label[1].kind = "text" /\ label[1].name = name
        BY <3>2, <3>4
      <3>8. Len(label) \in Nat /\ Len(label) > 0
        <4>1. Len(label) = 3
          BY <3>2
        <4> QED  BY <4>1
      <3> QED  BY <3>6, <3>7, <3>8
    <2>2. CASE ~pretty
      <3>1. label = <<Text(name), Mark(":")>>
        BY <1>1, <2>2, PutBefore DEF Colon
      <3>2. Len(label) = 2 /\ label[1] = Text(name) /\ label[2] = Mark(":")
        BY <3>1
      <3>3. \A m \in 2 .. 2 : m = 2
        OBVIOUS
      <3>4. Text(name).kind = "text" /\ Text(name).name = name
        BY DEF Text
      <3>5. IsMark(Mark(":"), Blanks \cup {":"}) /\ IsMark(Mark(" "), Blanks \cup {":"})
        BY DEF Mark, IsMark, Blanks
      <3>6. \A m \in 2 .. Len(label) : IsMark(label[m], Blanks \cup {":"})
        BY <3>2, <3>3, <3>5
      <3> QED  BY <3>2, <3>4, <3>6
    <2> QED  BY <2>1, <2>2
  <1>3. before \in Seq(Token)
    <2>1. Others(name) \subseteq Token
      BY DEF Others
    <2> QED  BY <2>1, SeqMonotonic
  <1>4. PICK lead \in Seq(Token) :
            /\ lead = before \o label
            /\ Len(before) \in Nat /\ Len(lead) = Len(before) + Len(label)
            /\ \A n \in 1 .. Len(before) : lead[n] = before[n]
            /\ \A n \in 1 .. Len(label) : lead[Len(before) + n] = label[n]
    <2>1. /\ before \o label \in Seq(Token)
          /\ Len(before) \in Nat /\ Len(before \o label) = Len(before) + Len(label)
          /\ \A n \in 1 .. Len(before) : (before \o label)[n] = before[n]
          /\ \A n \in 1 .. Len(label) : (before \o label)[Len(before) + n] = label[n]
      BY <1>3, Joined
    <2> QED  BY <2>1
  <1>5. /\ json = lead \o value /\ json \in Seq(Token)
        /\ DOMAIN json = 1 .. Len(lead) + Len(value) /\ Len(value) \in Nat
        /\ \A n \in 1 .. Len(lead) : json[n] = lead[n]
    BY <1>0, <1>1, <1>4, Joined
  <1>6. PICK here \in Nat : here = Len(before) + 1
    BY <1>4
  <1>7. here \in 1 .. Len(lead) /\ here + 1 \in 1 .. Len(lead) + 1 /\ here \in DOMAIN json
    BY <1>2, <1>4, <1>5, <1>6
  <1>8. lead[here] = label[1]
    <2>1. 1 \in 1 .. Len(label)
      BY <1>2
    <2> QED  BY <1>4, <1>6, <2>1
  <1>9. here \in KeysIn(json, name)
    BY <1>2, <1>5, <1>7, <1>8 DEF KeysIn
  <1>10. ASSUME NEW n \in KeysIn(json, name)
         PROVE  here <= n
    <2> SUFFICES ASSUME ~(here <= n) PROVE FALSE
      OBVIOUS
    <2>1. n \in DOMAIN json /\ json[n].kind = "text" /\ json[n].name = name
      BY DEF KeysIn
    <2>2. n \in 1 .. Len(before) /\ n \in 1 .. Len(lead)
      BY <1>4, <1>5, <1>6, <2>1
    <2>3. json[n] = before[n]
      BY <1>4, <1>5, <2>2
    <2>4. before[n] \in Others(name)
      BY <2>2, ElementOfSeq
    <2> QED  BY <2>1, <2>3, <2>4 DEF Others
  <1>11. KeysIn(json, name) \in SUBSET Nat
    BY <1>5 DEF KeysIn
  <1>12. Min(KeysIn(json, name)) = here
    BY <1>9, <1>10, <1>11, FirstIs
  <1>13. \A m \in here + 1 .. Len(lead) : IsMark(lead[m], Blanks \cup {":"})
    <2>1. ASSUME NEW m \in here + 1 .. Len(lead)
          PROVE  IsMark(lead[m], Blanks \cup {":"})
      <3>1. m - Len(before) \in 2 .. Len(label) /\ m - Len(before) \in 1 .. Len(label)
            /\ Len(before) + (m - Len(before)) = m
        BY <1>2, <1>4, <1>6
      <3>2. lead[m] = label[m - Len(before)]
        BY <1>4, <3>1
      <3> QED  BY <1>2, <3>1, <3>2
    <2> QED  BY <2>1
  <1>14. From(json, SkipFrom(json, here + 1, Blanks \cup {":"})) = value
    <2>1. PICK marks : marks = Blanks \cup {":"}
      OBVIOUS
    <2>2. From(lead \o value, SkipFrom(lead \o value, here + 1, marks)) = value
      BY <1>0, <1>7, <1>13, <2>1, SkipOver
    <2> QED  BY <1>5, <2>1, <2>2
  <1> QED  BY <1>9, <1>12, <1>14 DEF AfterKey, ReachesKey

-----------------------------------------------------------------------------
(* Counting brackets and commas                                            *)

Turn(token) ==
    IF IsMark(token, Openers) THEN 1 ELSE IF IsMark(token, Closers) THEN -1 ELSE 0

(* A token turns the depth up, down or not at all.                         *)
LEMMA DepthStep ==
    ASSUME NEW json, NEW from \in Int, NEW n \in Int, from <= n
    PROVE  /\ DepthAt(json, from, n) \in Int /\ DepthAt(json, from, from) = 0
           /\ DepthAt(json, from, n + 1) = DepthAt(json, from, n) + Turn(json[n])
  <1>1. PICK up, down : /\ up = {m \in Int : IsMark(json[m], Openers)}
                        /\ down = {m \in Int : IsMark(json[m], Closers)}
    OBVIOUS
  <1>2. ASSUME NEW k \in Int
        PROVE  DepthAt(json, from, k) = CountIn(up, from, k)
                                        - CountIn(down, from, k)
    <2>1. /\ {m \in from .. k - 1 : IsMark(json[m], Openers)} = {m \in from .. k - 1 : m \in up}
          /\ {m \in from .. k - 1 : IsMark(json[m], Closers)} = {m \in from .. k - 1 : m \in down}
      BY <1>1
    <2> QED  BY <2>1 DEF DepthAt, CountIn
  <1>3. /\ n \in up <=> IsMark(json[n], Openers)
        /\ n \in down <=> IsMark(json[n], Closers)
    BY <1>1
  <1>4. ~(n \in up /\ n \in down)
    <2>1. ~(IsMark(json[n], Openers) /\ IsMark(json[n], Closers))
      BY Zenon DEF IsMark, Openers, ArrayOpeners, Closers
    <2> QED  BY <1>3, <2>1
  <1>5. \A C : /\ CountIn(C, from, n) \in Nat
               /\ CountIn(C, from, n + 1) =
                      CountIn(C, from, n) + IF n \in C THEN 1 ELSE 0
               /\ CountIn(C, from, from) = 0
    BY CountNext
  <1>6. PICK u, v, d, e :
            /\ u = CountIn(up, from, n)
            /\ v = CountIn(up, from, n + 1)
            /\ d = CountIn(down, from, n)
            /\ e = CountIn(down, from, n + 1)
    OBVIOUS
  <1>7. /\ u \in Nat /\ d \in Nat
        /\ v = u + IF n \in up THEN 1 ELSE 0
        /\ e = d + IF n \in down THEN 1 ELSE 0
    BY <1>5, <1>6
  <1>8. /\ DepthAt(json, from, n) = u - d /\ DepthAt(json, from, n + 1) = v - e
        /\ DepthAt(json, from, from) = 0 - 0
    <2>1. n + 1 \in Int
      OBVIOUS
    <2> QED  BY <1>2, <1>5, <1>6, <2>1
  <1>9. Turn(json[n]) = IF n \in up THEN 1 ELSE IF n \in down THEN -1 ELSE 0
    BY <1>3 DEF Turn
  <1> QED  BY <1>4, <1>7, <1>8, <1>9

(* A comma counts where the depth is zero.                                 *)
LEMMA CommasStep ==
    ASSUME NEW json, NEW from \in Int, NEW n \in Int, from <= n
    PROVE  /\ CommasBefore(json, from, n) \in Nat /\ CommasBefore(json, from, from) = 0
           /\ CommasBefore(json, from, n + 1) =
                  CommasBefore(json, from, n)
                  + IF IsMark(json[n], Commas) /\ DepthAt(json, from, n) = 0 THEN 1 ELSE 0
  <1>1. PICK commas : commas = {m \in Int : IsMark(json[m], Commas) /\ DepthAt(json, from, m) = 0}
    OBVIOUS
  <1>2. ASSUME NEW k \in Int
        PROVE  CommasBefore(json, from, k) = CountIn(commas, from, k)
    <2>1. {m \in from .. k - 1 : IsMark(json[m], Commas) /\ DepthAt(json, from, m) = 0}
              = {m \in from .. k - 1 : m \in commas}
      BY <1>1
    <2> QED  BY <2>1 DEF CommasBefore, CountIn
  <1>3. n \in commas <=> IsMark(json[n], Commas) /\ DepthAt(json, from, n) = 0
    BY <1>1
  <1>4. /\ CountIn(commas, from, n) \in Nat
        /\ CountIn(commas, from, n + 1) =
               CountIn(commas, from, n) + IF n \in commas THEN 1 ELSE 0
        /\ CountIn(commas, from, from) = 0
    BY CountNext
  <1>5. n + 1 \in Int /\ from \in Int
    OBVIOUS
  <1> QED  BY <1>2, <1>3, <1>4, <1>5

(* s lies in json behind its first a tokens.                               *)
Lies(json, a, s) == \A m \in 1 .. Len(s) : json[a + m] = s[m]

(* Depths in json are those in s, counted from where s begins.             *)
DepthsShifted(json, from, a, s) ==
    \A i \in 1 .. Len(s) + 1 :
        /\ DepthAt(s, 1, i) \in Int
        /\ DepthAt(json, from, a + i) = DepthAt(json, from, a + 1) + DepthAt(s, 1, i)

(* A piece of json turns the depth as it does on its own.                  *)
LEMMA DepthShift ==
    ASSUME NEW json, NEW s, Len(s) \in Nat, NEW from \in Int, NEW a \in Int, from <= a + 1,
           Lies(json, a, s)
    PROVE  DepthsShifted(json, from, a, s)
  <1>0. PICK size \in Nat : size = Len(s)
    OBVIOUS
  <1> DEFINE T == {k \in Nat : k <= size =>
                      /\ DepthAt(s, 1, k + 1) \in Int
                      /\ DepthAt(json, from, a + (k + 1))
                             = DepthAt(json, from, a + 1) + DepthAt(s, 1, k + 1)}
  <1>1. DepthAt(json, from, a + 1) \in Int /\ DepthAt(s, 1, 1) = 0
    BY DepthStep
  <1>2. 0 \in T
    BY <1>1
  <1>3. ASSUME NEW k \in Nat, k \in T
        PROVE  k + 1 \in T
    <2> SUFFICES ASSUME k + 1 <= size
                 PROVE  /\ DepthAt(s, 1, (k + 1) + 1) \in Int
                        /\ DepthAt(json, from, a + ((k + 1) + 1))
                               = DepthAt(json, from, a + 1) + DepthAt(s, 1, (k + 1) + 1)
      OBVIOUS
    <2>1. /\ DepthAt(s, 1, k + 1) \in Int
          /\ DepthAt(json, from, a + (k + 1)) = DepthAt(json, from, a + 1) + DepthAt(s, 1, k + 1)
      BY <1>3
    <2>2. json[a + (k + 1)] = s[k + 1]
      <3>1. k + 1 \in 1 .. Len(s)
        BY <1>0
      <3> QED  BY <3>1 DEF Lies
    <2>3. PICK m \in Int, n \in Int : m = k + 1 /\ n = a + (k + 1) /\ 1 <= m /\ from <= n
      OBVIOUS
    <2>4. DepthAt(s, 1, m + 1) = DepthAt(s, 1, m) + Turn(s[m])
      BY <2>3, DepthStep
    <2>5. DepthAt(json, from, n + 1) = DepthAt(json, from, n) + Turn(json[n])
      BY <2>3, DepthStep
    <2>6. n + 1 = a + ((k + 1) + 1) /\ Turn(s[m]) \in Int
      BY <2>3 DEF Turn
    <2> QED  BY <1>1, <2>1, <2>2, <2>3, <2>4, <2>5, <2>6
  <1> HIDE DEF T
  <1>4. Nat \subseteq T
    BY <1>2, <1>3, NumberInduction
  <1>5. ASSUME NEW i \in 1 .. Len(s) + 1
        PROVE  /\ DepthAt(s, 1, i) \in Int
               /\ DepthAt(json, from, a + i) = DepthAt(json, from, a + 1) + DepthAt(s, 1, i)
    <2>1. i - 1 \in Nat /\ i - 1 <= size /\ (i - 1) + 1 = i
      BY <1>0
    <2>2. i - 1 \in T
      BY <1>4, <2>1
    <2> QED  BY <2>1, <2>2 DEF T
  <1> QED  BY <1>5 DEF DepthsShifted

CommasShifted(json, from, a, s) ==
    \A i \in 1 .. Len(s) + 1 :
        /\ CommasBefore(s, 1, i) \in Nat
        /\ CommasBefore(json, from, a + i)
               = CommasBefore(json, from, a + 1) + CommasBefore(s, 1, i)

(* It adds its own commas when it begins at depth zero.                    *)
LEMMA CommasShift ==
    ASSUME NEW json, NEW s, Len(s) \in Nat, NEW from \in Int, NEW a \in Int, from <= a + 1,
           Lies(json, a, s), DepthAt(json, from, a + 1) = 0
    PROVE  CommasShifted(json, from, a, s)
  <1>0. PICK size \in Nat : size = Len(s)
    OBVIOUS
  <1> DEFINE T == {k \in Nat : k <= size =>
                      /\ CommasBefore(s, 1, k + 1) \in Nat
                      /\ CommasBefore(json, from, a + (k + 1))
                             = CommasBefore(json, from, a + 1) + CommasBefore(s, 1, k + 1)}
  <1>1. CommasBefore(json, from, a + 1) \in Nat /\ CommasBefore(s, 1, 1) = 0
    <2>1. a + 1 \in Int /\ 1 \in Int /\ 1 <= 1
      OBVIOUS
    <2>2. CommasBefore(json, from, a + 1) \in Nat
      BY <2>1, CommasStep
    <2>3. CommasBefore(s, 1, 1) = 0
      BY <2>1, CommasStep
    <2> QED  BY <2>2, <2>3
  <1>2. 0 \in T
    BY <1>1
  <1>3. ASSUME NEW k \in Nat, k \in T
        PROVE  k + 1 \in T
    <2> SUFFICES ASSUME k + 1 <= size
                 PROVE  /\ CommasBefore(s, 1, (k + 1) + 1) \in Nat
                        /\ CommasBefore(json, from, a + ((k + 1) + 1))
                               = CommasBefore(json, from, a + 1) + CommasBefore(s, 1, (k + 1) + 1)
      OBVIOUS
    <2>1. /\ CommasBefore(s, 1, k + 1) \in Nat
          /\ CommasBefore(json, from, a + (k + 1))
                 = CommasBefore(json, from, a + 1) + CommasBefore(s, 1, k + 1)
      BY <1>3
    <2>2. json[a + (k + 1)] = s[k + 1] /\ DepthAt(json, from, a + (k + 1)) = DepthAt(s, 1, k + 1)
      <3>1. k + 1 \in 1 .. Len(s) /\ k + 1 \in 1 .. Len(s) + 1
        BY <1>0
      <3>2. \A i \in 1 .. Len(s) + 1 :
                /\ DepthAt(s, 1, i) \in Int
                /\ DepthAt(json, from, a + i) = DepthAt(json, from, a + 1) + DepthAt(s, 1, i)
        BY DepthShift DEF DepthsShifted
      <3> QED  BY <3>1, <3>2 DEF Lies
    <2>3. PICK m \in Int, n \in Int : m = k + 1 /\ n = a + (k + 1) /\ 1 <= m /\ from <= n
      OBVIOUS
    <2> HIDE DEF Commas
    <2>4. CommasBefore(s, 1, m + 1)
              = CommasBefore(s, 1, m)
                + IF IsMark(s[m], Commas) /\ DepthAt(s, 1, m) = 0 THEN 1 ELSE 0
      <3>1. PICK one \in Int : one = 1 /\ one <= m
        BY <2>3
      <3>2. CommasBefore(s, one, m + 1)
                = CommasBefore(s, one, m)
                  + IF IsMark(s[m], Commas) /\ DepthAt(s, one, m) = 0 THEN 1 ELSE 0
        BY <2>3, <3>1, CommasStep
      <3> QED  BY <3>1, <3>2
    <2>5. CommasBefore(json, from, n + 1)
              = CommasBefore(json, from, n)
                + IF IsMark(json[n], Commas) /\ DepthAt(json, from, n) = 0 THEN 1 ELSE 0
      BY <2>3, CommasStep
    <2>6. n + 1 = a + ((k + 1) + 1)
      BY <2>3
    <2>7. PICK more \in Nat : more = IF IsMark(s[m], Commas) /\ DepthAt(s, 1, m) = 0 THEN 1 ELSE 0
      OBVIOUS
    <2>8. more = IF IsMark(json[n], Commas) /\ DepthAt(json, from, n) = 0 THEN 1 ELSE 0
      <3>1. json[n] = s[m] /\ DepthAt(json, from, n) = DepthAt(s, 1, m)
        BY <2>2, <2>3
      <3> QED  BY <2>7, <3>1
    <2>9. /\ CommasBefore(s, 1, m + 1) = CommasBefore(s, 1, m) + more
          /\ CommasBefore(json, from, n + 1) = CommasBefore(json, from, n) + more
      BY <2>4, <2>5, <2>7, <2>8
    <2> QED  BY <1>1, <2>1, <2>3, <2>6, <2>7, <2>9
  <1> HIDE DEF T
  <1>4. Nat \subseteq T
    BY <1>2, <1>3, NumberInduction
  <1>5. ASSUME NEW i \in 1 .. Len(s) + 1
        PROVE  /\ CommasBefore(s, 1, i) \in Nat
               /\ CommasBefore(json, from, a + i)
                      = CommasBefore(json, from, a + 1) + CommasBefore(s, 1, i)
    <2>1. i - 1 \in Nat /\ i - 1 <= size /\ (i - 1) + 1 = i
      BY <1>0
    <2>2. i - 1 \in T
      BY <1>4, <2>1
    <2> QED  BY <2>1, <2>2 DEF T
  <1> QED  BY <1>5 DEF CommasShifted

-----------------------------------------------------------------------------
(* Brackets that match, and the commas between them                        *)

(* Every closing bracket has its opening one before it.                    *)
Balanced(s) ==
    /\ s \in Seq(Token)
    /\ \A i \in 1 .. Len(s) + 1 : DepthAt(s, 1, i) \in Nat
    /\ DepthAt(s, 1, Len(s) + 1) = 0

(* c commas are counted in s, and no more than that on the way.            *)
Has(s, c) ==
    /\ Balanced(s) /\ c \in Nat
    /\ \A i \in 1 .. Len(s) + 1 : CommasBefore(s, 1, i) \in Nat /\ CommasBefore(s, 1, i) <= c
    /\ CommasBefore(s, 1, Len(s) + 1) = c

Quiet(s) == \A m \in 1 .. Len(s) : ~IsMark(s[m], Openers) /\ ~IsMark(s[m], Closers)
Tight(s) == \A m \in 1 .. Len(s) : ~(IsMark(s[m], Commas) /\ DepthAt(s, 1, m) = 0)

(* Without brackets the depth stays zero.                                  *)
LEMMA QuietBalanced ==
    ASSUME NEW s \in Seq(Token), Quiet(s)
    PROVE  Balanced(s) /\ \A i \in 1 .. Len(s) + 1 : DepthAt(s, 1, i) = 0
  <1>1. PICK size \in Nat : size = Len(s)
    BY LenProperties
  <1>2. ASSUME NEW i \in 1 .. size + 1
        PROVE  DepthAt(s, 1, i) = 0
    <2>1. {m \in 1 .. i - 1 : IsMark(s[m], Openers)} = {}
      <3>1. \A m \in 1 .. i - 1 : m \in 1 .. Len(s)
        BY <1>1
      <3> QED  BY <3>1 DEF Quiet
    <2>2. {m \in 1 .. i - 1 : IsMark(s[m], Closers)} = {}
      <3>1. \A m \in 1 .. i - 1 : m \in 1 .. Len(s)
        BY <1>1
      <3> QED  BY <3>1 DEF Quiet
    <2>3. Cardinality({}) = 0
      BY FS_EmptySet
    <2>4. DepthAt(s, 1, i) = 0 - 0
      BY <2>1, <2>2, <2>3 DEF DepthAt
    <2> QED  BY <2>4
  <1>3. size + 1 \in 1 .. size + 1
    OBVIOUS
  <1> QED  BY <1>1, <1>2, <1>3 DEF Balanced

(* No commas outside brackets: none are counted.                           *)
LEMMA TightHasNone ==
    ASSUME NEW s, Balanced(s), Tight(s)
    PROVE  Has(s, 0)
  <1>1. PICK size \in Nat : size = Len(s)
    BY LenProperties DEF Balanced
  <1>2. ASSUME NEW i \in 1 .. size + 1
        PROVE  CommasBefore(s, 1, i) = 0
    <2>1. {m \in 1 .. i - 1 : IsMark(s[m], Commas) /\ DepthAt(s, 1, m) = 0} = {}
      <3>1. \A m \in 1 .. i - 1 : m \in 1 .. Len(s)
        BY <1>1
      <3> QED  BY <3>1 DEF Tight
    <2>2. Cardinality({}) = 0
      BY FS_EmptySet
    <2> QED  BY <2>1, <2>2 DEF CommasBefore
  <1>3. size + 1 \in 1 .. size + 1
    OBVIOUS
  <1> QED  BY <1>1, <1>2, <1>3 DEF Has

(* Depths and commas in what is made of two.                               *)
LEMMA JoinedDepths ==
    ASSUME NEW s, NEW t, Balanced(s), t \in Seq(Token)
    PROVE  /\ \A i \in 1 .. Len(s) + 1 : DepthAt(s \o t, 1, i) = DepthAt(s, 1, i)
           /\ \A i \in 1 .. Len(t) + 1 : DepthAt(s \o t, 1, Len(s) + i) = DepthAt(t, 1, i)
           /\ \A i \in 1 .. Len(s) + 1 : CommasBefore(s \o t, 1, i) = CommasBefore(s, 1, i)
           /\ \A i \in 1 .. Len(t) + 1 :
                  CommasBefore(s \o t, 1, Len(s) + i)
                      = CommasBefore(s, 1, Len(s) + 1) + CommasBefore(t, 1, i)
  <1>1. s \in Seq(Token)
    BY DEF Balanced
  <1>2. PICK json \in Seq(Token) :
            /\ json = s \o t /\ Len(s) \in Nat /\ Len(t) \in Nat
            /\ \A n \in 1 .. Len(s) : json[n] = s[n]
            /\ \A n \in 1 .. Len(t) : json[Len(s) + n] = t[n]
    <2>1. /\ s \o t \in Seq(Token) /\ Len(s) \in Nat /\ Len(t) \in Nat
          /\ \A n \in 1 .. Len(s) : (s \o t)[n] = s[n]
          /\ \A n \in 1 .. Len(t) : (s \o t)[Len(s) + n] = t[n]
      BY <1>1, Joined
    <2> QED  BY <2>1
  <1>3. PICK zero \in Int, one \in Int : zero = 0 /\ one = 1 /\ one <= zero + 1
    OBVIOUS
  <1>4. PICK a \in Int : a = Len(s) /\ one <= a + 1
    BY <1>2, <1>3
  <1>5. Lies(json, zero, s) /\ Lies(json, a, t)
    <2>1. \A m \in 1 .. Len(s) : zero + m = m
      BY <1>3
    <2> QED  BY <1>2, <1>4, <2>1 DEF Lies
  <1>6. DepthsShifted(json, one, zero, s)
    BY <1>2, <1>3, <1>5, DepthShift
  <1>7. DepthAt(json, one, zero + 1) = 0
    <2>1. DepthAt(json, one, one) = 0
      <3>1. one <= one
        BY <1>3
      <3> QED  BY <3>1, DepthStep
    <2> QED  BY <1>3, <2>1
  <1>8. \A i \in 1 .. Len(s) + 1 : DepthAt(json, 1, i) = DepthAt(s, 1, i)
    <2>1. \A i \in 1 .. Len(s) + 1 : zero + i = i
      BY <1>2, <1>3
    <2> QED  BY <1>3, <1>6, <1>7, <2>1 DEF DepthsShifted
  <1>9. DepthAt(json, one, a + 1) = 0
    <2>1. Len(s) + 1 \in 1 .. Len(s) + 1
      BY <1>2
    <2>2. DepthAt(s, 1, Len(s) + 1) = 0
      BY DEF Balanced
    <2> QED  BY <1>3, <1>4, <1>8, <2>1, <2>2
  <1>10. DepthsShifted(json, one, a, t)
    BY <1>2, <1>3, <1>4, <1>5, DepthShift
  <1>11. \A i \in 1 .. Len(t) + 1 : DepthAt(json, 1, Len(s) + i) = DepthAt(t, 1, i)
    BY <1>3, <1>4, <1>9, <1>10 DEF DepthsShifted
  <1>12. CommasShifted(json, one, zero, s)
    BY <1>2, <1>3, <1>5, <1>7, CommasShift
  <1>13. CommasBefore(json, one, zero + 1) = 0
    <2>1. CommasBefore(json, one, one) = 0
      <3>1. one <= one
        BY <1>3
      <3> QED  BY <3>1, CommasStep
    <2> QED  BY <1>3, <2>1
  <1>14. \A i \in 1 .. Len(s) + 1 : CommasBefore(json, 1, i) = CommasBefore(s, 1, i)
    <2>1. \A i \in 1 .. Len(s) + 1 : zero + i = i
      BY <1>2, <1>3
    <2> QED  BY <1>3, <1>12, <1>13, <2>1 DEF CommasShifted
  <1>15. CommasShifted(json, one, a, t)
    BY <1>2, <1>3, <1>4, <1>5, <1>9, CommasShift
  <1>16. \A i \in 1 .. Len(t) + 1 :
             CommasBefore(json, 1, Len(s) + i)
                 = CommasBefore(s, 1, Len(s) + 1) + CommasBefore(t, 1, i)
    <2>1. Len(s) + 1 \in 1 .. Len(s) + 1
      BY <1>2
    <2> QED  BY <1>3, <1>4, <1>14, <1>15, <2>1 DEF CommasShifted
  <1> QED  BY <1>2, <1>8, <1>11, <1>14, <1>16

(* Brackets that match, then brackets that match.                          *)
LEMMA BalancedJoin ==
    ASSUME NEW s, NEW t, Balanced(s), Balanced(t)
    PROVE  Balanced(s \o t)
  <1>1. s \in Seq(Token) /\ t \in Seq(Token)
    BY DEF Balanced
  <1>2. PICK a \in Nat, b \in Nat : a = Len(s) /\ b = Len(t)
    BY <1>1, LenProperties
  <1>3. PICK json \in Seq(Token) : json = s \o t /\ Len(json) = a + b
    BY <1>1, <1>2, Joined
  <1>4. /\ \A i \in 1 .. a + 1 : DepthAt(json, 1, i) = DepthAt(s, 1, i)
        /\ \A i \in 1 .. b + 1 : DepthAt(json, 1, a + i) = DepthAt(t, 1, i)
    BY <1>1, <1>2, <1>3, JoinedDepths
  <1>5. /\ \A i \in 1 .. a + 1 : DepthAt(s, 1, i) \in Nat
        /\ \A i \in 1 .. b + 1 : DepthAt(t, 1, i) \in Nat
        /\ DepthAt(t, 1, b + 1) = 0
    BY <1>2 DEF Balanced
  <1>6. ASSUME NEW i \in 1 .. (a + b) + 1
        PROVE  DepthAt(json, 1, i) \in Nat
    <2>1. CASE i <= a + 1
      <3>1. i \in 1 .. a + 1
        BY <2>1
      <3> QED  BY <1>4, <1>5, <3>1
    <2>2. CASE ~(i <= a + 1)
      <3>1. i - a \in 1 .. b + 1 /\ a + (i - a) = i
        BY <2>2
      <3> QED  BY <1>4, <1>5, <3>1
    <2> QED  BY <2>1, <2>2
  <1>7. DepthAt(json, 1, (a + b) + 1) = 0
    <2>1. b + 1 \in 1 .. b + 1 /\ a + (b + 1) = (a + b) + 1
      OBVIOUS
    <2> QED  BY <1>4, <1>5, <2>1
  <1> QED  BY <1>3, <1>6, <1>7 DEF Balanced

(* Commas counted, then more commas.                                       *)
LEMMA HasJoin ==
    ASSUME NEW s, NEW t, NEW c, NEW d, Has(s, c), Has(t, d)
    PROVE  Has(s \o t, c + d)
  <1>0. Balanced(s) /\ Balanced(t) /\ Balanced(s \o t) /\ c \in Nat /\ d \in Nat
    BY BalancedJoin DEF Has
  <1>1. s \in Seq(Token) /\ t \in Seq(Token)
    BY <1>0 DEF Balanced
  <1>2. PICK a \in Nat, b \in Nat : a = Len(s) /\ b = Len(t)
    BY <1>1, LenProperties
  <1>3. PICK json \in Seq(Token) : json = s \o t /\ Len(json) = a + b
    BY <1>1, <1>2, Joined
  <1>4. /\ \A i \in 1 .. a + 1 : CommasBefore(json, 1, i) = CommasBefore(s, 1, i)
        /\ \A i \in 1 .. b + 1 :
               CommasBefore(json, 1, a + i) = CommasBefore(s, 1, a + 1) + CommasBefore(t, 1, i)
    BY <1>0, <1>1, <1>2, <1>3, JoinedDepths
  <1>5. /\ \A i \in 1 .. a + 1 : CommasBefore(s, 1, i) \in Nat /\ CommasBefore(s, 1, i) <= c
        /\ \A i \in 1 .. b + 1 : CommasBefore(t, 1, i) \in Nat /\ CommasBefore(t, 1, i) <= d
        /\ CommasBefore(s, 1, a + 1) = c /\ CommasBefore(t, 1, b + 1) = d
    BY <1>2 DEF Has
  <1>6. ASSUME NEW i \in 1 .. (a + b) + 1
        PROVE  CommasBefore(json, 1, i) \in Nat /\ CommasBefore(json, 1, i) <= c + d
    <2>1. CASE i <= a + 1
      <3>1. i \in 1 .. a + 1
        BY <2>1
      <3>2. PICK v \in Nat : v = CommasBefore(json, 1, i) /\ v <= c
        BY <1>4, <1>5, <3>1
      <3> QED  BY <1>0, <3>2
    <2>2. CASE ~(i <= a + 1)
      <3>1. i - a \in 1 .. b + 1 /\ a + (i - a) = i
        BY <2>2
      <3>2. PICK v \in Nat : v = CommasBefore(t, 1, i - a) /\ v <= d
        BY <1>5, <3>1
      <3>3. CommasBefore(json, 1, i) = c + v
        BY <1>4, <1>5, <3>1, <3>2
      <3> QED  BY <1>0, <3>2, <3>3
    <2> QED  BY <2>1, <2>2
  <1>7. CommasBefore(json, 1, (a + b) + 1) = c + d
    <2>1. b + 1 \in 1 .. b + 1 /\ a + (b + 1) = (a + b) + 1
      OBVIOUS
    <2> QED  BY <1>4, <1>5, <2>1
  <1> QED  BY <1>0, <1>3, <1>6, <1>7 DEF Has

(* What stands between brackets is not counted.                            *)
LEMMA Enclosed ==
    ASSUME NEW s, Balanced(s), NEW open \in Token, NEW close \in Token,
           IsMark(open, Openers), IsMark(close, Closers), ~IsMark(open, Commas),
           ~IsMark(close, Commas)
    PROVE  Has((<<open>> \o s) \o <<close>>, 0) /\ Tight((<<open>> \o s) \o <<close>>)
  <1>1. s \in Seq(Token)
    BY DEF Balanced
  <1>2. PICK left \in Seq(Token), right \in Seq(Token) :
            /\ left = <<open>> /\ right = <<close>> /\ Len(left) = 1 /\ Len(right) = 1
            /\ left[1] = open /\ right[1] = close
    <2>1. /\ <<open>> \in Seq(Token) /\ <<close>> \in Seq(Token)
          /\ Len(<<open>>) = 1 /\ Len(<<close>>) = 1 /\ <<open>>[1] = open /\ <<close>>[1] = close
      OBVIOUS
    <2> QED  BY <2>1
  <1>3. PICK size \in Nat : size = Len(s)
    BY <1>1, LenProperties
  <1>4. PICK lead \in Seq(Token) :
            /\ lead = left \o s /\ Len(lead) = size + 1
            /\ lead[1] = open /\ \A n \in 1 .. size : lead[1 + n] = s[n]
    <2>1. /\ left \o s \in Seq(Token) /\ Len(left \o s) = Len(left) + Len(s)
          /\ \A n \in 1 .. Len(left) : (left \o s)[n] = left[n]
          /\ \A n \in 1 .. Len(s) : (left \o s)[Len(left) + n] = s[n]
      BY <1>1, <1>2, Joined
    <2>2. 1 \in 1 .. Len(left) /\ Len(left) + Len(s) = size + 1
      BY <1>2, <1>3
    <2> QED  BY <1>2, <1>3, <2>1, <2>2
  <1>5. PICK json \in Seq(Token) :
            /\ json = lead \o right /\ Len(json) = size + 2
            /\ json[1] = open /\ json[size + 2] = close
            /\ \A n \in 1 .. size : json[1 + n] = s[n]
    <2>1. /\ lead \o right \in Seq(Token) /\ Len(lead \o right) = Len(lead) + Len(right)
          /\ \A n \in 1 .. Len(lead) : (lead \o right)[n] = lead[n]
          /\ \A n \in 1 .. Len(right) : (lead \o right)[Len(lead) + n] = right[n]
      BY <1>2, <1>4, Joined
    <2>2. /\ 1 \in 1 .. Len(lead) /\ 1 \in 1 .. Len(right) /\ Len(lead) + 1 = size + 2
          /\ \A n \in 1 .. size : 1 + n \in 1 .. Len(lead)
      BY <1>2, <1>4
    <2>3. (lead \o right)[Len(lead) + 1] = right[1]
      BY <2>1, <2>2
    <2>4. \A n \in 1 .. size : (lead \o right)[1 + n] = s[n]
      BY <1>4, <2>1, <2>2
    <2>5. /\ (lead \o right)[1] = open /\ (lead \o right)[size + 2] = close
          /\ Len(lead \o right) = size + 2
      BY <1>2, <1>4, <2>1, <2>2, <2>3
    <2> QED  BY <2>1, <2>4, <2>5
  <1>6. Turn(open) = 1 /\ Turn(close) = -1
    <2>1. ~IsMark(close, Openers)
      BY Zenon DEF IsMark, Openers, ArrayOpeners, Closers
    <2> QED  BY <2>1 DEF Turn
  <1>7. DepthAt(json, 1, 1) = 0 /\ DepthAt(json, 1, 2) = 1
    <2>1. PICK one \in Int : one = 1 /\ one <= one /\ one + 1 = 2
      OBVIOUS
    <2>2. DepthAt(json, one, one) = 0 /\ DepthAt(json, one, one + 1) = DepthAt(json, one, one) + Turn(json[one])
      BY <2>1, DepthStep
    <2> QED  BY <1>5, <1>6, <2>1, <2>2
  <1>8. \A i \in 1 .. size + 1 :
            DepthAt(s, 1, i) \in Nat /\ DepthAt(json, 1, 1 + i) = 1 + DepthAt(s, 1, i)
    <2>1. PICK one \in Int : one = 1 /\ one <= one + 1 /\ one + 1 = 2
      OBVIOUS
    <2>2. Lies(json, one, s)
      BY <1>3, <1>5, <2>1 DEF Lies
    <2>3. DepthsShifted(json, one, one, s)
      BY <1>3, <2>1, <2>2, DepthShift
    <2>4. \A i \in 1 .. size + 1 : DepthAt(s, 1, i) \in Nat
      BY <1>3 DEF Balanced
    <2> QED  BY <1>3, <1>7, <2>1, <2>3, <2>4 DEF DepthsShifted
  <1>9. DepthAt(json, 1, size + 2) = 1
    <2>1. size + 1 \in 1 .. size + 1 /\ 1 + (size + 1) = size + 2
      OBVIOUS
    <2>2. DepthAt(s, 1, size + 1) = 0
      BY <1>3 DEF Balanced
    <2> QED  BY <1>8, <2>1, <2>2
  <1>10. DepthAt(json, 1, size + 3) = 0
    <2>1. PICK one \in Int, n \in Int : one = 1 /\ n = size + 2 /\ one <= n /\ n + 1 = size + 3
      OBVIOUS
    <2>2. DepthAt(json, one, n + 1) = DepthAt(json, one, n) + Turn(json[n])
      BY <2>1, DepthStep
    <2> QED  BY <1>5, <1>6, <1>9, <2>1, <2>2
  <1>11. \A i \in 2 .. size + 2 : DepthAt(json, 1, i) \in Nat /\ DepthAt(json, 1, i) # 0
    <2>1. ASSUME NEW i \in 2 .. size + 2
          PROVE  DepthAt(json, 1, i) \in Nat /\ DepthAt(json, 1, i) # 0
      <3>1. i - 1 \in 1 .. size + 1 /\ 1 + (i - 1) = i
        OBVIOUS
      <3>2. DepthAt(s, 1, i - 1) \in Nat /\ DepthAt(json, 1, i) = 1 + DepthAt(s, 1, i - 1)
        BY <1>8, <3>1
      <3> QED  BY <3>2
    <2> QED  BY <2>1
  <1>12. Balanced(json)
    <2>1. ASSUME NEW i \in 1 .. Len(json) + 1
          PROVE  DepthAt(json, 1, i) \in Nat
      <3>1. i = 1 \/ i = size + 3 \/ i \in 2 .. size + 2
        BY <1>5
      <3> QED  BY <1>7, <1>10, <1>11, <3>1
    <2>2. Len(json) + 1 = size + 3
      BY <1>5
    <2> QED  BY <1>10, <2>1, <2>2 DEF Balanced
  <1>13. Tight(json)
    <2>1. ASSUME NEW m \in 1 .. Len(json)
          PROVE  ~(IsMark(json[m], Commas) /\ DepthAt(json, 1, m) = 0)
      <3>1. m = 1 \/ m \in 2 .. size + 2
        BY <1>5
      <3> QED  BY <1>5, <1>11, <3>1
    <2> QED  BY <2>1 DEF Tight
  <1>14. Has(json, 0)
    BY <1>12, <1>13, TightHasNone
  <1> QED  BY <1>2, <1>4, <1>5, <1>13, <1>14

-----------------------------------------------------------------------------
(* Members and items, found by counting                                    *)

(* Tokens that are neither brackets nor commas.                            *)
Uncounted(t) == ~IsMark(t, Openers) /\ ~IsMark(t, Closers) /\ ~IsMark(t, Commas)

(* What counts and what does not, of the tokens of a node ...              *)
LEMMA Counting ==
    /\ \A name : Uncounted(Text(name))
    /\ \A t \in NumberToken : Uncounted(t)
    /\ \A node : /\ IsMark(Opening(node), Openers) /\ ~IsMark(Opening(node), Commas)
                 /\ IsMark(Closing(node), Closers) /\ ~IsMark(Closing(node), Commas)
                 /\ node.kind = "array" => IsMark(Opening(node), ArrayOpeners)
  <1>1. \A name : Uncounted(Text(name))
    BY Zenon DEF Uncounted, Text, IsMark, Openers, ArrayOpeners, Closers, Commas
  <1>2. ASSUME NEW t \in NumberToken
        PROVE  Uncounted(t)
    <2>1. t.kind = "quoted" \/ t.kind = "bare"
      BY DEF NumberToken
    <2> QED  BY Zenon, <2>1 DEF Uncounted, IsMark, Openers, ArrayOpeners, Closers, Commas
  <1>5. ASSUME NEW node
        PROVE  /\ IsMark(Opening(node), Openers) /\ ~IsMark(Opening(node), Commas)
               /\ IsMark(Closing(node), Closers) /\ ~IsMark(Closing(node), Commas)
               /\ node.kind = "array" => IsMark(Opening(node), ArrayOpeners)
    <2>1. CASE node.kind = "array"
      BY Zenon, <2>1 DEF Opening, Closing, Mark, IsMark, Openers, ArrayOpeners, Closers, Commas
    <2>2. CASE node.kind # "array"
      BY Zenon, <2>2 DEF Opening, Closing, Mark, IsMark, Openers, ArrayOpeners, Closers, Commas
    <2> QED  BY <2>1, <2>2
  <1> QED  BY <1>1, <1>2, <1>5

(* ... and of the marks between them.                                      *)
LEMMA CountingMarks ==
    /\ IsMark(Mark(","), Commas) /\ ~IsMark(Mark(","), Openers) /\ ~IsMark(Mark(","), Closers)
    /\ Uncounted(Mark(":")) /\ Uncounted(Mark(" ")) /\ Uncounted(Mark("newline"))
    /\ Uncounted(Mark("null"))
  <1>1. IsMark(Mark(","), Commas) /\ ~IsMark(Mark(","), Openers) /\ ~IsMark(Mark(","), Closers)
    BY Zenon DEF Mark, IsMark, Openers, ArrayOpeners, Closers, Commas
  <1>2. /\ Uncounted(Mark(":")) /\ Uncounted(Mark(" ")) /\ Uncounted(Mark("newline"))
        /\ Uncounted(Mark("null"))
    BY Zenon DEF Uncounted, Mark, IsMark, Openers, ArrayOpeners, Closers, Commas
  <1> QED  BY Zenon, <1>1, <1>2

(* No brackets, then no brackets.                                          *)
LEMMA QuietJoin ==
    ASSUME NEW s \in Seq(Token), NEW t \in Seq(Token), Quiet(s), Quiet(t)
    PROVE  Quiet(s \o t)
  <1>1. PICK json \in Seq(Token) :
            /\ json = s \o t /\ Len(s) \in Nat /\ Len(t) \in Nat /\ Len(json) = Len(s) + Len(t)
            /\ \A n \in 1 .. Len(s) : json[n] = s[n]
            /\ \A n \in 1 .. Len(t) : json[Len(s) + n] = t[n]
    <2>1. /\ s \o t \in Seq(Token) /\ Len(s) \in Nat /\ Len(t) \in Nat
          /\ Len(s \o t) = Len(s) + Len(t)
          /\ \A n \in 1 .. Len(s) : (s \o t)[n] = s[n]
          /\ \A n \in 1 .. Len(t) : (s \o t)[Len(s) + n] = t[n]
      BY Joined
    <2> QED  BY <2>1
  <1>2. ASSUME NEW m \in 1 .. Len(json)
        PROVE  ~IsMark(json[m], Openers) /\ ~IsMark(json[m], Closers)
    <2>1. CASE m <= Len(s)
      <3>1. m \in 1 .. Len(s)
        BY <1>1, <2>1
      <3> QED  BY <1>1, <3>1 DEF Quiet
    <2>2. CASE ~(m <= Len(s))
      <3>1. m - Len(s) \in 1 .. Len(t) /\ Len(s) + (m - Len(s)) = m
        BY <1>1, <2>2
      <3> QED  BY <1>1, <3>1 DEF Quiet
    <2> QED  BY <2>1, <2>2
  <1> QED  BY <1>1, <1>2 DEF Quiet

(* A comma is one token or two.                                            *)
LEMMA OneOrTwo ==
    \A size \in Nat : size = 1 \/ size = 2 =>
        /\ size + 1 = 2 \/ (size = 2 /\ size + 1 = 3)
        /\ \A i \in 1 .. size + 1 : i = 1 \/ i = 2 \/ (size = 2 /\ i = 3)
  OBVIOUS

(* A comma, with a blank behind it or not.                                 *)
Separates(comma) ==
    /\ comma \in Seq(Token) /\ Has(comma, 1) /\ CommasBefore(comma, 1, 2) = 1
    /\ \/ Len(comma) = 1
       \/ Len(comma) = 2 /\ IsMark(comma[2], Blanks)

(* A comma with its blank counts for one, the name of a member for none.   *)
LEMMA LeadsCounted ==
    ASSUME NEW pretty \in BOOLEAN
    PROVE  /\ Separates(Comma(pretty)) /\ Has(Comma(pretty), 1) /\ Balanced(<<>>)
           /\ \A name \in STRING : Balanced(<<Text(name)>> \o Colon(pretty))
  <1>0. PICK node \in Node : node = Null
    BY DEF Node, Null
  <1>1. Comma(pretty) \in Seq(Token) /\ Colon(pretty) \in Seq(Token)
    BY NodeParts
  <1>2. Quiet(<<>>)
    <2>1. Len(<<>>) = 0
      OBVIOUS
    <2> QED  BY <2>1 DEF Quiet
  <1>3. Quiet(Colon(pretty))
    <2>1. PICK sign, blank : sign = Mark(":") /\ blank = Mark(" ")
      BY Zenon
    <2>2. Uncounted(sign) /\ Uncounted(blank)
      BY Zenon, <2>1, CountingMarks
    <2>3. Colon(pretty) = <<sign, blank>> \/ Colon(pretty) = <<sign>>
      BY Zenon, <2>1 DEF Colon
    <2>4. \A m \in 1 .. Len(Colon(pretty)) : Colon(pretty)[m] = sign \/ Colon(pretty)[m] = blank
      <3>1. CASE Colon(pretty) = <<sign, blank>>
        BY <3>1, ShortElements
      <3>2. CASE Colon(pretty) = <<sign>>
        BY <3>2, ShortElements
      <3> QED  BY <2>3, <3>1, <3>2
    <2> QED  BY <2>2, <2>4 DEF Quiet, Uncounted
  <1>4. ASSUME NEW name \in STRING
        PROVE  Balanced(<<Text(name)>> \o Colon(pretty))
    <2>1. Text(name) \in Token
      BY NodeParts
    <2>2. PICK label \in Seq(Token) : label = <<Text(name)>>
      BY <2>1, ShortSequences
    <2>3. Quiet(label)
      <3>1. \A m \in 1 .. Len(label) : label[m] = Text(name)
        BY Zenon, <2>2, ShortElements
      <3> QED  BY <3>1, Counting DEF Quiet, Uncounted
    <2>4. Quiet(label \o Colon(pretty)) /\ label \o Colon(pretty) \in Seq(Token)
      BY <1>1, <1>3, <2>3, QuietJoin, TokenSequences
    <2> QED  BY <2>2, <2>4, QuietBalanced
  <1>5. PICK comma \in Seq(Token) :
            /\ comma = Comma(pretty) /\ (Len(comma) = 1 \/ Len(comma) = 2)
            /\ IsMark(comma[1], Commas) /\ Quiet(comma)
            /\ Len(comma) = 2 => ~IsMark(comma[2], Commas) /\ IsMark(comma[2], Blanks)
    <2>1. PICK sign, blank : sign = Mark(",") /\ blank = Mark("newline")
      BY Zenon
    <2>2. /\ IsMark(sign, Commas) /\ ~IsMark(sign, Openers) /\ ~IsMark(sign, Closers)
          /\ Uncounted(blank) /\ IsMark(blank, Blanks)
      <3>1. IsMark(Mark("newline"), Blanks)
        BY Zenon DEF IsMark, Mark, Blanks
      <3> QED  BY Zenon, <2>1, <3>1, Counting, CountingMarks
    <2>3. CASE pretty
      <3>1. Comma(pretty) = <<sign, blank>>
        BY Zenon, <2>1, <2>3 DEF Comma
      <3>2. /\ Len(Comma(pretty)) = 2 /\ Comma(pretty)[1] = sign /\ Comma(pretty)[2] = blank
            /\ \A m \in 1 .. Len(Comma(pretty)) : Comma(pretty)[m] = sign \/ Comma(pretty)[m] = blank
        BY <3>1, ShortElements
      <3>3. Quiet(Comma(pretty))
        BY <2>2, <3>2 DEF Quiet, Uncounted
      <3> QED  BY <1>1, <2>2, <3>2, <3>3 DEF Uncounted
    <2>4. CASE ~pretty
      <3>1. Comma(pretty) = <<sign>>
        BY Zenon, <2>1, <2>4 DEF Comma
      <3>2. /\ Len(Comma(pretty)) = 1 /\ \A m \in 1 .. Len(Comma(pretty)) : Comma(pretty)[m] = sign
        BY <3>1, ShortElements
      <3>3. Comma(pretty)[1] = sign
        BY <3>2
      <3>4. Quiet(Comma(pretty))
        BY <2>2, <3>2 DEF Quiet, Uncounted
      <3>5. Len(Comma(pretty)) # 2
        BY <3>2
      <3> QED  BY <1>1, <2>2, <3>2, <3>3, <3>4, <3>5
    <2> QED  BY <2>3, <2>4
  <1>7. Balanced(comma) /\ \A i \in 1 .. Len(comma) + 1 : DepthAt(comma, 1, i) = 0
    BY <1>5, QuietBalanced
  <1>8. CommasBefore(comma, 1, 1) = 0 /\ CommasBefore(comma, 1, 2) = 1
    <2>1. PICK one \in Int : one = 1 /\ one <= one /\ one + 1 = 2
      OBVIOUS
    <2>2. /\ CommasBefore(comma, one, one) = 0
          /\ CommasBefore(comma, one, one + 1) =
                 CommasBefore(comma, one, one)
                 + IF IsMark(comma[one], Commas) /\ DepthAt(comma, one, one) = 0 THEN 1 ELSE 0
      BY <2>1, CommasStep
    <2>3. IsMark(comma[one], Commas) /\ DepthAt(comma, one, one) = 0
      <3>1. 1 \in 1 .. Len(comma) + 1
        <4>1. Len(comma) \in Nat
          BY <1>5
        <4> QED  BY <4>1
      <3> QED  BY <1>5, <1>7, <2>1, <3>1
    <2> QED  BY <2>1, <2>2, <2>3
  <1>9. Len(comma) = 2 => CommasBefore(comma, 1, 3) = 1
    <2> SUFFICES ASSUME Len(comma) = 2 PROVE CommasBefore(comma, 1, 3) = 1
      OBVIOUS
    <2>1. PICK one \in Int, two \in Int : one = 1 /\ two = 2 /\ one <= two /\ two + 1 = 3
      OBVIOUS
    <2>2. CommasBefore(comma, one, two + 1) =
              CommasBefore(comma, one, two)
              + IF IsMark(comma[two], Commas) /\ DepthAt(comma, one, two) = 0 THEN 1 ELSE 0
      BY <2>1, CommasStep
    <2>3. ~IsMark(comma[two], Commas)
      BY <1>5, <2>1
    <2> QED  BY <1>8, <2>1, <2>2, <2>3
  <1>10. Has(comma, 1)
    <2>1. PICK size \in Nat : size = Len(comma) /\ (size = 1 \/ size = 2)
      <3>1. Len(comma) \in Nat
        BY LenProperties
      <3> QED  BY <1>5, <3>1
    <2>2. ASSUME NEW i \in 1 .. Len(comma) + 1
          PROVE  CommasBefore(comma, 1, i) = 0 \/ CommasBefore(comma, 1, i) = 1
      <3>1. i = 1 \/ i = 2 \/ (size = 2 /\ i = 3)
        BY <2>1, OneOrTwo
      <3> QED  BY <1>8, <1>9, <2>1, <3>1
    <2>3. CommasBefore(comma, 1, Len(comma) + 1) = 1
      <3>1. size + 1 = 2 \/ (size = 2 /\ size + 1 = 3)
        BY <2>1, OneOrTwo
      <3> QED  BY <1>8, <1>9, <2>1, <3>1
    <2>4. \A i \in 1 .. Len(comma) + 1 : CommasBefore(comma, 1, i) \in Nat /\ CommasBefore(comma, 1, i) <= 1
      BY <2>2
    <2> QED  BY <1>7, <2>3, <2>4 DEF Has
  <1>11. Balanced(<<>>)
    <2>1. <<>> \in Seq(Token)
      OBVIOUS
    <2> QED  BY <1>2, <2>1, QuietBalanced
  <1> QED  BY <1>4, <1>5, <1>8, <1>10, <1>11 DEF Separates

(* Members and items whose brackets match, one after the other.            *)
LEMMA NodeBalanced ==
    ASSUME NEW node \in Node, NEW pretty \in BOOLEAN, NEW parts, NEW f,
           Spells(node, parts, pretty, f), \A n \in 1 .. Size(node) : Balanced(parts[n])
    PROVE  Balanced(f[Size(node)])
  <1>0. PICK size \in Nat : size = Size(node)
    BY NodeParts
  <1> DEFINE T == {k \in Nat : k <= size => Balanced(f[k])}
  <1>1. 0 \in T
    BY LeadsCounted DEF Spells
  <1>2. ASSUME NEW n \in 1 .. size
        PROVE  Balanced(Lead(node, n, pretty))
    <2> DEFINE sep == IF n = 1 THEN <<>> ELSE Comma(pretty)
               label == IF node.kind = "object" THEN <<Text(node.names[n])>> \o Colon(pretty)
                        ELSE <<>>
    <2>1. Balanced(sep)
      BY LeadsCounted DEF Has
    <2>2. Balanced(label)
      <3>1. CASE node.kind = "object"
        <4>1. node.names[n] \in STRING
          BY <1>0, <3>1, NodeParts
        <4> QED  BY <3>1, <4>1, LeadsCounted
      <3>2. CASE node.kind # "object"
        BY <3>2, LeadsCounted
      <3> QED  BY <3>1, <3>2
    <2> HIDE DEF sep, label
    <2>3. Balanced(sep \o label)
      BY <2>1, <2>2, BalancedJoin
    <2> QED  BY <2>3 DEF Lead, sep, label
  <1>3. ASSUME NEW k \in Nat, k \in T
        PROVE  k + 1 \in T
    <2> SUFFICES ASSUME k + 1 <= size PROVE Balanced(f[k + 1])
      OBVIOUS
    <2>1. k <= size /\ k \in 0 .. size - 1 /\ k + 1 \in 1 .. size
      OBVIOUS
    <2>2. Balanced(f[k])
      BY <1>3, <2>1
    <2>3. f[k + 1] = f[k] \o (Lead(node, k + 1, pretty) \o parts[k + 1])
      BY <1>0, <2>1 DEF Spells
    <2>4. Balanced(Lead(node, k + 1, pretty)) /\ Balanced(parts[k + 1])
      BY <1>0, <1>2, <2>1
    <2>5. Balanced(Lead(node, k + 1, pretty) \o parts[k + 1])
      BY <2>4, BalancedJoin
    <2> QED  BY <2>2, <2>3, <2>5, BalancedJoin
  <1> HIDE DEF T
  <1>4. Nat \subseteq T
    BY <1>1, <1>3, NumberInduction
  <1>5. size \in T
    BY <1>4
  <1> QED  BY <1>0, <1>5 DEF T

(* One comma between two items.                                            *)
LEMMA ItemsCounted ==
    ASSUME NEW node \in Node, node.kind = "array", NEW pretty \in BOOLEAN, NEW parts, NEW f,
           Spells(node, parts, pretty, f), NEW n \in 1 .. Size(node),
           \A m \in 1 .. n : Has(parts[m], 0)
    PROVE  Has(f[n], n - 1)
  <1>0. PICK size \in Nat : size = Size(node)
    BY NodeParts
  <1> DEFINE T == {k \in Nat : k + 1 <= n => Has(f[k + 1], k)}
  <1>1. ASSUME NEW k \in 1 .. size
        PROVE  /\ f[k] = f[k - 1] \o (Lead(node, k, pretty) \o parts[k])
               /\ f[k - 1] \in Seq(Token)
    <2>1. k - 1 \in 0 .. size - 1 /\ k - 1 \in 0 .. size /\ (k - 1) + 1 = k
      OBVIOUS
    <2> QED  BY <1>0, <2>1 DEF Spells
  <1>2. ASSUME NEW k \in 2 .. size
        PROVE  Lead(node, k, pretty) = Comma(pretty) \o <<>> /\ Lead(node, k, pretty) = Comma(pretty)
    <2>1. Lead(node, k, pretty) = Comma(pretty) \o <<>>
      BY DEF Lead
    <2>2. Comma(pretty) \in Seq(Token)
      BY NodeParts
    <2> QED  BY <2>1, <2>2, ConcatEmptySeq
  <1>3. Lead(node, 1, pretty) = <<>>
    <2>1. Lead(node, 1, pretty) = <<>> \o <<>>
      BY DEF Lead
    <2> QED  BY <2>1
  <1>4. 0 \in T
    <2>1. 1 \in 1 .. size /\ 1 \in 1 .. n /\ 1 - 1 = 0
      BY <1>0
    <2>2. f[1] = f[0] \o (<<>> \o parts[1]) /\ f[0] = <<>>
      BY <1>1, <1>3, <2>1 DEF Spells
    <2>3. Has(parts[1], 0)
      BY <2>1
    <2>4. f[1] = parts[1]
      <3>1. parts[1] \in Seq(Token)
        BY <2>3 DEF Has, Balanced
      <3> QED  BY <2>2, <3>1, ConcatEmptySeq
    <2>5. 0 + 1 = 1
      OBVIOUS
    <2> QED  BY <2>3, <2>4, <2>5
  <1>5. ASSUME NEW k \in Nat, k \in T
        PROVE  k + 1 \in T
    <2> SUFFICES ASSUME (k + 1) + 1 <= n PROVE Has(f[(k + 1) + 1], k + 1)
      OBVIOUS
    <2>1. PICK m \in 2 .. size : m = (k + 1) + 1 /\ m - 1 = k + 1 /\ m \in 1 .. n /\ m \in 1 .. size
      BY <1>0
    <2>2. Has(f[k + 1], k)
      BY <1>5, <2>1
    <2>3. f[m] = f[k + 1] \o (Comma(pretty) \o parts[m])
      BY <1>1, <1>2, <2>1
    <2>4. Has(Comma(pretty), 1) /\ Has(parts[m], 0)
      BY <2>1, LeadsCounted
    <2>5. Has(Comma(pretty) \o parts[m], 1)
      <3>1. Has(Comma(pretty) \o parts[m], 1 + 0)
        BY <2>4, HasJoin
      <3> QED  BY <3>1
    <2> QED  BY <2>1, <2>2, <2>3, <2>5, HasJoin
  <1> HIDE DEF T
  <1>6. Nat \subseteq T
    BY <1>4, <1>5, NumberInduction
  <1>7. n - 1 \in Nat /\ (n - 1) + 1 = n /\ n <= n
    BY <1>0
  <1>8. n - 1 \in T
    BY <1>6, <1>7
  <1> QED  BY <1>7, <1>8 DEF T

(* The parts of a node are below what the node is below.                   *)
LEMMA PrefixOfParts ==
    ASSUME NEW p \in Seq(Nat \ {0}), NEW q \in Seq(Nat \ {0}),
           NEW n \in Nat \ {0}
    PROVE  /\ IsPrefix(p, p)
           /\ IsPrefix(p, q) => IsPrefix(p, Append(q, n))
           /\ IsPrefix(p, q) /\ IsPrefix(q, p) => p = q
  <1>1. IsPrefix(p, p)
    BY LenProperties DEF IsPrefix
  <1>2. ASSUME IsPrefix(p, q)
        PROVE  IsPrefix(p, Append(q, n))
    <2>1. PICK a \in Nat, b \in Nat : a = Len(p) /\ b = Len(q) /\ a <= b
      BY <1>2, LenProperties DEF IsPrefix
    <2>2. SubSeq(p, 1, a) = SubSeq(q, 1, a)
      BY <1>2, <2>1 DEF IsPrefix
    <2>3. PICK more : more = Append(q, n) /\ Len(more) = b + 1 /\ \A i \in 1 .. b : more[i] = q[i]
      <3>1. /\ Len(Append(q, n)) = Len(q) + 1
            /\ \A i \in 1 .. Len(q) : Append(q, n)[i] = q[i]
        BY AppendProperties
      <3> QED  BY <2>1, <3>1
    <2>4. SubSeq(more, 1, a) = SubSeq(q, 1, a)
      <3>1. SubSeq(more, 1, a) = [i \in 1 .. a |-> more[i]] /\ SubSeq(q, 1, a) = [i \in 1 .. a |-> q[i]]
        <4>1. \A s : SubSeq(s, 1, a) = [i \in 1 .. (1 + a) - 1 |-> s[(i + 1) - 1]]
          BY <2>1
        <4> QED  BY <2>1, <4>1
      <3>2. \A i \in 1 .. a : more[i] = q[i]
        BY <2>1, <2>3
      <3> QED  BY <3>1, <3>2
    <2>5. a <= b + 1
      BY <2>1
    <2> QED  BY <2>1, <2>2, <2>3, <2>4, <2>5 DEF IsPrefix
  <1>3. ASSUME IsPrefix(p, q), IsPrefix(q, p)
        PROVE  p = q
    <2>1. Len(p) \in Nat /\ Len(q) \in Nat /\ Len(p) <= Len(q) /\ Len(q) <= Len(p)
          /\ SubSeq(p, 1, Len(p)) = SubSeq(q, 1, Len(p))
      BY <1>3, LenProperties DEF IsPrefix
    <2>2. Len(p) = Len(q)
      BY <2>1
    <2>3. SubSeq(p, 1, Len(p)) = p /\ SubSeq(q, 1, Len(q)) = q
      OBVIOUS
    <2> QED  BY <2>1, <2>2, <2>3
  <1> QED  BY <1>1, <1>2, <1>3

(* Without brackets in strings, brackets match.                            *)
LEMMA DocumentBalanced ==
    ASSUME NEW doc, IsDocument(doc), NEW pretty \in BOOLEAN, NEW p \in DOMAIN doc,
           NothingToCount(doc, p)
    PROVE  Has(Tokens(doc, pretty)[p], 0)
  <1> DEFINE T == {q \in DOMAIN doc : IsPrefix(p, q) =>
                      /\ Balanced(Tokens(doc, pretty)[q])
                      /\ q = p => Tight(Tokens(doc, pretty)[q])}
  <1>1. ASSUME NEW q \in DOMAIN doc, \A n \in 1 .. Size(doc[q]) : Append(q, n) \in T
        PROVE  q \in T
    <2> SUFFICES ASSUME IsPrefix(p, q)
                 PROVE  /\ Balanced(Tokens(doc, pretty)[q])
                        /\ q = p => Tight(Tokens(doc, pretty)[q])
      OBVIOUS
    <2>1. PICK node \in Node : node = doc[q]
      BY DocumentParts
    <2>2. PICK tokens \in Seq(Token) : tokens = Tokens(doc, pretty)[q]
      BY TokensType
    <2>3. tokens = NodeTokens(node, PartsOf(doc, pretty, q), pretty)
      BY <2>1, <2>2, TokensLaw DEF PartsOf
    <2>4. CASE node.kind \in {"object", "array"}
      <3>1. PICK f : /\ Spells(node, PartsOf(doc, pretty, q), pretty, f)
                     /\ tokens = (<<Opening(node)>> \o f[Size(node)]) \o <<Closing(node)>>
        BY <2>1, <2>2, <2>4, Spelled
      <3>2. ASSUME NEW n \in 1 .. Size(node)
            PROVE  Balanced(PartsOf(doc, pretty, q)[n])
        <4>1. Append(q, n) \in T
          BY <1>1, <2>1
        <4>2. IsPrefix(p, Append(q, n))
          <5>1. Size(node) \in Nat /\ n \in Nat \ {0}
            BY NodeParts
          <5> QED  BY <5>1, DocumentParts, PrefixOfParts
        <4>3. PartsOf(doc, pretty, q)[n] = Tokens(doc, pretty)[Append(q, n)]
          BY <2>1 DEF PartsOf
        <4> QED  BY <4>1, <4>2, <4>3
      <3> HIDE DEF T
      <3>3. Balanced(f[Size(node)])
        BY <3>1, <3>2, NodeBalanced
      <3>4. /\ Opening(node) \in Token /\ Closing(node) \in Token
            /\ IsMark(Opening(node), Openers) /\ ~IsMark(Opening(node), Commas)
            /\ IsMark(Closing(node), Closers) /\ ~IsMark(Closing(node), Commas)
        BY NodeParts, Counting
      <3>5. Has(tokens, 0) /\ Tight(tokens)
        BY <3>1, <3>3, <3>4, Enclosed
      <3> QED  BY <2>2, <3>5 DEF Has
    <2>5. CASE node.kind = "number"
      <3>1. tokens = <<node.token>> /\ Uncounted(node.token)
        BY <2>3, <2>5, NodeParts, Counting DEF NodeTokens
      <3>2. \A m \in 1 .. Len(tokens) : Uncounted(tokens[m])
        BY <3>1, ShortElements
      <3> QED  BY <2>2, <3>2, QuietBalanced DEF Quiet, Tight, Uncounted
    <2>6. CASE node.kind = "null"
      <3>1. PICK sign : tokens = <<sign>> /\ Uncounted(sign)
        BY Zenon, <2>3, <2>6, CountingMarks DEF NodeTokens
      <3>2. \A m \in 1 .. Len(tokens) : Uncounted(tokens[m])
        BY <3>1, ShortElements
      <3> QED  BY <2>2, <3>2, QuietBalanced DEF Quiet, Tight, Uncounted
    <2>7. CASE node.kind = "string"
      <3>1. PICK sign \in Token, inside \in Seq(Token) :
                /\ tokens = <<sign>> \o inside /\ Uncounted(sign) /\ inside = node.inside
        <4>1. tokens = <<Text(node.name)>> \o node.inside /\ Uncounted(Text(node.name))
          BY <2>3, <2>7, Counting DEF NodeTokens
        <4>2. Text(node.name) \in Token /\ node.inside \in Seq(Token)
          BY <2>7, NodeParts
        <4> QED  BY <4>1, <4>2
      <3>2. \A n \in DOMAIN inside : /\ ~IsMark(inside[n], Openers \cup Closers)
                                     /\ q = p => ~IsMark(inside[n], Commas)
        BY <2>1, <2>7, <3>1 DEF NothingToCount
      <3>3. PICK start \in Seq(Token) : start = <<sign>> /\ Len(start) = 1 /\ start[1] = sign
        <4>1. <<sign>> \in Seq(Token) /\ Len(<<sign>>) = 1 /\ <<sign>>[1] = sign
          BY <3>1
        <4> QED  BY <4>1
      <3>4. /\ Len(inside) \in Nat /\ DOMAIN inside = 1 .. Len(inside)
            /\ Len(tokens) = 1 + Len(inside) /\ tokens[1] = sign
            /\ \A n \in 1 .. Len(inside) : tokens[1 + n] = inside[n]
        <4>1. /\ Len(inside) \in Nat /\ DOMAIN inside = 1 .. Len(inside)
              /\ Len(start \o inside) = Len(start) + Len(inside)
              /\ \A n \in 1 .. Len(start) : (start \o inside)[n] = start[n]
              /\ \A n \in 1 .. Len(inside) : (start \o inside)[Len(start) + n] = inside[n]
          BY Joined, LenProperties
        <4>2. 1 \in 1 .. Len(start)
          BY <3>3
        <4> QED  BY <3>1, <3>3, <4>1, <4>2
      <3>5. ASSUME NEW m \in 1 .. Len(tokens)
            PROVE  /\ ~IsMark(tokens[m], Openers) /\ ~IsMark(tokens[m], Closers)
                   /\ q = p => ~IsMark(tokens[m], Commas)
        <4>1. CASE m = 1
          BY <3>1, <3>4, <4>1 DEF Uncounted
        <4>2. CASE m # 1
          <5>1. m - 1 \in DOMAIN inside /\ 1 + (m - 1) = m
            BY <3>4, <4>2
          <5>2. tokens[m] = inside[m - 1]
            BY <3>4, <5>1
          <5>3. ~IsMark(inside[m - 1], Openers \cup Closers)
            BY <3>2, <5>1
          <5>4. ~IsMark(inside[m - 1], Openers) /\ ~IsMark(inside[m - 1], Closers)
            BY <5>3 DEF IsMark
          <5> QED  BY <3>2, <5>1, <5>2, <5>4
        <4> QED  BY <4>1, <4>2
      <3>6. Quiet(tokens) /\ (q = p => Tight(tokens))
        BY <3>5 DEF Quiet, Tight
      <3> QED  BY <2>2, <3>6, QuietBalanced
    <2> QED  BY <2>1, <2>4, <2>5, <2>6, <2>7, NodeParts
  <1> HIDE DEF T
  <1>2. DOMAIN doc \subseteq T
    BY <1>1, PlaceInduction
  <1>3. IsPrefix(p, p)
    BY DocumentParts, PrefixOfParts
  <1>4. Balanced(Tokens(doc, pretty)[p]) /\ Tight(Tokens(doc, pretty)[p])
    BY <1>2, <1>3 DEF T
  <1> QED  BY <1>4, TightHasNone

ReachesItem(json, index, value) == Arrays(json) # {} /\ Element(json, index) = value

(* The first item is behind the first bracket.                             *)
LEMMA ElementFirst ==
    ASSUME NEW open \in Token, IsMark(open, ArrayOpeners), NEW value, IsValue(value), NEW json, json = <<open>> \o value
    PROVE  ReachesItem(json, 0, value)
  <1>0. value \in Seq(Token) /\ value # <<>> /\ ~IsMark(value[1], Blanks)
    BY DEF IsValue, IsMark
  <1>1. PICK start \in Seq(Token) : start = <<open>> /\ Len(start) = 1 /\ start[1] = open
    <2>1. <<open>> \in Seq(Token) /\ Len(<<open>>) = 1 /\ <<open>>[1] = open
      OBVIOUS
    <2> QED  BY <2>1
  <1>2. /\ json = start \o value /\ json \in Seq(Token) /\ Len(json) = 1 + Len(value)
        /\ DOMAIN json = 1 .. 1 + Len(value) /\ Len(value) \in Nat /\ json[1] = open
    <2>1. 1 \in 1 .. Len(start)
      BY <1>1
    <2> QED  BY <1>0, <1>1, <2>1, Joined
  <1>3. Len(value) # 0
    BY <1>0, EmptySeq
  <1>4. 1 \in Arrays(json) /\ Arrays(json) \in SUBSET Nat /\ \A m \in Arrays(json) : 1 <= m
    BY <1>2 DEF Arrays
  <1>5. Min(Arrays(json)) = 1
    BY <1>4, FirstIs
  <1>6. PICK two \in Int : two = 2 /\ two = 1 + 1 /\ two \in Nat /\ two <= two
    OBVIOUS
  <1> DEFINE ends == {n \in two .. Len(json) : CommasBefore(json, two, n) = 0}
  <1>7. two \in ends /\ ends \in SUBSET Nat /\ \A m \in ends : two <= m
    <2>1. CommasBefore(json, two, two) = 0
      BY <1>6, CommasStep
    <2>2. two \in two .. Len(json)
      BY <1>2, <1>3, <1>6
    <2> QED  BY <1>6, <2>1, <2>2
  <1>8. FirstOf(json, ends) = two
    <2> HIDE DEF ends
    <2>1. Min(ends) = two
      BY <1>7, FirstIs
    <2> QED  BY <1>7, <2>1 DEF FirstOf
  <1>9. From(start \o value, SkipFrom(start \o value, two, Blanks)) = value
    <2>1. two \in 1 .. Len(start) + 1 /\ \A m \in two .. Len(start) : IsMark(start[m], Blanks)
      BY <1>1, <1>6
    <2> QED  BY <1>0, <2>1, SkipOver
  <1>10. Element(json, 0) = From(json, SkipFrom(json, FirstOf(json, ends), Blanks))
    BY <1>5, <1>6 DEF Element
  <1> HIDE DEF ends
  <1> QED  BY <1>2, <1>4, <1>8, <1>9, <1>10 DEF ReachesItem

Placed(size, width, rest, len, total, here) ==
    /\ len = size + width /\ total = 1 + len /\ here = size + 3
    /\ total \in Nat /\ here \in Nat /\ here \in 2 .. total + rest
    /\ here \in 1 .. total + 1
    /\ size + 2 \in 1 .. len + 1 /\ 1 + (size + 2) = here /\ 2 \in 1 .. width + 1
    /\ 1 \in 1 .. total /\ 1 \in 1 .. total + rest
    /\ \A n \in 1 .. len : 1 + n \in 1 .. total
    /\ \A m \in 2 .. total + rest : m < here =>
           m - 1 \in 1 .. size + 1 /\ m - 1 \in 1 .. len + 1 /\ 1 + (m - 1) = m
    /\ \A m \in here .. total :
           width = 2 /\ m = 1 + (size + 2) /\ size + 2 \in 1 .. len /\ 2 \in 1 .. width
    /\ \A m \in 2 .. total + rest : m \in Nat /\ (~(m < here) => here <= m)

(* Where the comma and the item lie, in numbers.                           *)
LEMMA ElementPlaces ==
    ASSUME NEW size \in Nat, NEW width \in Nat, width = 1 \/ width = 2, NEW rest \in Nat, rest # 0
    PROVE  \E len, total, here : Placed(size, width, rest, len, total, here)
  <1>1. Placed(size, width, rest, size + width, 1 + (size + width), size + 3)
    BY DEF Placed
  <1> QED  BY <1>1

(* A later item is behind as many commas as there are items before it.     *)
Behind(open, g, comma, value) == ((<<open>> \o g) \o comma) \o value

(* A later item is found behind the commas of those before it.             *)
LEMMA ElementLater ==
    ASSUME NEW open \in Token, IsMark(open, ArrayOpeners), NEW comma, Separates(comma),
           NEW k \in Nat, NEW g, Has(g, k), NEW value, IsValue(value),
           NEW json, json = Behind(open, g, comma, value)
    PROVE  ReachesItem(json, k + 1, value)
  <1>0. value \in Seq(Token) /\ value # <<>> /\ ~IsMark(value[1], Blanks)
    BY DEF IsValue, IsMark
  <1>1. PICK start \in Seq(Token) : start = <<open>> /\ Len(start) = 1 /\ start[1] = open
    <2>1. <<open>> \in Seq(Token) /\ Len(<<open>>) = 1 /\ <<open>>[1] = open
      OBVIOUS
    <2> QED  BY <2>1
  <1>2. PICK size \in Nat : size = Len(g) /\ g \in Seq(Token)
    BY LenProperties DEF Has, Balanced
  <1>3. /\ comma \in Seq(Token) /\ Has(comma, 1) /\ CommasBefore(comma, 1, 2) = 1
        /\ (Len(comma) = 1 \/ (Len(comma) = 2 /\ IsMark(comma[2], Blanks)))
    BY DEF Separates
  <1>4. PICK s \in Seq(Token) :
            /\ s = g \o comma /\ Has(s, k + 1) /\ Len(s) = size + Len(comma)
            /\ \A n \in 1 .. size : s[n] = g[n]
            /\ \A n \in 1 .. Len(comma) : s[size + n] = comma[n]
    <2>1. Has(g \o comma, k + 1)
      BY <1>3, HasJoin
    <2>2. /\ g \o comma \in Seq(Token) /\ Len(g \o comma) = size + Len(comma)
          /\ \A n \in 1 .. size : (g \o comma)[n] = g[n]
          /\ \A n \in 1 .. Len(comma) : (g \o comma)[size + n] = comma[n]
      BY <1>2, <1>3, Joined
    <2> QED  BY <2>1, <2>2
  <1>5. PICK lead \in Seq(Token) :
            /\ lead = (start \o g) \o comma /\ lead = start \o s
            /\ Len(lead) = 1 + (size + Len(comma))
            /\ lead[1] = open /\ \A n \in 1 .. Len(s) : lead[1 + n] = s[n]
    <2>1. (start \o g) \o comma = start \o s
      BY <1>1, <1>2, <1>3, <1>4, TokenSequences
    <2>2. /\ start \o s \in Seq(Token) /\ Len(start \o s) = 1 + Len(s)
          /\ (start \o s)[1] = start[1]
          /\ \A n \in 1 .. Len(s) : (start \o s)[1 + n] = s[n]
      <3>1. 1 \in 1 .. Len(start)
        BY <1>1
      <3> QED  BY <1>1, <3>1, Joined
    <2> QED  BY <1>1, <1>4, <2>1, <2>2
  <1>6. PICK width \in Nat, rest \in Nat :
            /\ width = Len(comma) /\ (width = 1 \/ width = 2)
            /\ rest = Len(value) /\ rest # 0
    <2>1. Len(comma) \in Nat /\ Len(value) \in Nat /\ Len(value) # 0
      BY <1>0, LenProperties, EmptySeq
    <2> QED  BY <1>3, <2>1
  <1>7. PICK len, total, here : Placed(size, width, rest, len, total, here)
    BY <1>6, ElementPlaces
  <1>8. Len(s) = len /\ Len(lead) = total
    BY <1>4, <1>5, <1>6, <1>7 DEF Placed
  <1>9. /\ json = lead \o value /\ json \in Seq(Token) /\ Len(json) = total + rest
        /\ DOMAIN json = 1 .. total + rest
        /\ \A n \in 1 .. total : json[n] = lead[n]
    <2>1. json = lead \o value
      BY <1>1, <1>3, <1>5 DEF Behind
    <2>2. /\ lead \o value \in Seq(Token) /\ Len(lead \o value) = Len(lead) + Len(value)
          /\ DOMAIN (lead \o value) = 1 .. Len(lead) + Len(value)
          /\ \A n \in 1 .. Len(lead) : (lead \o value)[n] = lead[n]
      BY <1>0, Joined
    <2> QED  BY <1>6, <1>8, <2>1, <2>2
  <1>10. 1 \in Arrays(json) /\ Arrays(json) \in SUBSET Nat /\ \A m \in Arrays(json) : 1 <= m
    <2>1. 1 \in 1 .. total /\ 1 \in 1 .. total + rest
      BY <1>7 DEF Placed
    <2>2. json[1] = open
      BY <1>5, <1>9, <2>1
    <2> QED  BY <1>9, <2>1, <2>2 DEF Arrays
  <1>11. Min(Arrays(json)) = 1
    BY <1>10, FirstIs
  <1>12. PICK one \in Int, two \in Int :
             one = 1 /\ two = 2 /\ two = 1 + 1 /\ two = one + 1 /\ two <= one + 1 /\ two <= two
    OBVIOUS
  <1>13. Lies(json, one, s)
    <2>1. \A n \in 1 .. len : json[1 + n] = s[n]
      BY <1>5, <1>7, <1>8, <1>9 DEF Placed
    <2> QED  BY <1>8, <1>12, <2>1 DEF Lies
  <1>14. DepthAt(json, two, one + 1) = 0 /\ CommasBefore(json, two, one + 1) = 0
    <2>1. DepthAt(json, two, two) = 0 /\ CommasBefore(json, two, two) = 0
      BY <1>12, DepthStep, CommasStep
    <2> QED  BY <1>12, <2>1
  <1>15. Len(s) \in Nat
    BY LenProperties
  <1>16. \A i \in 1 .. len + 1 : CommasBefore(json, 2, 1 + i) = CommasBefore(s, 1, i)
    <2>1. CommasShifted(json, two, one, s)
      BY <1>12, <1>13, <1>14, <1>15, CommasShift
    <2>2. ASSUME NEW i \in 1 .. len + 1
          PROVE  CommasBefore(json, 2, 1 + i) = CommasBefore(s, 1, i)
      <3>1. /\ CommasBefore(s, 1, i) \in Nat
            /\ CommasBefore(json, two, one + i) = CommasBefore(json, two, one + 1) + CommasBefore(s, 1, i)
        BY <1>8, <2>1 DEF CommasShifted
      <3>2. CommasBefore(json, two, one + i) = CommasBefore(s, 1, i)
        BY <1>14, <3>1
      <3> QED  BY <1>12, <3>2
    <2> QED  BY <2>2
  <1>17. /\ \A i \in 1 .. size + 1 : CommasBefore(s, 1, i) = CommasBefore(g, 1, i)
         /\ \A i \in 1 .. width + 1 :
                CommasBefore(s, 1, size + i) = CommasBefore(g, 1, size + 1) + CommasBefore(comma, 1, i)
    <2>1. Balanced(g)
      BY DEF Has
    <2> QED  BY <1>2, <1>4, <1>6, <2>1, JoinedDepths
  <1>18. \A i \in 1 .. size + 1 : CommasBefore(s, 1, i) \in Nat /\ CommasBefore(s, 1, i) <= k
    BY <1>2, <1>17 DEF Has
  <1>19. CommasBefore(s, 1, size + 2) = k + 1
    <2>1. CommasBefore(comma, 1, 2) = 1
      BY <1>3
    <2>2. CommasBefore(g, 1, size + 1) = k
      BY <1>2 DEF Has
    <2> QED  BY <1>7, <1>17, <2>1, <2>2 DEF Placed
  <1>20. CommasBefore(json, 2, here) = k + 1
    BY <1>7, <1>16, <1>19 DEF Placed
  <1>21. ASSUME NEW m \in 2 .. total + rest, m < here
         PROVE  CommasBefore(json, 2, m) # k + 1
    <2>1. m - 1 \in 1 .. size + 1 /\ m - 1 \in 1 .. len + 1 /\ 1 + (m - 1) = m
      BY <1>7, <1>21 DEF Placed
    <2>2. PICK v \in Nat : v = CommasBefore(json, 2, m) /\ v <= k
      BY <1>16, <1>18, <2>1
    <2> QED  BY <2>2
  <1>22. PICK ends : ends = {n \in 2 .. total + rest : CommasBefore(json, 2, n) = k + 1}
    OBVIOUS
  <1>23. here \in ends /\ ends \in SUBSET Nat /\ \A m \in ends : here <= m
    <2>1. ends \in SUBSET Nat
      BY <1>7, <1>22 DEF Placed
    <2>2. \A m \in ends : m \in 2 .. total + rest /\ ~(m < here)
      BY <1>21, <1>22
    <2> QED  BY <1>7, <1>20, <1>22, <2>1, <2>2 DEF Placed
  <1>24. FirstOf(json, ends) = here
    <2>1. Min(ends) = here
      BY <1>23, FirstIs
    <2> QED  BY <1>23, <2>1 DEF FirstOf
  <1>25. From(lead \o value, SkipFrom(lead \o value, here, Blanks)) = value
    <2>1. here \in 1 .. Len(lead) + 1
      BY <1>7, <1>8 DEF Placed
    <2>2. ASSUME NEW m \in here .. Len(lead)
          PROVE  IsMark(lead[m], Blanks)
      <3>1. width = 2 /\ m = 1 + (size + 2) /\ size + 2 \in 1 .. len /\ 2 \in 1 .. width
        BY <1>7, <1>8 DEF Placed
      <3>2. lead[m] = comma[2]
        <4>1. s[size + 2] = comma[2]
          <5>1. 2 \in 1 .. Len(comma)
            BY <1>6, <3>1
          <5> QED  BY <1>4, <5>1
        <4>2. lead[1 + (size + 2)] = s[size + 2]
          BY <1>5, <1>8, <3>1
        <4> QED  BY <3>1, <4>1, <4>2
      <3>3. IsMark(comma[2], Blanks)
        BY <1>3, <1>6, <3>1
      <3> QED  BY <3>2, <3>3
    <2> QED  BY <1>0, <2>1, <2>2, SkipOver
  <1>26. Element(json, k + 1) = From(json, SkipFrom(json, FirstOf(json, ends), Blanks))
    <2>1. Element(json, k + 1) =
              From(json, SkipFrom(json,
                  FirstOf(json, {n \in 1 + 1 .. Len(json) : CommasBefore(json, 1 + 1, n) = k + 1}),
                  Blanks))
      BY <1>11 DEF Element
    <2>2. {n \in 1 + 1 .. Len(json) : CommasBefore(json, 1 + 1, n) = k + 1} = ends
      BY <1>9, <1>12, <1>22
    <2> QED  BY <2>1, <2>2
  <1> QED  BY <1>9, <1>10, <1>24, <1>25, <1>26 DEF ReachesItem

(* An item is found when the items before it do not disturb the count.     *)
LEMMA ItemFound ==
    ASSUME NEW node \in Node, node.kind = "array", NEW pretty \in BOOLEAN, NEW parts, NEW f,
           Spells(node, parts, pretty, f), NEW n \in 1 .. Size(node),
           \A m \in 1 .. n - 1 : Has(parts[m], 0),
           NEW value, IsValue(value),
           NEW json,
           json = ((<<Opening(node)>> \o f[n - 1]) \o Lead(node, n, pretty)) \o value
    PROVE  ReachesItem(json, n - 1, value)
  <1>0. value \in Seq(Token) /\ value # <<>> /\ ~IsMark(value[1], Blanks)
    BY DEF IsValue, IsMark
  <1>1. /\ Opening(node) \in Token /\ IsMark(Opening(node), ArrayOpeners) /\ Size(node) \in Nat
        /\ Comma(pretty) \in Seq(Token) /\ <<Opening(node)>> \in Seq(Token)
    BY NodeParts, Counting, ShortSequences
  <1>2. CASE n = 1
    <2>1. n - 1 = 0 /\ f[0] = <<>> /\ Lead(node, n, pretty) = <<>>
      <3>1. Lead(node, n, pretty) = <<>> \o <<>>
        BY <1>2 DEF Lead
      <3> QED  BY <1>2, <3>1 DEF Spells
    <2>2. (<<Opening(node)>> \o <<>>) \o <<>> = <<Opening(node)>>
      BY <1>1, ConcatEmptySeq
    <2>3. json = <<Opening(node)>> \o value
      BY <2>1, <2>2
    <2> QED  BY <1>1, <2>1, <2>3, ElementFirst
  <1>3. CASE n # 1
    <2>1. PICK k \in Nat : k + 1 = n - 1 /\ n - 1 \in 1 .. Size(node) /\ k = (n - 1) - 1
      BY <1>1, <1>3
    <2>2. Has(f[n - 1], k)
      BY <2>1, ItemsCounted
    <2>3. Lead(node, n, pretty) = Comma(pretty)
      <3>1. Lead(node, n, pretty) = Comma(pretty) \o <<>>
        BY <1>3 DEF Lead
      <3> QED  BY <1>1, <3>1, ConcatEmptySeq
    <2>4. PICK open, g : open = Opening(node) /\ g = f[n - 1]
      OBVIOUS
    <2>5. PICK comma : comma = Comma(pretty) /\ Separates(comma)
      BY LeadsCounted
    <2>6. json = Behind(open, g, comma, value)
      BY <2>3, <2>4, <2>5 DEF Behind
    <2>7. Has(g, k) /\ open \in Token /\ IsMark(open, ArrayOpeners)
      BY <1>1, <2>2, <2>4
    <2>8. ReachesItem(json, k + 1, value)
      BY <2>1, <2>5, <2>6, <2>7, ElementLater
    <2> QED  BY <2>1, <2>8
  <1> QED  BY <1>2, <1>3

-----------------------------------------------------------------------------
(* The way to a place                                                      *)

(* The way down to a place, one member or item at a time.                  *)
LEMMA WayDown ==
    ASSUME NEW doc, IsDocument(doc), NEW p \in DOMAIN doc
    PROVE  /\ p \in Seq(Nat \ {0}) /\ Len(p) \in Nat /\ Upper(p, Len(p) + 1) = p /\ Upper(p, 1) = <<>>
           /\ \A k \in 1 .. Len(p) + 1 : Upper(p, k) \in DOMAIN doc
           /\ \A k \in 1 .. Len(p) :
                  /\ p[k] \in 1 .. Size(doc[Upper(p, k)])
                  /\ Append(Upper(p, k), p[k]) = Upper(p, k + 1)
  <1>1. PICK size \in Nat : size = Len(p) /\ p \in Seq(Nat \ {0})
    BY DocumentParts
  <1>0. size \in Nat
    BY <1>1
  <1>2. Upper(p, size + 1) = p /\ Upper(p, 1) = <<>>
    <2>1. SubSeq(p, 1, size) = p /\ SubSeq(p, 1, 0) = <<>>
      BY <1>1
    <2>2. (size + 1) - 1 = size /\ 1 - 1 = 0
      BY <1>1
    <2> QED  BY <2>1, <2>2 DEF Upper
  <1>3. ASSUME NEW q \in DOMAIN doc, q # <<>>
        PROVE  /\ q \in Seq(Nat \ {0}) /\ SubSeq(q, 1, Len(q) - 1) \in DOMAIN doc
               /\ q[Len(q)] <= Size(doc[SubSeq(q, 1, Len(q) - 1)])
    BY <1>3 DEF IsDocument, Front, Last
  <1>4. ASSUME NEW k \in 1 .. size
        PROVE  /\ Upper(p, k) \in Seq(Nat \ {0}) /\ Upper(p, k + 1) \in Seq(Nat \ {0})
               /\ Len(Upper(p, k + 1)) = k /\ Upper(p, k + 1)[k] = p[k]
               /\ SubSeq(Upper(p, k + 1), 1, k - 1) = Upper(p, k)
               /\ Append(Upper(p, k), p[k]) = Upper(p, k + 1)
               /\ p[k] \in Nat \ {0}
    <2>1. PICK m \in Nat : m + 1 = k /\ k - 1 = m /\ m <= size /\ (k + 1) - 1 = k /\ k \in Nat /\ k <= size
      BY <1>1
    <2>2. PICK long : long = SubSeq(p, 1, k) /\ long = Upper(p, k + 1) /\ long \in Seq(Nat \ {0})
                      /\ Len(long) = k /\ \A n \in 1 .. k : long[n] = p[n]
      <3>1. SubSeq(p, 0 + 1, 0 + k) \in Seq(Nat \ {0}) /\ Len(SubSeq(p, 0 + 1, 0 + k)) = k
            /\ \A n \in 1 .. k : SubSeq(p, 0 + 1, 0 + k)[n] = p[0 + n]
        BY <1>1, <2>1, Slice
      <3>2. 0 + 1 = 1 /\ 0 + k = k /\ \A n \in 1 .. k : 0 + n = n
        BY <2>1
      <3> QED  BY <2>1, <3>1, <3>2 DEF Upper
    <2>3. PICK short : short = SubSeq(p, 1, m) /\ short = Upper(p, k) /\ short \in Seq(Nat \ {0})
                       /\ Len(short) = m /\ \A n \in 1 .. m : short[n] = p[n]
      <3>1. SubSeq(p, 0 + 1, 0 + m) \in Seq(Nat \ {0}) /\ Len(SubSeq(p, 0 + 1, 0 + m)) = m
            /\ \A n \in 1 .. m : SubSeq(p, 0 + 1, 0 + m)[n] = p[0 + n]
        BY <1>1, <2>1, Slice
      <3>2. 0 + 1 = 1 /\ 0 + m = m /\ \A n \in 1 .. m : 0 + n = n
        BY <2>1
      <3> QED  BY <2>1, <3>1, <3>2 DEF Upper
    <2>4. PICK c \in Nat \ {0} : c = p[k]
      BY <1>1, ElementOfSeq
    <2>5. SubSeq(long, 1, m) = short
      <3>1. SubSeq(long, 0 + 1, 0 + m) \in Seq(Nat \ {0}) /\ Len(SubSeq(long, 0 + 1, 0 + m)) = m
            /\ \A n \in 1 .. m : SubSeq(long, 0 + 1, 0 + m)[n] = long[0 + n]
        <4>1. m <= k
          BY <2>1
        <4> QED  BY <2>1, <2>2, <4>1, Slice
      <3>2. 0 + 1 = 1 /\ 0 + m = m /\ \A n \in 1 .. m : 0 + n = n /\ n \in 1 .. k
        BY <2>1
      <3>3. PICK part \in Seq(Nat \ {0}) : part = SubSeq(long, 1, m)
        BY <3>1, <3>2
      <3>4. Len(part) = m /\ \A n \in 1 .. m : part[n] = long[n]
        BY <3>1, <3>2, <3>3
      <3>5. Len(part) = Len(short) /\ \A n \in 1 .. Len(part) : part[n] = short[n]
        BY <2>2, <2>3, <3>2, <3>4
      <3> QED  BY <2>3, <3>3, <3>5, SeqEqual
    <2>6. Append(short, c) = long
      <3>1. PICK all \in Seq(Nat \ {0}) : all = Append(short, c) /\ Len(all) = m + 1
                /\ all[m + 1] = c /\ \A n \in 1 .. m : all[n] = short[n]
        <4>1. /\ Append(short, c) \in Seq(Nat \ {0}) /\ Len(Append(short, c)) = m + 1
              /\ Append(short, c)[m + 1] = c /\ \A n \in 1 .. m : Append(short, c)[n] = short[n]
          BY <2>3, <2>4, AppendProperties
        <4> QED  BY <4>1
      <3>2. Len(all) = Len(long) /\ \A n \in 1 .. Len(all) : all[n] = long[n]
        <4>1. \A n \in 1 .. k : n = m + 1 \/ n \in 1 .. m
          BY <2>1
        <4> QED  BY <2>1, <2>2, <2>3, <2>4, <3>1, <4>1
      <3> QED  BY <2>2, <3>1, <3>2, SeqEqual
    <2>7. k \in 1 .. k
      BY <2>1
    <2> QED  BY <2>1, <2>2, <2>3, <2>4, <2>5, <2>6, <2>7
  <1> DEFINE T == {j \in Nat : j <= size => Upper(p, (size - j) + 1) \in DOMAIN doc}
  <1>5. 0 \in T
    BY <1>1, <1>2
  <1>6. ASSUME NEW q \in DOMAIN doc, NEW k \in 1 .. size, q = Upper(p, k + 1)
        PROVE  Upper(p, k) \in DOMAIN doc /\ p[k] <= Size(doc[Upper(p, k)])
    <2>1. Len(q) = k /\ q[k] = p[k] /\ SubSeq(q, 1, k - 1) = Upper(p, k)
      BY <1>4, <1>6
    <2>2. q # <<>>
      <3>1. Len(<<>>) = 0 /\ k # 0
        BY <1>1
      <3> QED  BY <2>1, <3>1
    <2> QED  BY <1>3, <2>1, <2>2
  <1>7. ASSUME NEW j \in Nat, j \in T
        PROVE  j + 1 \in T
    <2> SUFFICES ASSUME j + 1 <= size PROVE Upper(p, (size - (j + 1)) + 1) \in DOMAIN doc
      OBVIOUS
    <2>1. PICK k \in 1 .. size : k = (size - (j + 1)) + 1 /\ k + 1 = (size - j) + 1 /\ j <= size
      BY <1>0
    <2>2. Upper(p, k + 1) \in DOMAIN doc
      BY <1>7, <2>1
    <2>3. Upper(p, k) \in DOMAIN doc
      BY <1>6, <2>2
    <2> QED  BY <2>1, <2>3
  <1> HIDE DEF T
  <1>8. Nat \subseteq T
    BY <1>5, <1>7, NumberInduction
  <1>9. ASSUME NEW k \in 1 .. size + 1
        PROVE  Upper(p, k) \in DOMAIN doc
    <2>1. PICK j \in Nat : j = (size + 1) - k /\ j <= size /\ (size - j) + 1 = k
      BY <1>0
    <2>2. j \in T
      BY <1>8
    <2> QED  BY <2>1, <2>2 DEF T
  <1>10. ASSUME NEW k \in 1 .. size
         PROVE  p[k] \in 1 .. Size(doc[Upper(p, k)])
    <2>1. Upper(p, k + 1) \in DOMAIN doc /\ Upper(p, k) \in DOMAIN doc
      <3>1. k + 1 \in 1 .. size + 1 /\ k \in 1 .. size + 1
        BY <1>1
      <3> QED  BY <1>9, <3>1
    <2>2. p[k] <= Size(doc[Upper(p, k)]) /\ p[k] \in Nat \ {0}
      BY <1>4, <1>6, <2>1
    <2>3. Size(doc[Upper(p, k)]) \in Nat
      BY <2>1, DocumentParts, NodeParts
    <2> QED  BY <2>2, <2>3
  <1> QED  BY <1>1, <1>2, <1>4, <1>9, <1>10

(* Where a member or an item is in what is sent.                           *)
MemberAt(doc, pretty, q, n, rest, f, more) ==
    /\ doc[q].kind \in {"object", "array"}
    /\ Spells(doc[q], PartsOf(doc, pretty, q), pretty, f)
    /\ Spelt(more) /\ IsValue(Tokens(doc, pretty)[Append(q, n)] \o more)
    /\ Tokens(doc, pretty)[q] \o rest =
           ((<<Opening(doc[q])>> \o f[n - 1]) \o Lead(doc[q], n, pretty))
           \o (Tokens(doc, pretty)[Append(q, n)] \o more)

(* A member or item among the tokens of the document and what follows it.  *)
LEMMA MemberIn ==
    ASSUME NEW doc, IsDocument(doc), NEW pretty \in BOOLEAN, NEW q \in DOMAIN doc,
           NEW n \in 1 .. Size(doc[q]), NEW rest, Spelt(rest)
    PROVE  \E f, more : MemberAt(doc, pretty, q, n, rest, f, more)
  <1>1. PICK node \in Node : node = doc[q]
    BY DocumentParts
  <1>2. node.kind \in {"object", "array"}
    <2>1. Size(node) # 0
      BY <1>1, NodeParts
    <2> QED  BY <2>1, NodeParts
  <1>3. PICK parts : /\ parts = PartsOf(doc, pretty, q) /\ parts \in [1 .. Size(node) -> Seq(Token)]
                     /\ parts[n] = Tokens(doc, pretty)[Append(q, n)]
    <2>1. PartsOf(doc, pretty, q) \in [1 .. Size(node) -> Seq(Token)]
      BY <1>1, DocumentParts, TokensType DEF PartsOf
    <2>2. PartsOf(doc, pretty, q)[n] = Tokens(doc, pretty)[Append(q, n)]
      BY DEF PartsOf
    <2> QED  BY <2>1, <2>2
  <1>4. PICK f : /\ Spells(node, parts, pretty, f)
                 /\ Tokens(doc, pretty)[q] = (<<Opening(node)>> \o f[Size(node)]) \o <<Closing(node)>>
    BY <1>1, <1>2, <1>3, Spelled
  <1>5. /\ f[n - 1] \in Seq(Token) /\ Lead(node, n, pretty) \in Seq(Token)
        /\ <<Opening(node)>> \in Seq(Token) /\ parts[n] \in Seq(Token)
        /\ \E after \in Seq(Token) :
               (<<Opening(node)>> \o f[Size(node)]) \o <<Closing(node)>> =
                   ((<<Opening(node)>> \o f[n - 1]) \o Lead(node, n, pretty))
                   \o (parts[n] \o after)
    <2>1. n \in 1 .. Size(node)
      BY <1>1
    <2>2. PartAt(node, pretty, parts, f, n)
      BY <1>3, <1>4, <2>1, PartIn
    <2> QED  BY <2>2 DEF PartAt
  <1>6. PICK a, b, c, v, after :
            /\ a = <<Opening(node)>> /\ b = f[n - 1] /\ c = Lead(node, n, pretty) /\ v = parts[n]
            /\ Spelt(a) /\ Spelt(b) /\ Spelt(c) /\ Spelt(v) /\ Spelt(after)
            /\ Tokens(doc, pretty)[q] = Chain(Chain(Chain(a, b), c), Chain(v, after))
    BY <1>4, <1>5 DEF Spelt, Chain
  <1>7. /\ Chain(Tokens(doc, pretty)[q], rest)
              = Chain(Chain(Chain(a, b), c), Chain(v, Chain(after, rest)))
        /\ Spelt(Chain(after, rest)) /\ Spelt(Chain(v, Chain(after, rest)))
    <2>1. Spelt(Chain(after, rest)) /\ Spelt(Chain(a, b)) /\ Spelt(Chain(v, after))
          /\ Spelt(Chain(v, Chain(after, rest)))
      BY <1>6, Chains
    <2>2. PICK s : s = Chain(Chain(a, b), c) /\ Spelt(s)
      BY <1>6, <2>1, Chains
    <2>3. Chain(Chain(s, Chain(v, after)), rest) = Chain(s, Chain(Chain(v, after), rest))
      BY <2>1, <2>2, Chains
    <2>4. Chain(Chain(v, after), rest) = Chain(v, Chain(after, rest))
      BY <1>6, Chains
    <2> QED  BY <1>6, <2>1, <2>2, <2>3, <2>4
  <1>8. IsValue(Chain(v, Chain(after, rest)))
    <2>1. Append(q, n) \in DOMAIN doc
      BY DocumentParts
    <2>2. v # <<>> /\ ~IsMark(v[1], Blanks \cup {":"})
      BY <1>3, <1>6, <2>1, ValueStarts
    <2>3. PICK t, s : t = Chain(after, rest) /\ s = Chain(v, t) /\ Spelt(t) /\ Spelt(s)
      BY <1>7
    <2>4. s # <<>> /\ s[1] = v[1]
      <3>1. v \in Seq(Token) /\ t \in Seq(Token) /\ s = v \o t
        BY <1>6, <2>3 DEF Spelt, Chain
      <3>2. Len(v) \in Nat /\ Len(v) # 0
        BY <2>2, <3>1, EmptySeq, LenProperties
      <3>3. Len(s) = Len(v) + Len(t) /\ Len(t) \in Nat /\ 1 \in 1 .. Len(v)
            /\ \A i \in 1 .. Len(v) : s[i] = v[i]
        BY <3>1, <3>2, Joined
      <3>4. Len(s) # 0
        BY <3>2, <3>3
      <3> QED  BY <3>3, <3>4
    <2> QED  BY <2>2, <2>3, <2>4 DEF IsValue, Spelt
  <1>9. \E more : /\ Spelt(more) /\ IsValue(parts[n] \o more)
                  /\ Tokens(doc, pretty)[q] \o rest =
                         ((<<Opening(node)>> \o f[n - 1]) \o Lead(node, n, pretty)) \o (parts[n] \o more)
    BY <1>6, <1>7, <1>8 DEF Chain
  <1>10. PICK more : /\ Spelt(more) /\ IsValue(parts[n] \o more)
                     /\ Tokens(doc, pretty)[q] \o rest =
                            ((<<Opening(node)>> \o f[n - 1]) \o Lead(node, n, pretty))
                            \o (parts[n] \o more)
    BY <1>9
  <1>11. MemberAt(doc, pretty, q, n, rest, f, more)
    BY <1>1, <1>2, <1>3, <1>4, <1>10 DEF MemberAt
  <1> QED  BY <1>11

(* A scan for a key passes over what does not mention it.                  *)
LEMMA OthersAre ==
    ASSUME NEW name, NEW s \in Seq(Token), name \notin Names(s)
    PROVE  s \in Seq(Others(name))
  <1>1. DOMAIN s = 1 .. Len(s) /\ Len(s) \in Nat
    BY LenProperties
  <1>2. ASSUME NEW n \in 1 .. Len(s)
        PROVE  s[n] \in Others(name)
    <2>1. s[n] \in Token
      BY <1>1, ElementOfSeq
    <2>2. ~(s[n].kind = "text" /\ s[n].name = name)
      BY <1>1 DEF Names
    <2> QED  BY <2>1, <2>2 DEF Others
  <1>3. PICK size \in Nat : size = Len(s) /\ s \in [1 .. size -> Others(name)]
    <2>1. s \in [1 .. Len(s) -> Token]
      BY LenProperties
    <2> QED  BY <1>1, <1>2, <2>1
  <1> QED  BY <1>3

(* The marks, and other names, are not the name.                           *)
LEMMA NoNames ==
    ASSUME NEW name \in STRING
    PROVE  /\ \A c \in Marks \ {"text"} : Mark(c) \in Others(name)
           /\ \A other \in STRING : other # name => Text(other) \in Others(name)
           /\ \A s, t \in Seq(Others(name)) : s \o t \in Seq(Others(name))
           /\ \A x \in Others(name) : <<x>> \in Seq(Others(name))
           /\ \A x, y \in Others(name) : <<x, y>> \in Seq(Others(name))
           /\ <<>> \in Seq(Others(name))
  <1>1. PICK set : set = Others(name)
    OBVIOUS
  <1>2. /\ \A s, t \in Seq(set) : s \o t \in Seq(set)
        /\ \A x \in set : <<x>> \in Seq(set)
        /\ \A x, y \in set : <<x, y>> \in Seq(set)
        /\ <<>> \in Seq(set)
    BY ConcatProperties
  <1>3. \A c \in Marks \ {"text"} : Mark(c) \in Others(name)
    BY DEF Mark, Others, Token
  <1>4. \A other \in STRING : other # name => Text(other) \in Others(name)
    BY DEF Text, Others, Token
  <1> QED  BY <1>1, <1>2, <1>3, <1>4

(* Nor is what stands around a member.                                     *)
LEMMA OtherMarks ==
    ASSUME NEW name \in STRING, NEW pretty \in BOOLEAN, NEW node
    PROVE  /\ Opening(node) \in Others(name)
           /\ Colon(pretty) \in Seq(Others(name)) /\ Comma(pretty) \in Seq(Others(name))
  <1>1. {"{", "[", ":", ",", " ", "newline"} \subseteq Marks \ {"text"}
    BY Zenon DEF Marks
  <1>2. PICK colon, space, comma, newline, brace, bracket :
            /\ colon = Mark(":") /\ space = Mark(" ") /\ comma = Mark(",")
            /\ newline = Mark("newline") /\ brace = Mark("{") /\ bracket = Mark("[")
    BY Zenon
  <1>3. {colon, space, comma, newline, brace, bracket} \subseteq Others(name)
    <2>1. /\ colon \in Others(name) /\ space \in Others(name) /\ comma \in Others(name)
          /\ newline \in Others(name) /\ brace \in Others(name) /\ bracket \in Others(name)
      BY Zenon, <1>1, <1>2, NoNames
    <2> QED  BY <2>1
  <1>4. Opening(node) \in {brace, bracket}
    BY Zenon, <1>2 DEF Opening
  <1>5. Colon(pretty) \in {<<colon, space>>, <<colon>>} /\ Comma(pretty) \in {<<comma, newline>>, <<comma>>}
    BY Zenon, <1>2 DEF Colon, Comma
  <1>6. /\ <<colon, space>> \in Seq(Others(name)) /\ <<colon>> \in Seq(Others(name))
        /\ <<comma, newline>> \in Seq(Others(name)) /\ <<comma>> \in Seq(Others(name))
    BY <1>3, NoNames
  <1>7. Opening(node) \in Others(name)
    BY <1>3, <1>4
  <1> QED  BY <1>5, <1>6, <1>7

(* The members before one of them, when none has its name or mentions it.  *)
LEMMA MembersBefore ==
    ASSUME NEW node \in Node, node.kind = "object", NEW pretty \in BOOLEAN, NEW parts, NEW f,
           Spells(node, parts, pretty, f), NEW n \in 1 .. Size(node), NEW name \in STRING,
           \A m \in 1 .. n - 1 : /\ node.names[m] # name /\ parts[m] \in Seq(Token)
                                 /\ name \notin Names(parts[m])
    PROVE  f[n - 1] \in Seq(Others(name))
  <1>0. PICK size \in Nat : size = Size(node) /\ node.names \in Seq(STRING) /\ size = Len(node.names)
    BY NodeParts
  <1>a. size \in Nat /\ n \in 1 .. size
    BY <1>0
  <1> DEFINE T == {k \in Nat : k <= n - 1 => f[k] \in Seq(Others(name))}
  <1>1. 0 \in T
    BY NoNames DEF Spells
  <1>2. ASSUME NEW k \in Nat, k \in T
        PROVE  k + 1 \in T
    <2> SUFFICES ASSUME k + 1 <= n - 1 PROVE f[k + 1] \in Seq(Others(name))
      OBVIOUS
    <2>1. k <= n - 1 /\ k \in 0 .. size - 1 /\ k + 1 \in 1 .. n - 1 /\ k + 1 \in 1 .. size
      BY <1>a
    <2>2. f[k] \in Seq(Others(name))
      BY <1>2, <2>1
    <2>3. f[k + 1] = f[k] \o (Lead(node, k + 1, pretty) \o parts[k + 1])
      BY <1>0, <2>1 DEF Spells
    <2>4. parts[k + 1] \in Seq(Others(name))
      BY <2>1, OthersAre
    <2>5. PICK other \in STRING : other = node.names[k + 1] /\ other # name
      BY <1>0, <2>1, ElementOfSeq
    <2>6. PICK sep, label : /\ sep = IF k + 1 = 1 THEN <<>> ELSE Comma(pretty)
                            /\ label = <<Text(other)>> \o Colon(pretty)
      OBVIOUS
    <2>7. sep \in Seq(Others(name)) /\ label \in Seq(Others(name))
      <3>1. sep \in Seq(Others(name))
        BY <2>6, NoNames, OtherMarks
      <3>2. Text(other) \in Others(name) /\ Colon(pretty) \in Seq(Others(name))
        BY <2>5, NoNames, OtherMarks
      <3>3. <<Text(other)>> \in Seq(Others(name))
        BY <3>2, NoNames
      <3> QED  BY <2>6, <3>1, <3>2, <3>3, NoNames
    <2>8. Lead(node, k + 1, pretty) = sep \o label
      BY <2>5, <2>6 DEF Lead
    <2>9. (sep \o label) \o parts[k + 1] \in Seq(Others(name))
      BY <2>4, <2>7, NoNames
    <2> QED  BY <2>2, <2>3, <2>8, <2>9, NoNames
  <1> HIDE DEF T
  <1>3. Nat \subseteq T
    BY <1>1, <1>2, NumberInduction
  <1>4. n - 1 \in Nat /\ n - 1 <= n - 1
    BY <1>a
  <1>5. n - 1 \in T
    BY <1>3, <1>4
  <1> QED  BY <1>4, <1>5 DEF T

(* A key leads to the value of the first member with its name.             *)
LEMMA KeyStep ==
    ASSUME NEW doc, IsDocument(doc), NEW pretty \in BOOLEAN, NEW q \in DOMAIN doc,
           doc[q].kind = "object", NEW n \in 1 .. Size(doc[q]), NEW rest, NEW f, NEW more,
           MemberAt(doc, pretty, q, n, rest, f, more),
           NEW name, name = doc[q].names[n],
           \A m \in 1 .. n - 1 : /\ doc[q].names[m] # name
                                 /\ name \notin Names(Tokens(doc, pretty)[Append(q, m)])
    PROVE  ReachesKey(Tokens(doc, pretty)[q] \o rest, name,
                      Tokens(doc, pretty)[Append(q, n)] \o more)
  <1>1. PICK node \in Node : /\ node = doc[q] /\ node.kind = "object" /\ node.names \in Seq(STRING)
                             /\ Size(node) = Len(node.names) /\ Size(node) \in Nat
    <2>1. doc[q] \in Node
      BY DocumentParts
    <2> QED  BY <2>1, NodeParts
  <1>2. name \in STRING
    BY <1>1, ElementOfSeq
  <1>3. PICK parts : /\ parts = PartsOf(doc, pretty, q) /\ parts \in [1 .. Size(node) -> Seq(Token)]
                     /\ \A m \in 1 .. Size(node) : parts[m] = Tokens(doc, pretty)[Append(q, m)]
    <2>1. PartsOf(doc, pretty, q) \in [1 .. Size(node) -> Seq(Token)]
      BY <1>1, DocumentParts, TokensType DEF PartsOf
    <2>2. \A m \in 1 .. Size(node) : PartsOf(doc, pretty, q)[m] = Tokens(doc, pretty)[Append(q, m)]
      BY <1>1 DEF PartsOf
    <2> QED  BY <2>1, <2>2
  <1>4. Spells(node, parts, pretty, f)
    BY <1>1, <1>3 DEF MemberAt
  <1>5. f[n - 1] \in Seq(Others(name))
    <2>1. n \in 1 .. Size(node) /\ \A m \in 1 .. n - 1 : m \in 1 .. Size(node)
      BY <1>1
    <2>2. \A m \in 1 .. n - 1 : /\ node.names[m] # name /\ parts[m] \in Seq(Token)
                                /\ name \notin Names(parts[m])
      BY <1>1, <1>3, <2>1
    <2> QED  BY <1>1, <1>2, <1>4, <2>1, <2>2, MembersBefore
  <1>6. PICK open, sep, label, value, before :
            /\ open = <<Opening(node)>> /\ sep = (IF n = 1 THEN <<>> ELSE Comma(pretty))
            /\ label = <<Text(name)>> \o Colon(pretty)
            /\ value = Tokens(doc, pretty)[Append(q, n)] \o more
            /\ before = (open \o f[n - 1]) \o sep
    OBVIOUS
  <1>7. /\ open \in Seq(Others(name)) /\ sep \in Seq(Others(name)) /\ before \in Seq(Others(name))
    BY <1>2, <1>5, <1>6, NoNames, OtherMarks
  <1>8. Spelt(open) /\ Spelt(f[n - 1]) /\ Spelt(sep) /\ Spelt(before) /\ Spelt(label)
    <2>1. Others(name) \subseteq Token
      BY DEF Others
    <2>2. Seq(Others(name)) \subseteq Seq(Token)
      BY <2>1, SeqMonotonic
    <2>3. label \in Seq(Token)
      BY <1>1, <1>2, <1>6, NodeParts
    <2> QED  BY <1>5, <1>7, <2>2, <2>3 DEF Spelt
  <1>9. Lead(node, n, pretty) = sep \o label
    BY <1>1, <1>6 DEF Lead
  <1>10. PICK json : json = Tokens(doc, pretty)[q] \o rest
    OBVIOUS
  <1>11. json = ((open \o f[n - 1]) \o (sep \o label)) \o value
    BY <1>1, <1>6, <1>9, <1>10 DEF MemberAt
  <1>12. (open \o f[n - 1]) \o (sep \o label) = before \o label
    <2>1. PICK a : a = Chain(open, f[n - 1]) /\ Spelt(a)
      BY <1>8, Chains
    <2>2. Chain(Chain(a, sep), label) = Chain(a, Chain(sep, label))
      BY <1>8, <2>1, Chains
    <2> QED  BY <1>6, <2>1, <2>2 DEF Chain
  <1>13. json = (before \o (<<Text(name)>> \o Colon(pretty))) \o value
    BY <1>6, <1>11, <1>12
  <1>14. IsValue(value)
    BY <1>6 DEF MemberAt
  <1>15. ReachesKey(json, name, value)
    BY <1>2, <1>7, <1>13, <1>14, KeyFound
  <1> QED  BY <1>6, <1>10, <1>15

(* An index leads to the item, when no earlier one disturbs the count.     *)
LEMMA ItemStep ==
    ASSUME NEW doc, IsDocument(doc), NEW pretty \in BOOLEAN, NEW q \in DOMAIN doc,
           doc[q].kind = "array", NEW n \in 1 .. Size(doc[q]), NEW rest, NEW f, NEW more,
           MemberAt(doc, pretty, q, n, rest, f, more),
           \A m \in 1 .. n - 1 : NothingToCount(doc, Append(q, m))
    PROVE  ReachesItem(Tokens(doc, pretty)[q] \o rest, n - 1,
                   Tokens(doc, pretty)[Append(q, n)] \o more)
  <1>1. PICK node \in Node : node = doc[q] /\ node.kind = "array" /\ Size(node) \in Nat
    <2>1. doc[q] \in Node
      BY DocumentParts
    <2> QED  BY <2>1, NodeParts
  <1>2. PICK parts : /\ parts = PartsOf(doc, pretty, q)
                     /\ \A m \in 1 .. Size(node) : parts[m] = Tokens(doc, pretty)[Append(q, m)]
    <2>1. \A m \in 1 .. Size(node) : PartsOf(doc, pretty, q)[m] = Tokens(doc, pretty)[Append(q, m)]
      BY <1>1 DEF PartsOf
    <2> QED  BY <2>1
  <1>3. n \in 1 .. Size(node) /\ \A m \in 1 .. n - 1 : m \in 1 .. Size(node)
    BY <1>1
  <1>4. ASSUME NEW m \in 1 .. n - 1
        PROVE  Has(parts[m], 0)
    <2>1. Append(q, m) \in DOMAIN doc
      BY <1>1, <1>3, DocumentParts
    <2>2. Has(Tokens(doc, pretty)[Append(q, m)], 0)
      BY <2>1, DocumentBalanced
    <2> QED  BY <1>2, <1>3, <2>2
  <1>5. Spells(node, parts, pretty, f)
    BY <1>1, <1>2 DEF MemberAt
  <1>6. PICK json, value : /\ json = Tokens(doc, pretty)[q] \o rest
                           /\ value = Tokens(doc, pretty)[Append(q, n)] \o more
    OBVIOUS
  <1>7. IsValue(value)
    BY <1>6 DEF MemberAt
  <1>8. json = ((<<Opening(node)>> \o f[n - 1]) \o Lead(node, n, pretty)) \o value
    BY <1>1, <1>6 DEF MemberAt
  <1>9. ReachesItem(json, n - 1, value)
    BY <1>1, <1>3, <1>4, <1>5, <1>7, <1>8, ItemFound
  <1> QED  BY <1>6, <1>9

(* One segment leads from one slice to another.                            *)
Leads(json, segment, value) ==
    \/ segment.kind = "key" /\ ReachesKey(json, segment.name, value)
    \/ segment.kind = "index" /\ ReachesItem(json, segment.index, value)

(* The k-th step of the way.                                               *)
LEMMA WayStep ==
    ASSUME NEW doc, IsDocument(doc), NEW p \in DOMAIN doc, NEW k \in 1 .. Len(p)
    PROVE  /\ Upper(p, k) \in DOMAIN doc /\ p[k] \in 1 .. Size(doc[Upper(p, k)])
           /\ Append(Upper(p, k), p[k]) = Upper(p, k + 1)
  <1>1. Len(p) \in Nat /\ \A m \in 1 .. Len(p) + 1 : Upper(p, m) \in DOMAIN doc
    BY WayDown
  <1>2. k \in 1 .. Len(p) + 1
    BY <1>1
  <1>3. \A m \in 1 .. Len(p) : /\ p[m] \in 1 .. Size(doc[Upper(p, m)])
                             /\ Append(Upper(p, m), p[m]) = Upper(p, m + 1)
    BY WayDown
  <1> QED  BY <1>1, <1>2, <1>3

(* In the tokens of a document, whatever is before or behind it, a segment *)
(* of a path leads to the member or item it is for, if no earlier string   *)
(* is in the way (navigate_to_key, navigate_to_array_element:              *)
(* main.rs:159-220).                                                       *)
THEOREM StepDown ==
    ASSUME NEW doc, IsDocument(doc), NEW pretty \in BOOLEAN, NEW path \in Seq(Segment),
           Clear(doc, pretty, path),
           NEW p \in PlacesAt(doc, path), NEW k \in DOMAIN path, NEW rest, Spelt(rest)
    PROVE  \E more : /\ Spelt(more)
                     /\ Leads(Tokens(doc, pretty)[Upper(p, k)] \o rest, path[k],
                              Tokens(doc, pretty)[Upper(p, k + 1)] \o more)
  <1>1. /\ p \in DOMAIN doc /\ Len(p) = Len(path) /\ IsFor(path[k], doc[Upper(p, k)], p[k])
    BY DEF PlacesAt
  <1>2. PICK q, n : q = Upper(p, k) /\ n = p[k]
    OBVIOUS
  <1>3. /\ q \in DOMAIN doc /\ n \in 1 .. Size(doc[q]) /\ Append(q, n) = Upper(p, k + 1)
    <2>1. k \in 1 .. Len(p)
      BY <1>1, LenProperties
    <2>2. /\ Upper(p, k) \in DOMAIN doc /\ p[k] \in 1 .. Size(doc[Upper(p, k)])
          /\ Append(Upper(p, k), p[k]) = Upper(p, k + 1)
      BY <1>1, <2>1, WayStep
    <2> QED  BY <1>2, <2>2
  <1>4. PICK f, more : MemberAt(doc, pretty, q, n, rest, f, more)
    BY <1>3, MemberIn
  <1>5. Spelt(more)
    BY <1>4 DEF MemberAt
  <1>6. \A m \in 1 .. n - 1 :
            IF path[k].kind = "key"
            THEN /\ doc[q].names[m] # path[k].name
                 /\ path[k].name \notin Names(Tokens(doc, pretty)[Append(q, m)])
            ELSE NothingToCount(doc, Append(q, m))
    BY <1>2 DEF Clear
  <1>7. CASE path[k].kind = "key"
    <2>1. PICK name : name = path[k].name
      OBVIOUS
    <2>2. doc[q].kind = "object" /\ name = doc[q].names[n]
      BY <1>1, <1>2, <1>7, <2>1 DEF IsFor
    <2>3. \A m \in 1 .. n - 1 : /\ doc[q].names[m] # name
                                /\ name \notin Names(Tokens(doc, pretty)[Append(q, m)])
      BY <1>6, <1>7, <2>1
    <2>4. ReachesKey(Tokens(doc, pretty)[q] \o rest, name, Tokens(doc, pretty)[Append(q, n)] \o more)
      BY <1>3, <1>4, <2>2, <2>3, KeyStep
    <2> QED  BY <1>2, <1>3, <1>5, <1>7, <2>1, <2>4 DEF Leads
  <1>8. CASE path[k].kind = "index"
    <2>1. path[k].index \in Nat
      <3>1. path[k] \in Segment
        OBVIOUS
      <3> QED  BY <1>8, <3>1 DEF Segment
    <2>2. doc[q].kind = "array" /\ n = path[k].index + 1
      BY <1>1, <1>2, <1>8 DEF IsFor
    <2>3. n - 1 = path[k].index
      BY <2>1, <2>2
    <2>4. \A m \in 1 .. n - 1 : NothingToCount(doc, Append(q, m))
      BY <1>6, <1>8
    <2>5. ReachesItem(Tokens(doc, pretty)[q] \o rest, n - 1, Tokens(doc, pretty)[Append(q, n)] \o more)
      BY <1>3, <1>4, <2>2, <2>4, ItemStep
    <2> QED  BY <1>2, <1>3, <1>5, <1>8, <2>3, <2>5 DEF Leads
  <1>9. path[k].kind = "key" \/ path[k].kind = "index"
    <2>1. path[k] \in Segment
      OBVIOUS
    <2> QED  BY <2>1 DEF Segment
  <1> QED  BY <1>7, <1>8, <1>9

(* Where no earlier member has the name of a key, a path leads to one      *)
(* place at most.                                                          *)
LEMMA PlaceUnique ==
    ASSUME NEW doc, IsDocument(doc), NEW pretty, NEW path \in Seq(Segment),
           Clear(doc, pretty, path), NEW p \in PlacesAt(doc, path), NEW r \in PlacesAt(doc, path)
    PROVE  p = r
  <1>1. /\ p \in DOMAIN doc /\ r \in DOMAIN doc /\ Len(p) = Len(path) /\ Len(r) = Len(path)
        /\ \A k \in DOMAIN path : /\ IsFor(path[k], doc[Upper(p, k)], p[k])
                                  /\ IsFor(path[k], doc[Upper(r, k)], r[k])
    BY DEF PlacesAt
  <1>2. PICK size \in Nat : size = Len(path) /\ DOMAIN path = 1 .. size
    BY LenProperties
  <1>3. /\ \A k \in 1 .. size : /\ p[k] \in 1 .. Size(doc[Upper(p, k)])
                                /\ r[k] \in 1 .. Size(doc[Upper(r, k)])
                                /\ Append(Upper(p, k), p[k]) = Upper(p, k + 1)
                                /\ Append(Upper(r, k), r[k]) = Upper(r, k + 1)
                                /\ Upper(p, k) \in DOMAIN doc
        /\ Upper(p, size + 1) = p /\ Upper(r, size + 1) = r
        /\ Upper(p, 1) = <<>> /\ Upper(r, 1) = <<>>
    <2>1. \A k \in 1 .. size : k \in 1 .. size + 1
      OBVIOUS
    <2> QED  BY <1>1, <1>2, <2>1, WayDown
  <1>4. ASSUME NEW k \in 1 .. size, Upper(p, k) = Upper(r, k)
        PROVE  p[k] = r[k]
    <2>1. PICK q : q = Upper(p, k) /\ q = Upper(r, k) /\ q \in DOMAIN doc
      BY <1>3, <1>4
    <2>2. p[k] \in 1 .. Size(doc[q]) /\ r[k] \in 1 .. Size(doc[q]) /\ Size(doc[q]) \in Nat
      BY <1>3, <2>1, DocumentParts, NodeParts
    <2>3. IsFor(path[k], doc[q], p[k]) /\ IsFor(path[k], doc[q], r[k])
      BY <1>1, <1>2, <2>1
    <2>4. CASE path[k].kind = "index"
      <3>1. p[k] = path[k].index + 1 /\ r[k] = path[k].index + 1
        BY <2>3, <2>4 DEF IsFor
      <3> QED  BY <3>1
    <2>5. CASE path[k].kind # "index"
      <3>1. /\ path[k].kind = "key" /\ doc[q].names[p[k]] = path[k].name
            /\ doc[q].names[r[k]] = path[k].name
        BY <2>3, <2>5 DEF IsFor
      <3>2. \A n \in 1 .. p[k] - 1 : doc[q].names[n] # path[k].name
        BY <1>2, <2>1, <3>1 DEF Clear
      <3>3. \A n \in 1 .. r[k] - 1 : doc[q].names[n] # path[k].name
        BY <1>2, <2>1, <3>1 DEF Clear
      <3>4. PICK a \in Nat, b \in Nat : a = p[k] /\ b = r[k] /\ a # 0 /\ b # 0
        BY <2>2
      <3>5. ~(a \in 1 .. b - 1) /\ ~(b \in 1 .. a - 1)
        BY <3>1, <3>2, <3>3, <3>4
      <3>6. a = b
        BY <3>4, <3>5
      <3> QED  BY <3>4, <3>6
    <2> QED  BY <2>4, <2>5
  <1> DEFINE T == {k \in Nat : k <= size => Upper(p, k + 1) = Upper(r, k + 1)}
  <1>5. 0 \in T
    BY <1>3
  <1>6. ASSUME NEW k \in Nat, k \in T
        PROVE  k + 1 \in T
    <2> SUFFICES ASSUME k + 1 <= size PROVE Upper(p, (k + 1) + 1) = Upper(r, (k + 1) + 1)
      OBVIOUS
    <2>1. k <= size /\ k + 1 \in 1 .. size
      BY <1>2
    <2>2. Upper(p, k + 1) = Upper(r, k + 1)
      BY <1>6, <2>1
    <2>3. p[k + 1] = r[k + 1]
      BY <1>4, <2>1, <2>2
    <2> QED  BY <1>3, <2>1, <2>2, <2>3
  <1> HIDE DEF T
  <1>7. Nat \subseteq T
    BY <1>5, <1>6, NumberInduction
  <1>8. size \in T
    BY <1>7
  <1> QED  BY <1>3, <1>8 DEF T

-----------------------------------------------------------------------------
(* The response                                                            *)

(* The body is what follows the blank line: the document.                  *)
LEMMA BodyIsDocument ==
    ASSUME NEW doc, IsDocument(doc), NEW pretty \in BOOLEAN
    PROVE  Body(Response(doc, pretty)) = Tokens(doc, pretty)[<<>>]
  <1>1. PICK rest : rest = Tokens(doc, pretty)[<<>>] /\ rest \in Seq(Token)
    <2>1. <<>> \in DOMAIN doc
      BY DEF IsDocument
    <2> QED  BY <2>1, TokensType
  <1>2. PICK blank : blank = {"blank line"}
    BY Zenon
  <1>3. PICK h1, h2, h3, h4, h5, h6 :
            /\ h1 = Mark("status") /\ h2 = Mark(":") /\ h3 = Mark(" ") /\ h4 = Bare(<<9>>)
            /\ h5 = Mark("newline") /\ h6 = Mark("blank line")
    BY Zenon
  <1>4. /\ ~IsMark(h1, blank) /\ ~IsMark(h2, blank) /\ ~IsMark(h3, blank) /\ ~IsMark(h4, blank)
        /\ ~IsMark(h5, blank) /\ IsMark(h6, blank)
    <2>1. /\ ~IsMark(h1, blank) /\ ~IsMark(h2, blank) /\ ~IsMark(h3, blank)
      BY Zenon, <1>2, <1>3 DEF IsMark, Mark
    <2>2. ~IsMark(h4, blank)
      BY Zenon, <1>2, <1>3 DEF IsMark, Bare
    <2>3. ~IsMark(h5, blank) /\ IsMark(h6, blank)
      BY Zenon, <1>2, <1>3 DEF IsMark, Mark
    <2> QED  BY <2>1, <2>2, <2>3
  <1>5. h1 \in Token /\ h2 \in Token /\ h3 \in Token /\ h4 \in Token /\ h5 \in Token /\ h6 \in Token
    <2>1. \A c \in Marks : Mark(c) \in Token
      <3>1. PICK node \in Node : TRUE
        <4>1. Null \in Node
          BY DEF Node, Null
        <4> QED  BY <4>1
      <3> QED  BY <3>1, NodeParts
    <2>2. {"status", ":", " ", "newline", "blank line"} \subseteq Marks
      BY Zenon DEF Marks
    <2>3. h1 \in Token /\ h2 \in Token /\ h3 \in Token /\ h5 \in Token /\ h6 \in Token
      BY Zenon, <1>3, <2>1, <2>2
    <2>4. h4 \in Token
      <3>1. PICK chars : chars = <<9>>
        OBVIOUS
      <3>2. PICK C : C = 0 .. 9 \cup {Minus, Dot, Other}
        OBVIOUS
      <3>3. 9 \in C
        <4>1. 9 \in 0 .. 9
          OBVIOUS
        <4> QED  BY <3>2, <4>1
      <3>4. chars \in Seq(C) /\ Len(chars) = 1
        BY <3>1, <3>3
      <3>5. chars # <<>>
        <4>1. Len(<<>>) = 0
          OBVIOUS
        <4>2. 1 # 0
          OBVIOUS
        <4> QED  BY Zenon, <3>4, <4>1, <4>2
      <3>6. [kind |-> "bare", chars |-> chars] \in NumberToken
        BY <3>2, <3>4, <3>5 DEF NumberToken
      <3>7. h4 = [kind |-> "bare", chars |-> chars]
        BY Zenon, <1>3, <3>1 DEF Bare
      <3> QED  BY <3>6, <3>7 DEF Token
    <2> QED  BY <2>3, <2>4
  <1>6. PICK lead : lead = Headers \o <<Mark("blank line")>>
    BY Zenon
  <1>7. lead = <<h1, h2, h3, h4, h5>> \o <<h6>>
    BY Zenon, <1>3, <1>6 DEF Headers
  <1>8. /\ lead \in Seq(Token) /\ Len(lead) = 6 /\ lead[1] = h1 /\ lead[2] = h2 /\ lead[3] = h3
        /\ lead[4] = h4 /\ lead[5] = h5 /\ lead[6] = h6
    <2>1. PICK T : T = Token /\ h1 \in T /\ h2 \in T /\ h3 \in T /\ h4 \in T /\ h5 \in T /\ h6 \in T
      BY <1>5
    <2>2. lead \in Seq(T)
      BY <1>7, <2>1
    <2>3. /\ Len(lead) = 6 /\ lead[1] = h1 /\ lead[2] = h2 /\ lead[3] = h3
          /\ lead[4] = h4 /\ lead[5] = h5 /\ lead[6] = h6
      BY <1>7
    <2> QED  BY <2>1, <2>2, <2>3
  <1>9. PICK json : json = lead \o rest /\ json = Response(doc, pretty)
    <2>1. Response(doc, pretty) = lead \o rest
      BY Zenon, <1>1, <1>6 DEF Response
    <2> QED  BY <2>1
  <1>10. /\ DOMAIN json = 1 .. 6 + Len(rest) /\ Len(rest) \in Nat
         /\ \A n \in 1 .. 6 : json[n] = lead[n]
         /\ From(json, 7) = rest
    <2>1. /\ Len(rest) \in Nat /\ DOMAIN (lead \o rest) = 1 .. Len(lead) + Len(rest)
          /\ \A n \in 1 .. Len(lead) : (lead \o rest)[n] = lead[n]
          /\ From(lead \o rest, Len(lead) + 1) = rest
      <3>1. lead \in Seq(Token) /\ rest \in Seq(Token)
        BY <1>1, <1>8
      <3> QED  BY <3>1, Joined
    <2>2. PICK size : size = Len(lead) /\ size = 6 /\ size + 1 = 7
      BY <1>8
    <2> QED  BY <1>9, <2>1, <2>2
  <1>11. PICK ends : ends = {n \in DOMAIN json : IsMark(json[n], blank)}
    OBVIOUS
  <1>12. /\ ends \in SUBSET Nat /\ 6 \in ends /\ \A n \in ends : 6 <= n
    <2>1. \A n \in Nat : ~(6 <= n) /\ n # 0 => n = 1 \/ n = 2 \/ n = 3 \/ n = 4 \/ n = 5
      OBVIOUS
    <2>2. 6 \in DOMAIN json /\ \A n \in DOMAIN json : n \in Nat /\ n # 0
      BY <1>10
    <2>3. {1, 2, 3, 4, 5, 6} \subseteq 1 .. 6
      OBVIOUS
    <2>4. /\ json[1] = h1 /\ json[2] = h2 /\ json[3] = h3 /\ json[4] = h4 /\ json[5] = h5
          /\ json[6] = h6
      BY <1>8, <1>10, <2>3
    <2> QED  BY <1>4, <1>11, <2>1, <2>2, <2>4
  <1>13. Min(ends) = 6 /\ ends # {} /\ 6 + 1 = 7
    BY <1>12, FirstIs
  <1>14. Body(json) = IF ends = {} THEN json ELSE From(json, Min(ends) + 1)
    BY Zenon, <1>2, <1>11 DEF Body
  <1>15. Body(json) = rest
    BY <1>10, <1>13, <1>14
  <1> QED  BY <1>1, <1>9, <1>15

==============================================================================
