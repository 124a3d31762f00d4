---------------------------- MODULE NamesProofs -----------------------------
(***************************************************************************)
(* What RetrievePodName and RetrieveContainerName make of the names of     *)
(* archives, for names of any words and of any length.                     *)
(***************************************************************************)
EXTENDS MCRestore, SequenceTheorems, WellFoundedInduction, TLAPS

USE NamesAssumption

Word == Words \cup {"checkpoint"}

(* A set with a least element has it as its minimum. *)
LEMMA MinIs ==
    ASSUME NEW S \in SUBSET Int, NEW m \in S, \A x \in S : m <= x
    PROVE  Min(S) = m
  <1>1. Min(S) \in S /\ \A y \in S : Min(S) <= y
    <2>1. \E x \in S : \A y \in S : x <= y
      OBVIOUS
    <2> QED
      BY <2>1, Zenon DEF Min
  <1>2. Min(S) \in Int /\ m \in Int /\ Min(S) <= m /\ m <= Min(S)
    BY <1>1
  <1> QED
    BY <1>2

(* A set with a greatest element has it as its maximum. *)
LEMMA MaxIs ==
    ASSUME NEW S \in SUBSET Int, NEW m \in S, \A x \in S : m >= x
    PROVE  Max(S) = m
  <1>1. Max(S) \in S /\ \A y \in S : Max(S) >= y
    <2>1. \E x \in S : \A y \in S : x >= y
      OBVIOUS
    <2> QED
      BY <2>1, Zenon DEF Max
  <1>2. Max(S) \in Int /\ m \in Int /\ Max(S) >= m /\ m >= Max(S)
    BY <1>1
  <1> QED
    BY <1>2

(* A set of natural numbers that is bounded and not empty has a maximum. *)
LEMMA MaxExists ==
    ASSUME NEW n \in Nat, NEW S \in SUBSET (1..n), S # {}
    PROVE  Max(S) \in S /\ \A x \in S : x <= Max(S)
  <1> DEFINE T == {k \in Nat : n - k \in S}
  <1>1. T \subseteq Nat /\ T # {}
    <2>1. PICK x \in S : TRUE
      OBVIOUS
    <2>2. n - x \in T
      BY <2>1
    <2> QED
      BY <2>2
  <1>2. PICK k \in T : \A j \in T : ~(<<j, k>> \in OpToRel(<, Nat))
    BY <1>1, NatLessThanWellFounded, WFMin
  <1>3. \A j \in T : k <= j
    <2> HIDE DEF T
    <2>1. ASSUME NEW j \in T, j < k PROVE FALSE
      <3>1. <<j, k>> \in OpToRel(<, Nat)
        BY <1>1, <2>1 DEF OpToRel
      <3> QED
        BY <1>2, <3>1
    <2> QED
      BY <1>1, <2>1
  <1>4. ASSUME NEW x \in S PROVE n - k >= x
    <2>1. n - x \in T
      OBVIOUS
    <2> QED
      BY <1>3, <2>1
  <1>5. Max(S) = n - k
    <2>1. n - k \in S /\ S \in SUBSET Int
      OBVIOUS
    <2>2. \A m \in S : (\A x \in S : m >= x) => Max(S) = m
      BY <2>1, MaxIs
    <2> QED
      BY <1>4, <2>1, <2>2
  <1> QED
    BY <1>2, <1>4, <1>5
-----------------------------------------------------------------------------
(* A name is a sequence of words with at least one. *)
LEMMA NameIsSeq ==
    ASSUME NEW a \in AllNames
    PROVE  /\ a \in Seq(Words) /\ Len(a) \in Nat /\ Len(a) >= 1
           /\ a = [i \in 1..Len(a) |-> a[i]]
  <1>1. PICK n \in 1..MaxWords : a \in [1..n -> Words]
    BY DEF AllNames
  <1>2. a \in Seq(Words) /\ Len(a) = n
    BY <1>1
  <1> QED
    BY <1>1, <1>2

(* The parts of a sequence of words are those words. *)
LEMMA PartsIs ==
    ASSUME NEW a \in Seq(Words)
    PROVE  /\ Parts(a) \in Seq(Seq(Word)) /\ Len(Parts(a)) = Len(a)
           /\ \A i \in 1..Len(a) : Parts(a)[i] = <<a[i]>>
  <1>1. \A i \in 1..Len(a) : <<a[i]>> \in Seq(Word)
    BY DEF Word
  <1>2. DOMAIN a = 1..Len(a) /\ Len(a) \in Nat
    OBVIOUS
  <1> HIDE DEF Word
  <1>3. Parts(a) = [i \in 1..Len(a) |-> <<a[i]>>]
    BY <1>2 DEF Parts
  <1>4. Parts(a) \in [1..Len(a) -> Seq(Word)]
    BY <1>1, <1>3
  <1> QED
    BY <1>2, <1>3, <1>4

(* The concatenation of two sequences: what it is, how long it is, and      *)
(* where it has the elements of the one and of the other.                   *)
LEMMA ConcatType ==
    ASSUME NEW Q, NEW a \in Seq(Q), NEW b \in Seq(Q)
    PROVE  a \o b \in Seq(Q)
  OBVIOUS

(* Its length. *)
LEMMA ConcatLen ==
    ASSUME NEW Q, NEW a \in Seq(Q), NEW b \in Seq(Q)
    PROVE  Len(a \o b) = Len(a) + Len(b)
  OBVIOUS

(* The elements of the first. *)
LEMMA ConcatLeft ==
    ASSUME NEW Q, NEW a \in Seq(Q), NEW b \in Seq(Q), NEW i \in 1..Len(a)
    PROVE  (a \o b)[i] = a[i]
  OBVIOUS

(* The elements of the second. *)
LEMMA ConcatRight ==
    ASSUME NEW Q, NEW a \in Seq(Q), NEW b \in Seq(Q), NEW i \in 1..Len(b)
    PROVE  (a \o b)[Len(a) + i] = b[i]
  OBVIOUS

(* A sequence without its last element. *)
LEMMA FrontIs ==
    ASSUME NEW Q, NEW a \in Seq(Q), NEW l \in Nat, Len(a) = l + 1
    PROVE  /\ Front(a) \in Seq(Q) /\ Len(Front(a)) = l
           /\ \A i \in 1..l : Front(a)[i] = a[i]
  <1>1. \A i \in 1..l : a[i] \in Q
    OBVIOUS
  <1>2. Front(a) = SubSeq(a, 1, l)
    BY DEF Front
  <1>3. /\ Front(a) \in Seq(Q)
        /\ Len(Front(a)) = IF 1 <= l THEN l - 1 + 1 ELSE 0
        /\ \A i \in 1..(l - 1 + 1) : Front(a)[i] = a[1 + i - 1]
    BY <1>1, <1>2, SubSeqProperties
  <1>4. l - 1 + 1 = l /\ \A i \in 1..l : 1 + i - 1 = i
    OBVIOUS
  <1> QED
    BY <1>3, <1>4

(* The parts of the name of an archive, by their places, for a pod of lp + 1 *)
(* words, a namespace of ln + 1 and a container of lc.                      *)
Layout(path, p, n, c, y, lp, ln, lc) ==
    /\ path \in Seq(Seq(Word))
    /\ Len(path) = lp + ln + lc + 3
    /\ path[1] = <<"checkpoint">>
    /\ \A i \in 1..lp : path[1 + i] = <<p[i]>>
    /\ path[lp + 2] = <<p[lp + 1], n[1]>>
    /\ \A i \in 1..ln : path[lp + 2 + i] = <<n[i + 1]>>
    /\ \A i \in 1..lc : path[lp + ln + 2 + i] = <<c[i]>>
    /\ path[lp + ln + lc + 3] = <<y>>

(* The name of an archive is laid out so. *)
LEMMA ArchiveNameIs ==
    ASSUME NEW p \in AllNames, NEW n \in AllNames, NEW c \in AllNames,
           NEW y \in Words,
           NEW lp \in Nat, NEW ln \in Nat, NEW lc \in Nat,
           Len(p) = lp + 1, Len(n) = ln + 1, Len(c) = lc
    PROVE  Layout(ArchiveName(p, n, c, y), p, n, c, y, lp, ln, lc)
  <1> DEFINE Q  == Seq(Word)
             s1 == <<<<"checkpoint">>>>
             s2 == Parts(Front(p))
             s3 == <<<<Last(p), n[1]>>>>
             s4 == Parts(Tail(n))
             s5 == Parts(c)
             s6 == <<<<y>>>>
             t2 == s1 \o s2
             t3 == t2 \o s3
             t4 == t3 \o s4
             t5 == t4 \o s5
             t6 == t5 \o s6
  <1>0. p \in Seq(Words) /\ n \in Seq(Words) /\ c \in Seq(Words)
    BY NameIsSeq
  <1>1. s1 \in Seq(Q) /\ Len(s1) = 1 /\ s1[1] = <<"checkpoint">>
    BY DEF Word
  <1>2. s2 \in Seq(Q) /\ Len(s2) = lp /\ \A i \in 1..lp : s2[i] = <<p[i]>>
    <2>1. /\ Front(p) \in Seq(Words) /\ Len(Front(p)) = lp
          /\ \A i \in 1..lp : Front(p)[i] = p[i]
      BY <1>0, FrontIs
    <2> QED
      BY <2>1, PartsIs
  <1>3. s3 \in Seq(Q) /\ Len(s3) = 1 /\ s3[1] = <<p[lp + 1], n[1]>>
    <2>1. p[lp + 1] \in Word /\ n[1] \in Word
      BY <1>0 DEF Word
    <2> QED
      BY <2>1 DEF Last
  <1>4. s4 \in Seq(Q) /\ Len(s4) = ln /\ \A i \in 1..ln : s4[i] = <<n[i + 1]>>
    <2>1. /\ Tail(n) \in Seq(Words) /\ Len(Tail(n)) = ln
          /\ \A i \in 1..ln : Tail(n)[i] = n[i + 1]
      BY <1>0
    <2> QED
      BY <2>1, PartsIs
  <1>5. s5 \in Seq(Q) /\ Len(s5) = lc /\ \A i \in 1..lc : s5[i] = <<c[i]>>
    BY <1>0, PartsIs
  <1>6. s6 \in Seq(Q) /\ Len(s6) = 1 /\ s6[1] = <<y>>
    BY DEF Word
  <1>7. ArchiveName(p, n, c, y) = t6
    BY DEF ArchiveName
  <1> HIDE DEF Q, s1, s2, s3, s4, s5, s6
  <1>8. t2 \in Seq(Q) /\ Len(t2) = lp + 1
    <2>1. s1 \in Seq(Q) /\ s2 \in Seq(Q)
      BY <1>1, <1>2
    <2>2. t2 \in Seq(Q)
      BY <2>1, ConcatType
    <2>3. Len(t2) = Len(s1) + Len(s2)
      BY <2>1, ConcatLen
    <2> QED
      BY <1>1, <1>2, <2>2, <2>3
  <1>9. t3 \in Seq(Q) /\ Len(t3) = lp + 2
    <2>1. t2 \in Seq(Q) /\ s3 \in Seq(Q)
      BY <1>8, <1>3
    <2>2. t3 \in Seq(Q)
      BY <2>1, ConcatType
    <2>3. Len(t3) = Len(t2) + Len(s3)
      BY <2>1, ConcatLen
    <2> QED
      BY <1>8, <1>3, <2>2, <2>3
  <1>10. t4 \in Seq(Q) /\ Len(t4) = lp + ln + 2
    <2>1. t3 \in Seq(Q) /\ s4 \in Seq(Q)
      BY <1>9, <1>4
    <2>2. t4 \in Seq(Q)
      BY <2>1, ConcatType
    <2>3. Len(t4) = Len(t3) + Len(s4)
      BY <2>1, ConcatLen
    <2> QED
      BY <1>9, <1>4, <2>2, <2>3
  <1>11. t5 \in Seq(Q) /\ Len(t5) = lp + ln + lc + 2
    <2>1. t4 \in Seq(Q) /\ s5 \in Seq(Q)
      BY <1>10, <1>5
    <2>2. t5 \in Seq(Q)
      BY <2>1, ConcatType
    <2>3. Len(t5) = Len(t4) + Len(s5)
      BY <2>1, ConcatLen
    <2> QED
      BY <1>10, <1>5, <2>2, <2>3
  <1>12. t6 \in Seq(Q) /\ Len(t6) = lp + ln + lc + 3
    <2>1. t5 \in Seq(Q) /\ s6 \in Seq(Q)
      BY <1>11, <1>6
    <2>2. t6 \in Seq(Q)
      BY <2>1, ConcatType
    <2>3. Len(t6) = Len(t5) + Len(s6)
      BY <2>1, ConcatLen
    <2> QED
      BY <1>11, <1>6, <2>2, <2>3
  <1>13. ASSUME NEW i \in {1} PROVE t2[i] = s1[i]
    <2>1. s1 \in Seq(Q) /\ s2 \in Seq(Q) /\ i \in 1..Len(s1)
      BY <1>1, <1>2
    <2> QED
      BY <2>1, ConcatLeft
  <1>14. ASSUME NEW i \in 1..(lp + 1) PROVE t3[i] = t2[i]
    <2> HIDE DEF t2
    <2>1. t2 \in Seq(Q) /\ s3 \in Seq(Q) /\ i \in 1..Len(t2)
      BY <1>8, <1>3
    <2> QED
      BY <2>1, ConcatLeft
  <1>15. ASSUME NEW i \in 1..(lp + 2) PROVE t4[i] = t3[i]
    <2> HIDE DEF t3
    <2>1. t3 \in Seq(Q) /\ s4 \in Seq(Q) /\ i \in 1..Len(t3)
      BY <1>9, <1>4
    <2> QED
      BY <2>1, ConcatLeft
  <1>16. ASSUME NEW i \in 1..(lp + ln + 2) PROVE t5[i] = t4[i]
    <2> HIDE DEF t4
    <2>1. t4 \in Seq(Q) /\ s5 \in Seq(Q) /\ i \in 1..Len(t4)
      BY <1>10, <1>5
    <2> QED
      BY <2>1, ConcatLeft
  <1>17. ASSUME NEW i \in 1..(lp + ln + lc + 2) PROVE t6[i] = t5[i]
    <2> HIDE DEF t5
    <2>1. t5 \in Seq(Q) /\ s6 \in Seq(Q) /\ i \in 1..Len(t5)
      BY <1>11, <1>6
    <2> QED
      BY <2>1, ConcatLeft
  <1>18. \A i \in 1..lp : t2[1 + i] = s2[i]
    <2>1. /\ s1 \in Seq(Q) /\ s2 \in Seq(Q) /\ Len(s1) = 1
          /\ \A i \in 1..lp : i \in 1..Len(s2)
      BY <1>1, <1>2
    <2>2. ASSUME NEW i \in 1..lp PROVE t2[Len(s1) + i] = s2[i]
      <3>1. i \in 1..Len(s2)
        BY <2>1
      <3> QED
        BY <2>1, <3>1, ConcatRight
    <2> QED
      BY <2>1, <2>2
  <1>19. \A i \in {1} : t3[lp + 1 + i] = s3[i]
    <2> HIDE DEF t2
    <2>1. /\ t2 \in Seq(Q) /\ s3 \in Seq(Q) /\ Len(t2) = lp + 1
          /\ \A i \in {1} : i \in 1..Len(s3)
      BY <1>8, <1>3
    <2>2. ASSUME NEW i \in {1} PROVE t3[Len(t2) + i] = s3[i]
      <3>1. i \in 1..Len(s3)
        BY <2>1
      <3> QED
        BY <2>1, <3>1, ConcatRight
    <2> QED
      BY <2>1, <2>2
  <1>20. \A i \in 1..ln : t4[lp + 2 + i] = s4[i]
    <2> HIDE DEF t3
    <2>1. /\ t3 \in Seq(Q) /\ s4 \in Seq(Q) /\ Len(t3) = lp + 2
          /\ \A i \in 1..ln : i \in 1..Len(s4)
      BY <1>9, <1>4
    <2>2. ASSUME NEW i \in 1..ln PROVE t4[Len(t3) + i] = s4[i]
      <3>1. i \in 1..Len(s4)
        BY <2>1
      <3> QED
        BY <2>1, <3>1, ConcatRight
    <2> QED
      BY <2>1, <2>2
  <1>21. \A i \in 1..lc : t5[lp + ln + 2 + i] = s5[i]
    <2> HIDE DEF t4
    <2>1. /\ t4 \in Seq(Q) /\ s5 \in Seq(Q) /\ Len(t4) = lp + ln + 2
          /\ \A i \in 1..lc : i \in 1..Len(s5)
      BY <1>10, <1>5
    <2>2. ASSUME NEW i \in 1..lc PROVE t5[Len(t4) + i] = s5[i]
      <3>1. i \in 1..Len(s5)
        BY <2>1
      <3> QED
        BY <2>1, <3>1, ConcatRight
    <2> QED
      BY <2>1, <2>2
  <1>22. \A i \in {1} : t6[lp + ln + lc + 2 + i] = s6[i]
    <2> HIDE DEF t5
    <2>1. /\ t5 \in Seq(Q) /\ s6 \in Seq(Q) /\ Len(t5) = lp + ln + lc + 2
          /\ \A i \in {1} : i \in 1..Len(s6)
      BY <1>11, <1>6
    <2>2. ASSUME NEW i \in {1} PROVE t6[Len(t5) + i] = s6[i]
      <3>1. i \in 1..Len(s6)
        BY <2>1
      <3> QED
        BY <2>1, <3>1, ConcatRight
    <2> QED
      BY <2>1, <2>2
  <1> HIDE DEF t2, t3, t4, t5, t6
  <1>23. /\ \A i \in 1..(lp + ln + 2) : t6[i] = t4[i]
         /\ \A i \in 1..(lp + 2) : t6[i] = t3[i]
         /\ \A i \in 1..(lp + 1) : t6[i] = t2[i]
    BY <1>14, <1>15, <1>16, <1>17
  <1>24. t6[1] = <<"checkpoint">>
    BY <1>1, <1>13, <1>23
  <1>25. ASSUME NEW i \in 1..lp PROVE t6[1 + i] = <<p[i]>>
    <2>1. 1 + i \in 1..(lp + 1)
      OBVIOUS
    <2>2. t6[1 + i] = t2[1 + i] /\ t2[1 + i] = s2[i]
      BY <1>18, <1>23, <2>1
    <2> QED
      BY <1>2, <2>2
  <1>26. t6[lp + 2] = <<p[lp + 1], n[1]>>
    BY <1>3, <1>19, <1>23
  <1>27. ASSUME NEW i \in 1..ln PROVE t6[lp + 2 + i] = <<n[i + 1]>>
    <2>1. lp + 2 + i \in 1..(lp + ln + 2)
      OBVIOUS
    <2>2. t6[lp + 2 + i] = t4[lp + 2 + i] /\ t4[lp + 2 + i] = s4[i]
      BY <1>20, <1>23, <2>1
    <2> QED
      BY <1>4, <2>2
  <1>28. ASSUME NEW i \in 1..lc PROVE t6[lp + ln + 2 + i] = <<c[i]>>
    <2>1. lp + ln + 2 + i \in 1..(lp + ln + lc + 2)
      OBVIOUS
    <2>2. t6[lp + ln + 2 + i] = t5[lp + ln + 2 + i] /\ t5[lp + ln + 2 + i] = s5[i]
      BY <1>17, <1>21, <2>1
    <2> QED
      BY <1>5, <2>2
  <1>29. t6[lp + ln + lc + 3] = <<y>>
    BY <1>6, <1>22
  <1> QED
    BY <1>7, <1>12, <1>24, <1>25, <1>26, <1>27, <1>28, <1>29
       DEF Layout, Q
-----------------------------------------------------------------------------
(* Every part of an archive's name but the one that ends the pod and begins *)
(* the namespace is one word: only that one has a "_" in it.                *)
LEMMA PartLengths ==
    ASSUME NEW path, NEW p, NEW n, NEW c, NEW y,
           NEW lp \in Nat, NEW ln \in Nat, NEW lc \in Nat,
           Layout(path, p, n, c, y, lp, ln, lc), NEW i \in 1..Len(path)
    PROVE  Len(path[i]) = IF i = lp + 2 THEN 2 ELSE 1
  <1>1. /\ Len(path) = lp + ln + lc + 3
        /\ path[1] = <<"checkpoint">>
        /\ \A k \in 1..lp : path[1 + k] = <<p[k]>>
        /\ path[lp + 2] = <<p[lp + 1], n[1]>>
        /\ \A k \in 1..ln : path[lp + 2 + k] = <<n[k + 1]>>
        /\ \A k \in 1..lc : path[lp + ln + 2 + k] = <<c[k]>>
        /\ path[lp + ln + lc + 3] = <<y>>
    BY DEF Layout
  <1>2. CASE i = 1
    <2>1. path[i] = <<"checkpoint">> /\ i # lp + 2
      BY <1>1, <1>2
    <2>2. Len(<<"checkpoint">>) = 1
      OBVIOUS
    <2> QED
      BY <2>1, <2>2, Zenon
  <1>3. CASE i > 1 /\ i < lp + 2
    <2>1. PICK k \in 1..lp : i = 1 + k
      <3>1. i - 1 \in 1..lp /\ i = 1 + (i - 1)
        BY <1>1, <1>3
      <3> QED
        BY <3>1
    <2>2. path[1 + k] = <<p[k]>>
      BY <1>1
    <2> QED
      BY <1>3, <2>1, <2>2
  <1>4. CASE i = lp + 2
    BY <1>1, <1>4
  <1>5. CASE i > lp + 2 /\ i <= lp + ln + 2
    <2>1. PICK k \in 1..ln : i = lp + 2 + k
      <3>1. i - (lp + 2) \in 1..ln /\ i = lp + 2 + (i - (lp + 2))
        BY <1>1, <1>5
      <3> QED
        BY <3>1
    <2>2. path[lp + 2 + k] = <<n[k + 1]>>
      BY <1>1
    <2> QED
      BY <1>5, <2>1, <2>2
  <1>6. CASE i > lp + ln + 2 /\ i <= lp + ln + lc + 2
    <2>1. PICK k \in 1..lc : i = lp + ln + 2 + k
      <3>1. i - (lp + ln + 2) \in 1..lc /\ i = lp + ln + 2 + (i - (lp + ln + 2))
        BY <1>1, <1>6
      <3> QED
        BY <3>1
    <2>2. path[lp + ln + 2 + k] = <<c[k]>>
      BY <1>1
    <2> QED
      BY <1>6, <2>1, <2>2
  <1>7. CASE i = lp + ln + lc + 3
    <2>1. path[i] = <<y>> /\ i # lp + 2
      BY <1>1, <1>7
    <2>2. Len(<<y>>) = 1
      OBVIOUS
    <2> QED
      BY <2>1, <2>2, Zenon
  <1>8. \/ i = 1
        \/ i > 1 /\ i < lp + 2
        \/ i = lp + 2
        \/ i > lp + 2 /\ i <= lp + ln + 2
        \/ i > lp + ln + 2 /\ i <= lp + ln + lc + 2
        \/ i = lp + ln + lc + 3
    BY <1>1
  <1> QED
    BY <1>2, <1>3, <1>4, <1>5, <1>6, <1>7, <1>8, Zenon

(* The only part of an archive's name with a "_" in it is the one that ends *)
(* the pod and begins the namespace, so RetrievePodName stops there.        *)
LEMMA PodNameIs ==
    ASSUME NEW p \in AllNames, NEW n \in AllNames, NEW c \in AllNames,
           NEW y \in Words
    PROVE  RetrievePodName(ArchiveName(p, n, c, y)) = p
  <1> DEFINE path == ArchiveName(p, n, c, y)
             joined == {i \in 2..Len(path) : Len(path[i]) > 1}
  <1>0. PICK lp \in Nat, ln \in Nat, lc \in Nat :
            Len(p) = lp + 1 /\ Len(n) = ln + 1 /\ Len(c) = lc
    <2>1. /\ Len(p) - 1 \in Nat /\ Len(p) = (Len(p) - 1) + 1
          /\ Len(n) - 1 \in Nat /\ Len(n) = (Len(n) - 1) + 1 /\ Len(c) \in Nat
      BY NameIsSeq
    <2> QED
      BY <2>1
  <1>1. /\ Layout(path, p, n, c, y, lp, ln, lc)
        /\ Len(path) = lp + ln + lc + 3
        /\ \A i \in 1..lp : path[1 + i] = <<p[i]>>
        /\ path[lp + 2] = <<p[lp + 1], n[1]>>
    <2>1. Layout(path, p, n, c, y, lp, ln, lc)
      BY <1>0, ArchiveNameIs
    <2> HIDE DEF path
    <2> QED
      BY <2>1 DEF Layout
  <1> HIDE DEF path
  <1>2. Len(path[lp + 2]) = 2
    BY <1>1
  <1>3. ASSUME NEW i \in 2..Len(path), i # lp + 2 PROVE Len(path[i]) = 1
    <2>1. i \in 1..Len(path) /\ Layout(path, p, n, c, y, lp, ln, lc)
      BY <1>1
    <2>2. Len(path[i]) = IF i = lp + 2 THEN 2 ELSE 1
      BY <2>1, PartLengths
    <2> QED
      BY <1>3, <2>2
  <1>4. joined = {lp + 2}
    <2>1. lp + 2 \in 2..Len(path)
      BY <1>1
    <2>2. PICK m \in Nat : m = lp + 2
      OBVIOUS
    <2>3. m \in joined
      <3>1. m \in 2..Len(path) /\ Len(path[m]) = 2
        BY <1>2, <2>1, <2>2, Zenon
      <3>2. Len(path[m]) > 1
        BY <3>1
      <3> QED
        BY <3>1, <3>2, Zenon
    <2>4. ASSUME NEW i \in joined PROVE i = m
      <3>1. i \in 2..Len(path) /\ Len(path[i]) > 1
        BY Zenon
      <3>2. ASSUME i # lp + 2 PROVE FALSE
        <4>1. Len(path[i]) = 1
          BY <1>3, <3>1, <3>2
        <4> QED
          BY <3>1, <4>1
      <3> QED
        BY <2>2, <3>2
    <2> HIDE DEF joined
    <2> QED
      BY <2>2, <2>3, <2>4
  <1>5. Min(joined) = lp + 2
    <2>1. PICK m \in Int : m = lp + 2
      OBVIOUS
    <2>2. Min({m}) = m
      BY MinIs
    <2> QED
      BY <1>4, <2>1, <2>2
  <1>6. RetrievePodName(path) = [i \in 1..(lp + 1) |-> path[i + 1][1]]
    <2>1. joined # {} /\ Min(joined) - 1 = lp + 1
      BY <1>4, <1>5
    <2> QED
      BY <2>1 DEF RetrievePodName
  <1>7. ASSUME NEW i \in 1..(lp + 1) PROVE path[i + 1][1] = p[i]
    <2>1. CASE i <= lp
      BY <1>1, <2>1
    <2>2. CASE i = lp + 1
      BY <1>1, <2>2
    <2> QED
      BY <2>1, <2>2
  <1>8. p = [i \in 1..(lp + 1) |-> p[i]]
    BY <1>0, NameIsSeq
  <1> QED
    BY <1>6, <1>7, <1>8 DEF path

(* RetrievePodName gets the pod's name back from the name of each of its    *)
(* archives, for names of any words and any length; so it does in the form  *)
(* the run checks, in the initial state of Restore.                         *)
THEOREM PodNames == PodNamesKept /\ (Spec => []PodNameRecovered)
  <1>1. PodNamesKept
    BY PodNameIs DEF PodNamesKept
  <1>2. PodNameRecovered
    BY <1>1 DEF PodNameRecovered
  <1>3. Spec => []PodNameRecovered
    BY <1>2, PTL
  <1> QED
    BY <1>1, <1>3
-----------------------------------------------------------------------------
(* When the last part that is the year is the m-th, and not one of the      *)
(* first two, RetrieveContainerName returns the two parts before it.        *)
LEMMA RetrieveAt ==
    ASSUME NEW path \in Seq(Seq(Word)), NEW m \in 3..Len(path), path[m] = <<Year>>,
           \A i \in 1..Len(path) : path[i] = <<Year>> => i <= m
    PROVE  RetrieveContainerName(path) = path[m - 2] \o path[m - 1]
  <1> DEFINE years == {i \in DOMAIN path : path[i] = <<Year>>}
  <1>1. DOMAIN path = 1..Len(path) /\ Len(path) \in Nat /\ m \in Int
    OBVIOUS
  <1>2. m \in years /\ years \in SUBSET Int /\ \A i \in years : m >= i
    <2>1. m \in years
      BY <1>1
    <2>2. ASSUME NEW i \in years PROVE i \in Int /\ m >= i
      <3>1. i \in 1..Len(path) /\ path[i] = <<Year>>
        BY <1>1, Zenon
      <3>2. i <= m
        BY <3>1, Zenon
      <3> QED
        BY <1>1, <3>1, <3>2
    <2> HIDE DEF years
    <2> QED
      BY <2>1, <2>2
  <1>3. Max(years) = m
    <2> HIDE DEF years
    <2> QED
      BY <1>2, MaxIs
  <1>4. years # {} /\ Max(years) # 1 /\ Max(years) # 2
    <2>1. m # 1 /\ m # 2
      OBVIOUS
    <2> QED
      BY <1>2, <1>3, <2>1, Zenon
  <1>5. RetrieveContainerName(path) = path[Max(years) - 2] \o path[Max(years) - 1]
    BY <1>4, Zenon DEF RetrieveContainerName
  <1> QED
    BY <1>3, <1>5

(* The container's name is read from the two parts before the last one, and *)
(* these are the last words of the container, if it has two.                *)
Ending(path, c, k, lc) ==
    /\ path \in Seq(Seq(Word)) /\ Len(path) = k + lc + 4
    /\ lc >= 1 => path[k + lc + 2] = <<c[lc]>>
    /\ path[k + lc + 3] = <<c[lc + 1]>>
    /\ RetrieveContainerName(path) = path[k + lc + 2] \o path[k + lc + 3]

(* So it is for an archive of the year in the code, which ends in the year. *)
LEMMA ContainerNameIs ==
    ASSUME NEW p \in AllNames, NEW n \in AllNames, NEW c \in AllNames,
           NEW lp \in Nat, NEW ln \in Nat, NEW lc \in Nat,
           Len(p) = lp + 1, Len(n) = ln + 1, Len(c) = lc + 1
    PROVE  Ending(ArchiveName(p, n, c, Year), c, lp + ln, lc)
  <1> DEFINE path == ArchiveName(p, n, c, Year)
  <1>1. PICK kc \in Nat : kc = lc + 1
    OBVIOUS
  <1>2. Layout(path, p, n, c, Year, lp, ln, kc)
    <2>1. Len(c) = kc /\ Year \in Words
      BY <1>1
    <2> QED
      BY <2>1, ArchiveNameIs
  <1> HIDE DEF path
  <1>3. /\ path \in Seq(Seq(Word)) /\ Len(path) = lp + ln + kc + 3
        /\ \A i \in 1..kc : path[lp + ln + 2 + i] = <<c[i]>>
        /\ path[lp + ln + kc + 3] = <<Year>>
    BY <1>2 DEF Layout
  <1>4. PICK m \in Nat : m = lp + ln + kc + 3
    OBVIOUS
  <1>5. RetrieveContainerName(path) = path[m - 2] \o path[m - 1]
    <2>1. m \in 3..Len(path) /\ path[m] = <<Year>>
      BY <1>3, <1>4, <1>1
    <2>2. \A i \in 1..Len(path) : i <= m
      BY <1>3, <1>4
    <2> QED
      BY <1>3, <2>1, <2>2, RetrieveAt
  <1>6. /\ m - 2 = lp + ln + lc + 2 /\ m - 1 = lp + ln + lc + 3
        /\ lp + ln + 2 + lc = lp + ln + lc + 2
        /\ lp + ln + 2 + kc = lp + ln + lc + 3
        /\ lp + ln + kc + 3 = lp + ln + lc + 4
    BY <1>1, <1>4
  <1>7. path[lp + ln + 2 + kc] = <<c[lc + 1]>>
    <2>1. kc \in 1..kc
      BY <1>1
    <2> QED
      BY <1>1, <1>3, <2>1, Zenon
  <1>8. ASSUME lc >= 1 PROVE path[lp + ln + 2 + lc] = <<c[lc]>>
    <2>1. lc \in 1..kc
      BY <1>1, <1>8
    <2> QED
      BY <1>3, <2>1
  <1>9. Ending(path, c, lp + ln, lc)
    BY <1>3, <1>5, <1>6, <1>7, <1>8 DEF Ending
  <1> QED
    BY <1>9 DEF path

(* The last element of a sequence with one more element appended.           *)
LEMMA LastIs ==
    ASSUME NEW Q, NEW a \in Seq(Q), NEW x \in Q
    PROVE  Last(a \o <<x>>) = x
  <1>1. Len(a \o <<x>>) = Len(a) + 1 /\ (a \o <<x>>)[Len(a) + 1] = x
    OBVIOUS
  <1> QED
    BY <1>1, Zenon DEF Last

(* What RetrieveContainerName returns for an archive of the year in the     *)
(* code ends in the last word of the container's name.                      *)
LEMMA ContainerLast ==
    ASSUME NEW p \in AllNames, NEW n \in AllNames, NEW c \in AllNames
    PROVE  Last(RetrieveContainerName(ArchiveName(p, n, c, Year))) = Last(c)
  <1> DEFINE path == ArchiveName(p, n, c, Year)
  <1>1. PICK lp \in Nat, ln \in Nat, lc \in Nat :
            Len(p) = lp + 1 /\ Len(n) = ln + 1 /\ Len(c) = lc + 1
    <2>1. /\ Len(p) - 1 \in Nat /\ Len(p) = (Len(p) - 1) + 1
          /\ Len(n) - 1 \in Nat /\ Len(n) = (Len(n) - 1) + 1
          /\ Len(c) - 1 \in Nat /\ Len(c) = (Len(c) - 1) + 1
      BY NameIsSeq
    <2> QED
      BY <2>1
  <1>2. Ending(path, c, lp + ln, lc)
    BY <1>1, ContainerNameIs
  <1> HIDE DEF path
  <1>3. PICK a \in Seq(Word) : a = path[lp + ln + lc + 2]
    <2>1. /\ path \in Seq(Seq(Word)) /\ Len(path) = lp + ln + lc + 4
          /\ lp + ln + lc + 2 \in 1..(lp + ln + lc + 4)
      BY <1>2 DEF Ending
    <2>2. path[lp + ln + lc + 2] \in Seq(Word)
      BY <2>1
    <2> QED
      BY <2>2
  <1>4. PICK x \in Word : x = c[lc + 1]
    BY <1>1, NameIsSeq DEF Word
  <1>5. RetrieveContainerName(path) = a \o <<x>>
    BY <1>2, <1>3, <1>4 DEF Ending
  <1>6. Last(a \o <<x>>) = x
    BY LastIs
  <1>7. Last(c) = x
    BY <1>1, <1>4 DEF Last
  <1> QED
    BY <1>5, <1>6, <1>7 DEF path

(* The name of a container of two words is recovered from an archive of     *)
(* the year in the code.                                                    *)
LEMMA ContainerTwoWords ==
    ASSUME NEW p \in AllNames, NEW n \in AllNames, NEW c \in AllNames, Len(c) = 2
    PROVE  RetrieveContainerName(ArchiveName(p, n, c, Year)) = c
  <1> DEFINE path == ArchiveName(p, n, c, Year)
  <1>0. PICK lc \in Nat : lc = 1
    OBVIOUS
  <1>1. PICK lp \in Nat, ln \in Nat : Len(p) = lp + 1 /\ Len(n) = ln + 1
    <2>1. /\ Len(p) - 1 \in Nat /\ Len(p) = (Len(p) - 1) + 1
          /\ Len(n) - 1 \in Nat /\ Len(n) = (Len(n) - 1) + 1
      BY NameIsSeq
    <2> QED
      BY <2>1
  <1>2. Ending(path, c, lp + ln, lc)
    <2>1. Len(c) = lc + 1
      BY <1>0
    <2> QED
      BY <1>1, <2>1, ContainerNameIs
  <1> HIDE DEF path
  <1>3. RetrieveContainerName(path) = <<c[1]>> \o <<c[2]>>
    <2>1. /\ path[lp + ln + lc + 2] = <<c[lc]>>
          /\ path[lp + ln + lc + 3] = <<c[lc + 1]>>
      BY <1>0, <1>2 DEF Ending
    <2>2. RetrieveContainerName(path)
              = path[lp + ln + lc + 2] \o path[lp + ln + lc + 3]
      BY <1>2 DEF Ending
    <2>3. lc + 1 = 2
      BY <1>0
    <2> QED
      BY <1>0, <2>1, <2>2, <2>3, Zenon
  <1>4. c \in Seq(Words) /\ c = <<c[1], c[2]>>
    BY NameIsSeq
  <1> QED
    BY <1>3, <1>4 DEF path

(* RetrieveContainerName indexes out of range only if the last part that is *)
(* the year is the second one.                                              *)
LEMMA PanicsAt ==
    ASSUME NEW path \in Seq(Seq(Word)), \A i \in 1..Len(path) : Len(path[i]) >= 1,
           RetrieveContainerName(path) = Panics
    PROVE  /\ 2 \in 1..Len(path) /\ path[2] = <<Year>>
           /\ \A i \in 1..Len(path) : path[i] = <<Year>> => i <= 2
  <1> DEFINE years == {i \in DOMAIN path : path[i] = <<Year>>}
  <1>1. DOMAIN path = 1..Len(path) /\ Len(path) \in Nat
    OBVIOUS
  <1>2. Panics # <<>> /\ Len(Panics) = 1
    BY DEF Panics
  <1>3. years # {} /\ Max(years) # 1
    <2>1. ASSUME years = {} \/ Max(years) = 1 PROVE FALSE
      <3>1. RetrieveContainerName(path) = <<>>
        BY <2>1, Zenon DEF RetrieveContainerName
      <3> QED
        BY <1>2, <3>1
    <2> QED
      BY <2>1
  <1>4. PICK l \in Nat : l = Len(path)
    BY <1>1
  <1>5. years \in SUBSET (1..l)
    BY <1>1, <1>4
  <1>6. Max(years) \in years /\ \A i \in years : i <= Max(years)
    <2> HIDE DEF years
    <2> QED
      BY <1>3, <1>5, MaxExists
  <1>7. PICK m \in 1..l : m = Max(years)
    BY <1>5, <1>6
  <1>8. /\ path[m] = <<Year>>
        /\ \A i \in 1..Len(path) : path[i] = <<Year>> => i <= m
    BY <1>1, <1>6, <1>7, Zenon
  <1>9. ASSUME m >= 3 PROVE FALSE
    <2>1. m \in 3..Len(path)
      BY <1>4, <1>9
    <2>2. RetrieveContainerName(path) = path[m - 2] \o path[m - 1]
      BY <1>8, <2>1, RetrieveAt
    <2>3. PICK a \in Seq(Word), b \in Seq(Word) :
              a = path[m - 2] /\ b = path[m - 1] /\ Len(a) >= 1 /\ Len(b) >= 1
      <3>1. m - 2 \in 1..Len(path) /\ m - 1 \in 1..Len(path)
        BY <2>1
      <3>2. path[m - 2] \in Seq(Word) /\ path[m - 1] \in Seq(Word)
        BY <3>1
      <3> QED
        BY <3>1, <3>2
    <2>4. Len(a \o b) = Len(a) + Len(b)
      BY <2>3, ConcatLen
    <2>5. Len(a) \in Nat /\ Len(b) \in Nat
      OBVIOUS
    <2>6. Panics = a \o b
      BY <2>2, <2>3
    <2>7. 1 = Len(a) + Len(b)
      BY <1>2, <2>4, <2>6
    <2>8. Len(a) >= 1 /\ Len(b) >= 1
      BY <2>3, Zenon
    <2> QED
      BY <2>5, <2>7, <2>8
  <1>10. m = 2
    BY <1>3, <1>7, <1>9
  <1> QED
    BY <1>4, <1>8, <1>10

(* So it does only for an archive of another year whose pod's name begins   *)
(* with the year and has more words.                                        *)
LEMMA PanicsOnlyForOtherYears ==
    ASSUME NEW p \in AllNames, NEW n \in AllNames, NEW c \in AllNames,
           NEW y \in Words,
           RetrieveContainerName(ArchiveName(p, n, c, y)) = Panics
    PROVE  y # Year /\ Len(p) > 1 /\ p[1] = Year
  <1> DEFINE path == ArchiveName(p, n, c, y)
  <1>0. PICK lp \in Nat, ln \in Nat, lc \in Nat :
            Len(p) = lp + 1 /\ Len(n) = ln + 1 /\ Len(c) = lc
    <2>1. /\ Len(p) - 1 \in Nat /\ Len(p) = (Len(p) - 1) + 1
          /\ Len(n) - 1 \in Nat /\ Len(n) = (Len(n) - 1) + 1 /\ Len(c) \in Nat
      BY NameIsSeq
    <2> QED
      BY <2>1
  <1>1. Layout(path, p, n, c, y, lp, ln, lc)
    BY <1>0, ArchiveNameIs
  <1>2. ASSUME NEW i \in 1..Len(path) PROVE Len(path[i]) >= 1
    <2> HIDE DEF path
    <2>1. Len(path[i]) = IF i = lp + 2 THEN 2 ELSE 1
      BY <1>1, PartLengths
    <2> QED
      BY <2>1
  <1> HIDE DEF path
  <1>3. path \in Seq(Seq(Word)) /\ RetrieveContainerName(path) = Panics
    BY <1>1 DEF Layout, path
  <1>4. /\ 2 \in 1..Len(path) /\ path[2] = <<Year>>
        /\ \A i \in 1..Len(path) : path[i] = <<Year>> => i <= 2
    BY <1>2, <1>3, PanicsAt
  <1>5. y # Year
    <2>1. /\ path[lp + ln + lc + 3] = <<y>>
          /\ lp + ln + lc + 3 \in 1..Len(path) /\ ~(lp + ln + lc + 3 <= 2)
      BY <1>1 DEF Layout
    <2> QED
      BY <1>4, <2>1
  <1>6. lp # 0
    <2>1. path[lp + 2] = <<p[lp + 1], n[1]>>
      BY <1>1 DEF Layout
    <2>2. ASSUME lp = 0 PROVE FALSE
      <3>1. Len(path[2]) = 2 /\ Len(<<Year>>) = 1
        BY <2>1, <2>2
      <3> QED
        BY <1>4, <3>1
    <2> QED
      BY <2>2
  <1>7. path[1 + 1] = <<p[1]>>
    BY <1>1, <1>6 DEF Layout
  <1>8. <<p[1]>> = <<Year>>
    BY <1>4, <1>7
  <1>9. p[1] = Year
    BY <1>8
  <1> QED
    BY <1>0, <1>5, <1>6, <1>9

(* RetrieveContainerName recovers names of two words and tells containers   *)
(* apart by their last word, and it indexes out of range only for another   *)
(* year, for names of any words and any length; so it does in the form the  *)
(* run checks, in the initial state of Restore.                             *)
THEOREM ContainerNames == ContainerNamesKept /\ (Spec => []ContainerNameRecovered)
  <1>1. ASSUME NEW p \in AllNames, NEW n \in AllNames, NEW c \in AllNames,
               NEW o \in AllNames,
               RetrieveContainerName(ArchiveName(p, n, o, Year))
                   = RetrieveContainerName(ArchiveName(p, n, c, Year))
        PROVE  Last(o) = Last(c)
    <2>1. /\ Last(RetrieveContainerName(ArchiveName(p, n, o, Year))) = Last(o)
          /\ Last(RetrieveContainerName(ArchiveName(p, n, c, Year))) = Last(c)
      BY ContainerLast
    <2> QED
      BY <1>1, <2>1, Zenon
  <1>2. ASSUME NEW p \in AllNames, NEW n \in AllNames, NEW c \in AllNames,
               Len(c) = 2
        PROVE  RetrieveContainerName(ArchiveName(p, n, c, Year)) = c
    BY <1>2, ContainerTwoWords
  <1>3. ASSUME NEW p \in AllNames, NEW n \in AllNames, NEW c \in AllNames,
               NEW y \in Words,
               RetrieveContainerName(ArchiveName(p, n, c, y)) = Panics
        PROVE  y # Year /\ Len(p) > 1 /\ p[1] = Year
    BY <1>3, PanicsOnlyForOtherYears
  <1>4. ASSUME NEW p \in AllNames, NEW n \in AllNames, NEW c \in AllNames
        PROVE  LET retrieved(d, year) ==
                       RetrieveContainerName(ArchiveName(p, n, d, year))
               IN  /\ Len(c) = 2 => retrieved(c, Year) = c
                   /\ \A other \in AllNames :
                          retrieved(other, Year) = retrieved(c, Year)
                              => Last(other) = Last(c)
                   /\ \A year \in Words : retrieved(c, year) = Panics =>
                          year # Year /\ Len(p) > 1 /\ p[1] = Year
    BY <1>1, <1>2, <1>3
  <1>5. ContainerNamesKept
    BY <1>4, Zenon DEF ContainerNamesKept
  <1>6. ContainerNameRecovered
    BY <1>5 DEF ContainerNameRecovered
  <1>7. Spec => []ContainerNameRecovered
    BY <1>6, PTL
  <1> QED
    BY <1>5, <1>7
=============================================================================
