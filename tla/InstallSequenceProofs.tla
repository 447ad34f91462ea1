----------------------- MODULE InstallSequenceProofs -----------------------
(***************************************************************************)
(* Proofs about what a row of installs comes to, for user texts of any     *)
(* length and any tokens, any settings and any number of installs.         *)
(***************************************************************************)
EXTENDS InstallSequence, SequenceTheorems, FiniteSetTheorems, TLAPS

(***************************************************************************)
(* Counting the markers of a text, and finding one.                        *)
(***************************************************************************)
LEMMA CountIsNat ==
    ASSUME NEW text \in Texts, NEW t
    PROVE  /\ Count(text, t) \in Nat
           /\ Count(text, t) = 0 <=> \A i \in DOMAIN text : text[i] # t
           /\ Count(text, t) = 1 <=>
                  \E i \in DOMAIN text : \A j \in DOMAIN text : text[j] = t <=> j = i
<1> DEFINE S == {i \in DOMAIN text : text[i] = t}
<1>1. DOMAIN text = 1..Len(text) /\ Len(text) \in Nat
  BY DEF Texts
<1>2. IsFiniteSet(S)
  <2>1. IsFiniteSet(1..Len(text))
    BY <1>1, FS_Interval
  <2>2. S \subseteq 1..Len(text)
    BY <1>1
  <2>3. QED
    BY <2>1, <2>2, FS_Subset
<1>3. Cardinality(S) \in Nat
  BY <1>2, FS_CardinalityType
<1>4. Cardinality(S) = 0 <=> S = {}
  BY <1>2, FS_EmptySet
<1>5. Cardinality(S) = 1 <=> \E i : S = {i}
  BY <1>2, FS_Singleton
<1>6. (\E i : S = {i}) <=>
          \E i \in DOMAIN text : \A j \in DOMAIN text : text[j] = t <=> j = i
  <2>1. ASSUME NEW i, S = {i}
        PROVE  \E k \in DOMAIN text : \A j \in DOMAIN text : text[j] = t <=> j = k
    BY <2>1
  <2>2. ASSUME NEW i \in DOMAIN text, \A j \in DOMAIN text : text[j] = t <=> j = i
        PROVE  S = {i}
    BY <2>2
  <2>3. QED
    BY <2>1, <2>2
<1>7. Count(text, t) = Cardinality(S)
  BY DEF Count
<1>8. QED
  BY <1>3, <1>4, <1>5, <1>6, <1>7

LEMMA OnlyPlace ==
    ASSUME NEW text \in Texts, NEW t, NEW i \in DOMAIN text,
           \A j \in DOMAIN text : text[j] = t <=> j = i
    PROVE  Place(text, t) = i /\ Count(text, t) = 1
<1>1. Place(text, t) = i
  BY DEF Place
<1>2. Count(text, t) = 1
  BY CountIsNat
<1>3. QED
  BY <1>1, <1>2

(***************************************************************************)
(* The user's text without any marker, and a block framed by it.           *)
(***************************************************************************)
Plain == {t \in Texts : \A i \in DOMAIN t : t[i] # Begin /\ t[i] # End}

Framed(before, v, behind) == before \o Snippet(v) \o behind

LEMMA SnippetTokens ==
    ASSUME NEW v \in Variants
    PROVE  /\ Snippet(v) \in Texts /\ Len(Snippet(v)) = 6
           /\ Snippet(v)[1] = Begin /\ Snippet(v)[2] = Break /\ Snippet(v)[3] = v
           /\ Snippet(v)[4] = Break /\ Snippet(v)[5] = End /\ Snippet(v)[6] = Break
           /\ \A k \in 1..6 : /\ Snippet(v)[k] = Begin <=> k = 1
                              /\ Snippet(v)[k] = End <=> k = 5
<1>1. v # Begin /\ v # End
  BY VariantsAssumption
<1>2. /\ Snippet(v) \in Texts /\ Len(Snippet(v)) = 6
      /\ Snippet(v)[1] = Begin /\ Snippet(v)[2] = Break /\ Snippet(v)[3] = v
      /\ Snippet(v)[4] = Break /\ Snippet(v)[5] = End /\ Snippet(v)[6] = Break
  BY DEF Snippet, Texts, Tokens
<1>3. Begin # End /\ Begin # Break /\ End # Break
  BY DEF Begin, End, Break
<1>4. \A k \in 1..6 : k = 1 \/ k = 2 \/ k = 3 \/ k = 4 \/ k = 5 \/ k = 6
  OBVIOUS
<1>5. QED
  BY <1>1, <1>2, <1>3, <1>4

LEMMA FramedTokens ==
    ASSUME NEW before \in Texts, NEW v \in Variants, NEW behind \in Texts
    PROVE  LET text == Framed(before, v, behind) IN
           /\ text \in Texts
           /\ Len(before) \in Nat /\ Len(behind) \in Nat
           /\ Len(text) = Len(before) + 6 + Len(behind)
           /\ DOMAIN text = 1..Len(text)
           /\ \A i \in 1..Len(before) : text[i] = before[i]
           /\ \A k \in 1..6 : text[Len(before) + k] = Snippet(v)[k]
           /\ \A j \in 1..Len(behind) : text[Len(before) + 6 + j] = behind[j]
<1> DEFINE front == before \o Snippet(v)
<1>1. Snippet(v) \in Seq(Tokens) /\ Len(Snippet(v)) = 6
  BY SnippetTokens DEF Texts
<1>2. before \in Seq(Tokens) /\ behind \in Seq(Tokens)
      /\ Len(before) \in Nat /\ Len(behind) \in Nat
  BY DEF Texts
<1>3. /\ front \in Seq(Tokens) /\ Len(front) = Len(before) + 6
      /\ \A i \in 1..Len(before) + 6 :
             front[i] = IF i <= Len(before) THEN before[i] ELSE Snippet(v)[i - Len(before)]
  <2>1. /\ front \in Seq(Tokens) /\ Len(front) = Len(before) + Len(Snippet(v))
        /\ \A i \in 1..Len(before) + Len(Snippet(v)) :
               front[i] = IF i <= Len(before) THEN before[i] ELSE Snippet(v)[i - Len(before)]
    BY <1>1, <1>2, ConcatProperties
  <2>2. QED
    BY <1>1, <2>1
<1> HIDE DEF front
<1>4. /\ front \o behind \in Seq(Tokens)
      /\ Len(front \o behind) = Len(front) + Len(behind)
      /\ \A i \in 1..Len(front) + Len(behind) :
             (front \o behind)[i] =
                 IF i <= Len(front) THEN front[i] ELSE behind[i - Len(front)]
  BY <1>2, <1>3, ConcatProperties
<1>5. Framed(before, v, behind) = front \o behind
  BY DEF Framed, front
<1> DEFINE text == Framed(before, v, behind)
<1>6. text \in Texts /\ Len(text) = Len(before) + 6 + Len(behind) /\ DOMAIN text = 1..Len(text)
  BY <1>2, <1>3, <1>4, <1>5 DEF Texts
<1>7. ASSUME NEW i \in 1..Len(before) PROVE text[i] = before[i]
  BY <1>2, <1>3, <1>4, <1>5
<1>8. ASSUME NEW k \in 1..6 PROVE text[Len(before) + k] = Snippet(v)[k]
  <2>1. text[Len(before) + k] = front[Len(before) + k]
    BY <1>2, <1>3, <1>4, <1>5
  <2>2. front[Len(before) + k] = Snippet(v)[(Len(before) + k) - Len(before)]
    <3>1. /\ Len(before) + k \in 1..Len(before) + 6
          /\ ~(Len(before) + k <= Len(before))
      BY <1>2
    <3>2. QED
      BY <1>3, <3>1
  <2>3. (Len(before) + k) - Len(before) = k
    BY <1>2
  <2>4. QED
    BY <2>1, <2>2, <2>3
<1>9. ASSUME NEW j \in 1..Len(behind) PROVE text[Len(before) + 6 + j] = behind[j]
  <2>1. text[Len(before) + 6 + j] = behind[(Len(before) + 6 + j) - Len(front)]
    BY <1>2, <1>3, <1>4, <1>5
  <2>2. (Len(before) + 6 + j) - Len(front) = j
    BY <1>2, <1>3
  <2>3. QED
    BY <2>1, <2>2
<1>10. QED
  BY <1>2, <1>6, <1>7, <1>8, <1>9

(***************************************************************************)
(* A framed block is found again: its markers, its last line, its          *)
(* surroundings.                                                           *)
(***************************************************************************)
LEMMA FramedMarkers ==
    ASSUME NEW before \in Plain, NEW v \in Variants, NEW behind \in Plain
    PROVE  LET text == Framed(before, v, behind) IN
           /\ Count(text, Begin) = 1 /\ Place(text, Begin) = Len(before) + 1
           /\ Count(text, End) = 1 /\ Place(text, End) = Len(before) + 5
           /\ BlockEnd(text) = Len(before) + 6
<1> DEFINE text == Framed(before, v, behind)
<1>1. before \in Texts /\ behind \in Texts
  BY DEF Plain
<1>2. /\ text \in Texts
      /\ Len(before) \in Nat /\ Len(behind) \in Nat
      /\ Len(text) = Len(before) + 6 + Len(behind)
      /\ DOMAIN text = 1..Len(text)
      /\ \A i \in 1..Len(before) : text[i] = before[i]
      /\ \A k \in 1..6 : text[Len(before) + k] = Snippet(v)[k]
      /\ \A j \in 1..Len(behind) : text[Len(before) + 6 + j] = behind[j]
  BY <1>1, FramedTokens
<1> HIDE DEF text
<1>3. \A i \in 1..Len(before) : before[i] # Begin /\ before[i] # End
  BY <1>1 DEF Plain, Texts
<1>4. \A j \in 1..Len(behind) : behind[j] # Begin /\ behind[j] # End
  BY <1>1 DEF Plain, Texts
<1>lengths. /\ Len(before) \in Nat /\ Len(behind) \in Nat
            /\ Len(text) = Len(before) + 6 + Len(behind)
            /\ DOMAIN text = 1..Len(text)
  BY <1>2
<1>5. ASSUME NEW i \in DOMAIN text
      PROVE  /\ text[i] = Begin <=> i = Len(before) + 1
             /\ text[i] = End <=> i = Len(before) + 5
  <2>1. CASE i \in 1..Len(before)
    <3>1. text[i] # Begin /\ text[i] # End
      BY <1>2, <1>3, <2>1
    <3>2. i # Len(before) + 1 /\ i # Len(before) + 5
      BY <1>lengths, <2>1
    <3>3. QED
      BY <3>1, <3>2
  <2>2. CASE i \in Len(before) + 1 .. Len(before) + 6
    <3> DEFINE k == i - Len(before)
    <3>1. k \in 1..6 /\ i = Len(before) + k
      BY <1>lengths, <2>2
    <3>2. text[i] = Snippet(v)[k]
      BY <1>2, <3>1
    <3>3. /\ Snippet(v)[k] = Begin <=> k = 1
          /\ Snippet(v)[k] = End <=> k = 5
      BY <3>1, SnippetTokens
    <3>4. (k = 1 <=> i = Len(before) + 1) /\ (k = 5 <=> i = Len(before) + 5)
      BY <1>lengths, <3>1
    <3>5. QED
      BY <3>2, <3>3, <3>4
  <2>3. CASE i \in Len(before) + 7 .. Len(text)
    <3> DEFINE j == i - (Len(before) + 6)
    <3>0. /\ i \in Nat /\ Len(before) + 7 <= i /\ i <= Len(before) + 6 + Len(behind)
          /\ Len(before) \in Nat /\ Len(behind) \in Nat
      BY <1>lengths, <2>3
    <3>1. j \in 1..Len(behind) /\ i = Len(before) + 6 + j
      BY <3>0
    <3>2. text[i] = behind[j]
      BY <1>2, <3>1
    <3>3. text[i] # Begin /\ text[i] # End
      BY <1>4, <3>1, <3>2
    <3>4. i # Len(before) + 1 /\ i # Len(before) + 5
      BY <3>0
    <3>5. QED
      BY <3>3, <3>4
  <2>4. QED
    BY <1>lengths, <2>1, <2>2, <2>3
<1>6. Place(text, Begin) = Len(before) + 1 /\ Count(text, Begin) = 1
  <2>1. Len(before) + 1 \in DOMAIN text
    BY <1>2
  <2>2. QED
    BY <1>2, <1>5, <2>1, OnlyPlace
<1>7. Place(text, End) = Len(before) + 5 /\ Count(text, End) = 1
  <2>1. Len(before) + 5 \in DOMAIN text
    BY <1>2
  <2>2. QED
    BY <1>2, <1>5, <2>1, OnlyPlace
<1>8. BlockEnd(text) = Len(before) + 6
  <2>1. text[Len(before) + 6] = Break
    BY <1>2, SnippetTokens
  <2>2. Len(before) + 5 < Len(text) /\ (Len(before) + 5) + 1 = Len(before) + 6
    BY <1>2
  <2>3. QED
    BY <1>7, <2>1, <2>2 DEF BlockEnd
<1>9. QED
  BY <1>6, <1>7, <1>8 DEF text

\* A part of a text, token by token.
LEMMA PartIs ==
    ASSUME NEW text \in Texts, NEW part \in Texts, NEW m \in Nat \ {0}, NEW n \in Nat,
           m - 1 + Len(part) = n, n <= Len(text),
           \A j \in 1..Len(part) : part[j] = text[m - 1 + j]
    PROVE  SubSeq(text, m, n) = part
<1>1. text \in Seq(Tokens) /\ part \in Seq(Tokens) /\ Len(part) \in Nat /\ Len(text) \in Nat
  BY DEF Texts
<1>2. \A i \in m..n : text[i] \in Tokens
  BY <1>1
<1>3. /\ SubSeq(text, m, n) \in Seq(Tokens)
      /\ Len(SubSeq(text, m, n)) = IF m <= n THEN n - m + 1 ELSE 0
      /\ \A i \in 1..n - m + 1 : SubSeq(text, m, n)[i] = text[m + i - 1]
  BY <1>2, SubSeqProperties
<1>4. Len(SubSeq(text, m, n)) = Len(part) /\ n - m + 1 = Len(part)
  BY <1>1, <1>3
<1>5. ASSUME NEW j \in 1..Len(SubSeq(text, m, n))
      PROVE  SubSeq(text, m, n)[j] = part[j]
  <2>1. SubSeq(text, m, n)[j] = text[m + j - 1]
    BY <1>3, <1>4
  <2>2. m + j - 1 = m - 1 + j
    BY <1>1, <1>4
  <2>3. QED
    BY <1>4, <2>1, <2>2
<1>6. QED
  BY <1>1, <1>3, <1>4, <1>5, SeqEqual

LEMMA FramedParts ==
    ASSUME NEW before \in Plain, NEW v \in Variants, NEW behind \in Plain
    PROVE  LET text == Framed(before, v, behind) IN
           /\ SubSeq(text, 1, Len(before)) = before
           /\ SubSeq(text, Len(before) + 1, Len(before) + 6) = Snippet(v)
           /\ SubSeq(text, Len(before) + 7, Len(text)) = behind
<1> DEFINE text == Framed(before, v, behind)
<1>1. before \in Texts /\ behind \in Texts
  BY DEF Plain
<1>2. /\ text \in Texts
      /\ Len(before) \in Nat /\ Len(behind) \in Nat
      /\ Len(text) = Len(before) + 6 + Len(behind)
      /\ \A i \in 1..Len(before) : text[i] = before[i]
      /\ \A k \in 1..6 : text[Len(before) + k] = Snippet(v)[k]
      /\ \A j \in 1..Len(behind) : text[Len(before) + 6 + j] = behind[j]
  BY <1>1, FramedTokens
<1> HIDE DEF text
<1>lengths. /\ text \in Texts /\ before \in Texts /\ behind \in Texts
            /\ Snippet(v) \in Texts /\ Len(Snippet(v)) = 6
            /\ Len(before) \in Nat /\ Len(behind) \in Nat
            /\ Len(text) = Len(before) + 6 + Len(behind)
  BY <1>1, <1>2, SnippetTokens
<1>3. SubSeq(text, 1, Len(before)) = before
  <2>1. \A j \in 1..Len(before) : before[j] = text[1 - 1 + j]
    BY <1>2
  <2>2. 1 - 1 + Len(before) = Len(before) /\ Len(before) <= Len(text)
    BY <1>lengths
  <2>3. QED
    BY <1>lengths, <2>1, <2>2, PartIs
<1>4. SubSeq(text, Len(before) + 1, Len(before) + 6) = Snippet(v)
  <2> DEFINE m == Len(before) + 1
             n == Len(before) + 6
  <2>1. m \in Nat \ {0} /\ n \in Nat /\ m - 1 = Len(before)
        /\ m - 1 + Len(Snippet(v)) = n /\ n <= Len(text)
    BY <1>lengths
  <2>2. \A j \in 1..Len(Snippet(v)) : Snippet(v)[j] = text[m - 1 + j]
    BY <1>lengths, <1>2, <2>1
  <2> HIDE DEF m, n
  <2>3. SubSeq(text, m, n) = Snippet(v)
    BY <1>lengths, <2>1, <2>2, PartIs
  <2>4. QED
    BY <2>3 DEF m, n
<1>5. SubSeq(text, Len(before) + 7, Len(text)) = behind
  <2> DEFINE m == Len(before) + 7
             n == Len(text)
  <2>1. m \in Nat \ {0} /\ n \in Nat /\ m - 1 = Len(before) + 6
        /\ m - 1 + Len(behind) = n /\ n <= Len(text)
    BY <1>lengths
  <2>2. \A j \in 1..Len(behind) : behind[j] = text[m - 1 + j]
    BY <1>2, <2>1
  <2> HIDE DEF m, n
  <2>3. SubSeq(text, m, n) = behind
    BY <1>lengths, <2>1, <2>2, PartIs
  <2>4. QED
    BY <2>3 DEF m, n
<1>6. QED
  BY <1>3, <1>4, <1>5 DEF text

(***************************************************************************)
(* What apply_snippet makes of a text: of one with a block in it, of one   *)
(* without any, and of one with a block somebody else may have written.    *)
(***************************************************************************)
LEMMA FramedApplies ==
    ASSUME NEW before \in Plain, NEW v \in Variants, NEW behind \in Plain, NEW w \in Variants
    PROVE  LET text == Framed(before, v, behind) IN
           /\ Snippet(v) = Snippet(w) => Apply(text, w) = Current(text)
           /\ Snippet(v) # Snippet(w) => Apply(text, w) = Updated(Framed(before, w, behind))
           /\ Surroundings(text) = <<before, behind>>
<1> DEFINE text == Framed(before, v, behind)
<1>1. Len(before) \in Nat
  BY DEF Plain, Texts
<1>2. /\ Count(text, Begin) = 1 /\ Place(text, Begin) = Len(before) + 1
      /\ Count(text, End) = 1 /\ Place(text, End) = Len(before) + 5
      /\ BlockEnd(text) = Len(before) + 6
  BY FramedMarkers
<1>3. /\ SubSeq(text, 1, Len(before)) = before
      /\ SubSeq(text, Len(before) + 1, Len(before) + 6) = Snippet(v)
      /\ SubSeq(text, Len(before) + 7, Len(text)) = behind
  BY FramedParts
<1> HIDE DEF text
<1>4. Place(text, Begin) - 1 = Len(before) /\ BlockEnd(text) + 1 = Len(before) + 7
      /\ ~(Place(text, End) < Place(text, Begin))
  BY <1>1, <1>2
<1>5. Apply(text, w) = ReplaceBlock(text, w)
  BY <1>2 DEF Apply
<1>6. ReplaceBlock(text, w) =
          IF Snippet(v) = Snippet(w) THEN Current(text)
          ELSE Updated(before \o Snippet(w) \o behind)
  BY <1>2, <1>3, <1>4 DEF ReplaceBlock
<1>7. Surroundings(text) = <<before, behind>>
  BY <1>2, <1>3, <1>4 DEF Surroundings
<1>8. QED
  BY <1>5, <1>6, <1>7 DEF text, Framed

\* The user's text ended before a block is appended.
Closed(text) == IF text = <<>> \/ text[Len(text)] = Break THEN text ELSE text \o <<Break>>

LEMMA PlainApplies ==
    ASSUME NEW text \in Plain, NEW w \in Variants
    PROVE  /\ Closed(text) \in Plain /\ <<>> \in Plain
           /\ Apply(text, w) = Updated(Framed(Closed(text), w, <<>>))
           /\ Count(text, Begin) = 0
           /\ Surroundings(text) = <<text, <<>>>>
<1>1. text \in Texts /\ text \in Seq(Tokens) /\ Len(text) \in Nat /\ DOMAIN text = 1..Len(text)
  BY DEF Plain, Texts
<1>2. Count(text, Begin) = 0 /\ Count(text, End) = 0
  BY <1>1, CountIsNat DEF Plain
<1>3. Closed(text) \in Plain
  <2>1. CASE Closed(text) = text
    BY <2>1
  <2>2. CASE Closed(text) = text \o <<Break>>
    <3>1. <<Break>> \in Seq(Tokens) /\ Len(<<Break>>) = 1 /\ <<Break>>[1] = Break
      BY DEF Tokens
    <3>2. /\ text \o <<Break>> \in Seq(Tokens)
          /\ Len(text \o <<Break>>) = Len(text) + Len(<<Break>>)
          /\ \A i \in 1..Len(text) + Len(<<Break>>) :
                 (text \o <<Break>>)[i] =
                     IF i <= Len(text) THEN text[i] ELSE <<Break>>[i - Len(text)]
      BY <1>1, <3>1, ConcatProperties
    <3>3. DOMAIN (text \o <<Break>>) = 1..Len(text) + 1
      BY <1>1, <3>1, <3>2
    <3>4. ASSUME NEW i \in 1..Len(text) + 1
          PROVE  (text \o <<Break>>)[i] # Begin /\ (text \o <<Break>>)[i] # End
      <4>1. CASE i \in 1..Len(text)
        BY <1>1, <3>1, <3>2, <4>1 DEF Plain
      <4>2. CASE i = Len(text) + 1
        <5>1. (text \o <<Break>>)[i] = <<Break>>[i - Len(text)] /\ i - Len(text) = 1
          BY <1>1, <3>1, <3>2, <4>2
        <5>2. QED
          BY <3>1, <5>1 DEF Begin, End, Break
      <4>3. QED
        BY <1>1, <4>1, <4>2
    <3>5. QED
      BY <2>2, <3>2, <3>3, <3>4 DEF Plain, Texts
  <2>3. QED
    BY <2>1, <2>2 DEF Closed
<1>4. <<>> \in Plain
  BY DEF Plain, Texts
<1>5. Apply(text, w) = AppendSnippet(text, w)
  BY <1>2 DEF Apply
<1>6. AppendSnippet(text, w) = Updated(Closed(text) \o Snippet(w))
  <2>1. CASE text = <<>> \/ text[Len(text)] = Break
    BY <2>1 DEF AppendSnippet, Closed
  <2>2. CASE ~(text = <<>> \/ text[Len(text)] = Break)
    BY <2>2 DEF AppendSnippet, Closed
  <2>3. QED
    BY <2>1, <2>2
<1>7. Closed(text) \o Snippet(w) = Framed(Closed(text), w, <<>>)
  <2>1. Closed(text) \in Seq(Tokens) /\ Snippet(w) \in Seq(Tokens)
    BY <1>3, SnippetTokens DEF Plain, Texts
  <2>2. Closed(text) \o Snippet(w) \in Seq(Tokens)
    BY <2>1, ConcatProperties
  <2>3. QED
    BY <2>2, ConcatEmptySeq DEF Framed
<1>8. Surroundings(text) = <<text, <<>>>>
  BY <1>2 DEF Surroundings
<1>9. QED
  BY <1>2, <1>3, <1>4, <1>5, <1>6, <1>7, <1>8
LEMMA MarkedApplies ==
    ASSUME NEW text \in Texts, Count(text, Begin) = 1, Count(text, End) = 1,
           ~(Place(text, End) < Place(text, Begin))
    PROVE  \E before \in Plain, behind \in Plain :
               /\ Surroundings(text) = <<before, behind>>
               /\ \A w \in Variants :
                      \/ Apply(text, w) = Updated(Framed(before, w, behind))
                      \/ Apply(text, w) = Current(text) /\ text = Framed(before, w, behind)
<1> DEFINE b == Place(text, Begin)
           p == Place(text, End)
           e == BlockEnd(text)
           before == SubSeq(text, 1, b - 1)
           behind == SubSeq(text, e + 1, Len(text))
<1>1. text \in Seq(Tokens) /\ Len(text) \in Nat /\ DOMAIN text = 1..Len(text)
  BY DEF Texts
<1>2. b \in 1..Len(text) /\ \A j \in 1..Len(text) : text[j] = Begin <=> j = b
  <2>1. PICK i \in DOMAIN text : \A j \in DOMAIN text : text[j] = Begin <=> j = i
    BY CountIsNat
  <2>2. b = i
    BY <2>1, OnlyPlace
  <2>3. QED
    BY <1>1, <2>1, <2>2
<1>3. p \in 1..Len(text) /\ \A j \in 1..Len(text) : text[j] = End <=> j = p
  <2>1. PICK i \in DOMAIN text : \A j \in DOMAIN text : text[j] = End <=> j = i
    BY CountIsNat
  <2>2. p = i
    BY <2>1, OnlyPlace
  <2>3. QED
    BY <1>1, <2>1, <2>2
<1>4. b < p
  BY <1>1, <1>2, <1>3 DEF Begin, End
<1>5. e \in p..Len(text)
  BY <1>1, <1>3 DEF BlockEnd
<1> HIDE DEF b, p, e
<1>6. /\ before \in Seq(Tokens) /\ Len(before) = b - 1
      /\ \A i \in 1..b - 1 : before[i] = text[i]
  <2>1. \A i \in 1..b - 1 : text[i] \in Tokens
    BY <1>1, <1>2
  <2>2. /\ before \in Seq(Tokens)
        /\ Len(before) = IF 1 <= b - 1 THEN (b - 1) - 1 + 1 ELSE 0
        /\ \A i \in 1..(b - 1) - 1 + 1 : before[i] = text[1 + i - 1]
    BY <1>2, <2>1, SubSeqProperties
  <2>3. QED
    BY <1>1, <1>2, <2>2
<1>7. /\ behind \in Seq(Tokens) /\ Len(behind) = Len(text) - e
      /\ \A i \in 1..Len(text) - e : behind[i] = text[e + i]
  <2>1. \A i \in e + 1 .. Len(text) : text[i] \in Tokens
    BY <1>1, <1>3, <1>5
  <2>2. /\ behind \in Seq(Tokens)
        /\ Len(behind) = IF e + 1 <= Len(text) THEN Len(text) - (e + 1) + 1 ELSE 0
        /\ \A i \in 1..Len(text) - (e + 1) + 1 : behind[i] = text[(e + 1) + i - 1]
    BY <1>1, <1>3, <1>5, <2>1, SubSeqProperties
  <2>3. Len(behind) = Len(text) - e
    <3>1. e \in Nat /\ Len(text) \in Nat /\ e <= Len(text)
      BY <1>1, <1>3, <1>5
    <3>2. Len(behind) = IF e + 1 <= Len(text) THEN Len(text) - (e + 1) + 1 ELSE 0
      BY <2>2
    <3>3. CASE e = Len(text)
      BY <1>1, <3>1, <3>2, <3>3
    <3>4. CASE e < Len(text)
      <4>1. e + 1 <= Len(text) /\ Len(text) - (e + 1) + 1 = Len(text) - e
        BY <1>1, <3>1, <3>4
      <4>2. QED
        BY <3>2, <4>1
    <3>5. e = Len(text) \/ e < Len(text)
      BY <3>1
    <3>6. QED
      BY <3>3, <3>4, <3>5
  <2>4. ASSUME NEW i \in 1..Len(text) - e PROVE behind[i] = text[e + i]
    <3>1. i \in 1..Len(text) - (e + 1) + 1 /\ (e + 1) + i - 1 = e + i
      BY <1>1, <1>3, <1>5
    <3>2. QED
      BY <2>2, <3>1
  <2>5. QED
    BY <2>2, <2>3, <2>4
<1> HIDE DEF before, behind
<1>8. before \in Plain
  <2>1. DOMAIN before = 1..b - 1
    BY <1>6
  <2>2. \A i \in 1..b - 1 : before[i] # Begin /\ before[i] # End
    BY <1>1, <1>2, <1>3, <1>4, <1>6
  <2>3. QED
    BY <1>6, <2>1, <2>2 DEF Plain, Texts
<1>9. behind \in Plain
  <2>1. DOMAIN behind = 1..Len(text) - e
    BY <1>7
  <2>2. ASSUME NEW i \in 1..Len(text) - e
        PROVE  behind[i] # Begin /\ behind[i] # End
    <3>1. e + i \in 1..Len(text) /\ e + i # b /\ e + i # p
      BY <1>1, <1>2, <1>3, <1>4, <1>5
    <3>2. QED
      BY <1>2, <1>3, <1>7, <3>1
  <2>3. QED
    BY <1>7, <2>1, <2>2 DEF Plain, Texts
<1>10. text = before \o SubSeq(text, b, e) \o behind
  <2>1. before \o SubSeq(text, b, e) = SubSeq(text, 1, e)
    <3>1. /\ 1 \in 1..Len(text) + 1 /\ b - 1 \in 1 - 1 .. Len(text)
          /\ e \in b - 1 .. Len(text) /\ (b - 1) + 1 = b
      BY <1>1, <1>2, <1>3, <1>4, <1>5
    <3>2. SubSeq(text, 1, b - 1) \o SubSeq(text, (b - 1) + 1, e) = SubSeq(text, 1, e)
      BY <1>1, <3>1, ConcatAdjacentSubSeq
    <3>3. QED
      BY <3>1, <3>2 DEF before
  <2>2. SubSeq(text, 1, e) \o behind = SubSeq(text, 1, Len(text))
    <3>1. /\ 1 \in 1..Len(text) + 1 /\ e \in 1 - 1 .. Len(text) /\ Len(text) \in e..Len(text)
      BY <1>1, <1>3, <1>5
    <3>2. QED
      BY <1>1, <3>1, ConcatAdjacentSubSeq DEF behind
  <2>3. SubSeq(text, 1, Len(text)) = text
    BY <1>1, SubSeqFull
  <2>4. QED
    BY <2>1, <2>2, <2>3
<1>11. Surroundings(text) = <<before, behind>>
  BY DEF Surroundings, before, behind, b, e
<1>12. ASSUME NEW w \in Variants
       PROVE  \/ Apply(text, w) = Updated(Framed(before, w, behind))
              \/ Apply(text, w) = Current(text) /\ text = Framed(before, w, behind)
  <2>1. Apply(text, w) = ReplaceBlock(text, w)
    BY DEF Apply
  <2>2. ReplaceBlock(text, w) =
            IF SubSeq(text, b, e) = Snippet(w) THEN Current(text)
            ELSE Updated(before \o Snippet(w) \o behind)
    BY DEF ReplaceBlock, before, behind, b, e
  <2>3. QED
    BY <1>10, <2>1, <2>2 DEF Framed
<1>13. QED
  BY <1>8, <1>9, <1>11, <1>12

\* A text is spliced where its user's own text is `before` and `behind`, whatever
\* variant is asked for.
Splices(text, before, behind) ==
    /\ \A w \in Variants :
           \/ Apply(text, w) = Updated(Framed(before, w, behind))
           \/ Apply(text, w) = Current(text) /\ text = Framed(before, w, behind)
    /\ \/ Surroundings(text) = <<before, behind>>
       \/ /\ Count(text, Begin) = 0
          /\ text # <<>> /\ text[Len(text)] # Break
          /\ before = text \o <<Break>> /\ behind = <<>>

\* A text that has one marker too many or too few is refused, whatever variant is
\* asked for.
Refuses(text) ==
    \A w \in Variants :
        /\ Apply(text, w).kind \in {"duplicate", "incomplete"}
        /\ Apply(text, w).kind = "duplicate" => Count(text, Begin) > 1 \/ Count(text, End) > 1

LEMMA SplicedOrRefused ==
    ASSUME NEW text \in Texts
    PROVE  \/ \E before \in Plain, behind \in Plain : Splices(text, before, behind)
           \/ Refuses(text)
<1>1. Count(text, Begin) \in Nat /\ Count(text, End) \in Nat
  BY CountIsNat
<1>2. CASE Count(text, Begin) = 0 /\ Count(text, End) = 0
  <2>1. text \in Plain
    BY <1>2, CountIsNat DEF Plain
  <2>2. /\ Closed(text) \in Plain /\ <<>> \in Plain /\ Surroundings(text) = <<text, <<>>>>
        /\ \A w \in Variants : Apply(text, w) = Updated(Framed(Closed(text), w, <<>>))
    <3>1. Variants # {}
      <4>1. <<"left", TRUE>> \in {"left", "right"} \X BOOLEAN
        OBVIOUS
      <4>2. VariantOf[<<"left", TRUE>>] \in Variants
        BY <4>1, InstallSequenceAssumption
      <4>3. QED
        BY <4>2
    <3>2. QED
      BY <2>1, <3>1, PlainApplies
  <2>3. \/ Closed(text) = text
        \/ /\ text # <<>> /\ text[Len(text)] # Break
           /\ Closed(text) = text \o <<Break>>
    BY DEF Closed
  <2>4. Splices(text, Closed(text), <<>>)
    BY <1>2, <2>2, <2>3 DEF Splices
  <2>5. QED
    BY <2>2, <2>4
<1>3. CASE /\ Count(text, Begin) = 1 /\ Count(text, End) = 1
           /\ ~(Place(text, End) < Place(text, Begin))
  BY <1>3, MarkedApplies DEF Splices
<1>4. CASE /\ Count(text, Begin) = 1 /\ Count(text, End) = 1
           /\ Place(text, End) < Place(text, Begin)
  BY <1>4 DEF Refuses, Apply, ReplaceBlock, Refused
<1>5. CASE Count(text, Begin) > 1 \/ Count(text, End) > 1
  <2>1. \A w \in Variants : Apply(text, w) = Refused("duplicate")
    BY <1>1, <1>5 DEF Apply
  <2>2. QED
    BY <1>5, <2>1 DEF Refuses, Refused
<1>6. CASE /\ ~(Count(text, Begin) > 1 \/ Count(text, End) > 1)
           /\ Count(text, Begin) # Count(text, End)
  <2>1. \A w \in Variants : Apply(text, w) = Refused("incomplete")
    BY <1>1, <1>6 DEF Apply
  <2>2. QED
    BY <2>1 DEF Refuses, Refused
<1>7. QED
  BY <1>1, <1>2, <1>3, <1>4, <1>5, <1>6

(***************************************************************************)
(* The invariant: from the first install that is not refused on, the       *)
(* config is the user's own text around the block last asked for.          *)
(***************************************************************************)
Around(before, behind) ==
    Splices(original, before, behind) /\ config = Framed(before, last.variant, behind)

IInv ==
    /\ layers \in Stacks
    /\ original \in Texts
    /\ last.kind \in {"none", "updated", "current", "duplicate", "incomplete"}
    /\ IF Done(last.kind)
       THEN /\ last.variant \in Variants
            /\ \E before \in Plain, behind \in Plain : Around(before, behind)
       ELSE /\ config = original
            /\ last.kind = "duplicate" => Count(config, Begin) > 1 \/ Count(config, End) > 1

LEMMA InitEstablishes == Init => IInv
<1> SUFFICES ASSUME Init PROVE IInv
  OBVIOUS
<1>1. original \in Texts
  BY InstallSequenceAssumption DEF Init
<1>2. QED
  BY <1>1 DEF Init, IInv, Done

\* Where an install splices, it leaves the block it was asked for behind.
LEMMA SplicedLeaves ==
    ASSUME NEW text \in Texts, NEW before \in Plain, NEW behind \in Plain, NEW v \in Variants,
           \/ Splices(text, before, behind)
           \/ \E u \in Variants : text = Framed(before, u, behind)
    PROVE  LET r == Apply(text, v) IN
           /\ Done(r.kind)
           /\ (IF r.kind = "updated" THEN r.text ELSE text) = Framed(before, v, behind)
<1>1. \/ Apply(text, v) = Updated(Framed(before, v, behind))
      \/ Apply(text, v) = Current(text) /\ text = Framed(before, v, behind)
  <2>1. CASE Splices(text, before, behind)
    BY <2>1 DEF Splices
  <2>2. CASE \E u \in Variants : text = Framed(before, u, behind)
    <3>1. PICK u \in Variants : text = Framed(before, u, behind)
      BY <2>2
    <3>2. CASE Snippet(u) = Snippet(v)
      BY <3>1, <3>2, FramedApplies DEF Framed
    <3>3. CASE Snippet(u) # Snippet(v)
      BY <3>1, <3>3, FramedApplies
    <3>4. QED
      BY <3>2, <3>3
  <2>3. QED
    BY <2>1, <2>2
<1>2. QED
  BY <1>1 DEF Updated, Current, Done

LEMMA FramedIsText ==
    ASSUME NEW before \in Plain, NEW v \in Variants, NEW behind \in Plain
    PROVE  Framed(before, v, behind) \in Texts
BY FramedTokens DEF Plain

LEMMA InstallKeeps ==
    ASSUME IInv, NEW flags \in Flags, Install(flags)
    PROVE  IInv'
<1> DEFINE s == Merged(flags, layers)
           v == VariantOf[<<Position(s), IsFull(s)>>]
           r == Apply(config, v)
<1>1. v \in Variants
  <2>1. Position(s) \in {"left", "right"} /\ IsFull(s) \in BOOLEAN
    BY SettingsAreTyped DEF IInv, Install
  <2>2. <<Position(s), IsFull(s)>> \in {"left", "right"} \X BOOLEAN
    BY <2>1
  <2>3. QED
    BY <2>2, InstallSequenceAssumption
<1>2. layers' \in Stacks /\ original' = original /\ original \in Texts
  BY DEF IInv, Install
<1>3. CASE UNCHANGED <<config, last>>
  <2>1. UNCHANGED <<layers, original, config, last>>
    BY <1>3 DEF Install
  <2>2. QED
    BY <2>1 DEF IInv, Around
<1>4. CASE /\ config' = IF r.kind = "updated" THEN r.text ELSE config
           /\ last' = [variant |-> v, kind |-> r.kind]
  <2> HIDE DEF v
  <2>1. last'.kind = r.kind /\ last'.variant = v
    BY <1>4
  <2>2. ASSUME NEW before \in Plain, NEW behind \in Plain, Splices(original, before, behind),
               Done(r.kind), config' = Framed(before, v, behind)
        PROVE  IInv'
    <3>1. Around(before, behind)'
      BY <1>2, <2>1, <2>2 DEF Around
    <3>2. QED
      BY <1>1, <1>2, <2>1, <2>2, <3>1 DEF IInv, Done
  <2>3. CASE Done(last.kind)
    <3>1. PICK before \in Plain, behind \in Plain : Around(before, behind)
      BY <2>3 DEF IInv
    <3>2. last.variant \in Variants /\ config = Framed(before, last.variant, behind)
          /\ Splices(original, before, behind)
      BY <2>3, <3>1 DEF IInv, Around
    <3>3. config \in Texts
      BY <3>2, FramedIsText
    <3>4. Done(r.kind) /\ config' = Framed(before, v, behind)
      BY <1>1, <1>4, <3>2, <3>3, SplicedLeaves
    <3>5. QED
      BY <2>2, <3>2, <3>4
  <2>4. CASE ~Done(last.kind)
    <3>1. config = original
      BY <2>4 DEF IInv
    <3>2. CASE \E before \in Plain, behind \in Plain : Splices(original, before, behind)
      <4>1. PICK before \in Plain, behind \in Plain : Splices(original, before, behind)
        BY <3>2
      <4>2. Done(r.kind) /\ config' = Framed(before, v, behind)
        BY <1>1, <1>2, <1>4, <3>1, <4>1, SplicedLeaves
      <4>3. QED
        BY <2>2, <4>1, <4>2
    <3>3. CASE Refuses(original)
      <4>1. /\ r.kind \in {"duplicate", "incomplete"}
            /\ r.kind = "duplicate" => Count(config, Begin) > 1 \/ Count(config, End) > 1
        BY <1>1, <3>1, <3>3 DEF Refuses
      <4>2. config' = config
        BY <1>4, <4>1
      <4>3. QED
        BY <1>2, <2>1, <3>1, <4>1, <4>2 DEF IInv, Done
    <3>4. QED
      BY <1>2, <3>2, <3>3, SplicedOrRefused
  <2>5. QED
    BY <2>3, <2>4
<1>5. QED
  BY <1>3, <1>4 DEF Install

LEMMA NextKeeps == IInv /\ [Next]_vars => IInv'
<1> SUFFICES ASSUME IInv, [Next]_vars PROVE IInv'
  OBVIOUS
<1>1. CASE Next
  BY <1>1, InstallKeeps DEF Next
<1>2. CASE UNCHANGED vars
  BY <1>2 DEF IInv, Around, vars
<1>3. QED
  BY <1>1, <1>2

LEMMA SequenceInvariant == Spec => []IInv
<1>1. QED
  BY InitEstablishes, NextKeeps, PTL DEF Spec

(***************************************************************************)
(* What the invariant comes to.                                            *)
(***************************************************************************)
LEMMA InvariantIsNoOp == IInv => ReinstallIsNoOp
<1> SUFFICES ASSUME IInv, Done(last.kind) PROVE Apply(config, last.variant) = Current(config)
  BY DEF ReinstallIsNoOp
<1>1. PICK before \in Plain, behind \in Plain : Around(before, behind)
  BY DEF IInv
<1>2. last.variant \in Variants /\ config = Framed(before, last.variant, behind)
  BY <1>1 DEF IInv, Around
<1>3. QED
  BY <1>2, FramedApplies

LEMMA InvariantIsLastRequest == IInv => OnlyTheLastRequestCounts
<1> SUFFICES ASSUME IInv, Done(last.kind)
             PROVE  config = IF Apply(original, last.variant).kind = "updated"
                             THEN Apply(original, last.variant).text ELSE original
  BY DEF OnlyTheLastRequestCounts
<1>1. PICK before \in Plain, behind \in Plain : Around(before, behind)
  BY DEF IInv
<1>2. /\ last.variant \in Variants /\ original \in Texts
      /\ config = Framed(before, last.variant, behind)
      /\ Splices(original, before, behind)
  BY <1>1 DEF IInv, Around
<1>3. QED
  BY <1>2, SplicedLeaves

LEMMA InvariantKeepsSurroundings == IInv => SurroundingsKept
<1> SUFFICES ASSUME IInv, Done(last.kind)
             PROVE  \/ Surroundings(config) = Surroundings(original)
                    \/ /\ Count(original, Begin) = 0
                       /\ original # <<>> /\ original[Len(original)] # Break
                       /\ Surroundings(config) = <<original \o <<Break>>, <<>>>>
  BY DEF SurroundingsKept
<1>1. PICK before \in Plain, behind \in Plain : Around(before, behind)
  BY DEF IInv
<1>2. /\ last.variant \in Variants /\ config = Framed(before, last.variant, behind)
      /\ Splices(original, before, behind)
  BY <1>1 DEF IInv, Around
<1>3. Surroundings(config) = <<before, behind>>
  BY <1>2, FramedApplies
<1>4. QED
  BY <1>2, <1>3 DEF Splices

LEMMA InvariantRefusesDuplicates == IInv => DuplicatesAreRefused
<1> SUFFICES ASSUME IInv PROVE DuplicatesAreRefused
  OBVIOUS
<1>1. ASSUME Done(last.kind) PROVE Count(config, Begin) = 1 /\ Count(config, End) = 1
  <2>1. PICK before \in Plain, behind \in Plain : Around(before, behind)
    BY <1>1 DEF IInv
  <2>2. last.variant \in Variants /\ config = Framed(before, last.variant, behind)
    BY <1>1, <2>1 DEF IInv, Around
  <2>3. QED
    BY <2>2, FramedMarkers
<1>2. ASSUME last.kind = "duplicate"
      PROVE  config = original /\ (Count(config, Begin) > 1 \/ Count(config, End) > 1)
  BY <1>2 DEF IInv, Done
<1>3. QED
  BY <1>1, <1>2 DEF DuplicatesAreRefused

\* However often dbar is installed over whatever text, installing what is already
\* installed rewrites nothing (apply_snippet in src/install/snippet.rs).
THEOREM ReinstallsAreNoOps == Spec => []ReinstallIsNoOp
<1>1. QED
  BY SequenceInvariant, InvariantIsNoOp, PTL

\* A row of installs leaves what its last one would have left alone: requests
\* replace one another and leave no residue.
THEOREM LastRequestDecides == Spec => []OnlyTheLastRequestCounts
<1>1. QED
  BY SequenceInvariant, InvariantIsLastRequest, PTL

\* The user's own text is kept in its place by every row of installs, but for a line
\* break behind an unfinished last line.
THEOREM SurroundingsAreKept == Spec => []SurroundingsKept
<1>1. QED
  BY SequenceInvariant, InvariantKeepsSurroundings, PTL

\* A config with a marker twice is refused and left alone, and no install produces
\* one.
THEOREM DuplicatesStayRefused == Spec => []DuplicatesAreRefused
<1>1. QED
  BY SequenceInvariant, InvariantRefusesDuplicates, PTL
(***************************************************************************)
(* What keeps a config protected.                                          *)
(***************************************************************************)

\* A bare flag can only be given as TRUE, so what the layers below hold back is a dry
\* run whatever the flags, or nothing that loads.
LEMMA HeldBackIsDryRun ==
    ASSUME NEW flags \in Flags, HeldBack, Loads(Merged(flags, layers))
    PROVE  IsDryRun(Merged(flags, layers))
<1> DEFINE below == Over(layers.env, layers.file)
           s == Merged(flags, layers)
<1>1. "dry_run" \in DOMAIN below /\ below["dry_run"] \in {TRUE, Malformed}
  BY DEF HeldBack
<1> HIDE DEF below
<1>2. "dry_run" \in DOMAIN s
      /\ s["dry_run"] = IF "dry_run" \in DOMAIN flags THEN flags["dry_run"]
                        ELSE below["dry_run"]
  BY <1>1 DEF Merged, Over, below
<1>3. "dry_run" \in DOMAIN flags => flags["dry_run"] = TRUE
  BY InstallSequenceAssumption
<1>4. s["dry_run"] # Malformed
  BY <1>2 DEF Loads
<1>5. s["dry_run"] = TRUE
  BY <1>1, <1>2, <1>3, <1>4
<1>6. QED
  BY <1>2, <1>5 DEF IsDryRun, Setting

\* No row of installs writes a config that the environment or the file protects, for
\* any flags and settings (load_and_merge in src/config/mod.rs).
THEOREM ProtectedConfigsStay == Spec => []CommandLineCannotUnprotect
<1>1. Init => CommandLineCannotUnprotect
  BY DEF Init, CommandLineCannotUnprotect
<1>2. CommandLineCannotUnprotect /\ [Next]_vars => CommandLineCannotUnprotect'
  <2> SUFFICES ASSUME CommandLineCannotUnprotect, [Next]_vars, HeldBack'
               PROVE  config' = original'
    BY DEF CommandLineCannotUnprotect
  <2>1. ASSUME NEW flags \in Flags, Install(flags)
        PROVE  config' = original'
    <3>1. Loads(Merged(flags, layers)) /\ layers' = layers /\ original' = original
      BY <2>1 DEF Install
    <3>2. HeldBack /\ config = original
      BY <3>1 DEF HeldBack, CommandLineCannotUnprotect
    <3>3. IsDryRun(Merged(flags, layers))
      BY <3>1, <3>2, HeldBackIsDryRun
    <3>4. config' = config
      BY <2>1, <3>3 DEF Install
    <3>5. QED
      BY <3>1, <3>2, <3>4
  <2>2. CASE UNCHANGED vars
    BY <2>2 DEF vars, HeldBack, CommandLineCannotUnprotect
  <2>3. QED
    BY <2>1, <2>2 DEF Next
<1>3. QED
  BY <1>1, <1>2, PTL DEF Spec
=============================================================================
