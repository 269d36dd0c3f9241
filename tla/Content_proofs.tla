--------------------------- MODULE Content_proofs ---------------------------
(***************************************************************************)
(* Proofs about Chunking, for documents of any length and chunks of any    *)
(* size, and about CardContent, for chunks and answers of any text, any    *)
(* scores, any cut and any number of rounds and cards.                     *)
(***************************************************************************)
EXTENDS Chunking, CardContent, FiniteSetTheorems, SequenceTheorems,
        WellFoundedInduction, TLAPS

-----------------------------------------------------------------------------
(* Chunking: the first and the last of some positions, and what TrimSpace  *)
(* leaves.                                                                 *)
LEMMA LeastIs ==
  ASSUME NEW S \in SUBSET Nat, S # {}
  PROVE  Least(S) \in S /\ \A i \in S : Least(S) <= i
<1> DEFINE R == {p \in Nat \X Nat : p[1] < p[2]}
<1>1. IsWellFoundedOn(R, Nat)
  BY NatLessThanWellFounded DEF OpToRel
<1>2. \A i, m \in Nat : i < m => <<i, m>> \in R
  OBVIOUS
<1>3. PICK m \in S : \A i \in S : ~(<<i, m>> \in R)
  <2> HIDE DEF R
  <2> QED BY <1>1, WFMin
<1>4. \A i \in S : m <= i
  <2> SUFFICES ASSUME NEW i \in S PROVE ~(i < m)
    OBVIOUS
  <2>1. i \in Nat /\ m \in Nat /\ ~(<<i, m>> \in R)
    BY <1>3
  <2> HIDE DEF R
  <2> QED BY <1>2, <2>1
<1> QED BY <1>4 DEF Least

LEMMA GreatestIs ==
  ASSUME NEW n \in Nat, NEW S \in SUBSET (0..n), S # {}
  PROVE  Greatest(S) \in S /\ \A i \in S : Greatest(S) >= i
<1> DEFINE T == {k \in Nat : \E i \in S : k = n - i}
<1>1. T # {} /\ \A i \in S : n - i \in T
  <2>1. \A i \in S : n - i \in T
    <3> SUFFICES ASSUME NEW i \in S PROVE n - i \in T
      OBVIOUS
    <3>1. i \in 0..n
      OBVIOUS
    <3>2. n - i \in Nat
      BY <3>1
    <3> QED BY <3>2
  <2> HIDE DEF T
  <2> QED BY <2>1
<1>2. Least(T) \in T /\ \A j \in T : Least(T) <= j
  <2>1. T \in SUBSET Nat
    OBVIOUS
  <2> HIDE DEF T
  <2> QED BY <1>1, <2>1, LeastIs
<1>3. PICK m \in S : Least(T) = n - m
  BY <1>2
<1>4. \A i \in S : m >= i
  <2> SUFFICES ASSUME NEW i \in S PROVE m >= i
    OBVIOUS
  <2>1. n - m <= n - i
    BY <1>1, <1>2, <1>3
  <2> QED BY <2>1
<1> QED BY <1>4 DEF Greatest

LEMMA TrimFacts ==
  ASSUME NEW a \in Nat \ {0}, NEW b \in Nat, a - 1 <= b
  PROVE  LET t == TrimSpace(a, b)
         IN  /\ t = <<t[1], t[2]>>
             /\ t[1] \in a..(b + 1) /\ t[2] \in (a - 1)..b
             /\ t[1] <= t[2] <=> Ink(a, b) # {}
             /\ t[2] - t[1] <= b - a \/ (t[2] = a - 1 /\ t[1] = a)
             /\ \A i \in Ink(a, b) : i \in t[1]..t[2]
<1>1. CASE Ink(a, b) = {}
  BY <1>1 DEF TrimSpace
<1>2. CASE Ink(a, b) # {}
  <2>1. Ink(a, b) \in SUBSET Nat /\ Ink(a, b) \in SUBSET (0..b) /\ Ink(a, b) \subseteq a..b
    BY DEF Ink
  <2>2. /\ Least(Ink(a, b)) \in a..b /\ Greatest(Ink(a, b)) \in a..b
        /\ \A i \in Ink(a, b) : Least(Ink(a, b)) <= i /\ i <= Greatest(Ink(a, b))
    BY <1>2, <2>1, LeastIs, GreatestIs
  <2>3. TrimSpace(a, b) = <<Least(Ink(a, b)), Greatest(Ink(a, b))>>
    BY <1>2 DEF TrimSpace
  <2>4. Least(Ink(a, b)) <= Greatest(Ink(a, b))
    BY <1>2, <2>1, <2>2, LeastIs
  <2> HIDE DEF TrimSpace, Ink
  <2> QED BY <1>2, <2>1, <2>2, <2>3, <2>4
<1> QED BY <1>1, <1>2

-----------------------------------------------------------------------------
(* The invariant. *)

Covered(i) == \E k \in DOMAIN chunks : i \in chunks[k][1]..chunks[k][2]

\* The last chunk ends before position i.
EndBefore(i) == \A k \in DOMAIN chunks : chunks[k][2] < i

OneParagraph(a, b) ==
  \A i \in a..(b - 1) : ~(Rune(i) = "newline" /\ Rune(i + 1) = "newline")

\* The text is what stands outside the tags of the first n runes.
Extracted(n) ==
  /\ \A i, j \in DOMAIN text : i < j => text[i] < text[j]
  /\ \A i \in DOMAIN text : text[i] <= n
  /\ \A p \in 1..n : Outside(p) <=> \E i \in DOMAIN text : text[i] = p

Beginning ==
  /\ stage = "extract" => text = <<>> /\ read = 0 /\ inTag = FALSE
  /\ stage \in {"extract", "strip"} => chunks = <<>> /\ rest = 1

StripSound ==
  /\ stage = "strip" =>
       /\ Extracted(read)
       /\ inTag <=> \E b \in 1..read : /\ doc.runes[b] = "<"
                                      /\ \A e \in (b + 1)..read : doc.runes[e] # ">"
  /\ stage \in {"split", "cut", "done"} /\ doc.format = "html" => Extracted(Len(doc.runes))

\* Up to rest everything is in a chunk or in what is left of the paragraph.
ChunksSound ==
  /\ \A k, l \in DOMAIN chunks : k < l => chunks[k][2] < chunks[l][1]
  /\ stage = "split" =>
       /\ EndBefore(rest)
       /\ \A i \in Ink(1, Len(text)) : i < rest => Covered(i)
  /\ stage = "cut" =>
       /\ from <= to /\ to < rest
       /\ EndBefore(from) /\ OneParagraph(from, to)
       /\ \A i \in Ink(1, Len(text)) : i < rest => Covered(i) \/ i \in from..to
  /\ stage = "done" => \A i \in Ink(1, Len(text)) : Covered(i)
  /\ stage = "cut" \/ chunks # <<>> => Ink(1, Len(text)) # {}

ChunkingInv == TextOK /\ Beginning /\ StripSound /\ ChunksFit /\ ChunksSound

LEMMA InitSound == TextInit => ChunkingInv
<1> SUFFICES ASSUME TextInit PROVE ChunkingInv
  OBVIOUS
<1>1. doc.runes \in Seq(Runes)
  BY ChunkingAssumption DEF TextInit
<1>2. TextOK
  <2>1. read \in 0..Len(doc.runes)
    BY <1>1 DEF TextInit
  <2>2. text \in Seq(1..Len(doc.runes)) /\ Len(text) = 0
    BY DEF TextInit
  <2>3. chunks \in Seq((1..(Len(text) + 1)) \X (0..Len(text)))
    BY DEF TextInit
  <2>4. /\ doc \in Documents /\ inTag \in BOOLEAN
        /\ stage \in {"extract", "strip", "split", "cut", "done", "failed"}
    BY DEF TextInit
  <2>5. rest \in Nat \ {0} /\ from \in Nat \ {0} /\ to \in 0..Len(text)
    BY <2>2 DEF TextInit
  <2> QED BY <2>1, <2>2, <2>3, <2>4, <2>5 DEF TextOK
<1> QED
  BY <1>2 DEF TextInit, ChunkingInv, Beginning, StripSound, ChunksFit, ChunksSound

-----------------------------------------------------------------------------
(* The text. *)

\* Nothing of the text moves once it is there.
LEMMA SameText ==
  ASSUME doc' = doc, text' = text
  PROVE  /\ \A i : Rune(i)' = Rune(i)
         /\ \A a, b : Ink(a, b)' = Ink(a, b)
         /\ \A a, b : OneParagraph(a, b)' = OneParagraph(a, b)
         /\ \A n : Extracted(n)' = Extracted(n)
  BY DEF Rune, Ink, OneParagraph, Extracted, Outside

LEMMA StripKeeps ==
  ASSUME ChunkingInv, Strip
  PROVE  ChunkingInv'
<1>1. PICK n, r : n = read + 1 /\ r = doc.runes[n]
  OBVIOUS
<1>2. /\ doc.runes \in Seq(Runes) /\ n \in 1..Len(doc.runes) /\ read \in Nat
      /\ text \in Seq(1..Len(doc.runes)) /\ r \in Runes /\ inTag \in BOOLEAN
  BY <1>1, ChunkingAssumption DEF Strip, ChunkingInv, TextOK
<1> DEFINE kept == ~(inTag \/ r \in {"<", ">"})
<1>3. /\ stage = "strip" /\ stage' = "strip" /\ doc' = doc /\ chunks' = <<>> /\ rest' = 1
      /\ from' = from /\ to' = to /\ read' = n /\ chunks = <<>> /\ rest = 1
      /\ text' = IF kept THEN Append(text, n) ELSE text
  BY <1>1 DEF Strip, ChunkingInv, Beginning
<1>4. inTag' = (r = "<" \/ (inTag /\ r # ">"))
  BY <1>1 DEF Strip
<1>5. text' \in Seq(1..Len(doc.runes)) /\ Len(text) <= Len(text')
  <2>1. CASE kept
    BY <1>2, <1>3, <2>1
  <2>2. CASE ~kept
    BY <1>2, <1>3, <2>2
  <2> QED BY <2>1, <2>2
<1>6. TextOK'
  <2>1. inTag' \in BOOLEAN
    BY <1>4
  <2>2. from \in Nat \ {0} /\ to \in 0..Len(text)
    BY DEF ChunkingInv, TextOK
  <2>3. to' \in 0..Len(text')
    BY <1>2, <1>3, <1>5, <2>2
  <2> QED BY <1>2, <1>3, <1>5, <2>1, <2>2, <2>3 DEF ChunkingInv, TextOK
<1>7. /\ Extracted(read)
      /\ inTag <=> \E b \in 1..read : /\ doc.runes[b] = "<"
                                     /\ \A e \in (b + 1)..read : doc.runes[e] # ">"
  BY <1>3 DEF ChunkingInv, StripSound
<1>8. inTag' <=> \E b \in 1..n : /\ doc.runes[b] = "<"
                               /\ \A e \in (b + 1)..n : doc.runes[e] # ">"
  <2>1. (n + 1)..n = {} /\ n \in 1..n /\ 1..n = (1..read) \cup {n}
    BY <1>1, <1>2
  <2>2. \A b \in 1..read : (b + 1)..n = ((b + 1)..read) \cup {n}
    BY <1>1, <1>2
  <2>3. CASE r = "<"
    <3>1. doc.runes[n] = "<" /\ \A e \in (n + 1)..n : doc.runes[e] # ">"
      BY <1>1, <2>1, <2>3
    <3> QED BY <1>4, <2>1, <2>3, <3>1
  <2>4. CASE r = ">"
    <3>1. \A b \in 1..read : n \in (b + 1)..n /\ doc.runes[n] = ">"
      BY <1>1, <2>2, <2>4
    <3>2. doc.runes[n] # "<" /\ ~inTag'
      BY <1>1, <1>4, <2>4
    <3> QED BY <2>1, <3>1, <3>2
  <2>5. CASE r \notin {"<", ">"}
    <3>1. inTag' <=> inTag
      BY <1>2, <1>4, <2>5
    <3>2. doc.runes[n] # "<" /\ doc.runes[n] # ">"
      BY <1>1, <2>5
    <3> QED BY <1>7, <2>1, <2>2, <3>1, <3>2
  <2> QED BY <2>3, <2>4, <2>5
<1>9. Outside(n) <=> kept
  <2>1. n - 1 = read
    BY <1>1, <1>2
  <2>2. Outside(n) <=>
          /\ r \notin {"<", ">"}
          /\ \A b \in 1..read : doc.runes[b] = "<" =>
                \E e \in (b + 1)..read : doc.runes[e] = ">"
    BY <1>1, <2>1 DEF Outside
  <2> QED BY <1>7, <2>2
<1>10. Extracted(n)'
  <2>1. \A p : Outside(p)' <=> Outside(p)
    BY <1>3 DEF Outside
  <2>2. CASE kept
    <3>1. /\ DOMAIN text' = 1..(Len(text) + 1) /\ DOMAIN text = 1..Len(text)
          /\ \A i \in 1..Len(text) : text'[i] = text[i]
          /\ text'[Len(text) + 1] = n /\ Len(text) \in Nat
      BY <1>2, <1>3, <2>2
    <3>2. \A i \in DOMAIN text : text[i] \in Nat /\ text[i] < n
      BY <1>1, <1>2, <1>7 DEF Extracted
    <3>3. \A i, j \in DOMAIN text' : i < j => text'[i] < text'[j]
      BY <1>7, <3>1, <3>2 DEF Extracted
    <3>4. \A i \in DOMAIN text' : text'[i] <= n
      BY <1>2, <3>1, <3>2
    <3>5. \A p \in 1..n : Outside(p) <=> \E i \in DOMAIN text' : text'[i] = p
      <4> SUFFICES ASSUME NEW p \in 1..n
                   PROVE  Outside(p) <=> \E i \in DOMAIN text' : text'[i] = p
        OBVIOUS
      <4>1. CASE p = n
        BY <1>9, <2>2, <3>1, <4>1
      <4>2. CASE p \in 1..read
        <5>1. (\E i \in DOMAIN text' : text'[i] = p) <=> \E i \in DOMAIN text : text[i] = p
          BY <1>1, <1>2, <3>1, <4>2
        <5> QED BY <1>7, <4>2, <5>1 DEF Extracted
      <4> QED BY <1>1, <1>2, <4>1, <4>2
    <3> QED BY <2>1, <3>3, <3>4, <3>5 DEF Extracted
  <2>3. CASE ~kept
    <3>1. text' = text /\ \A i \in DOMAIN text : text[i] \in Nat /\ text[i] < n
      BY <1>1, <1>2, <1>3, <1>7, <2>3 DEF Extracted
    <3>2. \A p \in 1..n : Outside(p) <=> \E i \in DOMAIN text : text[i] = p
      <4> SUFFICES ASSUME NEW p \in 1..n
                   PROVE  Outside(p) <=> \E i \in DOMAIN text : text[i] = p
        OBVIOUS
      <4>1. CASE p = n
        BY <1>2, <1>9, <2>3, <3>1, <4>1
      <4>2. CASE p \in 1..read
        BY <1>7, <4>2 DEF Extracted
      <4> QED BY <1>1, <1>2, <4>1, <4>2
    <3> QED BY <1>2, <1>7, <2>1, <3>1, <3>2 DEF Extracted
  <2> QED BY <2>2, <2>3
<1>11. StripSound'
  BY <1>3, <1>8, <1>10 DEF StripSound
<1> QED
  BY <1>3, <1>6, <1>11 DEF ChunkingInv, Beginning, ChunksFit, ChunksSound

-----------------------------------------------------------------------------
(* The chunks. *)

Ordered == \A k, l \in DOMAIN chunks : k < l => chunks[k][2] < chunks[l][1]

\* The effect of one more chunk, cut from a stretch of a paragraph.
LEMMA ChunkAdded ==
  ASSUME TextOK, ChunksFit, Ordered, doc' = doc, text' = text,
         NEW a \in Nat \ {0}, NEW b \in Nat, a <= b, b <= Len(text), b - a < MaxRunes,
         OneParagraph(a, b), EndBefore(a), chunks' = Append(chunks, TrimSpace(a, b))
  PROVE  /\ chunks' \in Seq((1..(Len(text) + 1)) \X (0..Len(text))) /\ chunks' # <<>>
         /\ ChunksFit' /\ Ordered'
         /\ \A k \in DOMAIN chunks' : chunks'[k][2] <= b
         /\ \A i : Covered(i) \/ i \in Ink(a, b) => Covered(i)'
<1> DEFINE Places == (1..(Len(text) + 1)) \X (0..Len(text))
<1>1. PICK t : t = TrimSpace(a, b)
  OBVIOUS
<1>2. /\ t = <<t[1], t[2]>> /\ t[1] \in a..(b + 1) /\ t[2] \in (a - 1)..b
      /\ t[2] - t[1] <= b - a \/ (t[2] = a - 1 /\ t[1] = a)
      /\ \A i \in Ink(a, b) : i \in t[1]..t[2]
  BY <1>1, TrimFacts
<1>3. chunks \in Seq(Places) /\ text \in Seq(1..Len(doc.runes)) /\ MaxRunes \in Nat \ {0}
  BY ChunkingAssumption DEF TextOK
<1>4. Len(text) \in Nat /\ t \in Places
  BY <1>2, <1>3
<1> HIDE DEF Places
<1>5. /\ chunks' \in Seq(Places) /\ chunks' # <<>> /\ Len(chunks) \in Nat
      /\ DOMAIN chunks = 1..Len(chunks) /\ DOMAIN chunks' = 1..(Len(chunks) + 1)
      /\ \A k \in 1..Len(chunks) : chunks'[k] = chunks[k]
      /\ chunks'[Len(chunks) + 1] = t
  <2>1. chunks' = Append(chunks, t)
    BY <1>1
  <2>2. Len(chunks) \in Nat /\ DOMAIN chunks = 1..Len(chunks)
    BY <1>3
  <2>3. chunks' \in Seq(Places) /\ Len(chunks') = Len(chunks) + 1
    BY <1>3, <1>4, <2>1
  <2>4. \A k \in 1..Len(chunks) : chunks'[k] = chunks[k]
    BY <1>3, <1>4, <2>1, <2>2
  <2>5. chunks'[Len(chunks) + 1] = t
    BY <1>3, <1>4, <2>1, <2>2
  <2>6. DOMAIN chunks' = 1..(Len(chunks) + 1) /\ chunks' # <<>>
    BY <2>2, <2>3
  <2> QED BY <2>2, <2>3, <2>4, <2>5, <2>6
<1>6. \A k \in 1..Len(chunks) : chunks[k] \in Places
  BY <1>3
<1>7. \A k \in 1..Len(chunks) : chunks[k][1] \in Nat /\ chunks[k][2] \in Nat
  BY <1>6 DEF Places
<1>8. \A i : Rune(i)' = Rune(i)
  BY DEF Rune
<1>9. ChunksFit'
  <2> SUFFICES ASSUME NEW k \in 1..(Len(chunks) + 1)
               PROVE  /\ chunks'[k][2] - chunks'[k][1] < MaxRunes
                      /\ \A i \in chunks'[k][1]..(chunks'[k][2] - 1) :
                           ~(Rune(i) = "newline" /\ Rune(i + 1) = "newline")
    BY <1>5, <1>8 DEF ChunksFit
  <2>1. CASE k \in 1..Len(chunks)
    BY <1>5, <2>1 DEF ChunksFit
  <2>2. CASE k = Len(chunks) + 1
    <3>1. t[2] - t[1] < MaxRunes
      BY <1>2, <1>3
    <3>2. \A i \in t[1]..(t[2] - 1) : i \in a..(b - 1)
      BY <1>2
    <3> QED BY <1>5, <2>2, <3>1, <3>2 DEF OneParagraph
  <2> QED BY <1>5, <2>1, <2>2
<1>10. \A k \in 1..Len(chunks) : chunks[k][2] < a
  BY <1>5 DEF EndBefore
<1>11. Ordered'
  <2> SUFFICES ASSUME NEW k \in 1..(Len(chunks) + 1), NEW l \in 1..(Len(chunks) + 1), k < l
               PROVE  chunks'[k][2] < chunks'[l][1]
    BY <1>5 DEF Ordered
  <2>1. k \in 1..Len(chunks)
    BY <1>5
  <2>2. CASE l \in 1..Len(chunks)
    BY <1>5, <2>1, <2>2 DEF Ordered
  <2>3. CASE l = Len(chunks) + 1
    <3>1. chunks[k][2] < t[1]
      BY <1>2, <1>7, <1>10, <2>1
    <3> QED BY <1>5, <2>1, <2>3, <3>1
  <2> QED BY <1>5, <2>2, <2>3
<1>12. \A k \in DOMAIN chunks' : chunks'[k][2] <= b
  <2> SUFFICES ASSUME NEW k \in 1..(Len(chunks) + 1) PROVE chunks'[k][2] <= b
    BY <1>5
  <2>1. CASE k \in 1..Len(chunks)
    <3>1. chunks[k][2] < a /\ chunks[k][2] \in Nat
      BY <1>7, <1>10, <2>1
    <3> QED BY <1>5, <2>1, <3>1
  <2>2. CASE k = Len(chunks) + 1
    BY <1>2, <1>5, <2>2
  <2> QED BY <1>5, <2>1, <2>2
<1>13. \A i : Covered(i) \/ i \in Ink(a, b) => Covered(i)'
  <2>1. 1..Len(chunks) \subseteq 1..(Len(chunks) + 1)
        /\ Len(chunks) + 1 \in 1..(Len(chunks) + 1)
    BY <1>5
  <2> QED BY <1>2, <1>5, <2>1 DEF Covered
<1> QED BY <1>5, <1>9, <1>11, <1>12, <1>13 DEF Places

LEMMA ParagraphFacts ==
  ASSUME TextOK, rest <= Len(text)
  PROVE  /\ ParagraphEnd \in (rest - 1)..Len(text) /\ OneParagraph(rest, ParagraphEnd)
         /\ \A i \in Ink(1, Len(text)) : i < ParagraphEnd + 3 => i <= ParagraphEnd
<1>1. rest \in Nat \ {0} /\ Len(text) \in Nat /\ \A i \in Ink(1, Len(text)) : i \in 1..Len(text)
  BY DEF TextOK, Ink
<1>2. CASE Breaks = {}
  <2>1. ParagraphEnd = Len(text)
    BY <1>2 DEF ParagraphEnd
  <2>2. OneParagraph(rest, Len(text))
    BY <1>2 DEF Breaks, OneParagraph
  <2> QED BY <1>1, <2>1, <2>2
<1>3. CASE Breaks # {}
  <2>1. PICK m : m = Least(Breaks)
    OBVIOUS
  <2>2. Breaks \in SUBSET Nat
    BY <1>1 DEF Breaks
  <2>3. m \in Breaks /\ \A i \in Breaks : m <= i
    BY <1>3, <2>1, <2>2, LeastIs
  <2>4. /\ ParagraphEnd = m - 1 /\ m \in rest..(Len(text) - 1)
        /\ Rune(m) = "newline" /\ Rune(m + 1) = "newline"
    BY <1>3, <2>1, <2>3 DEF ParagraphEnd, Breaks
  <2>5. \A i \in rest..(m - 2) : i \notin Breaks
    BY <1>1, <2>3, <2>4
  <2>6. \A i \in rest..(m - 2) : i \in rest..(Len(text) - 1)
    BY <1>1, <2>4
  <2>7. OneParagraph(rest, m - 1)
    <3>1. (m - 1) - 1 = m - 2
      BY <1>1, <2>4
    <3>2. \A i \in rest..(m - 2) : ~(Rune(i) = "newline" /\ Rune(i + 1) = "newline")
      BY <2>5, <2>6 DEF Breaks
    <3> QED BY <3>1, <3>2 DEF OneParagraph
  <2>8. \A i \in Ink(1, Len(text)) : i # m /\ i # m + 1
    BY <2>4 DEF Ink, Space
  <2>9. \A i \in Ink(1, Len(text)) : i < m + 2 => i <= m - 1
    BY <1>1, <2>4, <2>8
  <2>10. ParagraphEnd \in (rest - 1)..Len(text) /\ ParagraphEnd + 3 = m + 2
    BY <1>1, <2>4
  <2> QED BY <2>4, <2>7, <2>9, <2>10
<1> QED BY <1>2, <1>3

\* Steps that leave text and chunks alone.
LEMMA SameChunks ==
  ASSUME ChunkingInv, doc' = doc, text' = text, chunks' = chunks
  PROVE  /\ chunks' \in Seq((1..(Len(text') + 1)) \X (0..Len(text')))
         /\ ChunksFit' /\ Ordered' /\ \A i : Covered(i)' <=> Covered(i)
  BY SameText DEF ChunkingInv, TextOK, ChunksFit, ChunksSound, Ordered, Covered

LEMMA SplitKeeps ==
  ASSUME ChunkingInv, Split
  PROVE  ChunkingInv'
<1>1. PICK p, t : p = ParagraphEnd /\ t = TrimSpace(rest, p)
  OBVIOUS
<1>2. /\ stage = "split" /\ rest <= Len(text) /\ from' = t[1] /\ to' = t[2]
      /\ stage' = (IF from' > to' THEN "split" ELSE "cut") /\ rest' = p + 3
      /\ doc' = doc /\ read' = read /\ inTag' = inTag /\ text' = text /\ chunks' = chunks
  BY <1>1 DEF Split
<1>3. /\ p \in (rest - 1)..Len(text) /\ OneParagraph(rest, p)
      /\ \A i \in Ink(1, Len(text)) : i < p + 3 => i <= p
  BY <1>1, <1>2, ParagraphFacts DEF ChunkingInv
<1>4. rest \in Nat \ {0} /\ Len(text) \in Nat /\ p \in Nat
  <2>1. rest \in Nat \ {0} /\ Len(text) \in Nat
    BY DEF ChunkingInv, TextOK
  <2> QED BY <1>3, <2>1
<1>5. /\ t[1] \in rest..(p + 1) /\ t[2] \in (rest - 1)..p
      /\ t[1] <= t[2] <=> Ink(rest, p) # {}
      /\ \A i \in Ink(rest, p) : i \in t[1]..t[2]
  BY <1>1, <1>3, <1>4, TrimFacts
<1>6. TextOK'
  <2>1. rest' \in Nat \ {0} /\ from' \in Nat \ {0} /\ to' \in 0..Len(text)
    BY <1>2, <1>3, <1>4, <1>5
  <2>2. stage' \in {"extract", "strip", "split", "cut", "done", "failed"}
    BY <1>2
  <2> QED BY <1>2, <2>1, <2>2 DEF ChunkingInv, TextOK
<1>7. Beginning' /\ StripSound'
  <2>1. stage' \in {"split", "cut"}
    BY <1>2
  <2> QED BY <1>2, <2>1, SameText DEF ChunkingInv, Beginning, StripSound
<1>8. ChunksFit' /\ Ordered' /\ \A i : Covered(i)' <=> Covered(i)
  BY <1>2, SameChunks
<1>9. /\ EndBefore(rest) /\ \A i \in Ink(1, Len(text)) : i < rest => Covered(i)
      /\ \A k \in DOMAIN chunks : chunks[k][2] \in Nat
  <2>1. \A k \in DOMAIN chunks : chunks[k] \in (1..(Len(text) + 1)) \X (0..Len(text))
    BY DEF ChunkingInv, TextOK
  <2>2. \A k \in DOMAIN chunks : chunks[k][2] \in Nat
    BY <1>4, <2>1
  <2> QED BY <1>2, <2>2 DEF ChunkingInv, ChunksSound
<1>10. Ink(1, Len(text))' = Ink(1, Len(text))
  BY <1>2 DEF Ink, Rune
<1>11. \A i \in Ink(1, Len(text)) : i < p + 3 => i < rest \/ i \in Ink(rest, p)
  BY <1>3, <1>4 DEF Ink
<1>12. Ink(rest, p) \subseteq Ink(1, Len(text))
  BY <1>3, <1>4 DEF Ink
<1>13. CASE t[1] <= t[2]
  <2>1. stage' = "cut"
    BY <1>2, <1>3, <1>4, <1>5, <1>13
  <2>2. \A k \in DOMAIN chunks' : chunks'[k][2] < from'
    BY <1>2, <1>3, <1>4, <1>5, <1>9 DEF EndBefore
  <2>3. \A i \in from'..(to' - 1) : ~(Rune(i) = "newline" /\ Rune(i + 1) = "newline")'
    <3>1. \A i \in t[1]..(t[2] - 1) : i \in rest..(p - 1)
      BY <1>3, <1>4, <1>5
    <3>2. \A i \in t[1]..(t[2] - 1) : ~(Rune(i) = "newline" /\ Rune(i + 1) = "newline")
      BY <1>3, <3>1 DEF OneParagraph
    <3> QED BY <1>2, <3>2 DEF Rune
  <2>4. \A i \in Ink(1, Len(text)) : i < rest' => Covered(i) \/ i \in from'..to'
    BY <1>2, <1>5, <1>9, <1>11
  <2>5. from' <= to' /\ to' < rest' /\ Ink(1, Len(text)) # {}
    BY <1>2, <1>3, <1>4, <1>5, <1>12, <1>13
  <2>6. ChunksSound'
    BY <1>8, <1>10, <2>1, <2>2, <2>3, <2>4, <2>5
    DEF ChunksSound, Ordered, EndBefore, OneParagraph
  <2> QED BY <1>6, <1>7, <1>8, <2>6 DEF ChunkingInv
<1>14. CASE ~(t[1] <= t[2])
  <2>1. stage' = "split" /\ Ink(rest, p) = {}
    BY <1>2, <1>3, <1>4, <1>5, <1>14
  <2>2. \A k \in DOMAIN chunks' : chunks'[k][2] < rest'
    BY <1>2, <1>3, <1>4, <1>9 DEF EndBefore
  <2>3. \A i \in Ink(1, Len(text)) : i < rest' => Covered(i)
    BY <1>2, <1>9, <1>11, <2>1
  <2>4. chunks' # <<>> => Ink(1, Len(text)) # {}
    BY <1>2 DEF ChunkingInv, ChunksSound
  <2>5. ChunksSound'
    BY <1>8, <1>10, <2>1, <2>2, <2>3, <2>4 DEF ChunksSound, Ordered, EndBefore
  <2> QED BY <1>6, <1>7, <1>8, <2>5 DEF ChunkingInv
<1> QED BY <1>13, <1>14

LEMMA CutKeeps ==
  ASSUME ChunkingInv, Cut \/ CutLast
  PROVE  ChunkingInv'
<1>1. PICK a, b : a = from /\ b = IF Cut THEN from + MaxRunes - 1 ELSE to
  OBVIOUS
<1>2. /\ from \in Nat \ {0} /\ to \in Nat /\ to <= Len(text) /\ Len(text) \in Nat
      /\ MaxRunes \in Nat \ {0} /\ rest \in Nat \ {0}
  <2>1. text \in Seq(1..Len(doc.runes)) /\ to \in 0..Len(text)
    BY DEF ChunkingInv, TextOK
  <2>2. Len(text) \in Nat
    BY <2>1
  <2> QED BY <2>1, <2>2, ChunkingAssumption DEF ChunkingInv, TextOK
<1>3. /\ stage = "cut" /\ doc' = doc /\ read' = read /\ inTag' = inTag /\ text' = text
      /\ rest' = rest /\ to' = to /\ chunks' = Append(chunks, TrimSpace(a, b))
  BY <1>1 DEF Cut, CutLast
<1>4. /\ from <= to /\ to < rest /\ EndBefore(a) /\ OneParagraph(a, to) /\ Ordered
      /\ \A i \in Ink(1, Len(text)) : i < rest => Covered(i) \/ i \in from..to
      /\ Ink(1, Len(text)) # {}
  BY <1>1, <1>3 DEF ChunkingInv, ChunksSound, Ordered
<1>5. /\ a \in Nat \ {0} /\ b \in Nat /\ a <= b /\ b <= to /\ b - a < MaxRunes
      /\ Cut => stage' = "cut" /\ from' = b + 1 /\ b < to
      /\ ~Cut => stage' = "split" /\ from' = from /\ b = to
  <2>1. CASE Cut
    <3>1. /\ to - from + 1 > MaxRunes /\ b = from + MaxRunes - 1 /\ stage' = stage
          /\ from' = from + MaxRunes
      BY <1>1, <2>1 DEF Cut
    <3> QED BY <1>1, <1>2, <1>3, <2>1, <3>1
  <2>2. CASE ~Cut
    <3>1. to - from + 1 <= MaxRunes /\ b = to /\ stage' = "split" /\ from' = from
      BY <1>1, <2>2 DEF CutLast
    <3> QED BY <1>1, <1>2, <1>4, <2>2, <3>1
  <2> QED BY <2>1, <2>2
<1>6. OneParagraph(a, b)
  <2>1. \A i \in a..(b - 1) : i \in a..(to - 1)
    BY <1>2, <1>5
  <2> QED BY <1>4, <2>1 DEF OneParagraph
<1>7. /\ chunks' \in Seq((1..(Len(text) + 1)) \X (0..Len(text))) /\ chunks' # <<>>
      /\ ChunksFit' /\ Ordered'
      /\ \A k \in DOMAIN chunks' : chunks'[k][2] <= b
      /\ \A i : Covered(i) \/ i \in Ink(a, b) => Covered(i)'
  <2>1. b <= Len(text)
    BY <1>2, <1>5
  <2> QED BY <1>3, <1>4, <1>5, <1>6, <2>1, ChunkAdded DEF ChunkingInv
<1>8. /\ Ink(1, Len(text))' = Ink(1, Len(text))
      /\ \A i \in Ink(1, Len(text)) : i \in a..b => i \in Ink(a, b)
  BY <1>3 DEF Ink, Rune
<1>9. TextOK'
  <2>1. stage' \in {"extract", "strip", "split", "cut", "done", "failed"}
    BY <1>5
  <2>2. from' \in Nat \ {0} /\ to' \in 0..Len(text)
    BY <1>2, <1>3, <1>5
  <2> QED BY <1>3, <1>7, <2>1, <2>2 DEF ChunkingInv, TextOK
<1>10. Beginning' /\ StripSound'
  <2>1. stage' \in {"split", "cut"}
    BY <1>5
  <2> QED BY <1>3, <2>1, SameText DEF ChunkingInv, Beginning, StripSound
<1>11. \A k \in DOMAIN chunks' : chunks'[k][2] \in Nat
  <2>1. \A k \in DOMAIN chunks' : chunks'[k] \in (1..(Len(text) + 1)) \X (0..Len(text))
    BY <1>7
  <2> QED BY <1>2, <2>1
<1>12. CASE Cut
  <2>1. \A k \in DOMAIN chunks' : chunks'[k][2] < from'
    BY <1>5, <1>7, <1>11, <1>12
  <2>2. \A i \in from'..(to' - 1) : ~(Rune(i) = "newline" /\ Rune(i + 1) = "newline")'
    <3>1. \A i \in (b + 1)..(to - 1) : i \in a..(to - 1)
      BY <1>2, <1>5
    <3>2. \A i \in (b + 1)..(to - 1) : ~(Rune(i) = "newline" /\ Rune(i + 1) = "newline")
      BY <1>4, <3>1 DEF OneParagraph
    <3> QED BY <1>3, <1>5, <1>12, <3>2 DEF Rune
  <2>3. \A i \in Ink(1, Len(text)) : i < rest => Covered(i)' \/ i \in from'..to'
    <3> SUFFICES ASSUME NEW i \in Ink(1, Len(text)), i < rest
                 PROVE  Covered(i)' \/ i \in from'..to'
      OBVIOUS
    <3>1. Covered(i) \/ i \in a..b \/ i \in (b + 1)..to
      BY <1>1, <1>2, <1>4, <1>5
    <3> QED BY <1>3, <1>5, <1>7, <1>8, <1>12, <3>1
  <2>4. from' <= to' /\ to' < rest' /\ stage' = "cut"
    BY <1>2, <1>3, <1>4, <1>5, <1>12
  <2>5. ChunksSound'
    BY <1>3, <1>4, <1>7, <1>8, <2>1, <2>2, <2>3, <2>4
    DEF ChunksSound, Ordered, EndBefore, OneParagraph
  <2> QED BY <1>7, <1>9, <1>10, <2>5 DEF ChunkingInv
<1>13. CASE ~Cut
  <2>1. \A k \in DOMAIN chunks' : chunks'[k][2] < rest'
    <3>1. b < rest' /\ rest' \in Nat
      BY <1>2, <1>3, <1>4, <1>5, <1>13
    <3> QED BY <1>5, <1>7, <1>11, <3>1
  <2>2. \A i \in Ink(1, Len(text)) : i < rest => Covered(i)'
    BY <1>1, <1>4, <1>5, <1>7, <1>8, <1>13
  <2>3. ChunksSound'
    BY <1>3, <1>4, <1>5, <1>7, <1>8, <1>13, <2>1, <2>2 DEF ChunksSound, Ordered, EndBefore
  <2> QED BY <1>7, <1>9, <1>10, <2>3 DEF ChunkingInv
<1> QED BY <1>12, <1>13

\* A text with something in it has a chunk by now: the last return of chunkText
\* that makes one (pipeline.go:358) is never reached with anything to cut.
LEMMA ReturnKeeps ==
  ASSUME ChunkingInv, Return
  PROVE  ChunkingInv'
<1>1. /\ stage = "split" /\ rest > Len(text) /\ stage' = "done" /\ doc' = doc /\ read' = read
      /\ inTag' = inTag /\ text' = text /\ rest' = rest /\ from' = from /\ to' = to
  BY DEF Return
<1>2. \A i \in Ink(1, Len(text)) : i < rest
  BY <1>1 DEF ChunkingInv, TextOK, Ink
<1>3. \A i \in Ink(1, Len(text)) : Covered(i)
  BY <1>1, <1>2 DEF ChunkingInv, ChunksSound
<1>4. chunks' = chunks
  <2>1. chunks = <<>> => Ink(1, Len(text)) = {}
    BY <1>3 DEF Covered
  <2> QED BY <2>1 DEF Return
<1>5. ChunksFit' /\ Ordered' /\ \A i : Covered(i)' <=> Covered(i)
  BY <1>1, <1>4, SameChunks
<1>6. Ink(1, Len(text))' = Ink(1, Len(text))
  BY <1>1 DEF Ink, Rune
<1>7. ChunksSound'
  BY <1>1, <1>3, <1>4, <1>5, <1>6 DEF ChunkingInv, ChunksSound, Ordered
<1>8. TextOK'
  <2>1. stage' \in {"extract", "strip", "split", "cut", "done", "failed"}
    BY <1>1
  <2> QED BY <1>1, <1>4, <2>1 DEF ChunkingInv, TextOK
<1>9. Beginning' /\ StripSound'
  BY <1>1, SameText DEF ChunkingInv, Beginning, StripSound
<1> QED BY <1>5, <1>7, <1>8, <1>9 DEF ChunkingInv

LEMMA StripEndsKeeps ==
  ASSUME ChunkingInv, StripEnds
  PROVE  ChunkingInv'
<1>1. /\ stage = "strip" /\ stage' = "split" /\ doc' = doc /\ read' = read /\ inTag' = inTag
      /\ text' = text /\ rest' = rest /\ from' = from /\ to' = to /\ chunks' = chunks
      /\ read = Len(doc.runes) /\ chunks = <<>> /\ rest = 1
  BY DEF StripEnds, ChunkingInv, Beginning
<1>2. TextOK'
  <2>1. stage' \in {"extract", "strip", "split", "cut", "done", "failed"}
    BY <1>1
  <2> QED BY <1>1, <2>1 DEF ChunkingInv, TextOK
<1>3. Extracted(Len(doc.runes))'
  BY <1>1 DEF ChunkingInv, StripSound, Extracted, Outside
<1>4. Beginning' /\ StripSound'
  BY <1>1, <1>3 DEF Beginning, StripSound
<1>5. \A i \in Ink(1, Len(text)) : ~(i < 1)
  BY DEF Ink, ChunkingInv, TextOK
<1>6. Ink(1, Len(text))' = Ink(1, Len(text))
  BY <1>1 DEF Ink, Rune
<1>7. ChunksSound' /\ ChunksFit'
  BY <1>1, <1>5, <1>6 DEF ChunksSound, ChunksFit, EndBefore
<1> QED BY <1>2, <1>4, <1>7 DEF ChunkingInv

LEMMA ExtractKeeps ==
  ASSUME ChunkingInv, Extract
  PROVE  ChunkingInv'
<1>1. /\ stage = "extract" /\ doc' = doc /\ read' = read /\ inTag' = inTag /\ rest' = rest
      /\ from' = from /\ to' = to /\ chunks' = chunks
      /\ chunks = <<>> /\ rest = 1 /\ read = 0 /\ inTag = FALSE /\ text = <<>>
  BY DEF Extract, ChunkingInv, Beginning
<1>2. /\ doc.runes \in Seq(Runes) /\ Len(doc.runes) \in Nat
      /\ from \in Nat \ {0} /\ to = 0
  <2>1. to \in 0..Len(text) /\ Len(text) = 0 /\ doc \in Documents /\ from \in Nat \ {0}
    BY <1>1 DEF ChunkingInv, TextOK
  <2>2. doc.runes \in Seq(Runes)
    BY <2>1, ChunkingAssumption
  <2> QED BY <2>1, <2>2
<1>3. /\ text' \in Seq(1..Len(doc.runes)) /\ Len(text') \in Nat
      /\ stage' = "strip" => text' = <<>> /\ doc.format = "html"
      /\ stage' = "split" => doc.format = "plain"
      /\ stage' \in {"strip", "split", "failed"}
  <2>1. CASE /\ doc.format = "plain" /\ stage' = "split"
             /\ text' = [i \in 1..Len(doc.runes) |-> i]
    <3>1. [i \in 1..Len(doc.runes) |-> i] \in Seq(1..Len(doc.runes))
      BY <1>2
    <3>2. text' \in Seq(1..Len(doc.runes))
      BY <2>1, <3>1
    <3> QED BY <2>1, <3>2
  <2>2. CASE stage' \in {"strip", "failed"} /\ text' = <<>> /\ (stage' = "strip" => doc.format = "html")
    BY <2>2
  <2> QED BY <1>1, <2>1, <2>2 DEF Extract
<1>4. TextOK'
  <2>1. to' \in 0..Len(text')
    BY <1>1, <1>2, <1>3
  <2>2. chunks' \in Seq((1..(Len(text') + 1)) \X (0..Len(text')))
    BY <1>1
  <2>3. stage' \in {"extract", "strip", "split", "cut", "done", "failed"}
    BY <1>3
  <2> QED BY <1>1, <1>2, <1>3, <2>1, <2>2, <2>3 DEF ChunkingInv, TextOK
<1>5. stage' = "strip" => /\ Extracted(0)'
                      /\ ~\E b \in 1..read' : doc.runes[b] = "<"
  BY <1>1, <1>3 DEF Extracted
<1>6. Beginning' /\ StripSound'
  BY <1>1, <1>3, <1>5 DEF Beginning, StripSound
<1>7. \A i \in Ink(1, Len(text))' : ~(i < 1)
  BY <1>3 DEF Ink
<1>8. ChunksSound' /\ ChunksFit'
  BY <1>1, <1>3, <1>7 DEF ChunksSound, ChunksFit, EndBefore
<1> QED BY <1>4, <1>6, <1>8 DEF ChunkingInv

-----------------------------------------------------------------------------
(* Theorems. *)

\* ChunkingInv is an invariant of extractText and chunkText (pipeline.go:303-364).
THEOREM ChunkingInvariance == TextSpec => []ChunkingInv
<1>1. ChunkingInv /\ [TextNext]_textVars => ChunkingInv'
  <2> SUFFICES ASSUME ChunkingInv, [TextNext]_textVars PROVE ChunkingInv'
    OBVIOUS
  <2>1. CASE UNCHANGED textVars
    <3>1. TextOK'
      BY <2>1 DEF textVars, ChunkingInv, TextOK
    <3>2. Beginning' /\ StripSound'
      BY <2>1 DEF textVars, ChunkingInv, Beginning, StripSound, Extracted, Outside
    <3>3. ChunksFit' /\ Ordered' /\ \A i : Covered(i)' <=> Covered(i)
      BY <2>1, SameChunks DEF textVars
    <3>4. ChunksSound'
      BY <2>1, <3>3 DEF textVars, ChunkingInv, ChunksSound, Ordered, EndBefore, OneParagraph,
         Ink, Rune
    <3> QED BY <3>1, <3>2, <3>3, <3>4 DEF ChunkingInv
  <2> QED
    BY <2>1, ExtractKeeps, StripKeeps, StripEndsKeeps, SplitKeeps, CutKeeps, ReturnKeeps
    DEF TextNext
<1> QED BY <1>1, InitSound, PTL DEF TextSpec

\* Every variable keeps its type.
THEOREM ChunkingTypes == TextSpec => []TextOK
<1>1. ChunkingInv => TextOK
  BY DEF ChunkingInv
<1> QED BY <1>1, ChunkingInvariance, PTL

\* A page gives what stands outside its tags (pipeline.go:323-342), however its
\* brackets pair.
THEOREM TextsOutsideTags == TextSpec => []TextOutsideTags
<1>1. ChunkingInv => TextOutsideTags
  <2> SUFFICES ASSUME ChunkingInv, stage \notin {"extract", "strip", "failed"},
                      doc.format = "html"
               PROVE  /\ \A i, j \in DOMAIN text : i < j => text[i] < text[j]
                      /\ \A p \in DOMAIN doc.runes :
                           Outside(p) <=> \E i \in DOMAIN text : text[i] = p
    BY DEF TextOutsideTags
  <2>1. stage \in {"split", "cut", "done"} /\ doc.runes \in Seq(Runes)
    BY ChunkingAssumption DEF ChunkingInv, TextOK
  <2>2. Extracted(Len(doc.runes)) /\ DOMAIN doc.runes = 1..Len(doc.runes)
    BY <2>1 DEF ChunkingInv, StripSound
  <2> QED BY <2>2 DEF Extracted
<1> QED BY <1>1, ChunkingInvariance, PTL

\* No chunk is too long or runs from one paragraph into the next
\* (pipeline.go:344-356).
THEOREM ChunksAlwaysFit == TextSpec => []ChunksFit
<1>1. ChunkingInv => ChunksFit
  BY DEF ChunkingInv
<1> QED BY <1>1, ChunkingInvariance, PTL

\* Chunks are in order, and between them nothing but space is left out.
THEOREM ChunksLoseNothing == TextSpec => []NothingLost
<1>1. ChunkingInv => NothingLost
  BY DEF ChunkingInv, ChunksSound, NothingLost, Covered
<1> QED BY <1>1, ChunkingInvariance, PTL

-----------------------------------------------------------------------------
(* The end of extractText and chunkText. *)

\* A bound of the passes left: of a page its runes are read and then its text is
\* split, and what is cut off a paragraph is before rest.
PassesLeft ==
  CASE stage = "extract" -> 2 * Len(doc.runes) + 5
    [] stage = "strip"   -> 2 * Len(doc.runes) + 4 - read
    [] stage = "split"   -> Len(text) + 4 - rest
    [] stage = "cut"     -> Len(text) + 5 - rest + to - from
    [] OTHER             -> 0

LengthsSound ==
  /\ Len(text) <= Len(doc.runes)
  /\ stage = "strip" => Len(text) <= read
  /\ stage \in {"split", "cut"} => rest <= Len(text) + 3

LEMMA Lengths ==
  ASSUME ChunkingInv
  PROVE  /\ Len(doc.runes) \in Nat /\ read \in 0..Len(doc.runes) /\ Len(text) \in Nat
         /\ rest \in Nat \ {0} /\ from \in Nat \ {0} /\ to \in 0..Len(text)
         /\ stage = "strip" => rest = 1
         /\ stage = "cut" => from <= to
         /\ stage \in {"extract", "strip", "split", "cut", "done", "failed"}
<1>1. doc.runes \in Seq(Runes)
  BY ChunkingAssumption DEF ChunkingInv, TextOK
<1> QED BY <1>1 DEF ChunkingInv, TextOK, Beginning, ChunksSound

LEMMA PassesLeftBounded ==
  ASSUME ChunkingInv, LengthsSound
  PROVE  PassesLeft \in 0..(2 * Len(doc.runes) + 5)
<1>1. CASE stage = "extract"
  BY <1>1, Lengths DEF PassesLeft
<1>2. CASE stage = "strip"
  BY <1>2, Lengths DEF PassesLeft
<1>3. CASE stage = "split"
  BY <1>3, Lengths DEF PassesLeft, LengthsSound
<1>4. CASE stage = "cut"
  <2>1. to < rest
    BY <1>4 DEF ChunkingInv, ChunksSound
  <2> QED BY <1>4, <2>1, Lengths DEF PassesLeft, LengthsSound
<1>5. CASE stage \in {"done", "failed"}
  BY <1>5, Lengths DEF PassesLeft
<1> QED BY <1>1, <1>2, <1>3, <1>4, <1>5, Lengths

LEMMA ExtractCounts ==
  ASSUME ChunkingInv, Extract
  PROVE  LengthsSound' /\ PassesLeft' < PassesLeft
<1>1. /\ stage = "extract" /\ text = <<>> /\ read = 0 /\ rest = 1 /\ Len(doc.runes) \in Nat
      /\ doc' = doc /\ read' = read /\ rest' = rest /\ PassesLeft = 2 * Len(doc.runes) + 5
  BY Lengths DEF Extract, ChunkingInv, Beginning, PassesLeft
<1>2. CASE stage' = "split" /\ text' = [i \in 1..Len(doc.runes) |-> i]
  <2>1. Len(text') = Len(doc.runes)
    BY <1>1, <1>2
  <2> QED BY <1>1, <1>2, <2>1 DEF LengthsSound, PassesLeft
<1>3. CASE stage' = "strip" /\ text' = text
  <2>1. Len(text') = 0
    BY <1>1, <1>3
  <2> QED BY <1>1, <1>3, <2>1 DEF LengthsSound, PassesLeft
<1>4. CASE stage' = "failed" /\ text' = text
  BY <1>1, <1>4 DEF LengthsSound, PassesLeft
<1> QED BY <1>2, <1>3, <1>4 DEF Extract

LEMMA StripCounts ==
  ASSUME ChunkingInv, LengthsSound, Strip
  PROVE  LengthsSound' /\ PassesLeft' < PassesLeft
<1>1. /\ stage = "strip" /\ stage' = "strip" /\ read' = read + 1 /\ doc' = doc
      /\ Len(doc.runes) \in Nat /\ read \in Nat /\ read < Len(doc.runes) /\ Len(text) <= read
      /\ text \in Seq(1..Len(doc.runes))
      /\ text' = text \/ text' = Append(text, read + 1)
  BY Lengths DEF Strip, LengthsSound, ChunkingInv, TextOK
<1>2. Len(text') \in Nat /\ Len(text') <= read'
  BY <1>1
<1> QED BY <1>1, <1>2 DEF LengthsSound, PassesLeft

LEMMA StripEndCounts ==
  ASSUME ChunkingInv, LengthsSound, StripEnds
  PROVE  LengthsSound' /\ PassesLeft' < PassesLeft
<1>1. /\ stage = "strip" /\ stage' = "split" /\ doc' = doc /\ text' = text /\ rest' = rest
      /\ read = Len(doc.runes) /\ Len(text) <= read
  BY DEF StripEnds, LengthsSound
<1> QED BY <1>1, Lengths DEF LengthsSound, PassesLeft

\* At least the two newlines after a paragraph are left behind.
LEMMA SplitCounts ==
  ASSUME ChunkingInv, LengthsSound, Split
  PROVE  LengthsSound' /\ PassesLeft' < PassesLeft
<1>1. PICK p, t : p = ParagraphEnd /\ t = TrimSpace(rest, p)
  OBVIOUS
<1>2. /\ stage = "split" /\ rest <= Len(text) /\ from' = t[1] /\ to' = t[2]
      /\ stage' = (IF from' > to' THEN "split" ELSE "cut") /\ rest' = p + 3
      /\ doc' = doc /\ text' = text
  BY <1>1 DEF Split
<1>3. /\ rest \in Nat \ {0} /\ Len(text) \in Nat /\ p \in (rest - 1)..Len(text)
  BY <1>1, <1>2, ParagraphFacts, Lengths DEF ChunkingInv
<1>4. t[1] \in rest..(p + 1) /\ t[2] \in (rest - 1)..p
  BY <1>1, <1>3, TrimFacts
<1>5. LengthsSound'
  BY <1>2, <1>3, Lengths DEF LengthsSound
<1>6. PassesLeft = Len(text) + 4 - rest
  BY <1>2 DEF PassesLeft
<1>7. PassesLeft' = IF t[1] > t[2] THEN Len(text) + 4 - (p + 3)
                    ELSE Len(text) + 5 - (p + 3) + t[2] - t[1]
  BY <1>2, <1>3, <1>4 DEF PassesLeft
<1> QED BY <1>3, <1>4, <1>5, <1>6, <1>7

LEMMA CutCounts ==
  ASSUME ChunkingInv, LengthsSound, Cut \/ CutLast
  PROVE  LengthsSound' /\ PassesLeft' < PassesLeft
<1>1. /\ stage = "cut" /\ doc' = doc /\ text' = text /\ rest' = rest /\ to' = to
      /\ \/ stage' = "cut" /\ from' = from + MaxRunes
         \/ stage' = "split"
  BY DEF Cut, CutLast
<1>2. MaxRunes \in Nat \ {0}
  BY ChunkingAssumption
<1> QED BY <1>1, <1>2, Lengths DEF LengthsSound, PassesLeft

LEMMA ReturnCounts ==
  ASSUME ChunkingInv, LengthsSound, Return
  PROVE  LengthsSound' /\ PassesLeft' < PassesLeft
<1>1. stage = "split" /\ stage' = "done" /\ doc' = doc /\ text' = text
  BY DEF Return
<1> QED BY <1>1, Lengths DEF LengthsSound, PassesLeft

\* extractText and chunkText come to an end (pipeline.go:303-364): each pass of
\* their loops lowers a number that is at most twice the runes of the source and
\* five, however blank the paragraphs and however the windows fall.
THEOREM ChunkingEnds ==
  TextSpec => [](PassesLeft \in 0..(2 * Len(doc.runes) + 5))
                /\ [][PassesLeft' < PassesLeft]_textVars
<1>1. TextInit => LengthsSound
  BY ChunkingAssumption DEF TextInit, LengthsSound
<1>2. ChunkingInv /\ LengthsSound /\ TextNext => LengthsSound' /\ PassesLeft' < PassesLeft
  BY ExtractCounts, StripCounts, StripEndCounts, SplitCounts, CutCounts, ReturnCounts
  DEF TextNext
<1>3. LengthsSound /\ UNCHANGED textVars => LengthsSound'
  BY DEF textVars, LengthsSound
<1>4. ChunkingInv /\ LengthsSound => PassesLeft \in 0..(2 * Len(doc.runes) + 5)
  BY PassesLeftBounded
<1> QED BY <1>1, <1>2, <1>3, <1>4, ChunkingInvariance, PTL DEF TextSpec

-----------------------------------------------------------------------------
(* CardContent: words and the overlap of their sets. *)

LEMMA RangeOf ==
  ASSUME NEW s, IsSequence(s)
  PROVE  /\ IsFiniteSet(Range(s)) /\ Cardinality(Range(s)) \in Nat
         /\ Cardinality(Range(s)) <= Len(s) /\ Len(s) \in Nat
<1>1. s \in Seq(Range(s)) /\ Len(s) \in Nat /\ DOMAIN s = 1..Len(s)
  BY DEF IsSequence
<1>2. IsFiniteSet(1..Len(s)) /\ Cardinality(1..Len(s)) = Len(s)
  BY <1>1, FS_Interval
<1>3. s \in Surjection(1..Len(s), Range(s))
  BY <1>1 DEF Surjection, Range
<1>4. IsFiniteSet(Range(s)) /\ Cardinality(Range(s)) <= Len(s)
  BY <1>2, <1>3, FS_Surjection
<1> QED BY <1>1, <1>4, FS_CardinalityType

LEMMA TokensOf ==
  ASSUME NEW s, IsSequence(s)
  PROVE  /\ IsFiniteSet(TokenSet(s)) /\ Cardinality(TokenSet(s)) \in Nat
         /\ Cardinality(TokenSet(s)) <= Len(s)
<1>1. IsFiniteSet(Range(s)) /\ Cardinality(Range(s)) <= Len(s)
      /\ Cardinality(Range(s)) \in Nat /\ Len(s) \in Nat
  BY RangeOf
<1>2. TokenSet(s) \in SUBSET Range(s)
  BY DEF TokenSet
<1>3. IsFiniteSet(TokenSet(s)) /\ Cardinality(TokenSet(s)) <= Cardinality(Range(s))
  BY <1>1, <1>2, FS_Subset
<1>4. Cardinality(TokenSet(s)) \in Nat
  BY <1>3, FS_CardinalityType
<1> QED BY <1>1, <1>3, <1>4

LEMMA RangeOfConcat ==
  ASSUME NEW s, NEW t, IsSequence(s), IsSequence(t)
  PROVE  IsSequence(s \o t) /\ Range(s \o t) = Range(s) \cup Range(t)
<1> DEFINE S == Range(s) \cup Range(t)
<1>1. s \in Seq(S) /\ t \in Seq(S)
  BY DEF IsSequence
<1>2. /\ s \o t \in Seq(S)
      /\ Len(s \o t) = Len(s) + Len(t)
      /\ \A i \in 1..(Len(s) + Len(t)) :
           (s \o t)[i] = IF i <= Len(s) THEN s[i] ELSE t[i - Len(s)]
  <2> HIDE DEF S
  <2> QED BY <1>1, ConcatProperties
<1>3. Len(s) \in Nat /\ Len(t) \in Nat
      /\ DOMAIN s = 1..Len(s) /\ DOMAIN t = 1..Len(t)
      /\ DOMAIN (s \o t) = 1..(Len(s) + Len(t))
  BY <1>1, <1>2
<1>4. Range(s) \subseteq Range(s \o t)
  <2> SUFFICES ASSUME NEW i \in DOMAIN s PROVE s[i] \in Range(s \o t)
    BY DEF Range
  <2>1. i \in DOMAIN (s \o t) /\ (s \o t)[i] = s[i]
    BY <1>2, <1>3
  <2> QED BY <2>1 DEF Range
<1>5. Range(t) \subseteq Range(s \o t)
  <2> SUFFICES ASSUME NEW i \in DOMAIN t PROVE t[i] \in Range(s \o t)
    BY DEF Range
  <2>1. (Len(s) + i) \in DOMAIN (s \o t) /\ (s \o t)[Len(s) + i] = t[i]
    BY <1>2, <1>3
  <2> QED BY <2>1 DEF Range
<1>6. Range(s \o t) \subseteq S
  BY <1>2 DEF Range
<1>7. Range(s \o t) = S
  BY <1>4, <1>5, <1>6
<1> QED BY <1>2, <1>7 DEF IsSequence

LEMMA RangeOfPrefix ==
  ASSUME NEW s, IsSequence(s), NEW n \in 0..Len(s)
  PROVE  IsSequence(SubSeq(s, 1, n)) /\ Range(SubSeq(s, 1, n)) \subseteq Range(s)
<1> DEFINE p == SubSeq(s, 1, n)
<1>1. s \in Seq(Range(s)) /\ Len(s) \in Nat
  BY DEF IsSequence
<1>2. Len(p) = n /\ DOMAIN p = 1..n /\ \A i \in 1..n : p[i] = s[i] /\ i \in DOMAIN s
  BY <1>1
<1>3. p = [i \in 1..n |-> s[i]]
  BY <1>1
<1>4. Range(p) \subseteq Range(s) /\ \A i \in 1..n : p[i] \in Range(p)
  <2> HIDE DEF p
  <2> QED BY <1>2 DEF Range
<1>5. p \in Seq(Range(p))
  <2>1. n \in Nat
    BY <1>1
  <2>2. p = [i \in 1..n |-> p[i]]
    BY <1>2, <1>3
  <2>3. p \in [1..n -> Range(p)]
    <3> HIDE DEF p
    <3> QED BY <1>4, <2>2
  <2> HIDE DEF p
  <2> QED BY <2>1, <2>3
<1> QED BY <1>4, <1>5 DEF IsSequence

-----------------------------------------------------------------------------
(* A quotation. *)

LEMMA QuotationIsGrounded ==
  ASSUME NEW c \in Chunks,
         TokenSet(SubSeq(Words[c], 1, Kept[c])) # {}
  PROVE  Overlaps(TokenSet(Quotation(c)), TokenSet(Words[c]))
<1> DEFINE p == SubSeq(Words[c], 1, Kept[c])
           K == TokenSet(p)
           A == TokenSet(Quotation(c))
           B == TokenSet(Words[c])
<1>1. /\ IsSequence(Words[c]) /\ IsSequence(Stub[c]) /\ IsSequence(Preamble)
      /\ Kept[c] \in 0..Len(Words[c])
      /\ Len(Preamble) <= 2 /\ Len(Stub[c]) <= 1
  BY ContentAssumption
<1>2. IsSequence(p) /\ Range(p) \subseteq Range(Words[c])
  BY <1>1, RangeOfPrefix
<1>3. /\ IsSequence(Preamble \o p) /\ Range(Preamble \o p) = Range(Preamble) \cup Range(p)
  <2> HIDE DEF p
  <2> QED BY <1>1, <1>2, RangeOfConcat
<1>4. /\ IsSequence(Quotation(c))
      /\ Range(Quotation(c)) = Range(Preamble) \cup Range(p) \cup Range(Stub[c])
  <2>1. Quotation(c) = (Preamble \o p) \o Stub[c]
    BY DEF Quotation
  <2> HIDE DEF p
  <2> QED BY <1>1, <1>3, <2>1, RangeOfConcat
<1>5. A = TokenSet(Preamble) \cup K \cup TokenSet(Stub[c])
  BY <1>4 DEF TokenSet
<1>6. K \subseteq A \cap B
  BY <1>2, <1>5 DEF TokenSet
<1>7. /\ IsFiniteSet(K) /\ Cardinality(K) \in Nat
      /\ IsFiniteSet(A) /\ Cardinality(A) \in Nat
      /\ IsFiniteSet(B) /\ Cardinality(B) \in Nat
  BY <1>1, <1>2, <1>4, TokensOf
<1> HIDE DEF p, K, A, B
<1>8. Cardinality(K) >= 1
  BY <1>7, FS_EmptySet DEF K, p
<1>9. Cardinality(A \cap B) \in Nat /\ Cardinality(A \cap B) >= Cardinality(K)
  <2>1. A \cap B \in SUBSET A
    OBVIOUS
  <2>2. IsFiniteSet(A \cap B)
    BY <1>7, <2>1, FS_Subset
  <2>3. K \in SUBSET (A \cap B)
    BY <1>6
  <2>4. Cardinality(K) <= Cardinality(A \cap B)
    BY <2>2, <2>3, FS_Subset
  <2> QED BY <1>7, <2>2, <2>4, FS_CardinalityType
<1>10. Cardinality(A) <= Cardinality(K) + 3
  <2> DEFINE P == TokenSet(Preamble)
             T == TokenSet(Stub[c])
  <2>1. /\ IsFiniteSet(P) /\ Cardinality(P) \in Nat /\ Cardinality(P) <= 2
        /\ IsFiniteSet(T) /\ Cardinality(T) \in Nat /\ Cardinality(T) <= 1
    <3>1. Len(Preamble) \in Nat /\ Len(Stub[c]) \in Nat
      BY <1>1 DEF IsSequence
    <3> QED BY <1>1, <3>1, TokensOf
  <2>2. A = (P \cup K) \cup T
    BY <1>5
  <2> HIDE DEF P, T
  <2>3. IsFiniteSet(P \cup K) /\ IsFiniteSet(P \cap K) /\ IsFiniteSet((P \cup K) \cap T)
    <3>1. IsFiniteSet(P \cup K)
      BY <1>7, <2>1, FS_Union
    <3>2. P \cap K \in SUBSET P /\ (P \cup K) \cap T \in SUBSET T
      OBVIOUS
    <3> QED BY <2>1, <3>1, <3>2, FS_Subset
  <2>4. /\ Cardinality(P \cup K) \in Nat /\ Cardinality(P \cap K) \in Nat
        /\ Cardinality((P \cup K) \cap T) \in Nat
    BY <2>3, FS_CardinalityType
  <2>5. Cardinality(P \cup K) = Cardinality(P) + Cardinality(K) - Cardinality(P \cap K)
    BY <1>7, <2>1, FS_Union
  <2>6. Cardinality(A) = Cardinality(P \cup K) + Cardinality(T) - Cardinality((P \cup K) \cap T)
    BY <2>1, <2>2, <2>3, FS_Union
  <2> QED BY <1>7, <2>1, <2>4, <2>5, <2>6
<1>11. A # {} /\ B # {}
  BY <1>6, <1>7, <1>8, FS_EmptySet
<1>12. /\ Smaller(Cardinality(A), Cardinality(B)) <= Cardinality(A)
       /\ Smaller(Cardinality(A), Cardinality(B)) \in Nat
  BY <1>7 DEF Smaller
<1>13. 100 * Cardinality(A \cap B) >= 12 * Smaller(Cardinality(A), Cardinality(B))
  BY <1>7, <1>8, <1>9, <1>10, <1>12
<1>14. Overlaps(A, B)
  BY <1>11, <1>13 DEF Overlaps
<1> QED BY <1>14 DEF A, B

-----------------------------------------------------------------------------
(* The first of the cited chunks by falling score. *)

LEMMA LeastOf ==
  ASSUME NEW S \in SUBSET Nat, S # {}
  PROVE  \E m \in S : \A i \in S : m <= i
<1> DEFINE R == {p \in Nat \X Nat : p[1] < p[2]}
<1>1. IsWellFoundedOn(R, Nat)
  BY NatLessThanWellFounded DEF OpToRel
<1>2. \A i, m \in Nat : i < m => <<i, m>> \in R
  OBVIOUS
<1>3. PICK m \in S : \A i \in S : ~(<<i, m>> \in R)
  <2> HIDE DEF R
  <2> QED BY <1>1, WFMin
<1>4. \A i \in S : m <= i
  <2> SUFFICES ASSUME NEW i \in S PROVE ~(i < m)
    OBVIOUS
  <2>1. i \in Nat /\ m \in Nat /\ ~(<<i, m>> \in R)
    BY <1>3
  <2> HIDE DEF R
  <2> QED BY <1>2, <2>1
<1> QED BY <1>4

\* The context and what is cited of it are chunks, with scores.
LEMMA CitedFacts ==
  ASSUME NEW cites, IsSequence(cites)
  PROVE  /\ CitedAt(cites) \subseteq DOMAIN cites /\ CitedAt(cites) \in SUBSET Nat
         /\ \A i \in CitedAt(cites) : /\ cites[i] \in Range(cites) \cap Range(Context)
                                      /\ cites[i] \in Chunks
                                      /\ Score[cites[i]] \in Int /\ Score[cites[i]] <= 1000
         /\ \A c \in Range(cites) \cap Range(Context) :
              c \in Chunks /\ \E i \in CitedAt(cites) : cites[i] = c
<1>1. Range(Context) \subseteq Chunks
  BY ContentAssumption DEF Range
<1>2. DOMAIN cites = 1..Len(cites) /\ Len(cites) \in Nat
  BY DEF IsSequence
<1>3. CitedAt(cites) \subseteq DOMAIN cites /\ CitedAt(cites) \in SUBSET Nat
  BY <1>2 DEF CitedAt
<1>4. \A i \in CitedAt(cites) : cites[i] \in Range(cites) \cap Range(Context)
  BY DEF CitedAt, Range
<1>5. \A c \in Chunks : Score[c] \in Int /\ Score[c] <= 1000
  BY ContentAssumption
<1>6. \A c \in Range(cites) \cap Range(Context) : \E i \in CitedAt(cites) : cites[i] = c
  BY DEF CitedAt, Range
<1> QED BY <1>1, <1>3, <1>4, <1>5, <1>6

LEMMA FirstCitedIs ==
  ASSUME NEW cites, IsSequence(cites), CitedAt(cites) # {}
  PROVE  /\ FirstCited(cites) \in Range(cites) \cap Range(Context)
         /\ FirstCited(cites) \in Chunks
         /\ \A c \in Range(cites) \cap Range(Context) : Score[c] <= Score[FirstCited(cites)]
<1> DEFINE C == CitedAt(cites)
           sc(i) == Score[cites[i]]
           D == {d \in Nat : \E i \in C : d = 1000 - sc(i)}
<1>1. C \in SUBSET Nat /\ \A i \in C : sc(i) \in Int /\ sc(i) <= 1000
  BY CitedFacts
<1>2. \A i \in C : 1000 - sc(i) \in D
  <2> SUFFICES ASSUME NEW i \in C PROVE 1000 - sc(i) \in Nat
    OBVIOUS
  <2> HIDE DEF C, sc
  <2> QED BY <1>1
<1> HIDE DEF C, sc
<1>3. PICK d \in D : \A e \in D : d <= e
  <2>1. D \in SUBSET Nat /\ D # {}
    BY <1>2 DEF C
  <2> HIDE DEF D
  <2> QED BY <2>1, LeastOf
<1>4. PICK best \in C : d = 1000 - sc(best)
  BY <1>3
<1>5. \A i \in C : sc(i) <= sc(best)
  <2> SUFFICES ASSUME NEW i \in C PROVE sc(i) <= sc(best)
    OBVIOUS
  <2>1. 1000 - sc(best) <= 1000 - sc(i)
    BY <1>2, <1>3, <1>4
  <2> QED BY <1>1, <2>1
<1> DEFINE E == {i \in C : sc(i) = sc(best)}
<1>6. PICK first \in E : \A i \in E : first <= i
  <2>1. E \in SUBSET Nat
    BY <1>1
  <2>2. best \in E
    OBVIOUS
  <2> HIDE DEF E
  <2> QED BY <2>1, <2>2, LeastOf
<1>7. first \in C /\ \A j \in C : sc(first) > sc(j) \/ (sc(first) = sc(j) /\ first <= j)
  <2>1. first \in C /\ sc(first) = sc(best)
    BY <1>6
  <2> SUFFICES ASSUME NEW j \in C PROVE sc(first) > sc(j) \/ (sc(first) = sc(j) /\ first <= j)
    BY <2>1
  <2>2. CASE sc(j) = sc(best)
    BY <1>6, <2>1, <2>2
  <2>3. CASE sc(j) # sc(best)
    BY <1>1, <1>5, <2>1, <2>3
  <2> QED BY <2>2, <2>3
<1> DEFINE chosen == CHOOSE i \in C : \A j \in C : sc(i) > sc(j) \/ (sc(i) = sc(j) /\ i <= j)
<1>8. chosen \in C /\ \A j \in C : sc(chosen) > sc(j) \/ (sc(chosen) = sc(j) /\ chosen <= j)
  BY <1>7
<1>9. FirstCited(cites) = cites[chosen]
  BY DEF FirstCited, C, sc
<1> HIDE DEF chosen
<1>10. \A j \in C : sc(j) <= sc(chosen)
  BY <1>1, <1>8
<1> QED BY <1>8, <1>9, <1>10, CitedFacts DEF C, sc

-----------------------------------------------------------------------------
(* The row of a card. *)

\* What may be asked of the loop: a card of some reply.
CardsAsked == UNION {Range(r.cards) : r \in Replies}
RowsAsked == {Row(card) : card \in CardsAsked}

LEMMA AskedFacts ==
  ASSUME NEW card \in CardsAsked
  PROVE  IsSequence(Citations(card.cites))
<1>1. PICK r \in Replies : card \in Range(r.cards)
  BY DEF CardsAsked
<1>2. IsSequence(card.cites)
  BY <1>1, ContentAssumption
<1>3. CASE card.cites = <<>> /\ Context # <<>>
  <2>1. Citations(card.cites) = <<Context[1]>>
    BY <1>3 DEF Citations
  <2>2. Context[1] \in Range(<<Context[1]>>)
    BY DEF Range
  <2> QED BY <2>1, <2>2 DEF IsSequence
<1>4. CASE ~(card.cites = <<>> /\ Context # <<>>)
  BY <1>2, <1>4 DEF Citations
<1> QED BY <1>3, <1>4

LEMMA LinkedFacts ==
  ASSUME NEW cites
  PROVE  /\ \A l \in Linked(cites) : /\ l[1] \in Range(cites) \cap Range(Context)
                                     /\ l[2] = ClampScore(Score[l[1]])
         /\ \A c \in Range(cites) \cap Range(Context) :
              \E l \in Linked(cites) : l[1] = c /\ l[2] = ClampScore(Score[c])
<1> DEFINE C == Range(cites) \cap Range(Context)
           link(c) == <<c, ClampScore(Score[c])>>
<1>1. Linked(cites) = {link(c) : c \in C}
  BY DEF Linked
<1>2. \A c \in C : link(c)[1] = c /\ link(c)[2] = ClampScore(Score[c])
  OBVIOUS
<1> HIDE DEF C, link
<1> QED BY <1>1, <1>2 DEF C

\* The answer overlaps a chunk the row is linked to as it did when it was counted.
LEMMA CountedAsStored ==
  ASSUME NEW card \in CardsAsked
  PROVE  GroundedRow(Row(card)) <=> Grounded(Row(card).answer, Citations(card.cites))
<1> DEFINE cites == Citations(card.cites)
           answer == Row(card).answer
           Over(c) == Overlaps(TokenSet(answer), TokenSet(Words[c]))
<1>1. IsSequence(cites)
  BY AskedFacts
<1>2. Row(card).links = Linked(cites)
  BY DEF Row
<1>3. GroundedRow(Row(card)) <=> \E l \in Linked(cites) : Over(l[1])
  BY <1>2 DEF GroundedRow
<1>4. Grounded(answer, cites) <=> \E i \in CitedAt(cites) : Over(cites[i])
  BY DEF Grounded
<1> HIDE DEF cites, answer, Over
<1>5. (\E l \in Linked(cites) : Over(l[1])) <=> \E c \in Range(cites) \cap Range(Context) : Over(c)
  BY LinkedFacts
<1>6. (\E i \in CitedAt(cites) : Over(cites[i])) <=> \E c \in Range(cites) \cap Range(Context) : Over(c)
  BY <1>1, CitedFacts
<1> QED BY <1>3, <1>4, <1>5, <1>6 DEF cites, answer

\* A fixed answer quotes a chunk linked with the highest relevance.
LEMMA FixedRow ==
  ASSUME NEW card \in CardsAsked,
         ~Grounded(card.answer, Citations(card.cites)), CitedAt(Citations(card.cites)) # {}
  PROVE  \E l \in Row(card).links : /\ l[1] \in Chunks
                                   /\ Row(card).answer = Quotation(l[1])
                                   /\ \A m \in Row(card).links : m[2] <= l[2]
<1> DEFINE cites == Citations(card.cites)
           c == FirstCited(cites)
<1>1. IsSequence(cites)
  BY AskedFacts
<1>2. Row(card).links = Linked(cites) /\ Row(card).answer = Quotation(c)
  BY DEF Row, Fixed
<1>3. /\ c \in Range(cites) \cap Range(Context) /\ c \in Chunks
      /\ \A e \in Range(cites) \cap Range(Context) : Score[e] <= Score[c]
  BY <1>1, FirstCitedIs
<1> HIDE DEF cites, c
<1>4. PICK l \in Linked(cites) : l[1] = c /\ l[2] = ClampScore(Score[c])
  BY <1>3, LinkedFacts
<1>5. ASSUME NEW m \in Linked(cites) PROVE m[2] <= l[2]
  <2>1. m[1] \in Range(cites) \cap Range(Context) /\ m[2] = ClampScore(Score[m[1]])
    BY LinkedFacts
  <2>2. m[1] \in Chunks /\ Score[m[1]] <= Score[c]
    BY <1>1, <1>3, <2>1, CitedFacts
  <2>3. Score[m[1]] \in Int /\ Score[c] \in Int
    BY <1>3, <2>2, ContentAssumption
  <2> QED BY <1>4, <2>1, <2>2, <2>3 DEF ClampScore
<1> QED BY <1>2, <1>3, <1>4, <1>5

LEMMA RowFixQuotesBest ==
  ASSUME NEW row \in RowsAsked, row.answer # row.given
  PROVE  \E l \in row.links : row.answer = Quotation(l[1]) /\ \A m \in row.links : m[2] <= l[2]
<1>1. PICK card \in CardsAsked : row = Row(card)
  BY DEF RowsAsked
<1>2. ~Grounded(card.answer, Citations(card.cites)) /\ CitedAt(Citations(card.cites)) # {}
  BY <1>1 DEF Row, Fixed
<1> QED BY <1>1, <1>2, FixedRow

LEMMA RowFixSuffices ==
  ASSUME NEW row \in RowsAsked
  PROVE  \/ GroundedRow(row)
         \/ row.links = {}
         \/ \E l \in row.links : /\ row.answer = Quotation(l[1])
                                /\ TokenSet(SubSeq(Words[l[1]], 1, Kept[l[1]])) = {}
<1>1. PICK card \in CardsAsked : row = Row(card)
  BY DEF RowsAsked
<1> DEFINE cites == Citations(card.cites)
<1>2. IsSequence(cites)
  BY AskedFacts
<1>3. row.links = Linked(cites) /\ row.answer = Fixed(card.answer, cites)
  BY <1>1 DEF Row
<1>4. CASE Grounded(card.answer, cites)
  <2>1. row.answer = card.answer
    BY <1>3, <1>4 DEF Fixed
  <2> QED BY <1>1, <1>4, <2>1, CountedAsStored
<1>5. CASE CitedAt(cites) = {}
  <2>1. Range(cites) \cap Range(Context) = {}
    BY <1>2, <1>5, CitedFacts
  <2> QED BY <1>3, <2>1 DEF Linked
<1>6. CASE ~Grounded(card.answer, cites) /\ CitedAt(cites) # {}
  <2>1. PICK l \in row.links : l[1] \in Chunks /\ row.answer = Quotation(l[1])
    BY <1>1, <1>6, FixedRow
  <2>2. CASE TokenSet(SubSeq(Words[l[1]], 1, Kept[l[1]])) # {}
    <3>1. Overlaps(TokenSet(row.answer), TokenSet(Words[l[1]]))
      BY <2>1, <2>2, QuotationIsGrounded
    <3> QED BY <2>1, <3>1 DEF GroundedRow
  <2> QED BY <2>1, <2>2
<1> QED BY <1>4, <1>5, <1>6

-----------------------------------------------------------------------------
(* The invariant: what is looked at and kept comes of the replies, and the *)
(* counts are those of the rows.                                           *)

GroundedAt(s) == {i \in DOMAIN s : GroundedRow(s[i])}

ContentInv ==
  /\ reply \in Seq(CardsAsked)
  /\ batch \in Seq(RowsAsked) /\ rows \in Seq(RowsAsked)
  /\ validCited \in Nat /\ generated \in Nat
  /\ CoverageCounted

LEMMA OneMore ==
  ASSUME NEW s \in Seq(RowsAsked), NEW row \in RowsAsked
  PROVE  /\ IsFiniteSet(GroundedAt(s)) /\ Cardinality(GroundedAt(s)) \in Nat
         /\ Len(Append(s, row)) = Len(s) + 1
         /\ Cardinality(GroundedAt(Append(s, row))) =
              IF GroundedRow(row) THEN Cardinality(GroundedAt(s)) + 1
              ELSE Cardinality(GroundedAt(s))
<1> DEFINE t == Append(s, row)
           n == Len(s) + 1
<1>1. Len(s) \in Nat /\ DOMAIN s = 1..Len(s)
  OBVIOUS
<1>2. /\ DOMAIN t = 1..n /\ Len(t) = n /\ t[n] = row
      /\ \A i \in DOMAIN s : t[i] = s[i]
  BY <1>1, AppendProperties
<1>3. IsFiniteSet(GroundedAt(s)) /\ Cardinality(GroundedAt(s)) \in Nat
  <2>1. IsFiniteSet(1..Len(s))
    BY <1>1, FS_Interval
  <2>2. GroundedAt(s) \in SUBSET (1..Len(s))
    BY <1>1 DEF GroundedAt
  <2>3. IsFiniteSet(GroundedAt(s))
    BY <2>1, <2>2, FS_Subset
  <2> QED BY <2>3, FS_CardinalityType
<1>4. n \notin DOMAIN s /\ DOMAIN t = DOMAIN s \cup {n}
  BY <1>1, <1>2
<1> HIDE DEF t, n
<1>5. CASE GroundedRow(row)
  <2>1. GroundedAt(t) = GroundedAt(s) \cup {n} /\ n \notin GroundedAt(s)
    BY <1>2, <1>4, <1>5 DEF GroundedAt
  <2>2. Cardinality(GroundedAt(t)) = Cardinality(GroundedAt(s)) + 1
    BY <1>3, <2>1, FS_AddElement
  <2> QED BY <1>2, <1>3, <1>5, <2>2 DEF t, n
<1>6. CASE ~GroundedRow(row)
  <2>1. GroundedAt(t) = GroundedAt(s)
    BY <1>2, <1>4, <1>6 DEF GroundedAt
  <2> QED BY <1>2, <1>3, <1>6, <2>1 DEF t, n
<1> QED BY <1>5, <1>6

LEMMA InitContent == ASSUME LoopInit PROVE ContentInv
<1>1. RowsMade = <<>>
  BY DEF LoopInit, RowsMade
<1>2. {i \in DOMAIN RowsMade : GroundedRow(RowsMade[i])} = {} /\ Len(RowsMade) = 0
  BY <1>1
<1>3. CoverageCounted
  BY <1>2, FS_EmptySet DEF LoopInit, CoverageCounted
<1> QED BY <1>3 DEF LoopInit, ContentInv

LEMMA GenerateSound ==
  ASSUME ContentInv, Generate PROVE ContentInv'
<1>1. /\ batch' = batch /\ rows' = rows
      /\ generated' = generated /\ validCited' = validCited
      /\ status = "running"
  BY DEF Generate
<1>2. reply' \in Seq(CardsAsked)
  <2>1. CASE reply' = reply
    BY <2>1 DEF ContentInv
  <2>2. CASE \E r \in Replies : reply' = r.cards
    <3>1. PICK r \in Replies : reply' = r.cards
      BY <2>2
    <3>2. r.cards \in Seq(Range(r.cards)) /\ Range(r.cards) \subseteq CardsAsked
      BY ContentAssumption DEF IsSequence, CardsAsked
    <3> QED BY <3>1, <3>2
  <2> QED BY <2>1, <2>2 DEF Generate
<1>3. CoverageCounted'
  <2>1. RowsMade' = RowsMade
    BY <1>1 DEF RowsMade
  <2> QED BY <1>1, <2>1 DEF ContentInv, CoverageCounted, GroundedRow
<1> QED BY <1>1, <1>2, <1>3 DEF ContentInv

LEMMA DuplicateSound == ASSUME ContentInv, Duplicate PROVE ContentInv'
<1>1. /\ batch' = batch /\ rows' = rows /\ status' = status
      /\ generated' = generated /\ validCited' = validCited
      /\ reply # <<>> /\ reply' = Tail(reply)
  BY DEF Duplicate
<1>2. reply' \in Seq(CardsAsked)
  BY <1>1, HeadTailProperties DEF ContentInv
<1>3. CoverageCounted'
  <2>1. RowsMade' = RowsMade
    BY <1>1 DEF RowsMade
  <2> QED BY <1>1, <2>1 DEF ContentInv, CoverageCounted, GroundedRow
<1> QED BY <1>1, <1>2, <1>3 DEF ContentInv

LEMMA TakeSound ==
  ASSUME ContentInv, Take PROVE ContentInv'
<1> DEFINE card == Head(reply)
           row == Row(card)
<1>1. /\ reply # <<>> /\ reply' = Tail(reply) /\ batch' = Append(batch, row)
      /\ rows' = rows /\ status' = status /\ generated' = generated + 1
      /\ validCited' = IF Grounded(row.answer, Citations(card.cites))
                       THEN validCited + 1 ELSE validCited
  BY DEF Take
<1>2. card \in CardsAsked /\ reply' \in Seq(CardsAsked)
  BY <1>1, HeadTailProperties DEF ContentInv
<1>3. GroundedRow(row) <=> Grounded(row.answer, Citations(card.cites))
  BY <1>2, CountedAsStored
<1>4. row \in RowsAsked
  BY <1>2 DEF RowsAsked
<1> HIDE DEF card, row
<1>5. RowsMade \in Seq(RowsAsked) /\ RowsMade' = Append(RowsMade, row)
  <2>1. rows \in Seq(RowsAsked) /\ batch \in Seq(RowsAsked) /\ <<row>> \in Seq(RowsAsked)
    BY <1>4 DEF ContentInv
  <2>2. rows \o batch \in Seq(RowsAsked)
    BY <2>1, ConcatProperties
  <2>3. Append(batch, row) = batch \o <<row>>
    BY <1>4, <2>1, AppendIsConcat
  <2>4. Append(rows \o batch, row) = (rows \o batch) \o <<row>>
    BY <1>4, <2>2, AppendIsConcat
  <2>5. rows \o (batch \o <<row>>) = (rows \o batch) \o <<row>>
    BY <2>1, ConcatAssociative
  <2> QED BY <1>1, <2>2, <2>3, <2>4, <2>5 DEF RowsMade
<1>6. CoverageCounted'
  <2>1. SUFFICES ASSUME status # "failed"
                 PROVE  /\ generated' = Len(RowsMade')
                        /\ validCited' = Cardinality(GroundedAt(RowsMade'))
    BY <1>1, <2>1 DEF CoverageCounted, GroundedAt, GroundedRow
  <2>2. generated = Len(RowsMade) /\ validCited = Cardinality(GroundedAt(RowsMade))
    BY <2>1 DEF ContentInv, CoverageCounted, GroundedAt
  <2>3. /\ Len(RowsMade') = Len(RowsMade) + 1
        /\ Cardinality(GroundedAt(RowsMade')) =
             IF GroundedRow(row) THEN Cardinality(GroundedAt(RowsMade)) + 1
             ELSE Cardinality(GroundedAt(RowsMade))
    BY <1>4, <1>5, OneMore
  <2>4. validCited' = IF GroundedRow(row) THEN validCited + 1 ELSE validCited
    BY <1>1, <1>3
  <2> QED BY <1>1, <2>2, <2>3, <2>4
<1>7. batch' \in Seq(RowsAsked) /\ rows' \in Seq(RowsAsked)
  BY <1>1, <1>4 DEF ContentInv
<1>8. validCited' \in Nat /\ generated' \in Nat
  BY <1>1 DEF ContentInv
<1> QED BY <1>2, <1>6, <1>7, <1>8 DEF ContentInv

LEMMA StoreSound == ASSUME ContentInv, Store PROVE ContentInv'
<1>1. /\ reply' = reply /\ batch' = <<>>
      /\ generated' = generated /\ validCited' = validCited /\ status = "running"
      /\ \/ rows' = rows \o batch /\ status' = status
         \/ rows' = rows /\ status' = "failed"
  BY DEF Store
<1>2. rows \in Seq(RowsAsked) /\ batch \in Seq(RowsAsked)
  BY DEF ContentInv
<1>3. rows \o batch \in Seq(RowsAsked)
  BY <1>2, ConcatProperties
<1>4. CoverageCounted'
  <2>1. CASE status' = "failed"
    BY <2>1 DEF CoverageCounted
  <2>2. CASE rows' = rows \o batch /\ status' = status
    <3>1. RowsMade' = RowsMade
      BY <1>1, <1>3, <2>2, ConcatEmptySeq DEF RowsMade
    <3> QED BY <1>1, <2>2, <3>1 DEF ContentInv, CoverageCounted, GroundedRow
  <2> QED BY <1>1, <2>1, <2>2
<1>5. batch' \in Seq(RowsAsked) /\ rows' \in Seq(RowsAsked)
  <2>1. batch' \in Seq(RowsAsked)
    BY <1>1
  <2>2. rows' \in Seq(RowsAsked)
    BY <1>1, <1>2, <1>3
  <2> QED BY <2>1, <2>2
<1> QED BY <1>1, <1>4, <1>5 DEF ContentInv

LEMMA FinishSound == ASSUME ContentInv, Finish PROVE ContentInv'
<1>1. /\ reply' = reply /\ batch' = batch /\ rows' = rows
      /\ generated' = generated /\ validCited' = validCited /\ status = "running"
  BY DEF Finish
<1>2. RowsMade' = RowsMade
  BY <1>1 DEF RowsMade
<1>3. CoverageCounted'
  BY <1>1, <1>2 DEF ContentInv, CoverageCounted, GroundedRow
<1> QED BY <1>1, <1>3 DEF ContentInv

LEMMA ContentInvariant == LoopSpec => []ContentInv
<1>1. LoopInit => ContentInv
  BY InitContent
<1>2. ContentInv /\ [LoopNext]_loopVars => ContentInv'
  <2> SUFFICES ASSUME ContentInv, [LoopNext]_loopVars PROVE ContentInv'
    OBVIOUS
  <2>1. CASE UNCHANGED loopVars
    <3>1. /\ reply' = reply /\ batch' = batch /\ rows' = rows /\ status' = status
          /\ generated' = generated /\ validCited' = validCited
      BY <2>1 DEF loopVars
    <3>2. RowsMade' = RowsMade
      BY <3>1 DEF RowsMade
    <3>3. CoverageCounted'
      BY <3>1, <3>2 DEF ContentInv, CoverageCounted, GroundedRow
    <3> QED BY <3>1, <3>3 DEF ContentInv
  <2> QED BY <2>1, GenerateSound, DuplicateSound, TakeSound, StoreSound, FinishSound DEF LoopNext
<1> QED BY <1>1, <1>2, PTL DEF LoopSpec

\* The rows made are rows of cards.
LEMMA RowsAreOfCards ==
  ASSUME ContentInv
  PROVE  \A i \in DOMAIN RowsMade : RowsMade[i] \in RowsAsked
<1>1. RowsMade \in Seq(RowsAsked)
  BY ConcatProperties DEF ContentInv, RowsMade
<1> QED BY <1>1

-----------------------------------------------------------------------------
(* The theorems. *)

\* The counts of a job that goes on are those of its rows, and the coverage
\* written with them (pipeline.go:282-286) is a share of them, as they are stored.
THEOREM CoverageIsCounted == LoopSpec => []CoverageCounted
<1>1. ContentInv => CoverageCounted
  BY DEF ContentInv
<1> QED BY <1>1, ContentInvariant, PTL

\* FixAnswerFromContext quotes a chunk of the highest relevance among the links of
\* its card, however the scores order the citations.
THEOREM FixQuotesTheBest == LoopSpec => []FixQuotesBest
<1>1. ContentInv => FixQuotesBest
  BY RowsAreOfCards, RowFixQuotesBest DEF FixQuotesBest
<1> QED BY <1>1, ContentInvariant, PTL

\* A quotation with one whole word that counts passes ValidateGrounding: neither
\* the two words before it nor the word cut in two can bring it below 0.12.
THEOREM FixIsEnough == LoopSpec => []FixSuffices
<1>1. ContentInv => FixSuffices
  BY RowsAreOfCards, RowFixSuffices DEF FixSuffices
<1> QED BY <1>1, ContentInvariant, PTL

-----------------------------------------------------------------------------
(* The end of the loop. *)

\* What a round has left: each card of the reply is looked at and may go into the
\* batch, the batch is stored, the job is over.
RoundLeft ==
  2 * Len(reply) + (IF batch = <<>> THEN 0 ELSE 1) + (IF status = "running" THEN 1 ELSE 0)

\* The loop over rounds and cards comes to an end (pipeline.go:186-275): rounds are
\* at most max_cards, and within one each step lowers a number that begins with the
\* length of the reply, whether cards are new or duplicates, stored or refused.
THEOREM LoopEnds ==
  LoopSpec => [](round \in 0..MaxCards /\ RoundLeft \in Nat)
                /\ [][\/ round' = round + 1
                       \/ (round' = round /\ RoundLeft' < RoundLeft)]_loopVars
<1> DEFINE Rounds == round \in 0..MaxCards
<1>1. LoopInit => Rounds
  BY ContentAssumption DEF LoopInit
<1>2. Rounds /\ [LoopNext]_loopVars => Rounds'
  BY ContentAssumption DEF LoopNext, loopVars, Generate, Duplicate, Take, Store, Finish
<1>3. ContentInv => Len(reply) \in Nat /\ RoundLeft \in Nat
  BY DEF ContentInv, RoundLeft
<1>4. ASSUME ContentInv, LoopNext
      PROVE  round' = round + 1 \/ (round' = round /\ RoundLeft' < RoundLeft)
  <2>1. CASE Generate
    BY <2>1 DEF Generate
  <2>2. CASE Duplicate \/ Take
    <3>1. reply # <<>> /\ reply' = Tail(reply) /\ round' = round /\ status' = status
      BY <2>2 DEF Duplicate, Take
    <3>2. Len(reply) \in Nat /\ Len(reply') = Len(reply) - 1
      BY <1>4, <3>1, HeadTailProperties DEF ContentInv
    <3> QED BY <3>1, <3>2 DEF RoundLeft
  <2>3. CASE Store
    <3>1. /\ batch # <<>> /\ batch' = <<>> /\ reply' = reply /\ round' = round
          /\ status = "running"
      BY <2>3 DEF Store
    <3> QED BY <1>3, <1>4, <3>1 DEF RoundLeft
  <2>4. CASE Finish
    <3>1. /\ batch' = batch /\ reply' = reply /\ round' = round
          /\ status = "running" /\ status' = "ready"
      BY <2>4 DEF Finish
    <3> QED BY <1>3, <1>4, <3>1 DEF RoundLeft
  <2> QED BY <1>4, <2>1, <2>2, <2>3, <2>4 DEF LoopNext
<1> QED BY <1>1, <1>2, <1>3, <1>4, ContentInvariant, PTL DEF LoopSpec
=============================================================================
