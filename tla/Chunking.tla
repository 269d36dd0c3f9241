------------------------------ MODULE Chunking ------------------------------
(***************************************************************************)
(* From the bytes of a source to its chunks: extractText, stripTags and    *)
(* chunkText of internal/app/worker/pipeline.go.                           *)
(*                                                                         *)
(* The functions are loops, and each pass of a loop is a step, so that     *)
(* what they compute is a matter of invariants.  A text is a sequence of   *)
(* runes, of which only the kind counts.  What is cut from it is known by  *)
(* its place: the extracted text is the sequence of positions kept of the  *)
(* document, and a chunk a pair of positions in that text.                 *)
(***************************************************************************)
EXTENDS Integers, Sequences, FiniteSets

CONSTANTS Documents,  \* of a format, a sequence of runes
          MaxRunes    \* the size chunkText is called with (900)

Formats == {"plain", "html", "other"}  \* text and markdown, html, pdf and docx

Runes == {"letter", "blank", "newline", "<", ">"}

Space == {"blank", "newline"}

ASSUME ChunkingAssumption ==
  /\ MaxRunes \in Nat \ {0}
  /\ \A d \in Documents : d.format \in Formats /\ d.runes \in Seq(Runes)

VARIABLES doc,      \* the source
          stage,    \* the loop the handler is in
          read,     \* stripTags: runes read so far
          inTag,    \* and whether the last bracket was an opening one
          text,     \* the positions in doc of the extracted text
          rest,     \* chunkText: where the text not yet split begins
          from, to, \* what is left of the paragraph, if any
          chunks    \* the first and last position of each chunk in text

textVars == <<doc, stage, read, inTag, text, rest, from, to, chunks>>

Rune(i) == doc.runes[text[i]]

Ink(a, b) == {i \in a..b : Rune(i) \notin Space}

Least(S)    == CHOOSE i \in S : \A j \in S : i <= j
Greatest(S) == CHOOSE i \in S : \A j \in S : i >= j

\* strings.TrimSpace of a stretch of the text; an empty one has last < first.
TrimSpace(a, b) ==
  IF Ink(a, b) = {} THEN <<a, a - 1>> ELSE <<Least(Ink(a, b)), Greatest(Ink(a, b))>>

TextInit ==
  /\ doc \in Documents
  /\ stage = "extract"
  /\ read = 0 /\ inTag = FALSE
  /\ text = <<>>
  /\ rest = 1 /\ from = 1 /\ to = 0
  /\ chunks = <<>>

-----------------------------------------------------------------------------
(* extractText, after ReadAll; a failing ReadAll ends like an unknown type. *)

Extract ==
  /\ stage = "extract"
  /\ \/ doc.format = "plain" /\ stage' = "split" /\ text' = [i \in 1..Len(doc.runes) |-> i]
     \/ doc.format = "html" /\ stage' = "strip" /\ UNCHANGED text
     \/ stage' = "failed" /\ UNCHANGED text
  /\ UNCHANGED <<doc, read, inTag, rest, from, to, chunks>>

\* (a mistake: a lone ">" is text)
StripKeepsClosing ==
  /\ stage = "strip" /\ read < Len(doc.runes)
  /\ LET r == doc.runes[read + 1]
     IN  /\ inTag' = (r = "<" \/ (inTag /\ r # ">"))
         /\ text' = IF inTag \/ r = "<" THEN text ELSE Append(text, read + 1)
  /\ read' = read + 1
  /\ UNCHANGED <<doc, stage, rest, from, to, chunks>>

\* One rune in stripTags.
Strip ==
  /\ stage = "strip" /\ read < Len(doc.runes)
  /\ LET r == doc.runes[read + 1]
     IN  /\ inTag' = (r = "<" \/ (inTag /\ r # ">"))
         /\ text' = IF inTag \/ r \in {"<", ">"} THEN text ELSE Append(text, read + 1)
  /\ read' = read + 1
  /\ UNCHANGED <<doc, stage, rest, from, to, chunks>>

StripEnds ==
  /\ stage = "strip" /\ read = Len(doc.runes)
  /\ stage' = "split"
  /\ UNCHANGED <<doc, read, inTag, text, rest, from, to, chunks>>

-----------------------------------------------------------------------------
(* chunkText. *)

\* strings.Split with "\n\n": a paragraph ends at the next such pair.
Breaks == {i \in rest..(Len(text) - 1) : Rune(i) = "newline" /\ Rune(i + 1) = "newline"}

ParagraphEnd == IF Breaks = {} THEN Len(text) ELSE Least(Breaks) - 1

\* The next paragraph, trimmed, unless nothing remains of it.
Split ==
  /\ stage = "split" /\ rest <= Len(text)
  /\ from' = TrimSpace(rest, ParagraphEnd)[1]
  /\ to' = TrimSpace(rest, ParagraphEnd)[2]
  /\ stage' = IF from' > to' THEN "split" ELSE "cut"
  /\ rest' = ParagraphEnd + 3
  /\ UNCHANGED <<doc, read, inTag, text, chunks>>

\* (a mistake: a window of one rune too many)
CutWide ==
  /\ stage = "cut" /\ to - from + 1 > MaxRunes
  /\ chunks' = Append(chunks, TrimSpace(from, from + MaxRunes))
  /\ from' = from + MaxRunes + 1
  /\ UNCHANGED <<doc, stage, read, inTag, text, rest, to>>

\* for len(r) > maxRunes
Cut ==
  /\ stage = "cut" /\ to - from + 1 > MaxRunes
  /\ chunks' = Append(chunks, TrimSpace(from, from + MaxRunes - 1))
  /\ from' = from + MaxRunes
  /\ UNCHANGED <<doc, stage, read, inTag, text, rest, to>>

\* (a mistake: what is left after full windows is forgotten)
CutLastDropped ==
  /\ stage = "cut" /\ to - from + 1 <= MaxRunes
  /\ chunks' = IF chunks = <<>> THEN <<TrimSpace(from, to)>> ELSE chunks
  /\ stage' = "split"
  /\ UNCHANGED <<doc, read, inTag, text, rest, from, to>>

\* What is left of the paragraph.
CutLast ==
  /\ stage = "cut" /\ to - from + 1 <= MaxRunes
  /\ chunks' = Append(chunks, TrimSpace(from, to))
  /\ stage' = "split"
  /\ UNCHANGED <<doc, read, inTag, text, rest, from, to>>

\* The end of the text, with the case of a text that gave no chunk.
Return ==
  /\ stage = "split" /\ rest > Len(text)
  /\ chunks' = IF chunks = <<>> /\ Ink(1, Len(text)) # {}
               THEN <<TrimSpace(1, Len(text))>> ELSE chunks
  /\ stage' = "done"
  /\ UNCHANGED <<doc, read, inTag, text, rest, from, to>>

TextNext == Extract \/ Strip \/ StripEnds \/ Split \/ Cut \/ CutLast \/ Return

TextSpec == TextInit /\ [][TextNext]_textVars

-----------------------------------------------------------------------------
(* Properties. *)

\* Every variable has its type, and positions are those of the text.
TextOK ==
  /\ doc \in Documents
  /\ stage \in {"extract", "strip", "split", "cut", "done", "failed"}
  /\ read \in 0..Len(doc.runes) /\ inTag \in BOOLEAN
  /\ text \in Seq(1..Len(doc.runes))
  /\ rest \in Nat \ {0} /\ from \in Nat \ {0} /\ to \in 0..Len(text)
  /\ chunks \in Seq((1..(Len(text) + 1)) \X (0..Len(text)))

Outside(p) ==
  /\ doc.runes[p] \notin {"<", ">"}
  /\ \A b \in 1..(p - 1) :
       doc.runes[b] = "<" => \E e \in (b + 1)..(p - 1) : doc.runes[e] = ">"

\* The text of a page is what stands outside its tags, in order (pipeline.go:323).
\* A tag that is never closed takes the rest of the page with it.
TextOutsideTags ==
  stage \notin {"extract", "strip", "failed"} /\ doc.format = "html" =>
    /\ \A i, j \in DOMAIN text : i < j => text[i] < text[j]
    /\ \A p \in DOMAIN doc.runes : Outside(p) <=> \E i \in DOMAIN text : text[i] = p

\* A chunk has MaxRunes runes at most and does not run over the end of a
\* paragraph (pipeline.go:344-356).
ChunksFit ==
  \A k \in DOMAIN chunks :
    /\ chunks[k][2] - chunks[k][1] < MaxRunes
    /\ \A i \in chunks[k][1]..(chunks[k][2] - 1) :
         ~(Rune(i) = "newline" /\ Rune(i + 1) = "newline")

\* Chunks come in the order of the text and do not overlap, and whatever is not
\* space is in one: nothing falls between two windows, into a last short one or
\* between paragraphs.  A text of nothing but space has no chunk, though a window
\* of spaces inside a paragraph is one.
NothingLost ==
  /\ \A k, l \in DOMAIN chunks : k < l => chunks[k][2] < chunks[l][1]
  /\ stage = "done" => \A i \in Ink(1, Len(text)) :
       \E k \in DOMAIN chunks : i \in chunks[k][1]..chunks[k][2]
  /\ stage = "done" /\ Ink(1, Len(text)) = {} => chunks = <<>>
=============================================================================
