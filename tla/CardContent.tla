---------------------------- MODULE CardContent ----------------------------
(***************************************************************************)
(* What becomes of the replies of the language model: classified, decoded  *)
(* and checked (internal/infra/llm/openai_cards.go), then card by card     *)
(* compared with the chunks it cites, fixed, linked and counted (the loop  *)
(* of Pipeline.HandleGenMessage with internal/usecase/post_validate.go).   *)
(*                                                                         *)
(* One run of one job, alone: what several deliveries do to each other is  *)
(* CardGeneration, which takes the outcome of this loop for granted.  An   *)
(* answer and a chunk are sequences of words, in lower case; a word of two *)
(* bytes or less is in Short.  Where truncate cuts the text of a chunk is  *)
(* given by the words it keeps and what is left of the next one.           *)
(***************************************************************************)
EXTENDS Integers, Sequences, FiniteSets, Functions

CONSTANTS Chunks,     \* uuids a citation may name
          Context,    \* the chunks of a round, nearest first
          Score,      \* their similarity in thousandths, which may be negative
          Words,      \* the text of each
          Kept, Stub, \* what a quotation has of it: whole words, part of the next
          Short,      \* words that do not count
          Preamble,   \* the words of "По источнику:"
          Replies,    \* what may come of a call
          MaxCards    \* rounds

\* A sequence of whatever it consists of.
IsSequence(s) == s \in Seq(Range(s))

\* The cut may be anywhere in a text but leaves no more than one part of a word.
ASSUME ContentAssumption ==
  /\ Context \in Seq(Chunks) /\ Score \in [Chunks -> Int]
  /\ \A c \in Chunks : /\ Score[c] <= 1000
                       /\ IsSequence(Words[c]) /\ Kept[c] \in 0..Len(Words[c])
                       /\ IsSequence(Stub[c]) /\ Len(Stub[c]) <= 1
  /\ IsSequence(Preamble) /\ Len(Preamble) <= 2
  /\ \A r \in Replies : /\ IsSequence(r.cards)
                        /\ \A g \in Range(r.cards) : IsSequence(g.answer) /\ IsSequence(g.cites)
  /\ MaxCards \in Nat

VARIABLES round,      \* rounds begun
          reply,      \* cards of the reply not looked at yet
          hashes,     \* hashes of question and answer
          batch,      \* toInsert, with the links
          rows,       \* batches stored, before the unique key
          generated, duplicates, validCited,
          status,     \* of the job
          error       \* the kind of error the handler returns

loopVars == <<round, reply, hashes, batch, rows, generated, duplicates, validCited,
              status, error>>

LoopInit ==
  /\ round = 0
  /\ reply = <<>> /\ hashes = {} /\ batch = <<>> /\ rows = <<>>
  /\ generated = 0 /\ duplicates = 0 /\ validCited = 0
  /\ status = "running" /\ error = "none"

-----------------------------------------------------------------------------
(* OpenAICardLLM.GenerateCards. *)

\* validateCardsJSON, of one card.  Any type will do.
Valid(card) ==
  /\ card.type # "" /\ card.question # "" /\ card.answer # <<>>
  /\ Range(card.cites) \subseteq Chunks

\* The types of error: of the call, of its status, of what is in the body.
ErrorOf(r) ==
  IF r.call = "canceled" THEN "other"
  ELSE IF r.call \in {"unreachable", "429", "5xx"} THEN "temporary"
  ELSE IF \/ r.call \in {"4xx", "not json", "no text", "no cards"}
          \/ \E i \in DOMAIN r.cards : ~Valid(r.cards[i])
       THEN "permanent"
  ELSE "none"

\* errorKind of the queue: it knows only the PermanentError of its own package,
\* which nothing makes.
QueueKind(e) == IF e = "none" THEN "" ELSE "transient"

-----------------------------------------------------------------------------
(* post_validate.go. *)

TokenSet(ws) == Range(ws) \ Short

Smaller(m, n) == IF m < n THEN m ELSE n

\* (a mistake: measured by the text of both)
OverlapsOfAll(a, b) ==
  /\ a # {} /\ b # {}
  /\ 100 * Cardinality(a \cap b) >= 12 * Cardinality(a \cup b)

\* overlapRatio is at least 0.12.
Overlaps(a, b) ==
  /\ a # {} /\ b # {}
  /\ 100 * Cardinality(a \cap b) >= 12 * Smaller(Cardinality(a), Cardinality(b))

\* PickCitedChunks: where the citations name a chunk of the context.
CitedAt(cites) == {i \in DOMAIN cites : cites[i] \in Range(Context)}

\* ValidateGrounding, of which only OK has consequences.
Grounded(answer, cites) ==
  \E i \in CitedAt(cites) : Overlaps(TokenSet(answer), TokenSet(Words[cites[i]]))

\* (a mistake: sorted from the worst)
WorstCited(cites) ==
  cites[CHOOSE i \in CitedAt(cites) : \A j \in CitedAt(cites) :
          \/ Score[cites[i]] < Score[cites[j]]
          \/ Score[cites[i]] = Score[cites[j]] /\ i <= j]

\* The first of them in a stable order by falling score.
FirstCited(cites) ==
  cites[CHOOSE i \in CitedAt(cites) : \A j \in CitedAt(cites) :
          \/ Score[cites[i]] > Score[cites[j]]
          \/ Score[cites[i]] = Score[cites[j]] /\ i <= j]

-----------------------------------------------------------------------------
(* HandleGenMessage. *)

\* "По источнику: " and the beginning of the chunk.
Quotation(c) == Preamble \o SubSeq(Words[c], 1, Kept[c]) \o Stub[c]

Fixed(answer, cites) ==
  IF ~Grounded(answer, cites) /\ CitedAt(cites) # {}
  THEN Quotation(FirstCited(cites)) ELSE answer

ClampScore(s) == IF s < 0 THEN 0 ELSE IF s > 999 THEN 999 ELSE s

Citations(cites) ==
  IF cites = <<>> /\ Context # <<>> THEN <<Context[1]>> ELSE cites

Linked(cites) ==
  {<<c, ClampScore(Score[c])>> : c \in Range(cites) \cap Range(Context)}

Row(card) ==
  LET cites == Citations(card.cites)
  IN  [type |-> card.type, question |-> card.question, given |-> card.answer,
       answer |-> Fixed(card.answer, cites), links |-> Linked(cites)]

\* The LLM is asked once a round, and failJob records an error of any kind.
Generate ==
  /\ status = "running" /\ reply = <<>> /\ batch = <<>> /\ round < MaxCards
  /\ \E r \in Replies :
       IF ErrorOf(r) = "none"
       THEN reply' = r.cards /\ UNCHANGED <<status, error>>
       ELSE status' = "failed" /\ error' = ErrorOf(r) /\ UNCHANGED reply
  /\ round' = round + 1
  /\ UNCHANGED <<hashes, batch, rows, generated, duplicates, validCited>>

Hash(card) == <<card.question, card.answer>>

Duplicate ==
  /\ reply # <<>> /\ Hash(Head(reply)) \in hashes
  /\ duplicates' = duplicates + 1
  /\ reply' = Tail(reply)
  /\ UNCHANGED <<round, hashes, batch, rows, generated, validCited, status, error>>

GroundedRow(row) ==
  \E l \in row.links : Overlaps(TokenSet(row.answer), TokenSet(Words[l[1]]))

\* (a mistake: counted before it is fixed)
TakeCountsFirst ==
  /\ reply # <<>> /\ Hash(Head(reply)) \notin hashes
  /\ hashes' = hashes \cup {Hash(Head(reply))}
  /\ LET card == Head(reply)
     IN  /\ batch' = Append(batch, Row(card))
         /\ validCited' = IF Grounded(card.answer, Citations(card.cites))
                          THEN validCited + 1 ELSE validCited
  /\ generated' = generated + 1
  /\ reply' = Tail(reply)
  /\ UNCHANGED <<round, rows, duplicates, status, error>>

\* A card not seen before: fixed if need be, checked again, counted, linked.
Take ==
  /\ reply # <<>> /\ Hash(Head(reply)) \notin hashes
  /\ hashes' = hashes \cup {Hash(Head(reply))}
  /\ LET card == Head(reply)
     IN  /\ batch' = Append(batch, Row(card))
         /\ validCited' = IF Grounded(Row(card).answer, Citations(card.cites))
                          THEN validCited + 1 ELSE validCited
  /\ generated' = generated + 1
  /\ reply' = Tail(reply)
  /\ UNCHANGED <<round, rows, duplicates, status, error>>

\* InsertBatchWithLinks: all of the batch, or nothing if the table refuses a type.
Store ==
  /\ status = "running" /\ reply = <<>> /\ batch # <<>>
  /\ IF \A i \in DOMAIN batch : batch[i].type \in {"basic", "cloze"}
     THEN rows' = rows \o batch /\ UNCHANGED <<status, error>>
     ELSE status' = "failed" /\ error' = "other" /\ UNCHANGED rows
  /\ batch' = <<>>
  /\ UNCHANGED <<round, reply, hashes, generated, duplicates, validCited>>

Finish ==
  /\ status = "running" /\ reply = <<>> /\ batch = <<>> /\ round = MaxCards
  /\ status' = "ready"
  /\ UNCHANGED <<round, reply, hashes, batch, rows, generated, duplicates, validCited, error>>

LoopNext == Generate \/ Duplicate \/ Take \/ Store \/ Finish

LoopSpec == LoopInit /\ [][LoopNext]_loopVars

-----------------------------------------------------------------------------
(* Properties. *)

RowsMade == rows \o batch

\* The counts of a job that goes on are those of its rows, and the coverage is
\* the share of those whose answer, as it is stored, overlaps a chunk they are
\* linked to (pipeline.go:237-239, 282-286): never more than 1.
CoverageCounted ==
  status # "failed" =>
    /\ generated = Len(RowsMade)
    /\ validCited = Cardinality({i \in DOMAIN RowsMade : GroundedRow(RowsMade[i])})

\* An answer that is fixed quotes one of the chunks the card is linked to, none
\* of which has a higher relevance, although the order of the citations is that
\* of the raw scores and links have clamped ones.
FixQuotesBest ==
  \A i \in DOMAIN RowsMade :
    LET row == RowsMade[i]
    IN  row.answer # row.given =>
          \E l \in row.links : /\ row.answer = Quotation(l[1])
                              /\ \A m \in row.links : m[2] <= l[2]

\* The fix works: an answer stays without ground only if the card has no link, or
\* if the quotation has no whole word that counts, such as a chunk of dashes or
\* one that starts with 260 runes without a gap.  The preamble and a word cut in
\* two never spoil it.
FixSuffices ==
  \A i \in DOMAIN RowsMade :
    LET row == RowsMade[i]
    IN  \/ GroundedRow(row)
        \/ row.links = {}
        \/ \E l \in row.links : /\ row.answer = Quotation(l[1])
                               /\ TokenSet(SubSeq(Words[l[1]], 1, Kept[l[1]])) = {}

\* "Typed errors for queue retry/DLQ classification" (openai_cards.go:142): an
\* error the client calls permanent is permanent to the queue.
PermanentStaysPermanent ==
  error = "permanent" => QueueKind(error) = "permanent"
=============================================================================
