------------------------------- MODULE MCParts -------------------------------
(***************************************************************************)
(* Four parts that share no state: the text of a source, the replies of    *)
(* one job, the accounts, the deck under review and its exports.  A        *)
(* behaviour is that of one of them, and the others stand still in a state *)
(* where they have nothing to do.                                          *)
(***************************************************************************)
EXTENDS Chunking, CardContent, Accounts, MCDeckExport, TLC

\* Documents: anything of up to five runes; and up to six of a plain text.
Texts(S, n) == UNION {[1..k -> S] : k \in 0..n}
SmallDocuments ==
  [format : Formats, runes : Texts(Runes, 5)]
    \cup [format : {"plain"}, runes : Texts({"letter"} \cup Space, 6)]

\* Three chunks: one of ten words of which one is quoted, and part of the next,
\* one of two, quoted whole, and one of nothing but dashes; and one elsewhere.
ChunkSet == {"long", "brief", "dashes", "elsewhere"}
LongText == <<"w1", "w2", "w3", "w4", "w5", "w6", "w7", "w8", "w9", "w10">>
Asked(type, question, reading, cites) ==
  [type |-> type, question |-> question, answer |-> reading, cites |-> cites]
Answered == {<<"w1">>, <<"other">>, <<"-">>}
Citing == {<<>>, <<"brief">>, <<"brief", "long">>, <<"long", "long">>, <<"dashes">>,
           <<"dashes", "brief">>, <<"elsewhere">>}
Good == {Asked("basic", "q", a, c) : a \in Answered, c \in Citing}
Odd == {Asked("", "q", <<"w1">>, <<>>), Asked("basic", "", <<"w1">>, <<>>),
        Asked("basic", "q", <<>>, <<"elsewhere">>), Asked("basic", "q", <<"w1">>, <<"no uuid">>),
        Asked("image", "q", <<"w1">>, <<"long">>)}
Failing == {"canceled", "unreachable", "429", "5xx", "4xx", "not json", "no text", "no cards"}
SomeReplies ==
  {[call |-> f, cards |-> <<>>] : f \in Failing} \cup {[call |-> "ok", cards |-> <<>>]}
    \cup {[call |-> "ok", cards |-> <<g>>] : g \in Good \cup Odd}
    \cup {[call |-> "ok", cards |-> <<Asked("cloze", "q", <<"w1">>, <<"long">>), g>>] : g \in Good \cup Odd}

ThisContext == <<"long", "brief", "dashes">>
Scores == [c \in ChunkSet |-> CASE c = "long" -> 1000 [] c = "brief" -> 999
                                [] c = "dashes" -> -20 [] OTHER -> 0]
ChunkTexts == [c \in ChunkSet |-> CASE c = "long" -> LongText [] c = "brief" -> <<"w1", "x">>
                                [] c = "dashes" -> <<"-">> [] OTHER -> <<"other">>]
Quoted == [c \in ChunkSet |-> IF c = "brief" THEN 2 ELSE 1]
Stubs == [c \in ChunkSet |-> IF c = "long" THEN <<"stub">> ELSE <<>>]
BySource == <<"by", "source">>

\* Two requests of a kind, over two addresses and two passwords.
Symmetry == Permutations(Emails)

\* No document is one that cannot be read, no job one that is over, without
\* requests all of them are answered, and no export has begun.
NoDocument ==
  /\ doc = [format |-> "other", runes |-> <<>>] /\ stage = "failed"
  /\ read = 0 /\ inTag = FALSE /\ text = <<>> /\ rest = 1 /\ from = 1 /\ to = 0
  /\ chunks = <<>>
NoJob ==
  /\ round = 2 /\ reply = <<>> /\ hashes = {} /\ batch = <<>> /\ rows = <<>>
  /\ generated = 0 /\ duplicates = 0 /\ validCited = 0
  /\ status = "ready" /\ error = "none"

NoRequest ==
  /\ at = [q \in Requests |-> "done"] /\ now = MaxTime /\ faults = 0
  /\ \E e \in Emails : email = [q \in Requests |-> e]
  /\ password = [q \in Requests |-> CHOOSE p \in Passwords : TRUE]
  /\ accounts = {} /\ lastLogin = [a \in Registrations |-> 0]
  /\ found = [q \in Requests |-> {}] /\ token = [q \in Requests |-> {}]
  /\ answer = [q \in Requests |-> "none"] /\ seen = [q \in Requests |-> 0]

PartsInit ==
  \/ TextInit /\ NoJob /\ NoRequest /\ DeckInit
  \/ NoDocument /\ LoopInit /\ NoRequest /\ DeckInit
  \/ NoDocument /\ NoJob /\ Init /\ DeckInit
  \/ NoDocument /\ NoJob /\ NoRequest /\ DeckInit

\* Only in the last of these states the deck is at work.
PartsNext ==
  \/ TextNext /\ UNCHANGED <<loopVars, vars, deckVars>>
  \/ LoopNext /\ UNCHANGED <<textVars, vars, deckVars>>
  \/ Next /\ UNCHANGED <<textVars, loopVars, deckVars>>
  \/ NoDocument /\ NoJob /\ NoRequest /\ DeckNext /\ UNCHANGED <<textVars, loopVars, vars>>

PartsSpec == PartsInit /\ [][PartsNext]_<<textVars, loopVars, vars, deckVars>>
=============================================================================
