---------------------------- MODULE MCDeckExport ----------------------------
(* Small instances of DeckExport for TLC: the owner of a deck reviews and     *)
(* exports it, another user names it in an export of his own.                 *)
EXTENDS DeckExport

CONSTANTS owner, other, deck, job, x1, x2

JobUsers  == job :> owner
JobDecks  == job :> deck
Exporters == [e \in Exports |-> IF e = x1 THEN owner ELSE other]
OneDeck   == [e \in Exports |-> deck]
=============================================================================
