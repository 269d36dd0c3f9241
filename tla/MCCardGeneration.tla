------------------------- MODULE MCCardGeneration -------------------------
(* Small instances of CardGeneration for TLC: two rounds, five cards. *)
EXTENDS CardGeneration, TLC

CONSTANTS a, b, c, d, x,  \* cards; x is what the auto-fix makes of b and c
          k1, k2, gone  \* chunks; gone is not one of the source's

\* The second round is nearest to the other chunk.
TwoChunks == (1 :> <<k1, k2>>) @@ (2 :> <<k2, k1>>)

\* A model that may answer the first round in two ways; the second round repeats a
\* card of one of them, and two answers are fixed to the same text.
VaryingReplies == (1 :> {<<a, b>>, <<d>>}) @@ (2 :> {<<b, c>>})

\* A card with a citation, one without, one with two.
SoundCites == (a :> {k1}) @@ (b :> {}) @@ (c :> {k1, k2}) @@ (d :> {k1}) @@ (x :> {k2})

\* A card that cites a chunk the model made up.
HallucinatedCites == (a :> {gone}) @@ (b :> {}) @@ (c :> {k1, k2}) @@ (d :> {k1}) @@ (x :> {k2})

FixedCards == (a :> a) @@ (b :> x) @@ (c :> x) @@ (d :> d) @@ (x :> x)
=============================================================================
