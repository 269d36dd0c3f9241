------------------------- MODULE DeckExport_proofs -------------------------
(***************************************************************************)
(* Proofs about DeckExport, for any users, decks, jobs, contents, exports, *)
(* limit and number of faults.                                             *)
(***************************************************************************)
EXTENDS DeckExport, FiniteSetTheorems, TLAPS

\* The sequence made of a finite set has each of its members once.
LEMMA SeqOfSet ==
  ASSUME NEW S, IsFiniteSet(S)
  PROVE  /\ Cardinality(S) \in Nat
         /\ SetToSeq(S) \in [1..Cardinality(S) -> S]
         /\ \A k, l \in 1..Cardinality(S) : SetToSeq(S)[k] = SetToSeq(S)[l] => k = l
<1>1. Cardinality(S) \in Nat /\ ExistsBijection(1..Cardinality(S), S)
  BY FS_CardinalityType
<1>2. PICK f \in [1..Cardinality(S) -> S] :
        \A k, l \in 1..Cardinality(S) : f[k] = f[l] => k = l
  BY <1>1 DEF ExistsBijection, Bijection, Injection, IsInjective
<1>3. \E g \in [1..Cardinality(S) -> S] : IsInjective(g)
  BY <1>2 DEF IsInjective
<1>4. SetToSeq(S) \in [1..Cardinality(S) -> S] /\ IsInjective(SetToSeq(S))
  BY <1>3 DEF SetToSeq
<1> QED BY <1>1, <1>4 DEF IsInjective

\* What a run appends: drafts of contents its job does not have, each once.
LEMMA NewRows ==
  ASSUME ExportAssumption, NEW j \in Jobs, NEW batch \in SUBSET Contents, NEW t \in Times
  PROVE  /\ Rows(j, batch, t) \in Seq(CardRow)
         /\ \A k \in DOMAIN Rows(j, batch, t) :
              /\ Rows(j, batch, t)[k].job = j
              /\ Holding(j, Rows(j, batch, t)[k].content) = {}
         /\ \A k, l \in DOMAIN Rows(j, batch, t) :
              Rows(j, batch, t)[k].content = Rows(j, batch, t)[l].content => k = l
<1> DEFINE new == {c \in batch : Holding(j, c) = {}}
<1> DEFINE order == SetToSeq(new)
<1> DEFINE row(k) == [job |-> j, content |-> order[k], created |-> t, status |-> "draft"]
<1>1. IsFiniteSet(new)
  BY FS_Subset DEF ExportAssumption
<1>2. /\ Cardinality(new) \in Nat
      /\ order \in [1..Cardinality(new) -> new]
      /\ \A k, l \in 1..Cardinality(new) : order[k] = order[l] => k = l
  BY <1>1, SeqOfSet
<1>3. Rows(j, batch, t) = [k \in 1..Cardinality(new) |-> row(k)]
  BY DEF Rows
<1> HIDE DEF order
<1>4. \A k \in 1..Cardinality(new) : row(k) \in CardRow /\ Holding(j, order[k]) = {}
  BY <1>2 DEF CardRow, CardStatuses
<1>5. \A k \in 1..Cardinality(new) : row(k).job = j /\ row(k).content = order[k]
  OBVIOUS
<1> HIDE DEF row
<1>6. /\ Rows(j, batch, t) \in [1..Cardinality(new) -> CardRow]
      /\ DOMAIN Rows(j, batch, t) = 1..Cardinality(new)
      /\ \A k \in 1..Cardinality(new) : Rows(j, batch, t)[k] = row(k)
  BY <1>3, <1>4
<1> HIDE DEF new
<1>7. Rows(j, batch, t) \in Seq(CardRow)
  <2>1. \A n \in Nat : \A f \in [1..n -> CardRow] : f \in Seq(CardRow)
    OBVIOUS
  <2> QED BY <2>1, <1>2, <1>6
<1> QED BY <1>2, <1>4, <1>5, <1>6, <1>7

-----------------------------------------------------------------------------
(* The table of cards. *)

\* The table only grows, and a card keeps its job and its time.
Grows ==
  \A i \in DOMAIN cards :
    /\ i \in DOMAIN cards'
    /\ cards'[i].job = cards[i].job /\ cards'[i].created = cards[i].created

LEMMA StoreTable ==
  ASSUME ExportAssumption, cards \in Seq(CardRow), CardsDiffer,
         NEW j \in Jobs, NEW batch \in SUBSET Contents, NEW t \in Times, Upsert(j, batch, t)
  PROVE  /\ cards' \in Seq(CardRow) /\ CardsDiffer' /\ Grows
         /\ \A i \in DOMAIN cards : cards'[i] = cards[i]
<1> DEFINE rows == Rows(j, batch, t)
<1>1. /\ rows \in Seq(CardRow)
      /\ \A k \in DOMAIN rows : rows[k].job = j /\ Holding(j, rows[k].content) = {}
      /\ \A k, l \in DOMAIN rows : rows[k].content = rows[l].content => k = l
  BY NewRows
<1>2. cards' = cards \o rows
  BY DEF Upsert
<1> HIDE DEF rows
<1>3. /\ cards' \in Seq(CardRow)
      /\ DOMAIN cards \subseteq DOMAIN cards'
      /\ \A i \in DOMAIN cards : cards'[i] = cards[i]
      /\ \A i \in DOMAIN cards' \ DOMAIN cards :
           i - Len(cards) \in DOMAIN rows /\ cards'[i] = rows[i - Len(cards)]
  BY <1>1, <1>2
<1>4. CardsDiffer'
  <2> SUFFICES ASSUME NEW i \in DOMAIN cards', NEW k \in DOMAIN cards',
                      cards'[i].job = cards'[k].job, cards'[i].content = cards'[k].content
               PROVE  i = k
    BY DEF CardsDiffer
  <2>1. CASE i \in DOMAIN cards /\ k \in DOMAIN cards
    BY <2>1, <1>3 DEF CardsDiffer
  <2>2. CASE i \notin DOMAIN cards /\ k \notin DOMAIN cards
    <3>1. i - Len(cards) = k - Len(cards)
      BY <2>2, <1>1, <1>3
    <3>2. i \in Int /\ k \in Int /\ Len(cards) \in Int
      BY <1>3
    <3> QED BY <3>1, <3>2
  <2>3. ASSUME NEW a \in DOMAIN cards, NEW b \in DOMAIN cards' \ DOMAIN cards,
               cards'[a].job = cards'[b].job, cards'[a].content = cards'[b].content
        PROVE  FALSE
    <3> DEFINE k0 == b - Len(cards)
    <3>0. k0 \in DOMAIN rows /\ cards'[b] = rows[k0]
      BY <1>3
    <3> HIDE DEF k0
    <3>1. cards'[b].job = j /\ Holding(j, cards'[b].content) = {}
      BY <3>0, <1>1
    <3>2. a \in Holding(j, cards'[b].content)
      BY <2>3, <3>1, <1>3 DEF Holding
    <3> QED BY <3>1, <3>2
  <2> QED BY <2>1, <2>2, <2>3
<1> QED BY <1>3, <1>4 DEF Grows

LEMMA PatchTable ==
  ASSUME cards \in Seq(CardRow), CardsDiffer,
         NEW u \in Users, NEW i \in DOMAIN cards, Patch(u, i)
  PROVE  /\ cards' \in Seq(CardRow) /\ CardsDiffer' /\ Grows
         /\ \A k \in DOMAIN cards : k # i => cards'[k] = cards[k]
<1>1. PICK c \in Contents, s \in CardStatuses :
        /\ Accepted(i, [cards[i] EXCEPT !.content = c, !.status = s])
        /\ cards' = [cards EXCEPT ![i] = [cards[i] EXCEPT !.content = c, !.status = s]]
  BY DEF Patch
<1> DEFINE row == [cards[i] EXCEPT !.content = c, !.status = s]
<1>2. /\ row \in CardRow /\ row.job = cards[i].job /\ row.created = cards[i].created
      /\ row.content = c
  <2>1. cards[i] \in CardRow
    OBVIOUS
  <2> QED BY <2>1 DEF CardRow
<1>3. Holding(row.job, row.content) \subseteq {i}
  BY <1>1 DEF Accepted
<1>4. cards' = [cards EXCEPT ![i] = row]
  BY <1>1
<1> HIDE DEF row
<1>5. /\ cards' \in Seq(CardRow) /\ DOMAIN cards' = DOMAIN cards /\ cards'[i] = row
      /\ \A k \in DOMAIN cards : k # i => cards'[k] = cards[k]
  BY <1>2, <1>4
<1>6. CardsDiffer'
  <2> SUFFICES ASSUME NEW k \in DOMAIN cards, NEW l \in DOMAIN cards, k # l,
                      cards'[k].job = cards'[l].job, cards'[k].content = cards'[l].content
               PROVE  FALSE
    BY <1>5 DEF CardsDiffer
  <2>1. ASSUME NEW m \in DOMAIN cards, m # i,
               cards[m].job = row.job, cards[m].content = row.content
        PROVE  FALSE
    BY <2>1, <1>3 DEF Holding
  <2> QED BY <2>1, <1>5 DEF CardsDiffer
<1> QED BY <1>2, <1>5, <1>6 DEF Grows

-----------------------------------------------------------------------------
(* What is listed. *)

\* What may and must be listed is typed, and the user's own.
LEMMA MatchingOwned ==
  ASSUME NEW table \in Seq(CardRow), NEW e \in Exports
  PROVE  /\ Matching(table, e) \subseteq DOMAIN table
         /\ Items(table, Matching(table, e)) \subseteq Item
         /\ \A item \in Items(table, Matching(table, e)) :
              item[1] \in DOMAIN table /\ Owner(table[item[1]]) = ExportUser[e]
<1>1. \A i \in DOMAIN table : i \in Nat /\ table[i] \in CardRow
  OBVIOUS
<1>2. \A i \in DOMAIN table : table[i].content \in Contents
  BY <1>1 DEF CardRow
<1> QED BY <1>1, <1>2 DEF Matching, Items, Item

\* As many items as ids.
LEMMA ItemsCount ==
  ASSUME cards \in Seq(CardRow), NEW ids \in SUBSET DOMAIN cards
  PROVE  Cardinality(Items(cards, ids)) = Cardinality(ids)
<1> DEFINE item(i) == <<i, cards[i].content>>
<1> DEFINE f == [i \in ids |-> item(i)]
<1>1. IsFiniteSet(ids)
  <2>1. DOMAIN cards = 1..Len(cards) /\ Len(cards) \in Int
    OBVIOUS
  <2> QED BY <2>1, FS_Interval, FS_Subset
<1>2. f \in [ids -> Items(cards, ids)] /\ \A i \in ids : f[i] = item(i)
  BY DEF Items
<1>3. \A i, k \in ids : f[i] = f[k] => i = k
  OBVIOUS
<1>4. \A x \in Items(cards, ids) : \E i \in ids : f[i] = x
  BY DEF Items
<1> HIDE DEF f
<1>5. f \in Bijection(ids, Items(cards, ids))
  BY <1>2, <1>3, <1>4 DEF Bijection, Injection, Surjection, IsInjective
<1> QED BY <1>1, <1>5, FS_Bijection DEF ExistsBijection

\* The part of ListingFaithful that is about one export.
ListingOK(e) ==
  /\ listed[e] \subseteq ever[e]
  /\ \A item \in always[e] \ listed[e] : Cardinality(NotOlder(e, item)) >= Limit

\* The newest cards are a faithful listing.
LEMMA NewestFaithful ==
  ASSUME ExportAssumption, DeckInv, NEW e \in Exports, Open(e),
         NEW ids \in Newest(Matching(cards, e)),
         listed'[e] = Items(cards, ids), UNCHANGED <<cards, ever, always>>
  PROVE  ListingOK(e)' /\ listed'[e] \subseteq Items(cards, Matching(cards, e))
<1> DEFINE M == Matching(cards, e)
<1>1. ids \subseteq M /\ M \subseteq DOMAIN cards /\ cards \in Seq(CardRow)
  BY MatchingOwned DEF DeckInv, DeckOK, Newest, Portions
<1>2. always[e] \subseteq Items(cards, M) /\ Items(cards, M) \subseteq ever[e]
  BY DEF DeckInv, HistorySound
<1>3. Items(cards, ids) \subseteq Items(cards, M)
  BY <1>1 DEF Items
<1>4. ASSUME NEW item \in always[e] \ Items(cards, ids)
      PROVE  Cardinality(NotOlder(e, item)') >= Limit
  <2>1. PICK i \in M : item = <<i, cards[i].content>>
    BY <1>2 DEF Items
  <2>2. i \notin ids
    BY <1>4, <2>1 DEF Items
  <2>3. Cardinality(ids) = Limit /\ \A k \in ids : cards[i].created <= cards[k].created
    BY <2>1, <2>2 DEF Newest, Portions
  <2>4. \A k \in DOMAIN cards : cards[k].created \in Nat
    <3>1. \A k \in DOMAIN cards : cards[k] \in CardRow
      BY <1>1
    <3> QED BY <3>1 DEF CardRow, ExportAssumption
  <2>5. NotOlder(e, item)' = {other \in Items(cards, ids) :
                                cards[other[1]].created >= cards[item[1]].created}
    BY DEF NotOlder
  <2>6. \A other \in Items(cards, ids) : cards[other[1]].created >= cards[item[1]].created
    BY <2>1, <2>3, <2>4, <1>1 DEF Items
  <2>7. NotOlder(e, item)' = Items(cards, ids)
    BY <2>5, <2>6
  <2>8. Cardinality(Items(cards, ids)) = Limit
    BY <1>1, <2>3, ItemsCount
  <2> QED BY <2>7, <2>8 DEF ExportAssumption
<1> QED BY <1>2, <1>3, <1>4 DEF ListingOK

-----------------------------------------------------------------------------
(* Runs and users: the table changes, and the open requests watch. *)

LEMMA TableChange ==
  ASSUME ExportAssumption, DeckInv, cards' \in Seq(CardRow), CardsDiffer', Grows,
         Watch, UNCHANGED <<exportVars, exportFaults>>
  PROVE  DeckInv'
<1> DEFINE now(e) == Items(cards', Matching(cards', e))
<1>1. /\ cards \in Seq(CardRow)
      /\ {listed, ever, always} \subseteq [Exports -> SUBSET Item]
  BY DEF DeckInv, DeckOK
<1>2. \A e \in Exports : now(e) \subseteq Item
  BY MatchingOwned
<1> HIDE DEF now
<1>3. /\ ever'   = [e \in Exports |-> IF Open(e) THEN ever[e] \cup now(e) ELSE ever[e]]
      /\ always' = [e \in Exports |-> IF Open(e) THEN always[e] \cap now(e) ELSE always[e]]
  BY DEF Watch, now
<1>4. UNCHANGED <<exportStatus, where, listed, file, exportFaults>>
  BY DEF exportVars
<1>5. ever' \in [Exports -> SUBSET Item] /\ always' \in [Exports -> SUBSET Item]
  BY <1>1, <1>2, <1>3
<1>6. DeckOK'
  BY <1>4, <1>5 DEF DeckInv, DeckOK
<1>7. ASSUME NEW e \in Exports
      PROVE  ClosedSound(e)' /\ HistorySound(e)' /\ ListedOwned(e)'
  <2>1. ClosedSound(e)'
    BY <1>4 DEF DeckInv, ClosedSound
  <2>2. HistorySound(e)'
    <3>1. Open(e) => always'[e] \subseteq now(e) /\ now(e) \subseteq ever'[e]
      BY <1>3
    <3> QED BY <3>1, <1>4 DEF HistorySound, Open, now
  <2>3. ListedOwned(e)'
    BY <1>4 DEF DeckInv, ListedOwned, Grows, Owner
  <2> QED BY <2>1, <2>2, <2>3
<1>8. ASSUME NEW e \in Exports, Listed(e)'
      PROVE  ListingOK(e)'
  <2>1. Listed(e) /\ Open(e)
    BY <1>4, <1>8 DEF Listed, Open
  <2>2. listed[e] \subseteq ever[e]
        /\ \A item \in always[e] \ listed[e] : Cardinality(NotOlder(e, item)) >= Limit
    BY <2>1 DEF DeckInv, ListingFaithful
  <2>3. ever[e] \subseteq ever'[e] /\ always'[e] \subseteq always[e] /\ listed'[e] = listed[e]
    BY <2>1, <1>3, <1>4
  <2>4. ASSUME NEW item \in always[e]
        PROVE  NotOlder(e, item)' = NotOlder(e, item)
    <3>1. item[1] \in DOMAIN cards
      <4>1. item \in Items(cards, Matching(cards, e))
        BY <2>1, <2>4 DEF DeckInv, HistorySound
      <4> QED BY <4>1, <1>1, MatchingOwned
    <3>2. \A other \in listed[e] : other[1] \in DOMAIN cards
      BY DEF DeckInv, ListedOwned
    <3>3. \A i \in DOMAIN cards : cards'[i].created = cards[i].created
      BY DEF Grows
    <3>4. \A other \in listed[e] :
            cards'[other[1]].created >= cards'[item[1]].created
              <=> cards[other[1]].created >= cards[item[1]].created
      BY <3>1, <3>2, <3>3
    <3> QED BY <3>4, <2>3 DEF NotOlder
  <2> QED BY <2>2, <2>3, <2>4 DEF ListingOK
<1>9. ListingFaithful'
  BY <1>8 DEF ListingFaithful, ListingOK
<1> QED BY <1>6, <1>7, <1>9 DEF DeckInv

-----------------------------------------------------------------------------
(* Requests: the table stays, and so do the other requests. *)

\* What is invariant of one export.
Sound(e) ==
  /\ ClosedSound(e) /\ HistorySound(e) /\ ListedOwned(e)
  /\ Listed(e) => ListingOK(e)
  /\ file[e] = NoFile \/ file[e] \subseteq listed[e]

Typed ==
  /\ exportStatus \in [Exports -> Statuses]
  /\ where \in [Exports -> ExportSteps]
  /\ {listed, ever, always} \subseteq [Exports -> SUBSET Item]
  /\ file \in [Exports -> SUBSET (Item \cup NoFile)]
  /\ exportFaults \in 0..MaxExportFaults

LEMMA InvParts ==
  DeckInv <=> cards \in Seq(CardRow) /\ CardsDiffer /\ Typed /\ \A e \in Exports : Sound(e)
<1>1. ListingFaithful <=> \A e \in Exports : Listed(e) => ListingOK(e)
  BY DEF ListingFaithful, ListingOK
<1> QED BY <1>1 DEF DeckInv, DeckOK, Typed, Sound

\* An export that does not change, over a table that does not, stays sound.
LEMMA SoundStays ==
  ASSUME NEW e \in Exports, Sound(e), UNCHANGED cards,
         UNCHANGED <<exportStatus[e], where[e], listed[e], file[e], ever[e], always[e]>>
  PROVE  Sound(e)'
<1>1. \A item : NotOlder(e, item)' = NotOlder(e, item)
  BY DEF NotOlder
<1>2. ListingOK(e) => ListingOK(e)'
  BY <1>1 DEF ListingOK
<1> QED BY <1>2 DEF Sound, ClosedSound, HistorySound, ListedOwned, Listed, Open

\* Only the export e changes.
Only(e) ==
  \A k \in Exports \ {e} :
    UNCHANGED <<exportStatus[k], where[k], listed[k], file[k], ever[k], always[k]>>

LEMMA RequestChange ==
  ASSUME DeckInv, NEW e \in Exports, UNCHANGED cards, Typed', Only(e), Sound(e)'
  PROVE  DeckInv'
<1>1. \A k \in Exports : Sound(k)
  BY InvParts
<1>2. \A k \in Exports \ {e} : Sound(k)'
  BY <1>1, SoundStays DEF Only
<1>3. CardsDiffer' /\ cards' \in Seq(CardRow)
  BY DEF DeckInv, DeckOK, CardsDiffer
<1> QED BY <1>2, <1>3, InvParts DEF DeckInv, DeckOK, CardsDiffer, ListingFaithful, ListingOK, Sound, Typed

\* A request that goes on to `step` with what it has listed.
LEMMA MoveSound ==
  ASSUME ExportAssumption, DeckInv, NEW e \in Exports, NEW step \in ExportSteps \ {"none"},
         Open(e), Go(e, step), UNCHANGED <<cards, listed, ever, always>>,
         step \in {"prepare", "write", "finish"} => Listed(e),
         exportStatus' \in [Exports -> Statuses],
         file' \in [Exports -> SUBSET (Item \cup NoFile)], exportFaults' \in 0..MaxExportFaults,
         \A k \in Exports \ {e} : exportStatus'[k] = exportStatus[k] /\ file'[k] = file[k],
         file'[e] = NoFile \/ file'[e] \subseteq listed[e],
         ClosedSound(e)'
  PROVE  DeckInv'
<1>1. /\ where \in [Exports -> ExportSteps] /\ where' = [where EXCEPT ![e] = step]
      /\ {listed, ever, always} \subseteq [Exports -> SUBSET Item]
  BY DEF DeckInv, DeckOK, Go
<1>2. where'[e] = step /\ (\A k \in Exports \ {e} : where'[k] = where[k]) /\ where' \in [Exports -> ExportSteps]
  BY <1>1
<1>3. Typed'
  BY <1>1, <1>2 DEF Typed
<1>4. Only(e)
  BY <1>2 DEF Only
<1>5. HistorySound(e)'
  BY DEF DeckInv, HistorySound
<1>6. ListedOwned(e)'
  BY DEF DeckInv, ListedOwned
<1>7. Listed(e)' => ListingOK(e)'
  <2>1. Listed(e) => ListingOK(e)
    BY DEF DeckInv, ListingFaithful, ListingOK
  <2>2. \A item : NotOlder(e, item)' = NotOlder(e, item)
    BY DEF NotOlder
  <2>3. Listed(e)' => Listed(e)
    BY <1>2 DEF Listed
  <2> QED BY <2>1, <2>2, <2>3 DEF ListingOK
<1>8. Sound(e)'
  BY <1>5, <1>6, <1>7 DEF Sound
<1> QED BY <1>3, <1>4, <1>8, RequestChange

\* No part of a listing looks like the absence of a file.
LEMMA PartIsFile ==
  ASSUME DeckInv, NEW e \in Exports, NEW part \in SUBSET listed[e]
  PROVE  part # NoFile /\ part \in SUBSET (Item \cup NoFile)
<1>1. \A item \in listed[e] : item[1] \in DOMAIN cards
  BY DEF DeckInv, ListedOwned
<1>2. 0 \notin DOMAIN cards
  BY DEF DeckInv, DeckOK
<1>3. <<0, "no file">> \notin listed[e]
  BY <1>1, <1>2
<1>4. listed[e] \subseteq Item
  BY DEF DeckInv, DeckOK
<1> QED BY <1>3, <1>4 DEF NoFile

\* What MarkFinished does to the table of exports.
LEMMA MarkFinishedFacts ==
  ASSUME DeckInv, NEW e \in Exports, NEW to \in Statuses, MarkFinished(e, to)
  PROVE  /\ exportStatus' \in [Exports -> Statuses]
         /\ \A k \in Exports \ {e} : exportStatus'[k] = exportStatus[k]
         /\ exportStatus'[e] = IF exportStatus[e] = "running" THEN to ELSE exportStatus[e]
  BY DEF DeckInv, DeckOK, MarkFinished, Set

LEMMA CreateKeeps ==
  ASSUME ExportAssumption, DeckInv, NEW e \in Exports, where[e] = "none",
         Set(e, "pending"), UNCHANGED <<cards, listed, file>>, exportFaults' \in 0..MaxExportFaults,
         NEW step \in {"created", "answered"}, Go(e, step),
         \/ /\ ever' = [ever EXCEPT ![e] = Items(cards, Matching(cards, e))]
            /\ always' = [always EXCEPT ![e] = Items(cards, Matching(cards, e))]
         \/ UNCHANGED <<ever, always>> /\ step = "answered"
  PROVE  DeckInv'
<1> DEFINE now == Items(cards, Matching(cards, e))
<1>1. now \subseteq Item
  BY MatchingOwned DEF DeckInv, DeckOK
<1> HIDE DEF now
<1>2. Typed
  BY InvParts
<1>3. \/ ever' = [ever EXCEPT ![e] = now] /\ always' = [always EXCEPT ![e] = now]
      \/ UNCHANGED <<ever, always>> /\ step = "answered"
  BY DEF now
<1>4. /\ Typed' /\ Only(e)
      /\ where'[e] = step /\ exportStatus'[e] = "pending"
      /\ step = "created" => ever'[e] = now /\ always'[e] = now
  BY <1>1, <1>2, <1>3 DEF Typed, Only, Set, Go, Statuses, ExportSteps
<1>5. Sound(e)
  BY InvParts
<1>6. ClosedSound(e)'
  BY <1>4, <1>5 DEF Sound, ClosedSound
<1>7. HistorySound(e)'
  BY <1>4 DEF HistorySound, Open, now
<1>8. ListedOwned(e)' /\ ~Listed(e)'
  BY <1>4, <1>5 DEF Sound, ListedOwned, Listed
<1>9. Sound(e)'
  BY <1>5, <1>6, <1>7, <1>8 DEF Sound
<1> QED BY <1>4, <1>9, RequestChange

LEMMA ListKeeps ==
  ASSUME ExportAssumption, DeckInv, NEW e \in Exports, List(e)
  PROVE  DeckInv'
<1>1. PICK ids \in Newest(Matching(cards, e)) :
        listed' = [listed EXCEPT ![e] = Items(cards, ids)]
  BY DEF List
<1>2. Typed /\ Sound(e) /\ where[e] = "list" /\ cards \in Seq(CardRow)
  BY InvParts DEF List, DeckInv, DeckOK
<1>3. listed'[e] = Items(cards, ids) /\ \A k \in Exports \ {e} : listed'[k] = listed[k]
  BY <1>1, <1>2 DEF Typed
<1>4. ListingOK(e)' /\ listed'[e] \subseteq Items(cards, Matching(cards, e))
  BY <1>1, <1>2, <1>3, NewestFaithful DEF List, Open
<1>5. /\ listed'[e] \subseteq Item
      /\ \A item \in listed'[e] : item[1] \in DOMAIN cards
                                  /\ Owner(cards[item[1]]) = ExportUser[e]
  BY <1>2, <1>4, MatchingOwned
<1>6. /\ where' = [where EXCEPT ![e] = "prepare"]
      /\ UNCHANGED <<cards, exportStatus, file, ever, always, exportFaults>>
  BY DEF List, Go
<1>7. Typed' /\ Only(e) /\ where'[e] = "prepare"
  BY <1>1, <1>2, <1>5, <1>6 DEF Typed, Only, ExportSteps
<1>8. ClosedSound(e)' /\ file'[e] = NoFile
  BY <1>2, <1>6, <1>7 DEF Sound, ClosedSound
<1>9. HistorySound(e)'
  BY <1>2, <1>6 DEF Sound, HistorySound, Open
<1>10. ListedOwned(e)'
  BY <1>5, <1>6 DEF ListedOwned, Owner
<1>11. Sound(e)'
  BY <1>4, <1>8, <1>9, <1>10 DEF Sound
<1> QED BY <1>6, <1>7, <1>11, RequestChange

\* One more fault is still within the bound.
LEMMA FaultBounded ==
  ASSUME ExportAssumption, DeckInv, ExportFault
  PROVE  exportFaults' \in 0..MaxExportFaults
  BY DEF ExportAssumption, DeckInv, DeckOK, ExportFault

\* The calls of a request that go well.
LEMMA RequestKeeps ==
  ASSUME ExportAssumption, DeckInv, NEW e \in Exports, Request(e)
  PROVE  DeckInv'
<1>1. /\ Typed /\ Sound(e) /\ ClosedSound(e)
      /\ file[e] = NoFile \/ file[e] \subseteq listed[e]
  BY InvParts DEF Sound
<1>2. CASE CreateExport(e)
  BY <1>2, <1>1, CreateKeeps DEF CreateExport, Typed
<1>3. CASE MarkRunning(e)
  <2>1. PICK step \in {"list", "answered"}, to \in {"running", exportStatus[e]} :
          /\ Go(e, step) /\ where[e] = "created"
          /\ exportStatus' = [exportStatus EXCEPT ![e] = to]
          /\ UNCHANGED <<cards, listed, file, ever, always, exportFaults>>
    BY <1>3, <1>1 DEF MarkRunning, Typed, Set
  <2>2. /\ exportStatus' \in [Exports -> Statuses] /\ exportStatus'[e] = to
        /\ \A k \in Exports \ {e} : exportStatus'[k] = exportStatus[k]
        /\ where'[e] = step
    BY <2>1, <1>1 DEF Typed, Statuses, Go
  <2>3. ClosedSound(e)'
    BY <2>1, <2>2, <1>1 DEF ClosedSound
  <2> QED BY <2>1, <2>2, <2>3, <1>1, MoveSound DEF Open, ExportSteps, Typed
<1>4. CASE List(e)
  BY <1>4, ListKeeps
<1>5. CASE Prepare(e)
  <2>1. PICK step \in {"write", "fail"} : Go(e, step)
    BY <1>5 DEF Prepare
  <2>2. /\ where'[e] = step /\ where[e] = "prepare"
        /\ UNCHANGED <<cards, exportStatus, listed, file, ever, always, exportFaults>>
    BY <1>5, <2>1, <1>1 DEF Prepare, Go, Typed
  <2>3. ClosedSound(e)'
    BY <2>2, <1>1 DEF ClosedSound
  <2> QED BY <2>1, <2>2, <2>3, <1>1, MoveSound DEF Open, Listed, ExportSteps, Typed
<1>6. CASE Write(e)
  <2>1. /\ where[e] = "write" /\ Go(e, "finish") /\ where'[e] = "finish"
        /\ file' = [file EXCEPT ![e] = listed[e]]
        /\ UNCHANGED <<cards, exportStatus, listed, ever, always, exportFaults>>
    BY <1>6, <1>1 DEF Write, Go, Typed
  <2>2. listed[e] # NoFile /\ listed[e] \in SUBSET (Item \cup NoFile)
    BY PartIsFile
  <2>3. /\ file' \in [Exports -> SUBSET (Item \cup NoFile)] /\ file'[e] = listed[e]
        /\ \A k \in Exports \ {e} : file'[k] = file[k]
    BY <2>1, <2>2, <1>1 DEF Typed
  <2>4. ClosedSound(e)'
    BY <2>1, <2>2, <2>3, <1>1 DEF ClosedSound
  <2> QED BY <2>1, <2>3, <2>4, <1>1, MoveSound DEF Open, Listed, ExportSteps, Typed
<1>7. ASSUME NEW to \in {"ready", "failed"}, where[e] \in {"finish", "fail"},
             to = "ready" => where[e] = "finish", MarkFinished(e, to), Go(e, "answered"),
             UNCHANGED <<cards, listed, file, ever, always, exportFaults>>
      PROVE  DeckInv'
  <2>1. /\ exportStatus' \in [Exports -> Statuses]
        /\ \A k \in Exports \ {e} : exportStatus'[k] = exportStatus[k]
        /\ exportStatus'[e] = IF exportStatus[e] = "running" THEN to ELSE exportStatus[e]
    BY <1>7, MarkFinishedFacts DEF Statuses
  <2>2. where'[e] = "answered"
    BY <1>7, <1>1 DEF Go, Typed
  <2>3. ClosedSound(e)'
    BY <2>1, <2>2, <1>7, <1>1 DEF ClosedSound
  <2> QED BY <2>1, <2>3, <1>7, <1>1, MoveSound DEF Open, ExportSteps, Typed
<1>8. CASE FinishExport(e)
  BY <1>7, <1>8 DEF FinishExport
<1>9. CASE FailExport(e)
  BY <1>7, <1>9 DEF FailExport
<1> QED BY <1>2, <1>3, <1>4, <1>5, <1>6, <1>8, <1>9 DEF Request

\* The calls that fail, and the request that stops.
LEMMA DisturbedKeeps ==
  ASSUME ExportAssumption, DeckInv, NEW e \in Exports, ExportDisturbed(e)
  PROVE  DeckInv'
<1>1. /\ Typed /\ Sound(e) /\ ClosedSound(e)
      /\ file[e] = NoFile \/ file[e] \subseteq listed[e]
  BY InvParts DEF Sound
<1>2. exportFaults' \in 0..MaxExportFaults
  BY FaultBounded DEF ExportDisturbed, CallFails, StepFails, FlushFails, Abandoned
\* The request ends; of its row only the status may change.
<1>3. ASSUME NEW to \in Statuses, Open(e), Go(e, "answered"),
             exportStatus' = [exportStatus EXCEPT ![e] = to],
             to = "ready" => where[e] = "finish" \/ exportStatus[e] = "ready",
             UNCHANGED <<cards, listed, file, ever, always>>
      PROVE  DeckInv'
  <2>1. /\ exportStatus' \in [Exports -> Statuses] /\ exportStatus'[e] = to
        /\ \A k \in Exports \ {e} : exportStatus'[k] = exportStatus[k]
        /\ where'[e] = "answered"
    BY <1>3, <1>1 DEF Typed, Go
  <2>2. ClosedSound(e)'
    BY <2>1, <1>3, <1>1 DEF ClosedSound
  <2> QED BY <2>1, <2>2, <1>1, <1>2, <1>3, MoveSound DEF ExportSteps, Typed
\* The request goes on, with what is left of its file.
<1>4. ASSUME NEW step \in {"finish", "fail"}, Go(e, step), where[e] \in {"list", "write"},
             NEW part, file' = [file EXCEPT ![e] = part],
             part \in SUBSET listed[e] \/ (part = NoFile /\ step = "fail"),
             step = "finish" => where[e] = "write",
             UNCHANGED <<cards, exportStatus, listed, ever, always>>
      PROVE  DeckInv'
  <2>1. part \in SUBSET (Item \cup NoFile) /\ (step = "finish" => part # NoFile)
    BY <1>4, PartIsFile
  <2>2. /\ file' \in [Exports -> SUBSET (Item \cup NoFile)] /\ file'[e] = part
        /\ \A k \in Exports \ {e} : file'[k] = file[k]
        /\ where'[e] = step
    BY <2>1, <1>4, <1>1 DEF Typed, Go
  <2>3. ClosedSound(e)'
    BY <2>1, <2>2, <1>4, <1>1 DEF ClosedSound
  <2> QED BY <2>2, <2>3, <1>1, <1>2, <1>4, MoveSound DEF Open, Listed, ExportSteps, Typed
<1>5. CASE CallFails(e)
  <2>1. CASE where[e] = "none" /\ Set(e, "pending")
    BY <2>1, <1>2, <1>5, CreateKeeps DEF CallFails
  <2>2. CASE where[e] = "created" /\ Set(e, "running")
    BY <2>2, <1>3, <1>5 DEF CallFails, Open, Set, Statuses
  <2>3. ASSUME NEW to \in {"ready", "failed"}, MarkFinished(e, to),
               to = "ready" => where[e] = "finish", where[e] \in {"finish", "fail"}
        PROVE  DeckInv'
    <3>1. CASE exportStatus[e] = "running"
      BY <3>1, <2>3, <1>3, <1>5 DEF MarkFinished, Set, CallFails, Open, Statuses
    <3>2. CASE exportStatus[e] # "running"
      <4>1. exportStatus' = [exportStatus EXCEPT ![e] = exportStatus[e]] /\ exportStatus[e] \in Statuses
        BY <3>2, <2>3, <1>1 DEF MarkFinished, Typed
      <4> QED BY <4>1, <2>3, <1>3, <1>5 DEF CallFails, Open
    <3> QED BY <3>1, <3>2
  <2>4. CASE where[e] \in {"created", "finish", "fail"} /\ UNCHANGED exportStatus
    <3>1. exportStatus' = [exportStatus EXCEPT ![e] = exportStatus[e]] /\ exportStatus[e] \in Statuses
      BY <2>4, <1>1 DEF Typed
    <3> QED BY <3>1, <2>4, <1>3, <1>5 DEF CallFails, Open
  <2> QED BY <2>1, <2>2, <2>3, <2>4, <1>5 DEF CallFails
<1>6. CASE StepFails(e)
  <2>1. CASE where[e] = "list" /\ UNCHANGED file
    <3>1. file' = [file EXCEPT ![e] = NoFile]
      BY <2>1, <1>1 DEF ClosedSound, Typed
    <3> QED BY <3>1, <2>1, <1>4, <1>6 DEF StepFails
  <2>2. CASE where[e] = "write"
    BY <2>2, <1>4, <1>6 DEF StepFails
  <2> QED BY <2>1, <2>2, <1>6 DEF StepFails
<1>7. CASE FlushFails(e)
  BY <1>4, <1>7 DEF FlushFails
<1>8. CASE Abandoned(e)
  <2>1. exportStatus' = [exportStatus EXCEPT ![e] = exportStatus[e]] /\ exportStatus[e] \in Statuses
    BY <1>1, <1>8 DEF Abandoned, Typed
  <2> QED BY <2>1, <1>3, <1>8 DEF Abandoned, Open
<1> QED BY <1>5, <1>6, <1>7, <1>8 DEF ExportDisturbed

-----------------------------------------------------------------------------
LEMMA DeckStart == ExportAssumption /\ DeckInit => DeckInv
<1> SUFFICES ASSUME ExportAssumption, DeckInit PROVE DeckInv
  OBVIOUS
<1>1. DeckOK
  BY DEF DeckInit, DeckOK, ExportAssumption, Statuses, ExportSteps
<1>2. CardsDiffer /\ ListingFaithful
  BY DEF DeckInit, CardsDiffer, ListingFaithful, Listed
<1>3. \A e \in Exports : ClosedSound(e) /\ HistorySound(e) /\ ListedOwned(e)
  BY DEF DeckInit, ClosedSound, HistorySound, ListedOwned, Open
<1> QED BY <1>1, <1>2, <1>3 DEF DeckInv

LEMMA DeckStep == ExportAssumption /\ DeckInv /\ [DeckNext]_deckVars => DeckInv'
<1> SUFFICES ASSUME ExportAssumption, DeckInv, [DeckNext]_deckVars PROVE DeckInv'
  OBVIOUS
<1>1. cards \in Seq(CardRow) /\ CardsDiffer
  BY DEF DeckInv, DeckOK
<1>2. ASSUME NEW j \in Jobs, NEW batch \in SUBSET Contents, NEW t \in Times,
             StoreCards(j, batch, t)
      PROVE  DeckInv'
  BY <1>1, <1>2, StoreTable, TableChange DEF StoreCards
<1>3. ASSUME NEW u \in Users, NEW i \in DOMAIN cards, Patch(u, i)
      PROVE  DeckInv'
  <2>1. Watch /\ UNCHANGED <<exportVars, exportFaults>>
    BY <1>3 DEF Patch
  <2> QED BY <2>1, <1>1, <1>3, PatchTable, TableChange
<1>4. ASSUME NEW e \in Exports, Request(e) \/ ExportDisturbed(e)
      PROVE  DeckInv'
  BY <1>4, RequestKeeps, DisturbedKeeps
<1>5. CASE UNCHANGED deckVars
  <2>1. UNCHANGED <<cards, exportStatus, where, listed, file, ever, always, exportFaults>>
    BY <1>5 DEF deckVars, exportVars
  <2>2. Typed' /\ CardsDiffer' /\ cards' \in Seq(CardRow)
    BY <2>1, <1>1, InvParts DEF Typed, CardsDiffer
  <2>3. \A e \in Exports : Sound(e)'
    BY <2>1, InvParts, SoundStays
  <2> QED BY <2>2, <2>3, InvParts
      DEF DeckInv, DeckOK, CardsDiffer, ListingFaithful, ListingOK, Sound, Typed
<1> QED BY <1>2, <1>3, <1>4, <1>5 DEF DeckNext

-----------------------------------------------------------------------------
\* DeckInv is invariant: whatever runs, users and failing requests do, a request
\* knows what its cards were.
THEOREM DeckInvariance == DeckSpec => []DeckInv
<1>1. DeckInit => DeckInv
  BY ExportAssumption, DeckStart
<1>2. DeckInv /\ [DeckNext]_deckVars => DeckInv'
  BY ExportAssumption, DeckStep
<1> QED BY <1>1, <1>2, PTL DEF DeckSpec

\* Type correctness: a file has only cards its request listed.
THEOREM DeckTypes == DeckSpec => []DeckOK
<1>1. DeckInv => DeckOK
  BY DEF DeckInv
<1> QED BY <1>1, DeckInvariance, PTL

\* The cards of a job differ, though runs store them again and users edit them.
THEOREM CardsOfJobDiffer == DeckSpec => []CardsDiffer
<1>1. DeckInv => CardsDiffer
  BY DEF DeckInv
<1> QED BY <1>1, DeckInvariance, PTL

\* A listing has only cards approved during the request, and leaves one that was
\* approved all the time out only for Limit others that are not older.
THEOREM ListingsFaithful == DeckSpec => []ListingFaithful
<1>1. DeckInv => ListingFaithful
  BY DEF DeckInv
<1> QED BY <1>1, DeckInvariance, PTL

\* No file has a card of another user.
THEOREM FilesOwned == DeckSpec => []NothingForeign
<1>1. DeckInv => NothingForeign
  BY DEF DeckInv, DeckOK, ListedOwned, NothingForeign
<1> QED BY <1>1, DeckInvariance, PTL

\* A ready export has a file, in whatever order its calls fail.
THEOREM ReadyExportsHaveFiles == DeckSpec => []ReadyHasFile
<1>1. DeckInv => ReadyHasFile
  BY DEF DeckInv, ClosedSound, ReadyHasFile
<1> QED BY <1>1, DeckInvariance, PTL

\* Only a patch of its owner changes a card: no run that is started again does.
THEOREM CardsChangedByOwners == DeckSpec => OnlyOwnersChangeCards
<1>1. DeckInv /\ [DeckNext]_deckVars =>
        [\A i \in DOMAIN cards :
           /\ i \in DOMAIN cards'
           /\ cards'[i] # cards[i] => Patch(Owner(cards[i]), i)]_deckVars
  <2> DEFINE Kept ==
        \A i \in DOMAIN cards :
          /\ i \in DOMAIN cards'
          /\ cards'[i] # cards[i] => Patch(Owner(cards[i]), i)
  <2> SUFFICES ASSUME DeckInv, DeckNext PROVE Kept
    OBVIOUS
  <2>1. cards \in Seq(CardRow) /\ CardsDiffer
    BY DEF DeckInv, DeckOK
  <2>2. ASSUME NEW j \in Jobs, NEW batch \in SUBSET Contents, NEW t \in Times,
               StoreCards(j, batch, t)
        PROVE  Kept
    BY <2>1, <2>2, ExportAssumption, StoreTable DEF StoreCards, Grows
  <2>3. ASSUME NEW u \in Users, NEW i \in DOMAIN cards, Patch(u, i)
        PROVE  Kept
    <3>1. Owner(cards[i]) = u
      BY <2>3 DEF Patch
    <3> QED BY <3>1, <2>1, <2>3, PatchTable DEF Grows
  <2>4. ASSUME NEW e \in Exports, Request(e) \/ ExportDisturbed(e)
        PROVE  Kept
    <3>1. UNCHANGED cards
      BY <2>4 DEF Request, ExportDisturbed, CreateExport, MarkRunning, List, Prepare, Write, FinishExport,
                  FailExport, CallFails, StepFails, FlushFails, Abandoned
    <3> QED BY <3>1
  <2> QED BY <2>2, <2>3, <2>4 DEF DeckNext
<1> QED BY <1>1, DeckInvariance, PTL DEF DeckSpec, OnlyOwnersChangeCards
=============================================================================
