------------------------------ MODULE Gallery -------------------------------
(***************************************************************************)
(* One gallery of photos in its order: an artist's portfolio or the photos *)
(* of a product (internal/media).  Only a portfolio has a cover; the rest  *)
(* of the operations are the same two by two.                              *)
(*                                                                         *)
(* A request counts the photos in one statement and writes in another.     *)
(* The list a customer sees is ordered by display_order.                   *)
(***************************************************************************)
EXTENDS Integers, FiniteSets, Sequences, SequencesExt

CONSTANTS
  Photo,
  NoPhoto,
  Caller,      \* the requests the API serves at a time
  MaxPhotos,   \* MaxPortfolioPhotos, MaxProductPhotos
  LastPlace    \* bounds display_order

ASSUME GalleryParameters ==
  /\ NoPhoto \notin Photo /\ IsFiniteSet(Photo)
  /\ MaxPhotos \in Nat \ {0} /\ LastPlace \in Nat

VARIABLES
  place,    \* display_order of each photo, Gone without a row
  caller,   \* where each request is
  cover     \* history: the photo last made cover, no reorder since

galleryVars == <<place, caller, cover>>

-----------------------------------------------------------------------------

Gone == -1
CallerRow == [step : {"idle", "add", "cover", "reorder"}, seen : Nat, of : Photo \cup {NoPhoto}]
Resting == [step |-> "idle", seen |-> 0, of |-> NoPhoto]

GalleryInit ==
  /\ place = [p \in Photo |-> Gone]
  /\ caller = [q \in Caller |-> Resting]
  /\ cover = NoPhoto

Kept == {p \in Photo : place[p] # Gone}
Steps(q, row) == caller' = [caller EXCEPT ![q] = row]

RoomFor(n) == n < MaxPhotos

CountPhotos(q) ==
  /\ caller[q].step = "idle" /\ RoomFor(Cardinality(Kept))
  /\ Steps(q, [Resting EXCEPT !.step = "add", !.seen = Cardinality(Kept)])
  /\ UNCHANGED <<place, cover>>

Stored(p) == place[p] # Gone
Create(p, at) == place' = [place EXCEPT ![p] = at]
Delete(p) == place' = [place EXCEPT ![p] = Gone]

\* At the place that the count names.
AddPhoto(q, p) ==
  /\ caller[q].step = "add" /\ ~Stored(p)
  /\ Create(p, caller[q].seen)
  /\ Steps(q, Resting)
  /\ UNCHANGED cover

DeletePhoto(p) ==
  /\ Stored(p)
  /\ Delete(p)
  /\ cover' = IF cover = p THEN NoPhoto ELSE cover
  /\ UNCHANGED caller

ChooseCover(q, p) ==
  /\ caller[q].step = "idle" /\ Stored(p)
  /\ Steps(q, [Resting EXCEPT !.step = "cover", !.of = p])
  /\ UNCHANGED <<place, cover>>

\* Mutant: this one to the top, then all up by one.
CoverThenShift(p) ==
  [r \in Photo |->
     IF place[r] = Gone THEN Gone ELSE IF r = p THEN 1 ELSE place[r] + 1]

\* One transaction: all up by one, then this one to the top.
Promoted(p) ==
  [r \in Photo |->
     IF place[r] = Gone THEN Gone ELSE IF r = p THEN 0 ELSE place[r] + 1]

SetCover(q) ==
  LET p == caller[q].of
  IN /\ caller[q].step = "cover"
     /\ \A r \in Kept : place[r] < LastPlace
     /\ place' = Promoted(p)
     /\ cover' = IF place[p] = Gone THEN NoPhoto ELSE p
     /\ Steps(q, Resting)

CountForReorder(q, n) ==
  /\ caller[q].step = "idle" /\ Cardinality(Kept) = n
  /\ Steps(q, [Resting EXCEPT !.step = "reorder", !.seen = n])
  /\ UNCHANGED <<place, cover>>

\* The list has as many ids as the count said, not necessarily these photos
\* nor each once: the UPDATEs run in its order, and an id without a row is
\* passed over.
Reorder(q, ids) ==
  /\ caller[q].step = "reorder" /\ Len(ids) = caller[q].seen
  /\ place' = [p \in Photo |->
       IF place[p] = Gone \/ p \notin ToSet(ids) THEN place[p]
       ELSE (CHOOSE i \in DOMAIN ids : ids[i] = p /\ \A j \in i + 1 .. Len(ids) : ids[j] # p) - 1]
  /\ cover' = NoPhoto
  /\ Steps(q, Resting)

GalleryNext ==
  \/ \E q \in Caller :
       \/ CountPhotos(q) \/ SetCover(q)
       \/ \E p \in Photo : AddPhoto(q, p) \/ ChooseCover(q, p)
       \/ \E n \in 1 .. Cardinality(Photo) : CountForReorder(q, n)
       \/ \E ids \in SeqOf(Photo, Cardinality(Photo)) : Reorder(q, ids)
  \/ \E p \in Photo : DeletePhoto(p)

GallerySpec == GalleryInit /\ [][GalleryNext]_galleryVars

-----------------------------------------------------------------------------
(* Properties.                                                             *)

\* Types: every photo has a place or none.
GalleryTypeOK ==
  /\ place \in [Photo -> Int]
  /\ caller \in [Caller -> CallerRow]
  /\ cover \in Photo \cup {NoPhoto}

\* The photo made cover comes before all others until the gallery is
\* reordered, also while others are added; only a photo that was counted
\* into an empty gallery may tie with it.
CoverIsFirst ==
  cover # NoPhoto =>
    \A p \in Kept \ {cover} :
      place[p] > place[cover] \/ (place[p] = 0 /\ place[cover] = 0)

\* A new photo is appended at the end: no photo has a higher display_order.
\* Does not hold of two uploads that read the same maximum.
NewPhotoIsLast ==
  [][\A p \in Photo :
       place[p] = Gone /\ place'[p] # Gone => \A r \in Kept : place[r] < place'[p]]_galleryVars

=============================================================================
