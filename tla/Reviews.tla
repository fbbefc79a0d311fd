------------------------------ MODULE Reviews -------------------------------
(***************************************************************************)
(* Reviews and the averages cached from them (internal/review): writing,   *)
(* hiding, showing and deleting a review each recompute artists.rating and *)
(* stores.rating in the transaction that changes the review.               *)
(*                                                                         *)
(* The transactions are READ COMMITTED.  A statement sees what was         *)
(* committed when it began and what its own transaction wrote; one that    *)
(* waits for a row's lock does not look again at the other tables once the *)
(* lock is free.  A cached average is the set of reviews it was taken      *)
(* over.  The bookings are completed visits to one store.                  *)
(***************************************************************************)
EXTENDS FiniteSets

CONSTANTS
  Visit,     \* completed bookings; a review has the id of its booking
  Artist,
  Writer,    \* the requests the API serves at a time
  NoVisit    \* the booking of a request that has none

ASSUME ReviewsParameters == NoVisit \notin Visit

VARIABLES
  server,      \* the artist of each booking
  review,      \* the table reviews, as committed
  artistMean,  \* artists.rating and review_count
  storeMean,   \* stores.rating and review_count
  writer,      \* where each request is
  met          \* history: the transaction overlapped with another

reviewVars == <<server, review, artistMean, storeMean, writer, met>>

-----------------------------------------------------------------------------

\* venue: the optional salon_rating was answered.
Absent == [state |-> "none", venue |-> FALSE]
ReviewRow == [state : {"none", "visible", "hidden"}, venue : BOOLEAN]
Changes == {"create", "delete", "hide", "show"}
\* idle, statement by statement, and the two updates that wait for a lock.
WriterSteps ==
  {"idle", "begin", "write", "artist", "artistLock", "store", "storeLock", "commit"}
\* puts: the row the transaction leaves; known: storeIDForReviewTx found the
\* store; seen: the reviews the statement counts.
WriterRow == [step : WriterSteps, change : Changes, of : Visit \cup {NoVisit},
              puts : ReviewRow, known : BOOLEAN,
              seen : SUBSET Visit, artistSeen : SUBSET Visit]

Free == [step |-> "idle", change |-> "create", of |-> NoVisit, puts |-> Absent,
         known |-> FALSE, seen |-> {}, artistSeen |-> {}]

ReviewsInit ==
  /\ server \in [Visit -> Artist]
  /\ review = [v \in Visit |-> Absent]
  /\ artistMean = [a \in Artist |-> {}]
  /\ storeMean = {}
  /\ writer = [w \in Writer |-> Free]
  /\ met = [w \in Writer |-> FALSE]

InTransaction(w) == writer[w].step \notin {"idle", "begin"}
AtStep(w, step) == writer[w].step = step
Goes(w, row) == writer' = [writer EXCEPT ![w] = row]

Shown(rows) == {v \in Visit : rows[v].state = "visible"}
ShownOf(rows, a) == {v \in Shown(rows) : server[v] = a}
Answered(rows) == {v \in Shown(rows) : rows[v].venue}

\* What a statement of the transaction sees.
SeenBy(w) == [review EXCEPT ![writer[w].of] = writer[w].puts]

\* Row locks, each held until the transaction ends.
ReviewLocked(v, w) ==
  \E x \in Writer \ {w} : InTransaction(x) /\ ~AtStep(x, "write") /\ writer[x].of = v
ArtistLocked(a, w) ==
  \E x \in Writer \ {w} :
    writer[x].step \in {"store", "storeLock", "commit"} /\ server[writer[x].of] = a
StoreLocked(w) ==
  \E x \in Writer \ {w} : AtStep(x, "commit") /\ writer[x].known

Unwritten == <<server, review, artistMean, storeMean>>

-----------------------------------------------------------------------------
(* The checks, before the transaction.                                     *)

\* By its booking, or by its own id.
Reviewed(v) == review[v].state # "none"

\* Signed in or by the link of the review token: the visit is completed and
\* the customer's.
CreateReview(w, v, venue) ==
  /\ AtStep(w, "idle") /\ ~Reviewed(v)
  /\ Goes(w, [Free EXCEPT !.step = "begin", !.change = "create", !.of = v,
                          !.puts = [state |-> "visible", venue |-> venue]])
  /\ UNCHANGED <<Unwritten, met>>

DeleteReview(w, v) ==
  /\ AtStep(w, "idle") /\ Reviewed(v)
  /\ Goes(w, [Free EXCEPT !.step = "begin", !.change = "delete", !.of = v])
  /\ UNCHANGED <<Unwritten, met>>

SetReviewVisibility(w, v, change) ==
  /\ AtStep(w, "idle") /\ Reviewed(v)
  /\ Goes(w, [Free EXCEPT !.step = "begin", !.change = change, !.of = v])
  /\ UNCHANGED <<Unwritten, met>>

-----------------------------------------------------------------------------
(* The transaction.                                                        *)

\* Mutant: the store is looked for once the review is gone.
StoreOfWhatIsLeft(row, left) == left.state # "none"

\* A review that is already gone leaves nothing to recompute for the store.
StoreIDForReview(row, left) == row.state # "none" \/ left.state # "none"

\* The row to leave behind: an UPDATE of no row is no error.
RowAfter(row, change, puts) ==
  IF change = "create" THEN puts
  ELSE IF row.state = "none" THEN Absent
  ELSE [row EXCEPT !.state = IF change = "hide" THEN "hidden" ELSE "visible"]

Meets(w) ==
  met' = [x \in Writer |->
    IF x = w THEN \E y \in Writer \ {w} : InTransaction(y) ELSE met[x] \/ InTransaction(x)]

\* A deletion looks for the store first: afterwards there is no row to ask.
FindStore(w) ==
  /\ AtStep(w, "begin") /\ writer[w].change = "delete"
  /\ Goes(w, [writer[w] EXCEPT !.step = "write",
                               !.known = StoreIDForReview(review[writer[w].of], Absent)])
  /\ Meets(w)
  /\ UNCHANGED Unwritten

DeleteRow(w) ==
  /\ AtStep(w, "write") /\ ~ReviewLocked(writer[w].of, w)
  /\ Goes(w, [writer[w] EXCEPT !.step = "artist"])
  /\ UNCHANGED <<Unwritten, met>>

\* The unique booking_id: a second review of the visit ends here.
WriteReview(w) ==
  LET v == writer[w].of
      left == RowAfter(review[v], writer[w].change, writer[w].puts)
  IN /\ AtStep(w, "begin") /\ writer[w].change # "delete" /\ ~ReviewLocked(v, w)
     /\ IF writer[w].change = "create" /\ review[v].state # "none"
        THEN Goes(w, Free) /\ UNCHANGED met
        ELSE /\ Goes(w, [writer[w] EXCEPT !.step = "artist", !.puts = left,
                                          !.known = StoreIDForReview(review[v], left)])
             /\ Meets(w)
     /\ UNCHANGED Unwritten

RecomputeArtistRating(w) ==
  /\ AtStep(w, "artist")
  /\ Goes(w, [writer[w] EXCEPT !.step = "artistLock",
                !.artistSeen = ShownOf(SeenBy(w), server[writer[w].of])])
  /\ UNCHANGED <<Unwritten, met>>

LockArtist(w) ==
  /\ AtStep(w, "artistLock") /\ ~ArtistLocked(server[writer[w].of], w)
  /\ Goes(w, [writer[w] EXCEPT !.step = IF writer[w].known THEN "store" ELSE "commit"])
  /\ UNCHANGED <<Unwritten, met>>

RecomputeStoreRating(w) ==
  /\ AtStep(w, "store")
  /\ Goes(w, [writer[w] EXCEPT !.step = "storeLock", !.seen = Answered(SeenBy(w))])
  /\ UNCHANGED <<Unwritten, met>>

LockStore(w) ==
  /\ AtStep(w, "storeLock") /\ ~StoreLocked(w)
  /\ Goes(w, [writer[w] EXCEPT !.step = "commit"])
  /\ UNCHANGED <<Unwritten, met>>

Commit(w) ==
  /\ AtStep(w, "commit")
  /\ review' = SeenBy(w)
  /\ artistMean' = [artistMean EXCEPT ![server[writer[w].of]] = writer[w].artistSeen]
  /\ storeMean' = IF writer[w].known THEN writer[w].seen ELSE storeMean
  /\ Goes(w, Free)
  /\ UNCHANGED <<server, met>>

Rollback(w) ==
  /\ InTransaction(w)
  /\ Goes(w, Free)
  /\ UNCHANGED <<Unwritten, met>>

ReviewStep(w) ==
  \/ \E v \in Visit : (\E venue \in BOOLEAN : CreateReview(w, v, venue)) \/ DeleteReview(w, v)
  \/ \E v \in Visit, change \in {"hide", "show"} : SetReviewVisibility(w, v, change)
  \/ FindStore(w) \/ DeleteRow(w) \/ WriteReview(w)
  \/ RecomputeArtistRating(w) \/ LockArtist(w) \/ RecomputeStoreRating(w) \/ LockStore(w) \/ Commit(w) \/ Rollback(w)

ReviewsNext == \E w \in Writer : ReviewStep(w)

ReviewsSpec == ReviewsInit /\ [][ReviewsNext]_reviewVars

-----------------------------------------------------------------------------
(* Properties.                                                             *)

\* Types: the tables, the caches and the requests keep their shape.
ReviewsTypeOK ==
  /\ server \in [Visit -> Artist]
  /\ review \in [Visit -> ReviewRow]
  /\ artistMean \in [Artist -> SUBSET Visit]
  /\ storeMean \in SUBSET Visit
  /\ writer \in [Writer -> WriterRow]
  /\ met \in [Writer -> BOOLEAN]

\* A change that meets no other leaves both averages over exactly the
\* reviews that show, whatever earlier changes left in them.
RecountIsExact ==
  [][\A w \in Writer :
       AtStep(w, "commit") /\ writer'[w].step = "idle" /\ ~met[w] /\ review' # review
       => /\ artistMean'[server[writer[w].of]] = ShownOf(review', server[writer[w].of])
          /\ storeMean' = Answered(review')]_reviewVars

\* A reader can never see a review that its store's average does not account
\* for.  Does not hold: two recounts of one salon that overlap each miss the
\* other's review.
StoreAccountsForAll == Answered(review) \subseteq storeMean

=============================================================================
