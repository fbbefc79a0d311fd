--------------------------- MODULE DiariesProofs ----------------------------
(***************************************************************************)
(* For any artists, stores, roads, networks and requests: appointments of  *)
(* one artist never overlap and leave her the road between stores, a       *)
(* network's holds stay under the cap, and the locks never deadlock.       *)
(*                                                                         *)
(* The argument: a request that has written holds the lock of the artist   *)
(* it writes for (Shape), which nobody else has, and its rows are its own  *)
(* (Apart), so what it found of her diary - room for a hold (Room), no     *)
(* overlap (Fitting), the road kept (Checked) - is still so when it        *)
(* commits.  The lock is on the right artist as long as no booking changes *)
(* hands under a request that moves it (Straight).                         *)
(*                                                                         *)
(* The slot list and the gaps of a day are what the hours, the rota, the   *)
(* appointments and the roads leave, minute by minute.                     *)
(***************************************************************************)
EXTENDS MCDiaries, FoldProofs, TLAPS

-----------------------------------------------------------------------------
(* What is known of a request, whichever step it is at.                    *)

Wrote(r) == r.stage \in {"check", "commit"}

\* By itself.
Shape(r) ==
  /\ r.stage = "idle" => r.errand = "insert" /\ r.ids = {}
  /\ r.stage = "find" => r.errand \in {"move", "shift"}
  /\ r.stage = "count" => r.errand = "insert"
  /\ r.stage = "second" => r.errand = "reassign"
  /\ r.stage \in {"idle", "find", "lock"} => r.locks = {}
  /\ r.stage = "second" => r.locks = {FirstOf(r)}
  /\ r.stage \in {"count", "write", "check", "commit"} => r.locks = {r.from, r.to}
  /\ r.errand = "reassign" => r.from # r.to /\ r.roads = r.to
  /\ r.errand # "reassign" => r.from = r.to
  /\ r.errand = "insert" => r.roads = r.to
  /\ r.errand = "insert" /\ r.stage # "idle" => r.store \in WorksAt[r.to]
  /\ r.errand = "insert" /\ ~Wrote(r) => r.ids = {}
  /\ r.errand # "insert" => r.client = NoClient
  /\ r.errand \in {"move", "shift"} => r.lead \subseteq r.ids

\* What it writes, against the committed row.
Put(r, b) ==
  /\ r.errand = "insert" =>
       /\ r.ids = {b} /\ diary[b].status = "none"
       /\ r.puts[b] = [status |-> "held", artist |-> r.to, store |-> r.store,
                       start |-> r.at, client |-> r.client]
  /\ r.errand = "move" =>
       diary[b].status = "standing" /\ r.puts[b] = [diary[b] EXCEPT !.start = r.at]
  /\ r.errand = "shift" => r.puts[b] = [diary[b] EXCEPT !.start = @ + r.at]
  /\ r.errand = "reassign" =>
       /\ diary[b].status = "standing" /\ diary[b].artist = r.from
       /\ r.puts[b] = [diary[b] EXCEPT !.artist = r.to]

Backed(r) ==
  /\ r.errand # "insert" => \A b \in r.ids : diary[b].status # "none"
  /\ r.errand = "reassign" => \A b \in r.ids : diary[b].store \in WorksAt[r.to]
  /\ Wrote(r) => \A b \in r.ids : Put(r, b)

Conflict(e, f) == Blocks(e) /\ Blocks(f) /\ e.artist = f.artist /\ Meet(e, f)

\* The exclusion constraint, of what it writes and of the table.
Fitting(r) ==
  Wrote(r) =>
    /\ \A b \in r.ids, c \in r.ids : b # c => ~Conflict(r.puts[b], r.puts[c])
    /\ \A b \in r.ids, c \in Booking \ r.ids : ~Conflict(r.puts[b], diary[c])

\* There is room for the hold it counted for.
Room(r) ==
  r.client # NoClient /\ r.stage \in {"write", "check", "commit"} =>
    Cardinality(HoldsOf(diary, r.to, r.client)) < MaxHolds

\* The bookings it moves are still with the artist it locks.
Straight(r) ==
  r.errand \in {"move", "shift"} =>
    /\ \A b \in r.ids : diary[b].artist = r.roads
    /\ r.stage # "find" => r.to = r.roads

Seen(r, b) == IF b \in r.ids THEN r.puts[b] ELSE diary[b]
TooClose(e, f) ==
  /\ Blocks(e) /\ Blocks(f) /\ e.artist = f.artist /\ e.store # f.store
  /\ TooFar(e, f, Road[e.artist])

\* The road was kept in what it saw, and still is.
Checked(r) ==
  r.stage = "commit" => \A b \in r.ids, c \in Booking : ~TooClose(Seen(r, b), Seen(r, c))

Own(r) ==
  /\ Shape(r) /\ Backed(r) /\ Fitting(r) /\ Room(r)
  /\ crossed \/ (Straight(r) /\ Checked(r))

\* Of two requests: no lock is held twice, no row is written twice.
Apart(q, r) ==
  /\ q.locks \cap r.locks = {}
  /\ Wrote(q) /\ Wrote(r) =>
       /\ q.ids \cap r.ids = {}
       /\ \A b \in q.ids, c \in r.ids : ~Conflict(q.puts[b], r.puts[c])

StoresWork == \A b \in Booking : diary[b].status # "none" => diary[b].store \in WorksAt[diary[b].artist]

\* The exclusion constraint, of the table.
NoOverlap == \A b, c \in Booking : b # c => ~Conflict(diary[b], diary[c])

IInv ==
  /\ DiariesTypeOK /\ StoresWork /\ NoOverlap /\ HoldsAreCapped /\ RoadIsKept
  /\ \A w \in Writer : Own(writer[w])
  /\ \A w \in Writer, x \in Writer : w # x => Apart(writer[w], writer[x])

-----------------------------------------------------------------------------
(* The pieces a step is put together from.                                 *)

LEMMA NowhereTyped == Nowhere \in Entry /\ Unsent \in Request
  <1>1. Nowhere.artist \in Artist /\ Nowhere.store \in Store
    BY DiaryParameters DEF Nowhere
  <1>2. Nowhere \in Entry
    BY <1>1 DEF Nowhere, Entry, Standings
  <1> QED BY <1>1, <1>2 DEF Unsent, Request, Stages, Errands

LEMMA ConflictSymmetric ==
  ASSUME NEW e \in Entry, NEW f \in Entry
  PROVE  Conflict(e, f) <=> Conflict(f, e)
  BY DEF Conflict, Meet, Blocks

LEMMA TooCloseSymmetric ==
  ASSUME NEW e \in Entry, NEW f \in Entry
  PROVE  TooClose(e, f) <=> TooClose(f, e)
  BY DEF TooClose, TooFar, Blocks

LEMMA ApartSymmetric ==
  ASSUME NEW q \in Request, NEW r \in Request, Apart(q, r)
  PROVE  Apart(r, q)
  <1>1. \A b \in Booking, c \in Booking : Conflict(q.puts[b], r.puts[c]) <=> Conflict(r.puts[c], q.puts[b])
    BY ConflictSymmetric DEF Request
  <1>2. q.ids \subseteq Booking /\ r.ids \subseteq Booking
    BY DEF Request
  <1> QED BY <1>1, <1>2 DEF Apart

\* A step that changes where one request is and nothing else.
LEMMA QuietOK ==
  ASSUME IInv, NEW w \in Writer, NEW r \in Request, Sets(w, r),
         UNCHANGED <<diary, lapsed, crossed>>, Own(r),
         \A x \in Writer : x # w => Apart(r, writer[x])
  PROVE  IInv'
  <1>1. writer \in [Writer -> Request]
    BY DEF IInv, DiariesTypeOK
  <1>2. writer'[w] = r /\ \A x \in Writer : x # w => writer'[x] = writer[x]
    BY <1>1 DEF Sets
  <1>3. writer' \in [Writer -> Request]
    BY <1>1 DEF Sets
  <1>4. DiariesTypeOK'
    BY <1>3 DEF IInv, DiariesTypeOK
  <1>5. StoresWork' /\ NoOverlap' /\ RoadIsKept'
    BY DEF IInv, StoresWork, NoOverlap, RoadIsKept, Conflict, OnTheRoad
  <1>6. HoldsAreCapped'
    BY DEF IInv, HoldsAreCapped, HoldsOf
  <1>7. ASSUME NEW x \in Writer PROVE Own(writer[x])'
    <2>1. Own(writer'[x])
      BY <1>2 DEF IInv
    <2> QED
      BY <2>1 DEF Own, Shape, Backed, Fitting, Room, Straight, Checked, HoldsOf, Put, Seen
  <1>8. ASSUME NEW x \in Writer, NEW y \in Writer, x # y PROVE Apart(writer[x], writer[y])'
    <2>1. Apart(writer'[x], writer'[y])
      BY <1>1, <1>2, <1>8, ApartSymmetric DEF IInv
    <2> QED BY <2>1 DEF Apart
  <1> QED BY <1>4, <1>5, <1>6, <1>7, <1>8 DEF IInv

LEMMA UnsentKnown ==
  /\ Own(Unsent)
  /\ \A x \in Writer : Apart(Unsent, writer[x])
  <1>1. Own(Unsent)
    BY DEF Own, Unsent, Shape, Backed, Fitting, Room, Straight, Checked, Wrote
  <1> QED BY <1>1 DEF Unsent, Apart, Wrote

LEMMA LeavesOK ==
  ASSUME IInv, NEW w \in Writer, Leaves(w), UNCHANGED <<diary, lapsed, crossed>>
  PROVE  IInv'
  BY NowhereTyped, UnsentKnown, QuietOK DEF Leaves

\* A request without locks that has written nothing is apart from all.
LEMMA UnlockedApart ==
  ASSUME NEW r, r.locks = {}, ~Wrote(r), NEW x
  PROVE  Apart(r, writer[x])
  BY DEF Apart

-----------------------------------------------------------------------------
(* What the service reads.                                                 *)

LEMMA ReadToInsertOK ==
  ASSUME IInv, NEW w \in Writer, NEW a \in Artist, NEW s \in Store, NEW t \in Opening,
         NEW c \in Client \cup {NoClient}, ReadToInsert(w, a, s, t, c)
  PROVE  IInv'
  <1> DEFINE r == [Unsent EXCEPT !.stage = "lock", !.from = a, !.to = a, !.roads = a,
                                 !.store = s, !.at = t, !.client = c]
  <1>1. r \in Request
    BY NowhereTyped, DiaryParameters DEF Request, Stages
  <1>2. Own(r)
    BY NowhereTyped DEF Own, Unsent, Shape, Backed, Fitting, Room, Straight, Checked, Wrote, ReadToInsert
  <1>3. r.locks = {} /\ ~Wrote(r)
    BY DEF Unsent, Wrote
  <1> HIDE DEF r
  <1>4. Sets(w, r) /\ UNCHANGED <<diary, lapsed, crossed>>
    BY DEF ReadToInsert, r
  <1> QED BY <1>1, <1>2, <1>3, <1>4, QuietOK, UnlockedApart

LEMMA ReadToMoveOK ==
  ASSUME IInv, NEW w \in Writer, NEW b \in Booking, NEW t \in Opening, ReadToMove(w, b, t)
  PROVE  IInv'
  <1> DEFINE r == [Unsent EXCEPT !.stage = "find", !.errand = "move", !.ids = {b}, !.lead = {b},
                                 !.roads = diary[b].artist, !.at = t]
  <1>0. diary[b].artist \in Artist
    BY DEF IInv, DiariesTypeOK, Entry
  <1>1. r \in Request
    BY <1>0, NowhereTyped, DiaryParameters DEF Request, Stages, Errands
  <1>2. Own(r)
    BY NowhereTyped DEF Own, Unsent, Shape, Backed, Fitting, Room, Straight, Checked, Wrote, ReadToMove
  <1>3. r.locks = {} /\ ~Wrote(r)
    BY DEF Unsent, Wrote
  <1> HIDE DEF r
  <1>4. Sets(w, r) /\ UNCHANGED <<diary, lapsed, crossed>>
    BY DEF ReadToMove, r
  <1> QED BY <1>1, <1>2, <1>3, <1>4, QuietOK, UnlockedApart

LEMMA ReadToShiftOK ==
  ASSUME IInv, NEW w \in Writer, NEW a \in Artist, NEW s \in Store, NEW d \in Distances,
         ReadToShift(w, a, s, d)
  PROVE  IInv'
  <1> DEFINE ids == {b \in Booking : Blocks(diary[b]) /\ diary[b].artist = a /\ diary[b].store = s}
             r(b) == [Unsent EXCEPT !.stage = "find", !.errand = "shift", !.ids = ids,
                                    !.lead = {b}, !.roads = a, !.at = d]
  <1>1. PICK b \in ids : Sets(w, r(b)) /\ UNCHANGED <<diary, lapsed, crossed>>
    BY DEF ReadToShift
  <1>2. r(b) \in Request
    BY <1>1, NowhereTyped, DiaryParameters DEF Request, Stages, Errands
  <1>3. Own(r(b))
    BY <1>1, NowhereTyped
       DEF Own, Unsent, Shape, Backed, Fitting, Room, Straight, Checked, Wrote, Blocks
  <1>4. r(b).locks = {} /\ ~Wrote(r(b))
    BY DEF Unsent, Wrote
  <1> HIDE DEF r
  <1> QED BY <1>1, <1>2, <1>3, <1>4, QuietOK, UnlockedApart

LEMMA ReadToReassignOK ==
  ASSUME IInv, NEW w \in Writer, NEW b \in Booking, NEW a \in Artist, ReadToReassign(w, b, a)
  PROVE  IInv'
  <1> DEFINE r == [Unsent EXCEPT !.stage = "lock", !.errand = "reassign", !.ids = {b},
                                 !.from = diary[b].artist, !.to = a, !.roads = a]
  <1>0. diary[b].artist \in Artist
    BY DEF IInv, DiariesTypeOK, Entry
  <1>1. r \in Request
    BY <1>0, NowhereTyped, DiaryParameters DEF Request, Stages, Errands
  <1>2. Own(r)
    BY NowhereTyped DEF Own, Unsent, Shape, Backed, Fitting, Room, Straight, Checked, Wrote, ReadToReassign
  <1>3. r.locks = {} /\ ~Wrote(r)
    BY DEF Unsent, Wrote
  <1> HIDE DEF r
  <1>4. Sets(w, r) /\ UNCHANGED <<diary, lapsed, crossed>>
    BY DEF ReadToReassign, r
  <1> QED BY <1>1, <1>2, <1>3, <1>4, QuietOK, UnlockedApart

-----------------------------------------------------------------------------
(* The transaction, up to its writes.                                      *)

LEMMA RequestTyped ==
  ASSUME IInv, NEW w \in Writer
  PROVE  /\ writer[w] \in Request /\ Own(writer[w])
         /\ \A x \in Writer : x # w => Apart(writer[w], writer[x])
  BY DEF IInv, DiariesTypeOK

LEMMA FindArtistOK ==
  ASSUME IInv, NEW w \in Writer, FindArtist(w)
  PROVE  IInv'
  <1> DEFINE q == writer[w]
             r(b) == [q EXCEPT !.stage = "lock", !.from = diary[b].artist, !.to = diary[b].artist]
  <1>0. q \in Request /\ Own(q) /\ q.stage = "find"
    BY RequestTyped DEF FindArtist, In
  <1>1. PICK b \in q.lead : Sets(w, r(b)) /\ UNCHANGED <<diary, lapsed, crossed>>
    BY DEF FindArtist
  <1>2. b \in Booking /\ diary[b].artist \in Artist /\ b \in q.ids
    BY <1>0, <1>1 DEF IInv, DiariesTypeOK, Request, Entry, Own, Shape
  <1>3. r(b) \in Request
    BY <1>0, <1>2 DEF Request, Stages
  <1>4. Own(r(b))
    BY <1>0, <1>2 DEF Own, Shape, Backed, Fitting, Room, Straight, Checked, Wrote, Request
  <1>5. r(b).locks = {} /\ ~Wrote(r(b))
    BY <1>0 DEF Own, Shape, Wrote, Request
  <1> HIDE DEF r, q
  <1> QED BY <1>1, <1>3, <1>4, <1>5, QuietOK, UnlockedApart

LEMMA LocksTyped ==
  ASSUME NEW r \in Request
  PROVE  /\ FirstOf(r) \in Artist /\ SecondOf(r) \in Artist
         /\ {FirstOf(r), SecondOf(r)} = {r.from, r.to}
         /\ r.from = r.to => FirstOf(r) = r.from
         /\ r.from # r.to => FirstOf(r) < SecondOf(r)
  <1>1. r.from \in Artist /\ r.to \in Artist /\ r.from \in Int /\ r.to \in Int
    BY DiaryParameters DEF Request
  <1>2. CASE r.from <= r.to
    <2>1. FirstOf(r) = r.from /\ SecondOf(r) = r.to
      BY <1>2 DEF FirstOf, SecondOf
    <2> QED BY <1>1, <1>2, <2>1
  <1>3. CASE ~(r.from <= r.to)
    <2>1. FirstOf(r) = r.to /\ r.from # r.to
      BY <1>1, <1>3 DEF FirstOf
    <2>2. SecondOf(r) = r.from
      BY <2>1 DEF SecondOf
    <2> QED BY <1>1, <1>3, <2>1, <2>2
  <1> QED BY <1>2, <1>3

LEMMA LockArtistOK ==
  ASSUME IInv, NEW w \in Writer, LockArtist(w)
  PROVE  IInv'
  <1> DEFINE q == writer[w]
             stage == IF q.errand = "reassign" THEN "second"
                      ELSE IF q.client # NoClient THEN "count" ELSE "write"
             r == [q EXCEPT !.locks = {FirstOf(q)}, !.stage = stage]
  <1>0. q \in Request /\ Own(q) /\ q.stage = "lock"
    BY RequestTyped DEF LockArtist, In
  <1>1. Sets(w, r) /\ UNCHANGED <<diary, lapsed, crossed>> /\ ~Taken(FirstOf(q), w)
    BY DEF LockArtist
  <1>2. r \in Request
    BY <1>0, LocksTyped DEF Request, Stages
  <1>3. FirstOf(r) = FirstOf(q)
    BY <1>0 DEF FirstOf, Request
  <1>4. Own(r)
    <2>1. Shape(r)
      BY <1>0, <1>3, LocksTyped DEF Own, Shape, Wrote, Request
    <2>2. Backed(r) /\ Fitting(r) /\ Room(r) /\ Checked(r)
      BY <1>0 DEF Own, Shape, Backed, Fitting, Room, Checked, Wrote, Request
    <2>3. crossed \/ Straight(r)
      BY <1>0 DEF Own, Straight, Request
    <2> HIDE DEF r
    <2> QED BY <2>1, <2>2, <2>3 DEF Own
  <1>5. \A x \in Writer : x # w => Apart(r, writer[x])
    BY <1>0, <1>1 DEF Apart, Taken, Wrote, Request
  <1> HIDE DEF r
  <1> QED BY <1>1, <1>2, <1>4, <1>5, QuietOK

LEMMA LockSecondOK ==
  ASSUME IInv, NEW w \in Writer, LockSecond(w)
  PROVE  IInv'
  <1> DEFINE q == writer[w]
             r == [q EXCEPT !.locks = @ \cup {SecondOf(q)}, !.stage = "write"]
  <1>0. q \in Request /\ Own(q) /\ q.stage = "second"
    BY RequestTyped DEF LockSecond, In
  <1>1. Sets(w, r) /\ UNCHANGED <<diary, lapsed, crossed>> /\ ~Taken(SecondOf(q), w)
    BY DEF LockSecond
  <1>2. r \in Request
    BY <1>0, LocksTyped DEF Request, Stages
  <1>3. r.locks = {q.from, q.to}
    BY <1>0, LocksTyped DEF Own, Shape, Request
  <1>4. Own(r)
    <2>1. Shape(r)
      BY <1>0, <1>3 DEF Own, Shape, Wrote, Request
    <2>2. Backed(r) /\ Fitting(r) /\ Room(r) /\ Checked(r)
      BY <1>0 DEF Own, Shape, Backed, Fitting, Room, Checked, Wrote, Request
    <2>3. crossed \/ Straight(r)
      BY <1>0 DEF Own, Straight, Request
    <2> HIDE DEF r
    <2> QED BY <2>1, <2>2, <2>3 DEF Own
  <1>5. \A x \in Writer : x # w => Apart(r, writer[x])
    BY <1>0, <1>1, RequestTyped DEF Apart, Taken, Wrote, Request
  <1> HIDE DEF r
  <1> QED BY <1>1, <1>2, <1>4, <1>5, QuietOK

\* A step of a request that only moves its stage on.
LEMMA ComesOK ==
  ASSUME IInv, NEW w \in Writer, NEW stage \in Stages, Comes(w, stage),
         Own([writer[w] EXCEPT !.stage = stage]),
         Wrote([writer[w] EXCEPT !.stage = stage]) => Wrote(writer[w]),
         UNCHANGED <<diary, lapsed, crossed>>
  PROVE  IInv'
  <1> DEFINE r == [writer[w] EXCEPT !.stage = stage]
  <1>1. r \in Request
    BY RequestTyped DEF Request
  <1>2. \A x \in Writer : x # w => Apart(r, writer[x])
    BY RequestTyped DEF Apart, Request
  <1>3. Sets(w, r)
    BY DEF Comes
  <1> HIDE DEF r
  <1>4. Own(r)
    BY DEF r
  <1> QED BY <1>1, <1>2, <1>3, <1>4, QuietOK

LEMMA HoldsCounted ==
  ASSUME NEW a, NEW c
  PROVE  /\ IsFiniteSet(HoldsOf(diary, a, c))
         /\ Cardinality(HoldsOf(diary, a, c)) \in Nat
  BY DiaryParameters, FS_Subset, FS_CardinalityType DEF HoldsOf

LEMMA CountHoldsOK ==
  ASSUME IInv, NEW w \in Writer, CountHolds(w)
  PROVE  IInv'
  <1> DEFINE q == writer[w]
             r == [q EXCEPT !.stage = "write"]
  <1>0. q \in Request /\ Own(q) /\ q.stage = "count"
    BY RequestTyped DEF CountHolds, In
  <1>1. CASE Leaves(w)
    BY <1>1, LeavesOK DEF CountHolds
  <1>2. CASE /\ Comes(w, "write")
             /\ ~(Cardinality(HoldsOf(diary, q.to, q.client)) >= MaxHolds)
    <2>1. Room(r)
      <3>1. Cardinality(HoldsOf(diary, q.to, q.client)) < MaxHolds
        BY <1>2, HoldsCounted, DiaryParameters
      <3>2. r.to = q.to /\ r.client = q.client
        BY <1>0 DEF Request
      <3> QED BY <3>1, <3>2 DEF Room
    <2>2. Shape(r) /\ Backed(r) /\ Fitting(r) /\ Checked(r) /\ (crossed \/ Straight(r)) /\ ~Wrote(r)
      BY <1>0 DEF Own, Shape, Backed, Fitting, Checked, Straight, Wrote, Request
    <2>3. Own(r) /\ "write" \in Stages
      BY <2>1, <2>2 DEF Own, Stages
    <2> QED BY <1>2, <2>2, <2>3, ComesOK DEF CountHolds
  <1> QED BY <1>1, <1>2 DEF CountHolds

LEMMA RollbackOK ==
  ASSUME IInv, NEW w \in Writer, Rollback(w)
  PROVE  IInv'
  BY LeavesOK DEF Rollback

-----------------------------------------------------------------------------
(* Its writes, the road, and the commit.                                   *)

LEMMA SeenKnown ==
  ASSUME IInv, NEW w \in Writer, NEW b \in Booking
  PROVE  Sees(w)[b] = Seen(writer[w], b) /\ Seen(writer[w], b) \in Entry
  BY RequestTyped DEF IInv, DiariesTypeOK, Sees, Seen, Request

\* What is written is for the artist whose lock is held.
LEMMA ArtistLocked ==
  ASSUME IInv, NEW r \in Request, Shape(r), Backed(r), Straight(r), Wrote(r), NEW b \in r.ids
  PROVE  /\ r.puts[b].artist = r.to /\ r.to = r.roads /\ r.to \in r.locks
  <1>1. /\ Put(r, b) /\ r.locks = {r.from, r.to} /\ r.errand \in Errands
        /\ b \in Booking /\ diary[b] \in Entry
    BY DEF Backed, Wrote, Shape, Request, IInv, DiariesTypeOK
  <1>2. CASE r.errand = "insert"
    BY <1>1, <1>2 DEF Put, Shape
  <1>3. CASE r.errand \in {"move", "shift"}
    <2>1. r.puts[b].artist = diary[b].artist
      BY <1>1, <1>3 DEF Put, Entry
    <2> QED BY <1>1, <1>3, <2>1 DEF Straight, Wrote
  <1>4. CASE r.errand = "reassign"
    <2>1. r.puts[b].artist = r.to
      BY <1>1, <1>4 DEF Put, Entry
    <2> QED BY <1>1, <1>4, <2>1 DEF Shape
  <1> QED BY <1>1, <1>2, <1>3, <1>4 DEF Errands

\* What is written is at a store where its artist works, and blocks as a
\* booking does.
LEMMA PutKnown ==
  ASSUME IInv, NEW r \in Request, Shape(r), Backed(r), Wrote(r), NEW b \in r.ids
  PROVE  /\ r.puts[b] \in Entry /\ r.puts[b].status # "none"
         /\ r.puts[b].store \in WorksAt[r.puts[b].artist]
         /\ r.errand # "insert" => /\ r.puts[b].status = diary[b].status
                                   /\ r.puts[b].store = diary[b].store
                                   /\ r.puts[b].client = diary[b].client
  <1>1. /\ Put(r, b) /\ r.errand \in Errands /\ b \in Booking /\ diary[b] \in Entry
        /\ r.puts[b] \in Entry
    BY DEF Backed, Wrote, Shape, Request, IInv, DiariesTypeOK
  <1>2. CASE r.errand = "insert"
    BY <1>1, <1>2 DEF Put, Shape, Wrote
  <1>3. CASE r.errand \in {"move", "shift"}
    <2>1. r.puts[b].artist = diary[b].artist /\ r.puts[b].status = diary[b].status
          /\ r.puts[b].store = diary[b].store /\ r.puts[b].client = diary[b].client
      BY <1>1, <1>3 DEF Put, Entry
    <2>2. diary[b].status # "none"
      BY <1>3 DEF Backed
    <2> QED BY <1>1, <1>3, <2>1, <2>2 DEF IInv, StoresWork
  <1>4. CASE r.errand = "reassign"
    <2>1. r.puts[b].artist = r.to /\ r.puts[b].status = diary[b].status
          /\ r.puts[b].store = diary[b].store /\ r.puts[b].client = diary[b].client
      BY <1>1, <1>4 DEF Put, Entry
    <2> QED BY <1>1, <1>4, <2>1 DEF Backed
  <1> QED BY <1>1, <1>2, <1>3, <1>4 DEF Errands

\* With no way to go, being too far is the overlap the constraint refuses.
LEMMA NoRoadMeets ==
  ASSUME NEW e \in Entry, NEW f \in Entry, TooClose(e, f), Road[e.artist] = 0
  PROVE  Conflict(e, f)
  BY DiaryParameters DEF TooClose, TooFar, Conflict, Meet, Entry

LEMMA CheckRoadOK ==
  ASSUME IInv, NEW w \in Writer, CheckRoad(w)
  PROVE  IInv'
  <1> DEFINE q == writer[w]
             r == [q EXCEPT !.stage = "commit"]
  <1>0. q \in Request /\ Own(q) /\ q.stage = "check" /\ Wrote(q)
    BY RequestTyped DEF CheckRoad, In, Wrote
  <1>1. CASE Leaves(w)
    BY <1>1, LeavesOK DEF CheckRoad
  <1>2. CASE ~Clashes(w) /\ Comes(w, "commit")
    <2>1. Shape(r) /\ Backed(r) /\ Room(r) /\ (crossed \/ Straight(r))
      BY <1>0 DEF Own, Shape, Backed, Room, Straight, Wrote, Put, Request
    <2>2. Fitting(r)
      BY <1>0 DEF Own, Fitting, Wrote, Request
    <2>3. ASSUME ~crossed, NEW b \in q.ids, NEW c \in Booking,
                 TooClose(Seen(q, b), Seen(q, c))
          PROVE  FALSE
      <3> DEFINE e == Seen(q, b)
                 f == Seen(q, c)
      <3>1. b \in Booking /\ e = q.puts[b] /\ e \in Entry /\ f \in Entry
        BY <1>0, SeenKnown DEF Request, Seen
      <3>2. e.artist = q.roads /\ f.artist = q.roads
        BY <1>0, <2>3, <3>1, ArtistLocked DEF Own, TooClose
      <3>3. f.store \in WorksAt[q.roads]
        <4>1. CASE c \in q.ids
          BY <1>0, <3>2, <4>1, PutKnown DEF Own, Seen
        <4>2. CASE c \notin q.ids
          BY <2>3, <3>2, <4>2 DEF Seen, TooClose, Blocks, IInv, StoresWork
        <4> QED BY <4>1, <4>2
      <3>4. ~(Road[q.roads] > 0)
        <4>1. Sees(w)[b] = e /\ Sees(w)[c] = f
          BY <3>1, SeenKnown
        <4>2. f.artist = e.artist /\ f.store # e.store /\ Blocks(f) /\ TooFar(e, f, Road[q.roads])
          BY <2>3, <3>2 DEF TooClose
        <4> HIDE DEF e, f
        <4> QED BY <1>2, <3>3, <4>1, <4>2 DEF Clashes
      <3>5. Road[e.artist] = 0
        BY <1>0, <3>2, <3>4, DiaryParameters DEF Request
      <3>6. Conflict(e, f)
        BY <2>3, <3>1, <3>5, NoRoadMeets
      <3>7. b # c
        BY <2>3 DEF TooClose
      <3> QED BY <1>0, <3>1, <3>6, <3>7 DEF Own, Fitting, Seen
    <2>4. crossed \/ Checked(r)
      <3>1. r.ids = q.ids /\ r.puts = q.puts
        BY <1>0 DEF Request
      <3> QED BY <2>3, <3>1 DEF Checked, Seen
    <2>5. Own(r) /\ "commit" \in Stages /\ (Wrote(r) => Wrote(q))
      <3> HIDE DEF r
      <3> QED BY <1>0, <2>1, <2>2, <2>4 DEF Own, Stages
    <2> QED BY <1>2, <2>5, ComesOK DEF CheckRoad
  <1> QED BY <1>1, <1>2 DEF CheckRoad

\* A request whose statement went through.
Rewritten(q, ids, puts) ==
  [q EXCEPT !.stage = "check", !.ids = ids,
            !.puts = [b \in Booking |-> IF b \in ids THEN puts[b] ELSE Nowhere]]

LEMMA RewrittenKnown ==
  ASSUME NEW q \in Request, NEW ids \in SUBSET Booking, NEW puts \in [Booking -> Entry]
  PROVE  LET r == Rewritten(q, ids, puts)
         IN /\ r \in Request /\ r.stage = "check" /\ r.errand = q.errand /\ r.ids = ids
            /\ r.lead = q.lead /\ r.from = q.from /\ r.to = q.to /\ r.roads = q.roads
            /\ r.store = q.store /\ r.at = q.at /\ r.client = q.client /\ r.locks = q.locks
            /\ \A b \in ids : r.puts[b] = puts[b]
  <1> DEFINE kept == [b \in Booking |-> IF b \in ids THEN puts[b] ELSE Nowhere]
             r == [q EXCEPT !.stage = "check", !.ids = ids, !.puts = kept]
  <1>1. kept \in [Booking -> Entry] /\ \A b \in ids : kept[b] = puts[b]
    BY NowhereTyped
  <1>2. r = Rewritten(q, ids, puts)
    BY DEF Rewritten
  <1> HIDE DEF kept
  <1>3. /\ r \in Request /\ r.stage = "check" /\ r.errand = q.errand /\ r.ids = ids
        /\ r.lead = q.lead /\ r.from = q.from /\ r.to = q.to /\ r.roads = q.roads
        /\ r.store = q.store /\ r.at = q.at /\ r.client = q.client /\ r.locks = q.locks
        /\ r.puts = kept
    BY <1>1 DEF Request, Stages
  <1> HIDE DEF r
  <1> QED BY <1>1, <1>2, <1>3

\* A statement: what the four of them share.
LEMMA WritesOK ==
  ASSUME IInv, NEW w \in Writer, NEW ids \in SUBSET Booking, NEW puts \in [Booking -> Entry],
         NEW allowed, Writes(w, ids, puts, allowed), writer[w].stage = "write",
         NEW r, r = Rewritten(writer[w], ids, puts),
         allowed => Shape(r) /\ Backed(r) /\ (crossed \/ Straight(r))
  PROVE  IInv'
  <1> DEFINE q == writer[w]
  <1>0. q \in Request /\ Own(q) /\ ~Wrote(q)
    BY RequestTyped DEF Wrote
  <1>1. UNCHANGED <<diary, lapsed, crossed>>
    BY DEF Writes
  <1>2. CASE Leaves(w)
    BY <1>1, <1>2, LeavesOK
  <1>3. CASE /\ \A b \in ids : ~RowLocked(b, w)
             /\ allowed /\ Fits(puts, ids, diary)
             /\ \A x \in Writer \ {w} : Written(x) => Fits(puts, ids, Sees(x))
             /\ Sets(w, r)
    <2>2. /\ r \in Request /\ r.stage = "check" /\ r.ids = ids
          /\ r.locks = q.locks /\ r.to = q.to /\ r.client = q.client /\ r.errand = q.errand
      BY <1>0, RewrittenKnown
    <2>3. \A b \in ids : r.puts[b] = puts[b]
      BY <1>0, RewrittenKnown
    <2>4. Fitting(r)
      BY <1>3, <2>2, <2>3 DEF Fitting, Fits, Conflict
    <2>5. Room(r)
      BY <1>0, <2>2 DEF Own, Room
    <2>6. Checked(r)
      BY <2>2 DEF Checked
    <2>7. Own(r)
      BY <1>3, <2>4, <2>5, <2>6 DEF Own
    <2>8. ASSUME NEW x \in Writer, x # w PROVE Apart(r, writer[x])
      <3>1. r.locks \cap writer[x].locks = {}
        BY <2>2, <2>8, RequestTyped DEF Apart
      <3>2. Wrote(writer[x]) => ids \cap writer[x].ids = {}
        BY <1>3, <2>8 DEF RowLocked, Written, Wrote
      <3>3. ASSUME Wrote(writer[x]), NEW b \in ids, NEW c \in writer[x].ids
            PROVE  ~Conflict(puts[b], writer[x].puts[c])
        <4>1. Fits(puts, ids, Sees(x))
          BY <1>3, <2>8, <3>3 DEF Written, Wrote
        <4>2. c \in Booking /\ c \notin ids /\ b # c
          BY <3>2, <3>3, RequestTyped DEF Request
        <4>3. Sees(x)[c] = writer[x].puts[c]
          BY <4>2 DEF Sees
        <4> QED BY <4>1, <4>2, <4>3 DEF Fits, Conflict
      <3> QED BY <2>2, <2>3, <3>1, <3>2, <3>3 DEF Apart
    <2> QED BY <1>1, <1>3, <2>2, <2>7, <2>8, QuietOK
  <1> QED BY <1>2, <1>3 DEF Writes, Rewritten

LEMMA InsertOK ==
  ASSUME IInv, NEW w \in Writer, Insert(w)
  PROVE  IInv'
  <1> DEFINE q == writer[w]
             row == [status |-> "held", artist |-> q.to, store |-> q.store,
                     start |-> q.at, client |-> q.client]
             puts(b) == [Unsent.puts EXCEPT ![b] = row]
             r(b) == Rewritten(q, {b}, puts(b))
  <1>0. q \in Request /\ Own(q) /\ q.stage = "write" /\ q.errand = "insert"
    BY RequestTyped DEF Insert, In
  <1>1. PICK b \in Booking : diary[b].status = "none" /\ Writes(w, {b}, puts(b), TRUE)
    BY DEF Insert
  <1>2. row \in Entry
    BY <1>0 DEF Request, Entry, Standings
  <1>3. Unsent.puts = [c \in Booking |-> Nowhere]
    BY DEF Unsent
  <1>4. puts(b) \in [Booking -> Entry] /\ puts(b)[b] = row
    BY <1>2, <1>3, NowhereTyped
  <1> HIDE DEF puts
  <1>5. /\ r(b).stage = "check" /\ r(b).errand = "insert" /\ r(b).ids = {b} /\ r(b).to = q.to
        /\ r(b).from = q.from /\ r(b).roads = q.roads /\ r(b).store = q.store /\ r(b).at = q.at
        /\ r(b).client = q.client /\ r(b).locks = q.locks /\ r(b).puts[b] = row
    BY <1>0, <1>4, RewrittenKnown
  <1>6. r(b) = Rewritten(writer[w], {b}, puts(b))
    OBVIOUS
  <1> HIDE DEF r
  <1>7. Shape(r(b))
    BY <1>0, <1>5 DEF Own, Shape, Wrote
  <1>8. Put(r(b), b)
    BY <1>1, <1>5 DEF Put
  <1>9. Backed(r(b)) /\ Straight(r(b))
    BY <1>5, <1>8 DEF Backed, Straight
  <1> QED BY <1>0, <1>1, <1>4, <1>6, <1>7, <1>9, WritesOK

\* The three that write over rows that are there.
LEMMA RewritesOK ==
  ASSUME IInv, NEW w \in Writer, writer[w].stage = "write", writer[w].errand # "insert",
         NEW puts \in [Booking -> Entry], NEW allowed,
         Writes(w, writer[w].ids, puts, allowed),
         allowed => \A r \in Request : r.errand = writer[w].errand /\ r.at = writer[w].at
                      /\ r.to = writer[w].to /\ r.from = writer[w].from =>
                      \A b \in writer[w].ids : r.puts[b] = puts[b] => Put(r, b)
  PROVE  IInv'
  <1> DEFINE q == writer[w]
             r == Rewritten(q, q.ids, puts)
  <1>0. q \in Request /\ Own(q) /\ ~Wrote(q) /\ q.ids \in SUBSET Booking
    BY RequestTyped DEF Wrote, Request
  <1>1. /\ r \in Request /\ r.stage = "check" /\ r.errand = q.errand /\ r.ids = q.ids
        /\ r.lead = q.lead /\ r.to = q.to
        /\ r.from = q.from /\ r.roads = q.roads /\ r.store = q.store /\ r.at = q.at
        /\ r.client = q.client /\ r.locks = q.locks
        /\ \A b \in q.ids : r.puts[b] = puts[b]
    BY <1>0, RewrittenKnown
  <1>2. r = Rewritten(writer[w], writer[w].ids, puts)
    OBVIOUS
  <1> HIDE DEF r
  <1>3. Shape(r)
    BY <1>0, <1>1 DEF Own, Shape, Wrote
  <1>4. crossed \/ Straight(r)
    BY <1>0, <1>1 DEF Own, Straight
  <1>5. allowed => Backed(r)
    BY <1>0, <1>1 DEF Own, Backed
  <1> QED BY <1>0, <1>2, <1>3, <1>4, <1>5, WritesOK

LEMMA MoveBookingOK ==
  ASSUME IInv, NEW w \in Writer, MoveBooking(w)
  PROVE  IInv'
  <1> DEFINE q == writer[w]
             puts == [b \in Booking |-> [diary[b] EXCEPT !.start = q.at]]
             allowed == \A b \in q.ids : diary[b].status = "standing"
  <1>0. q \in Request /\ q.stage = "write" /\ q.errand = "move" /\ Writes(w, q.ids, puts, allowed)
    BY RequestTyped DEF MoveBooking, In
  <1>1. puts \in [Booking -> Entry]
    <2>1. q.at \in Int
      BY <1>0 DEF Request
    <2>2. \A b \in Booking : [diary[b] EXCEPT !.start = q.at] \in Entry
      BY <2>1 DEF IInv, DiariesTypeOK, Entry
    <2> QED BY <2>2
  <1>2. allowed => \A r \in Request : r.errand = q.errand /\ r.at = q.at
                     /\ r.to = q.to /\ r.from = q.from =>
                     \A b \in q.ids : r.puts[b] = puts[b] => Put(r, b)
    BY <1>0 DEF Put, Request
  <1> HIDE DEF puts, allowed
  <1> QED BY <1>0, <1>1, <1>2, RewritesOK

LEMMA ShiftBookingsOK ==
  ASSUME IInv, NEW w \in Writer, ShiftBookings(w)
  PROVE  IInv'
  <1> DEFINE q == writer[w]
             puts == [b \in Booking |-> [diary[b] EXCEPT !.start = @ + q.at]]
  <1>0. q \in Request /\ q.stage = "write" /\ q.errand = "shift" /\ Writes(w, q.ids, puts, TRUE)
    BY RequestTyped DEF ShiftBookings, In
  <1>1. puts \in [Booking -> Entry]
    <2>1. q.at \in Int
      BY <1>0 DEF Request
    <2>2. \A b \in Booking : [diary[b] EXCEPT !.start = @ + q.at] \in Entry
      BY <2>1 DEF IInv, DiariesTypeOK, Entry
    <2> QED BY <2>2
  <1>2. TRUE => \A r \in Request : r.errand = q.errand /\ r.at = q.at
                  /\ r.to = q.to /\ r.from = q.from =>
                  \A b \in q.ids : r.puts[b] = puts[b] => Put(r, b)
    BY <1>0 DEF Put, Request
  <1> HIDE DEF puts
  <1> QED BY <1>0, <1>1, <1>2, RewritesOK

LEMMA ReassignBookingOK ==
  ASSUME IInv, NEW w \in Writer, ReassignBooking(w)
  PROVE  IInv'
  <1> DEFINE q == writer[w]
             puts == [b \in Booking |-> [diary[b] EXCEPT !.artist = q.to]]
             allowed == \A b \in q.ids : diary[b].status = "standing" /\ diary[b].artist = q.from
  <1>0. /\ q \in Request /\ q.stage = "write" /\ q.errand = "reassign"
        /\ Writes(w, q.ids, puts, allowed)
    BY RequestTyped DEF ReassignBooking, In
  <1>1. puts \in [Booking -> Entry]
    <2>1. q.to \in Artist
      BY <1>0 DEF Request
    <2>2. \A b \in Booking : [diary[b] EXCEPT !.artist = q.to] \in Entry
      BY <2>1 DEF IInv, DiariesTypeOK, Entry
    <2> QED BY <2>2
  <1>2. allowed => \A r \in Request : r.errand = q.errand /\ r.at = q.at
                     /\ r.to = q.to /\ r.from = q.from =>
                     \A b \in q.ids : r.puts[b] = puts[b] => Put(r, b)
    BY <1>0 DEF Put, Request
  <1> HIDE DEF puts, allowed
  <1> QED BY <1>0, <1>1, <1>2, RewritesOK

LEMMA CommitKnown ==
  ASSUME IInv, NEW w \in Writer, Commit(w)
  PROVE  LET q == writer[w]
         IN /\ q \in Request /\ Own(q) /\ Wrote(q) /\ q.stage = "commit"
            /\ diary' \in [Booking -> Entry]
            /\ \A b \in Booking : diary'[b] = Seen(q, b)
            /\ writer' \in [Writer -> Request] /\ writer'[w] = Unsent
            /\ \A x \in Writer : x # w => writer'[x] = writer[x]
            /\ lapsed' = lapsed /\ crossed' \in BOOLEAN
            /\ ~crossed' => ~crossed /\ ~PassesAMove(w)
  <1>1. writer[w] \in Request /\ Own(writer[w]) /\ writer[w].stage = "commit" /\ Wrote(writer[w])
    BY RequestTyped DEF Commit, In, Wrote
  <1>2. \A b \in Booking : diary'[b] = Seen(writer[w], b) /\ Seen(writer[w], b) \in Entry
    BY SeenKnown DEF Commit
  <1>3. diary' = [b \in Booking |-> diary'[b]]
    BY DEF Commit, Sees
  <1>4. diary' \in [Booking -> Entry]
    BY <1>2, <1>3
  <1>5. /\ writer' \in [Writer -> Request] /\ writer'[w] = Unsent
        /\ \A x \in Writer : x # w => writer'[x] = writer[x]
    BY NowhereTyped DEF Commit, Leaves, Sets, IInv, DiariesTypeOK
  <1>6. /\ lapsed' = lapsed /\ crossed' = (crossed \/ PassesAMove(w))
    BY DEF Commit
  <1>7. crossed' \in BOOLEAN
    BY <1>6 DEF IInv, DiariesTypeOK, PassesAMove
  <1> QED BY <1>1, <1>2, <1>4, <1>5, <1>6, <1>7

\* The table after a commit.
LEMMA CommittedTableOK ==
  ASSUME IInv, NEW w \in Writer, Commit(w)
  PROVE  DiariesTypeOK' /\ StoresWork' /\ NoOverlap' /\ RoadIsKept'
  <1> DEFINE q == writer[w]
  <1>0. /\ q \in Request /\ Own(q) /\ Wrote(q) /\ q.stage = "commit"
        /\ \A b \in Booking : diary'[b] = Seen(q, b)
        /\ \A b \in Booking : Seen(q, b) \in Entry
        /\ q.ids \subseteq Booking
        /\ ~crossed' => ~crossed
    BY CommitKnown, SeenKnown DEF Request
  <1>1. DiariesTypeOK'
    BY CommitKnown DEF DiariesTypeOK, IInv
  <1>2. StoresWork'
    <2>1. ASSUME NEW b \in Booking, diary'[b].status # "none"
          PROVE  diary'[b].store \in WorksAt[diary'[b].artist]
      <3>1. CASE b \in q.ids
        BY <1>0, <3>1, PutKnown DEF Own, Seen
      <3>2. CASE b \notin q.ids
        BY <1>0, <2>1, <3>2 DEF Seen, IInv, StoresWork
      <3> QED BY <3>1, <3>2
    <2> QED BY <2>1 DEF StoresWork
  <1>3. NoOverlap'
    <2>1. ASSUME NEW b \in Booking, NEW c \in Booking, b # c
          PROVE  ~Conflict(Seen(q, b), Seen(q, c))
      <3>1. CASE b \in q.ids
        BY <1>0, <2>1, <3>1 DEF Own, Fitting, Seen
      <3>2. CASE b \notin q.ids /\ c \in q.ids
        <4>1. ~Conflict(Seen(q, c), Seen(q, b))
          BY <1>0, <2>1, <3>2 DEF Own, Fitting, Seen
        <4> QED BY <1>0, <4>1, ConflictSymmetric
      <3>3. CASE b \notin q.ids /\ c \notin q.ids
        BY <2>1, <3>3 DEF Seen, IInv, NoOverlap
      <3> QED BY <3>1, <3>2, <3>3
    <2>2. \A b, c \in Booking : b # c => ~Conflict(diary'[b], diary'[c])
      BY <1>0, <2>1
    <2> QED BY <2>2 DEF NoOverlap, Conflict
  <1>4. RoadIsKept'
    <2>1. ASSUME ~crossed', NEW b \in Booking, NEW c \in Booking
          PROVE  ~TooClose(Seen(q, b), Seen(q, c))
      <3>1. CASE b \in q.ids
        BY <1>0, <2>1, <3>1 DEF Own, Checked
      <3>2. CASE b \notin q.ids /\ c \in q.ids
        <4>1. ~TooClose(Seen(q, c), Seen(q, b))
          BY <1>0, <2>1, <3>2 DEF Own, Checked
        <4> QED BY <1>0, <4>1, TooCloseSymmetric
      <3>3. CASE b \notin q.ids /\ c \notin q.ids
        BY <1>0, <2>1, <3>3 DEF Seen, IInv, RoadIsKept, OnTheRoad, TooClose
      <3> QED BY <3>1, <3>2, <3>3
    <2>2. crossed' \/ \A b, c \in Booking : ~TooClose(diary'[b], diary'[c])
      BY <1>0, <2>1
    <2> QED BY <2>2 DEF RoadIsKept, OnTheRoad, TooClose
  <1> QED BY <1>1, <1>2, <1>3, <1>4

\* Only a hold adds to a network's holds.
LEMMA CommittedHolds ==
  ASSUME IInv, NEW w \in Writer, Commit(w), NEW a, NEW c,
         NEW b \in HoldsOf(diary, a, c)', b \notin HoldsOf(diary, a, c)
  PROVE  LET q == writer[w]
         IN q.errand = "insert" /\ b \in q.ids /\ q.ids = {b} /\ q.to = a /\ q.client = c
  <1> DEFINE q == writer[w]
  <1>0. /\ q \in Request /\ Own(q) /\ Wrote(q) /\ lapsed' = lapsed
        /\ b \in Booking /\ diary'[b] = Seen(q, b)
    BY CommitKnown DEF HoldsOf
  <1>1. b \in Booking \ lapsed /\ diary'[b].status = "held" /\ diary'[b].artist = a /\ diary'[b].client = c
    BY <1>0 DEF HoldsOf
  <1>2. b \in q.ids
    BY <1>0, <1>1 DEF Seen, HoldsOf
  <1>3. Put(q, b) /\ diary'[b] = q.puts[b] /\ q.errand \in Errands /\ diary[b] \in Entry
    BY <1>0, <1>2 DEF Own, Backed, Seen, Request, IInv, DiariesTypeOK
  <1>4. CASE q.errand = "insert"
    BY <1>1, <1>2, <1>3, <1>4 DEF Put
  <1>5. CASE q.errand # "insert"
    <2>1. diary[b].status = "held" /\ diary[b].client = c
      BY <1>0, <1>1, <1>2, <1>3, <1>5, PutKnown DEF Own
    <2>2. q.errand = "shift"
      BY <1>3, <1>5, <2>1 DEF Put, Errands
    <2>3. diary[b].artist = a
      BY <1>1, <1>3, <2>2 DEF Put, Entry
    <2> QED BY <1>1, <2>1, <2>3 DEF HoldsOf
  <1> QED BY <1>4, <1>5

LEMMA CommittedHoldsCapped ==
  ASSUME IInv, NEW w \in Writer, Commit(w)
  PROVE  HoldsAreCapped'
  <1> DEFINE q == writer[w]
  <1>0. /\ q \in Request /\ Own(q) /\ q.stage = "commit"
        /\ HoldsAreCapped /\ MaxHolds \in Nat
    BY CommitKnown, DiaryParameters DEF IInv
  <1>1. ASSUME NEW a \in Artist, NEW c \in Client
        PROVE  Cardinality(HoldsOf(diary, a, c)') <= MaxHolds
    <2> DEFINE H == HoldsOf(diary, a, c)
               K == HoldsOf(diary, a, c)'
    <2>1. IsFiniteSet(H) /\ Cardinality(H) \in Nat /\ Cardinality(H) <= MaxHolds
      BY <1>0, HoldsCounted DEF HoldsAreCapped
    <2>2. CASE K \subseteq H
      <3>1. Cardinality(K) <= Cardinality(H) /\ Cardinality(K) \in Nat
        BY <2>1, <2>2, FS_Subset, FS_CardinalityType
      <3> QED BY <1>0, <2>1, <3>1
    <2>3. CASE ~(K \subseteq H)
      <3>1. PICK b \in K : b \notin H
        BY <2>3
      <3>2. q.ids = {b} /\ q.to = a /\ q.client = c
        BY <3>1, CommittedHolds
      <3>3. K \subseteq H \cup {b}
        BY <3>2, CommittedHolds
      <3>4. Cardinality(H) < MaxHolds
        BY <1>0, <3>2, DiaryParameters DEF Own, Room
      <3>5. IsFiniteSet(H \cup {b}) /\ Cardinality(H \cup {b}) = Cardinality(H) + 1
        BY <2>1, <3>1, FS_AddElement
      <3>6. Cardinality(K) <= Cardinality(H) + 1 /\ Cardinality(K) \in Nat
        BY <3>3, <3>5, FS_Subset, FS_CardinalityType
      <3> QED BY <1>0, <2>1, <3>4, <3>6
    <2> QED BY <2>2, <2>3
  <1>2. \A a \in Artist, c \in Client : Cardinality(HoldsOf(diary, a, c)') <= MaxHolds
    BY <1>1
  <1> QED BY <1>2 DEF HoldsAreCapped

\* The others find what they knew.
LEMMA CommittedOwn ==
  ASSUME IInv, NEW w \in Writer, Commit(w), NEW x \in Writer, x # w
  PROVE  Own(writer[x])'
  <1> DEFINE q == writer[w]
             r == writer[x]
  <1>0. /\ q \in Request /\ Own(q) /\ Wrote(q) /\ r \in Request /\ Own(r) /\ Apart(q, r) /\ Apart(r, q)
        /\ writer'[x] = r /\ lapsed' = lapsed
        /\ \A b \in Booking : diary'[b] = Seen(q, b)
        /\ diary \in [Booking -> Entry] /\ diary' \in [Booking -> Entry]
        /\ q.ids \subseteq Booking /\ r.ids \subseteq Booking
        /\ ~crossed' => ~crossed /\ ~PassesAMove(w)
    BY CommitKnown, RequestTyped DEF IInv, DiariesTypeOK, Request
  <1>1. Shape(r)
    BY <1>0 DEF Own
  <1>2. Wrote(r) => \A b \in r.ids : diary'[b] = diary[b]
    BY <1>0 DEF Apart, Seen
  <1>3. r.errand # "insert" =>
          \A b \in r.ids : diary'[b].status # "none" /\ diary'[b].store = diary[b].store
    <2>1. ASSUME r.errand # "insert", NEW b \in r.ids
          PROVE  diary'[b].status # "none" /\ diary'[b].store = diary[b].store
      <3>1. diary[b].status # "none"
        BY <1>0, <2>1 DEF Own, Backed
      <3>2. CASE b \notin q.ids
        BY <1>0, <3>1, <3>2 DEF Seen
      <3>3. CASE b \in q.ids
        <4>1. diary'[b] = q.puts[b] /\ Put(q, b)
          BY <1>0, <3>3 DEF Seen, Own, Backed
        <4>2. q.errand # "insert"
          BY <3>1, <4>1 DEF Put
        <4> QED BY <1>0, <3>3, <4>1, <4>2, PutKnown DEF Own
      <3> QED BY <3>2, <3>3
    <2> QED BY <2>1
  <1>4. Backed(writer[x])'
    <2>1. Wrote(r) => \A b \in r.ids : Put(r, b)'
      BY <1>0, <1>2 DEF Own, Backed, Put
    <2>2. r.errand = "reassign" => \A b \in r.ids : diary'[b].store \in WorksAt[r.to]
      BY <1>0, <1>3 DEF Own, Backed
    <2> QED BY <1>0, <1>3, <2>1, <2>2 DEF Backed
  <1>5. Fitting(writer[x])'
    <2>1. ASSUME Wrote(r), NEW b \in r.ids, NEW c \in Booking \ r.ids
          PROVE  ~Conflict(r.puts[b], diary'[c])
      <3>1. CASE c \in q.ids
        BY <1>0, <2>1, <3>1 DEF Apart, Seen
      <3>2. CASE c \notin q.ids
        BY <1>0, <2>1, <3>2 DEF Own, Fitting, Seen
      <3> QED BY <3>1, <3>2
    <2>2. Wrote(r) => \A b \in r.ids, c \in r.ids : b # c => ~Conflict(r.puts[b], r.puts[c])
      BY <1>0 DEF Own, Fitting
    <2> QED BY <1>0, <2>1, <2>2 DEF Fitting, Conflict
  <1>6. Room(writer[x])'
    <2>1. ASSUME r.client # NoClient, r.stage \in {"write", "check", "commit"},
                 NEW a, a = r.to, NEW c, c = r.client
          PROVE  Cardinality(HoldsOf(diary, a, c)') < MaxHolds
      <3> DEFINE H == HoldsOf(diary, a, c)
                 K == HoldsOf(diary, a, c)'
      <3>1. r.to \in r.locks
        BY <1>1, <2>1 DEF Shape
      <3>2. ASSUME NEW b \in K, b \notin H PROVE FALSE
        <4>1. q.to = r.to
          BY <2>1, <3>2, CommittedHolds
        <4>2. q.to \in q.locks
          BY <1>0 DEF Own, Shape, Wrote
        <4> QED BY <1>0, <3>1, <4>1, <4>2 DEF Apart
      <3>3. K \subseteq H
        BY <3>2
      <3>4. IsFiniteSet(H) /\ Cardinality(H) \in Nat /\ Cardinality(H) < MaxHolds
        BY <1>0, <2>1, HoldsCounted DEF Own, Room
      <3>5. Cardinality(K) <= Cardinality(H) /\ Cardinality(K) \in Nat
        BY <3>3, <3>4, FS_Subset, FS_CardinalityType
      <3> QED BY <3>4, <3>5, DiaryParameters
    <2>2. \A a, c : a = r.to /\ c = r.client /\ c # NoClient
                     /\ r.stage \in {"write", "check", "commit"}
                     => Cardinality(HoldsOf(diary, a, c)') < MaxHolds
      BY <2>1
    <2> QED BY <1>0, <2>2 DEF Room, HoldsOf
  <1>7. ASSUME ~crossed' PROVE Straight(writer[x])' /\ Checked(writer[x])'
    <2>0. Straight(q) /\ Checked(q) /\ Straight(r) /\ Checked(r) /\ ~PassesAMove(w)
      BY <1>0, <1>7 DEF Own
    <2>1. ASSUME r.errand \in {"move", "shift"}, NEW b \in r.ids
          PROVE  diary'[b].artist = r.roads
      <3>1. CASE b \notin q.ids
        BY <1>0, <2>0, <2>1, <3>1 DEF Seen, Straight
      <3>2. CASE b \in q.ids
        <4>1. diary'[b] = q.puts[b] /\ Put(q, b) /\ q.errand \in Errands
          BY <1>0, <3>2 DEF Seen, Own, Backed, Request
        <4>2. diary[b].status # "none"
          BY <1>0, <2>1 DEF Own, Backed
        <4>3. q.errand # "insert"
          BY <4>1, <4>2 DEF Put
        <4>4. q.errand # "reassign"
          BY <2>0, <2>1, <3>2 DEF PassesAMove
        <4>5. diary'[b].artist = diary[b].artist
          BY <1>0, <4>1, <4>3, <4>4 DEF Put, Errands, Entry
        <4> QED BY <2>0, <2>1, <4>5 DEF Straight
      <3> QED BY <3>1, <3>2
    <2>2. Straight(writer[x])'
      BY <1>0, <2>0, <2>1 DEF Straight
    <2>3. ASSUME r.stage = "commit", NEW b \in r.ids, NEW c \in Booking,
                 c \notin r.ids, c \in q.ids
          PROVE  ~TooClose(r.puts[b], q.puts[c])
      <3>1. r.puts[b].artist = r.to /\ r.to \in r.locks
        BY <1>0, <2>0, <2>3, ArtistLocked DEF Own, Wrote
      <3>2. q.puts[c].artist = q.to /\ q.to \in q.locks
        BY <1>0, <2>0, <2>3, ArtistLocked DEF Own, Wrote
      <3> QED BY <1>0, <3>1, <3>2 DEF Apart, TooClose
    <2>4. ASSUME r.stage = "commit", NEW b \in r.ids, NEW c \in Booking
          PROVE  ~TooClose(r.puts[b], IF c \in r.ids THEN r.puts[c] ELSE diary'[c])
      <3>1. CASE c \notin r.ids /\ c \in q.ids
        BY <1>0, <2>3, <2>4, <3>1 DEF Seen
      <3>2. CASE c \in r.ids \/ c \notin q.ids
        BY <1>0, <2>0, <2>4, <3>2 DEF Seen, Checked
      <3> QED BY <3>1, <3>2
    <2>5. Checked(writer[x])'
      BY <1>0, <2>4 DEF Checked, Seen, TooClose
    <2> QED BY <2>2, <2>5
  <1> QED BY <1>0, <1>1, <1>4, <1>5, <1>6, <1>7 DEF Own, Shape

LEMMA CommitOK ==
  ASSUME IInv, NEW w \in Writer, Commit(w)
  PROVE  IInv'
  <1>1. DiariesTypeOK' /\ StoresWork' /\ NoOverlap' /\ RoadIsKept' /\ HoldsAreCapped'
    BY CommittedTableOK, CommittedHoldsCapped
  <1>2. writer'[w] = Unsent /\ \A x \in Writer : x # w => writer'[x] = writer[x]
    BY CommitKnown
  <1>3. Own(writer[w])'
    BY <1>2 DEF Own, Unsent, Shape, Backed, Fitting, Room, Straight, Checked, Wrote
  <1>4. \A x \in Writer : Own(writer[x])'
    BY <1>3, CommittedOwn
  <1>5. ASSUME NEW x \in Writer, NEW y \in Writer, x # y PROVE Apart(writer[x], writer[y])'
    <2>1. Apart(writer'[x], writer'[y])
      <3>1. CASE x = w \/ y = w
        BY <1>2, <3>1 DEF Unsent, Apart, Wrote
      <3>2. CASE x # w /\ y # w
        BY <1>2, <1>5, <3>2 DEF IInv
      <3> QED BY <3>1, <3>2
    <2> QED BY <2>1 DEF Apart
  <1> QED BY <1>1, <1>4, <1>5 DEF IInv

-----------------------------------------------------------------------------
(* Beside the requests.                                                    *)

\* A row whose status changes, or whose deadline passes: no request has
\* written it, and it takes no more room than before.
LEMMA RowChangesOK ==
  ASSUME IInv, UNCHANGED <<writer, crossed>>,
         lapsed' \subseteq Booking, diary' \in [Booking -> Entry],
         \A b \in Booking :
           /\ \/ diary'[b] = diary[b]
              \/ /\ Blocks(diary[b]) /\ Unlocked(b)
                 /\ diary'[b].status \in {"standing", "over"}
                 /\ diary'[b].artist = diary[b].artist /\ diary'[b].store = diary[b].store
                 /\ diary'[b].start = diary[b].start
           /\ diary'[b].status = "held" /\ b \notin lapsed' => b \notin lapsed
  PROVE  IInv'
  <1>0. \A b \in Booking :
          /\ diary'[b].artist = diary[b].artist /\ diary'[b].store = diary[b].store
          /\ diary'[b].start = diary[b].start
          /\ diary'[b].status = "held" => diary'[b] = diary[b]
          /\ Blocks(diary'[b]) => Blocks(diary[b])
          /\ diary[b].status # "none" <=> diary'[b].status # "none"
    BY DEF Blocks
  <1>1. DiariesTypeOK'
    BY DEF IInv, DiariesTypeOK
  <1>2. StoresWork'
    BY <1>0 DEF IInv, StoresWork
  <1>3. \A e, b \in Booking : Conflict(diary'[e], diary'[b]) => Conflict(diary[e], diary[b])
    BY <1>0 DEF Conflict, Meet
  <1>4. \A b \in Booking : \A e : Conflict(e, diary'[b]) => Conflict(e, diary[b])
    BY <1>0 DEF Conflict, Meet
  <1>5. NoOverlap'
    <2>1. \A b, c \in Booking : b # c => ~Conflict(diary'[b], diary'[c])
      BY <1>3 DEF IInv, NoOverlap
    <2> QED BY <2>1 DEF NoOverlap, Conflict
  <1>6. RoadIsKept'
    BY <1>0 DEF IInv, RoadIsKept, OnTheRoad, TooFar
  <1>7. ASSUME NEW a, NEW c
        PROVE  Cardinality(HoldsOf(diary, a, c)') <= Cardinality(HoldsOf(diary, a, c))
               /\ Cardinality(HoldsOf(diary, a, c)') \in Nat
    <2>1. HoldsOf(diary, a, c)' \subseteq HoldsOf(diary, a, c)
      BY <1>0 DEF HoldsOf
    <2> QED BY <2>1, HoldsCounted, FS_Subset, FS_CardinalityType
  <1>8. HoldsAreCapped'
    <2>1. \A a \in Artist, c \in Client : Cardinality(HoldsOf(diary, a, c)') <= MaxHolds
      BY <1>7, HoldsCounted, DiaryParameters DEF IInv, HoldsAreCapped
    <2> QED BY <2>1 DEF HoldsAreCapped
  <1>9. ASSUME NEW x \in Writer PROVE Own(writer[x])'
    <2> DEFINE r == writer[x]
    <2>0. r \in Request /\ Own(r) /\ writer' = writer /\ crossed' = crossed /\ r.ids \subseteq Booking
      BY RequestTyped DEF Request
    <2>1. Wrote(r) => \A b \in r.ids : diary'[b] = diary[b]
      BY <2>0 DEF Unlocked, Written, Wrote
    <2>2. Backed(writer[x])'
      <3>1. Wrote(r) => \A b \in r.ids : Put(r, b)'
        BY <2>0, <2>1 DEF Own, Backed, Put
      <3> QED BY <1>0, <2>0, <3>1 DEF Own, Backed
    <2>3. Fitting(writer[x])'
      <3>1. Wrote(r) => /\ \A b \in r.ids, c \in r.ids : b # c => ~Conflict(r.puts[b], r.puts[c])
                        /\ \A b \in r.ids, c \in Booking \ r.ids : ~Conflict(r.puts[b], diary'[c])
        BY <1>4, <2>0 DEF Own, Fitting
      <3> QED BY <2>0, <3>1 DEF Fitting, Conflict
    <2>4. Room(writer[x])'
      <3>1. \A a, c : a = r.to /\ c = r.client /\ c # NoClient
                      /\ r.stage \in {"write", "check", "commit"}
                      => Cardinality(HoldsOf(diary, a, c)') < MaxHolds
        BY <1>7, <2>0, HoldsCounted, DiaryParameters DEF Own, Room
      <3> QED BY <2>0, <3>1 DEF Room, HoldsOf
    <2>5. crossed \/ Straight(writer[x])'
      BY <1>0, <2>0 DEF Own, Straight
    <2>6. crossed \/ Checked(writer[x])'
      <3>1. ASSUME NEW e, NEW b \in Booking, TooClose(e, diary'[b]) PROVE TooClose(e, diary[b])
        BY <1>0, <3>1 DEF TooClose, TooFar
      <3>2. ASSUME ~crossed, r.stage = "commit", NEW b \in r.ids, NEW c \in Booking
            PROVE  ~TooClose(r.puts[b], IF c \in r.ids THEN r.puts[c] ELSE diary'[c])
        <4>1. ~TooClose(r.puts[b], IF c \in r.ids THEN r.puts[c] ELSE diary[c])
          BY <2>0, <3>2 DEF Own, Checked, Seen
        <4> QED BY <3>1, <4>1
      <3> QED BY <2>0, <3>2 DEF Checked, Seen, TooClose
    <2> QED BY <2>0, <2>2, <2>3, <2>4, <2>5, <2>6 DEF Own, Shape
  <1>10. \A x \in Writer, y \in Writer : x # y => Apart(writer[x], writer[y])'
    BY DEF IInv, Apart
  <1> QED BY <1>1, <1>2, <1>5, <1>6, <1>8, <1>9, <1>10 DEF IInv

LEMMA HoldLapsesOK ==
  ASSUME IInv, NEW b \in Booking, HoldLapses(b)
  PROVE  IInv'
  BY RowChangesOK DEF HoldLapses, IInv, DiariesTypeOK

LEMMA SubmitGuestBookingOK ==
  ASSUME IInv, NEW b \in Booking, SubmitGuestBooking(b)
  PROVE  IInv'
  <1>1. diary \in [Booking -> Entry] /\ lapsed \subseteq Booking
    BY DEF IInv, DiariesTypeOK
  <1>2. /\ Submitted(diary[b]) \in Entry /\ Submitted(diary[b]).status = "standing"
        /\ Submitted(diary[b]).artist = diary[b].artist /\ Submitted(diary[b]).store = diary[b].store
        /\ Submitted(diary[b]).start = diary[b].start
    BY <1>1 DEF Submitted, Entry, Standings
  <1>3. diary' = [diary EXCEPT ![b] = Submitted(diary[b])] /\ lapsed' = lapsed
        /\ UNCHANGED <<writer, crossed>> /\ Blocks(diary[b]) /\ Unlocked(b)
    BY DEF SubmitGuestBooking, Blocks
  <1>4. diary' \in [Booking -> Entry] /\ diary'[b] = Submitted(diary[b])
        /\ \A c \in Booking : c # b => diary'[c] = diary[c]
    BY <1>1, <1>2, <1>3
  <1> QED BY <1>1, <1>2, <1>3, <1>4, RowChangesOK

LEMMA EndBookingOK ==
  ASSUME IInv, NEW b \in Booking, EndBooking(b)
  PROVE  IInv'
  <1> DEFINE e == [diary[b] EXCEPT !.status = "over"]
  <1>1. diary \in [Booking -> Entry] /\ lapsed \subseteq Booking
    BY DEF IInv, DiariesTypeOK
  <1>2. e \in Entry /\ e.status = "over" /\ e.artist = diary[b].artist /\ e.store = diary[b].store
        /\ e.start = diary[b].start
    BY <1>1 DEF Entry, Standings
  <1>3. diary' = [diary EXCEPT ![b] = e] /\ lapsed' = lapsed \ {b}
        /\ UNCHANGED <<writer, crossed>> /\ Blocks(diary[b]) /\ Unlocked(b)
    BY DEF EndBooking
  <1> HIDE DEF e
  <1>4. diary' \in [Booking -> Entry] /\ diary'[b] = e
        /\ \A c \in Booking : c # b => diary'[c] = diary[c]
    BY <1>1, <1>2, <1>3
  <1> QED BY <1>1, <1>2, <1>3, <1>4, RowChangesOK

-----------------------------------------------------------------------------
(* The invariant and what follows from it.                                 *)

LEMMA InitOK == DiariesInit => IInv
  <1> SUFFICES ASSUME DiariesInit PROVE IInv
    OBVIOUS
  <1>0. \A b \in Booking : diary[b] = Nowhere
    BY DEF DiariesInit
  <1>1. DiariesTypeOK
    BY NowhereTyped DEF DiariesInit, DiariesTypeOK
  <1>2. \A b \in Booking : diary[b].status = "none"
    <2>1. Nowhere.status = "none"
      BY DEF Nowhere
    <2> QED BY <1>0, <2>1
  <1>3. StoresWork /\ NoOverlap /\ RoadIsKept
    BY <1>2 DEF StoresWork, NoOverlap, RoadIsKept, Conflict, OnTheRoad, Blocks
  <1>4. HoldsAreCapped
    <2>1. \A a, c : HoldsOf(diary, a, c) = {}
      BY <1>2 DEF HoldsOf
    <2> QED BY <2>1, FS_EmptySet, DiaryParameters DEF HoldsAreCapped
  <1>5. \A w \in Writer : writer[w] = Unsent
    BY DEF DiariesInit
  <1>6. \A w \in Writer, x \in Writer : w # x => Apart(writer[w], writer[x])
    BY <1>5 DEF Apart, Unsent, Wrote
  <1> QED BY <1>1, <1>3, <1>4, <1>5, <1>6, UnsentKnown DEF IInv

LEMMA WriterStepOK ==
  ASSUME IInv, NEW w \in Writer, WriterStep(w)
  PROVE  IInv'
  BY ReadToInsertOK, ReadToMoveOK, ReadToShiftOK, ReadToReassignOK, FindArtistOK, LockArtistOK,
     LockSecondOK, CountHoldsOK, InsertOK, MoveBookingOK, ShiftBookingsOK, ReassignBookingOK,
     CheckRoadOK, CommitOK, RollbackOK
     DEF WriterStep

LEMMA StutterOK ==
  ASSUME IInv, UNCHANGED diaryVars
  PROVE  IInv'
  BY RowChangesOK DEF diaryVars, IInv, DiariesTypeOK

LEMMA DiariesStep ==
  ASSUME IInv, [DiariesNext]_diaryVars
  PROVE  IInv'
  BY WriterStepOK, HoldLapsesOK, SubmitGuestBookingOK, EndBookingOK, StutterOK DEF DiariesNext

LEMMA Inductive == DiariesSpec => []IInv
  <1>1. IInv /\ [DiariesNext]_diaryVars => IInv'
    BY DiariesStep
  <1> QED BY InitOK, <1>1, PTL DEF DiariesSpec

\* The table and the requests keep their shape.
THEOREM DiariesTyped == DiariesSpec => []DiariesTypeOK
  <1>1. IInv => DiariesTypeOK
    BY DEF IInv
  <1> QED BY Inductive, <1>1, PTL

\* Two appointments of an artist at different stores leave her the road
\* between them, unless a booking changed hands under a request that moves
\* it: each request judged the diary before it had her lock, and looks again
\* under it (writeBookingTx, travelClash).
THEOREM RoadAlwaysKept == DiariesSpec => []RoadIsKept
  <1>1. IInv => RoadIsKept
    BY DEF IInv
  <1> QED BY Inductive, <1>1, PTL

\* The count of a network's holds and the INSERT are two statements, and
\* still no run of guests passes the cap (CreateGuestHold).
THEOREM HoldsStayCapped == DiariesSpec => []HoldsAreCapped
  <1>1. IInv => HoldsAreCapped
    BY DEF IInv
  <1> QED BY Inductive, <1>1, PTL

\* Two appointments of an artist that stand never overlap, whichever requests
\* wrote them: what the exclusion constraint refuses is refused against the
\* rows that are not committed yet too.
THEOREM AppointmentsNeverOverlap == DiariesSpec => []NoOverlap
  <1>1. IInv => NoOverlap
    BY DEF IInv
  <1> QED BY Inductive, <1>1, PTL

-----------------------------------------------------------------------------
(* The locks: who is waited for holds a smaller artist than she wants.     *)

LEMMA WaiterKnown ==
  ASSUME IInv, NEW w \in Writer, NEW x \in Writer, WaitsFor(w, x), Wants(x) # {}
  PROVE  /\ In(x, "second") /\ SecondOf(writer[x]) \in Artist
         /\ Wants(w) = {FirstOf(writer[x])}
         /\ FirstOf(writer[x]) < SecondOf(writer[x])
         /\ Wants(x) = {SecondOf(writer[x])}
  <1>1. writer[x] \in Request /\ Shape(writer[x]) /\ writer[x].locks # {}
    BY RequestTyped DEF Own, WaitsFor
  <1>2. In(x, "lock") \/ In(x, "second")
    BY DEF Wants
  <1>3. In(x, "second")
    BY <1>1, <1>2 DEF Shape, In
  <1>4. writer[x].locks = {FirstOf(writer[x])} /\ writer[x].from # writer[x].to
    BY <1>1, <1>3 DEF Shape, In
  <1>5. Wants(x) = {SecondOf(writer[x])}
    BY <1>3 DEF Wants, In
  <1>6. \E a : Wants(w) = {a}
    BY DEF Wants, WaitsFor
  <1>7. Wants(w) = {FirstOf(writer[x])}
    BY <1>4, <1>6 DEF WaitsFor
  <1> QED BY <1>1, <1>3, <1>4, <1>5, <1>7, LocksTyped

\* A finite set of numbers has no endless climb.
LEMMA Highest ==
  ASSUME NEW A \in SUBSET Artist, A # {}
  PROVE  \E a \in A : \A b \in A : b <= a
  <1> DEFINE Above(a) == {b \in Artist : b > a}
             Sizes == {Cardinality(Above(a)) : a \in A}
  <1>1. \A a \in A : IsFiniteSet(Above(a)) /\ Cardinality(Above(a)) \in Nat
    BY DiaryParameters, FS_Subset, FS_CardinalityType
  <1>2. Sizes \subseteq Nat /\ Sizes # {}
    BY <1>1
  <1>3. PICK n \in Sizes : \A m \in Sizes : <<m, n>> \notin OpToRel(<, Nat)
    BY <1>2, NatLessThanWellFounded, WFMin
  <1>4. \A m \in Sizes : ~(m < n)
    BY <1>2, <1>3 DEF OpToRel
  <1>5. PICK a \in A : n = Cardinality(Above(a))
    BY <1>3
  <1>6. ASSUME NEW b \in A, ~(b <= a) PROVE FALSE
    <2>1. a \in Int /\ b \in Int /\ b \in Artist /\ b > a
      BY <1>6, DiaryParameters
    <2>2. \A c \in Artist : c \in Int
      BY DiaryParameters
    <2>3. \A c \in Artist : c > b => c > a
      BY <2>1, <2>2
    <2>4. Above(b) \subseteq Above(a)
      BY <2>3
    <2>5. b \in Above(a) /\ b \notin Above(b)
      BY <2>1
    <2>6. Cardinality(Above(b)) < Cardinality(Above(a))
      <3> HIDE DEF Above
      <3> QED BY <1>1, <2>4, <2>5, FS_Subset
    <2> QED BY <1>4, <1>5, <2>6
  <1> QED BY <1>6

LEMMA NoCircle == IInv => NoCircularWait
  <1> SUFFICES ASSUME IInv, NEW S \in (SUBSET Writer) \ {{}},
                      \A w \in S : \E x \in S : WaitsFor(w, x)
               PROVE  FALSE
    BY DEF NoCircularWait
  <1>1. \A x \in S : Wants(x) # {}
    BY DEF WaitsFor
  <1> DEFINE X == {x \in S : In(x, "second") /\ SecondOf(writer[x]) \in Artist}
             A == {SecondOf(writer[x]) : x \in X}
  <1>2. \A w \in S : \E x \in X : Wants(w) = {FirstOf(writer[x])}
                       /\ FirstOf(writer[x]) < SecondOf(writer[x])
                       /\ Wants(x) = {SecondOf(writer[x])}
    BY <1>1, WaiterKnown
  <1>3. A \in SUBSET Artist /\ A # {}
    BY <1>2
  <1>4. PICK a \in A : \A b \in A : b <= a
    BY <1>3, Highest
  <1>5. PICK y \in X : a = SecondOf(writer[y])
    OBVIOUS
  <1>6. Wants(y) = {a}
    BY <1>5 DEF Wants, In
  <1>7. PICK x \in X : /\ Wants(y) = {FirstOf(writer[x])}
                       /\ FirstOf(writer[x]) < SecondOf(writer[x])
    BY <1>2, <1>5
  <1>8. a < SecondOf(writer[x]) /\ SecondOf(writer[x]) <= a
    BY <1>4, <1>6, <1>7
  <1>9. a \in Int /\ SecondOf(writer[x]) \in Int
    BY <1>3, DiaryParameters
  <1> HIDE DEF X, A
  <1> QED BY <1>8, <1>9

\* No requests wait for one another's artists in a circle, whatever bookings
\* are handed to and fro: the two locks are taken in the order of the ids
\* (ReassignBooking).
THEOREM LocksNeverDeadlock == DiariesSpec => []NoCircularWait
  BY Inductive, NoCircle, PTL

-----------------------------------------------------------------------------
(* The slot list.  Both sides come down to one window and one span about   *)
(* each appointment: the rows of a rota and of a date keep their hours the *)
(* right way round, an appointment takes time, and the pad on either side  *)
(* of the day holds every road and cleanup.                                *)

Forward(span) == span.from < span.to

SlotsInv ==
  /\ SlotsTypeOK
  /\ rota # Null => Forward(rota.span)
  /\ \A id \in 1 .. 2 : off[id] # Null /\ ~off[id].away => Forward(off[id].span)
  /\ \A e \in agenda : e.from < e.to /\ e.to <= e.until
  /\ IsFiniteSet(agenda)

\* Her road, and the cleanup before it.
LEMMA RoadFits ==
  ASSUME SlotsTypeOK
  PROVE  /\ TravelMinutes \in Nat
         /\ service.length \in Nat \ {0} /\ service.cleanup \in Nat
         /\ service.cleanup + TravelMinutes <= Pad
  <1>1. service \in Terms /\ way \in Ways
    BY DEF SlotsTypeOK
  <1>2. /\ service.length \in Nat \ {0} /\ service.cleanup \in Nat
        /\ way.here # Null /\ way.away # Null
        /\ \A m \in {way.there, way.back, way.here, way.away} \ {Null} :
             m \in Nat /\ service.cleanup + m <= Pad
    BY <1>1, PadParameters
  <1>3. PICK overrides : overrides = {way.there, way.back} \ {Null}
    OBVIOUS
  <1>4. PICK asked : asked = IF overrides # {} THEN overrides ELSE {way.here, way.away}
    OBVIOUS
  <1>5. PICK a, b : a \in asked /\ b \in asked /\ \A m \in asked : m \in {a, b}
    <2>1. CASE way.there = Null /\ way.back = Null
      <3>1. asked = {way.here, way.away}
        BY <1>3, <1>4, <2>1
      <3> QED BY <3>1
    <2>2. CASE way.there = Null /\ way.back # Null
      <3>1. overrides = {way.back}
        BY <1>3, <2>2
      <3>2. asked = {way.back}
        BY <1>4, <3>1
      <3> QED BY <3>2
    <2>3. CASE way.there # Null /\ way.back = Null
      <3>1. overrides = {way.there}
        BY <1>3, <2>3
      <3>2. asked = {way.there}
        BY <1>4, <3>1
      <3> QED BY <3>2
    <2>4. CASE way.there # Null /\ way.back # Null
      <3>1. overrides = {way.there, way.back}
        BY <1>3, <2>4
      <3>2. asked = {way.there, way.back}
        BY <1>4, <3>1
      <3> QED BY <3>2
    <2> QED BY <2>1, <2>2, <2>3, <2>4
  <1>6. \A m \in asked : m \in Nat /\ service.cleanup + m <= Pad
    BY <1>2, <1>3, <1>4
  <1>7. \E m \in asked : \A n \in asked : n <= m
    BY <1>5, <1>6
  <1>8. TravelMinutes = CHOOSE m \in asked : \A n \in asked : n <= m
    BY <1>3, <1>4 DEF TravelMinutes
  <1>9. TravelMinutes \in asked
    BY <1>7, <1>8
  <1> QED BY <1>2, <1>6, <1>9

LEMMA SpansFit ==
  ASSUME NEW s \in Spans
  PROVE  s # Null /\ s.from \in 0 .. Day /\ s.to \in 0 .. Day
  BY SlotParameters

\* The hours the store trades are one window.
LEMMA StoreTrades ==
  ASSUME SlotsTypeOK, NEW w, w = StoreWindow
  PROVE  /\ w.from \in 0 .. Day /\ w.to \in 0 .. Day
         /\ Trading = Ticks(w.from, w.to)
  <1>1. /\ hours # Null => hours.open \in BOOLEAN /\ hours.span \in Spans
        /\ closure # Null => closure.closed \in BOOLEAN /\ closure.span \in Spans \cup {Null}
        /\ Day \in Nat
    BY SlotParameters DEF SlotsTypeOK, HoursRow, ClosureRow
  <1>2. CASE (closure # Null /\ closure.closed) \/ hours = Null \/ ~hours.open
    <2>1. w = NoWindow
      BY <1>2 DEF StoreWindow
    <2>2. Trading = {}
      BY <1>2 DEF Trading
    <2> QED BY <1>1, <2>1, <2>2 DEF NoWindow, Ticks
  <1>3. CASE ~((closure # Null /\ closure.closed) \/ hours = Null \/ ~hours.open)
    <2>1. w = IF closure # Null /\ closure.span # Null THEN closure.span ELSE hours.span
      BY <1>3 DEF StoreWindow
    <2>2. w \in Spans
      BY <1>1, <1>3, <2>1
    <2>3. w.from \in 0 .. Day /\ w.to \in 0 .. Day
      BY <2>2, SpansFit
    <2>4. Trading = {m \in Ticks(0, Day) : m \in Ticks(w.from, w.to)}
      BY <1>3, <2>1 DEF Trading
    <2> QED BY <1>1, <2>3, <2>4 DEF Ticks
  <1> QED BY <1>2, <1>3

\* And so are hers in them.
LEMMA SheWorks ==
  ASSUME SlotsInv, NEW x \in OffRow \cup {Null}, x # Null /\ ~x.away => Forward(x.span),
         NEW w, w = ResolveDay(StoreWindow, x)
  PROVE  /\ w.from \in 0 .. Day /\ w.to \in 0 .. Day
         /\ Working(x) = Ticks(w.from, w.to)
  <1>1. PICK s : s = StoreWindow
    OBVIOUS
  <1>2. s.from \in 0 .. Day /\ s.to \in 0 .. Day /\ Trading = Ticks(s.from, s.to)
    BY <1>1, StoreTrades DEF SlotsInv
  <1>3. Day \in Nat
    BY SlotParameters
  <1>4. ASSUME NEW own \in Spans, Forward(own), ~IsZero(s), w = Intersect(s, own)
        PROVE  /\ w.from \in 0 .. Day /\ w.to \in 0 .. Day
               /\ Ticks(w.from, w.to) = {m \in Trading : m \in Ticks(own.from, own.to)}
    <2>1. own.from \in 0 .. Day /\ own.to \in 0 .. Day
      BY SpansFit
    <2>2. PICK from \in 0 .. Day : from = IF own.from > s.from THEN own.from ELSE s.from
      BY <1>2, <2>1
    <2>3. PICK to \in 0 .. Day : to = IF own.to < s.to THEN own.to ELSE s.to
      BY <1>2, <2>1
    <2>4. w = IF from < to THEN [from |-> from, to |-> to] ELSE NoWindow
      BY <1>4, <2>2, <2>3 DEF Intersect, OrNone, IsZero, Forward
    <2> QED BY <1>2, <1>3, <2>1, <2>2, <2>3, <2>4 DEF Ticks, NoWindow
  <1>5. CASE IsZero(s)
    <2>1. w = NoWindow
      BY <1>1, <1>5 DEF ResolveDay
    <2>2. Trading = {}
      BY <1>2, <1>3, <1>5 DEF IsZero, Ticks
    <2> QED BY <1>3, <2>1, <2>2 DEF Working, NoWindow, Ticks
  <1>6. CASE ~IsZero(s) /\ x # Null
    <2>1. CASE x.away
      <3>1. w = NoWindow
        BY <1>1, <1>6, <2>1 DEF ResolveDay
      <3>2. Working(x) = {}
        BY <1>6, <2>1 DEF Working
      <3> QED BY <1>3, <3>1, <3>2 DEF NoWindow, Ticks
    <2>2. CASE ~x.away
      <3>1. w = Intersect(s, x.span)
        BY <1>1, <1>6, <2>2 DEF ResolveDay
      <3>2. x.span \in Spans
        BY <1>6, <2>2 DEF OffRow
      <3>3. Working(x) = {m \in Trading : m \in Ticks(x.span.from, x.span.to)}
        BY <1>6, <2>2 DEF Working
      <3> QED BY <1>4, <1>6, <2>2, <3>1, <3>2, <3>3
    <2> QED BY <2>1, <2>2
  <1>7. CASE ~IsZero(s) /\ x = Null /\ rota # Null
    <2>1. rota.working \in BOOLEAN /\ rota.span \in Spans /\ Forward(rota.span)
      BY <1>7 DEF SlotsInv, SlotsTypeOK, RotaRow
    <2>2. CASE rota.working
      <3>1. w = Intersect(s, rota.span)
        BY <1>1, <1>7, <2>2 DEF ResolveDay
      <3>2. Working(x) = {m \in Trading : m \in Ticks(rota.span.from, rota.span.to)}
        BY <1>7, <2>2 DEF Working
      <3> QED BY <1>4, <1>7, <2>1, <3>1, <3>2
    <2>3. CASE ~rota.working
      <3>1. w = NoWindow
        BY <1>1, <1>7, <2>3 DEF ResolveDay
      <3>2. Working(x) = {}
        BY <1>7, <2>3 DEF Working
      <3> QED BY <1>3, <3>1, <3>2 DEF NoWindow, Ticks
    <2> QED BY <2>1, <2>2, <2>3
  <1>8. CASE ~IsZero(s) /\ x = Null /\ rota = Null
    <2>1. w = s
      BY <1>1, <1>8 DEF ResolveDay
    <2>2. Working(x) = Trading
      BY <1>8 DEF Working
    <2> QED BY <1>2, <2>1, <2>2
  <1> QED BY <1>5, <1>6, <1>7, <1>8

\* An appointment of hers meets the one that would begin at u, road and
\* cleanup included.
RoadOf(e) == IF e.elsewhere THEN TravelMinutes ELSE 0
Until(u) == u + service.length + service.cleanup
Meeting(e, u) ==
  /\ e.status \in BlockingStatuses
  /\ e.from - RoadOf(e) < Until(u) /\ u < e.until + RoadOf(e)

LEMMA Appointments ==
  ASSUME SlotsInv, NEW e \in agenda
  PROVE  /\ e.from \in Int /\ e.to \in Int /\ e.until \in Int
         /\ e.from < e.to /\ e.to <= e.until
         /\ RoadOf(e) \in Nat /\ RoadOf(e) + service.cleanup <= Pad
         /\ e.elsewhere \in BOOLEAN
         /\ e.status \in {"held", "standing", "completed"} /\ e.lapsed \in BOOLEAN
  <1>1. e \in Appointment
    BY DEF SlotsInv, SlotsTypeOK
  <1>2. TravelMinutes \in Nat /\ service.cleanup \in Nat /\ service.cleanup + TravelMinutes <= Pad
    BY RoadFits DEF SlotsInv
  <1>3. Pad \in Nat
    BY SlotParameters
  <1> QED BY <1>1, <1>2, <1>3 DEF Appointment, RoadOf, SlotsInv

\* What an appointment casts on a day.
LEMMA Casts ==
  ASSUME NEW rows, NEW j
  PROVE  j \in Occupied(rows) <=>
           \E e \in Between(rows) :
             /\ ~IsEmpty(j)
             /\ \/ j = Interval(e.from, e.to, "service")
                \/ j = Interval(e.to, e.until, "buffer")
                \/ e.elsewhere /\ j \in TravelIntervals(e.from, e.until, TravelMinutes)
  BY DEF Occupied, Occupancy

\* A candidate is blocked by what it meets, and by that alone.
LEMMA BlockedExactly ==
  ASSUME SlotsInv, NEW rows \in SUBSET agenda, NEW u \in 0 .. Day, u + service.length <= Day
  PROVE  BlocksArtist(Occupied(rows), Candidate(u)) <=> \E e \in rows : Meeting(e, u)
  <1>1. /\ service.length \in Nat \ {0} /\ service.cleanup \in Nat /\ Day \in Nat /\ Pad \in Nat
        /\ TravelMinutes \in Nat
    BY RoadFits, SlotParameters DEF SlotsInv
  <1>2. PICK until \in Int : until = Until(u) /\ u < until /\ until <= Day + service.cleanup
    BY <1>1 DEF Until
  <1>3. Candidate(u) = [from |-> u, to |-> until, kind |-> "service"]
    BY <1>2 DEF Candidate, Interval, Until
  <1>4. ASSUME NEW from \in Int, NEW to \in Int, NEW kind, NEW j, j = Interval(from, to, kind)
        PROVE  /\ IsEmpty(j) <=> ~(from < to)
               /\ Overlaps(j, Candidate(u)) <=> from < to /\ from < until /\ u < to
               /\ j.kind = kind
    BY <1>2, <1>3, <1>4 DEF Interval, IsEmpty, Overlaps
  <1>5. ASSUME NEW e \in rows, Meeting(e, u)
        PROVE  BlocksArtist(Occupied(rows), Candidate(u))
    <2>1. /\ e.from \in Int /\ e.to \in Int /\ e.until \in Int
          /\ e.from < e.to /\ e.to <= e.until
          /\ RoadOf(e) \in Nat /\ RoadOf(e) + service.cleanup <= Pad
      BY Appointments
    <2>2. e \in Between(rows)
      BY <1>1, <1>2, <1>5, <2>1 DEF Meeting, Between
    <2>3. ASSUME NEW from \in Int, NEW to \in Int, NEW kind, kind # "processing_gap",
                 from < to, from < until, u < to,
                 \/ from = e.from /\ to = e.to /\ kind = "service"
                 \/ from = e.to /\ to = e.until /\ kind = "buffer"
                 \/ /\ e.elsewhere /\ Interval(from, to, kind) \in TravelIntervals(e.from, e.until, TravelMinutes)
          PROVE  BlocksArtist(Occupied(rows), Candidate(u))
      <3>1. PICK j : j = Interval(from, to, kind)
        OBVIOUS
      <3>2. ~IsEmpty(j) /\ Overlaps(j, Candidate(u)) /\ KindBlocks(j)
        BY <1>4, <2>3, <3>1 DEF KindBlocks
      <3>3. j \in Occupied(rows)
        BY <2>2, <2>3, <3>1, <3>2, Casts
      <3> QED BY <3>2, <3>3 DEF BlocksArtist
    <2>4. e.from - RoadOf(e) < until /\ u < e.until + RoadOf(e)
      BY <1>2, <1>5 DEF Meeting
    <2>5. CASE e.from < until /\ u < e.until
      <3>1. CASE u < e.to
        BY <2>1, <2>3, <2>5, <3>1
      <3>2. CASE ~(u < e.to)
        BY <1>2, <2>1, <2>3, <2>5, <3>2
      <3> QED BY <3>1, <3>2
    <2>6. CASE ~(e.from < until)
      <3>1. e.elsewhere /\ RoadOf(e) = TravelMinutes /\ TravelMinutes > 0
        BY <1>1, <1>2, <2>1, <2>4, <2>6 DEF RoadOf
      <3>2. Interval(e.from - TravelMinutes, e.from, "travel") \in TravelIntervals(e.from, e.until, TravelMinutes)
        BY <1>1, <3>1 DEF TravelIntervals
      <3>3. /\ e.from - TravelMinutes \in Int
            /\ e.from - TravelMinutes < e.from /\ e.from - TravelMinutes < until /\ u < e.from
        BY <1>1, <1>2, <2>1, <2>4, <2>6, <3>1
      <3> QED BY <2>1, <2>3, <3>1, <3>2, <3>3
    <2>7. CASE ~(u < e.until)
      <3>1. e.elsewhere /\ RoadOf(e) = TravelMinutes /\ TravelMinutes > 0
        BY <1>1, <1>2, <2>1, <2>4, <2>7 DEF RoadOf
      <3>2. Interval(e.until, e.until + TravelMinutes, "travel") \in TravelIntervals(e.from, e.until, TravelMinutes)
        BY <1>1, <3>1 DEF TravelIntervals
      <3>3. /\ e.until + TravelMinutes \in Int
            /\ e.until < e.until + TravelMinutes /\ e.until < until /\ u < e.until + TravelMinutes
        BY <1>1, <1>2, <2>1, <2>4, <2>7, <3>1
      <3> QED BY <2>1, <2>3, <3>1, <3>2, <3>3
    <2> QED BY <2>5, <2>6, <2>7
  <1>6. ASSUME NEW j \in Occupied(rows), KindBlocks(j), Overlaps(j, Candidate(u))
        PROVE  \E e \in rows : Meeting(e, u)
    <2>1. PICK e \in Between(rows) :
            \/ j = Interval(e.from, e.to, "service")
            \/ j = Interval(e.to, e.until, "buffer")
            \/ e.elsewhere /\ j \in TravelIntervals(e.from, e.until, TravelMinutes)
      BY <1>6, Casts
    <2>2. e \in rows /\ e.status \in BlockingStatuses
      BY DEF Between
    <2>3. /\ e.from \in Int /\ e.to \in Int /\ e.until \in Int
          /\ e.from < e.to /\ e.to <= e.until
          /\ RoadOf(e) \in Nat
      BY <2>2, Appointments
    <2>4. CASE j = Interval(e.from, e.to, "service") \/ j = Interval(e.to, e.until, "buffer")
      <3>1. e.from < until /\ u < e.until
        BY <1>2, <1>4, <1>6, <2>3, <2>4
      <3> QED BY <1>2, <2>2, <2>3, <3>1 DEF Meeting
    <2>5. CASE e.elsewhere /\ j \in TravelIntervals(e.from, e.until, TravelMinutes)
      <3>1. /\ RoadOf(e) = TravelMinutes
            /\ \/ j = Interval(e.from - TravelMinutes, e.from, "travel")
               \/ j = Interval(e.until, e.until + TravelMinutes, "travel")
        BY <1>1, <2>5 DEF RoadOf, TravelIntervals
      <3>2. e.from - TravelMinutes < until /\ u < e.until + TravelMinutes
        BY <1>1, <1>2, <1>4, <1>6, <2>3, <3>1
      <3> QED BY <1>2, <2>2, <3>1, <3>2 DEF Meeting
    <2> QED BY <2>1, <2>4, <2>5
  <1> QED BY <1>5, <1>6 DEF BlocksArtist

\* The same as minutes.
LEMMA BusyExactly ==
  ASSUME SlotsInv, NEW rows \in SUBSET agenda, NEW u \in Int
  PROVE  Ticks(u, Until(u)) \cap Busy(rows) = {} <=> ~\E e \in rows : Meeting(e, u)
  <1>1. service.length \in Nat \ {0} /\ service.cleanup \in Nat
    BY RoadFits DEF SlotsInv
  <1>2. PICK until \in Int : until = Until(u) /\ u < until
    BY <1>1 DEF Until
  <1>3. \A m : m \in Busy(rows) <=>
          \E e \in rows : /\ e.status \in BlockingStatuses
                          /\ m \in Ticks(e.from - RoadOf(e), e.until + RoadOf(e))
    BY DEF Busy, RoadOf
  <1>4. ASSUME NEW e \in rows
        PROVE  Meeting(e, u) <=> /\ e.status \in BlockingStatuses
                                 /\ \E m \in Ticks(u, until) : m \in Ticks(e.from - RoadOf(e), e.until + RoadOf(e))
    <2>1. /\ e.from \in Int /\ e.until \in Int /\ e.from < e.until /\ RoadOf(e) \in Nat
      BY Appointments
    <2>2. PICK from \in Int, to \in Int : from = e.from - RoadOf(e) /\ to = e.until + RoadOf(e) /\ from < to
      BY <2>1
    <2>3. PICK m \in Int : m = IF from > u THEN from ELSE u
      BY <2>2
    <2>4. from < until /\ u < to => m \in Ticks(u, until) /\ m \in Ticks(from, to)
      BY <1>2, <2>2, <2>3 DEF Ticks
    <2>5. ASSUME NEW n \in Ticks(u, until), n \in Ticks(from, to)
          PROVE  from < until /\ u < to
      BY <1>2, <2>2, <2>5 DEF Ticks
    <2> QED BY <1>2, <2>2, <2>4, <2>5 DEF Meeting
  <1> QED BY <1>2, <1>3, <1>4

LEMMA SameDay ==
  ASSUME NEW now \in Int
  PROVE  IsSameDay(now) <=> now \in Ticks(0, Day)
  <1>1. Day \in Nat /\ Zone \in 0 .. Day - 1
    BY SlotParameters
  <1>2. Day > 0 /\ Zone \in Int /\ 0 <= Zone /\ Zone < Day
    BY <1>1
  <1>3. Zone \div Day = 0
    BY <1>1, <1>2
  <1>4. now \div Day = 0 <=> 0 <= now /\ now < Day
    BY <1>1, <1>2
  <1> QED BY <1>1, <1>3, <1>4 DEF IsSameDay, Ticks

\* A row in force is on file.
LEMMA RowInForce ==
  ASSUME SlotsInv, NEW x \in InForce
  PROVE  x \in OffRow \cup {Null} /\ (x # Null /\ ~x.away => Forward(x.span))
  <1>1. CASE x = Null
    BY <1>1
  <1>2. CASE x # Null
    <2>1. x \in Rows(TRUE) \/ x \in Rows(FALSE)
      BY <1>2 DEF InForce
    <2>2. PICK id \in 1 .. 2 : x = off[id]
      BY <2>1 DEF Rows
    <2> QED BY <1>2, <2>2 DEF SlotsInv, SlotsTypeOK
  <1> QED BY <1>1, <1>2

\* A time on the list, by the window the walk goes through.
LEMMA Listed ==
  ASSUME SlotsInv, NEW rows \in SUBSET agenda, NEW x \in InForce,
         NEW w, w = ResolveDay(StoreWindow, x), NEW t
  PROVE  t \in Times(Slots(rows, x, clock)) <=>
           /\ ~IsZero(w)
           /\ t \in EarliestStart(w, clock) .. w.to
           /\ (t - EarliestStart(w, clock)) % Step = 0
           /\ t + service.length <= w.to
           /\ ~BlocksArtist(Occupied(rows), Candidate(t))
  <1>1. CASE IsZero(w)
    BY <1>1 DEF Slots, Times
  <1>2. CASE ~IsZero(w)
    <2>1. PICK walked : walked = {u \in EarliestStart(w, clock) .. w.to :
                                    /\ (u - EarliestStart(w, clock)) % Step = 0
                                    /\ u + service.length <= w.to
                                    /\ ~BlocksArtist(Occupied(rows), Candidate(u))}
      OBVIOUS
    <2>2. PICK list : list = Slots(rows, x, clock)
      OBVIOUS
    <2>3. list = {[at |-> u, early |-> store.cutoff # Null /\ u < store.cutoff] : u \in walked}
      BY <1>2, <2>1, <2>2 DEF Slots
    <2>4. \A s \in list : s.at \in walked
      <3>1. ASSUME NEW s \in list PROVE s.at \in walked
        <4>1. PICK u \in walked : s = [at |-> u, early |-> store.cutoff # Null /\ u < store.cutoff]
          BY <2>3, Zenon
        <4>2. s.at = u
          BY <4>1
        <4> QED BY <4>1, <4>2
      <3> QED BY <3>1
    <2>5. \A u \in walked : \E s \in list : s.at = u
      <3>1. ASSUME NEW u \in walked PROVE \E s \in list : s.at = u
        <4>1. PICK s : s = [at |-> u, early |-> store.cutoff # Null /\ u < store.cutoff]
          OBVIOUS
        <4>2. s \in list
          BY <2>3, <4>1, Zenon
        <4>3. s.at = u
          BY <4>1
        <4> QED BY <4>2, <4>3
      <3> QED BY <3>1
    <2>6. Times(list) = walked
      BY <2>4, <2>5 DEF Times
    <2> QED BY <1>2, <2>1, <2>2, <2>6
  <1> QED BY <1>1, <1>2

LEMMA FirstTime ==
  ASSUME SlotsInv, NEW x \in InForce, NEW w, w = ResolveDay(StoreWindow, x)
  PROVE  /\ EarliestStart(w, clock) \in Int /\ w.from <= EarliestStart(w, clock)
         /\ w.from \in 0 .. Day /\ w.to \in 0 .. Day
         /\ Working(x) = Ticks(w.from, w.to)
         /\ clock \in Int /\ Day \in Nat
         /\ EarliestStart(w, clock) =
              IF clock \in Ticks(0, Day) /\ clock + store.notice > w.from
              THEN clock + store.notice ELSE w.from
  <1>1. clock \in Int /\ store.notice \in Nat /\ Day \in Nat
    BY SlotParameters DEF SlotsInv, SlotsTypeOK
  <1>2. w.from \in 0 .. Day /\ w.to \in 0 .. Day /\ Working(x) = Ticks(w.from, w.to)
    BY RowInForce, SheWorks
  <1>3. IsSameDay(clock) <=> clock \in Ticks(0, Day)
    BY <1>1, SameDay
  <1> QED BY <1>1, <1>2, <1>3 DEF EarliestStart

LEMMA ListHolds ==
  ASSUME SlotsInv
  PROVE  TimesAreExact
  <1> SUFFICES ASSUME NEW x \in InForce, NEW rows, rows = Swept(agenda),
                      NEW work, work = Working(x),
                      NEW start, start = CHOOSE m \in work : \A n \in work : m <= n,
                      NEW first, first = IF clock \in Ticks(0, Day) /\ clock + store.notice > start
                                         THEN clock + store.notice ELSE start
               PROVE  Slots(rows, x, clock) =
                        IF work = {} THEN {}
                        ELSE {[at |-> t, early |-> IsEarlyBird(t)] :
                                t \in {u \in first .. Day :
                                         /\ (u - first) % Step = 0
                                         /\ Ticks(u, u + service.length) \subseteq work
                                         /\ Ticks(u, u + service.length + service.cleanup) \cap Busy(rows) = {}}}
    BY DEF TimesAreExact
  <1>1. PICK w : w = ResolveDay(StoreWindow, x)
    OBVIOUS
  <1>2. /\ EarliestStart(w, clock) \in Int /\ w.from <= EarliestStart(w, clock)
        /\ w.from \in 0 .. Day /\ w.to \in 0 .. Day /\ Day \in Nat
        /\ work = Ticks(w.from, w.to)
        /\ EarliestStart(w, clock) =
             IF clock \in Ticks(0, Day) /\ clock + store.notice > w.from
             THEN clock + store.notice ELSE w.from
    BY <1>1, FirstTime
  <1>3. CASE IsZero(w)
    <2>1. work = {}
      BY <1>2, <1>3 DEF IsZero, Ticks
    <2>2. Slots(rows, x, clock) = {}
      BY <1>1, <1>3 DEF Slots
    <2> QED BY <2>1, <2>2
  <1>4. CASE ~IsZero(w)
    <2>1. w.from \in work /\ \A n \in work : w.from <= n /\ n \in Int
      BY <1>2, <1>4 DEF IsZero, Ticks
    <2>2. start \in work /\ \A n \in work : start <= n
      BY <2>1
    <2>3. start = w.from
      BY <1>2, <2>1, <2>2
    <2>4. first = EarliestStart(w, clock) /\ first \in Int /\ w.from <= first
      <3>1. first = EarliestStart(w, clock)
        BY <1>2, <2>3
      <3> QED BY <1>2, <3>1
    <2>5. rows \in SUBSET agenda
      BY DEF Swept
    <2>6. service.length \in Nat \ {0} /\ service.cleanup \in Nat
      BY RoadFits DEF SlotsInv
    <2>7. ASSUME NEW u \in first .. Day
          PROVE  Ticks(u, u + service.length) \subseteq work <=> u + service.length <= w.to
      <3>1. u \in Int /\ w.from <= u
        BY <1>2, <2>4
      <3>2. ASSUME u + service.length <= w.to PROVE Ticks(u, u + service.length) \subseteq work
        BY <1>2, <2>6, <3>1, <3>2 DEF Ticks
      <3>3. ASSUME Ticks(u, u + service.length) \subseteq work PROVE u + service.length <= w.to
        <4>1. u + service.length - 1 \in Ticks(u, u + service.length)
          BY <2>6, <3>1 DEF Ticks
        <4>2. u + service.length - 1 \in w.from .. w.to - 1
          BY <1>2, <3>3, <4>1 DEF Ticks
        <4> QED BY <1>2, <2>6, <3>1, <4>2
      <3> QED BY <3>2, <3>3
    <2>8. ASSUME NEW u \in first .. Day, u + service.length <= w.to
          PROVE  ~BlocksArtist(Occupied(rows), Candidate(u)) <=>
                   Ticks(u, u + service.length + service.cleanup) \cap Busy(rows) = {}
      <3>1. u \in 0 .. Day /\ u + service.length <= Day
        BY <1>2, <2>4, <2>6, <2>8
      <3> QED BY <2>5, <3>1, BlockedExactly, BusyExactly DEF Until
    <2>9. PICK walked : walked = {u \in first .. w.to : /\ (u - first) % Step = 0
                                                        /\ u + service.length <= w.to
                                                        /\ ~BlocksArtist(Occupied(rows), Candidate(u))}
      OBVIOUS
    <2>10. PICK wanted : wanted = {u \in first .. Day :
                                     /\ (u - first) % Step = 0
                                     /\ Ticks(u, u + service.length) \subseteq work
                                     /\ Ticks(u, u + service.length + service.cleanup) \cap Busy(rows) = {}}
      OBVIOUS
    <2>11. ASSUME NEW u \in first .. Day
           PROVE  u \in walked <=> u \in wanted
      <3>1. u + service.length <= w.to => u \in first .. w.to
        BY <1>2, <2>4, <2>6
      <3> QED BY <2>7, <2>8, <2>9, <2>10, <2>11, <3>1
    <2>12. walked = wanted
      <3>1. first .. w.to \subseteq first .. Day
        BY <1>2, <2>4
      <3>2. walked \subseteq first .. Day /\ wanted \subseteq first .. Day
        BY <2>9, <2>10, <3>1
      <3> QED BY <2>11, <3>2
    <2>13. Slots(rows, x, clock) = {[at |-> t, early |-> IsEarlyBird(t)] : t \in walked}
      BY <1>1, <1>4, <2>4, <2>9 DEF Slots, IsEarlyBird
    <2>14. work # {}
      BY <2>1
    <2> QED BY <2>10, <2>12, <2>13, <2>14
  <1> QED BY <1>3, <1>4

\* What the list leaves room for, the hold's transaction has room for.
LEMMA NothingRefuses ==
  ASSUME SlotsInv
  PROVE  RefusedAfterCompletion
  <1> SUFFICES ASSUME NEW x \in InForce, NEW rows, rows = Swept(agenda),
                      NEW t \in Times(Slots(rows, x, clock)),
                      NEW left, left = {e \in rows : e.status # "completed"}
               PROVE  Free(left, t, Until(t))
    BY DEF RefusedAfterCompletion, Until
  <1>1. PICK w : w = ResolveDay(StoreWindow, x)
    OBVIOUS
  <1>2. /\ EarliestStart(w, clock) \in Int /\ w.from <= EarliestStart(w, clock)
        /\ w.from \in 0 .. Day /\ w.to \in 0 .. Day /\ Day \in Nat
    BY <1>1, FirstTime
  <1>3. rows \in SUBSET agenda
    BY DEF Swept
  <1>4. /\ t \in EarliestStart(w, clock) .. w.to
        /\ t + service.length <= w.to
        /\ ~BlocksArtist(Occupied(rows), Candidate(t))
    BY <1>1, <1>3, Listed
  <1>5. service.length \in Nat \ {0} /\ service.cleanup \in Nat /\ TravelMinutes \in Nat
    BY RoadFits DEF SlotsInv
  <1>6. t \in 0 .. Day /\ t + service.length <= Day
    BY <1>2, <1>4, <1>5
  <1>7. ~\E e \in rows : Meeting(e, t)
    BY <1>3, <1>4, <1>6, BlockedExactly
  <1>8. PICK until \in Int : until = Until(t)
    BY <1>5, <1>6 DEF Until
  <1>9. ASSUME NEW e \in left
        PROVE  /\ e.status \in Guarded => ~(e.from < until /\ t < e.until)
               /\ e.elsewhere /\ e.status \in BlockingStatuses =>
                    ~(e.from < until + TravelMinutes /\ t < e.until + TravelMinutes)
    <2>1. e \in rows /\ e \in agenda /\ e.status # "completed"
      BY <1>3
    <2>2. /\ e.from \in Int /\ e.until \in Int /\ RoadOf(e) \in Nat
          /\ e.status \in BlockingStatuses
      BY <2>1, Appointments DEF BlockingStatuses
    <2>3. ~(e.from - RoadOf(e) < until /\ t < e.until + RoadOf(e))
      BY <1>7, <1>8, <2>1, <2>2 DEF Meeting
    <2>4. ~(e.from < until /\ t < e.until)
      BY <1>6, <1>8, <2>2, <2>3
    <2>5. e.elsewhere => ~(e.from < until + TravelMinutes /\ t < e.until + TravelMinutes)
      <3>1. e.elsewhere => RoadOf(e) = TravelMinutes
        BY DEF RoadOf
      <3> QED BY <1>5, <1>6, <1>8, <2>2, <2>3, <3>1
    <2> QED BY <2>4, <2>5
  <1> QED BY <1>8, <1>9 DEF Free, Collides, TooLittleRoad

-----------------------------------------------------------------------------
(* The stretches of a day: what occupies her, merged.                      *)

\* What is merged, and what it is merged into.
Stretch == [from : Int, to : Int, kind : {"service"}]
Timed(occ) == IsFiniteSet(occ) /\ \A i \in occ : i.from \in Int /\ i.to \in Int /\ i.from < i.to

Covered(m, i) == i.from <= m /\ m < i.to

\* Stretches in order and apart, which start where something starts and cover
\* what it covers.
Merges(q, occ) ==
  /\ q \in Seq(Stretch)
  /\ \A k \in 1 .. Len(q) : q[k].from < q[k].to /\ \E i \in occ : q[k].from = i.from
  /\ \A k, l \in 1 .. Len(q) : k < l => q[k].to < q[l].from
  /\ \A m \in Int : (\E k \in 1 .. Len(q) : Covered(m, q[k])) <=> \E i \in occ : Covered(m, i)

LEMMA LatestIs ==
  ASSUME NEW occ, Timed(occ), occ # {}
  PROVE  Latest(occ) \in occ /\ \A j \in occ : j.from <= Latest(occ).from
  <1>1. PICK start : start = [i \in occ |-> i.from]
    OBVIOUS
  <1>2. PICK starts : starts = {start[i] : i \in occ}
    OBVIOUS
  <1>3. IsFiniteSet(starts)
    BY <1>2, ImageIsFinite DEF Timed
  <1>4. starts \subseteq Int /\ starts # {}
    BY <1>1, <1>2 DEF Timed
  <1>5. PICK m \in starts : \A n \in starts : n <= m
    BY <1>3, <1>4, GreatestAndLeast
  <1>6. \E i \in occ : \A j \in occ : j.from <= i.from
    BY <1>1, <1>2, <1>5
  <1> QED BY <1>6 DEF Latest

LEMMA ExtendType ==
  ASSUME NEW i, i.from \in Int, i.to \in Int, NEW q \in Seq(Stretch)
  PROVE  Extend(i, q) \in Seq(Stretch)
  <1>1. PICK n \in Nat : n = Len(q)
    OBVIOUS
  <1>2. Interval(i.from, i.to, "service") \in Stretch
    BY DEF Interval, Stretch
  <1>3. CASE q = <<>>
    BY <1>2, <1>3 DEF Extend
  <1>4. CASE q # <<>>
    <2>1. n \in 1 .. Len(q) /\ q[n] \in Stretch
      BY <1>1, <1>4
    <2>2. PICK late \in Stretch : late = [q[n] EXCEPT !.to = IF i.to > @ THEN i.to ELSE @]
      BY <2>1 DEF Stretch
    <2>3. [q EXCEPT ![n] = late] \in Seq(Stretch)
      BY <2>1, <2>2
    <2>4. Extend(i, q) = IF i.from <= q[n].to THEN [q EXCEPT ![n] = late]
                         ELSE Append(q, Interval(i.from, i.to, "service"))
      BY <1>1, <1>4, <2>2 DEF Extend
    <2> QED BY <1>2, <2>3, <2>4
  <1> QED BY <1>3, <1>4

\* The recursion that Merged folds: the latest onto what the rest is merged into.
Merger(g, occ) ==
  g = [s \in SUBSET occ |-> IF s = {} THEN <<>> ELSE Extend(Latest(s), g[s \ {Latest(s)}])]

LEMMA MergerExists ==
  ASSUME NEW occ, Timed(occ)
  PROVE  \E g : Merger(g, occ)
  <1>1. \A s \in SUBSET occ : Timed(s)
    BY FS_Subset DEF Timed
  <1>2. PICK pick : pick = [s \in SUBSET occ |-> Latest(s)]
    OBVIOUS
  <1>3. PICK step : step = [p \in occ \X Seq(Stretch) |-> Extend(p[1], p[2])]
    OBVIOUS
  <1>4. \A s \in SUBSET occ : s # {} => pick[s] \in s
    BY <1>1, <1>2, LatestIs
  <1>5. \A i \in occ, q \in Seq(Stretch) : step[<<i, q>>] = Extend(i, q) /\ step[<<i, q>>] \in Seq(Stretch)
    BY <1>3, ExtendType DEF Timed
  <1>6. IsFiniteSet(occ) /\ <<>> \in Seq(Stretch)
    BY DEF Timed
  <1>7. PICK g \in [SUBSET occ -> Seq(Stretch)] :
          \A s \in SUBSET occ : g[s] = IF s = {} THEN <<>> ELSE step[<<pick[s], g[s \ {pick[s]}]>>]
    <2>1. PICK Y : Y = Seq(Stretch)
      OBVIOUS
    <2>2. PICK base \in Y : base = <<>>
      BY <1>6, <2>1
    <2>3. \A i \in occ, q \in Y : step[<<i, q>>] \in Y
      BY <1>5, <2>1
    <2>4. \E g \in [SUBSET occ -> Y] : Recurs(g, SUBSET occ, base, pick, step)
      BY <1>4, <1>6, <2>3, FoldExists
    <2> QED BY <2>1, <2>2, <2>4 DEF Recurs
  <1>8. ASSUME NEW s \in SUBSET occ
        PROVE  g[s] = IF s = {} THEN <<>> ELSE Extend(Latest(s), g[s \ {Latest(s)}])
    <2>1. CASE s = {}
      BY <1>7, <2>1
    <2>2. CASE s # {}
      <3>1. PICK i \in occ : i = pick[s] /\ i = Latest(s)
        BY <1>2, <1>4, <2>2
      <3>2. g[s \ {i}] \in Seq(Stretch)
        OBVIOUS
      <3>3. g[s] = step[<<i, g[s \ {i}]>>]
        BY <1>7, <2>2, <3>1
      <3> QED BY <1>5, <2>2, <3>1, <3>2, <3>3
    <2> QED BY <2>1, <2>2
  <1>9. Merger(g, occ)
    BY <1>8 DEF Merger
  <1> QED BY <1>9

\* Merged is what such a recursion comes to.
LEMMA MergedByOne ==
  ASSUME NEW occ, Timed({i \in occ : KindBlocks(i)})
  PROVE  \E g : Merger(g, {i \in occ : KindBlocks(i)}) /\ Merged(occ) = g[{i \in occ : KindBlocks(i)}]
  <1>1. PICK busy : busy = {i \in occ : KindBlocks(i)}
    OBVIOUS
  <1>2. \E g : g = (CHOOSE h : Merger(h, busy)) /\ Merged(occ) = g[busy]
    BY <1>1 DEF Merged, MapThenFoldSet, Merger
  <1>3. \E g : Merger(g, busy)
    BY <1>1, MergerExists
  <1> QED BY <1>1, <1>2, <1>3

\* One more stretch, later than all so far: it starts after the last ends, or
\* meets it.
LEMMA AppendMerges ==
  ASSUME NEW occ, Timed(occ), NEW q, Merges(q, occ),
         NEW i, i.from \in Int, i.to \in Int, i.from < i.to,
         \A k \in 1 .. Len(q) : q[k].to < i.from
  PROVE  Merges(Append(q, Interval(i.from, i.to, "service")), occ \cup {i})
  <1>1. PICK n \in Nat : n = Len(q)
    BY DEF Merges
  <1>2. PICK b \in Stretch : b = Interval(i.from, i.to, "service") /\ b.from = i.from /\ b.to = i.to
    <2>1. PICK b : b = [from |-> i.from, to |-> i.to, kind |-> "service"]
      OBVIOUS
    <2>2. b \in Stretch /\ b.from = i.from /\ b.to = i.to
      BY <2>1 DEF Stretch
    <2> QED BY <2>1, <2>2 DEF Interval
  <1>3. PICK r : r = Append(q, b)
    OBVIOUS
  <1>4. q \in Seq(Stretch) /\ r \in Seq(Stretch) /\ Len(r) = n + 1
    BY <1>1, <1>3 DEF Merges
  <1>5. \A k \in 1 .. n + 1 : r[k] = IF k = n + 1 THEN b ELSE q[k]
    BY <1>1, <1>3, <1>4
  <1>6. \A k \in 1 .. n + 1 : k \in 1 .. n \/ k = n + 1
    BY <1>1
  <1>7. ASSUME NEW k \in 1 .. n + 1
        PROVE  r[k].from < r[k].to /\ \E j \in occ \cup {i} : r[k].from = j.from
    <2>1. CASE k = n + 1
      BY <1>2, <1>5, <2>1
    <2>2. CASE k # n + 1
      <3>1. k \in 1 .. Len(q) /\ r[k] = q[k]
        BY <1>1, <1>5, <1>6, <2>2
      <3>2. q[k].from < q[k].to /\ \E j \in occ : q[k].from = j.from
        BY <3>1 DEF Merges
      <3> QED BY <3>1, <3>2
    <2> QED BY <2>1, <2>2
  <1>8. ASSUME NEW k \in 1 .. n + 1, NEW l \in 1 .. n + 1, k < l
        PROVE  r[k].to < r[l].from
    <2>1. k \in 1 .. Len(q) /\ r[k] = q[k]
      BY <1>1, <1>5, <1>8
    <2>2. CASE l = n + 1
      BY <1>2, <1>5, <2>1, <2>2
    <2>3. CASE l # n + 1
      <3>1. l \in 1 .. Len(q) /\ r[l] = q[l]
        BY <1>1, <1>5, <1>6, <2>3
      <3> QED BY <1>8, <2>1, <3>1 DEF Merges
    <2> QED BY <2>2, <2>3
  <1>9. ASSUME NEW m \in Int
        PROVE  (\E k \in 1 .. n + 1 : Covered(m, r[k])) <=> \E j \in occ \cup {i} : Covered(m, j)
    <2>1. (\E k \in 1 .. Len(q) : Covered(m, q[k])) <=> \E j \in occ : Covered(m, j)
      BY DEF Merges
    <2>2. Covered(m, b) <=> Covered(m, i)
      BY <1>2 DEF Covered
    <2>3. n + 1 \in 1 .. n + 1 /\ r[n + 1] = b
      BY <1>1, <1>5
    <2>4. \A k \in 1 .. Len(q) : k \in 1 .. n + 1 /\ r[k] = q[k]
      BY <1>1, <1>5
    <2>5. \A k \in 1 .. n + 1 : (k \in 1 .. Len(q) /\ r[k] = q[k]) \/ r[k] = b
      BY <1>1, <1>5, <1>6
    <2> QED BY <2>1, <2>2, <2>3, <2>4, <2>5
  <1>10. Merges(r, occ \cup {i})
    BY <1>4, <1>7, <1>8, <1>9 DEF Merges
  <1> QED BY <1>2, <1>3, <1>10

\* One that starts before the last ends makes it as long as the longer.
LEMMA StretchMerges ==
  ASSUME NEW occ, Timed(occ), NEW q, Merges(q, occ), q # <<>>,
         NEW i, i.from \in Int, i.to \in Int, i.from < i.to,
         \A j \in occ : j.from <= i.from, i.from <= q[Len(q)].to
  PROVE  Merges(Extend(i, q), occ \cup {i})
  <1>1. PICK n \in Nat : n = Len(q)
    BY DEF Merges
  <1>2. q \in Seq(Stretch) /\ n \in 1 .. n
    BY <1>1 DEF Merges
  <1>3. PICK last \in Stretch : last = q[n]
    BY <1>1, <1>2
  <1>4. last.from \in Int /\ last.to \in Int /\ last.from < last.to /\ last.from <= i.from
    <2>1. PICK j \in occ : last.from = j.from
      BY <1>1, <1>2, <1>3 DEF Merges
    <2> QED BY <1>1, <1>2, <1>3, <2>1 DEF Merges, Stretch
  <1>5. PICK late \in Stretch : /\ late = [last EXCEPT !.to = IF i.to > @ THEN i.to ELSE @]
                                /\ late.from = last.from
                                /\ late.to = IF i.to > last.to THEN i.to ELSE last.to
    <2>1. PICK to \in Int : to = IF i.to > last.to THEN i.to ELSE last.to
      BY <1>4
    <2>2. PICK late : late = [last EXCEPT !.to = to]
      OBVIOUS
    <2>3. late \in Stretch /\ late.from = last.from /\ late.to = to
      BY <2>2 DEF Stretch
    <2> QED BY <2>1, <2>2, <2>3
  <1>6. PICK r : r = [q EXCEPT ![n] = late]
    OBVIOUS
  <1>7. /\ r \in Seq(Stretch) /\ Len(r) = n
        /\ \A k \in 1 .. n : r[k] = IF k = n THEN late ELSE q[k]
    BY <1>1, <1>2, <1>6
  <1>8. \A k \in 1 .. n : q[k] \in Stretch /\ q[k].from \in Int /\ q[k].to \in Int
    <2>1. \A k \in 1 .. n : q[k] \in Stretch
      BY <1>1, <1>2
    <2> QED BY <2>1 DEF Stretch
  <1>9. ASSUME NEW k \in 1 .. n
        PROVE  r[k].from < r[k].to /\ \E j \in occ \cup {i} : r[k].from = j.from
    <2>1. q[k].from < q[k].to /\ \E j \in occ : q[k].from = j.from
      BY <1>1 DEF Merges
    <2>2. r[k].from = q[k].from
      BY <1>3, <1>5, <1>7
    <2>3. r[k].from < r[k].to
      <3>1. CASE k = n
        <4>1. r[k] = late
          BY <1>7, <3>1
        <4> QED BY <1>4, <1>5, <4>1
      <3>2. CASE k # n
        BY <1>7, <2>1, <3>2
      <3> QED BY <3>1, <3>2
    <2> QED BY <2>1, <2>2, <2>3
  <1>10. ASSUME NEW k \in 1 .. n, NEW l \in 1 .. n, k < l
         PROVE  r[k].to < r[l].from
    <2>1. q[k].to < q[l].from
      BY <1>1, <1>10 DEF Merges
    <2>2. k # n /\ r[k] = q[k]
      BY <1>7, <1>10
    <2>3. r[l].from = q[l].from
      BY <1>3, <1>5, <1>7
    <2> QED BY <2>1, <2>2, <2>3
  <1>11. ASSUME NEW m \in Int
         PROVE  (\E k \in 1 .. n : Covered(m, r[k])) <=> \E j \in occ \cup {i} : Covered(m, j)
    <2>1. (\E k \in 1 .. n : Covered(m, q[k])) <=> \E j \in occ : Covered(m, j)
      BY <1>1 DEF Merges
    <2>2. Covered(m, late) <=> Covered(m, last) \/ Covered(m, i)
      BY <1>1, <1>3, <1>4, <1>5 DEF Covered
    <2>3. r[n] = late /\ q[n] = last /\ n \in 1 .. n
      BY <1>2, <1>3, <1>7
    <2>4. \A k \in 1 .. n : k = n \/ r[k] = q[k]
      BY <1>7
    <2> QED BY <2>1, <2>2, <2>3, <2>4
  <1>12. Merges(r, occ \cup {i})
    BY <1>7, <1>9, <1>10, <1>11 DEF Merges
  <1>13. Extend(i, q) = r
    BY <1>1, <1>3, <1>5, <1>6 DEF Extend
  <1> QED BY <1>1, <1>12, <1>13

LEMMA ExtendMerges ==
  ASSUME NEW occ, Timed(occ), NEW q, Merges(q, occ),
         NEW i, i.from \in Int, i.to \in Int, i.from < i.to, \A j \in occ : j.from <= i.from
  PROVE  Merges(Extend(i, q), occ \cup {i})
  <1>1. q \in Seq(Stretch) /\ Len(q) \in Nat
    BY DEF Merges
  <1>2. CASE q # <<>> /\ i.from <= q[Len(q)].to
    BY <1>2, StretchMerges
  <1>3. CASE ~(q # <<>> /\ i.from <= q[Len(q)].to)
    <2>1. Extend(i, q) = Append(q, Interval(i.from, i.to, "service"))
      BY <1>3 DEF Extend
    <2>2. ASSUME NEW k \in 1 .. Len(q) PROVE q[k].to < i.from
      <3>1. PICK n \in Nat : n = Len(q) /\ n \in 1 .. n /\ k \in 1 .. n
        BY <1>1
      <3>2. q # <<>>
        BY <3>1
      <3>3. q[n].to < i.from /\ q[n].from < q[n].to
        <4>1. q[n] \in Stretch
          BY <1>1, <3>1
        <4>2. q[n].to \in Int
          BY <4>1 DEF Stretch
        <4> QED BY <1>3, <3>1, <3>2, <4>2 DEF Merges
      <3>4. k = n \/ q[k].to < q[n].from
        BY <3>1 DEF Merges
      <3>5. q[k] \in Stretch /\ q[n] \in Stretch
        BY <1>1, <3>1
      <3> QED BY <3>3, <3>4, <3>5 DEF Stretch
    <2> QED BY <2>1, <2>2, AppendMerges
  <1> QED BY <1>2, <1>3

LEMMA MergerMerges ==
  ASSUME NEW occ, Timed(occ), NEW g, Merger(g, occ)
  PROVE  Merges(g[occ], occ)
  <1> DEFINE G == {s \in SUBSET occ : Merges(g[s], s)}
  <1>1. ASSUME NEW s \in SUBSET occ, \A i \in s : s \ {i} \in G PROVE s \in G
    <2>1. g[s] = IF s = {} THEN <<>> ELSE Extend(Latest(s), g[s \ {Latest(s)}])
      BY DEF Merger
    <2>2. CASE s = {}
      <3>1. g[s] = <<>> /\ Len(<<>>) = 0 /\ <<>> \in Seq(Stretch)
        BY <2>1, <2>2
      <3>2. \A k \in 1 .. Len(g[s]) : FALSE
        BY <3>1
      <3>3. Merges(g[s], s)
        BY <2>2, <3>1, <3>2 DEF Merges
      <3> QED BY <3>3
    <2>3. CASE s # {}
      <3>1. Timed(s)
        BY FS_Subset DEF Timed
      <3>2. PICK i \in s : i = Latest(s) /\ \A j \in s : j.from <= i.from
        BY <2>3, <3>1, LatestIs
      <3>3. Timed(s \ {i})
        BY <3>1, FS_Subset DEF Timed
      <3>4. Merges(g[s \ {i}], s \ {i})
        BY <1>1
      <3>5. (s \ {i}) \cup {i} = s
        OBVIOUS
      <3>6. i.from \in Int /\ i.to \in Int /\ i.from < i.to
        BY <3>1 DEF Timed
      <3>7. Merges(Extend(i, g[s \ {i}]), (s \ {i}) \cup {i})
        BY <3>2, <3>3, <3>4, <3>6, ExtendMerges
      <3> QED BY <2>1, <2>3, <3>2, <3>5, <3>7
    <2> QED BY <2>2, <2>3
  <1>2. IsFiniteSet(occ)
    BY DEF Timed
  <1>3. occ \in G
    <2> HIDE DEF G
    <2> QED BY <1>1, <1>2, SetInduction
  <1> QED BY <1>3

\* The merged stretches of what occupies her cover it, in order and apart
\* (Merged of occupancy.go).
LEMMA MergedMerges ==
  ASSUME NEW occ, Timed({i \in occ : KindBlocks(i)})
  PROVE  Merges(Merged(occ), {i \in occ : KindBlocks(i)})
  BY MergedByOne, MergerMerges

-----------------------------------------------------------------------------
(* The gaps of a day: a walk along the stretches, from one end to the      *)
(* other.                                                                  *)

\* The walk from one end of the day to the other.
Walk == [cursor : Int, gaps : SUBSET Stretch]
Walker(h, q, from, to) ==
  h = [T \in SUBSET (DOMAIN q) |->
         IF T = {} THEN [cursor |-> from, gaps |-> {}] ELSE Gap(h[T \ {Max(T)}], q[Max(T)], to)]

LEMMA GapType ==
  ASSUME NEW r \in Walk, NEW busy \in Stretch, NEW to \in Int
  PROVE  Gap(r, busy, to) \in Walk
  <1>1. r.cursor \in Int /\ r.gaps \in SUBSET Stretch /\ busy.from \in Int /\ busy.to \in Int
    BY DEF Walk, Stretch
  <1>2. Interval(r.cursor, busy.from, "service") \in Stretch
    BY <1>1 DEF Interval, Stretch
  <1>3. PICK gaps \in SUBSET Stretch :
          gaps = IF busy.from > r.cursor
                 THEN r.gaps \cup {Interval(r.cursor, busy.from, "service")} ELSE r.gaps
    BY <1>1, <1>2
  <1>4. [cursor |-> busy.to, gaps |-> gaps] \in Walk
    BY <1>1 DEF Walk
  <1> QED BY <1>3, <1>4 DEF Gap

LEMMA WalkerExists ==
  ASSUME NEW q \in Seq(Stretch), NEW from \in Int, NEW to \in Int
  PROVE  \E h : Walker(h, q, from, to)
  <1>1. PICK n \in Nat : n = Len(q) /\ DOMAIN q = 1 .. n
    OBVIOUS
  <1>2. IsFiniteSet(1 .. n) /\ \A k \in 1 .. n : q[k] \in Stretch
    <2>1. IsFiniteSet(1 .. n)
      BY FS_Interval
    <2> QED BY <1>1, <2>1
  <1>3. \A T \in SUBSET (1 .. n) : T # {} => Max(T) \in T
    <2> SUFFICES ASSUME NEW T \in SUBSET (1 .. n), T # {} PROVE Max(T) \in T
      OBVIOUS
    <2>1. T \subseteq Int /\ IsFiniteSet(T)
      <3>1. IsFiniteSet(T)
        BY <1>2, FS_Subset
      <3> QED BY <3>1
    <2>2. PICK m \in T : \A k \in T : k <= m
      BY <2>1, GreatestAndLeast
    <2>3. \A k \in T : m >= k
      BY <2>1, <2>2
    <2> QED BY <2>3 DEF Max
  <1>4. PICK pick : pick = [T \in SUBSET (1 .. n) |-> Max(T)]
    OBVIOUS
  <1>5. PICK step : step = [p \in (1 .. n) \X Walk |-> Gap(p[2], q[p[1]], to)]
    OBVIOUS
  <1>6. PICK S : S = 1 .. n
    OBVIOUS
  <1>7. PICK base \in Walk : base = [cursor |-> from, gaps |-> {}]
    BY DEF Walk
  <1>8. \A k \in S, r \in Walk : step[<<k, r>>] = Gap(r, q[k], to) /\ step[<<k, r>>] \in Walk
    BY <1>2, <1>5, <1>6, GapType
  <1>9. \A T \in SUBSET S : pick[T] = Max(T) /\ (T # {} => pick[T] \in T)
    BY <1>3, <1>4, <1>6
  <1>10. PICK h \in [SUBSET S -> Walk] : Recurs(h, SUBSET S, base, pick, step)
    <2>1. \A k \in S, r \in Walk : step[<<k, r>>] \in Walk
      BY <1>8
    <2>2. \A T \in SUBSET S : T # {} => pick[T] \in T
      BY <1>9
    <2> QED BY <1>2, <1>6, <2>1, <2>2, FoldExists
  <1>11. ASSUME NEW T \in SUBSET S
         PROVE  h[T] = IF T = {} THEN base ELSE Gap(h[T \ {Max(T)}], q[Max(T)], to)
    <2>1. CASE T = {}
      BY <1>10, <2>1 DEF Recurs
    <2>2. CASE T # {}
      <3>1. PICK k \in S : k = pick[T] /\ k = Max(T)
        BY <1>9, <2>2
      <3>2. h[T \ {k}] \in Walk
        OBVIOUS
      <3>3. h[T] = step[<<k, h[T \ {k}]>>]
        BY <1>10, <2>2, <3>1 DEF Recurs
      <3> QED BY <1>8, <2>2, <3>1, <3>2, <3>3
    <2> QED BY <2>1, <2>2
  <1>12. Walker(h, q, from, to)
    BY <1>1, <1>6, <1>7, <1>11 DEF Walker
  <1> QED BY <1>12

\* And FreeWithin what such a walk does.
LEMMA WalkedByOne ==
  ASSUME NEW occ, NEW from \in Int, NEW to \in Int, Merged(occ) \in Seq(Stretch)
  PROVE  \E h : /\ Walker(h, Merged(occ), from, to)
                /\ FreeWithin(occ, from, to) =
                     {g \in h[DOMAIN Merged(occ)].gaps
                             \cup {Interval(h[DOMAIN Merged(occ)].cursor, to, "service")} : ~IsEmpty(g)}
  <1>1. PICK q \in Seq(Stretch) : q = Merged(occ)
    OBVIOUS
  <1>2. \E h : /\ h = (CHOOSE f : Walker(f, q, from, to))
               /\ FreeWithin(occ, from, to) =
                    {g \in h[DOMAIN q].gaps \cup {Interval(h[DOMAIN q].cursor, to, "service")} : ~IsEmpty(g)}
    BY <1>1 DEF FreeWithin, FoldLeft, MapThenFoldSet, Walker
  <1>3. \E h : Walker(h, q, from, to)
    BY WalkerExists
  <1> QED BY <1>1, <1>2, <1>3

\* What the walk has found when the first k stretches are behind it.
Found(r, k, q, from, to) ==
  /\ r \in Walk /\ from <= r.cursor
  /\ r.cursor = from \/ \E j \in 1 .. k : r.cursor = q[j].to
  /\ \A j \in 1 .. k : q[j].to <= r.cursor \/ to <= q[j].from
  /\ \A g \in r.gaps : from <= g.from /\ g.from < g.to /\ g.to < r.cursor /\ g.to < to
  /\ \A g, f \in r.gaps : g # f => g.to < f.from \/ f.to < g.from
  /\ \A m \in Int : from <= m /\ m < r.cursor /\ m < to =>
       ((\E g \in r.gaps : Covered(m, g)) <=> ~\E j \in 1 .. k : Covered(m, q[j]))

\* A stretch behind the cursor or past the end changes nothing; any other
\* leaves the gap before it, if there is one.
LEMMA FoundNext ==
  ASSUME NEW q \in Seq(Stretch), NEW from \in Int, NEW to \in Int,
         \A j \in 1 .. Len(q) : q[j].from < q[j].to,
         \A j, l \in 1 .. Len(q) : j < l => q[j].to < q[l].from,
         NEW k \in Nat, k + 1 \in 1 .. Len(q), NEW r, Found(r, k, q, from, to)
  PROVE  Found(Gap(r, q[k + 1], to), k + 1, q, from, to)
  <1>1. PICK n \in Nat : n = Len(q) /\ k + 1 <= n
    OBVIOUS
  <1>2. PICK b \in Stretch : b = q[k + 1]
    BY <1>1
  <1>3. PICK c \in Int : c = r.cursor /\ from <= c
    BY DEF Found, Walk
  <1>4. \A j \in 1 .. k + 1 : j \in 1 .. n /\ q[j].from \in Int /\ q[j].to \in Int /\ q[j].from < q[j].to
    <2>1. \A j \in 1 .. k + 1 : j \in 1 .. n
      BY <1>1
    <2>2. \A j \in 1 .. n : q[j] \in Stretch
      BY <1>1
    <2> QED BY <1>1, <2>1, <2>2 DEF Stretch
  <1>5. \A j \in 1 .. k + 1 : j \in 1 .. k \/ j = k + 1
    OBVIOUS
  <1>6. \A j \in 1 .. k : j \in 1 .. k + 1 /\ q[j].to < b.from
    BY <1>1, <1>2
  <1>7. b.from \in Int /\ b.to \in Int /\ b.from < b.to /\ k + 1 \in 1 .. k + 1
    BY <1>2, <1>4
  <1>8. c = from \/ c < b.from
    <2>1. CASE c # from
      <3>1. PICK j \in 1 .. k : c = q[j].to
        BY <1>3, <2>1 DEF Found
      <3> QED BY <1>6, <3>1
    <2> QED BY <2>1
  <1>9. r.gaps \in SUBSET Stretch /\ \A g \in r.gaps : g.from \in Int /\ g.to \in Int
    BY DEF Found, Walk, Stretch
  <1>10. CASE b.to <= c \/ to <= b.from
    <2>1. Gap(r, b, to) = r
      BY <1>3, <1>7, <1>10 DEF Gap
    <2>2. ASSUME NEW m \in Int, from <= m, m < c, m < to PROVE ~Covered(m, b)
      BY <1>7, <1>8, <1>10, <2>2 DEF Covered
    <2>3. \A m \in Int : from <= m /\ m < c /\ m < to =>
            ((\E g \in r.gaps : Covered(m, g)) <=> ~\E j \in 1 .. k + 1 : Covered(m, q[j]))
      BY <1>2, <1>3, <1>5, <1>6, <2>2 DEF Found
    <2>4. \A j \in 1 .. k + 1 : q[j].to <= c \/ to <= q[j].from
      BY <1>2, <1>3, <1>5, <1>10 DEF Found
    <2>5. c = from \/ \E j \in 1 .. k + 1 : c = q[j].to
      BY <1>3, <1>6 DEF Found
    <2>6. Found(r, k + 1, q, from, to)
      BY <1>3, <2>3, <2>4, <2>5 DEF Found
    <2> QED BY <1>2, <2>1, <2>6
  <1>11. CASE ~(b.to <= c \/ to <= b.from)
    <2>1. PICK fresh \in Stretch : fresh = Interval(c, b.from, "service") /\ fresh.from = c /\ fresh.to = b.from
      <3>1. PICK g : g = [from |-> c, to |-> b.from, kind |-> "service"]
        OBVIOUS
      <3>2. g \in Stretch /\ g.from = c /\ g.to = b.from
        BY <1>7, <3>1 DEF Stretch
      <3> QED BY <3>1, <3>2 DEF Interval
    <2>2. PICK gaps \in SUBSET Stretch : gaps = IF b.from > c THEN r.gaps \cup {fresh} ELSE r.gaps
      BY <1>9, <2>1
    <2>3. PICK next \in Walk : next = [cursor |-> b.to, gaps |-> gaps]
      BY <1>7 DEF Walk
    <2>4. Gap(r, b, to) = next
      BY <1>3, <1>7, <1>11, <2>1, <2>2, <2>3 DEF Gap
    <2>5. c < b.to /\ b.from < to
      BY <1>3, <1>7, <1>11
    <2>6. next.cursor = b.to /\ next.gaps = gaps
      BY <2>3
    <2>7. \A j \in 1 .. k + 1 : q[j].to <= b.to \/ to <= q[j].from
      BY <1>2, <1>4, <1>5, <1>6, <1>7
    <2>8. \A g \in r.gaps : from <= g.from /\ g.from < g.to /\ g.to < c /\ g.to < to
      BY <1>3 DEF Found
    <2>9. \A g \in gaps : g \in r.gaps \/ (g = fresh /\ c < b.from)
      BY <1>3, <1>7, <2>2
    <2>10. ASSUME NEW g \in gaps
           PROVE  from <= g.from /\ g.from < g.to /\ g.to < b.to /\ g.to < to
      <3>1. CASE g \in r.gaps
        BY <1>7, <1>9, <2>5, <2>8, <3>1
      <3>2. CASE g = fresh /\ c < b.from
        BY <1>3, <1>7, <2>1, <2>5, <3>2
      <3> QED BY <2>9, <3>1, <3>2
    <2>11. ASSUME NEW g \in gaps, NEW f \in gaps, g # f PROVE g.to < f.from \/ f.to < g.from
      <3>1. CASE g \in r.gaps /\ f \in r.gaps
        BY <2>11, <3>1 DEF Found
      <3>2. CASE g = fresh /\ f \in r.gaps
        BY <2>1, <2>8, <3>2
      <3>3. CASE f = fresh /\ g \in r.gaps
        BY <2>1, <2>8, <3>3
      <3> QED BY <2>9, <2>11, <3>1, <3>2, <3>3
    <2>12. ASSUME NEW m \in Int, from <= m, m < b.to, m < to
           PROVE  (\E g \in gaps : Covered(m, g)) <=> ~\E j \in 1 .. k + 1 : Covered(m, q[j])
      <3>1. CASE m < c
        <4>1. c < b.from
          BY <1>3, <1>8, <2>12, <3>1
        <4>2. ~Covered(m, b) /\ ~Covered(m, fresh)
          BY <1>3, <1>7, <2>1, <3>1, <4>1 DEF Covered
        <4>3. (\E g \in r.gaps : Covered(m, g)) <=> ~\E j \in 1 .. k : Covered(m, q[j])
          BY <1>3, <2>12, <3>1 DEF Found
        <4>4. gaps = r.gaps \cup {fresh}
          BY <1>3, <1>7, <2>2, <4>1
        <4> QED BY <1>2, <1>5, <1>6, <4>2, <4>3, <4>4
      <3>2. CASE ~(m < c)
        <4>1. \A g \in r.gaps : ~Covered(m, g)
          BY <1>3, <1>9, <2>8, <3>2 DEF Covered
        <4>2. \A j \in 1 .. k : ~Covered(m, q[j])
          <5>1. \A j \in 1 .. k : q[j].to <= c \/ to <= q[j].from
            BY <1>3 DEF Found
          <5> QED BY <1>3, <1>4, <1>6, <2>12, <3>2, <5>1 DEF Covered
        <4>3. CASE m < b.from
          <5>1. Covered(m, fresh) /\ ~Covered(m, b) /\ c < b.from
            BY <1>3, <1>7, <2>1, <3>2, <4>3 DEF Covered
          <5>2. fresh \in gaps
            BY <1>3, <1>7, <2>2, <5>1
          <5> QED BY <1>2, <1>5, <4>2, <5>1, <5>2
        <4>4. CASE ~(m < b.from)
          <5>1. Covered(m, b) /\ ~Covered(m, fresh)
            BY <1>7, <2>1, <2>12, <4>4 DEF Covered
          <5> QED BY <1>2, <1>7, <2>9, <4>1, <5>1
        <4> QED BY <4>3, <4>4
      <3> QED BY <3>1, <3>2
    <2>13. from <= next.cursor /\ \E j \in 1 .. k + 1 : next.cursor = q[j].to
      BY <1>2, <1>3, <1>7, <2>5, <2>6
    <2>14. Found(next, k + 1, q, from, to)
      BY <2>6, <2>7, <2>10, <2>11, <2>12, <2>13 DEF Found
    <2> QED BY <1>2, <2>4, <2>14
  <1> QED BY <1>10, <1>11

LEMMA WalkFinds ==
  ASSUME NEW q \in Seq(Stretch), NEW from \in Int, NEW to \in Int,
         \A j \in 1 .. Len(q) : q[j].from < q[j].to,
         \A j, l \in 1 .. Len(q) : j < l => q[j].to < q[l].from,
         NEW h, Walker(h, q, from, to)
  PROVE  Found(h[1 .. Len(q)], Len(q), q, from, to)
  <1>1. PICK n \in Nat : n = Len(q) /\ DOMAIN q = 1 .. n
    OBVIOUS
  <1> DEFINE G == {k \in Nat : k <= n => Found(h[1 .. k], k, q, from, to)}
  <1>2. \A T \in SUBSET (1 .. n) :
          h[T] = IF T = {} THEN [cursor |-> from, gaps |-> {}] ELSE Gap(h[T \ {Max(T)}], q[Max(T)], to)
    BY <1>1 DEF Walker
  <1>3. 0 \in G
    <2>1. PICK none : none = 1 .. 0
      OBVIOUS
    <2>2. none = {}
      BY <2>1
    <2>3. PICK r : r = [cursor |-> from, gaps |-> {}]
      OBVIOUS
    <2>4. h[none] = r
      BY <1>2, <2>2, <2>3
    <2>5. r \in Walk /\ r.cursor = from /\ r.gaps = {}
      BY <2>3 DEF Walk
    <2>6. Found(r, 0, q, from, to)
      BY <2>1, <2>2, <2>5 DEF Found
    <2> QED BY <2>1, <2>4, <2>6
  <1>4. ASSUME NEW k \in Nat, k \in G PROVE k + 1 \in G
    <2> SUFFICES ASSUME k + 1 <= n PROVE Found(h[1 .. k + 1], k + 1, q, from, to)
      OBVIOUS
    <2>1. Found(h[1 .. k], k, q, from, to)
      BY <1>4
    <2>2. PICK T \in SUBSET (1 .. n) : T = 1 .. k + 1
      OBVIOUS
    <2>3. Max(T) = k + 1
      <3>1. k + 1 \in T /\ \A j \in T : k + 1 >= j
        BY <2>2
      <3>2. \A m \in T : (\A j \in T : m >= j) => m = k + 1
        BY <2>2, <3>1
      <3> QED BY <3>1, <3>2 DEF Max
    <2>4. T # {} /\ T \ {k + 1} = 1 .. k
      <3>1. k + 1 \in T
        BY <2>2
      <3>2. \A j : j \in T \ {k + 1} <=> j \in 1 .. k
        BY <2>2
      <3> QED BY <3>1, <3>2
    <2>5. h[T] = Gap(h[1 .. k], q[k + 1], to)
      BY <1>2, <2>3, <2>4
    <2>6. k + 1 \in 1 .. Len(q)
      BY <1>1
    <2>7. Found(Gap(h[1 .. k], q[k + 1], to), k + 1, q, from, to)
      BY <2>1, <2>6, FoundNext
    <2> QED BY <2>2, <2>5, <2>7
  <1>5. n \in G
    <2> HIDE DEF G
    <2> QED BY <1>3, <1>4, CountingUp
  <1> QED BY <1>1, <1>5

\* The gaps in what occupies her are what it leaves of the day, apart
\* (FreeWithin of occupancy.go).
LEMMA GapsLeft ==
  ASSUME NEW occ, NEW busy, busy = {i \in occ : KindBlocks(i)}, Timed(busy),
         NEW from \in Int, NEW to \in Int, NEW gaps, gaps = FreeWithin(occ, from, to)
  PROVE  /\ \A m \in Int : (\E g \in gaps : Covered(m, g)) <=>
                             from <= m /\ m < to /\ ~\E i \in busy : Covered(m, i)
         /\ \A g \in gaps : g.from \in Int /\ g.to \in Int
         /\ \A g, f \in gaps : g # f => g.to < f.from \/ f.to < g.from
  <1>1. PICK q : q = Merged(occ) /\ Merges(q, busy)
    BY MergedMerges
  <1>2. /\ q \in Seq(Stretch)
        /\ \A k \in 1 .. Len(q) : q[k].from < q[k].to
        /\ \A k, l \in 1 .. Len(q) : k < l => q[k].to < q[l].from
        /\ \A m \in Int : (\E k \in 1 .. Len(q) : Covered(m, q[k])) <=> \E i \in busy : Covered(m, i)
    BY <1>1 DEF Merges
  <1>3. PICK h : /\ Walker(h, q, from, to)
                 /\ gaps = {g \in h[DOMAIN q].gaps \cup {Interval(h[DOMAIN q].cursor, to, "service")} :
                              ~IsEmpty(g)}
    BY <1>1, <1>2, WalkedByOne
  <1>4. PICK n \in Nat : n = Len(q) /\ DOMAIN q = 1 .. n
    BY <1>2
  <1>5. PICK r : r = h[1 .. n]
    OBVIOUS
  <1>6. Found(r, n, q, from, to)
    BY <1>2, <1>3, <1>4, <1>5, WalkFinds
  <1>7. PICK c \in Int : c = r.cursor /\ from <= c
    BY <1>6 DEF Found, Walk
  <1>8. PICK last : last = Interval(c, to, "service") /\ last.from = c /\ last.to = to
    <2>1. PICK last : last = [from |-> c, to |-> to, kind |-> "service"]
      OBVIOUS
    <2> QED BY <2>1 DEF Interval
  <1>9. \A g \in r.gaps : /\ g.from \in Int /\ g.to \in Int
                          /\ from <= g.from /\ g.from < g.to /\ g.to < c /\ g.to < to
    BY <1>6, <1>7 DEF Found, Walk, Stretch
  <1>10. gaps = {g \in r.gaps \cup {last} : ~IsEmpty(g)}
    BY <1>3, <1>4, <1>5, <1>7, <1>8
  <1>11. /\ \A g \in r.gaps : g \in gaps
         /\ last \in gaps <=> c < to
         /\ \A g \in gaps : g \in r.gaps \/ (g = last /\ c < to)
    BY <1>7, <1>8, <1>9, <1>10 DEF IsEmpty
  <1>12. \A g \in gaps : g.from \in Int /\ g.to \in Int
    BY <1>7, <1>8, <1>9, <1>11
  <1>13. ASSUME NEW g \in gaps, NEW f \in gaps, g # f PROVE g.to < f.from \/ f.to < g.from
    <2>1. CASE g \in r.gaps /\ f \in r.gaps
      BY <1>6, <1>13, <2>1 DEF Found
    <2>2. CASE g = last /\ f \in r.gaps
      BY <1>8, <1>9, <2>2
    <2>3. CASE f = last /\ g \in r.gaps
      BY <1>8, <1>9, <2>3
    <2> QED BY <1>11, <1>13, <2>1, <2>2, <2>3
  <1>14. ASSUME NEW m \in Int
         PROVE  (\E g \in gaps : Covered(m, g)) <=>
                  from <= m /\ m < to /\ ~\E k \in 1 .. n : Covered(m, q[k])
    <2>1. CASE ~(from <= m /\ m < to)
      <3>1. \A g \in r.gaps : ~Covered(m, g)
        BY <1>9, <2>1 DEF Covered
      <3>2. ~Covered(m, last)
        BY <1>7, <1>8, <2>1 DEF Covered
      <3> QED BY <1>11, <2>1, <3>1, <3>2
    <2>2. CASE from <= m /\ m < to /\ m < c
      <3>1. (\E g \in r.gaps : Covered(m, g)) <=> ~\E k \in 1 .. n : Covered(m, q[k])
        BY <1>6, <1>7, <2>2 DEF Found
      <3>2. ~Covered(m, last)
        BY <1>7, <1>8, <2>2 DEF Covered
      <3> QED BY <1>11, <2>2, <3>1, <3>2
    <2>3. CASE from <= m /\ m < to /\ ~(m < c)
      <3>1. Covered(m, last) /\ c < to
        BY <1>7, <1>8, <2>3 DEF Covered
      <3>2. \A k \in 1 .. n : q[k].to <= c \/ to <= q[k].from
        BY <1>6, <1>7 DEF Found
      <3>3. \A k \in 1 .. n : q[k] \in Stretch
        BY <1>2, <1>4
      <3>4. \A k \in 1 .. n : ~Covered(m, q[k])
        BY <1>7, <2>3, <3>2, <3>3 DEF Covered, Stretch
      <3> QED BY <1>11, <2>3, <3>1, <3>4
    <2> QED BY <2>1, <2>2, <2>3
  <1>15. \A m \in Int : (\E k \in 1 .. n : Covered(m, q[k])) <=> \E i \in busy : Covered(m, i)
    BY <1>2, <1>4
  <1> QED BY <1>12, <1>13, <1>14, <1>15

\* What occupies her is finite, and takes time.
LEMMA OccupiedTimed ==
  ASSUME SlotsInv, NEW rows \in SUBSET agenda
  PROVE  Timed({i \in Occupied(rows) : KindBlocks(i)})
  <1>1. TravelMinutes \in Nat
    BY RoadFits DEF SlotsInv
  <1>2. IsFiniteSet(rows)
    BY FS_Subset DEF SlotsInv
  <1>3. PICK service1 : service1 = [e \in rows |-> Interval(e.from, e.to, "service")]
    OBVIOUS
  <1>4. PICK buffer : buffer = [e \in rows |-> Interval(e.to, e.until, "buffer")]
    OBVIOUS
  <1>5. PICK there : there = [e \in rows |-> Interval(e.from - TravelMinutes, e.from, "travel")]
    OBVIOUS
  <1>6. PICK back : back = [e \in rows |-> Interval(e.until, e.until + TravelMinutes, "travel")]
    OBVIOUS
  <1>7. PICK images : images = ({service1[e] : e \in rows} \cup {buffer[e] : e \in rows})
                                \cup ({there[e] : e \in rows} \cup {back[e] : e \in rows})
    OBVIOUS
  <1>8. IsFiniteSet(images)
    <2>1. ASSUME NEW f PROVE IsFiniteSet({f[e] : e \in rows})
      BY <1>2, ImageIsFinite
    <2>2. IsFiniteSet({service1[e] : e \in rows} \cup {buffer[e] : e \in rows})
      BY <2>1, FS_Union
    <2>3. IsFiniteSet({there[e] : e \in rows} \cup {back[e] : e \in rows})
      BY <2>1, FS_Union
    <2> QED BY <1>7, <2>2, <2>3, FS_Union
  <1>9. ASSUME NEW j \in Occupied(rows)
        PROVE  j \in images /\ j.from \in Int /\ j.to \in Int /\ j.from < j.to
    <2>1. PICK e \in Between(rows) :
            /\ ~IsEmpty(j)
            /\ \/ j = Interval(e.from, e.to, "service")
               \/ j = Interval(e.to, e.until, "buffer")
               \/ e.elsewhere /\ j \in TravelIntervals(e.from, e.until, TravelMinutes)
      BY Casts
    <2>2. e \in rows
      BY DEF Between
    <2>3. e.from \in Int /\ e.to \in Int /\ e.until \in Int
      BY <2>2, Appointments
    <2>4. \/ j = Interval(e.from, e.to, "service")
          \/ j = Interval(e.to, e.until, "buffer")
          \/ j = Interval(e.from - TravelMinutes, e.from, "travel")
          \/ j = Interval(e.until, e.until + TravelMinutes, "travel")
      BY <1>1, <2>1 DEF TravelIntervals
    <2>5. j \in images
      BY <1>3, <1>4, <1>5, <1>6, <1>7, <2>2, <2>4
    <2>6. j.from \in Int /\ j.to \in Int
      BY <1>1, <2>3, <2>4 DEF Interval
    <2> QED BY <2>1, <2>5, <2>6 DEF IsEmpty
  <1>10. IsFiniteSet({i \in Occupied(rows) : KindBlocks(i)})
    <2>1. {i \in Occupied(rows) : KindBlocks(i)} \subseteq images
      BY <1>9
    <2> QED BY <1>8, <2>1, FS_Subset
  <1> QED BY <1>9, <1>10 DEF Timed

\* It covers the minutes of the day that she is busy.
LEMMA OccupiedCovers ==
  ASSUME SlotsInv, NEW rows \in SUBSET agenda, NEW m \in Int, 0 <= m, m < Day
  PROVE  (\E i \in {j \in Occupied(rows) : KindBlocks(j)} : Covered(m, i)) <=> m \in Busy(rows)
  <1>1. TravelMinutes \in Nat /\ Pad \in Nat /\ Day \in Nat /\ service.cleanup \in Nat
    BY RoadFits, SlotParameters DEF SlotsInv
  <1>2. m \in Busy(rows) <=>
          \E e \in rows : /\ e.status \in BlockingStatuses
                          /\ m \in Ticks(e.from - RoadOf(e), e.until + RoadOf(e))
    BY DEF Busy, RoadOf
  <1>3. ASSUME NEW from \in Int, NEW to \in Int, NEW kind
        PROVE  /\ IsEmpty(Interval(from, to, kind)) <=> ~(from < to)
               /\ Covered(m, Interval(from, to, kind)) <=> from <= m /\ m < to
               /\ KindBlocks(Interval(from, to, kind)) <=> kind # "processing_gap"
    BY DEF Interval, IsEmpty, Covered, KindBlocks
  <1>4. ASSUME NEW e \in rows, e.status \in BlockingStatuses,
               m \in Ticks(e.from - RoadOf(e), e.until + RoadOf(e))
        PROVE  \E i \in {j \in Occupied(rows) : KindBlocks(j)} : Covered(m, i)
    <2>1. /\ e.from \in Int /\ e.to \in Int /\ e.until \in Int
          /\ e.from < e.to /\ e.to <= e.until
          /\ RoadOf(e) \in Nat /\ RoadOf(e) + service.cleanup <= Pad
      BY Appointments
    <2>2. e.from - RoadOf(e) <= m /\ m < e.until + RoadOf(e)
      BY <1>4, <2>1 DEF Ticks
    <2>3. e \in Between(rows)
      BY <1>1, <1>4, <2>1, <2>2 DEF Between
    <2>4. ASSUME NEW from \in Int, NEW to \in Int, NEW kind, kind # "processing_gap",
                 from <= m, m < to,
                 \/ from = e.from /\ to = e.to /\ kind = "service"
                 \/ from = e.to /\ to = e.until /\ kind = "buffer"
                 \/ e.elsewhere /\ Interval(from, to, kind) \in TravelIntervals(e.from, e.until, TravelMinutes)
          PROVE  \E i \in {j \in Occupied(rows) : KindBlocks(j)} : Covered(m, i)
      <3>1. PICK j : j = Interval(from, to, kind)
        OBVIOUS
      <3>2. ~IsEmpty(j) /\ Covered(m, j) /\ KindBlocks(j)
        BY <1>3, <2>4, <3>1
      <3>3. j \in Occupied(rows)
        BY <2>3, <2>4, <3>1, <3>2, Casts
      <3> QED BY <3>2, <3>3
    <2>5. CASE e.from <= m /\ m < e.until
      <3>1. CASE m < e.to
        BY <2>1, <2>4, <2>5, <3>1
      <3>2. CASE ~(m < e.to)
        BY <2>1, <2>4, <2>5, <3>2
      <3> QED BY <3>1, <3>2
    <2>6. CASE ~(e.from <= m)
      <3>1. e.elsewhere /\ RoadOf(e) = TravelMinutes /\ TravelMinutes > 0
        BY <1>1, <2>1, <2>2, <2>6 DEF RoadOf
      <3>2. Interval(e.from - TravelMinutes, e.from, "travel") \in TravelIntervals(e.from, e.until, TravelMinutes)
        BY <1>1, <3>1 DEF TravelIntervals
      <3>3. e.from - TravelMinutes \in Int /\ e.from - TravelMinutes <= m /\ m < e.from
        BY <1>1, <2>1, <2>2, <2>6, <3>1
      <3> QED BY <2>1, <2>4, <3>1, <3>2, <3>3
    <2>7. CASE ~(m < e.until)
      <3>1. e.elsewhere /\ RoadOf(e) = TravelMinutes /\ TravelMinutes > 0
        BY <1>1, <2>1, <2>2, <2>7 DEF RoadOf
      <3>2. Interval(e.until, e.until + TravelMinutes, "travel") \in TravelIntervals(e.from, e.until, TravelMinutes)
        BY <1>1, <3>1 DEF TravelIntervals
      <3>3. e.until + TravelMinutes \in Int /\ e.until <= m /\ m < e.until + TravelMinutes
        BY <1>1, <2>1, <2>2, <2>7, <3>1
      <3> QED BY <2>1, <2>4, <3>1, <3>2, <3>3
    <2> QED BY <2>5, <2>6, <2>7
  <1>5. ASSUME NEW j \in Occupied(rows), Covered(m, j)
        PROVE  m \in Busy(rows)
    <2>1. PICK e \in Between(rows) :
            \/ j = Interval(e.from, e.to, "service")
            \/ j = Interval(e.to, e.until, "buffer")
            \/ e.elsewhere /\ j \in TravelIntervals(e.from, e.until, TravelMinutes)
      BY Casts
    <2>2. e \in rows /\ e.status \in BlockingStatuses
      BY DEF Between
    <2>3. /\ e.from \in Int /\ e.to \in Int /\ e.until \in Int
          /\ e.from < e.to /\ e.to <= e.until
          /\ RoadOf(e) \in Nat
      BY <2>2, Appointments
    <2>4. CASE j = Interval(e.from, e.to, "service") \/ j = Interval(e.to, e.until, "buffer")
      <3>1. e.from <= m /\ m < e.until
        BY <1>3, <1>5, <2>3, <2>4
      <3>2. m \in Ticks(e.from - RoadOf(e), e.until + RoadOf(e))
        BY <2>3, <3>1 DEF Ticks
      <3> QED BY <1>2, <2>2, <3>2
    <2>5. CASE e.elsewhere /\ j \in TravelIntervals(e.from, e.until, TravelMinutes)
      <3>1. /\ RoadOf(e) = TravelMinutes
            /\ \/ j = Interval(e.from - TravelMinutes, e.from, "travel")
               \/ j = Interval(e.until, e.until + TravelMinutes, "travel")
        BY <1>1, <2>5 DEF RoadOf, TravelIntervals
      <3>2. e.from - TravelMinutes <= m /\ m < e.until + TravelMinutes
        BY <1>1, <1>3, <1>5, <2>3, <3>1
      <3>3. m \in Ticks(e.from - RoadOf(e), e.until + RoadOf(e))
        BY <1>1, <2>3, <3>1, <3>2 DEF Ticks
      <3> QED BY <1>2, <2>2, <3>3
    <2> QED BY <2>1, <2>4, <2>5
  <1> QED BY <1>2, <1>4, <1>5

\* So the gaps are the minutes she is not busy.
LEMMA GapsHold ==
  ASSUME SlotsInv
  PROVE  GapsAreFree
  <1>1. PICK rows \in SUBSET agenda : rows = Swept(agenda)
    BY DEF Swept
  <1>2. PICK gaps : gaps = FreeWithin(Occupied(rows), 0, Day)
    OBVIOUS
  <1>3. PICK busy : busy = {i \in Occupied(rows) : KindBlocks(i)}
    OBVIOUS
  <1>4. Day \in Int /\ Timed(busy)
    BY <1>3, OccupiedTimed, SlotParameters
  <1>5. /\ \A m \in Int : (\E g \in gaps : Covered(m, g)) <=>
                            0 <= m /\ m < Day /\ ~\E i \in busy : Covered(m, i)
        /\ \A g \in gaps : g.from \in Int /\ g.to \in Int
        /\ \A g, f \in gaps : g # f => g.to < f.from \/ f.to < g.from
    <2>1. PICK occ : occ = Occupied(rows)
      OBVIOUS
    <2>2. PICK from \in Int : from = 0
      OBVIOUS
    <2>3. busy = {i \in occ : KindBlocks(i)} /\ gaps = FreeWithin(occ, from, Day)
      BY <1>2, <1>3, <2>1, <2>2
    <2> QED BY <1>4, <2>2, <2>3, GapsLeft
  <1>6. ASSUME NEW m \in Int
        PROVE  m \in UNION {Ticks(g.from, g.to) : g \in gaps} <=> m \in Ticks(0, Day) \ Busy(rows)
    <2>1. \A g \in gaps : m \in Ticks(g.from, g.to) <=> Covered(m, g)
      BY <1>5 DEF Ticks, Covered
    <2>2. m \in Ticks(0, Day) <=> 0 <= m /\ m < Day
      BY <1>4 DEF Ticks
    <2>3. 0 <= m /\ m < Day => ((\E i \in busy : Covered(m, i)) <=> m \in Busy(rows))
      BY <1>3, OccupiedCovers
    <2> QED BY <1>5, <2>1, <2>2, <2>3
  <1>7. \A g \in gaps : Ticks(g.from, g.to) \subseteq Int
    BY <1>5 DEF Ticks
  <1>8. Ticks(0, Day) \subseteq Int
    BY <1>4 DEF Ticks
  <1>9. UNION {Ticks(g.from, g.to) : g \in gaps} = Ticks(0, Day) \ Busy(rows)
    BY <1>6, <1>7, <1>8
  <1> QED BY <1>1, <1>2, <1>5, <1>9 DEF GapsAreFree

-----------------------------------------------------------------------------
(* Every edit keeps the hours the right way round, and every appointment   *)
(* takes time.                                                             *)

AgendaOK(rows) ==
  /\ IsFiniteSet(rows)
  /\ \A e \in rows : e \in Appointment /\ e.from < e.to /\ e.to <= e.until

LEMMA AgendaSwept ==
  ASSUME AgendaOK(agenda)
  PROVE  AgendaOK(Swept(agenda))
  <1>1. Swept(agenda) \subseteq agenda
    BY DEF Swept
  <1> QED BY <1>1, FS_Subset DEF AgendaOK

\* One appointment gives way to another.
LEMMA AgendaTrades ==
  ASSUME NEW rows, AgendaOK(rows), NEW left \in SUBSET rows,
         NEW e \in Appointment, e.from < e.to, e.to <= e.until,
         agenda' = left \cup {e}
  PROVE  AgendaOK(agenda)'
  <1>1. IsFiniteSet(left \cup {e})
    BY FS_Subset, FS_AddElement DEF AgendaOK
  <1> QED BY <1>1 DEF AgendaOK

LEMMA SlotsStart ==
  ASSUME SlotsInit
  PROVE  SlotsInv
  <1>1. \A id \in 1 .. 2 : off[id] = Null
    BY DEF SlotsInit
  <1>2. off \in [1 .. 2 -> OffRow \cup {Null}]
    BY DEF SlotsInit
  <1>3. clock \in Int
    BY SlotParameters DEF SlotsInit
  <1>4. IsFiniteSet(agenda)
    BY FS_EmptySet DEF SlotsInit
  <1> QED BY <1>1, <1>2, <1>3, <1>4 DEF SlotsInit, SlotsInv, SlotsTypeOK

\* An edit: the row it leaves is one a form may send.
LEMMA EditStep ==
  ASSUME SlotsInv, Edit \/ Sell
  PROVE  SlotsInv'
  <1>1. SlotsTypeOK
    BY DEF SlotsInv
  <1>2. ASSUME Edited,
               hours' \in HoursRow \cup {Null}, closure' \in ClosureRow \cup {Null},
               rota' \in RotaRow \cup {Null}, rota' # Null => Forward(rota'.span),
               off' \in [1 .. 2 -> OffRow \cup {Null}],
               \A id \in 1 .. 2 : off'[id] # Null /\ ~off'[id].away => Forward(off'[id].span),
               service' \in Terms, store' \in Settings
        PROVE  SlotsInv'
    BY <1>1, <1>2 DEF Edited, SlotsInv, SlotsTypeOK, Forward
  <1> USE DEF SlotsTypeOK
  <1>3. ASSUME NEW row \in HoursRow, SetBusinessHours(row) PROVE SlotsInv'
    BY <1>1, <1>2, <1>3 DEF SetBusinessHours, HoursBecome, SlotsInv
  <1>4. ASSUME NEW span \in Spans, UpdateDefaults(span) PROVE SlotsInv'
    <2>1. hours' \in HoursRow \cup {Null}
      BY <1>1, <1>4 DEF UpdateDefaults, HoursRow
    <2> QED BY <1>1, <1>2, <1>4, <2>1 DEF UpdateDefaults, SlotsInv
  <1>5. ASSUME NEW row \in ClosureRow, CreateException(row) PROVE SlotsInv'
    BY <1>1, <1>2, <1>5 DEF CreateException, SlotsInv
  <1>6. ASSUME DeleteException PROVE SlotsInv'
    BY <1>1, <1>2, <1>6 DEF DeleteException, SlotsInv
  <1>7. ASSUME NEW row \in RotaRow \cup {Null}, SetMyRota(row) PROVE SlotsInv'
    BY <1>1, <1>2, <1>7 DEF SetMyRota, RotaBecomes, SlotsInv, Forward
  <1>8. ASSUME NEW row \in OffRow, SetMyScheduleException(row) PROVE SlotsInv'
    <2>1. PICK id \in 1 .. 2 : off' = [off EXCEPT ![id] = row]
      BY <1>8 DEF SetMyScheduleException
    <2>2. /\ \A i \in 1 .. 2 : off'[i] = IF i = id THEN row ELSE off[i]
          /\ off' \in [1 .. 2 -> OffRow \cup {Null}]
      BY <1>1, <2>1
    <2>3. ~row.away => Forward(row.span)
      BY <1>8 DEF SetMyScheduleException, Forward
    <2>4. \A i \in 1 .. 2 : off'[i] # Null /\ ~off'[i].away => Forward(off'[i].span)
      BY <2>2, <2>3 DEF SlotsInv
    <2> QED BY <1>1, <1>2, <1>8, <2>2, <2>4 DEF SetMyScheduleException, SlotsInv
  <1>9. ASSUME NEW id \in 1 .. 2, DeleteMyScheduleException(id) PROVE SlotsInv'
    <2>1. /\ \A i \in 1 .. 2 : off'[i] = IF i = id THEN Null ELSE off[i]
          /\ off' \in [1 .. 2 -> OffRow \cup {Null}]
      BY <1>1, <1>9 DEF DeleteMyScheduleException
    <2>2. \A i \in 1 .. 2 : off'[i] # Null /\ ~off'[i].away => Forward(off'[i].span)
      BY <2>1 DEF SlotsInv
    <2> QED BY <1>1, <1>2, <1>9, <2>1, <2>2 DEF DeleteMyScheduleException, SlotsInv
  <1>10. ASSUME NEW settings \in Settings, UpdateStore(settings) PROVE SlotsInv'
    BY <1>1, <1>2, <1>10 DEF UpdateStore, SlotsInv
  <1>11. ASSUME NEW term \in Terms, UpdateService(term) PROVE SlotsInv'
    BY <1>1, <1>2, <1>11 DEF UpdateService, SlotsInv
  <1> QED BY <1>3, <1>4, <1>5, <1>6, <1>7, <1>8, <1>9, <1>10, <1>11 DEF Edit, Sell

\* What is booked, moved or settled takes time, and is no less her own.
LEMMA AppointStep ==
  ASSUME SlotsInv, Appoint
  PROVE  SlotsInv'
  <1>1. SlotsTypeOK /\ AgendaOK(agenda) /\ AgendaOK(Swept(agenda))
    BY AgendaSwept DEF SlotsInv, SlotsTypeOK, AgendaOK
  <1>2. ASSUME AgendaOK(agenda)', shown' = {}, Diarised PROVE SlotsInv'
    <2>1. /\ agenda' \subseteq Appointment /\ IsFiniteSet(agenda')
          /\ \A e \in agenda' : e.from < e.to /\ e.to <= e.until
      BY <1>2 DEF AgendaOK
    <2> QED BY <1>2, <2>1 DEF Diarised, SlotsInv, SlotsTypeOK, Forward
  <1>3. service.length \in Nat \ {0} /\ service.cleanup \in Nat
    BY RoadFits DEF SlotsInv
  <1>4. clock \in Int /\ Day \in Nat /\ Pad \in Nat
    BY <1>1, SlotParameters DEF SlotsTypeOK
  <1>5. ASSUME NEW t \in 0 .. Day, HoldGuestSlot(t) PROVE SlotsInv'
    <2>1. PICK e : e = [from |-> t, to |-> t + service.length,
                        until |-> t + service.length + service.cleanup,
                        elsewhere |-> FALSE, status |-> "held", lapsed |-> FALSE]
      OBVIOUS
    <2>2. e \in Appointment /\ e.from < e.to /\ e.to <= e.until
      BY <1>3, <1>4, <2>1 DEF Appointment
    <2>3. agenda' = Swept(agenda) \cup {e} /\ shown' = {} /\ Diarised
      BY <1>5, <2>1 DEF HoldGuestSlot
    <2>4. AgendaOK(agenda)'
      BY <1>1, <2>2, <2>3, AgendaTrades
    <2> QED BY <1>2, <2>3, <2>4
  <1>6. ASSUME NEW e \in agenda, NEW t \in 0 .. Day, RescheduleBooking(e, t) PROVE SlotsInv'
    <2>1. PICK moved : moved = [e EXCEPT !.from = t, !.to = t + (e.to - e.from),
                                         !.until = t + (e.until - e.from)]
      OBVIOUS
    <2>2. e \in Appointment /\ e.from < e.to /\ e.to <= e.until
      BY <1>1 DEF AgendaOK
    <2>3. e.from \in Int /\ e.to \in Int /\ e.until \in Int /\ t \in Int
      BY <1>4, <2>2 DEF Appointment
    <2>4. PICK to \in Int, until \in Int : to = t + (e.to - e.from) /\ until = t + (e.until - e.from)
      BY <2>3
    <2>5. moved = [from |-> t, to |-> to, until |-> until, elsewhere |-> e.elsewhere,
                   status |-> e.status, lapsed |-> e.lapsed]
      BY <2>1, <2>2, <2>4 DEF Appointment
    <2>6. moved \in Appointment /\ moved.from < moved.to /\ moved.to <= moved.until
      BY <2>2, <2>3, <2>4, <2>5 DEF Appointment
    <2>7. agenda' = (Swept(agenda) \ {e}) \cup {moved} /\ shown' = {} /\ Diarised
      BY <1>6, <2>1 DEF RescheduleBooking
    <2>8. AgendaOK(agenda)'
      BY <1>1, <2>6, <2>7, AgendaTrades
    <2> QED BY <1>2, <2>7, <2>8
  <1>7. ASSUME NEW e \in agenda, Submit(e) PROVE SlotsInv'
    <2>1. PICK f : f = [e EXCEPT !.status = "standing"]
      OBVIOUS
    <2>2. f \in Appointment /\ f.from < f.to /\ f.to <= f.until
      BY <1>1, <2>1 DEF AgendaOK, Appointment
    <2>3. agenda' = (agenda \ {e}) \cup {f} /\ shown' = {} /\ Diarised
      BY <1>7, <2>1 DEF Submit
    <2>4. AgendaOK(agenda)'
      BY <1>1, <2>2, <2>3, AgendaTrades
    <2> QED BY <1>2, <2>3, <2>4
  <1>8. ASSUME NEW e \in agenda, Cancel(e) PROVE SlotsInv'
    <2>1. agenda' = agenda \ {e} /\ shown' = {} /\ Diarised
      BY <1>8 DEF Cancel
    <2>2. AgendaOK(agenda)'
      BY <1>1, <2>1, FS_Subset DEF AgendaOK
    <2> QED BY <1>2, <2>1, <2>2
  <1>9. ASSUME NEW e \in agenda, Lapse(e) PROVE SlotsInv'
    <2>1. PICK f : f = [e EXCEPT !.lapsed = TRUE]
      OBVIOUS
    <2>2. f \in Appointment /\ f.from < f.to /\ f.to <= f.until
      BY <1>1, <2>1 DEF AgendaOK, Appointment
    <2>3. agenda' = (agenda \ {e}) \cup {f} /\ shown' = {} /\ Diarised
      BY <1>9, <2>1 DEF Lapse
    <2>4. AgendaOK(agenda)'
      BY <1>1, <2>2, <2>3, AgendaTrades
    <2> QED BY <1>2, <2>3, <2>4
  <1>10. ASSUME NEW e \in agenda, CompleteBooking(e) PROVE SlotsInv'
    <2>1. e \in Appointment /\ e.from < e.to /\ e.to <= e.until
      BY <1>1 DEF AgendaOK
    <2>2. PICK given \in Int : given = IF e.until < clock THEN e.until ELSE clock
      BY <1>4, <2>1 DEF Appointment
    <2>3. PICK f : f = [e EXCEPT !.status = "completed", !.until = IF e.to > given THEN e.to ELSE given]
      OBVIOUS
    <2>4. PICK until \in Int : until = (IF e.to > given THEN e.to ELSE given) /\ e.to <= until
      BY <2>1, <2>2 DEF Appointment
    <2>5. f = [from |-> e.from, to |-> e.to, until |-> until, elsewhere |-> e.elsewhere,
               status |-> "completed", lapsed |-> e.lapsed]
      BY <2>1, <2>3, <2>4 DEF Appointment
    <2>6. f \in Appointment /\ f.from < f.to /\ f.to <= f.until
      BY <2>1, <2>4, <2>5 DEF Appointment
    <2>7. agenda' = (agenda \ {e}) \cup {f} /\ shown' = {} /\ Diarised
      BY <1>10, <2>2, <2>3 DEF CompleteBooking
    <2>8. AgendaOK(agenda)'
      BY <1>1, <2>6, <2>7, AgendaTrades
    <2> QED BY <1>2, <2>7, <2>8
  <1>11. ASSUME NEW t \in 0 - Pad .. Day + Pad, BookElsewhere(t) PROVE SlotsInv'
    <2>1. PICK e : e = [from |-> t, to |-> t + service.length,
                        until |-> t + service.length + service.cleanup,
                        elsewhere |-> TRUE, status |-> "standing", lapsed |-> FALSE]
      OBVIOUS
    <2>2. e \in Appointment /\ e.from < e.to /\ e.to <= e.until
      BY <1>3, <1>4, <2>1 DEF Appointment
    <2>3. agenda' = agenda \cup {e} /\ shown' = {} /\ Diarised
      BY <1>11, <2>1 DEF BookElsewhere
    <2>4. AgendaOK(agenda)'
      BY <1>1, <2>2, <2>3, AgendaTrades
    <2> QED BY <1>2, <2>3, <2>4
  <1> QED BY <1>5, <1>6, <1>7, <1>8, <1>9, <1>10, <1>11 DEF Appoint

LEMMA SlotsStep ==
  ASSUME SlotsInv, [SlotsNext]_slotVars
  PROVE  SlotsInv'
  <1>1. CASE Edit \/ Sell
    BY <1>1, EditStep
  <1>2. CASE Appoint
    BY <1>2, AppointStep
  <1>3. CASE GetAvailableSlots
    <2>1. PICK x \in InForce : shown' = shown \cup Times(Slots(agenda', x, clock))
      BY <1>3 DEF GetAvailableSlots
    <2>2. agenda' = Swept(agenda) /\ Diarised /\ agenda' \subseteq agenda
      BY <1>3 DEF GetAvailableSlots, Swept
    <2>3. PICK w : w = ResolveDay(StoreWindow, x)
      OBVIOUS
    <2>4. EarliestStart(w, clock) \in Int /\ w.to \in Int
      BY <2>3, FirstTime
    <2>5. \A t \in Times(Slots(agenda', x, clock)) : t \in EarliestStart(w, clock) .. w.to
      BY <2>2, <2>3, Listed
    <2>6. shown' \subseteq Int
      <3>1. PICK first \in Int, last \in Int : first = EarliestStart(w, clock) /\ last = w.to
        BY <2>4
      <3>2. \A t \in Times(Slots(agenda', x, clock)) : t \in first .. last
        BY <2>5, <3>1
      <3>3. \A t \in first .. last : t \in Int
        BY <3>1
      <3>4. shown \subseteq Int
        BY DEF SlotsInv, SlotsTypeOK
      <3> QED BY <2>1, <3>2, <3>3, <3>4
    <2>7. IsFiniteSet(agenda')
      BY <2>2, FS_Subset DEF SlotsInv
    <2> QED BY <2>2, <2>6, <2>7 DEF Diarised, SlotsInv, SlotsTypeOK, Forward
  <1>4. CASE Tick
    BY <1>4 DEF Tick, SlotsInv, SlotsTypeOK, Forward
  <1>5. CASE UNCHANGED slotVars
    BY <1>5 DEF slotVars, SlotsInv, SlotsTypeOK, Forward
  <1> QED BY <1>1, <1>2, <1>3, <1>4, <1>5 DEF SlotsNext

LEMMA SlotsAlways == SlotsSpec => []SlotsInv
  <1>1. SlotsInit => SlotsInv
    BY SlotsStart
  <1>2. SlotsInv /\ [SlotsNext]_slotVars => SlotsInv'
    BY SlotsStep
  <1> QED BY <1>1, <1>2, PTL DEF SlotsSpec

\* What the edits, the customers and the clock leave on file is of its kind.
THEOREM SlotsTyped == SlotsSpec => []SlotsTypeOK
  <1>1. SlotsInv => SlotsTypeOK
    BY DEF SlotsInv
  <1> QED BY <1>1, SlotsAlways, PTL

\* The list holds every time at which the whole appointment fits the hours
\* and meets nothing of hers, and no other (GetAvailableSlots of slots.go),
\* for a day, a pad, hours, roads and appointments of any size.
THEOREM TimesStayExact == SlotsSpec => []TimesAreExact
  <1>1. SlotsInv => TimesAreExact
    BY ListHolds
  <1> QED BY <1>1, SlotsAlways, PTL

\* The gaps shown between the stretches are the minutes nothing takes, each
\* once and as long as it goes, and the list is exact with them: the property
\* the runs check, whole (Merged and FreeWithin of occupancy.go).
THEOREM ListStaysExact == SlotsSpec => []ListIsExact
  <1>1. SlotsInv => ListIsExact
    BY ListHolds, GapsHold DEF ListIsExact
  <1> QED BY <1>1, SlotsAlways, PTL

\* A listed time is refused for an appointment completed early, and for
\* nothing else (assertOffered of slots.go, bookings_no_overlap).
THEOREM OnlyCompletedRefuses == SlotsSpec => []RefusedAfterCompletion
  <1>1. SlotsInv => RefusedAfterCompletion
    BY NothingRefuses
  <1> QED BY <1>1, SlotsAlways, PTL

-----------------------------------------------------------------------------
(* Both, as the runs compose them.                                         *)

LEMMA FocusAlways == FocusSpec => [](IInv /\ SlotsInv)
  <1>1. FocusInit => IInv /\ SlotsInv
    BY InitOK, SlotsStart DEF FocusInit
  <1>2. IInv /\ SlotsInv /\ [FocusNext]_<<diaryVars, slotVars, focus>> => (IInv /\ SlotsInv)'
    <2> SUFFICES ASSUME IInv, SlotsInv, [FocusNext]_<<diaryVars, slotVars, focus>>
                 PROVE  IInv' /\ SlotsInv'
      OBVIOUS
    <2>1. [DiariesNext]_diaryVars /\ [SlotsNext]_slotVars
      BY DEF FocusNext
    <2> QED BY <2>1, DiariesStep, SlotsStep
  <1> QED BY <1>1, <1>2, PTL DEF FocusSpec

\* Every component of the diaries, the requests and the list has its type.
THEOREM DayTyped == FocusSpec => []DayTypeOK
  <1>1. IInv /\ SlotsInv => DayTypeOK
    BY DEF IInv, SlotsInv, DayTypeOK
  <1> QED BY <1>1, FocusAlways, PTL

=============================================================================
