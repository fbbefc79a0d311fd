----------------------------- MODULE MCDiaries ------------------------------
(***************************************************************************)
(* Diaries of an artist who works at one store and of one who works at     *)
(* two, looked at from three sides; and the list of times of one day,      *)
(* looked at from two, the hours and the bookings.                         *)
(***************************************************************************)
EXTENDS Diaries, Slots

CONSTANTS s1, s2

VARIABLE focus

\* The first artist works at one store, the second has a road between two.
Workplaces == [a \in Artist |-> IF a = 1 THEN {s1} ELSE {s1, s2}]
Roads == [a \in Artist |-> a - 1]

\* The day, its morning, and times that were sent the wrong way round.
DaySpans == {[from |-> 0, to |-> 6], [from |-> 1, to |-> 4], [from |-> 4, to |-> 2]}
DayTerms == {[length |-> 1, cleanup |-> 0], [length |-> 2, cleanup |-> 1]}
DaySettings == {[notice |-> 1, cutoff |-> 2], [notice |-> 0, cutoff |-> Null]}
\* By the stores' defaults, and by the artist's own two directions.
DayWays == {[there |-> Null, back |-> Null, here |-> 1, away |-> 2],
            [there |-> 0, back |-> 1, here |-> 2, away |-> 0]}
\* From the day before to the last hours.
DayMoments == -1 .. 4

OnDiaries == focus \in {"moves", "shifts", "holds"}
FocusInit ==
  /\ DiariesInit
  /\ focus \in {"moves", "shifts", "holds", "hours", "slots"}
  /\ SlotsInit
  /\ focus # "slots" => \A t \in DayTerms : t.length <= service.length
  /\ focus # "slots" => store.notice = 1 /\ way.there = Null
  /\ focus = "hours" => clock \in {-1, 1}
  /\ focus # "hours" => clock = -1

Asked(errands) == \A w \in Writer : writer'[w].errand \in errands
Anonymous == \A w \in Writer : writer'[w].client = NoClient
\* Bookings by hand, of the first and the last hour, moved and reassigned.
Moving ==
  /\ Asked({"insert", "move", "reassign"}) /\ Anonymous
  /\ \A w \in Writer : writer'[w].errand = "insert" => writer'[w].at # 2
\* The first two hours, a day shifted by one, bookings that are handed on.
Shifting ==
  /\ Asked({"insert", "shift", "reassign"}) /\ Anonymous
  /\ \A w \in Writer : writer'[w].errand = "insert" => writer'[w].at < 3
\* Guests who hold, of the artist with two stores.
Holding == Asked({"insert"}) /\ \A w \in Writer : writer'[w].stage # "idle" => writer'[w].to = 2

\* A salon that opens its whole day first, before anybody books.
Opened == hours = Null => hours' = [open |-> TRUE, span |-> [from |-> 0, to |-> 6]]
Booked == Opened /\ (hours # Null => UNCHANGED <<hours, closure, rota, off>>)

FocusNext ==
  /\ \/ /\ OnDiaries
        /\ DiariesNext
        /\ CASE focus = "moves"  -> Moving
             [] focus = "shifts" -> Shifting
             [] focus = "holds"  -> Holding
        /\ UNCHANGED slotVars
     \/ /\ ~OnDiaries
        /\ SlotsNext
        /\ CASE focus = "hours" -> UNCHANGED <<clock, agenda, store, service, shown>>
             [] focus = "slots" -> Booked
        /\ UNCHANGED diaryVars
  /\ UNCHANGED focus

FocusSpec == FocusInit /\ [][FocusNext]_<<diaryVars, slotVars, focus>>

\* Every component of the diaries, the requests and the list has its type.
DayTypeOK == DiariesTypeOK /\ SlotsTypeOK

Symmetry == Permutations(Writer) \cup Permutations(Booking)

=============================================================================
