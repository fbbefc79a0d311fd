------------------------------ MODULE MCSalon -------------------------------
(***************************************************************************)
(* What goes on around a salon's calendar - its roster, its reviews, its   *)
(* gallery, the reminders and calendar files of its bookings, the pages    *)
(* that add them up - one part at a time: they share no state.  The roster *)
(* is looked at from three sides.                                          *)
(***************************************************************************)
EXTENDS Membership, Reviews, Gallery, Reminders, Earnings, Calendar, TLC

VARIABLE focus

\* One of the artists, one of those who may be invited.
First == CHOOSE a \in Artist : TRUE
Guest == CHOOSE u \in Person : u # Founder
Home == CHOOSE s \in Salon : TRUE
MinHour == CHOOSE h \in Hours : \A k \in Hours : h <= k

SalonInit ==
  /\ MembershipInit /\ ReviewsInit /\ GalleryInit /\ RemindersInit /\ EarningsInit
  /\ CalendarInit
  /\ focus \in {"inviting", "joining", "leaving", "reviews", "gallery", "reminders", "pages",
               "calendar"}
  /\ focus # "pages" => \A w \in Worker : works[w] = Home
  /\ \E v \in Visit : server[v] = First
  /\ focus # "calendar" => \A b \in Entry : agenda[b].start = MinHour
  /\ focus # "reviews" => \A v \in Visit : server[v] = First

Involved ==
  ({u \in Person : artist[u].at # "none"} \cup {invite[i].to : i \in Invitation}) \ {NoOne}
Under(steps) == \A p \in Call : call'[p].step \in steps

\* Three invitations, to people who do not answer.
Inviting ==
  /\ UNCHANGED <<artist, diary, owner, message>>
  /\ Under({"idle", "duplicate", "retire", "active", "waiting", "volume", "create", "queue"})
\* Two invitations, to one person, the second in time.
Joining ==
  /\ UNCHANGED <<diary, owner>>
  /\ Involved' \subseteq {Founder, Guest} /\ invite'[3].state = "none" /\ ~invite'[2].late
  /\ Under(CallSteps \ {"others", "detach", "transfer"})
\* One invitation in time, to one person, who may be handed the salon.
Leaving ==
  /\ Involved' \subseteq {Founder, Guest}
  /\ invite'[2].state = "none" /\ ~invite'[1].late

Roster ==
  /\ MembershipNext
  /\ CASE focus = "inviting" -> Inviting
       [] focus = "joining"  -> Joining
       [] focus = "leaving"  -> Leaving
       [] OTHER              -> FALSE

SalonNext ==
  /\ \/ Roster /\ UNCHANGED <<reviewVars, galleryVars, reminderVars, earningsVars, calendarVars>>
     \/ focus = "reviews" /\ ReviewsNext
        /\ UNCHANGED <<rosterVars, galleryVars, reminderVars, earningsVars, calendarVars>>
     \/ focus = "gallery" /\ GalleryNext
        /\ UNCHANGED <<rosterVars, reviewVars, reminderVars, earningsVars, calendarVars>>
     \/ focus = "reminders" /\ RemindersNext
        /\ UNCHANGED <<rosterVars, reviewVars, galleryVars, earningsVars, calendarVars>>
     \/ focus = "pages" /\ EarningsNext
        /\ UNCHANGED <<rosterVars, reviewVars, galleryVars, reminderVars, calendarVars>>
     \/ focus = "calendar" /\ CalendarNext
        /\ UNCHANGED <<rosterVars, reviewVars, galleryVars, reminderVars, earningsVars>>
  /\ UNCHANGED focus

salonVars ==
  <<rosterVars, reviewVars, galleryVars, reminderVars, earningsVars, calendarVars, focus>>
SalonSpec == SalonInit /\ [][SalonNext]_salonVars

Requests == Permutations(Call)

\* Types: the parts keep their shapes.
SalonTypeOK ==
  /\ MembershipTypeOK /\ ReviewsTypeOK /\ GalleryTypeOK /\ RemindersTypeOK
  /\ EarningsTypeOK /\ CalendarTypeOK

=============================================================================
