---------------------------- MODULE SalonProofs -----------------------------
(***************************************************************************)
(* Around a salon's calendar: its roster, its gallery, its reviews, the    *)
(* files and the reminders of its appointments, and the pages that add up  *)
(* its bookings, for any people, photos, requests and bounds; and all of   *)
(* them side by side.                                                      *)
(***************************************************************************)
EXTENDS MCSalon, FoldProofs, SequenceTheorems, TLAPS

-----------------------------------------------------------------------------
(* The roster.  An answer is written only by a request that carries the    *)
(* invitation it read, and accepts only after its transaction put the      *)
(* invitee on the roster, where a row never disappears.  The owner stays a *)
(* member because whoever is being handed the salon is one, and nobody who *)
(* is being taken out owns it or is being handed it.                       *)

\* What a request on its way carries.
Carries(r) ==
  /\ r.step \in {"duplicate", "retire", "active", "waiting", "volume", "create",
                 "others", "detach", "transfer"} => r.who \in Person
  /\ r.step \in {"retire", "queue", "join", "accept", "decline", "revoke", "lapse", "redact"} =>
       r.of \in Invitation /\ invite[r.of].state # "none"
  /\ r.step \in {"join", "accept"} => r.who = invite[r.of].to
  /\ r.step = "accept" => artist[r.who].at \in {"here", "nowhere"}
  /\ r.step = "redact" => invite[r.of].state # "pending"

\* Every invitation is somebody's, and only what was sent has a message.
Addressed ==
  \A i \in Invitation :
    /\ invite[i].state # "none" => invite[i].to \in Person
    /\ message[i] # "none" => invite[i].state # "none"

\* Who goes does not own, who is handed the salon stays.
Handing ==
  /\ ~Crossing(call)
  /\ \A p \in Call :
       /\ call[p].step \in {"others", "detach"} => call[p].who # owner
       /\ call[p].step = "transfer" => call[p].who \in Team

RosterInv ==
  /\ MembershipTypeOK /\ AnswersAreTrue /\ OwnerIsMember /\ Addressed
  /\ \A p \in Call : Carries(call[p])
  /\ crossed \/ Handing

-----------------------------------------------------------------------------
(* The roster, step by step.                                               *)

LEMMA CallTyped ==
  ASSUME RosterInv, NEW p \in Call
  PROVE  call[p] \in CallRow /\ Carries(call[p])
  BY DEF RosterInv, MembershipTypeOK

LEMMA RowTyped ==
  ASSUME NEW step \in CallSteps, NEW u \in Person \cup {NoOne}, NEW i \in Invitation \cup {0}, NEW n \in Nat
  PROVE  /\ Row(step, u, i, n) \in CallRow
         /\ Row(step, u, i, n).step = step /\ Row(step, u, i, n).who = u
         /\ Row(step, u, i, n).of = i
  BY DEF Row, CallRow

LEMMA ThenTyped ==
  ASSUME NEW r \in CallRow, NEW step \in CallSteps
  PROVE  /\ [r EXCEPT !.step = step] \in CallRow
         /\ [r EXCEPT !.step = step].step = step
         /\ [r EXCEPT !.step = step].who = r.who
         /\ [r EXCEPT !.step = step].of = r.of
  BY DEF CallRow

\* Rows of the roster stay, an invitation keeps its addressee, and none is
\* open again.
Onward ==
  /\ \A u \in Person : artist[u].at \in {"here", "nowhere"} => artist'[u].at \in {"here", "nowhere"}
  /\ \A i \in Invitation :
       invite[i].state # "none" =>
         /\ invite'[i].state # "none" /\ invite'[i].to = invite[i].to
         /\ invite[i].state # "pending" => invite'[i].state # "pending"

\* A step of one request.
LEMMA CallMovesOK ==
  ASSUME RosterInv, Onward, MembershipTypeOK', AnswersAreTrue', Addressed',
         NEW p \in Call, NEW r \in CallRow, Turns(p, r), Carries(r)',
         crossed' \/ (owner' \in Team' /\ Handing')
  PROVE  RosterInv'
  <1>1. \A q \in Call : q # p => call'[q] = call[q]
    BY DEF Turns, RosterInv, MembershipTypeOK
  <1>2. call'[p] = r
    BY DEF Turns, RosterInv, MembershipTypeOK
  <1>3. ASSUME NEW q \in Call PROVE Carries(call[q])'
    <2>1. CASE q = p
      BY <1>2, <2>1 DEF Carries
    <2>2. CASE q # p
      <3>1. call'[q] = call[q] /\ call[q] \in CallRow /\ Carries(call[q])
        BY <1>1, <2>2, CallTyped
      <3>2. call[q].step \in {"join", "accept"} => call[q].who \in Person
        BY <3>1 DEF Carries, RosterInv, Addressed
      <3> QED BY <3>1, <3>2 DEF Carries, Onward
    <2> QED BY <2>1, <2>2
  <1> QED BY <1>3 DEF RosterInv, OwnerIsMember

\* A request that goes on, nothing else changes.
LEMMA CallGoesOnOK ==
  ASSUME RosterInv, NEW p \in Call, NEW r \in CallRow, Turns(p, r), Carries(r),
         UNCHANGED <<artist, owner, invite, message, diary>>,
         crossed' = crossed \/ crossed' = (crossed \/ Crossing(call')),
         ~crossed' =>
           /\ r.step \in {"others", "detach"} =>
                /\ r.who # owner
                /\ (call[p].step = "others" /\ r.who = call[p].who) \/ ~Crossing(call')
           /\ r.step = "transfer" => r.who \in Team /\ ~Crossing(call')
  PROVE  RosterInv'
  <1>0. /\ call \in [Call -> CallRow] /\ call' \in [Call -> CallRow] /\ call'[p] = r
        /\ \A q \in Call : q # p => call'[q] = call[q]
    BY DEF Turns, RosterInv, MembershipTypeOK
  <1>1. crossed \in BOOLEAN /\ crossed' \in BOOLEAN /\ (crossed => crossed')
    BY DEF RosterInv, MembershipTypeOK, Crossing
  <1>2. MembershipTypeOK'
    BY <1>0, <1>1 DEF RosterInv, MembershipTypeOK
  <1>3. Onward /\ AnswersAreTrue' /\ Addressed' /\ Carries(r)'
    BY DEF Onward, RosterInv, AnswersAreTrue, Addressed, Carries
  <1>4. ASSUME ~crossed' PROVE owner' \in Team' /\ Handing'
    <2>1. owner \in Team /\ Handing
      BY <1>1, <1>4 DEF RosterInv, OwnerIsMember
    <2>2. ~Crossing(call')
      <3>1. SUFFICES ASSUME NEW x \in Call, NEW y \in Call,
                            call'[x].step \in {"others", "detach"}, call'[y].step = "transfer",
                            call'[x].who = call'[y].who, Crossing(call')
                     PROVE  FALSE
        BY DEF Crossing
      <3>2. x # y
        BY <3>1
      <3>3. CASE x = p
        BY <1>0, <1>4, <2>1, <3>1, <3>2, <3>3 DEF Handing, Crossing
      <3>4. CASE y = p
        BY <1>0, <1>4, <3>1, <3>4
      <3>5. CASE x # p /\ y # p
        BY <1>0, <2>1, <3>1, <3>5 DEF Handing, Crossing
      <3> QED BY <3>3, <3>4, <3>5
    <2>3. Team' = Team
      BY DEF Team, Here
    <2>4. ASSUME NEW q \in Call
          PROVE  /\ call'[q].step \in {"others", "detach"} => call'[q].who # owner'
                 /\ call'[q].step = "transfer" => call'[q].who \in Team'
      <3>1. CASE q = p
        BY <1>0, <1>4, <2>3, <3>1
      <3>2. CASE q # p
        BY <1>0, <2>1, <2>3, <3>2 DEF Handing
      <3> QED BY <3>1, <3>2
    <2> QED BY <2>1, <2>2, <2>3, <2>4 DEF Handing
  <1> QED BY <1>2, <1>3, <1>4, CallMovesOK

LEMMA DoneOK ==
  ASSUME RosterInv, NEW p \in Call, Done(p), UNCHANGED RestOfRoster
  PROVE  RosterInv'
  <1> DEFINE r == Row("idle", NoOne, 0, 0)
  <1>1. r \in CallRow /\ r.step = "idle"
    BY RowTyped DEF CallSteps
  <1> HIDE DEF r
  <1>2. Carries(r)
    BY <1>1 DEF Carries
  <1>3. Turns(p, r)
    BY DEF Done, r
  <1> QED BY <1>1, <1>2, <1>3, CallGoesOnOK DEF RestOfRoster

\* From one step of an invitation to the next.
LEMMA ThenOK ==
  ASSUME RosterInv, NEW p \in Call, NEW step \in {"active", "volume", "create"},
         call[p].step \in {"duplicate", "waiting", "volume"},
         Then(p, step), UNCHANGED RestOfRoster
  PROVE  RosterInv'
  <1> DEFINE r == [call[p] EXCEPT !.step = step]
  <1>1. r \in CallRow /\ r.step = step /\ r.who = call[p].who /\ r.of = call[p].of
    <2>1. step \in CallSteps
      BY DEF CallSteps
    <2> QED BY <2>1, CallTyped, ThenTyped
  <1>2. Turns(p, r)
    BY DEF Then
  <1> HIDE DEF r
  <1>3. Carries(r)
    BY <1>1, CallTyped DEF Carries
  <1> QED BY <1>1, <1>2, <1>3, CallGoesOnOK DEF RestOfRoster

\* A request that starts, or goes on with a row of its own.
LEMMA RowOK ==
  ASSUME RosterInv, NEW p \in Call, NEW step \in CallSteps \ {"others", "detach", "transfer"},
         NEW u \in Person \cup {NoOne}, NEW i \in Invitation \cup {0}, NEW n \in Nat,
         Turns(p, Row(step, u, i, n)), UNCHANGED RestOfRoster, Carries(Row(step, u, i, n))
  PROVE  RosterInv'
  BY RowTyped, CallGoesOnOK DEF RestOfRoster

LEMMA InviteOK ==
  ASSUME RosterInv, NEW p \in Call, NEW u \in Person, Invite(p, u)
  PROVE  RosterInv'
  <1>1. Carries(Row("duplicate", u, 0, 0))
    BY RowTyped DEF Carries, CallSteps
  <1> QED BY <1>1, RowOK DEF Invite, CallSteps

LEMMA FindDuplicateOK ==
  ASSUME RosterInv, NEW p \in Call, FindDuplicate(p)
  PROVE  RosterInv'
  <1> DEFINE u == call[p].who
  <1>0. u \in Person /\ call[p].step = "duplicate"
    BY CallTyped DEF FindDuplicate, At, Carries
  <1>1. CASE Then(p, "active")
    BY <1>0, <1>1, ThenOK DEF FindDuplicate
  <1>2. CASE Done(p)
    BY <1>2, DoneOK DEF FindDuplicate
  <1>3. ASSUME NEW i \in Invitation, invite[i].state = "pending", Turns(p, Row("retire", u, i, 0))
        PROVE  RosterInv'
    <2>1. Carries(Row("retire", u, i, 0))
      BY <1>0, <1>3, RowTyped DEF Carries, CallSteps
    <2> HIDE DEF u
    <2> QED BY <1>0, <1>3, <2>1, RowOK DEF FindDuplicate, CallSteps
  <1> QED BY <1>1, <1>2, <1>3 DEF FindDuplicate

LEMMA CountActiveOK ==
  ASSUME RosterInv, NEW p \in Call, CountActive(p)
  PROVE  RosterInv'
  <1> DEFINE u == call[p].who
             n == Cardinality(Team)
  <1>1. u \in Person
    BY CallTyped DEF CountActive, At, Carries
  <1>2. n \in Nat
    BY MembershipParameters, FS_Subset, FS_CardinalityType DEF Team
  <1>3. Turns(p, Row("waiting", u, 0, n)) /\ UNCHANGED RestOfRoster
    BY DEF CountActive
  <1> HIDE DEF u, n
  <1>4. Carries(Row("waiting", u, 0, n))
    BY <1>1, <1>2, RowTyped DEF Carries, CallSteps
  <1> QED BY <1>1, <1>2, <1>3, <1>4, RowOK DEF CallSteps

LEMMA CountWaitingOK ==
  ASSUME RosterInv, NEW p \in Call, CountWaiting(p) \/ BoundVolume(p)
  PROVE  RosterInv'
  BY ThenOK, DoneOK DEF CountWaiting, BoundVolume, At

LEMMA LoadRedeemableOK ==
  ASSUME RosterInv, NEW p \in Call, NEW i \in Invitation, NEW step \in {"join", "decline", "lapse"},
         LoadRedeemable(p, i, step)
  PROVE  RosterInv'
  <1> DEFINE next == IF invite[i].late THEN "lapse" ELSE step
             u == Invitee(i)
  <1>1. u \in Person /\ u = invite[i].to /\ invite[i].state = "pending"
    BY DEF LoadRedeemable, Invitee, RosterInv, Addressed
  <1>2. Turns(p, Row(next, u, i, 0)) /\ next \in {"join", "decline", "lapse"} /\ UNCHANGED RestOfRoster
    BY DEF LoadRedeemable
  <1> HIDE DEF next, u
  <1>3. Carries(Row(next, u, i, 0))
    BY <1>1, <1>2, RowTyped DEF Carries, CallSteps
  <1> QED BY <1>1, <1>2, <1>3, RowOK DEF CallSteps

LEMMA RevokeOK ==
  ASSUME RosterInv, NEW p \in Call, NEW i \in Invitation, RevokeInvitation(p, i)
  PROVE  RosterInv'
  <1>1. Carries(Row("revoke", NoOne, i, 0))
    BY RowTyped DEF Carries, CallSteps, RevokeInvitation, Usable
  <1> QED BY <1>1, RowOK DEF RevokeInvitation, CallSteps

\* A departure or a handover begins.
LEMMA GoingOK ==
  ASSUME RosterInv, NEW p \in Call, NEW u \in Person,
         RemoveMember(p, u) \/ Leave(p, u) \/ TransferOwnership(p, u)
  PROVE  RosterInv'
  <1>1. PICK step \in {"detach", "others", "transfer"} :
          /\ Turns(p, Row(step, u, 0, 0))
          /\ step # "transfer" => ~Owns(u)
          /\ step = "transfer" => u \in Team
    BY DEF RemoveMember, Leave, TransferOwnership, CanGo
  <1>2. crossed' = (crossed \/ Crossing(call')) /\ UNCHANGED <<artist, owner, invite, message, diary>>
    BY DEF RemoveMember, Leave, TransferOwnership
  <1> DEFINE r == Row(step, u, 0, 0)
  <1>3. r \in CallRow /\ r.step = step /\ r.who = u
    BY RowTyped DEF CallSteps
  <1> HIDE DEF r
  <1>4. Carries(r)
    BY <1>3 DEF Carries
  <1>5. ~Crossing(call') \/ crossed'
    BY <1>2
  <1> QED BY <1>1, <1>2, <1>3, <1>4, <1>5, CallGoesOnOK DEF Owns, r

LEMMA CountOthersOK ==
  ASSUME RosterInv, NEW p \in Call, CountOthers(p)
  PROVE  RosterInv'
  <1>1. CASE Done(p)
    BY <1>1, DoneOK DEF CountOthers
  <1>2. CASE Then(p, "detach")
    <2> DEFINE r == [call[p] EXCEPT !.step = "detach"]
    <2>1. r \in CallRow /\ r.step = "detach" /\ r.who = call[p].who /\ call[p].step = "others"
      BY CallTyped, ThenTyped DEF CallSteps, CountOthers, At
    <2>2. Turns(p, r) /\ UNCHANGED RestOfRoster
      BY <1>2 DEF Then, CountOthers
    <2> HIDE DEF r
    <2>3. Carries(r)
      BY <2>1, CallTyped DEF Carries
    <2>4. ~crossed' => r.who # owner
      BY <2>1, <2>2 DEF RestOfRoster, RosterInv, Handing
    <2> QED BY <2>1, <2>2, <2>3, <2>4, CallGoesOnOK DEF RestOfRoster
  <1> QED BY <1>1, <1>2 DEF CountOthers

LEMMA CallFailsOK ==
  ASSUME RosterInv, NEW p \in Call, CallFails(p)
  PROVE  RosterInv'
  BY DoneOK DEF CallFails

-----------------------------------------------------------------------------
(* The steps that write the roster.                                        *)

\* A request that writes and ends, or writes and goes on with its invitation.
LEMMA IdleRow ==
  LET r == Row("idle", NoOne, 0, 0)
  IN r \in CallRow /\ r.step = "idle"
  BY RowTyped DEF CallSteps

\* Nobody's part in a departure or a handover changes.
LEMMA HandingKept ==
  ASSUME RosterInv, NEW p \in Call, NEW r \in CallRow, Turns(p, r), crossed' = crossed,
         r.step \notin {"others", "detach", "transfer"},
         owner' = owner, Team \subseteq Team'
  PROVE  crossed' \/ (owner' \in Team' /\ Handing')
  <1>0. /\ call'[p] = r /\ \A q \in Call : q # p => call'[q] = call[q]
    BY DEF Turns, RosterInv, MembershipTypeOK
  <1> SUFFICES ASSUME ~crossed PROVE owner' \in Team' /\ Handing'
    OBVIOUS
  <1>1. owner \in Team /\ Handing
    BY DEF RosterInv, OwnerIsMember
  <1>2. ~Crossing(call')
    BY <1>0, <1>1 DEF Handing, Crossing
  <1>3. ASSUME NEW q \in Call
        PROVE  /\ call'[q].step \in {"others", "detach"} => call'[q].who # owner'
               /\ call'[q].step = "transfer" => call'[q].who \in Team'
    BY <1>0, <1>1, <1>3 DEF Handing
  <1> QED BY <1>1, <1>2, <1>3 DEF Handing

LEMMA SameTeam ==
  ASSUME artist' = artist
  PROVE  Team' = Team
  BY DEF Team, Here

LEMMA CreateInvitationOK ==
  ASSUME RosterInv, NEW p \in Call, CreateInvitation(p)
  PROVE  RosterInv'
  <1>0. call[p].step = "create" /\ call[p].who \in Person
    BY CallTyped DEF CreateInvitation, At, Carries
  <1>1. CASE Done(p) /\ UNCHANGED invite
    BY <1>1, DoneOK DEF CreateInvitation, RestOfRoster
  <1>2. ASSUME NEW i \in Invitation, invite[i].state = "none",
               invite' = [invite EXCEPT ![i] = [state |-> "pending", to |-> call[p].who, late |-> FALSE]],
               Turns(p, Row("queue", NoOne, i, 0))
        PROVE  RosterInv'
    <2> DEFINE r == Row("queue", NoOne, i, 0)
               row == [state |-> "pending", to |-> call[p].who, late |-> FALSE]
    <2>1. UNCHANGED <<artist, owner, message, diary, crossed>>
      BY DEF CreateInvitation
    <2>2. r \in CallRow /\ r.step = "queue" /\ r.of = i
      BY RowTyped DEF CallSteps
    <2>3. invite \in [Invitation -> InviteRow] /\ row \in InviteRow /\ row.state = "pending" /\ row.to \in Person
      BY <1>0 DEF RosterInv, MembershipTypeOK, InviteRow, InviteStates
    <2>4. invite' \in [Invitation -> InviteRow] /\ invite'[i] = row
          /\ \A j \in Invitation : j # i => invite'[j] = invite[j]
      BY <1>2, <2>3
    <2> HIDE DEF r, row
    <2>5. MembershipTypeOK'
      BY <1>2, <2>1, <2>2, <2>4 DEF RosterInv, MembershipTypeOK, Turns, r
    <2>6. Onward /\ AnswersAreTrue' /\ Addressed' /\ Carries(r)'
      BY <1>2, <2>1, <2>2, <2>3, <2>4 DEF Onward, RosterInv, AnswersAreTrue, Addressed, Carries
    <2>7. crossed' \/ (owner' \in Team' /\ Handing')
      BY <1>2, <2>1, <2>2, HandingKept, SameTeam DEF r
    <2> QED BY <1>2, <2>2, <2>5, <2>6, <2>7, CallMovesOK DEF r
  <1> QED BY <1>1, <1>2 DEF CreateInvitation

\* The message: sent, or taken out of it.
LEMMA MessageOK ==
  ASSUME RosterInv, NEW p \in Call, QueueSalonInvitation(p) \/ RedactInvitationMessage(p)
  PROVE  RosterInv'
  <1> DEFINE i == call[p].of
             r == Row("idle", NoOne, 0, 0)
  <1>0. /\ i \in Invitation /\ invite[i].state # "none"
        /\ RedactInvitationMessage(p) => invite[i].state # "pending"
    BY CallTyped DEF QueueSalonInvitation, RedactInvitationMessage, At, Carries
  <1>1. PICK m \in {"none", "link", "redacted"} :
          /\ message' = [message EXCEPT ![i] = m]
          /\ m = "redacted" => invite[i].state # "pending"
    <2>1. message[i] \in {"none", "link", "redacted"}
      BY <1>0 DEF RosterInv, MembershipTypeOK
    <2>2. CASE QueueSalonInvitation(p)
      <3>1. message' = [message EXCEPT ![i] = "link"]
        BY <2>2 DEF QueueSalonInvitation
      <3> QED BY <3>1
    <2>3. CASE RedactInvitationMessage(p)
      <3>1. message' = [message EXCEPT ![i] = Redacted(message[i])]
        BY <2>3 DEF RedactInvitationMessage
      <3>2. Redacted(message[i]) \in {"none", "link", "redacted"}
        BY <2>1 DEF Redacted
      <3> QED BY <1>0, <2>3, <3>1, <3>2
    <2> QED BY <2>2, <2>3
  <1>2. UNCHANGED <<artist, owner, invite, diary, crossed>> /\ Turns(p, r)
    BY DEF QueueSalonInvitation, RedactInvitationMessage, Done
  <1>3. message \in [Invitation -> {"none", "link", "redacted"}]
    BY DEF RosterInv, MembershipTypeOK
  <1> HIDE DEF i
  <1>4. /\ message' \in [Invitation -> {"none", "link", "redacted"}] /\ message'[i] = m
        /\ \A j \in Invitation : j # i => message'[j] = message[j]
    BY <1>0, <1>1, <1>3
  <1>5. r \in CallRow /\ r.step = "idle"
    BY IdleRow
  <1> HIDE DEF r
  <1>6. MembershipTypeOK'
    BY <1>2, <1>4, <1>5 DEF RosterInv, MembershipTypeOK, Turns
  <1>7. AnswersAreTrue' /\ Addressed'
    BY <1>0, <1>1, <1>2, <1>4 DEF RosterInv, AnswersAreTrue, Addressed
  <1>8. Onward /\ Carries(r)'
    BY <1>2, <1>5 DEF Onward, Carries
  <1>9. crossed' \/ (owner' \in Team' /\ Handing')
    BY <1>2, <1>5, HandingKept, SameTeam
  <1> QED BY <1>2, <1>5, <1>6, <1>7, <1>8, <1>9, CallMovesOK

LEMMA CompleteIntoOK ==
  ASSUME RosterInv, NEW p \in Call, CompleteIntoExistingSalon(p)
  PROVE  RosterInv'
  <1> DEFINE u == call[p].who
             row == [at |-> "here", status |-> "pending"]
  <1>0. /\ call[p] \in CallRow /\ call[p].step = "join" /\ u \in Person
        /\ call[p].of \in Invitation /\ invite[call[p].of].state # "none"
        /\ u = invite[call[p].of].to
    BY CallTyped DEF CompleteIntoExistingSalon, At, Carries, RosterInv, Addressed
  <1>1. CASE Done(p) /\ UNCHANGED artist
    BY <1>1, DoneOK DEF CompleteIntoExistingSalon, RestOfRoster
  <1>2. ASSUME NEW r, r = [call[p] EXCEPT !.step = "accept"], artist[u].at = "none",
               Turns(p, r), artist' = [artist EXCEPT ![u] = row]
        PROVE  RosterInv'
    <2>1. UNCHANGED <<owner, invite, message, diary, crossed>>
      BY DEF CompleteIntoExistingSalon
    <2>2. r \in CallRow /\ r.step = "accept" /\ r.who = u /\ r.of = call[p].of
      BY <1>0, <1>2, ThenTyped DEF CallSteps
    <2>3. artist \in [Person -> ArtistRow] /\ row \in ArtistRow /\ row.at = "here"
      BY DEF RosterInv, MembershipTypeOK, ArtistRow, Places
    <2> HIDE DEF u, row
    <2>4. artist' \in [Person -> ArtistRow] /\ artist'[u] = row
          /\ \A v \in Person : v # u => artist'[v] = artist[v]
      BY <1>0, <1>2, <2>3
    <2>5. MembershipTypeOK'
      BY <1>2, <2>1, <2>2, <2>4 DEF RosterInv, MembershipTypeOK, Turns
    <2>6. Onward
      BY <1>2, <2>1, <2>4 DEF Onward
    <2>7. AnswersAreTrue' /\ Addressed'
      BY <2>1, <2>6 DEF RosterInv, AnswersAreTrue, Addressed, Onward
    <2>8. Carries(r)'
      BY <1>0, <2>1, <2>2, <2>3, <2>4 DEF Carries
    <2>9. Team \subseteq Team'
      BY <1>2, <2>4 DEF Team, Here
    <2>10. crossed' \/ (owner' \in Team' /\ Handing')
      BY <1>2, <2>1, <2>2, <2>9, HandingKept
    <2> QED BY <1>2, <2>2, <2>5, <2>6, <2>7, <2>8, <2>10, CallMovesOK
  <1> QED BY <1>1, <1>2 DEF CompleteIntoExistingSalon, Then

LEMMA SetInvitationStatusOK ==
  ASSUME RosterInv, NEW p \in Call, SetInvitationStatus(p)
  PROVE  RosterInv'
  <1> DEFINE i == call[p].of
             step == call[p].step
             says == Verdict[step]
             next == IF At(p, "retire") THEN "active" ELSE "redact"
  <1>1. /\ step \in {"accept", "decline", "revoke", "lapse", "retire"}
        /\ says \in {"accepted", "declined", "revoked", "expired"}
        /\ says = "accepted" => step = "accept"
    BY DEF SetInvitationStatus, Verdict
  <1>2. /\ call[p] \in CallRow /\ i \in Invitation /\ invite[i].state # "none"
        /\ step = "accept" => artist[invite[i].to].at \in {"here", "nowhere"}
        /\ step = "retire" => call[p].who \in Person
    BY <1>1, CallTyped DEF Carries
  <1>3. PICK r : /\ r = [call[p] EXCEPT !.step = next] /\ Turns(p, r)
                 /\ invite' = [invite EXCEPT ![i].state = says]
                 /\ UNCHANGED <<artist, owner, message, diary, crossed>>
    BY DEF SetInvitationStatus, Then
  <1>4. next \in CallSteps /\ next \in {"active", "redact"} /\ (next = "active" => step = "retire")
    BY DEF CallSteps, At
  <1>5. r \in CallRow /\ r.step = next /\ r.who = call[p].who /\ r.of = i
    <2> HIDE DEF next
    <2> QED BY <1>2, <1>3, <1>4, ThenTyped
  <1>6. invite \in [Invitation -> InviteRow] /\ invite[i] \in InviteRow
    BY <1>2 DEF RosterInv, MembershipTypeOK
  <1> DEFINE row == [invite[i] EXCEPT !.state = says]
  <1>7. row \in InviteRow /\ row.state = says /\ row.to = invite[i].to /\ invite' = [invite EXCEPT ![i] = row]
    BY <1>1, <1>3, <1>6 DEF InviteRow, InviteStates
  <1> HIDE DEF i, step, says, next, row
  <1>8. /\ invite' \in [Invitation -> InviteRow] /\ invite'[i] = row
        /\ \A j \in Invitation : j # i => invite'[j] = invite[j]
    BY <1>2, <1>6, <1>7
  <1>9. MembershipTypeOK'
    BY <1>3, <1>5, <1>8 DEF RosterInv, MembershipTypeOK, Turns
  <1>10. Onward
    BY <1>1, <1>2, <1>3, <1>7, <1>8 DEF Onward
  <1>11. AnswersAreTrue'
    BY <1>1, <1>2, <1>3, <1>7, <1>8 DEF RosterInv, AnswersAreTrue
  <1>12. Addressed'
    BY <1>1, <1>2, <1>3, <1>7, <1>8 DEF RosterInv, Addressed
  <1>13. Carries(r)'
    BY <1>1, <1>2, <1>4, <1>5, <1>7, <1>8 DEF Carries, step
  <1>14. crossed' \/ (owner' \in Team' /\ Handing')
    BY <1>3, <1>4, <1>5, HandingKept, SameTeam
  <1> QED BY <1>3, <1>5, <1>9, <1>10, <1>11, <1>12, <1>13, <1>14, CallMovesOK

LEMMA DetachArtistOK ==
  ASSUME RosterInv, NEW p \in Call, DetachArtist(p)
  PROVE  RosterInv'
  <1> DEFINE u == call[p].who
             r == Row("idle", NoOne, 0, 0)
             spot == IF artist[u].at = "here" THEN "nowhere" ELSE artist[u].at
             row == [artist[u] EXCEPT !.at = spot]
  <1>1. call[p].step = "detach" /\ u \in Person
    BY CallTyped DEF DetachArtist, At, Carries
  <1>2. /\ artist' = [artist EXCEPT ![u].at = spot] /\ Turns(p, r)
        /\ UNCHANGED <<owner, invite, message, diary, crossed>>
    BY DEF DetachArtist, Done
  <1>3. artist \in [Person -> ArtistRow] /\ artist[u] \in ArtistRow
    BY <1>1 DEF RosterInv, MembershipTypeOK
  <1>4. /\ row \in ArtistRow /\ row.at = spot /\ spot \in Places
        /\ artist[u].at \in {"here", "nowhere"} => spot = "nowhere"
        /\ artist' = [artist EXCEPT ![u] = row]
    BY <1>2, <1>3 DEF ArtistRow, Places
  <1>5. r \in CallRow /\ r.step = "idle"
    BY IdleRow
  <1>6. \A q \in Call : q # p => call'[q] = call[q]
    BY <1>2 DEF Turns, RosterInv, MembershipTypeOK
  <1>7. call'[p] = r
    BY <1>2 DEF Turns, RosterInv, MembershipTypeOK
  <1> HIDE DEF r, row, u, spot
  <1>8. /\ artist' \in [Person -> ArtistRow] /\ artist'[u] = row
        /\ \A v \in Person : v # u => artist'[v] = artist[v]
    BY <1>1, <1>3, <1>4
  <1>9. MembershipTypeOK'
    BY <1>2, <1>5, <1>8 DEF RosterInv, MembershipTypeOK, Turns
  <1>10. Onward
    BY <1>2, <1>4, <1>8 DEF Onward
  <1>11. AnswersAreTrue' /\ Addressed'
    BY <1>2, <1>10 DEF RosterInv, AnswersAreTrue, Addressed, Onward
  <1>12. Carries(r)'
    BY <1>5 DEF Carries
  <1>13. ASSUME ~crossed' PROVE owner' \in Team' /\ Handing'
    <2>1. owner \in Team /\ Handing
      BY <1>2, <1>13 DEF RosterInv, OwnerIsMember
    <2>2. \A v \in Team : v # u => v \in Team'
      BY <1>8 DEF Team, Here
    <2>3. owner # u
      BY <1>1, <2>1 DEF Handing, u
    <2>4. \A q \in Call : call[q].step = "transfer" => call[q].who # u
      BY <1>1, <2>1 DEF Handing, Crossing, u
    <2>5. ~Crossing(call')
      BY <1>5, <1>6, <1>7, <2>1 DEF Handing, Crossing
    <2>6. ASSUME NEW q \in Call
          PROVE  /\ call'[q].step \in {"others", "detach"} => call'[q].who # owner'
                 /\ call'[q].step = "transfer" => call'[q].who \in Team'
      BY <1>2, <1>5, <1>6, <1>7, <2>1, <2>2, <2>4 DEF Handing
    <2> QED BY <1>2, <2>1, <2>2, <2>3, <2>5, <2>6 DEF Handing
  <1> QED BY <1>2, <1>5, <1>9, <1>10, <1>11, <1>12, <1>13, CallMovesOK

LEMMA SetOwnerOK ==
  ASSUME RosterInv, NEW p \in Call, SetOwner(p)
  PROVE  RosterInv'
  <1> DEFINE u == call[p].who
             r == Row("idle", NoOne, 0, 0)
  <1>1. call[p].step = "transfer" /\ u \in Person
    BY CallTyped DEF SetOwner, At, Carries
  <1>2. owner' = u /\ Turns(p, r) /\ UNCHANGED <<artist, invite, message, diary, crossed>>
    BY DEF SetOwner, Done
  <1>3. r \in CallRow /\ r.step = "idle"
    BY IdleRow
  <1>4. call'[p] = r /\ \A q \in Call : q # p => call'[q] = call[q]
    BY <1>2 DEF Turns, RosterInv, MembershipTypeOK
  <1> HIDE DEF r, u
  <1>5. MembershipTypeOK'
    BY <1>1, <1>2, <1>3 DEF RosterInv, MembershipTypeOK, Turns
  <1>6. Onward /\ AnswersAreTrue' /\ Addressed' /\ Carries(r)'
    BY <1>2, <1>3 DEF Onward, RosterInv, AnswersAreTrue, Addressed, Carries
  <1>7. ASSUME ~crossed' PROVE owner' \in Team' /\ Handing'
    <2>1. Handing
      BY <1>2, <1>7 DEF RosterInv
    <2>2. u \in Team /\ Team' = Team
      BY <1>1, <1>2, <2>1, SameTeam DEF Handing, u
    <2>3. \A q \in Call : call[q].step \in {"others", "detach"} => call[q].who # u
      BY <1>1, <2>1 DEF Handing, Crossing, u
    <2>4. ~Crossing(call')
      BY <1>3, <1>4, <2>1 DEF Handing, Crossing
    <2>5. ASSUME NEW q \in Call
          PROVE  /\ call'[q].step \in {"others", "detach"} => call'[q].who # owner'
                 /\ call'[q].step = "transfer" => call'[q].who \in Team'
      BY <1>2, <1>3, <1>4, <2>1, <2>2, <2>3 DEF Handing
    <2> QED BY <1>2, <2>2, <2>4, <2>5 DEF Handing
  <1> QED BY <1>2, <1>3, <1>5, <1>6, <1>7, CallMovesOK

\* A step of nobody's request.
LEMMA AroundOK ==
  ASSUME RosterInv, Onward, UNCHANGED <<owner, message, call, crossed>>,
         MembershipTypeOK', AnswersAreTrue', Addressed', Team \subseteq Team'
  PROVE  RosterInv'
  <1>2. ASSUME NEW q \in Call PROVE Carries(call[q])'
    <2>1. call[q] \in CallRow /\ Carries(call[q])
      BY CallTyped
    <2>2. call[q].step \in {"join", "accept"} => call[q].who \in Person
      BY <2>1 DEF Carries, RosterInv, Addressed
    <2> QED BY <2>1, <2>2 DEF Carries, Onward
  <1>3. crossed \/ (owner' \in Team' /\ Handing')
    BY DEF RosterInv, OwnerIsMember, Handing, Crossing
  <1> QED BY <1>2, <1>3 DEF RosterInv, OwnerIsMember

LEMMA ArtistRowOK ==
  ASSUME RosterInv, NEW u \in Person, CompleteOnboarding(u) \/ \E v \in {"active", "rejected"} : Review(u, v)
  PROVE  RosterInv'
  <1>1. PICK row \in ArtistRow :
          /\ artist' = [artist EXCEPT ![u] = row]
          /\ artist[u].at \in {"here", "nowhere"} => row.at = artist[u].at
          /\ artist[u].at = "here" => artist[u].status = "pending"
    <2>1. artist[u] \in ArtistRow
      BY DEF RosterInv, MembershipTypeOK
    <2>2. CASE CompleteOnboarding(u)
      <3>1. [at |-> "elsewhere", status |-> "pending"] \in ArtistRow
        BY DEF ArtistRow, Places
      <3> QED BY <2>2, <3>1 DEF CompleteOnboarding
    <2>3. ASSUME NEW v \in {"active", "rejected"}, Review(u, v)
          PROVE  \E row \in ArtistRow :
                   /\ artist' = [artist EXCEPT ![u] = row]
                   /\ artist[u].at \in {"here", "nowhere"} => row.at = artist[u].at
                   /\ artist[u].at = "here" => artist[u].status = "pending"
      <3>1. artist' = [artist EXCEPT ![u] = [artist[u] EXCEPT !.status = v]]
        BY <2>3 DEF Review
      <3>2. [artist[u] EXCEPT !.status = v] \in ArtistRow /\ [artist[u] EXCEPT !.status = v].at = artist[u].at
        BY <2>1 DEF ArtistRow
      <3> QED BY <2>3, <3>1, <3>2 DEF Review
    <2> QED BY <2>2, <2>3
  <1>2. UNCHANGED <<owner, invite, message, call, diary, crossed>>
    BY DEF CompleteOnboarding, Review
  <1>3. /\ artist' \in [Person -> ArtistRow] /\ artist'[u] = row
        /\ \A v \in Person : v # u => artist'[v] = artist[v]
    BY <1>1 DEF RosterInv, MembershipTypeOK
  <1>4. MembershipTypeOK'
    BY <1>2, <1>3 DEF RosterInv, MembershipTypeOK
  <1>5. Onward
    BY <1>1, <1>2, <1>3 DEF Onward
  <1>6. AnswersAreTrue' /\ Addressed'
    BY <1>2, <1>5 DEF RosterInv, AnswersAreTrue, Addressed, Onward
  <1>7. Team \subseteq Team'
    BY <1>1, <1>3 DEF Team, Here
  <1> QED BY <1>2, <1>4, <1>5, <1>6, <1>7, AroundOK

LEMMA PassDeadlineOK ==
  ASSUME RosterInv, NEW i \in Invitation, PassDeadline(i)
  PROVE  RosterInv'
  <1> DEFINE row == [invite[i] EXCEPT !.late = TRUE]
  <1>1. invite \in [Invitation -> InviteRow] /\ invite[i] \in InviteRow
    BY DEF RosterInv, MembershipTypeOK
  <1>2. row \in InviteRow /\ row.state = invite[i].state /\ row.to = invite[i].to
    BY <1>1 DEF InviteRow
  <1>3. invite' = [invite EXCEPT ![i] = row] /\ UNCHANGED <<artist, owner, message, call, diary, crossed>>
    BY DEF PassDeadline
  <1> HIDE DEF row
  <1>4. /\ invite' \in [Invitation -> InviteRow]
        /\ \A j \in Invitation : invite'[j].state = invite[j].state /\ invite'[j].to = invite[j].to
    BY <1>1, <1>2, <1>3
  <1>5. MembershipTypeOK' /\ Onward /\ AnswersAreTrue' /\ Addressed'
    BY <1>3, <1>4 DEF RosterInv, MembershipTypeOK, Onward, AnswersAreTrue, Addressed
  <1> QED BY <1>3, <1>5, AroundOK, SameTeam

LEMMA AppointmentOK ==
  ASSUME RosterInv, NEW u \in Person, NEW d \in Diaries, Appointment(u, d)
  PROVE  RosterInv'
  <1>1. diary' = [diary EXCEPT ![u] = d] /\ UNCHANGED <<artist, owner, invite, message, call, crossed>>
    BY DEF Appointment
  <1>2. MembershipTypeOK' /\ Onward /\ AnswersAreTrue' /\ Addressed'
    BY <1>1 DEF RosterInv, MembershipTypeOK, Onward, AnswersAreTrue, Addressed
  <1> QED BY <1>1, <1>2, AroundOK, SameTeam

LEMMA RosterInitOK == MembershipInit => RosterInv
  <1> SUFFICES ASSUME MembershipInit PROVE RosterInv
    OBVIOUS
  <1>1. MembershipTypeOK
    BY MembershipParameters
       DEF MembershipInit, MembershipTypeOK, ArtistRow, Places, InviteRow, InviteStates, CallRow,
           CallSteps, Diaries
  <1>2. \A p \in Call : call[p].step = "idle"
    BY DEF MembershipInit
  <1>3. \A i \in Invitation : invite[i].state = "none" /\ message[i] = "none"
    BY DEF MembershipInit
  <1>4. owner \in Team
    BY MembershipParameters DEF MembershipInit, Team, Here
  <1>5. Handing /\ \A p \in Call : Carries(call[p])
    BY <1>2 DEF Handing, Crossing, Carries
  <1> QED BY <1>1, <1>3, <1>4, <1>5 DEF RosterInv, AnswersAreTrue, Addressed, OwnerIsMember

LEMMA CallStepOK ==
  ASSUME RosterInv, NEW p \in Call, CallStep(p)
  PROVE  RosterInv'
  <1>1. CASE Answering(p)
    BY <1>1, LoadRedeemableOK DEF Answering, Accept, Decline, Preview
  <1> QED BY <1>1, InviteOK, FindDuplicateOK, CountActiveOK, CountWaitingOK, CreateInvitationOK,
             MessageOK, CompleteIntoOK, SetInvitationStatusOK, CountOthersOK, DetachArtistOK,
             SetOwnerOK, CallFailsOK, GoingOK, RevokeOK
          DEF CallStep

LEMMA RosterStep == RosterInv /\ [MembershipNext]_rosterVars => RosterInv'
  <1>1. ASSUME RosterInv, UNCHANGED rosterVars PROVE RosterInv'
    <2>1. Onward /\ MembershipTypeOK' /\ AnswersAreTrue' /\ Addressed' /\ Team' = Team
      BY <1>1, SameTeam DEF rosterVars, RosterInv, MembershipTypeOK, Onward, AnswersAreTrue, Addressed
    <2> QED BY <1>1, <2>1, AroundOK DEF rosterVars
  <1> QED BY <1>1, CallStepOK, ArtistRowOK, PassDeadlineOK, AppointmentOK DEF MembershipNext

LEMMA RosterInductive == MembershipSpec => []RosterInv
  BY RosterInitOK, RosterStep, PTL DEF MembershipSpec

\* The rows and requests of the roster keep their shape.
THEOREM RosterTyped == MembershipSpec => []MembershipTypeOK
  <1>1. RosterInv => MembershipTypeOK
    BY DEF RosterInv
  <1> QED BY RosterInductive, <1>1, PTL

\* An invitation says accepted only of somebody who joined, and its link is
\* taken out of the message only when it can no longer be used, whatever
\* requests answered it at once and wherever they stopped.
THEOREM AnswersAreAlwaysTrue == MembershipSpec => []AnswersAreTrue
  <1>1. RosterInv => AnswersAreTrue
    BY DEF RosterInv
  <1> QED BY RosterInductive, <1>1, PTL

\* The owner is an active member of her salon, unless somebody was handed it
\* by one request while another was taking her out of it.
THEOREM OwnerStaysMember == MembershipSpec => []OwnerIsMember
  <1>1. RosterInv => OwnerIsMember
    BY DEF RosterInv
  <1> QED BY RosterInductive, <1>1, PTL

-----------------------------------------------------------------------------
(* The gallery.  The cover is at the top, nothing is above the top, and a  *)
(* photo is added no higher than the top.                                  *)

GalleryInv ==
  /\ GalleryTypeOK /\ CoverIsFirst
  /\ \A p \in Photo : place[p] \in Nat \cup {Gone}
  /\ cover # NoPhoto => place[cover] = 0
  /\ \A q \in Caller : caller[q].step = "cover" => caller[q].of \in Photo

LEMMA RestingTyped == Resting \in CallerRow /\ Resting.step = "idle"
  BY DEF Resting, CallerRow

\* Of the places a list gives a photo there is a last one.
LEMMA LastPlaceGiven ==
  ASSUME NEW n \in Nat, NEW ids \in SeqOf(Photo, n), NEW p \in ToSet(ids)
  PROVE  (CHOOSE i \in DOMAIN ids : ids[i] = p /\ \A j \in i + 1 .. Len(ids) : ids[j] # p) \in Nat \ {0}
  <1>1. PICK m \in 0 .. n : ids \in [1 .. m -> Photo]
    BY DEF SeqOf
  <1>2. m \in Nat /\ DOMAIN ids = 1 .. m /\ Len(ids) = m
    BY <1>1, LenProperties, SeqDef
  <1> DEFINE I == {i \in 1 .. m : ids[i] = p}
             D == {m - i : i \in I}
  <1>3. D \subseteq Nat /\ D # {}
    BY <1>2 DEF ToSet
  <1>4. PICK d \in D : \A e \in D : <<e, d>> \notin OpToRel(<, Nat)
    BY <1>3, NatLessThanWellFounded, WFMin
  <1>5. \A e \in D : ~(e < d)
    BY <1>3, <1>4 DEF OpToRel
  <1>6. PICK i \in I : d = m - i
    BY <1>4
  <1>7. ASSUME NEW j \in i + 1 .. m PROVE ids[j] # p
    <2>1. i \in Int /\ j \in 1 .. m /\ m - j < d
      BY <1>2, <1>6
    <2> QED BY <1>5, <2>1
  <1>8. \E k \in DOMAIN ids : ids[k] = p /\ \A j \in k + 1 .. Len(ids) : ids[j] # p
    BY <1>2, <1>6, <1>7
  <1> DEFINE Final == CHOOSE k \in DOMAIN ids : ids[k] = p /\ \A j \in k + 1 .. Len(ids) : ids[j] # p
  <1>9. Final \in DOMAIN ids
    BY <1>8
  <1> HIDE DEF Final
  <1>10. Final \in Nat \ {0}
    BY <1>2, <1>9
  <1> QED BY <1>10 DEF Final

\* A request that goes on, the photos stay.
LEMMA PhotosStay ==
  ASSUME GalleryInv, NEW q \in Caller, NEW r \in CallerRow, Steps(q, r),
         r.step = "cover" => r.of \in Photo, UNCHANGED <<place, cover>>
  PROVE  GalleryInv'
  BY DEF Steps, GalleryInv, GalleryTypeOK, CoverIsFirst, Kept

LEMMA AddPhotoOK ==
  ASSUME GalleryInv, NEW q \in Caller, NEW p \in Photo, AddPhoto(q, p)
  PROVE  GalleryInv'
  <1>1. caller[q].seen \in Nat /\ place[p] = Gone /\ cover' = cover
    BY DEF GalleryInv, GalleryTypeOK, CallerRow, AddPhoto, Stored
  <1>2. /\ place' \in [Photo -> Int] /\ place'[p] = caller[q].seen
        /\ \A r \in Photo : r # p => place'[r] = place[r]
    BY <1>1 DEF AddPhoto, Create, GalleryInv, GalleryTypeOK
  <1>3. cover # p
    <2>1. CASE cover = NoPhoto
      BY <2>1, GalleryParameters
    <2>2. CASE cover # NoPhoto
      BY <1>1, <2>2 DEF GalleryInv, Gone
    <2> QED BY <2>1, <2>2
  <1>4. /\ caller' \in [Caller -> CallerRow]
        /\ \A x \in Caller : caller'[x].step = "cover" => caller'[x].of \in Photo
    BY RestingTyped DEF AddPhoto, Steps, GalleryInv, GalleryTypeOK
  <1>5. GalleryTypeOK' /\ \A r \in Photo : place'[r] \in Nat \cup {Gone}
    BY <1>1, <1>2, <1>4 DEF GalleryInv, GalleryTypeOK
  <1>6. cover' # NoPhoto => place'[cover'] = 0
    BY <1>1, <1>2, <1>3 DEF GalleryInv, GalleryTypeOK
  <1>7. CoverIsFirst'
    <2>1. ASSUME cover # NoPhoto, NEW r \in Photo, place'[r] # Gone, r # cover
          PROVE  place'[r] > place'[cover] \/ (place'[r] = 0 /\ place'[cover] = 0)
      <3>1. place'[cover] = 0 /\ place'[r] \in Nat
        BY <1>1, <1>5, <1>6, <2>1
      <3> QED BY <3>1
    <2> QED BY <1>1, <2>1 DEF CoverIsFirst, Kept
  <1> QED BY <1>4, <1>5, <1>6, <1>7 DEF GalleryInv

LEMMA DeletePhotoOK ==
  ASSUME GalleryInv, NEW p \in Photo, DeletePhoto(p)
  PROVE  GalleryInv'
  <1>1. /\ place' \in [Photo -> Int] /\ place'[p] = Gone
        /\ \A r \in Photo : r # p => place'[r] = place[r]
    BY DEF DeletePhoto, Delete, GalleryInv, GalleryTypeOK, Gone
  <1>2. caller' = caller /\ cover' \in Photo \cup {NoPhoto}
        /\ (cover' # NoPhoto => cover' = cover /\ cover # p)
    BY DEF DeletePhoto, GalleryInv, GalleryTypeOK
  <1>3. GalleryTypeOK' /\ \A r \in Photo : place'[r] \in Nat \cup {Gone}
    BY <1>1, <1>2 DEF GalleryInv, GalleryTypeOK
  <1>4. cover' # NoPhoto => place'[cover'] = 0
    BY <1>1, <1>2 DEF GalleryInv
  <1>5. CoverIsFirst'
    <2>1. ASSUME cover' # NoPhoto, NEW r \in Photo, place'[r] # Gone, r # cover'
          PROVE  place'[r] > place'[cover'] \/ (place'[r] = 0 /\ place'[cover'] = 0)
      BY <1>3, <1>4, <2>1
    <2> QED BY <2>1 DEF CoverIsFirst, Kept
  <1> QED BY <1>2, <1>3, <1>4, <1>5 DEF GalleryInv

LEMMA SetCoverOK ==
  ASSUME GalleryInv, NEW q \in Caller, SetCover(q)
  PROVE  GalleryInv'
  <1> DEFINE p == caller[q].of
  <1>1. p \in Photo /\ place' = Promoted(p) /\ cover' = IF place[p] = Gone THEN NoPhoto ELSE p
    BY DEF SetCover, GalleryInv
  <1>2. /\ caller' \in [Caller -> CallerRow]
        /\ \A x \in Caller : caller'[x].step = "cover" => caller'[x].of \in Photo
    BY RestingTyped DEF SetCover, Steps, GalleryInv, GalleryTypeOK
  <1> HIDE DEF p
  <1>3. \A r \in Photo : place'[r] = IF place[r] = Gone THEN Gone ELSE IF r = p THEN 0 ELSE place[r] + 1
    BY <1>1 DEF Promoted
  <1>4. \A r \in Photo : place[r] \in Nat \cup {Gone}
    BY DEF GalleryInv
  <1>5. ASSUME NEW r \in Photo
        PROVE  /\ place'[r] \in Nat \cup {Gone}
               /\ place'[r] # Gone => place[r] # Gone /\ (r # p => place'[r] > 0)
    BY <1>3, <1>4 DEF Gone
  <1>6. place' \in [Photo -> Int]
    <2>1. place' = [r \in Photo |-> place'[r]]
      BY <1>1 DEF Promoted
    <2> QED BY <1>5, <2>1 DEF Gone
  <1>7. GalleryTypeOK'
    BY <1>1, <1>2, <1>6 DEF GalleryTypeOK
  <1>8. cover' # NoPhoto => cover' = p /\ place'[p] = 0
    BY <1>1, <1>3
  <1>9. CoverIsFirst'
    <2>1. ASSUME cover' # NoPhoto, NEW r \in Photo, place'[r] # Gone, r # cover'
          PROVE  place'[r] > place'[cover']
      BY <1>5, <1>8, <2>1
    <2> QED BY <2>1 DEF CoverIsFirst, Kept
  <1> QED BY <1>2, <1>5, <1>7, <1>8, <1>9 DEF GalleryInv

LEMMA ReorderOK ==
  ASSUME GalleryInv, NEW q \in Caller, NEW ids \in SeqOf(Photo, Cardinality(Photo)), Reorder(q, ids)
  PROVE  GalleryInv'
  <1> DEFINE Final(p) == CHOOSE i \in DOMAIN ids : ids[i] = p /\ \A j \in i + 1 .. Len(ids) : ids[j] # p
  <1>1. /\ place' = [p \in Photo |->
              IF place[p] = Gone \/ p \notin ToSet(ids) THEN place[p] ELSE Final(p) - 1]
        /\ cover' = NoPhoto /\ Steps(q, Resting)
    BY DEF Reorder
  <1>2. \A p \in ToSet(ids) : Final(p) \in Nat \ {0}
    BY LastPlaceGiven, FS_CardinalityType, GalleryParameters
  <1> HIDE DEF Final
  <1>3. ASSUME NEW p \in Photo PROVE place'[p] \in Nat \cup {Gone}
    BY <1>1, <1>2 DEF GalleryInv
  <1>4. place' \in [Photo -> Int]
    BY <1>1, <1>3 DEF Gone
  <1>5. /\ caller' \in [Caller -> CallerRow]
        /\ \A x \in Caller : caller'[x].step = "cover" => caller'[x].of \in Photo
    BY <1>1, RestingTyped DEF Steps, GalleryInv, GalleryTypeOK
  <1> QED BY <1>1, <1>3, <1>4, <1>5 DEF GalleryInv, GalleryTypeOK, CoverIsFirst

LEMMA CountedOK ==
  ASSUME GalleryInv, NEW q \in Caller,
         \/ CountPhotos(q)
         \/ \E p \in Photo : ChooseCover(q, p)
         \/ \E n \in 1 .. Cardinality(Photo) : CountForReorder(q, n)
  PROVE  GalleryInv'
  <1>1. Cardinality(Kept) \in Nat
    BY GalleryParameters, FS_Subset, FS_CardinalityType DEF Kept
  <1> DEFINE n == Cardinality(Kept)
  <1>2. CASE CountPhotos(q)
    <2>1. [Resting EXCEPT !.step = "add", !.seen = n] \in CallerRow
      BY <1>1 DEF Resting, CallerRow
    <2>2. [Resting EXCEPT !.step = "add", !.seen = n].step = "add"
      BY DEF Resting
    <2> QED BY <1>2, <2>1, <2>2, PhotosStay DEF CountPhotos
  <1>3. ASSUME NEW p \in Photo, ChooseCover(q, p) PROVE GalleryInv'
    <2>1. [Resting EXCEPT !.step = "cover", !.of = p] \in CallerRow
      BY DEF Resting, CallerRow
    <2>2. [Resting EXCEPT !.step = "cover", !.of = p].of = p
      BY DEF Resting
    <2> QED BY <1>3, <2>1, <2>2, PhotosStay DEF ChooseCover
  <1>4. ASSUME NEW m \in 1 .. Cardinality(Photo), CountForReorder(q, m) PROVE GalleryInv'
    <2>1. [Resting EXCEPT !.step = "reorder", !.seen = m] \in CallerRow
      BY <1>1, <1>4 DEF Resting, CallerRow, CountForReorder
    <2>2. [Resting EXCEPT !.step = "reorder", !.seen = m].step = "reorder"
      BY DEF Resting
    <2> QED BY <1>4, <2>1, <2>2, PhotosStay DEF CountForReorder
  <1> QED BY <1>2, <1>3, <1>4

LEMMA GalleryStart == GalleryInit => GalleryInv
  BY RestingTyped DEF GalleryInit, GalleryInv, GalleryTypeOK, CoverIsFirst, Gone

LEMMA GalleryStep == GalleryInv /\ [GalleryNext]_galleryVars => GalleryInv'
  <1>1. GalleryInv /\ UNCHANGED galleryVars => GalleryInv'
    BY DEF galleryVars, GalleryInv, GalleryTypeOK, CoverIsFirst, Kept
  <1> QED BY <1>1, CountedOK, SetCoverOK, AddPhotoOK, ReorderOK, DeletePhotoOK DEF GalleryNext

LEMMA GalleryInductive == GallerySpec => []GalleryInv
  BY GalleryStart, GalleryStep, PTL DEF GallerySpec

\* Every photo has a place or none.
THEOREM GalleryTyped == GallerySpec => []GalleryTypeOK
  <1>1. GalleryInv => GalleryTypeOK
    BY DEF GalleryInv
  <1> QED BY GalleryInductive, <1>1, PTL

\* The photo made cover comes before all others until the gallery is
\* reordered, while others are added and deleted beside it.
THEOREM CoverStaysFirst == GallerySpec => []CoverIsFirst
  <1>1. GalleryInv => CoverIsFirst
    BY DEF GalleryInv
  <1> QED BY GalleryInductive, <1>1, PTL

-----------------------------------------------------------------------------
(* The calendar.                                                           *)

\* Of one booking's files: the same number, the same hour; a higher number, a
\* later version; nothing is ahead of the row.
Told(f, g) ==
  f[1] = g[1] =>
    /\ f[2].seq = g[2].seq => f[2].start = g[2].start
    /\ f[2].seq < g[2].seq => f[2].version < g[2].version
Behind(f) ==
  LET row == agenda[f[1]]
  IN /\ f[2].seq <= row.seq /\ f[2].version <= row.version
     /\ f[2].seq = row.seq => f[2].start = row.start
     /\ f[2].seq < row.seq => f[2].version < row.version

CalendarInv ==
  /\ CalendarTypeOK /\ HeldIsFreshest
  /\ \A f \in saved : Behind(f)
  /\ \A f, g \in saved : Told(f, g)
  /\ \A b \in Entry : phone[b] # NoEvent => <<b, phone[b]>> \in saved
  /\ \A f \in opened : f[2].method = "PUBLISH" => phone[f[1]].seq >= f[2].seq

EntryRow ==
  [status : MayMove \cup CalledOff \cup {"completed", "no_show"},
   start : Int, moved : 0 .. MovesLeft, seq : Nat, link : BOOLEAN, version : Nat]

\* What a statement does to a row: a later version, and a higher number where
\* the hour changes.
Later(r, s) ==
  \/ s = r
  \/ /\ s.version > r.version
     /\ s.seq > r.seq \/ (s.seq = r.seq /\ s.start = r.start)

LEMMA TurnedIsLater ==
  ASSUME NEW r \in EntryRow, NEW status \in MayMove \cup CalledOff \cup {"completed", "no_show"}
  PROVE  Turned(r, status) \in EntryRow /\ Later(r, Turned(r, status))
  <1>1. PICK t : t = Turned(r, status)
    OBVIOUS
  <1>2. t = [status |-> status, start |-> r.start, moved |-> r.moved, seq |-> r.seq,
             link |-> r.link, version |-> r.version + 1]
    BY <1>1 DEF Turned, EntryRow
  <1>3. r.version \in Nat /\ r.version + 1 \in Nat
    BY DEF EntryRow
  <1>4. t \in EntryRow
    BY <1>2, <1>3 DEF EntryRow
  <1> QED BY <1>1, <1>2, <1>3, <1>4 DEF Later

LEMMA MovedIsLater ==
  ASSUME NEW r \in EntryRow, NEW start \in Int
  PROVE  MovedTo(r, start) \in EntryRow /\ Later(r, MovedTo(r, start))
  <1>1. PICK t : t = MovedTo(r, start)
    OBVIOUS
  <1>2. t = [status |-> r.status, start |-> start, moved |-> r.moved, seq |-> r.seq + 1,
             link |-> r.link, version |-> r.version + 1]
    BY <1>1 DEF MovedTo, EntryRow
  <1>3. /\ r.version \in Nat /\ r.version + 1 \in Nat
        /\ r.seq \in Nat /\ r.seq + 1 \in Nat
    BY DEF EntryRow
  <1>4. t \in EntryRow
    BY <1>2, <1>3 DEF EntryRow
  <1> QED BY <1>1, <1>2, <1>3, <1>4 DEF Later

\* Rows that go on, the files stay behind them.
LEMMA RowsGoOn ==
  ASSUME CalendarInv, agenda' \in [Entry -> EntryRow],
         \A b \in Entry : Later(agenda[b], agenda'[b]),
         plan' \in [ids : SUBSET Entry, by : {-1, 0, 1}], shifts' \in Nat,
         UNCHANGED <<saved, opened, phone>>
  PROVE  CalendarInv'
  <1>1. CalendarTypeOK' /\ HeldIsFreshest'
    BY DEF CalendarInv, CalendarTypeOK, HeldIsFreshest, EntryRow
  <1>2. ASSUME NEW f \in saved PROVE Behind(f)'
    <2>1. /\ f[1] \in Entry /\ f[2].seq \in Nat /\ f[2].version \in Nat /\ f[2].start \in Int
          /\ Behind(f)
      BY <1>2 DEF CalendarInv, CalendarTypeOK, Files
    <2>2. PICK b \in Entry : b = f[1]
      BY <2>1
    <2>3. PICK r : r = agenda[b]
      OBVIOUS
    <2>4. PICK s : s = agenda'[b]
      OBVIOUS
    <2>5. /\ r.seq \in Nat /\ r.version \in Nat /\ s.seq \in Nat /\ s.version \in Nat
          /\ Later(r, s)
      BY <2>2, <2>3, <2>4 DEF CalendarInv, CalendarTypeOK, EntryRow
    <2>6. /\ f[2].seq <= r.seq /\ f[2].version <= r.version
          /\ f[2].seq = r.seq => f[2].start = r.start
          /\ f[2].seq < r.seq => f[2].version < r.version
      BY <2>1, <2>2, <2>3 DEF Behind
    <2>7. /\ f[2].seq <= s.seq /\ f[2].version <= s.version
          /\ f[2].seq = s.seq => f[2].start = s.start
          /\ f[2].seq < s.seq => f[2].version < s.version
      BY <2>1, <2>5, <2>6 DEF Later
    <2> QED BY <2>2, <2>4, <2>7 DEF Behind
  <1>3. \A f, g \in saved' : Told(f, g)
    BY DEF CalendarInv
  <1> QED BY <1>1, <1>2, <1>3 DEF CalendarInv

\* One row that goes on.
LEMMA RowGoesOn ==
  ASSUME CalendarInv, NEW b \in Entry, NEW r \in EntryRow, Later(agenda[b], r),
         agenda' = [agenda EXCEPT ![b] = r],
         shifts' \in Nat, UNCHANGED <<plan, saved, opened, phone>>
  PROVE  CalendarInv'
  <1>1. agenda' \in [Entry -> EntryRow]
    BY DEF CalendarInv, CalendarTypeOK, EntryRow
  <1>2. \A x \in Entry : Later(agenda[x], agenda'[x])
    BY DEF CalendarInv, CalendarTypeOK, Later
  <1>3. plan' \in [ids : SUBSET Entry, by : {-1, 0, 1}]
    BY DEF CalendarInv, CalendarTypeOK
  <1> QED BY <1>1, <1>2, <1>3, RowsGoOn

LEMMA RowsTyped ==
  ASSUME CalendarInv, NEW b \in Entry
  PROVE  agenda[b] \in EntryRow /\ shifts \in Nat
  BY DEF CalendarInv, CalendarTypeOK, EntryRow

LEMMA ApproveEntryOK ==
  ASSUME CalendarInv, NEW b \in Entry, ApproveEntry(b)
  PROVE  CalendarInv'
  <1>1. PICK r : r = agenda[b]
    OBVIOUS
  <1>2. PICK t : t = Turned(r, "approved")
    OBVIOUS
  <1>3. PICK s : s = [t EXCEPT !.link = TRUE]
    OBVIOUS
  <1>4. r \in EntryRow
    BY <1>1, RowsTyped
  <1>5. t \in EntryRow /\ Later(r, t)
    BY <1>2, <1>4, TurnedIsLater DEF MayMove
  <1>6. s \in EntryRow /\ s.seq = t.seq /\ s.start = t.start /\ s.version = t.version
    BY <1>3, <1>5 DEF EntryRow
  <1>7. t.version > r.version
    BY <1>2, <1>4 DEF Turned, EntryRow
  <1>8. Later(r, s)
    BY <1>4, <1>5, <1>6, <1>7 DEF Later, EntryRow
  <1>9. agenda' = [agenda EXCEPT ![b] = s]
    BY <1>1, <1>2, <1>3 DEF ApproveEntry, CalendarInv, CalendarTypeOK
  <1> QED BY <1>1, <1>6, <1>8, <1>9, RowGoesOn, RowsTyped DEF ApproveEntry

LEMMA TurnOK ==
  ASSUME CalendarInv, NEW b \in Entry, NEW status, Turn(b, status)
  PROVE  CalendarInv'
  <1>1. PICK r : r = Turned(agenda[b], status)
    OBVIOUS
  <1>2. status \in MayMove \cup CalledOff \cup {"completed", "no_show"}
    BY DEF Turn, Follows, MayMove, CalledOff
  <1>3. r \in EntryRow /\ Later(agenda[b], r)
    BY <1>1, <1>2, TurnedIsLater, RowsTyped
  <1>4. agenda' = [agenda EXCEPT ![b] = r]
    BY <1>1 DEF Turn, CalendarInv, CalendarTypeOK
  <1> QED BY <1>3, <1>4, RowGoesOn, RowsTyped DEF Turn

LEMMA MoveEntryOK ==
  ASSUME CalendarInv, NEW b \in Entry, NEW start \in Hours, MoveEntry(b, start)
  PROVE  CalendarInv'
  <1>1. PICK r : r = agenda[b]
    OBVIOUS
  <1>2. PICK t : t = MovedTo(r, start)
    OBVIOUS
  <1>3. PICK s : s = [t EXCEPT !.moved = @ + 1]
    OBVIOUS
  <1>4. r \in EntryRow /\ r.moved < MovesLeft
    BY <1>1, RowsTyped DEF MoveEntry
  <1>5. t \in EntryRow /\ t.moved = r.moved /\ t.version > r.version /\ t.seq > r.seq
    <2>1. start \in Int /\ r.version \in Nat /\ r.seq \in Nat
      BY <1>4, CalendarAssumption DEF EntryRow
    <2>2. t.moved = r.moved /\ t.version = r.version + 1 /\ t.seq = r.seq + 1
      BY <1>2, <1>4 DEF MovedTo, EntryRow
    <2> QED BY <1>2, <1>4, <2>1, <2>2, MovedIsLater
  <1>6. s \in EntryRow /\ s.seq = t.seq /\ s.version = t.version
    BY <1>3, <1>4, <1>5, CalendarAssumption DEF EntryRow
  <1>7. Later(r, s)
    BY <1>5, <1>6 DEF Later
  <1>8. agenda' = [agenda EXCEPT ![b] = s]
    BY <1>1, <1>2, <1>3 DEF MoveEntry, Rescheduled, CalendarInv, CalendarTypeOK
  <1> QED BY <1>1, <1>6, <1>7, <1>8, RowGoesOn, RowsTyped DEF MoveEntry

LEMMA HandOverOK ==
  ASSUME CalendarInv, NEW b \in Entry, HandOver(b)
  PROVE  CalendarInv'
  <1>1. PICK r : r = MovedTo(agenda[b], agenda[b].start)
    OBVIOUS
  <1>2. agenda[b] \in EntryRow /\ agenda[b].start \in Int /\ shifts' \in Nat
    BY RowsTyped DEF EntryRow, HandOver
  <1>3. r \in EntryRow /\ Later(agenda[b], r)
    BY <1>1, <1>2, MovedIsLater
  <1>4. agenda' = [agenda EXCEPT ![b] = r]
    BY <1>1 DEF HandOver, CalendarInv, CalendarTypeOK
  <1> QED BY <1>2, <1>3, <1>4, RowGoesOn DEF HandOver

LEMMA WriteShiftOK ==
  ASSUME CalendarInv, WriteShift
  PROVE  CalendarInv'
  <1>1. ASSUME NEW b \in Entry PROVE agenda'[b] \in EntryRow /\ Later(agenda[b], agenda'[b])
    <2>1. agenda[b] \in EntryRow /\ agenda[b].start + plan.by \in Int
      BY RowsTyped DEF CalendarInv, CalendarTypeOK, EntryRow
    <2>2. CASE b \in plan.ids
      <3>1. agenda'[b] = MovedTo(agenda[b], agenda[b].start + plan.by)
        BY <2>2 DEF WriteShift
      <3>2. PICK r : r = MovedTo(agenda[b], agenda[b].start + plan.by)
        OBVIOUS
      <3>3. r \in EntryRow /\ Later(agenda[b], r)
        BY <2>1, <3>2, MovedIsLater
      <3> QED BY <3>1, <3>2, <3>3
    <2>3. CASE b \notin plan.ids
      BY <2>1, <2>3 DEF WriteShift, Later
    <2> QED BY <2>2, <2>3
  <1>2. agenda' \in [Entry -> EntryRow]
    BY <1>1 DEF WriteShift
  <1>3. plan' \in [ids : SUBSET Entry, by : {-1, 0, 1}] /\ shifts' \in Nat
    BY DEF WriteShift, NoPlan, CalendarInv, CalendarTypeOK
  <1> QED BY <1>1, <1>2, <1>3, RowsGoOn DEF WriteShift

LEMMA PlanShiftOK ==
  ASSUME CalendarInv, NEW ids \in SUBSET Entry, NEW by \in {-1, 1}, PlanShift(ids, by)
  PROVE  CalendarInv'
  <1>1. plan' \in [ids : SUBSET Entry, by : {-1, 0, 1}] /\ shifts' \in Nat
    BY DEF PlanShift, CalendarInv, CalendarTypeOK
  <1>2. agenda' \in [Entry -> EntryRow] /\ \A b \in Entry : Later(agenda[b], agenda'[b])
    BY DEF PlanShift, CalendarInv, CalendarTypeOK, EntryRow, Later
  <1> QED BY <1>1, <1>2, RowsGoOn DEF PlanShift

\* A file is the row of its moment, so of the files fetched before it it is
\* ahead as the row is.
LEMMA FetchOK ==
  ASSUME CalendarInv, NEW b \in Entry, Fetch(b)
  PROVE  CalendarInv'
  <1>1. PICK r : r = agenda[b]
    OBVIOUS
  <1>2. PICK file : file = Format(GetEvent(r))
    OBVIOUS
  <1>3. r \in EntryRow
    BY <1>1, RowsTyped
  <1>4. file \in Files /\ file.seq = r.seq /\ file.start = r.start /\ file.version = r.version
    BY <1>2, <1>3 DEF Format, GetEvent, Files, EntryRow
  <1>5. saved' = saved \cup {<<b, file>>} /\ UNCHANGED <<agenda, plan, shifts, opened, phone>>
    BY <1>1, <1>2 DEF Fetch
  <1>6. CalendarTypeOK' /\ HeldIsFreshest'
    BY <1>4, <1>5 DEF CalendarInv, CalendarTypeOK, HeldIsFreshest
  <1>7. ASSUME NEW f \in saved' PROVE Behind(f)'
    <2>1. CASE f \in saved
      BY <1>5, <2>1 DEF CalendarInv, Behind
    <2>2. CASE f = <<b, file>>
      <3>1. f[1] = b /\ f[2] = file /\ r.seq \in Nat /\ r.version \in Nat /\ r = agenda'[b]
        BY <1>1, <1>3, <1>5, <2>2 DEF EntryRow
      <3> QED BY <1>4, <3>1 DEF Behind
    <2> QED BY <1>5, <2>1, <2>2
  <1>8. ASSUME NEW f \in saved'
        PROVE  Told(f, <<b, file>>) /\ Told(<<b, file>>, f)
    <2>1. CASE f \in saved
      <3>1. /\ f[2].seq \in Nat /\ f[2].version \in Nat
            /\ file.seq \in Nat /\ file.version \in Nat
        BY <1>4, <2>1 DEF CalendarInv, CalendarTypeOK, Files
      <3>2. ASSUME f[1] = b
            PROVE  /\ f[2].seq <= file.seq
                   /\ f[2].seq = file.seq => f[2].start = file.start
                   /\ f[2].seq < file.seq => f[2].version < file.version
        BY <1>1, <1>4, <2>1, <3>2 DEF CalendarInv, Behind
      <3> QED BY <3>1, <3>2 DEF Told
    <2>2. CASE f = <<b, file>>
      <3>1. file.seq \in Nat /\ f[2] = file
        BY <1>4, <2>2 DEF Files
      <3> QED BY <2>2, <3>1 DEF Told
    <2> QED BY <1>5, <2>1, <2>2
  <1>9. \A f, g \in saved' : Told(f, g)
    BY <1>5, <1>8 DEF CalendarInv
  <1>10. \A x \in Entry : phone'[x] # NoEvent => <<x, phone'[x]>> \in saved'
    BY <1>5 DEF CalendarInv
  <1>11. \A f \in opened' : f[2].method = "PUBLISH" => phone'[f[1]].seq >= f[2].seq
    BY <1>5 DEF CalendarInv
  <1> QED BY <1>6, <1>7, <1>9, <1>10, <1>11 DEF CalendarInv

\* The number the phone holds never falls, and the file of a higher version
\* has no lower number.
LEMMA OpenFileOK ==
  ASSUME CalendarInv, NEW b \in Entry, NEW file \in Files, OpenFile(b, file)
  PROVE  CalendarInv'
  <1>1. PICK old : old = phone[b]
    OBVIOUS
  <1>2. PICK new : new = Imported(old, file)
    OBVIOUS
  <1>3. /\ <<b, file>> \in saved /\ opened' = opened \cup {<<b, file>>}
        /\ phone' = [phone EXCEPT ![b] = new]
        /\ UNCHANGED <<agenda, plan, shifts, saved>>
    BY <1>1, <1>2 DEF OpenFile, CalendarInv, CalendarTypeOK
  <1>4. old \in Files \cup {NoEvent} /\ NoEvent.seq = -1
    BY <1>1 DEF CalendarInv, CalendarTypeOK, NoEvent
  <1>5. \A e \in Files : e.seq \in Nat /\ e.version \in Nat /\ e # NoEvent
    BY DEF Files, NoEvent
  <1>6. /\ new \in Files \cup {NoEvent}
        /\ new # NoEvent => new = file \/ new = old
        /\ new.seq >= old.seq
        /\ old # NoEvent => new # NoEvent
        /\ file.method = "PUBLISH" => new # NoEvent /\ new.seq >= file.seq
    BY <1>2, <1>4, <1>5 DEF Imported
  <1>7. phone' \in [Entry -> Files \cup {NoEvent}] /\ phone'[b] = new
        /\ \A x \in Entry : x # b => phone'[x] = phone[x]
    BY <1>3, <1>6 DEF CalendarInv, CalendarTypeOK
  <1>8. CalendarTypeOK'
    BY <1>3, <1>7 DEF CalendarInv, CalendarTypeOK
  <1>9. ASSUME NEW x \in Entry, phone'[x] # NoEvent PROVE <<x, phone'[x]>> \in saved'
    <2>1. CASE x = b
      BY <1>1, <1>3, <1>6, <1>7, <1>9, <2>1 DEF CalendarInv
    <2>2. CASE x # b
      BY <1>3, <1>7, <1>9, <2>2 DEF CalendarInv
    <2> QED BY <2>1, <2>2
  <1>10. ASSUME NEW f \in opened', f[2].method = "PUBLISH"
         PROVE  phone'[f[1]] # NoEvent /\ phone'[f[1]].seq >= f[2].seq
    <2>1. f[1] \in Entry /\ f[2] \in Files /\ f[2].seq \in Nat
      BY <1>3, <1>8, <1>10 DEF CalendarTypeOK, Files
    <2>2. CASE f = <<b, file>>
      BY <1>6, <1>7, <1>10, <2>2
    <2>3. CASE f \in opened
      <3>1. phone[f[1]] # NoEvent /\ phone[f[1]].seq >= f[2].seq
        BY <1>10, <2>3 DEF CalendarInv, HeldIsFreshest
      <3>2. CASE f[1] = b
        <4>1. old \in Files /\ new \in Files
          BY <1>1, <1>4, <1>6, <3>1, <3>2
        <4>2. old.seq \in Nat /\ new.seq \in Nat
          BY <1>5, <4>1
        <4>3. new.seq >= f[2].seq
          BY <1>1, <1>6, <2>1, <3>1, <3>2, <4>2
        <4> QED BY <1>1, <1>6, <1>7, <3>1, <3>2, <4>3
      <3>3. CASE f[1] # b
        BY <1>7, <2>1, <3>1, <3>3
      <3> QED BY <3>2, <3>3
    <2> QED BY <1>3, <2>2, <2>3
  <1>11. HeldIsFreshest'
    <2>1. ASSUME NEW f \in opened', f[2].method = "PUBLISH",
                 f[2].version > phone'[f[1]].version
          PROVE  f[2].start = phone'[f[1]].start
      <3>1. PICK x \in Entry : x = f[1]
        BY <1>3, <1>8, <2>1 DEF CalendarTypeOK
      <3>2. PICK held : held = phone'[x]
        OBVIOUS
      <3>3. held # NoEvent /\ held.seq >= f[2].seq /\ f[2].version > held.version
        BY <1>10, <2>1, <3>1, <3>2
      <3>4. f \in saved /\ <<x, held>> \in saved
        BY <1>3, <1>8, <1>9, <2>1, <3>1, <3>2, <3>3 DEF CalendarTypeOK
      <3>5. Told(f, <<x, held>>)
        BY <3>4 DEF CalendarInv
      <3>6. /\ f[2].seq = held.seq => f[2].start = held.start
            /\ f[2].seq < held.seq => f[2].version < held.version
        BY <3>1, <3>5 DEF Told
      <3>7. /\ f[2].seq \in Nat /\ f[2].version \in Nat
            /\ held.seq \in Nat /\ held.version \in Nat
        BY <1>5, <3>4 DEF CalendarInv, CalendarTypeOK
      <3> QED BY <3>1, <3>2, <3>3, <3>6, <3>7
    <2> QED BY <1>10, <2>1 DEF HeldIsFreshest
  <1>12. \A f \in saved' : Behind(f)'
    BY <1>3 DEF CalendarInv, Behind
  <1>13. \A f, g \in saved' : Told(f, g)
    BY <1>3 DEF CalendarInv
  <1> QED BY <1>8, <1>9, <1>10, <1>11, <1>12, <1>13 DEF CalendarInv

LEMMA CalendarStep == CalendarInv /\ [CalendarNext]_calendarVars => CalendarInv'
  <1> SUFFICES ASSUME CalendarInv, [CalendarNext]_calendarVars PROVE CalendarInv'
    OBVIOUS
  <1>1. CASE UNCHANGED calendarVars
    BY <1>1 DEF calendarVars, CalendarInv, CalendarTypeOK, HeldIsFreshest, Behind
  <1>2. ASSUME NEW b \in Entry,
               \/ ApproveEntry(b)
               \/ \E t \in Follows : Turn(b, t[2])
               \/ \E h \in Hours : MoveEntry(b, h)
               \/ HandOver(b)
               \/ Fetch(b)
        PROVE  CalendarInv'
    BY <1>2, ApproveEntryOK, TurnOK, MoveEntryOK, HandOverOK, FetchOK
  <1>3. ASSUME NEW f \in saved, OpenFile(f[1], f[2]) PROVE CalendarInv'
    <2>1. f[1] \in Entry /\ f[2] \in Files
      BY DEF CalendarInv, CalendarTypeOK
    <2> QED BY <1>3, <2>1, OpenFileOK
  <1> QED BY <1>1, <1>2, <1>3, PlanShiftOK, WriteShiftOK DEF CalendarNext

LEMMA CalendarStart == CalendarInit => CalendarInv
  <1> SUFFICES ASSUME CalendarInit PROVE CalendarInv
    OBVIOUS
  <1>1. agenda \in [Entry -> EntryRow]
    <2>1. /\ {"pending"} \subseteq MayMove /\ Hours \subseteq Int
          /\ {0} \subseteq 0 .. MovesLeft /\ {0} \subseteq Nat
      BY CalendarAssumption DEF MayMove
    <2>2. [status : {"pending"}, start : Hours, moved : {0}, seq : {0},
           link : {FALSE}, version : {0}] \subseteq EntryRow
      BY <2>1 DEF EntryRow
    <2> QED BY <2>2 DEF CalendarInit
  <1>2. CalendarTypeOK
    BY <1>1 DEF CalendarInit, CalendarTypeOK, EntryRow, NoPlan
  <1> QED BY <1>2 DEF CalendarInit, CalendarInv, HeldIsFreshest

LEMMA CalendarHolds == CalendarSpec => []CalendarInv
  BY CalendarStart, CalendarStep, PTL DEF CalendarSpec

\* However late and in whatever order files are opened, the phone never keeps
\* an hour that a fresher opened file has corrected.
THEOREM HeldStaysFreshest == CalendarSpec => []HeldIsFreshest
  <1>1. CalendarInv => HeldIsFreshest
    BY DEF CalendarInv
  <1> QED BY <1>1, CalendarHolds, PTL

-----------------------------------------------------------------------------
(* Reviews.                                                                *)

\* A review that is not there says nothing.
Bare(row) == row.state = "none" => row = Absent

\* A transaction that met no other is the only one there is.
Alone ==
  \A w \in Writer :
    InTransaction(w) /\ ~met[w] => \A y \in Writer \ {w} : ~InTransaction(y)

\* What it counted is what it will leave, and it left the store alone only
\* where it leaves the reviews as they are.
Counts(w) ==
  InTransaction(w) /\ ~met[w] =>
    /\ writer[w].step \in {"artistLock", "store", "storeLock", "commit"} =>
         writer[w].artistSeen = ShownOf(SeenBy(w), server[writer[w].of])
    /\ writer[w].step \in {"storeLock", "commit"} /\ writer[w].known =>
         writer[w].seen = Answered(SeenBy(w))
    /\ ~writer[w].known => SeenBy(w) = review

Errand(w) ==
  /\ writer[w].step # "idle" => writer[w].of \in Visit
  /\ Bare(writer[w].puts)
  /\ writer[w].step = "begin" /\ writer[w].change = "delete" => writer[w].puts = Absent

ReviewsInv ==
  /\ ReviewsTypeOK
  /\ \A v \in Visit : Bare(review[v])
  /\ Alone
  /\ \A w \in Writer : Counts(w) /\ Errand(w)

LEMMA NothingIsBare == Absent \in ReviewRow /\ Bare(Absent) /\ Free \in WriterRow /\ Bare(Free.puts)
  BY DEF Absent, ReviewRow, Bare, Free, WriterRow, WriterSteps, Changes

\* Where a request goes: the others stay.
LEMMA GoesTyped ==
  ASSUME ReviewsInv, NEW w \in Writer, NEW row \in WriterRow, Goes(w, row)
  PROVE  /\ writer' \in [Writer -> WriterRow] /\ writer'[w] = row
         /\ \A x \in Writer : x # w => writer'[x] = writer[x]
  BY DEF ReviewsInv, ReviewsTypeOK, Goes

\* A step within a transaction, or out of it, that writes no table.
LEMMA WriterGoesOn ==
  ASSUME ReviewsInv, NEW w \in Writer, NEW row \in WriterRow, Goes(w, row),
         UNCHANGED <<Unwritten, met>>,
         row.step \notin {"idle", "begin"} => InTransaction(w),
         row.step # "idle" => row.of \in Visit,
         Bare(row.puts), row.step = "begin" /\ row.change = "delete" => row.puts = Absent,
         row.step \notin {"idle", "begin"} /\ ~met[w] =>
           LET rows == [review EXCEPT ![row.of] = row.puts]
           IN /\ row.step \in {"artistLock", "store", "storeLock", "commit"} =>
                   row.artistSeen = ShownOf(rows, server[row.of])
              /\ row.step \in {"storeLock", "commit"} /\ row.known => row.seen = Answered(rows)
              /\ ~row.known => rows = review
  PROVE  ReviewsInv'
  <1>1. /\ writer' \in [Writer -> WriterRow] /\ writer'[w] = row
        /\ \A x \in Writer : x # w => writer'[x] = writer[x]
    BY GoesTyped
  <1>2. UNCHANGED <<server, review, artistMean, storeMean, met>>
    BY DEF Unwritten
  <1>3. ReviewsTypeOK' /\ \A v \in Visit : Bare(review[v])'
    BY <1>1, <1>2 DEF ReviewsInv, ReviewsTypeOK, Bare
  <1>4. \A x \in Writer : InTransaction(x)' => InTransaction(x)
    BY <1>1 DEF InTransaction
  <1>5. Alone'
    BY <1>2, <1>4 DEF ReviewsInv, Alone
  <1>6. Counts(w)' /\ Errand(w)'
    BY <1>1, <1>2 DEF Counts, Errand, Bare, InTransaction, SeenBy, ShownOf, Shown, Answered
  <1>7. ASSUME NEW x \in Writer, x # w
        PROVE  Counts(x)' /\ Errand(x)'
    <2>1. writer'[x] = writer[x]
      BY <1>1, <1>7
    <2> QED BY <1>2, <2>1
            DEF ReviewsInv, Counts, Errand, Bare, InTransaction, SeenBy, ShownOf, Shown, Answered
  <1> QED BY <1>3, <1>5, <1>6, <1>7 DEF ReviewsInv

LEMMA ChecksOK ==
  ASSUME ReviewsInv, NEW w \in Writer, NEW v \in Visit,
         \/ \E venue \in BOOLEAN : CreateReview(w, v, venue)
         \/ DeleteReview(w, v)
         \/ \E change \in {"hide", "show"} : SetReviewVisibility(w, v, change)
  PROVE  ReviewsInv'
  <1>1. ASSUME NEW change \in Changes, NEW puts \in ReviewRow, Bare(puts),
               change = "delete" => puts = Absent, UNCHANGED <<Unwritten, met>>,
               NEW row, Goes(w, row),
               row = [step |-> "begin", change |-> change, of |-> v, puts |-> puts, known |-> FALSE,
                      seen |-> {}, artistSeen |-> {}]
        PROVE  ReviewsInv'
    <2>1. row \in WriterRow
      BY <1>1 DEF WriterRow, WriterSteps
    <2> QED BY <1>1, <2>1, WriterGoesOn
  <1>2. ASSUME NEW venue \in BOOLEAN, CreateReview(w, v, venue) PROVE ReviewsInv'
    <2>1. PICK puts : puts = [state |-> "visible", venue |-> venue]
      OBVIOUS
    <2>2. PICK row : row = [Free EXCEPT !.step = "begin", !.change = "create", !.of = v, !.puts = puts]
      OBVIOUS
    <2>3. row = [step |-> "begin", change |-> "create", of |-> v, puts |-> puts, known |-> FALSE,
                 seen |-> {}, artistSeen |-> {}]
      BY <2>2 DEF Free
    <2>4. puts \in ReviewRow /\ Bare(puts)
      BY <2>1 DEF ReviewRow, Bare
    <2>5. Goes(w, row) /\ UNCHANGED <<Unwritten, met>>
      BY <1>2, <2>1, <2>2 DEF CreateReview
    <2> QED BY <1>1, <2>3, <2>4, <2>5 DEF Changes
  <1>3. CASE DeleteReview(w, v)
    <2>1. PICK row : row = [Free EXCEPT !.step = "begin", !.change = "delete", !.of = v]
      OBVIOUS
    <2>2. row = [step |-> "begin", change |-> "delete", of |-> v, puts |-> Absent, known |-> FALSE,
                 seen |-> {}, artistSeen |-> {}]
      BY <2>1 DEF Free
    <2>3. Goes(w, row) /\ UNCHANGED <<Unwritten, met>>
      BY <1>3, <2>1 DEF DeleteReview
    <2> QED BY <1>1, <2>2, <2>3, NothingIsBare DEF Changes
  <1>4. ASSUME NEW change \in {"hide", "show"}, SetReviewVisibility(w, v, change) PROVE ReviewsInv'
    <2>1. PICK row : row = [Free EXCEPT !.step = "begin", !.change = change, !.of = v]
      OBVIOUS
    <2>2. row = [step |-> "begin", change |-> change, of |-> v, puts |-> Absent, known |-> FALSE,
                 seen |-> {}, artistSeen |-> {}]
      BY <2>1 DEF Free
    <2>3. Goes(w, row) /\ UNCHANGED <<Unwritten, met>>
      BY <1>4, <2>1 DEF SetReviewVisibility
    <2> QED BY <1>1, <2>2, <2>3, NothingIsBare DEF Changes
  <1> QED BY <1>2, <1>3, <1>4

LEMMA LeavesOK ==
  ASSUME ReviewsInv, NEW w \in Writer, Goes(w, Free), UNCHANGED <<Unwritten, met>>
  PROVE  ReviewsInv'
  BY NothingIsBare, WriterGoesOn DEF Free

\* A transaction begins: it and all that are under way have met.
LEMMA BeginsOK ==
  ASSUME ReviewsInv, NEW w \in Writer, NEW row \in WriterRow, Goes(w, row), Meets(w),
         UNCHANGED Unwritten, ~InTransaction(w),
         row.step \in {"write", "artist"}, row.of \in Visit, Bare(row.puts),
         ~row.known => [review EXCEPT ![row.of] = row.puts] = review
  PROVE  ReviewsInv'
  <1>1. /\ writer' \in [Writer -> WriterRow] /\ writer'[w] = row
        /\ \A x \in Writer : x # w => writer'[x] = writer[x]
    BY GoesTyped
  <1>2. UNCHANGED <<server, review, artistMean, storeMean>>
    BY DEF Unwritten
  <1>3. /\ met' \in [Writer -> BOOLEAN]
        /\ met'[w] = \E y \in Writer \ {w} : InTransaction(y)
        /\ \A x \in Writer : x # w => met'[x] = (met[x] \/ InTransaction(x))
    BY DEF ReviewsInv, ReviewsTypeOK, Meets
  <1>4. ReviewsTypeOK' /\ \A v \in Visit : Bare(review[v])'
    BY <1>1, <1>2, <1>3 DEF ReviewsInv, ReviewsTypeOK, Bare
  <1>5. \A x \in Writer : x # w => InTransaction(x)' = InTransaction(x)
    BY <1>1 DEF InTransaction
  <1>6. Alone'
    BY <1>3, <1>5 DEF Alone
  <1>7. Counts(w)' /\ Errand(w)'
    BY <1>1, <1>2 DEF Counts, Errand, Bare, InTransaction, SeenBy
  <1>8. ASSUME NEW x \in Writer, x # w
        PROVE  Counts(x)' /\ Errand(x)'
    <2>1. writer'[x] = writer[x]
      BY <1>1, <1>8
    <2>2. Errand(x)'
      BY <2>1 DEF ReviewsInv, Errand, Bare
    <2>3. ~InTransaction(x)' \/ met'[x]
      BY <1>3, <1>5, <1>8
    <2>4. Counts(x)'
      BY <2>3 DEF Counts
    <2> QED BY <2>2, <2>4
  <1> QED BY <1>4, <1>6, <1>7, <1>8 DEF ReviewsInv

LEMMA FindStoreOK ==
  ASSUME ReviewsInv, NEW w \in Writer, FindStore(w)
  PROVE  ReviewsInv'
  <1>1. PICK old \in WriterRow : old = writer[w]
    BY DEF ReviewsInv, ReviewsTypeOK
  <1>2. PICK known \in BOOLEAN : known = StoreIDForReview(review[old.of], Absent)
    BY DEF StoreIDForReview
  <1>3. PICK row : row = [old EXCEPT !.step = "write", !.known = known]
    OBVIOUS
  <1>4. row = [step |-> "write", change |-> old.change, of |-> old.of, puts |-> old.puts,
               known |-> known, seen |-> old.seen, artistSeen |-> old.artistSeen]
    BY <1>3 DEF WriterRow
  <1>5. row \in WriterRow
    BY <1>4 DEF WriterRow, WriterSteps
  <1>6. Goes(w, row) /\ Meets(w) /\ UNCHANGED Unwritten /\ ~InTransaction(w)
    BY <1>1, <1>2, <1>3 DEF FindStore, AtStep, InTransaction
  <1>7. old.of \in Visit /\ old.puts = Absent
    BY <1>1 DEF FindStore, AtStep, ReviewsInv, Errand
  <1>8. ~known => [review EXCEPT ![old.of] = Absent] = review
    <2>1. ~known => review[old.of] = Absent
      BY <1>2, <1>7 DEF StoreIDForReview, ReviewsInv, Bare
    <2> QED BY <1>7, <2>1 DEF ReviewsInv, ReviewsTypeOK
  <1> QED BY <1>4, <1>5, <1>6, <1>7, <1>8, NothingIsBare, BeginsOK

LEMMA WriteReviewOK ==
  ASSUME ReviewsInv, NEW w \in Writer, WriteReview(w)
  PROVE  ReviewsInv'
  <1>1. PICK old \in WriterRow : old = writer[w]
    BY DEF ReviewsInv, ReviewsTypeOK
  <1>2. old.of \in Visit /\ Bare(old.puts) /\ ~InTransaction(w)
    BY <1>1 DEF WriteReview, AtStep, ReviewsInv, Errand, InTransaction
  <1>3. PICK is \in ReviewRow : is = review[old.of] /\ Bare(is)
    BY <1>2 DEF ReviewsInv, ReviewsTypeOK
  <1>4. PICK left : left = RowAfter(is, old.change, old.puts)
    OBVIOUS
  <1>5. left \in ReviewRow /\ Bare(left) /\ (left.state = "none" /\ old.change # "create" => is = Absent)
    <2>1. PICK s \in {"hidden", "visible"} : s = IF old.change = "hide" THEN "hidden" ELSE "visible"
      OBVIOUS
    <2>2. PICK new : new = [is EXCEPT !.state = s]
      OBVIOUS
    <2>3. new = [state |-> s, venue |-> is.venue]
      BY <2>2 DEF ReviewRow
    <2>4. new \in ReviewRow /\ Bare(new) /\ new.state = s
      BY <2>3 DEF ReviewRow, Bare
    <2>5. old.puts \in ReviewRow
      BY DEF WriterRow
    <2>6. CASE old.change = "create"
      BY <1>2, <1>4, <2>5, <2>6 DEF RowAfter
    <2>7. CASE old.change # "create" /\ is.state = "none"
      BY <1>3, <1>4, <2>7, NothingIsBare DEF RowAfter, Bare
    <2>8. CASE old.change # "create" /\ is.state # "none"
      <3>1. left = new
        BY <1>4, <2>1, <2>2, <2>8 DEF RowAfter
      <3> QED BY <2>4, <3>1
    <2> QED BY <2>6, <2>7, <2>8
  <1>6. CASE old.change = "create" /\ is.state # "none"
    <2>1. Goes(w, Free) /\ UNCHANGED <<Unwritten, met>>
      BY <1>1, <1>3, <1>6 DEF WriteReview
    <2> QED BY <2>1, LeavesOK
  <1>7. CASE ~(old.change = "create" /\ is.state # "none")
    <2>1. PICK known \in BOOLEAN : known = StoreIDForReview(is, left)
      BY DEF StoreIDForReview
    <2>2. PICK row : row = [old EXCEPT !.step = "artist", !.puts = left, !.known = known]
      OBVIOUS
    <2>3. row = [step |-> "artist", change |-> old.change, of |-> old.of, puts |-> left,
                 known |-> known, seen |-> old.seen, artistSeen |-> old.artistSeen]
      BY <2>2 DEF WriterRow
    <2>4. row \in WriterRow
      BY <1>5, <2>3 DEF WriterRow, WriterSteps
    <2>5. Goes(w, row) /\ Meets(w) /\ UNCHANGED Unwritten
      BY <1>1, <1>3, <1>4, <1>7, <2>1, <2>2 DEF WriteReview
    <2>6. ~known => [review EXCEPT ![old.of] = left] = review
      <3>1. ~known => left = Absent /\ is = Absent
        BY <1>3, <1>5, <2>1 DEF StoreIDForReview, Bare
      <3> QED BY <1>2, <1>3, <3>1 DEF ReviewsInv, ReviewsTypeOK
    <2> QED BY <1>2, <1>5, <2>3, <2>4, <2>5, <2>6, BeginsOK
  <1> QED BY <1>6, <1>7

\* Within a transaction: a step on, what is counted counted, the rest kept.
LEMMA StatementOK ==
  ASSUME ReviewsInv, NEW w \in Writer, NEW old \in WriterRow, old = writer[w], InTransaction(w),
         NEW step \in {"artist", "artistLock", "store", "storeLock", "commit"},
         NEW seen \in SUBSET Visit, NEW artistSeen \in SUBSET Visit, NEW row, Goes(w, row),
         row = [step |-> step, change |-> old.change, of |-> old.of, puts |-> old.puts,
                known |-> old.known, seen |-> seen, artistSeen |-> artistSeen],
         UNCHANGED <<Unwritten, met>>,
         ~met[w] /\ step # "artist" => artistSeen = ShownOf(SeenBy(w), server[old.of]),
         ~met[w] /\ step \in {"storeLock", "commit"} /\ old.known => seen = Answered(SeenBy(w))
  PROVE  ReviewsInv'
  <1>1. row \in WriterRow
    BY DEF WriterRow, WriterSteps
  <1>2. old.of \in Visit /\ Bare(old.puts) /\ Counts(w)
    BY DEF ReviewsInv, Errand, InTransaction
  <1>3. [review EXCEPT ![old.of] = old.puts] = SeenBy(w)
    BY DEF SeenBy
  <1>4. ~met[w] /\ ~old.known => SeenBy(w) = review
    BY <1>2 DEF Counts
  <1> QED BY <1>1, <1>2, <1>3, <1>4, WriterGoesOn

LEMMA StatementsOK ==
  ASSUME ReviewsInv, NEW w \in Writer,
         \/ DeleteRow(w) \/ RecomputeArtistRating(w) \/ LockArtist(w)
         \/ RecomputeStoreRating(w) \/ LockStore(w)
  PROVE  ReviewsInv'
  <1>1. PICK old \in WriterRow : old = writer[w]
    BY DEF ReviewsInv, ReviewsTypeOK
  <1>2. /\ old.seen \in SUBSET Visit /\ old.artistSeen \in SUBSET Visit
        /\ UNCHANGED <<Unwritten, met>> /\ InTransaction(w) /\ Counts(w)
    BY <1>1 DEF WriterRow, DeleteRow, RecomputeArtistRating, LockArtist, RecomputeStoreRating,
                LockStore, AtStep, InTransaction, ReviewsInv
  <1>3. CASE DeleteRow(w)
    <2>1. PICK row : row = [old EXCEPT !.step = "artist"]
      OBVIOUS
    <2>2. row = [step |-> "artist", change |-> old.change, of |-> old.of, puts |-> old.puts,
                 known |-> old.known, seen |-> old.seen, artistSeen |-> old.artistSeen]
      BY <2>1 DEF WriterRow
    <2>3. Goes(w, row)
      BY <1>1, <1>3, <2>1 DEF DeleteRow
    <2> QED BY <1>1, <1>2, <2>2, <2>3, StatementOK
  <1>4. CASE RecomputeArtistRating(w)
    <2>1. PICK shown \in SUBSET Visit : shown = ShownOf(SeenBy(w), server[old.of])
      BY DEF ShownOf, Shown
    <2>2. PICK row : row = [old EXCEPT !.step = "artistLock", !.artistSeen = shown]
      OBVIOUS
    <2>3. row = [step |-> "artistLock", change |-> old.change, of |-> old.of, puts |-> old.puts,
                 known |-> old.known, seen |-> old.seen, artistSeen |-> shown]
      BY <2>2 DEF WriterRow
    <2>4. Goes(w, row)
      BY <1>1, <1>4, <2>1, <2>2 DEF RecomputeArtistRating
    <2> QED BY <1>1, <1>2, <2>1, <2>3, <2>4, StatementOK
  <1>5. CASE LockArtist(w)
    <2>1. PICK step \in {"store", "commit"} : step = IF old.known THEN "store" ELSE "commit"
      OBVIOUS
    <2>2. PICK row : row = [old EXCEPT !.step = step]
      OBVIOUS
    <2>3. row = [step |-> step, change |-> old.change, of |-> old.of, puts |-> old.puts,
                 known |-> old.known, seen |-> old.seen, artistSeen |-> old.artistSeen]
      BY <2>2 DEF WriterRow
    <2>4. Goes(w, row)
      BY <1>1, <1>5, <2>1, <2>2 DEF LockArtist
    <2>5. ~met[w] => old.artistSeen = ShownOf(SeenBy(w), server[old.of])
      BY <1>1, <1>2, <1>5 DEF LockArtist, AtStep, Counts
    <2> QED BY <1>1, <1>2, <2>1, <2>3, <2>4, <2>5, StatementOK
  <1>6. CASE RecomputeStoreRating(w)
    <2>1. PICK seen \in SUBSET Visit : seen = Answered(SeenBy(w))
      BY DEF Answered, Shown
    <2>2. PICK row : row = [old EXCEPT !.step = "storeLock", !.seen = seen]
      OBVIOUS
    <2>3. row = [step |-> "storeLock", change |-> old.change, of |-> old.of, puts |-> old.puts,
                 known |-> old.known, seen |-> seen, artistSeen |-> old.artistSeen]
      BY <2>2 DEF WriterRow
    <2>4. Goes(w, row)
      BY <1>1, <1>6, <2>1, <2>2 DEF RecomputeStoreRating
    <2>5. ~met[w] => old.artistSeen = ShownOf(SeenBy(w), server[old.of])
      BY <1>1, <1>2, <1>6 DEF RecomputeStoreRating, AtStep, Counts
    <2> QED BY <1>1, <1>2, <2>1, <2>3, <2>4, <2>5, StatementOK
  <1>7. CASE LockStore(w)
    <2>1. PICK row : row = [old EXCEPT !.step = "commit"]
      OBVIOUS
    <2>2. row = [step |-> "commit", change |-> old.change, of |-> old.of, puts |-> old.puts,
                 known |-> old.known, seen |-> old.seen, artistSeen |-> old.artistSeen]
      BY <2>1 DEF WriterRow
    <2>3. Goes(w, row)
      BY <1>1, <1>7, <2>1 DEF LockStore
    <2>4. /\ ~met[w] => old.artistSeen = ShownOf(SeenBy(w), server[old.of])
          /\ ~met[w] /\ old.known => old.seen = Answered(SeenBy(w))
      BY <1>1, <1>2, <1>7 DEF LockStore, AtStep, Counts
    <2> QED BY <1>1, <1>2, <2>2, <2>3, <2>4, StatementOK
  <1> QED BY <1>3, <1>4, <1>5, <1>6, <1>7

\* Whoever is under way while another commits has met it.
LEMMA CommitOK ==
  ASSUME ReviewsInv, NEW w \in Writer, Commit(w)
  PROVE  ReviewsInv'
  <1>1. PICK old \in WriterRow : old = writer[w]
    BY DEF ReviewsInv, ReviewsTypeOK
  <1>2. old.of \in Visit /\ Bare(old.puts) /\ InTransaction(w)
    BY <1>1 DEF Commit, AtStep, ReviewsInv, Errand, InTransaction
  <1>3. old.puts \in ReviewRow /\ old.seen \in SUBSET Visit /\ old.artistSeen \in SUBSET Visit
    BY DEF WriterRow
  <1>4. /\ writer' \in [Writer -> WriterRow] /\ writer'[w] = Free
        /\ \A x \in Writer : x # w => writer'[x] = writer[x]
    BY NothingIsBare, GoesTyped DEF Commit
  <1>5. review' = [review EXCEPT ![old.of] = old.puts] /\ UNCHANGED <<server, met>>
    BY <1>1 DEF Commit, SeenBy
  <1>6. review' \in [Visit -> ReviewRow] /\ \A v \in Visit : Bare(review'[v])
    BY <1>2, <1>3, <1>5 DEF ReviewsInv, ReviewsTypeOK
  <1>7. artistMean' \in [Artist -> SUBSET Visit] /\ storeMean' \in SUBSET Visit
    BY <1>1, <1>3 DEF Commit, ReviewsInv, ReviewsTypeOK
  <1>8. ReviewsTypeOK'
    BY <1>4, <1>5, <1>6, <1>7 DEF ReviewsInv, ReviewsTypeOK
  <1>9. \A x \in Writer : InTransaction(x)' => InTransaction(x) /\ x # w
    BY <1>4 DEF InTransaction, Free
  <1>10. Alone'
    BY <1>5, <1>9 DEF ReviewsInv, Alone
  <1>11. ASSUME NEW x \in Writer PROVE Counts(x)' /\ Errand(x)'
    <2>1. CASE x = w
      <3>1. ~InTransaction(x)'
        BY <1>9, <2>1
      <3> QED BY <1>4, <2>1, <3>1, NothingIsBare DEF Counts, Errand, Free
    <2>2. CASE x # w
      <3>1. writer'[x] = writer[x]
        BY <1>4, <2>2
      <3>2. Errand(x)'
        BY <3>1 DEF ReviewsInv, Errand, Bare
      <3>3. ~InTransaction(x)' \/ met'[x]
        BY <1>2, <1>5, <1>9, <2>2 DEF ReviewsInv, Alone
      <3>4. Counts(x)'
        BY <3>3 DEF Counts
      <3> QED BY <3>2, <3>4
    <2> QED BY <2>1, <2>2
  <1> QED BY <1>6, <1>8, <1>10, <1>11 DEF ReviewsInv

LEMMA ReviewsStep == ReviewsInv /\ [ReviewsNext]_reviewVars => ReviewsInv'
  <1> SUFFICES ASSUME ReviewsInv, [ReviewsNext]_reviewVars PROVE ReviewsInv'
    OBVIOUS
  <1>1. CASE UNCHANGED reviewVars
    <2>1. UNCHANGED <<server, review, artistMean, storeMean, writer, met>>
      BY <1>1 DEF reviewVars
    <2>2. ReviewsTypeOK' /\ Alone'
      BY <2>1 DEF ReviewsInv, ReviewsTypeOK, Alone, InTransaction
    <2>3. \A w \in Writer : Counts(w)' /\ Errand(w)'
      BY <2>1 DEF ReviewsInv, Counts, Errand, Bare, InTransaction, SeenBy, ShownOf, Shown, Answered
    <2>4. \A v \in Visit : Bare(review[v])'
      BY <2>1 DEF ReviewsInv, Bare
    <2> QED BY <2>2, <2>3, <2>4 DEF ReviewsInv
  <1>2. ASSUME NEW w \in Writer, ReviewStep(w) PROVE ReviewsInv'
    <2>1. CASE Rollback(w)
      BY <2>1, LeavesOK DEF Rollback
    <2> QED BY <1>2, <2>1, ChecksOK, FindStoreOK, WriteReviewOK, StatementsOK, CommitOK
            DEF ReviewStep
  <1> QED BY <1>1, <1>2 DEF ReviewsNext

LEMMA ReviewsStart == ReviewsInit => ReviewsInv
  <1> SUFFICES ASSUME ReviewsInit PROVE ReviewsInv
    OBVIOUS
  <1>1. ReviewsTypeOK /\ \A v \in Visit : Bare(review[v])
    BY NothingIsBare DEF ReviewsInit, ReviewsTypeOK
  <1>2. \A w \in Writer : ~InTransaction(w) /\ Errand(w)
    BY NothingIsBare DEF ReviewsInit, InTransaction, Errand, Free
  <1>3. Alone /\ \A w \in Writer : Counts(w)
    BY <1>2 DEF Alone, Counts
  <1> QED BY <1>1, <1>2, <1>3 DEF ReviewsInv

LEMMA ReviewsHold == ReviewsSpec => []ReviewsInv
  BY ReviewsStart, ReviewsStep, PTL DEF ReviewsSpec

\* The reviews, the averages and the requests keep their shape.
THEOREM ReviewsTyped == ReviewsSpec => []ReviewsTypeOK
  <1>1. ReviewsInv => ReviewsTypeOK
    BY DEF ReviewsInv
  <1> QED BY <1>1, ReviewsHold, PTL

\* A change of a review that meets no other leaves both averages over exactly
\* the reviews that show.
THEOREM RecountsAreExact == ReviewsSpec => RecountIsExact
  <1> DEFINE Exact ==
        \A w \in Writer :
          AtStep(w, "commit") /\ writer'[w].step = "idle" /\ ~met[w] /\ review' # review
          => /\ artistMean'[server[writer[w].of]] = ShownOf(review', server[writer[w].of])
             /\ storeMean' = Answered(review')
  <1>1. ASSUME ReviewsInv, [ReviewsNext]_reviewVars, NEW w \in Writer,
               AtStep(w, "commit"), writer'[w].step = "idle", ~met[w], review' # review
        PROVE  /\ artistMean'[server[writer[w].of]] = ShownOf(review', server[writer[w].of])
               /\ storeMean' = Answered(review')
    <2>1. PICK x \in Writer : Commit(x)
      BY <1>1 DEF ReviewsNext, reviewVars, ReviewStep, CreateReview, DeleteReview, SetReviewVisibility,
              FindStore, DeleteRow, WriteReview, RecomputeArtistRating, LockArtist,
              RecomputeStoreRating, LockStore, Rollback, Unwritten
    <2>2. x = w
      BY <1>1, <2>1 DEF Commit, Goes, AtStep, ReviewsInv, ReviewsTypeOK
    <2>3. review' = SeenBy(w)
      BY <2>1, <2>2 DEF Commit
    <2>4. InTransaction(w) /\ writer[w].of \in Visit
      BY <1>1 DEF AtStep, InTransaction, ReviewsInv, Errand
    <2>5. /\ writer[w].artistSeen = ShownOf(SeenBy(w), server[writer[w].of])
          /\ writer[w].known => writer[w].seen = Answered(SeenBy(w))
          /\ writer[w].known
      BY <1>1, <2>3, <2>4 DEF ReviewsInv, Counts, AtStep
    <2>6. storeMean' = Answered(review')
      BY <2>1, <2>2, <2>3, <2>5 DEF Commit
    <2>7. artistMean'[server[writer[w].of]] = writer[w].artistSeen
      BY <1>1, <2>1, <2>2, <2>4 DEF Commit, ReviewsInv, ReviewsTypeOK
    <2> QED BY <2>3, <2>5, <2>6, <2>7
  <1>2. ReviewsInv /\ [ReviewsNext]_reviewVars => [Exact]_reviewVars
    BY <1>1
  <1> QED BY <1>2, ReviewsHold, PTL DEF ReviewsSpec, RecountIsExact

-----------------------------------------------------------------------------
(* The reminders.  What is waiting was judged by the last sweep, so a row  *)
(* can be stale only for a booking that changed since (WaitingIsFresh);    *)
(* the sweep of the last unit before a reminder is due finds its booking   *)
(* settled and leaves a row for it (LastSweepInserts), which nothing       *)
(* withdraws any more (DueIsThere).                                        *)

\* Only a recorded failure makes a row failed.
FailedCounted == \A r \in Reminder : reminder[r].status = "failed" => reminder[r].attempts > 0

\* What is in hand was claimed.
ClaimsAreTries == \A claim \in hand : claim.row \in tried

\* What was never claimed has no outcome.
UntriedWaits == \A r \in Reminder : r \notin tried => reminder[r].status \in {"none", "pending"}

Fresh(r) == booking[r[1]].status = "live" /\ reminder[r].at = Due(r[1], r[2])

\* The last sweep's judgement stands for a booking that has not changed since.
WaitingIsFresh ==
  \A r \in Reminder :
    /\ reminder[r].status = "pending"
    /\ booking[r[1]].since + 1 < now \/ (booking[r[1]].since < now /\ sweep # "due")
    => Fresh(r)

Past(kind) == IF kind = "day" THEN sweep \in {"inserted", "done"} ELSE sweep = "done"

\* The sweep of the last unit before a reminder is due.
LastSweepInserts ==
  \A r \in Reminder :
    /\ r \notin tried /\ booking[r[1]].status = "live" /\ Actionable(r[1], r[2])
    /\ booking[r[1]].since < now /\ Due(r[1], r[2]) = now + 1 /\ Past(r[2])
    => reminder[r].status # "none"

DueIsThere ==
  \A r \in Reminder :
    r \notin tried /\ Settled(r[1], r[2]) /\ now >= Due(r[1], r[2])
    => reminder[r].status # "none"

RemindersInv ==
  /\ RemindersTypeOK /\ FailedCounted /\ ClaimsAreTries /\ UntriedWaits
  /\ WaitingIsFresh /\ LastSweepInserts /\ DueIsThere /\ FirstTryIsFresh

-----------------------------------------------------------------------------

LEMMA DueIsInt ==
  ASSUME NEW s \in Nat
  PROVE  /\ MorningSchedule(s) \in Int
         /\ s - Lead \in Int
         /\ s - MorningSchedule(s) < Day
  BY ReminderParameters DEF MorningSchedule

LEMMA DueType ==
  ASSUME RemindersTypeOK, NEW r \in Reminder
  PROVE  /\ Due(r[1], r[2]) \in Int
         /\ booking[r[1]].start - Due(r[1], r[2]) + 1 < Ahead
  <1>1. r[1] \in Booking /\ r[2] \in Kinds /\ booking[r[1]].start \in Nat
    BY DEF Reminder, RemindersTypeOK, Booked
  <1>2. CASE r[2] = "day"
    BY <1>1, <1>2, ReminderParameters DEF Due
  <1>3. CASE r[2] # "day"
    BY <1>1, <1>3, DueIsInt, ReminderParameters DEF Due
  <1> QED BY <1>2, <1>3

\* The same of the next state.
LEMMA DueTypeNext ==
  ASSUME RemindersTypeOK', NEW r \in Reminder
  PROVE  Due(r[1], r[2])' \in Int
  <1>1. r[1] \in Booking /\ booking'[r[1]].start \in Nat
    BY DEF Reminder, RemindersTypeOK, Booked
  <1> QED BY <1>1, DueIsInt, ReminderParameters DEF Due

LEMMA RowType ==
  ASSUME RemindersTypeOK, NEW r \in Reminder
  PROVE  /\ r[1] \in Booking /\ r[2] \in Kinds /\ r = <<r[1], r[2]>>
         /\ booking[r[1]] \in Booked /\ reminder[r] \in ReminderRow
  BY DEF Reminder, RemindersTypeOK

LEMMA RemindersStart == RemindersInit => RemindersInv
  <1> SUFFICES ASSUME RemindersInit PROVE RemindersInv
    OBVIOUS
  <1>1. RemindersTypeOK
    BY ReminderParameters DEF RemindersInit, RemindersTypeOK, Booked, ReminderRow
  <1>2. FailedCounted /\ ClaimsAreTries /\ UntriedWaits /\ WaitingIsFresh /\ FirstTryIsFresh
    BY DEF RemindersInit, FailedCounted, ClaimsAreTries, UntriedWaits, WaitingIsFresh,
           FirstTryIsFresh
  <1>3. LastSweepInserts /\ DueIsThere
    BY DEF RemindersInit, LastSweepInserts, DueIsThere, Settled, Reminder
  <1> QED BY <1>1, <1>2, <1>3 DEF RemindersInv

-----------------------------------------------------------------------------
(* The calendar: what changes has changed now, so no sweep has judged it.  *)

LEMMA BecomesOK ==
  ASSUME RemindersInv, NEW b \in Booking, NEW status \in {"live", "over"}, NEW s \in Nat,
         Becomes(b, status, s), moves' \in [Booking -> 0..MaxMoves]
  PROVE  RemindersInv'
  <1>1. /\ now \in 0..MaxTime /\ now' = now /\ reminder' = reminder /\ sweep' = sweep
        /\ hand' = hand /\ tried' = tried
    BY DEF RemindersInv, RemindersTypeOK, Becomes
  <1>2. booking' = [booking EXCEPT ![b] = [status |-> status, start |-> s, since |-> now]]
    BY DEF Becomes
  <1>3. RemindersTypeOK'
    BY <1>1, <1>2 DEF RemindersInv, RemindersTypeOK, Booked
  <1>4. booking'[b].since = now'
    BY <1>1, <1>2 DEF RemindersInv, RemindersTypeOK
  <1>5. \A c \in Booking : c # b => booking'[c] = booking[c]
    BY <1>2 DEF RemindersInv, RemindersTypeOK
  <1>6. FailedCounted' /\ ClaimsAreTries' /\ UntriedWaits'
    BY <1>1 DEF RemindersInv, FailedCounted, ClaimsAreTries, UntriedWaits
  <1>7. \A r \in Reminder : r[1] \in Booking /\ r[2] \in Kinds
    BY DEF Reminder
  <1>8. WaitingIsFresh'
    <2> SUFFICES ASSUME NEW r \in Reminder, reminder'[r].status = "pending",
                        booking'[r[1]].since + 1 < now' \/ (booking'[r[1]].since < now' /\ sweep' # "due")
                 PROVE  Fresh(r)'
      BY DEF WaitingIsFresh
    <2>1. r[1] # b
      BY <1>1, <1>4
    <2>2. booking'[r[1]] = booking[r[1]]
      BY <2>1, <1>5, <1>7
    <2>3. Fresh(r)
      BY <2>2, <1>1 DEF RemindersInv, WaitingIsFresh
    <2> QED BY <2>2, <2>3, <1>1 DEF Fresh, Due
  <1>9. LastSweepInserts'
    <2> SUFFICES ASSUME NEW r \in Reminder,
                        r \notin tried', booking'[r[1]].status = "live", Actionable(r[1], r[2])',
                        booking'[r[1]].since < now', Due(r[1], r[2])' = now' + 1, Past(r[2])'
                 PROVE  reminder'[r].status # "none"
      BY DEF LastSweepInserts
    <2>1. r[1] # b
      BY <1>1, <1>4
    <2>2. booking'[r[1]] = booking[r[1]]
      BY <2>1, <1>5, <1>7
    <2>3. Actionable(r[1], r[2]) /\ Due(r[1], r[2]) = now + 1 /\ Past(r[2])
      BY <2>2, <1>1 DEF Actionable, Due, Past
    <2> QED BY <2>2, <2>3, <1>1 DEF RemindersInv, LastSweepInserts
  <1>10. DueIsThere'
    <2> SUFFICES ASSUME NEW r \in Reminder,
                        r \notin tried', Settled(r[1], r[2])', now' >= Due(r[1], r[2])'
                 PROVE  reminder'[r].status # "none"
      BY DEF DueIsThere
    <2>0. Due(r[1], r[2])' \in Int
      BY <1>3, DueTypeNext
    <2>1. r[1] # b
      BY <1>1, <1>4, <2>0 DEF Settled
    <2>2. booking'[r[1]] = booking[r[1]]
      BY <2>1, <1>5, <1>7
    <2>3. Settled(r[1], r[2]) /\ now >= Due(r[1], r[2])
      BY <2>2, <1>1 DEF Settled, Actionable, Due
    <2> QED BY <2>3, <1>1 DEF RemindersInv, DueIsThere
  <1>11. FirstTryIsFresh'
    <2> SUFFICES ASSUME NEW claim \in hand', claim.attempts = 0,
                        booking'[claim.row[1]].since + 1 < now'
                 PROVE  booking'[claim.row[1]].status = "live"
                          /\ claim.at = Due(claim.row[1], claim.row[2])'
      BY DEF FirstTryIsFresh
    <2>1. claim \in hand /\ claim.row \in Reminder
      BY <1>1 DEF RemindersInv, RemindersTypeOK
    <2>2. claim.row[1] # b
      BY <1>1, <1>4
    <2>3. booking'[claim.row[1]] = booking[claim.row[1]]
      BY <2>1, <2>2, <1>5, <1>7
    <2> QED BY <2>1, <2>3, <1>1 DEF RemindersInv, FirstTryIsFresh, Due
  <1> QED BY <1>3, <1>6, <1>8, <1>9, <1>10, <1>11 DEF RemindersInv

-----------------------------------------------------------------------------
(* The sweep.                                                              *)

\* A step that leaves the calendar, the clock and the claims alone keeps what
\* is said of the claims.
LEMMA ClaimsStay ==
  ASSUME RemindersInv, UNCHANGED <<now, booking, hand, tried>>
  PROVE  ClaimsAreTries' /\ FirstTryIsFresh'
  BY DEF RemindersInv, ClaimsAreTries, FirstTryIsFresh, Due

LEMMA WithdrawOK == RemindersInv /\ WithdrawStale => RemindersInv'
  <1> SUFFICES ASSUME RemindersInv, WithdrawStale PROVE RemindersInv'
    OBVIOUS
  <1>1. /\ sweep = "due" /\ sweep' = "withdrawn" /\ now' = now /\ booking' = booking
        /\ hand' = hand /\ moves' = moves /\ tried' = tried
        /\ reminder' = [r \in Reminder |->
             IF Stale(r) THEN [reminder[r] EXCEPT !.status = "none"] ELSE reminder[r]]
    BY DEF WithdrawStale, Withdrawn
  <1>2. RemindersTypeOK'
    BY <1>1 DEF RemindersInv, RemindersTypeOK, ReminderRow
  <1>3. \A r \in Reminder :
          /\ Stale(r) => reminder'[r].status = "none"
          /\ ~Stale(r) => reminder'[r] = reminder[r]
    BY <1>1 DEF RemindersInv, RemindersTypeOK, ReminderRow
  <1>4. FailedCounted' /\ UntriedWaits'
    BY <1>1, <1>3 DEF RemindersInv, FailedCounted, UntriedWaits
  <1>5. WaitingIsFresh'
    BY <1>1, <1>3 DEF WaitingIsFresh, Fresh, Stale, Due
  <1>6. LastSweepInserts'
    BY <1>1 DEF LastSweepInserts, Past
  <1>7. DueIsThere'
    <2> SUFFICES ASSUME NEW r \in Reminder,
                        r \notin tried, Settled(r[1], r[2]), now >= Due(r[1], r[2])
                 PROVE  reminder'[r].status # "none"
      BY <1>1 DEF DueIsThere, Settled, Actionable, Due
    <2>1. Due(r[1], r[2]) \in Int /\ booking[r[1]].since \in Int /\ now \in Int
      BY DueType, RowType DEF RemindersInv, RemindersTypeOK, Booked
    <2>2. booking[r[1]].since + 1 < now
      BY <2>1 DEF Settled
    <2>3. reminder[r].status \in {"none", "pending"} /\ reminder[r].status # "none"
      BY DEF RemindersInv, UntriedWaits, DueIsThere
    <2>4. ~Stale(r)
      BY <2>2, <2>3 DEF RemindersInv, WaitingIsFresh, Fresh, Stale
    <2> QED BY <2>3, <2>4, <1>3
  <1> QED BY <1>1, <1>2, <1>4, <1>5, <1>6, <1>7, ClaimsStay DEF RemindersInv

\* After an INSERT of one kind every row of that kind that is wanted is there.
LEMMA InsertLeaves ==
  ASSUME RemindersTypeOK, NEW kind \in Kinds, Insert(kind), UNCHANGED booking
  PROVE  /\ reminder' \in [Reminder -> ReminderRow]
         /\ \A r \in Reminder :
              \/ reminder'[r] = reminder[r]
                   /\ (r[2] = kind /\ Wanted(r[1], kind) => reminder[r].status # "none")
              \/ /\ reminder[r].status = "none" /\ r[2] = kind /\ Wanted(r[1], kind)
                 /\ reminder'[r].status = "pending" /\ Fresh(r)'
  <1>1. reminder' = [r \in Reminder |->
          IF r[2] = kind /\ Wanted(r[1], kind) /\ reminder[r].status = "none"
          THEN [status |-> "pending", at |-> Due(r[1], kind), attempts |-> 0,
                id |-> reminder[r].id + 1]
          ELSE reminder[r]]
    BY DEF Insert
  <1>2. \A r \in Reminder : Due(r[1], r[2]) \in Int /\ reminder[r].id + 1 \in Nat
    BY DueType DEF RemindersTypeOK, ReminderRow
  <1>3. reminder' \in [Reminder -> ReminderRow]
    BY <1>1, <1>2, ReminderParameters DEF RemindersTypeOK, ReminderRow
  <1>4. ASSUME NEW r \in Reminder,
               r[2] = kind, Wanted(r[1], kind), reminder[r].status = "none"
        PROVE  reminder'[r].status = "pending" /\ Fresh(r)'
    BY <1>1, <1>4 DEF Fresh, Due, Wanted
  <1>5. ASSUME NEW r \in Reminder,
               ~(r[2] = kind /\ Wanted(r[1], kind) /\ reminder[r].status = "none")
        PROVE  reminder'[r] = reminder[r]
    BY <1>1, <1>5
  <1> QED BY <1>3, <1>4, <1>5

LEMMA InsertOK ==
  ASSUME RemindersInv, NEW kind \in Kinds, Insert(kind), sweep # "due",
         sweep' = IF kind = "day" THEN "inserted" ELSE "done",
         kind = "morning" => sweep = "inserted",
         UNCHANGED <<now, booking, hand, moves, tried>>
  PROVE  RemindersInv'
  <1>0. kind \in {"day", "morning"} /\ RemindersTypeOK
    BY DEF Kinds, RemindersInv
  <1>1. reminder' \in [Reminder -> ReminderRow]
    BY <1>0, InsertLeaves
  <1>2. \A r \in Reminder :
          \/ reminder'[r] = reminder[r]
               /\ (r[2] = kind /\ Wanted(r[1], kind) => reminder[r].status # "none")
          \/ /\ reminder[r].status = "none" /\ r[2] = kind /\ Wanted(r[1], kind)
             /\ reminder'[r].status = "pending" /\ Fresh(r)'
    BY <1>0, InsertLeaves
  <1>3. RemindersTypeOK'
    BY <1>0, <1>1 DEF RemindersTypeOK
  <1>4. FailedCounted' /\ UntriedWaits'
    BY <1>2 DEF RemindersInv, FailedCounted, UntriedWaits
  <1>5. WaitingIsFresh'
    <2> SUFFICES ASSUME NEW r \in Reminder, reminder'[r].status = "pending",
                        booking[r[1]].since + 1 < now \/ booking[r[1]].since < now
                 PROVE  Fresh(r)'
      BY DEF WaitingIsFresh
    <2>1. CASE reminder'[r] = reminder[r]
      <3>1. Fresh(r)
        BY <2>1 DEF RemindersInv, WaitingIsFresh
      <3> QED BY <3>1, <2>1 DEF Fresh, Due
    <2>2. CASE reminder'[r] # reminder[r]
      BY <2>2, <1>2
    <2> QED BY <2>1, <2>2
  <1>6. LastSweepInserts'
    <2> SUFFICES ASSUME NEW r \in Reminder, r \notin tried, booking[r[1]].status = "live",
                        Actionable(r[1], r[2]), booking[r[1]].since < now,
                        Due(r[1], r[2]) = now + 1, Past(r[2])'
                 PROVE  reminder'[r].status # "none"
      BY DEF LastSweepInserts, Actionable, Due
    <2>1. r[2] \in {"day", "morning"} /\ booking[r[1]].start \in Int /\ now \in Int
      BY <1>0, RowType DEF Kinds, Booked, RemindersTypeOK
    <2>2. CASE r[2] = kind
      <3>1. booking[r[1]].start < now + Ahead
        BY <1>0, <2>1, DueType, ReminderParameters
      <3>2. Wanted(r[1], kind)
        BY <2>1, <2>2, <3>1 DEF Wanted
      <3> QED BY <2>2, <3>2, <1>2
    <2>3. CASE r[2] # kind
      <3>1. r[2] = "day" /\ kind = "morning"
        BY <1>0, <2>1, <2>3 DEF Past
      <3>2. Past(r[2])
        BY <3>1 DEF Past
      <3>3. reminder[r].status # "none"
        BY <3>2 DEF RemindersInv, LastSweepInserts
      <3> QED BY <3>3, <1>2
    <2> QED BY <2>2, <2>3
  <1>7. DueIsThere'
    BY <1>2 DEF RemindersInv, DueIsThere, Settled, Actionable, Due
  <1> QED BY <1>3, <1>4, <1>5, <1>6, <1>7, ClaimsStay DEF RemindersInv

LEMMA SweepAgainOK == RemindersInv /\ SweepAgain => RemindersInv'
  <1> SUFFICES ASSUME RemindersInv, SweepAgain PROVE RemindersInv'
    OBVIOUS
  <1>1. /\ sweep' = "due" /\ sweep # "due"
        /\ UNCHANGED <<now, booking, reminder, hand, moves, tried>>
    BY DEF SweepAgain
  <1>2. RemindersTypeOK'
    BY <1>1 DEF RemindersInv, RemindersTypeOK
  <1>3. FailedCounted' /\ UntriedWaits'
    BY <1>1 DEF RemindersInv, FailedCounted, UntriedWaits
  <1>4. WaitingIsFresh'
    BY <1>1 DEF RemindersInv, WaitingIsFresh, Fresh, Due
  <1>5. LastSweepInserts'
    BY <1>1 DEF LastSweepInserts, Past
  <1>6. DueIsThere'
    BY <1>1 DEF RemindersInv, DueIsThere, Settled, Actionable, Due
  <1> QED BY <1>1, <1>2, <1>3, <1>4, <1>5, <1>6, ClaimsStay DEF RemindersInv

-----------------------------------------------------------------------------
(* The worker.                                                             *)

LEMMA ClaimOK == ASSUME RemindersInv, NEW r \in Reminder, ClaimDue(r) PROVE RemindersInv'
  <1> DEFINE new == [row |-> r, id |-> reminder[r].id, at |-> reminder[r].at,
                     attempts |-> reminder[r].attempts]
  <1>1. /\ Ready(r) /\ hand' = hand \cup {new} /\ tried' = tried \cup {r}
        /\ UNCHANGED <<now, booking, reminder, sweep, moves>>
    BY DEF ClaimDue
  <1>2. RemindersTypeOK /\ reminder[r] \in ReminderRow
    BY DEF RemindersInv, RemindersTypeOK
  <1>3. new \in [row : Reminder, id : Nat, at : Int, attempts : 0..(MaxAttempts - 1)]
    BY <1>1, <1>2, ReminderParameters DEF Ready, ReminderRow
  <1>4. RemindersTypeOK'
    BY <1>1, <1>2, <1>3 DEF RemindersTypeOK
  <1>5. FailedCounted' /\ ClaimsAreTries' /\ UntriedWaits'
    BY <1>1 DEF RemindersInv, FailedCounted, ClaimsAreTries, UntriedWaits
  <1>6. WaitingIsFresh'
    BY <1>1 DEF RemindersInv, WaitingIsFresh, Fresh, Due
  <1>7. LastSweepInserts' /\ DueIsThere'
    BY <1>1 DEF RemindersInv, LastSweepInserts, DueIsThere, Past, Settled, Actionable, Due
  <1>8. FirstTryIsFresh'
    <2> SUFFICES ASSUME NEW claim \in hand', claim.attempts = 0,
                        booking[claim.row[1]].since + 1 < now
                 PROVE  booking[claim.row[1]].status = "live"
                          /\ claim.at = Due(claim.row[1], claim.row[2])
      BY <1>1 DEF FirstTryIsFresh, Due
    <2>1. CASE claim \in hand
      BY <2>1 DEF RemindersInv, FirstTryIsFresh
    <2>2. CASE claim = new
      <3>1. claim.row = r /\ claim.at = reminder[r].at /\ reminder[r].attempts = 0
        BY <2>2
      <3>2. reminder[r].status = "pending"
        BY <3>1, <1>1, <1>2 DEF RemindersInv, FailedCounted, Ready
      <3>3. Fresh(r)
        BY <3>1, <3>2 DEF RemindersInv, WaitingIsFresh
      <3> QED BY <3>1, <3>3 DEF Fresh
    <2> QED BY <2>1, <2>2, <1>1
  <1> QED BY <1>4, <1>5, <1>6, <1>7, <1>8 DEF RemindersInv

LEMMA RecordOK ==
  ASSUME RemindersInv, NEW claim \in hand, NEW status \in {"sent", "dead", "failed"},
         Records(claim, status), hand' = hand \ {claim},
         UNCHANGED <<now, booking, sweep, moves, tried>>
  PROVE  RemindersInv'
  <1>1. /\ RemindersTypeOK /\ claim.row \in Reminder /\ claim.row \in tried
        /\ claim.attempts \in 0..(MaxAttempts - 1)
    BY DEF RemindersInv, RemindersTypeOK, ClaimsAreTries
  <1>2. /\ reminder' \in [Reminder -> ReminderRow]
        /\ \A r \in Reminder :
             \/ reminder'[r] = reminder[r]
             \/ r = claim.row /\ reminder'[r].status = status /\ reminder'[r].attempts > 0
    <2>1. CASE reminder' = reminder
      BY <2>1, <1>1 DEF RemindersTypeOK
    <2>2. CASE reminder' = [reminder EXCEPT ![claim.row].status = status,
                                            ![claim.row].attempts = claim.attempts + 1]
      BY <2>2, <1>1, ReminderParameters DEF RemindersTypeOK, ReminderRow
    <2> QED BY <2>1, <2>2 DEF Records
  <1>3. RemindersTypeOK'
    BY <1>1, <1>2 DEF RemindersTypeOK
  <1>4. FailedCounted' /\ ClaimsAreTries' /\ UntriedWaits'
    BY <1>1, <1>2 DEF RemindersInv, FailedCounted, ClaimsAreTries, UntriedWaits
  <1>5. WaitingIsFresh'
    BY <1>2 DEF RemindersInv, WaitingIsFresh, Fresh, Due
  <1>6. LastSweepInserts' /\ DueIsThere'
    BY <1>1, <1>2 DEF RemindersInv, LastSweepInserts, DueIsThere, Past, Settled, Actionable, Due
  <1>7. FirstTryIsFresh'
    BY DEF RemindersInv, FirstTryIsFresh, Due
  <1> QED BY <1>3, <1>4, <1>5, <1>6, <1>7 DEF RemindersInv

-----------------------------------------------------------------------------
(* The clock: a whole sweep has run, and nothing is in hand.               *)

LEMMA TickOK == RemindersInv /\ Tick => RemindersInv'
  <1> SUFFICES ASSUME RemindersInv, Tick PROVE RemindersInv'
    OBVIOUS
  <1>1. /\ now < MaxTime /\ now' = now + 1 /\ sweep = "done" /\ sweep' = "due" /\ hand = {}
        /\ UNCHANGED <<booking, reminder, hand, moves, tried>>
    BY DEF Tick
  <1>2. RemindersTypeOK /\ now \in Int
    BY DEF RemindersInv, RemindersTypeOK
  <1>3. RemindersTypeOK'
    BY <1>1, <1>2, ReminderParameters DEF RemindersTypeOK
  <1>4. FailedCounted' /\ ClaimsAreTries' /\ UntriedWaits' /\ FirstTryIsFresh'
    BY <1>1 DEF RemindersInv, FailedCounted, ClaimsAreTries, UntriedWaits, FirstTryIsFresh
  <1>5. \A r \in Reminder : booking[r[1]].since \in Int /\ Due(r[1], r[2]) \in Int
    BY <1>2, DueType, RowType DEF Booked
  <1>6. WaitingIsFresh'
    <2> SUFFICES ASSUME NEW r \in Reminder, reminder[r].status = "pending",
                        booking[r[1]].since + 1 < now + 1
                 PROVE  Fresh(r)
      BY <1>1 DEF WaitingIsFresh, Fresh, Due
    <2>1. booking[r[1]].since < now
      BY <1>2, <1>5
    <2> QED BY <2>1, <1>1 DEF RemindersInv, WaitingIsFresh
  <1>7. LastSweepInserts'
    BY <1>1 DEF LastSweepInserts, Past
  <1>8. DueIsThere'
    <2> SUFFICES ASSUME NEW r \in Reminder,
                        r \notin tried, Settled(r[1], r[2]), now + 1 >= Due(r[1], r[2])
                 PROVE  reminder[r].status # "none"
      BY <1>1 DEF DueIsThere, Settled, Actionable, Due
    <2>1. CASE now >= Due(r[1], r[2])
      BY <2>1 DEF RemindersInv, DueIsThere
    <2>2. CASE ~(now >= Due(r[1], r[2]))
      <3>1. Due(r[1], r[2]) = now + 1 /\ booking[r[1]].since < now
        BY <2>2, <1>2, <1>5 DEF Settled
      <3>2. Past(r[2])
        BY <1>1 DEF Past
      <3> QED BY <3>1, <3>2 DEF RemindersInv, LastSweepInserts, Settled
    <2> QED BY <2>1, <2>2
  <1> QED BY <1>3, <1>4, <1>6, <1>7, <1>8 DEF RemindersInv

-----------------------------------------------------------------------------

LEMMA RemindersStep == RemindersInv /\ [RemindersNext]_reminderVars => RemindersInv'
  <1> SUFFICES ASSUME RemindersInv, [RemindersNext]_reminderVars PROVE RemindersInv'
    OBVIOUS
  <1>0. RemindersTypeOK
    BY DEF RemindersInv
  <1>1. ASSUME NEW b \in Booking, ApproveBooking(b) PROVE RemindersInv'
    <2>1. PICK s \in Starts : Becomes(b, "live", s)
      BY <1>1 DEF ApproveBooking
    <2>2. s \in Nat /\ moves' \in [Booking -> 0..MaxMoves]
      BY <1>0, <1>1, ReminderParameters DEF ApproveBooking, RemindersTypeOK
    <2> QED BY <2>1, <2>2, BecomesOK
  <1>2. ASSUME NEW b \in Booking, MoveBooking(b) PROVE RemindersInv'
    <2>1. PICK s \in Starts : Becomes(b, "live", s)
      BY <1>2 DEF MoveBooking
    <2>2. s \in Nat /\ moves' \in [Booking -> 0..MaxMoves]
      BY <1>0, <1>2, ReminderParameters DEF MoveBooking, RemindersTypeOK
    <2> QED BY <2>1, <2>2, BecomesOK
  <1>3. ASSUME NEW b \in Booking, EndBooking(b) PROVE RemindersInv'
    <2>1. booking[b].start \in Nat /\ moves' \in [Booking -> 0..MaxMoves]
      BY <1>0, <1>3 DEF EndBooking, RemindersTypeOK, Booked
    <2> QED BY <1>3, <2>1, BecomesOK DEF EndBooking
  <1>4. CASE InsertReminders
    <2>1. "day" \in Kinds
      BY DEF Kinds
    <2> QED BY <1>4, <2>1, InsertOK DEF InsertReminders
  <1>5. CASE SweepMorning
    <2>1. "morning" \in Kinds
      BY DEF Kinds
    <2> QED BY <1>5, <2>1, InsertOK DEF SweepMorning
  <1>6. ASSUME NEW claim \in hand, Deliver(claim) PROVE RemindersInv'
    BY <1>6, RecordOK DEF Deliver
  <1>7. ASSUME NEW claim \in hand, Refused(claim) PROVE RemindersInv'
    BY <1>7, RecordOK DEF Refused
  <1>8. CASE UNCHANGED reminderVars
    <2>1. RemindersTypeOK' /\ FailedCounted' /\ ClaimsAreTries' /\ UntriedWaits'
      BY <1>8 DEF RemindersInv, reminderVars, RemindersTypeOK, FailedCounted, ClaimsAreTries,
                  UntriedWaits
    <2>2. WaitingIsFresh' /\ LastSweepInserts' /\ DueIsThere' /\ FirstTryIsFresh'
      BY <1>8 DEF RemindersInv, reminderVars, WaitingIsFresh, LastSweepInserts, DueIsThere,
                  FirstTryIsFresh, Fresh, Past, Settled, Actionable, Due
    <2> QED BY <2>1, <2>2 DEF RemindersInv
  <1> QED
    BY <1>1, <1>2, <1>3, <1>4, <1>5, <1>6, <1>7, <1>8, WithdrawOK, SweepAgainOK, ClaimOK,
       TickOK DEF RemindersNext

LEMMA RemindersAlways == RemindersSpec => []RemindersInv
  BY RemindersStart, RemindersStep, PTL DEF RemindersSpec

\* Types: for any bookings, times and bounds, rows and claims keep their shape
\* (the rows of internal/booking/reminder_worker.go and the worker's claims).
THEOREM RemindersTyped == RemindersSpec => []RemindersTypeOK
  <1>1. RemindersInv => RemindersTypeOK
    BY DEF RemindersInv
  <1> QED BY <1>1, RemindersAlways, PTL

\* A booking that settled two units before its reminder is due has the row,
\* for the time it was last moved to, unless it was already being sent
\* (withdrawStale and the two INSERTs of sweep).
THEOREM RemindersArrive == RemindersSpec => []RemindedUntilTried
  <1>1. RemindersInv => RemindedUntilTried
    <2> SUFFICES ASSUME RemindersInv, NEW b \in Booking, NEW kind \in Kinds,
                        <<b, kind>> \notin tried, Settled(b, kind), now >= Due(b, kind)
                 PROVE  Scheduled(b, kind)
      BY DEF RemindedUntilTried
    <2> DEFINE r == <<b, kind>>
    <2>1. r \in Reminder /\ r[1] = b /\ r[2] = kind /\ RemindersTypeOK
      BY DEF Reminder, RemindersInv
    <2>2. reminder[r].status = "pending"
      BY <2>1 DEF RemindersInv, DueIsThere, UntriedWaits
    <2>3. Due(b, kind) \in Int /\ now \in Int /\ booking[b].since \in Int
      BY <2>1, DueType, RowType DEF RemindersTypeOK, Booked
    <2>4. booking[b].since + 1 < now
      BY <2>3 DEF Settled
    <2>5. Fresh(r)
      BY <2>1, <2>2, <2>4 DEF RemindersInv, WaitingIsFresh
    <2> QED BY <2>1, <2>2, <2>5 DEF Fresh, Scheduled
  <1> QED BY <1>1, RemindersAlways, PTL

\* No first attempt is for an appointment that had moved or ended by the last
\* sweep (withdrawStale).
THEOREM FirstTriesAreFresh == RemindersSpec => []FirstTryIsFresh
  <1>1. RemindersInv => FirstTryIsFresh
    BY DEF RemindersInv
  <1> QED BY <1>1, RemindersAlways, PTL

-----------------------------------------------------------------------------
(* Earnings.                                                               *)

LEMMA EarningsStart == EarningsInit => EarningsTypeOK
  BY DEF EarningsInit, EarningsTypeOK

\* A booking keeps its shape, whoever it passes to and however it ends.
LEMMA JobBecomes ==
  ASSUME EarningsTypeOK, NEW j \in Made, NEW row \in JobRow, job' = [job EXCEPT ![j] = row],
         UNCHANGED works
  PROVE  EarningsTypeOK'
  BY DEF EarningsTypeOK

LEMMA EarningsStep == EarningsTypeOK /\ [EarningsNext]_earningsVars => EarningsTypeOK'
  <1> SUFFICES ASSUME EarningsTypeOK, [EarningsNext]_earningsVars PROVE EarningsTypeOK'
    OBVIOUS
  <1>1. CASE UNCHANGED earningsVars
    BY <1>1 DEF earningsVars, EarningsTypeOK
  <1>2. ASSUME NEW j \in Job, NEW w \in Worker, NEW start \in Half, NEW cost \in Costs,
               Make(j, w, start, cost)
        PROVE  EarningsTypeOK'
    <2>1. works[w] \in Salon
      BY <1>2 DEF Make, EarningsTypeOK
    <2>2. PICK row : row = [salon |-> works[w], by |-> w, start |-> start, final |-> cost,
                            status |-> "confirmed"]
      OBVIOUS
    <2>3. row \in JobRow
      BY <2>1, <2>2 DEF JobRow
    <2> QED BY <1>2, <2>2, <2>3 DEF Make, EarningsTypeOK
  <1>3. ASSUME NEW j \in Job, NEW status \in RevenueStatuses \cup CancelledStatuses, Finish(j, status)
        PROVE  EarningsTypeOK'
    <2>1. PICK old \in JobRow : old = job[j]
      BY <1>3 DEF Finish, Made, EarningsTypeOK
    <2>2. PICK row : row = [old EXCEPT !.status = status]
      OBVIOUS
    <2>3. row = [salon |-> old.salon, by |-> old.by, start |-> old.start, final |-> old.final,
                 status |-> status]
      BY <2>2 DEF JobRow
    <2>4. row \in JobRow
      BY <2>3 DEF JobRow
    <2> QED BY <1>3, <2>1, <2>2, <2>4, JobBecomes DEF Finish, EarningsTypeOK
  <1>4. ASSUME NEW j \in Job, NEW w \in Worker, Reassign(j, w)
        PROVE  EarningsTypeOK'
    <2>1. PICK old \in JobRow : old = job[j]
      BY <1>4 DEF Reassign, Made, EarningsTypeOK
    <2>2. PICK row : row = [old EXCEPT !.by = w]
      OBVIOUS
    <2>3. row = [salon |-> old.salon, by |-> w, start |-> old.start, final |-> old.final,
                 status |-> old.status]
      BY <2>2 DEF JobRow
    <2>4. row \in JobRow
      BY <2>3 DEF JobRow
    <2> QED BY <1>4, <2>1, <2>2, <2>4, JobBecomes DEF Reassign, EarningsTypeOK
  <1>5. ASSUME NEW w \in Worker, Detached(w)
        PROVE  EarningsTypeOK'
    BY <1>5 DEF Detached, EarningsTypeOK
  <1> QED BY <1>1, <1>2, <1>3, <1>4, <1>5 DEF EarningsNext

\* Each booking has a salon and an artist for good.
THEOREM EarningsTyped == EarningsSpec => []EarningsTypeOK
  BY EarningsStart, EarningsStep, PTL DEF EarningsSpec

\* The bookings counted are finitely many, each with its row.
LEMMA MadeRows ==
  ASSUME EarningsTypeOK
  PROVE  /\ IsFiniteSet(Made)
         /\ \A j \in Made : job[j] \in JobRow /\ job[j].final \in Int /\ job[j].start \in Nat
                            /\ job[j].by \in Worker
  <1>1. Made \subseteq Job /\ \A j \in Made : job[j] \in JobRow
    BY DEF EarningsTypeOK, Made
  <1>2. \A j \in Made : job[j].start \in Half /\ job[j].final \in Costs /\ job[j].by \in Worker
    BY <1>1 DEF JobRow
  <1>3. IsFiniteSet(Made)
    BY <1>1, FS_Subset, EarningsParameters
  <1>4. Half \subseteq Nat /\ Costs \subseteq Int
    BY EarningsParameters
  <1> QED BY <1>1, <1>2, <1>3, <1>4

\* What bookings come to is what they come to by a key of each.
LEMMA SumByKey ==
  ASSUME EarningsTypeOK, NEW S \in SUBSET Made,
         NEW K, IsFiniteSet(K), NEW key, \A j \in S : key[j] \in K
  PROVE  SumOf(S) = SumFunction([k \in K |-> SumOf({j \in S : key[j] = k})])
  <1> DEFINE Part(k) == {j \in S : key[j] = k}
  <1>1. IsFiniteSet(S) /\ \A j \in S : job[j].final \in Int
    BY MadeRows, FS_Subset
  <1>2. \A k \in K : Part(k) \subseteq S /\ IsFiniteSet(Part(k))
    BY <1>1, FS_Subset
  <1>3. SumOf(S) = SumFunction([k \in K |-> SumOf(Part(k))])
    <2>1. PICK v : v = [j \in S |-> job[j].final]
      OBVIOUS
    <2>2. \A j \in S : v[j] \in Int /\ v[j] = job[j].final
      BY <1>1, <2>1
    <2>3. SumOf(S) = SumFunctionOnSet(v, S)
      BY <2>1 DEF SumOf, SumFunction
    <2>4. SumFunctionOnSet(v, S) = SumFunctionOnSet([k \in K |-> SumFunctionOnSet(v, Part(k))], K)
      BY <1>1, <2>2, SumOfParts
    <2>5. ASSUME NEW k \in K PROVE SumFunctionOnSet(v, Part(k)) = SumOf(Part(k))
      <3>1. PICK u : u = [j \in Part(k) |-> job[j].final]
        OBVIOUS
      <3>2. \A j \in Part(k) : v[j] = u[j]
        BY <1>2, <2>2, <3>1
      <3>3. SumOf(Part(k)) = SumFunctionOnSet(u, Part(k))
        BY <3>1 DEF SumOf, SumFunction
      <3> HIDE DEF Part
      <3> QED BY <1>2, <3>2, <3>3, SameSummands
    <2>6. [k \in K |-> SumFunctionOnSet(v, Part(k))] = [k \in K |-> SumOf(Part(k))]
      <3> HIDE DEF Part
      <3> QED BY <2>5
    <2> QED BY <2>3, <2>4, <2>6 DEF SumFunction
  <1> QED BY <1>3

\* And how many they are.
LEMMA CountByKey ==
  ASSUME EarningsTypeOK, NEW S \in SUBSET Made,
         NEW K, IsFiniteSet(K), NEW key, \A j \in S : key[j] \in K
  PROVE  Cardinality(S) = SumFunction([k \in K |-> Cardinality({j \in S : key[j] = k})])
  <1> DEFINE Part(k) == {j \in S : key[j] = k}
  <1>1. IsFiniteSet(S) /\ \A j \in S : job[j].final \in Int
    BY MadeRows, FS_Subset
  <1>2. \A k \in K : Part(k) \subseteq S /\ IsFiniteSet(Part(k))
    BY <1>1, FS_Subset
  <1>3. Cardinality(S) = SumFunction([k \in K |-> Cardinality(Part(k))])
    <2>1. PICK v : v = [j \in S |-> 1]
      OBVIOUS
    <2>2. \A j \in S : v[j] \in Int /\ v[j] = 1
      BY <2>1
    <2>3. Cardinality(S) = SumFunctionOnSet(v, S)
      BY <1>1, <2>2, CountIsSum
    <2>4. SumFunctionOnSet(v, S) = SumFunctionOnSet([k \in K |-> SumFunctionOnSet(v, Part(k))], K)
      BY <1>1, <2>2, SumOfParts
    <2>5. ASSUME NEW k \in K PROVE SumFunctionOnSet(v, Part(k)) = Cardinality(Part(k))
      <3>1. \A j \in Part(k) : v[j] = 1
        BY <2>2
      <3> HIDE DEF Part
      <3> QED BY <1>2, <3>1, CountIsSum
    <2>6. [k \in K |-> SumFunctionOnSet(v, Part(k))] = [k \in K |-> Cardinality(Part(k))]
      <3> HIDE DEF Part
      <3> QED BY <2>5
    <2> QED BY <2>3, <2>4, <2>6 DEF SumFunction
  <1> QED BY <1>3

LEMMA RowsDoAddUp == ASSUME EarningsTypeOK PROVE RowsAddUp
  <1> SUFFICES ASSUME NEW p \in Periods, NEW s \in Salon
               PROVE  GetSalonTotals(s, p[1], p[2]) =
                        [f \in {"earned", "bookings", "cancelled"} |->
                           SumFunction([w \in DOMAIN GetSalonArtists(s, p[1], p[2]) |->
                                          GetSalonArtists(s, p[1], p[2])[w][f]])]
    BY DEF RowsAddUp
  <1>1. PICK S : S = BySalon(s) \cap InPeriod(p[1], p[2])
    OBVIOUS
  <1>2. PICK K : K = People(s, p[1], p[2])
    OBVIOUS
  <1>3. PICK key : key = [j \in Made |-> job[j].by]
    OBVIOUS
  <1>4. S \in SUBSET Made /\ \A j \in S : key[j] \in K /\ key[j] = job[j].by
    BY <1>1, <1>2, <1>3 DEF BySalon, People
  <1>5. IsFiniteSet(K)
    <2>1. K \subseteq Worker
      BY <1>2, MadeRows DEF People, BySalon
    <2> QED BY <2>1, FS_Subset, EarningsParameters
  <1>6. Earned(S) \in SUBSET Made /\ Cancelled(S) \in SUBSET Made
        /\ \A j \in Earned(S) \cup Cancelled(S) : key[j] \in K
    BY <1>4 DEF Earned, Cancelled
  <1> DEFINE Of(w) == BySalon(s) \cap ByArtist(w) \cap InPeriod(p[1], p[2])
  <1>7. \A w \in K : /\ {j \in Earned(S) : key[j] = w} = Earned(Of(w))
                     /\ {j \in Cancelled(S) : key[j] = w} = Cancelled(Of(w))
    BY <1>1, <1>4 DEF Earned, Cancelled, ByArtist, BySalon
  <1>8. GetSalonArtists(s, p[1], p[2]) = [w \in K |-> Figures(Of(w))]
    BY <1>2 DEF GetSalonArtists
  <1> HIDE DEF Of
  <1>9. SumOf(Earned(S)) = SumFunction([w \in K |-> SumOf(Earned(Of(w)))])
        /\ Cardinality(Earned(S)) = SumFunction([w \in K |-> Cardinality(Earned(Of(w)))])
    <2>1. [w \in K |-> SumOf({j \in Earned(S) : key[j] = w})] = [w \in K |-> SumOf(Earned(Of(w)))]
      BY <1>7
    <2>2. [w \in K |-> Cardinality({j \in Earned(S) : key[j] = w})] = [w \in K |-> Cardinality(Earned(Of(w)))]
      BY <1>7
    <2> QED BY <1>5, <1>6, <2>1, <2>2, SumByKey, CountByKey
  <1>10. Cardinality(Cancelled(S)) = SumFunction([w \in K |-> Cardinality(Cancelled(Of(w)))])
    <2>1. [w \in K |-> Cardinality({j \in Cancelled(S) : key[j] = w})]
            = [w \in K |-> Cardinality(Cancelled(Of(w)))]
      BY <1>7
    <2>2. Cardinality(Cancelled(S))
            = SumFunction([w \in K |-> Cardinality({j \in Cancelled(S) : key[j] = w})])
      <3>1. PICK C \in SUBSET Made : C = Cancelled(S)
        BY <1>6
      <3>2. \A j \in C : key[j] \in K
        BY <1>6, <3>1
      <3>3. Cardinality(C) = SumFunction([w \in K |-> Cardinality({j \in C : key[j] = w})])
        BY <1>5, <3>2, CountByKey
      <3> QED BY <3>1, <3>3
    <2> QED BY <2>1, <2>2
  <1>11. PICK rows : rows = [w \in K |-> Figures(Of(w))]
    OBVIOUS
  <1>12. /\ [w \in DOMAIN rows |-> rows[w]["earned"]] = [w \in K |-> SumOf(Earned(Of(w)))]
         /\ [w \in DOMAIN rows |-> rows[w]["bookings"]] = [w \in K |-> Cardinality(Earned(Of(w)))]
         /\ [w \in DOMAIN rows |-> rows[w]["cancelled"]] = [w \in K |-> Cardinality(Cancelled(Of(w)))]
    BY <1>11 DEF Figures
  <1>13. Figures(S) = [f \in {"earned", "bookings", "cancelled"} |->
                         SumFunction([w \in DOMAIN rows |-> rows[w][f]])]
    BY <1>9, <1>10, <1>12 DEF Figures
  <1> QED BY <1>1, <1>8, <1>11, <1>13 DEF GetSalonTotals

LEMMA DaysDoAddUp == ASSUME EarningsTypeOK PROVE DaysAddUp
  <1> SUFFICES ASSUME NEW p \in Periods, NEW w \in Worker
               PROVE  GetPeriodSummary(w, p[1], p[2]).earned
                        = SumFunction(GetDailyBreakdown(w, p[1], p[2]))
    BY DEF DaysAddUp
  <1>1. PICK S : S = Earned(ByArtist(w) \cap InPeriod(p[1], p[2]))
    OBVIOUS
  <1>2. PICK key : key = [j \in Made |-> job[j].start \div 2]
    OBVIOUS
  <1>3. PICK K : K = {key[j] : j \in S}
    OBVIOUS
  <1>4. S \in SUBSET Made /\ \A j \in S : key[j] \in K /\ key[j] = job[j].start \div 2
    BY <1>1, <1>2, <1>3 DEF Earned, ByArtist
  <1>5. IsFiniteSet(K)
    <2>1. IsFiniteSet(S)
      BY <1>4, MadeRows, FS_Subset
    <2> QED BY <1>3, <2>1, ImageIsFinite
  <1>6. SumOf(S) = SumFunction([d \in K |-> SumOf({j \in S : key[j] = d})])
    <2>1. S \in SUBSET Made /\ \A j \in S : key[j] \in K
      BY <1>4
    <2> QED BY <1>5, <2>1, SumByKey
  <1>7. \A d \in K : {j \in S : key[j] = d} = {j \in S : job[j].start \div 2 = d}
    BY <1>4
  <1>8. {job[j].start \div 2 : j \in S} = K
    BY <1>3, <1>4
  <1>9. GetDailyBreakdown(w, p[1], p[2]) = [d \in K |-> SumOf({j \in S : job[j].start \div 2 = d})]
    BY <1>1, <1>8 DEF GetDailyBreakdown
  <1>10. [d \in K |-> SumOf({j \in S : key[j] = d})]
           = [d \in K |-> SumOf({j \in S : job[j].start \div 2 = d})]
    BY <1>7
  <1> QED BY <1>1, <1>6, <1>9, <1>10 DEF GetPeriodSummary, Figures

\* There is a month before any but the first.
LEMMA MonthBefore ==
  ASSUME NEW m \in Int, m > FirstMonth
  PROVE  FirstMonth \in Int /\ PreviousMonth(m) \in Int
  <1>1. MonthStart \subseteq Int
    BY EarningsParameters
  <1>2. FirstMonth \in MonthStart
    BY <1>1, EarningsParameters, GreatestAndLeast DEF FirstMonth
  <1> DEFINE before == {n \in MonthStart : n < m}
  <1>3. before \subseteq Int /\ IsFiniteSet(before) /\ before # {}
    BY <1>1, <1>2, EarningsParameters, FS_Subset
  <1>4. PICK n \in before : \A o \in before : o <= n
    BY <1>3, GreatestAndLeast
  <1>5. \E k \in MonthStart : k < m /\ \A o \in MonthStart : o < m => o <= k
    BY <1>4
  <1>6. PreviousMonth(m) \in MonthStart
    BY <1>5 DEF PreviousMonth
  <1> QED BY <1>1, <1>2, <1>6

LEMMA PeriodsDoNotMeet == ASSUME EarningsTypeOK PROVE NothingTwice
  <1> SUFFICES ASSUME NEW p \in Periods, NEW at \in FirstMonth..LastDay,
                      NEW prev, prev = PreviousPeriod(p[1], p[2], at), p[1] > FirstMonth
               PROVE  /\ InPeriod(prev.from, prev.to) \cap InPeriod(p[1], p[2]) = {}
                      /\ p[1] < at /\ at < p[2] => prev.to - prev.from <= at - p[1]
    BY DEF NothingTwice
  <1>1. p[1] \in Int /\ p[2] \in Int /\ at \in Int
    BY DEF Periods
  <1>2. PICK prevFrom \in Int :
          prevFrom = IF WholeMonth(p[1], p[2]) THEN PreviousMonth(p[1]) ELSE p[1] - (p[2] - p[1])
    BY <1>1, MonthBefore
  <1>3. PICK cut \in Int : cut = prevFrom + (at - p[1])
    BY <1>1
  <1>4. /\ prev.from = prevFrom
        /\ prev.to = IF p[1] < at /\ at < p[2] THEN CutBefore(prevFrom, p[1], cut) ELSE p[1]
    BY <1>2, <1>3 DEF PreviousPeriod
  <1>5. prev.to \in Int /\ prev.to <= p[1]
        /\ (p[1] < at /\ at < p[2] => prev.to <= cut)
    BY <1>1, <1>4 DEF CutBefore
  <1>6. \A j \in Made : job[j].start \in Int
    BY MadeRows
  <1>7. InPeriod(prev.from, prev.to) \cap InPeriod(p[1], p[2]) = {}
    BY <1>1, <1>5, <1>6 DEF InPeriod
  <1> QED BY <1>1, <1>3, <1>4, <1>5, <1>7

\* The rows of the owner's page are its total, the days of an artist's own
\* page hers, and no booking is in a period and in the one it is compared
\* with (GetSalonArtists, GetDailyBreakdown and PreviousPeriod): for any
\* bookings, prices, artists and calendar of months.
THEOREM PagesAlwaysAgree == EarningsSpec => []PagesAgree
  <1>1. EarningsTypeOK => PagesAgree
    BY RowsDoAddUp, DaysDoAddUp, PeriodsDoNotMeet DEF PagesAgree
  <1>2. EarningsSpec => []EarningsTypeOK
    BY EarningsStart, EarningsStep, PTL DEF EarningsSpec
  <1> QED BY <1>1, <1>2, PTL

-----------------------------------------------------------------------------
(* All of them: they share no variable.                                    *)

\* None disturbs another, from any of the sides the runs look at.
THEOREM SalonTyped == SalonSpec => []SalonTypeOK
  <1> DEFINE Inv == /\ RosterInv /\ ReviewsInv /\ GalleryInv /\ RemindersInv /\ EarningsTypeOK /\ CalendarInv
  <1>1. SalonInit => Inv
    BY RosterInitOK, ReviewsStart, GalleryStart, RemindersStart, EarningsStart, CalendarStart DEF SalonInit
  <1>2. ASSUME Inv, [SalonNext]_salonVars PROVE Inv'
    <2>1. /\ [MembershipNext]_rosterVars /\ [ReviewsNext]_reviewVars /\ [GalleryNext]_galleryVars
          /\ [RemindersNext]_reminderVars /\ [EarningsNext]_earningsVars /\ [CalendarNext]_calendarVars
      BY <1>2 DEF SalonNext, salonVars, Roster
    <2> QED BY <1>2, <2>1, RosterStep, ReviewsStep, GalleryStep, RemindersStep, EarningsStep, CalendarStep
  <1>3. Inv => SalonTypeOK
    BY DEF RosterInv, ReviewsInv, GalleryInv, RemindersInv, CalendarInv, SalonTypeOK
  <1> QED BY <1>1, <1>2, <1>3, PTL DEF SalonSpec

=============================================================================
