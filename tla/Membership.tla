----------------------------- MODULE Membership -----------------------------
(***************************************************************************)
(* The roster of one salon: who is invited, joins, is approved, is handed  *)
(* the salon, leaves (internal/membership, the two ways into a salon in    *)
(* internal/onboarding, the approval in internal/admin).                   *)
(*                                                                         *)
(* Every operation is a sequence of SQL statements of its own, except      *)
(* joining, which is one transaction.  A request reads, decides and writes *)
(* later, and may fail between any two statements.  Who may call what is   *)
(* read from the access token, which outlives a change of owner, so an     *)
(* owner's operation is open to whoever the model needs.                   *)
(***************************************************************************)
EXTENDS Integers, FiniteSets

CONSTANTS
  Person,      \* users with the role artist
  Founder,     \* the one who founded the salon
  Invitation,  \* salon_invitations ids, in order of creation
  Call,        \* the requests the API serves at a time
  NoOne,       \* the person of a request that has none
  Ceiling,     \* plans.included_seats of the owner's plan
  MaxLive      \* MaxLiveInvitations

ASSUME MembershipParameters ==
  /\ Founder \in Person /\ NoOne \notin Person
  /\ Invitation \subseteq Nat \ {0}
  /\ IsFiniteSet(Invitation) /\ IsFiniteSet(Call) /\ IsFiniteSet(Person)
  /\ {Ceiling, MaxLive} \subseteq Nat \ {0}

VARIABLES
  artist,    \* the artists row of each person
  owner,     \* salons.owner_id
  invite,    \* the table salon_invitations
  message,   \* the queued message of each invitation
  call,      \* where each request is
  diary,     \* the upcoming appointments of each person
  crossed    \* history: a transfer met a departure of the same person

rosterVars == <<artist, owner, invite, message, call, diary, crossed>>

-----------------------------------------------------------------------------

\* none: no artists row.  nowhere: a row whose salon_id is NULL.
Places == {"none", "here", "elsewhere", "nowhere"}
ArtistRow == [at : Places, status : {"pending", "active", "rejected"}]
InviteStates == {"none", "pending", "accepted", "declined", "revoked", "expired"}
\* late: expires_at is behind.
InviteRow == [state : InviteStates, to : Person \cup {NoOne}, late : BOOLEAN]
CallSteps == {"idle", "duplicate", "retire", "active", "waiting", "volume", "create", "queue",
              "join", "accept", "decline", "revoke", "lapse", "redact",
              "others", "detach", "transfer"}
CallRow == [step : CallSteps, who : Person \cup {NoOne}, of : Invitation \cup {0}, seen : Nat]

\* counted: an appointment memberSelect counts (pending, confirmed).
\* uncounted: one it does not (approved, held, deposit_paid).
Diaries == {"empty", "counted", "uncounted"}

MembershipInit ==
  /\ artist = [u \in Person |->
       [at |-> IF u = Founder THEN "here" ELSE "none",
        status |-> IF u = Founder THEN "active" ELSE "pending"]]
  /\ owner = Founder
  /\ invite = [i \in Invitation |-> [state |-> "none", to |-> NoOne, late |-> FALSE]]
  /\ message = [i \in Invitation |-> "none"]
  /\ call = [p \in Call |-> [step |-> "idle", who |-> NoOne, of |-> 0, seen |-> 0]]
  /\ diary = [u \in Person |-> "empty"]
  /\ crossed = FALSE

At(p, step) == call[p].step = step
Row(step, u, i, n) == [step |-> step, who |-> u, of |-> i, seen |-> n]
Turns(p, r) == call' = [call EXCEPT ![p] = r]
Then(p, step) == Turns(p, [call[p] EXCEPT !.step = step])
Done(p) == Turns(p, Row("idle", NoOne, 0, 0))

Here(u) == artist[u].at = "here"
Team == {u \in Person : Here(u) /\ artist[u].status = "active"}
Usable(i) == invite[i].state = "pending" /\ ~invite[i].late
LiveInvitations == {i \in Invitation : Usable(i)}

RestOfRoster == <<artist, owner, invite, message, diary, crossed>>

-----------------------------------------------------------------------------
(* Inviting: five reads, each a statement, then the INSERT.                *)

\* An account that belongs to no salon, with an artists row or without.
MayBeInvited(u) == artist[u].at \in {"none", "nowhere"}

Invite(p, u) ==
  /\ At(p, "idle")
  /\ MayBeInvited(u)
  /\ Turns(p, Row("duplicate", u, 0, 0))
  /\ UNCHANGED RestOfRoster

\* One that is past its deadline is retired to free the unique index.
FindDuplicate(p) ==
  /\ At(p, "duplicate")
  /\ LET pending == {i \in Invitation : invite[i].state = "pending" /\ invite[i].to = call[p].who}
     IN \/ pending = {} /\ Then(p, "active")
        \/ \E i \in pending :
             IF Usable(i) THEN Done(p) ELSE Turns(p, Row("retire", call[p].who, i, 0))
  /\ UNCHANGED RestOfRoster

CountActive(p) ==
  /\ At(p, "active")
  /\ Turns(p, Row("waiting", call[p].who, 0, Cardinality(Team)))
  /\ UNCHANGED RestOfRoster

AtCeiling(members) == members >= Ceiling

CountWaiting(p) ==
  /\ At(p, "waiting")
  /\ IF AtCeiling(call[p].seen + Cardinality(LiveInvitations)) THEN Done(p) ELSE Then(p, "volume")
  /\ UNCHANGED RestOfRoster

BoundVolume(p) ==
  /\ At(p, "volume")
  /\ IF Cardinality(LiveInvitations) >= MaxLive THEN Done(p) ELSE Then(p, "create")
  /\ UNCHANGED RestOfRoster

\* The partial unique index: one pending invitation for one contact.
CreateInvitation(p) ==
  /\ At(p, "create")
  /\ IF \E i \in Invitation : invite[i].state = "pending" /\ invite[i].to = call[p].who
     THEN Done(p) /\ UNCHANGED invite
     ELSE \E i \in Invitation :
            /\ invite[i].state = "none"
            /\ \A j \in Invitation : j < i => invite[j].state # "none"
            /\ invite' = [invite EXCEPT ![i] =
                 [state |-> "pending", to |-> call[p].who, late |-> FALSE]]
            /\ Turns(p, Row("queue", NoOne, i, 0))
  /\ UNCHANGED <<artist, owner, message, diary, crossed>>

\* The message carries the link; a failure is logged and forgotten.
QueueSalonInvitation(p) ==
  /\ At(p, "queue")
  /\ message' = [message EXCEPT ![call[p].of] = "link"]
  /\ Done(p)
  /\ UNCHANGED <<artist, owner, invite, diary, crossed>>

-----------------------------------------------------------------------------
(* Answering, withdrawing, expiring.                                       *)

\* The account that holds the contact by now.
Invitee(i) == invite[i].to

\* loadRedeemable: past its deadline it is retired, whoever asks.
LoadRedeemable(p, i, step) ==
  /\ At(p, "idle")
  /\ invite[i].state = "pending"
  /\ Turns(p, Row(IF invite[i].late THEN "lapse" ELSE step, Invitee(i), i, 0))
  /\ UNCHANGED RestOfRoster

\* Mutant: the invitation is marked first, then the artist is attached.
MarksFirst(p, i) == LoadRedeemable(p, i, "accept")

Accept(p, i) == LoadRedeemable(p, i, "join")
Decline(p, i) == LoadRedeemable(p, i, "decline")
Preview(p, i) == invite[i].late /\ LoadRedeemable(p, i, "lapse")

\* Any artists row at all refuses: onboarding's ErrAlreadyOnboarded.
CompleteIntoExistingSalon(p) ==
  /\ At(p, "join")
  /\ IF artist[call[p].who].at = "none"
     THEN /\ artist' = [artist EXCEPT ![call[p].who] = [at |-> "here", status |-> "pending"]]
          /\ Then(p, "accept")
     ELSE Done(p) /\ UNCHANGED artist
  /\ UNCHANGED <<owner, invite, message, diary, crossed>>

RevokeInvitation(p, i) ==
  /\ At(p, "idle")
  /\ Usable(i)
  /\ Turns(p, Row("revoke", NoOne, i, 0))
  /\ UNCHANGED RestOfRoster

Verdict == [accept |-> "accepted", decline |-> "declined", revoke |-> "revoked",
            lapse |-> "expired", retire |-> "expired"]

\* UPDATE ... WHERE id = $1: whatever the row says by now is overwritten.
SetInvitationStatus(p) ==
  /\ call[p].step \in DOMAIN Verdict
  /\ invite' = [invite EXCEPT ![call[p].of].state = Verdict[call[p].step]]
  /\ Then(p, IF At(p, "retire") THEN "active" ELSE "redact")
  /\ UNCHANGED <<artist, owner, message, diary, crossed>>

Redacted(m) == IF m = "link" THEN "redacted" ELSE m

RedactInvitationMessage(p) ==
  /\ At(p, "redact")
  /\ message' = [message EXCEPT ![call[p].of] = Redacted(@)]
  /\ Done(p)
  /\ UNCHANGED <<artist, owner, invite, diary, crossed>>

-----------------------------------------------------------------------------
(* Leaving, being removed, handing the salon over.                         *)

Crossing(calls) ==
  \E p, q \in Call :
    calls[p].step \in {"others", "detach"} /\ calls[q].step = "transfer" /\ calls[p].who = calls[q].who

\* SalonOwnerUserID.
Owns(u) == u = owner

\* Mutant: the owner is not refused.
AnyoneCanGo(u) == Here(u) /\ diary[u] # "counted"

\* memberSelect: a member, not the owner, no upcoming appointment (BR-5).
CanGo(u) == Here(u) /\ ~Owns(u) /\ diary[u] # "counted"

RemoveMember(p, u) ==
  /\ At(p, "idle")
  /\ CanGo(u)
  /\ Turns(p, Row("detach", u, 0, 0))
  /\ crossed' = (crossed \/ Crossing(call'))
  /\ UNCHANGED <<artist, owner, invite, message, diary>>

Leave(p, u) ==
  /\ At(p, "idle")
  /\ CanGo(u)
  /\ Turns(p, Row("others", u, 0, 0))
  /\ crossed' = (crossed \/ Crossing(call'))
  /\ UNCHANGED <<artist, owner, invite, message, diary>>

\* BR-3: not the last one.
CountOthers(p) ==
  /\ At(p, "others")
  /\ IF Cardinality(Team) <= 1 THEN Done(p) ELSE Then(p, "detach")
  /\ UNCHANGED RestOfRoster

DetachArtist(p) ==
  LET u == call[p].who
  IN /\ At(p, "detach")
     /\ artist' = [artist EXCEPT ![u].at = IF @ = "here" THEN "nowhere" ELSE @]
     /\ Done(p)
     /\ UNCHANGED <<owner, invite, message, diary, crossed>>

\* BR-2: to an active member.
TransferOwnership(p, u) ==
  /\ At(p, "idle")
  /\ u \in Team /\ ~Owns(u)
  /\ Turns(p, Row("transfer", u, 0, 0))
  /\ crossed' = (crossed \/ Crossing(call'))
  /\ UNCHANGED <<artist, owner, invite, message, diary>>

SetOwner(p) ==
  /\ At(p, "transfer")
  /\ owner' = call[p].who
  /\ Done(p)
  /\ UNCHANGED <<artist, invite, message, diary, crossed>>

-----------------------------------------------------------------------------
(* Around them.                                                            *)

CallFails(p) ==
  /\ ~At(p, "idle")
  /\ Done(p)
  /\ UNCHANGED RestOfRoster

\* onboarding's Complete: a salon of her own.
CompleteOnboarding(u) ==
  /\ artist[u].at = "none"
  /\ artist' = [artist EXCEPT ![u] = [at |-> "elsewhere", status |-> "pending"]]
  /\ UNCHANGED <<owner, invite, message, call, diary, crossed>>

\* admin's UpdateStatus and ApproveWithTrialSubscription.
Review(u, verdict) ==
  /\ artist[u].at # "none" /\ artist[u].status = "pending"
  /\ artist' = [artist EXCEPT ![u].status = verdict]
  /\ UNCHANGED <<owner, invite, message, call, diary, crossed>>

PassDeadline(i) ==
  /\ Usable(i)
  /\ invite' = [invite EXCEPT ![i].late = TRUE]
  /\ UNCHANGED <<artist, owner, message, call, diary, crossed>>

\* What BookingLifecycle does to a member's diary: a request is counted, an
\* approved or held appointment and one with its deposit are not.
Appointment(u, d) ==
  /\ artist[u].status = "active"
  /\ IF diary[u] = "empty" THEN Here(u) /\ d = "counted" ELSE d # diary[u]
  /\ diary' = [diary EXCEPT ![u] = d]
  /\ UNCHANGED <<artist, owner, invite, message, call, crossed>>

Answering(p) ==
  \E i \in Invitation : Accept(p, i) \/ Decline(p, i) \/ Preview(p, i)

CallStep(p) ==
  \/ FindDuplicate(p) \/ CountActive(p) \/ CountWaiting(p) \/ BoundVolume(p)
  \/ CreateInvitation(p) \/ QueueSalonInvitation(p)
  \/ CompleteIntoExistingSalon(p) \/ SetInvitationStatus(p) \/ RedactInvitationMessage(p)
  \/ CountOthers(p) \/ DetachArtist(p) \/ SetOwner(p)
  \/ CallFails(p)
  \/ \E u \in Person : Invite(p, u) \/ RemoveMember(p, u) \/ Leave(p, u) \/ TransferOwnership(p, u)
  \/ \E i \in Invitation : RevokeInvitation(p, i)
  \/ Answering(p)

MembershipNext ==
  \/ \E p \in Call : CallStep(p)
  \/ \E u \in Person :
       \/ CompleteOnboarding(u)
       \/ \E verdict \in {"active", "rejected"} : Review(u, verdict)
       \/ \E d \in Diaries : Appointment(u, d)
  \/ \E i \in Invitation : PassDeadline(i)

MembershipSpec == MembershipInit /\ [][MembershipNext]_rosterVars

-----------------------------------------------------------------------------

\* Types: every row and request keeps its shape.
MembershipTypeOK ==
  /\ artist \in [Person -> ArtistRow]
  /\ owner \in Person
  /\ invite \in [Invitation -> InviteRow]
  /\ message \in [Invitation -> {"none", "link", "redacted"}]
  /\ call \in [Call -> CallRow]
  /\ diary \in [Person -> Diaries]
  /\ crossed \in BOOLEAN

\* An invitation says accepted only of somebody who joined the salon, whatever
\* failed or ran beside it (Accept: CompleteIntoExistingSalon commits before
\* SetInvitationStatus), and the link is taken out of the message only of an
\* invitation that can no longer be used (redactDeliveredInvitation).
AnswersAreTrue ==
  \A i \in Invitation :
    /\ invite[i].state = "accepted" => artist[invite[i].to].at \in {"here", "nowhere"}
    /\ message[i] = "redacted" => invite[i].state # "pending"

\* BR-2, as far as the code keeps it: the owner is an active member of her
\* salon unless somebody was handed it by one request while another, past its
\* own check, was taking her out of it (Leave, RemoveMember, TransferOwnership).
OwnerIsMember ==
  crossed \/ owner \in Team

\* BR-5: "A customer must never find their appointment has evaporated because
\* of an internal staffing change": nobody who is taken out of the salon has
\* an upcoming appointment.  Does not hold: an appointment may be booked
\* between the check and the update.
NoAppointmentEvaporates ==
  [][\A u \in Person : Here(u) /\ ~Here(u)' => diary[u] = "empty"]_rosterVars

=============================================================================
