------------------------------ MODULE Sessions ------------------------------
(***************************************************************************)
(* Sessions: the refresh tokens of artists and admins (internal/domain/    *)
(* auth) and of customers (internal/customerauth), the check every signed- *)
(* in request passes (internal/middleware), and what an account's holder   *)
(* does to it: freeze, unfreeze, delete, change or reset the password.     *)
(*                                                                         *)
(* An operation reads a row, decides, and writes in a later statement; no  *)
(* transaction holds the two together and any of them may fail.  Suspending *)
(* an account is an operator's statement against the table: no route does  *)
(* it.                                                                     *)
(***************************************************************************)
EXTENDS Integers, FiniteSets

CONSTANTS
  Member,    \* users with a password: artists and admins
  Guest,     \* users with the role customer
  Token,     \* refresh_tokens ids, in order of creation
  Link,      \* password_resets ids, in order of creation
  Server,    \* the requests the API serves at a time
  None       \* no user

User == Member \cup Guest

ASSUME SessionParameters ==
  /\ Member \cap Guest = {}
  /\ None \notin User
  /\ Token \cup Link \subseteq Nat \ {0}
  /\ IsFiniteSet(Server) /\ IsFiniteSet(Token) /\ IsFiniteSet(Link)

VARIABLES
  status,  \* of each user
  token,   \* the table refresh_tokens
  link,    \* the table password_resets
  job,     \* where each request is
  spent,   \* history: how many requests have exchanged each token
  resets,  \* history: how many passwords each link set that was no longer open
  acts     \* history: what was done for a user since she was stopped

sessionVars == <<status, token, link, job, spent, resets, acts>>

-----------------------------------------------------------------------------

Statuses == {"active", "frozen", "suspended", "deleted"}
TokenRow == [state : {"none", "good", "revoked"}, user : User \cup {None}]
LinkRow == [state : {"none", "open", "expired", "used", "removed"}, user : User \cup {None}]
JobSteps == {"idle", "store", "revoke", "load", "password", "freeze", "unfreeze",
             "delete", "clear", "link", "reset", "spend"}
\* of: the token or link the request is about, 0 when there is none.
Job == [step : JobSteps, user : User \cup {None}, of : Token \cup Link \cup {0}]

SessionsInit ==
  /\ status = [u \in User |-> "active"]
  /\ token = [t \in Token |-> [state |-> "none", user |-> None]]
  /\ link = [k \in Link |-> [state |-> "none", user |-> None]]
  /\ job = [p \in Server |-> [step |-> "idle", user |-> None, of |-> 0]]
  /\ spent = [t \in Token |-> 0]
  /\ resets = [k \in Link |-> 0]
  /\ acts = [u \in User |-> 0]

Does(p, step) == job[p].step = step
Sets(p, step, u, x) == job' = [job EXCEPT ![p] = [step |-> step, user |-> u, of |-> x]]
Ends(p) == Sets(p, "idle", None, 0)

\* RequireAuth lets neither through.
Stopped(u) == status[u] \in {"suspended", "deleted"}

\* Nor does any way to a new session; for a customer, only a deletion counts.
Barred(u) == IF u \in Guest THEN status[u] = "deleted" ELSE Stopped(u)
Acts(u) == acts' = [acts EXCEPT ![u] = IF Barred(u) THEN @ + 1 ELSE @]

-----------------------------------------------------------------------------
(* Opening a session.                                                      *)

\* The row of a deleted account is no longer found by its address.
HasAccount(u) == status[u] # "deleted"

\* Login: the row is read, a frozen or stopped account is refused, then the
\* password is compared.  A customer comes from a verified code instead, and
\* only the deletion of her account is looked at (lookupByPhone).
Login(p, u) ==
  /\ Does(p, "idle")
  /\ IF u \in Guest THEN ~Barred(u) ELSE HasAccount(u) /\ status[u] = "active"
  /\ Sets(p, "store", u, 0)
  /\ UNCHANGED <<status, token, link, spent, resets, acts>>

NewToken(u, t) ==
  /\ token[t].state = "none"
  /\ \A x \in Token : x < t => token[x].state # "none"
  /\ token' = [token EXCEPT ![t] = [state |-> "good", user |-> u]]

StoreToken(p) ==
  /\ Does(p, "store")
  /\ \E t \in Token : NewToken(job[p].user, t)
  /\ Acts(job[p].user)
  /\ Ends(p)
  /\ UNCHANGED <<status, link, spent, resets>>

-----------------------------------------------------------------------------
(* Refresh: read the token, revoke it, read the user, store a new one.     *)

\* In the table, and not revoked.
Good(t) == token[t].state = "good"

Refresh(p, t) ==
  /\ Does(p, "idle")
  /\ Good(t)
  /\ Sets(p, "revoke", None, t)
  /\ UNCHANGED <<status, token, link, spent, resets, acts>>

RevokeUsed(p) ==
  /\ Does(p, "revoke")
  /\ token' = [token EXCEPT ![job[p].of].state = "revoked"]
  /\ spent' = [spent EXCEPT ![job[p].of] = @ + 1]
  /\ Sets(p, "load", None, job[p].of)
  /\ UNCHANGED <<status, link, resets, acts>>

\* Mutant: "a session that existed before the suspension renews itself".
RenewsSuspended(u) == status[u] # "deleted"

\* customerauth's Refresh does not look at the status of the row it reads.
Renews(u) == ~Barred(u)

LoadUser(p) ==
  /\ Does(p, "load")
  /\ LET u == token[job[p].of].user
     IN IF Renews(u) THEN Sets(p, "store", u, 0) ELSE Ends(p)
  /\ UNCHANGED <<status, token, link, spent, resets, acts>>

Logout(t) ==
  /\ Good(t)
  /\ token' = [token EXCEPT ![t].state = "revoked"]
  /\ UNCHANGED <<status, link, job, spent, resets, acts>>

-----------------------------------------------------------------------------
(* The signed-in routes.                                                   *)

\* RequireAuth: an access token, which outlives its refresh token, and the
\* account as it is now.
Admitted(u) ==
  /\ \E t \in Token : token[t].user = u
  /\ ~Stopped(u)

SignedIn(p, u, step) ==
  /\ Does(p, "idle")
  /\ Admitted(u)
  /\ Sets(p, step, u, 0)
  /\ UNCHANGED <<status, token, link, spent, resets, acts>>

\* WHERE id = $2 AND deleted_at IS NULL: a suspension is overwritten.
StatusBecomes(p, s) ==
  LET u == job[p].user
  IN /\ status' = [status EXCEPT ![u] = IF @ = "deleted" THEN @ ELSE s]
     /\ Acts(u)
     /\ Ends(p)
     /\ UNCHANGED <<token, link, spent, resets>>

\* Mutant: writes a status the column's CHECK does not list.
Thaw(p) == Does(p, "unfreeze") /\ StatusBecomes(p, "unfrozen")

FreezeAccount(p) == Does(p, "freeze") /\ StatusBecomes(p, "frozen")
UnfreezeAccount(p) == Does(p, "unfreeze") /\ StatusBecomes(p, "active")

\* What is done for a deleted account is counted from here.
DeleteAccount(p) ==
  LET u == job[p].user
  IN /\ Does(p, "delete")
     /\ status' = [status EXCEPT ![u] = "deleted"]
     /\ acts' = [acts EXCEPT ![u] = IF Barred(u) THEN @ + 1 ELSE 0]
     /\ Ends(p)
     /\ UNCHANGED <<token, link, spent, resets>>

ChangePassword(p) ==
  /\ Does(p, "password")
  /\ Acts(job[p].user)
  /\ Ends(p)
  /\ UNCHANGED <<status, token, link, spent, resets>>

-----------------------------------------------------------------------------
(* A forgotten password.                                                   *)

ForgotPassword(p, u) ==
  /\ Does(p, "idle")
  /\ HasAccount(u)
  /\ Sets(p, "clear", u, 0)
  /\ UNCHANGED <<status, token, link, spent, resets, acts>>

Unused(k) == link[k].state \in {"open", "expired"}

DeleteUnusedResets(p) ==
  /\ Does(p, "clear")
  /\ link' = [k \in Link |->
       IF Unused(k) /\ link[k].user = job[p].user
       THEN [link[k] EXCEPT !.state = "removed"] ELSE link[k]]
  /\ Sets(p, "link", job[p].user, 0)
  /\ UNCHANGED <<status, token, spent, resets, acts>>

CreateReset(p) ==
  /\ Does(p, "link")
  /\ \E k \in Link :
       /\ link[k].state = "none"
       /\ \A x \in Link : x < k => link[x].state # "none"
       /\ link' = [link EXCEPT ![k] = [state |-> "open", user |-> job[p].user]]
  /\ Ends(p)
  /\ UNCHANGED <<status, token, spent, resets, acts>>

ExpireLink(k) ==
  /\ link[k].state = "open"
  /\ link' = [link EXCEPT ![k].state = "expired"]
  /\ UNCHANGED <<status, token, job, spent, resets, acts>>

ResetPassword(p, k) ==
  /\ Does(p, "idle")
  /\ link[k].state = "open"
  /\ Sets(p, "reset", link[k].user, k)
  /\ UNCHANGED <<status, token, link, spent, resets, acts>>

\* The password first, the link after: a failure between the two leaves a
\* link that is still open.
UpdatePassword(p) ==
  /\ Does(p, "reset")
  /\ resets' = [resets EXCEPT ![job[p].of] =
       IF link[job[p].of].state = "open" THEN @ ELSE @ + 1]
  /\ Sets(p, "spend", job[p].user, job[p].of)
  /\ UNCHANGED <<status, token, link, spent, acts>>

\* WHERE used_at IS NULL; the row may have been removed meanwhile.
MarkResetUsed(p) ==
  /\ Does(p, "spend")
  /\ link' = [link EXCEPT ![job[p].of].state = IF @ = "removed" THEN @ ELSE "used"]
  /\ Ends(p)
  /\ UNCHANGED <<status, token, spent, resets, acts>>

-----------------------------------------------------------------------------
(* Around them.                                                            *)

Suspend(u) ==
  /\ status[u] \in {"active", "frozen"}
  /\ status' = [status EXCEPT ![u] = "suspended"]
  /\ acts' = [acts EXCEPT ![u] = 0]
  /\ UNCHANGED <<token, link, job, spent, resets>>

Reinstate(u) ==
  /\ status[u] = "suspended"
  /\ status' = [status EXCEPT ![u] = "active"]
  /\ UNCHANGED <<token, link, job, spent, resets, acts>>

Breaks(p) ==
  /\ ~Does(p, "idle")
  /\ Ends(p)
  /\ UNCHANGED <<status, token, link, spent, resets, acts>>

ServerStep(p) ==
  \/ StoreToken(p) \/ RevokeUsed(p) \/ LoadUser(p)
  \/ FreezeAccount(p) \/ UnfreezeAccount(p) \/ DeleteAccount(p) \/ ChangePassword(p)
  \/ DeleteUnusedResets(p) \/ CreateReset(p) \/ UpdatePassword(p) \/ MarkResetUsed(p)
  \/ Breaks(p)
  \/ \E u \in User :
       \/ Login(p, u)
       \/ \E step \in {"password", "freeze", "unfreeze", "delete"} : SignedIn(p, u, step)
  \/ \E u \in Member : ForgotPassword(p, u)
  \/ \E t \in Token : Refresh(p, t)
  \/ \E k \in Link : ResetPassword(p, k)

SessionsNext ==
  \/ \E p \in Server : ServerStep(p)
  \/ \E t \in Token : Logout(t)
  \/ \E k \in Link : ExpireLink(k)
  \/ \E u \in User : Suspend(u) \/ Reinstate(u)

SessionsSpec == SessionsInit /\ [][SessionsNext]_sessionVars

-----------------------------------------------------------------------------

\* Types: every row, request and history keeps its shape.
SessionsTypeOK ==
  /\ status \in [User -> Statuses]
  /\ token \in [Token -> TokenRow]
  /\ link \in [Link -> LinkRow]
  /\ job \in [Server -> Job]
  /\ spent \in [Token -> Nat]
  /\ resets \in [Link -> Nat]
  /\ acts \in [User -> Nat]

AtOnce == Cardinality(Server)

\* "Rotation - one use only": a refresh token is exchanged, and a reset link
\* that is spent, removed or expired sets a password, by no more requests than
\* had read it before (Refresh steps 3 and 4, ResetPassword steps 2 and 6).
SpentOnce ==
  /\ \A t \in Token : spent[t] <= AtOnce
  /\ \A k \in Link : resets[k] <= AtOnce

\* Once an account is suspended or deleted, what is still done in its name -
\* a session, a new password, a change of its status - is done by requests
\* that were past their check at that moment (Login, Refresh, RequireAuth).
WindsDown ==
  \A u \in User : acts[u] <= AtOnce

\* What is over is over - a token exchanged, a link spent, an account
\* suspended or deleted - for all but the requests that were past their check.
OverMeansOver == SpentOnce /\ WindsDown

\* What customerauth's Refresh claims to "mirror exactly": a refresh that
\* finds the account suspended opens no session.  Does not hold of customers:
\* their account is loaded and its status is not looked at.
RefreshMirrorsAuth ==
  [][\A p \in Server :
       Does(p, "load") /\ status[token[job[p].of].user] = "suspended"
         => job'[p].step # "store"]_sessionVars

=============================================================================
