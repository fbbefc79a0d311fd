---------------------------- MODULE OneTimeCodes ----------------------------
(***************************************************************************)
(* One-time codes: how a customer signs in (internal/customerauth) and how *)
(* an artist proves a phone number (internal/artist/phoneverify.go), over  *)
(* the rule they share (internal/pkg/otp).                                 *)
(*                                                                         *)
(* The model is of one phone number, its codes and the accounts that hold  *)
(* it one after the other: those of two numbers never meet.  A request     *)
(* runs SQL statements with no transaction around them, and any of them    *)
(* may fail, so requests interleave and stop half-way.                     *)
(***************************************************************************)
EXTENDS Integers, FiniteSets

CONSTANTS
  Code,      \* customer_otps ids, in order of created_at
  Account,   \* users ids
  Request,   \* the requests the API serves at a time
  Nobody,    \* the account of a request that has none (yet)
  RateMax,   \* otp.RateLimitMax
  MaxTries   \* otp.MaxAttempts

ASSUME CodeParameters ==
  /\ Code \subseteq Nat \ {0}
  /\ IsFiniteSet(Code) /\ IsFiniteSet(Request)
  /\ Nobody \notin Account
  /\ {RateMax, MaxTries} \subseteq Nat \ {0}

VARIABLES
  code,      \* the table customer_otps
  account,   \* the users with this number
  req,       \* where each request is
  uses,      \* history: how often each code was accepted
  sessions   \* history: the accounts customer sessions were opened for

codeVars == <<code, account, req, uses, sessions>>

-----------------------------------------------------------------------------

\* counted: created_at is in the rate-limit window, by the service's clock and
\* the database's.  live: expires_at is ahead.  Both spans are five minutes,
\* on two clocks.
CodeRow == [sent : BOOLEAN, counted : BOOLEAN, live : BOOLEAN, used : BOOLEAN, tries : Nat]
AccountRow == [status : {"none", "live", "deleted"}, role : {"customer", "artist"},
               verified : BOOLEAN]
CodeSteps == {"idle", "count", "eligible", "issue", "latest", "wrong", "right",
              "resolve", "insert", "again", "session", "stamp"}

\* who is the signed-in artist, or Nobody in the customers' flow until the
\* account is resolved; 0 is no code.
CodeRequest == [step : CodeSteps, who : Account \cup {Nobody}, code : Code \cup {0}]

CodesInit ==
  /\ code = [c \in Code |->
       [sent |-> FALSE, counted |-> FALSE, live |-> FALSE, used |-> FALSE, tries |-> 0]]
  /\ account = [a \in Account |-> [status |-> "none", role |-> "customer", verified |-> FALSE]]
  /\ req = [r \in Request |-> [step |-> "idle", who |-> Nobody, code |-> 0]]
  /\ uses = [c \in Code |-> 0]
  /\ sessions = {}

In(r, step) == req[r].step = step
Moves(r, step, who, c) == req' = [req EXCEPT ![r] = [step |-> step, who |-> who, code |-> c]]
Proceeds(r, step) == Moves(r, step, req[r].who, req[r].code)
Answers(r) == Moves(r, "idle", Nobody, 0)

Holds(a) == account[a].status = "live"
Taken == \E a \in Account : Holds(a)

-----------------------------------------------------------------------------
(* Asking for a code.                                                      *)

\* A customer gives the number; an artist's comes from her account.
AskToSignIn(r) ==
  /\ In(r, "idle")
  /\ Moves(r, "count", Nobody, 0)
  /\ UNCHANGED <<code, account, uses, sessions>>

AskToVerify(r, a) ==
  /\ In(r, "idle")
  /\ Holds(a) /\ account[a].role = "artist" /\ ~account[a].verified
  /\ Moves(r, "count", a, 0)
  /\ UNCHANGED <<code, account, uses, sessions>>

Counted == {c \in Code : code[c].counted}

CountRecent(r) ==
  /\ In(r, "count")
  /\ IF Cardinality(Counted) >= RateMax THEN Answers(r)
     ELSE Proceeds(r, IF req[r].who = Nobody THEN "eligible" ELSE "issue")
  /\ UNCHANGED <<code, account, uses, sessions>>

\* An artist's number gets the answer of any other, and no code.
PhoneEligible(r) ==
  /\ In(r, "eligible")
  /\ IF \E a \in Account : Holds(a) /\ account[a].role = "artist"
     THEN Answers(r)
     ELSE Proceeds(r, "issue")
  /\ UNCHANGED <<code, account, uses, sessions>>

Fresh == [sent |-> TRUE, counted |-> TRUE, live |-> TRUE, used |-> FALSE, tries |-> 0]
Next1(c) == ~code[c].sent /\ \A d \in Code : d < c => code[d].sent

CreateCode(r) ==
  /\ In(r, "issue")
  /\ \E c \in Code : Next1(c) /\ code' = [code EXCEPT ![c] = Fresh]
  /\ Answers(r)
  /\ UNCHANGED <<account, uses, sessions>>

-----------------------------------------------------------------------------
(* Submitting a code.                                                      *)

SubmitToSignIn(r) ==
  /\ In(r, "idle")
  /\ Moves(r, "latest", Nobody, 0)
  /\ UNCHANGED <<code, account, uses, sessions>>

SubmitToVerify(r, a) ==
  /\ In(r, "idle")
  /\ Holds(a) /\ account[a].role = "artist" /\ ~account[a].verified
  /\ Moves(r, "latest", a, 0)
  /\ UNCHANGED <<code, account, uses, sessions>>

Latest(c) == code[c].sent /\ \A d \in Code : code[d].sent => d <= c

\* Mutant: a used code is not refused.
CheckForgetsUse(c, matches) ==
  IF ~code[c].live \/ code[c].tries >= MaxTries THEN "idle"
  ELSE IF matches THEN "right" ELSE "wrong"

\* otp.Check, in its order: state before comparison.
Check(c, matches) ==
  IF code[c].used \/ ~code[c].live \/ code[c].tries >= MaxTries THEN "idle"
  ELSE IF matches THEN "right" ELSE "wrong"

\* The row is read and judged; what the verdict changes is another statement.
JudgeLatest(r) ==
  /\ In(r, "latest")
  /\ \/ (\A c \in Code : ~code[c].sent) /\ Answers(r)
     \/ \E c \in Code, matches \in BOOLEAN :
          /\ Latest(c)
          /\ IF Check(c, matches) = "idle" THEN Answers(r)
             ELSE Moves(r, Check(c, matches), req[r].who, c)
  /\ UNCHANGED <<code, account, uses, sessions>>

Tried(row) == [row EXCEPT !.tries = @ + 1]
Spent(row) == [row EXCEPT !.used = TRUE]

IncrementAttempts(r) ==
  /\ In(r, "wrong")
  /\ code' = [code EXCEPT ![req[r].code] = Tried(@)]
  /\ Answers(r)
  /\ UNCHANGED <<account, uses, sessions>>

\* Before the account is touched, whichever flow it is.
MarkCodeUsed(r) ==
  /\ In(r, "right")
  /\ code' = [code EXCEPT ![req[r].code] = Spent(@)]
  /\ uses' = [uses EXCEPT ![req[r].code] = @ + 1]
  /\ Proceeds(r, IF req[r].who = Nobody THEN "resolve" ELSE "stamp")
  /\ UNCHANGED <<account, sessions>>

MarkPhoneVerified(r) ==
  /\ In(r, "stamp")
  /\ account' = [account EXCEPT ![req[r].who].verified = @ \/ Holds(req[r].who)]
  /\ Answers(r)
  /\ UNCHANGED <<code, uses, sessions>>

-----------------------------------------------------------------------------
(* Opening a customer's session.                                           *)

\* Mutant: the role is not part of the lookup.
AnyHolder(a) == Holds(a)

\* lookupByPhone: role = 'customer' AND deleted_at IS NULL.
CustomerHolder(a) == Holds(a) /\ account[a].role = "customer"

ResolveCustomer(r) ==
  /\ In(r, "resolve")
  /\ \/ \E a \in Account : CustomerHolder(a) /\ Moves(r, "session", a, req[r].code)
     \/ (\A a \in Account : ~CustomerHolder(a)) /\ Proceeds(r, "insert")
  /\ UNCHANGED <<code, account, uses, sessions>>

NewRow(role) == [status |-> "live", role |-> role, verified |-> FALSE]

\* The unique index on the number of a row that is not deleted.
Registers(a, role) ==
  /\ account[a].status = "none" /\ ~Taken
  /\ account' = [account EXCEPT ![a] = NewRow(role)]

InsertCustomer(r) ==
  /\ In(r, "insert")
  /\ \/ \E a \in Account :
          Registers(a, "customer") /\ Moves(r, "session", a, req[r].code)
     \/ Taken /\ Proceeds(r, "again") /\ UNCHANGED account
  /\ UNCHANGED <<code, uses, sessions>>

\* The insert lost to another one: that one's row, if it is a customer's.
ResolveWinner(r) ==
  /\ In(r, "again")
  /\ \/ \E a \in Account : CustomerHolder(a) /\ Moves(r, "session", a, req[r].code)
     \/ (\A a \in Account : ~CustomerHolder(a)) /\ Answers(r)
  /\ UNCHANGED <<code, account, uses, sessions>>

StoreRefreshToken(a) == sessions' = sessions \cup {a}

StoreSession(r) ==
  /\ In(r, "session")
  /\ StoreRefreshToken(req[r].who)
  /\ Answers(r)
  /\ UNCHANGED <<code, account, uses>>

-----------------------------------------------------------------------------
(* Around them.                                                            *)

\* A statement fails, or the process dies.
Fails(r) ==
  /\ ~In(r, "idle")
  /\ Answers(r)
  /\ UNCHANGED <<code, account, uses, sessions>>

\* auth.Register for an artist, booking's CreateGuestUser for a customer.
OpenAccount(a, role) ==
  /\ Registers(a, role)
  /\ UNCHANGED <<code, req, uses, sessions>>

DeleteHolder(a) ==
  /\ Holds(a)
  /\ account' = [account EXCEPT ![a].status = "deleted"]
  /\ UNCHANGED <<code, req, uses, sessions>>

LeaveWindow(c) ==
  /\ code[c].counted
  /\ \A d \in Code : d < c => ~code[d].counted
  /\ code' = [code EXCEPT ![c].counted = FALSE]
  /\ UNCHANGED <<account, req, uses, sessions>>

ExpireCode(c) ==
  /\ code[c].live
  /\ \A d \in Code : d < c => ~code[d].live
  /\ code' = [code EXCEPT ![c].live = FALSE]
  /\ UNCHANGED <<account, req, uses, sessions>>

RequestStep(r) ==
  \/ AskToSignIn(r) \/ CountRecent(r) \/ PhoneEligible(r) \/ CreateCode(r)
  \/ SubmitToSignIn(r) \/ JudgeLatest(r) \/ IncrementAttempts(r) \/ MarkCodeUsed(r)
  \/ MarkPhoneVerified(r)
  \/ ResolveCustomer(r) \/ InsertCustomer(r) \/ ResolveWinner(r) \/ StoreSession(r)
  \/ Fails(r)
  \/ \E a \in Account : AskToVerify(r, a) \/ SubmitToVerify(r, a)

CodesNext ==
  \/ \E r \in Request : RequestStep(r)
  \/ \E a \in Account : DeleteHolder(a) \/ \E role \in {"customer", "artist"} : OpenAccount(a, role)
  \/ \E c \in Code : LeaveWindow(c) \/ ExpireCode(c)

CodesSpec == CodesInit /\ [][CodesNext]_codeVars

-----------------------------------------------------------------------------

\* Types: every row, request and history keeps its shape.
CodesTypeOK ==
  /\ code \in [Code -> CodeRow]
  /\ account \in [Account -> AccountRow]
  /\ req \in [Request -> CodeRequest]
  /\ uses \in [Code -> Nat]
  /\ sessions \subseteq Account

Most(n) == n - 1 + Cardinality(Request)

\* RateLimitMax and MaxAttempts are checked in one statement and spent in a
\* later one, with no lock: they can be overrun, but only by the requests that
\* were between the two (otp.Check, CountRecentOTPs, IncrementAttempts).
CeilingsGiveLittle ==
  /\ Cardinality(Counted) <= Most(RateMax)
  /\ \A c \in Code : code[c].tries <= Most(MaxTries)

\* A code opens a door once, "so it cannot be replayed": further requests
\* are let in by it only if they had read it before it was marked
\* (MarkVerified, after JudgeLatest).
CodeSpentOnce ==
  \A c \in Code : uses[c] <= Cardinality(Request)

\* The limits of a code - how many are sent, how often one is tried, how often
\* it opens a door - give way only to the requests between check and write.
RacesGiveLittle == CeilingsGiveLittle /\ CodeSpentOnce

\* A sign-in by code never ends in an artist's account, whoever registers
\* with the number or deletes an account between the code and the session.
SignedInAsCustomer ==
  \A a \in sessions : account[a].role = "customer"

=============================================================================
