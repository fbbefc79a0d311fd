--------------------------- MODULE AccountsProofs ---------------------------
(***************************************************************************)
(* One-time codes and sessions, for any accounts, codes, tokens, links,    *)
(* requests and limits.                                                    *)
(*                                                                         *)
(* Nothing holds a check and what it allows together, so the limits are    *)
(* not kept.  What is: a limit is overrun by no more than the requests     *)
(* that had passed its check.  Each proof counts those requests with what  *)
(* they are about to do - whoever passes the check is counted before, and  *)
(* what it does moves it from one side of the sum to the other.            *)
(***************************************************************************)
EXTENDS MCAccounts, FiniteSetTheorems, TLAPS

\* The sizes of two sets of requests.
LEMMA Sizes ==
  ASSUME NEW S, IsFiniteSet(S), NEW P \in SUBSET S, NEW Q \in SUBSET S
  PROVE  /\ Cardinality(S) \in Nat /\ Cardinality(P) \in Nat /\ Cardinality(Q) \in Nat
         /\ Cardinality(P) <= Cardinality(S)
         /\ Q \subseteq P => Cardinality(Q) <= Cardinality(P)
         /\ \A r \in P : Q \subseteq P \ {r} => Cardinality(Q) + 1 <= Cardinality(P)
         /\ \A r : Q \subseteq P \cup {r} => Cardinality(Q) <= Cardinality(P) + 1
  <1>1. IsFiniteSet(P) /\ IsFiniteSet(Q)
    BY FS_Subset
  <1>2. /\ Cardinality(S) \in Nat /\ Cardinality(P) \in Nat /\ Cardinality(Q) \in Nat
        /\ Cardinality(P) <= Cardinality(S)
        /\ Q \subseteq P => Cardinality(Q) <= Cardinality(P)
    BY <1>1, FS_CardinalityType, FS_Subset
  <1>3. ASSUME NEW r \in P, Q \subseteq P \ {r}
        PROVE  Cardinality(Q) + 1 <= Cardinality(P)
    <2>1. IsFiniteSet(P \ {r}) /\ Cardinality(P \ {r}) = Cardinality(P) - 1
      BY <1>1, FS_RemoveElement
    <2>2. Cardinality(Q) <= Cardinality(P \ {r})
      BY <1>3, <2>1, FS_Subset
    <2> QED BY <1>2, <2>1, <2>2
  <1>4. ASSUME NEW r, Q \subseteq P \cup {r}
        PROVE  Cardinality(Q) <= Cardinality(P) + 1
    <2>1. IsFiniteSet(P \cup {r}) /\ Cardinality(P \cup {r}) <= Cardinality(P) + 1
      <3>1. CASE r \in P
        <4>1. P \cup {r} = P
          BY <3>1
        <4> QED BY <1>1, <1>2, <4>1
      <3>2. CASE r \notin P
        <4>1. IsFiniteSet(P \cup {r}) /\ Cardinality(P \cup {r}) = Cardinality(P) + 1
          BY <1>1, <3>2, FS_AddElement
        <4> QED BY <1>2, <4>1
      <3> QED BY <3>1, <3>2
    <2>2. Cardinality(Q) <= Cardinality(P \cup {r})
      BY <1>4, <2>1, FS_Subset
    <2>3. Cardinality(P \cup {r}) \in Nat
      BY <2>1, FS_CardinalityType
    <2> QED BY <1>2, <2>1, <2>2, <2>3
  <1> QED BY <1>2, <1>3, <1>4

-----------------------------------------------------------------------------
(* Codes.                                                                  *)

\* Past the check, and not done: about to send a code, about to count a try
\* of c, about to mark c used.
Sending == {r \in Request : req[r].step \in {"eligible", "issue"}}
Trying(c) == {r \in Request : req[r].step = "wrong" /\ req[r].code = c}
Using(c) == {r \in Request : req[r].step = "right" /\ req[r].code = c}

Limits ==
  /\ Cardinality(Counted) + Cardinality(Sending) <= Most(RateMax)
  /\ \A c \in Code :
       /\ code[c].tries + Cardinality(Trying(c)) <= Most(MaxTries)
       /\ uses[c] + Cardinality(Using(c)) <= Cardinality(Request)

\* A code that was not sent has done nothing, one that was accepted is used.
Issued ==
  /\ \A c \in Code :
       /\ code[c].counted \/ code[c].used => code[c].sent
       /\ uses[c] > 0 => code[c].used
  /\ \A r \in Request :
       req[r].step \in {"wrong", "right"} => req[r].code \in Code /\ code[req[r].code].sent

\* A session is opened for an account that is, or was, a customer's.
Customers ==
  /\ \A a \in sessions : account[a].status # "none" /\ account[a].role = "customer"
  /\ \A r \in Request :
       req[r].step = "session" =>
         /\ req[r].who \in Account
         /\ account[req[r].who].status # "none" /\ account[req[r].who].role = "customer"

CodesInv == CodesTypeOK /\ Limits /\ Issued /\ Customers

LEMMA Ceilings ==
  /\ RateMax \in Nat \ {0} /\ MaxTries \in Nat \ {0} /\ IsFiniteSet(Code)
  /\ IsFiniteSet(Request) /\ Cardinality(Request) \in Nat /\ 0 \notin Code
  /\ Most(RateMax) \in Int /\ Most(MaxTries) \in Int
  BY CodeParameters, FS_CardinalityType DEF Most

\* What the sums are made of are numbers.
LEMMA Counts ==
  /\ Cardinality(Counted) \in Nat
  /\ Cardinality(Sending) \in Nat /\ Cardinality(Sending) <= Cardinality(Request)
  /\ \A c \in Code :
       /\ Cardinality(Trying(c)) \in Nat /\ Cardinality(Trying(c)) <= Cardinality(Request)
       /\ Cardinality(Using(c)) \in Nat /\ Cardinality(Using(c)) <= Cardinality(Request)
  <1>1. Counted \in SUBSET Code
    BY DEF Counted
  <1>2. Sending \in SUBSET Request
    BY DEF Sending
  <1>3. \A c \in Code : Trying(c) \in SUBSET Request /\ Using(c) \in SUBSET Request
    BY DEF Trying, Using
  <1> QED BY <1>1, <1>2, <1>3, Ceilings, Sizes

\* Where a request goes: the others stay.
LEMMA MovesTyped ==
  ASSUME CodesTypeOK, NEW r \in Request, NEW step \in CodeSteps,
         NEW who \in Account \cup {Nobody}, NEW c \in Code \cup {0}, Moves(r, step, who, c)
  PROVE  /\ req' \in [Request -> CodeRequest]
         /\ req'[r].step = step /\ req'[r].who = who /\ req'[r].code = c
         /\ \A x \in Request : x # r => req'[x] = req[x]
  BY DEF CodesTypeOK, CodeRequest, Moves

\* A request that passes no check takes part in no sum.
LEMMA NoneAdded ==
  ASSUME CodesTypeOK, NEW r \in Request, NEW step,
         req'[r].step = step, \A x \in Request : x # r => req'[x] = req[x]
  PROVE  /\ step \notin {"eligible", "issue"} \/ r \in Sending => Sending' \subseteq Sending
         /\ step \notin {"eligible", "issue"} => Sending' \subseteq Sending \ {r}
         /\ step # "wrong" => \A c \in Code : Trying(c)' \subseteq Trying(c) \ {r}
         /\ step # "right" => \A c \in Code : Using(c)' \subseteq Using(c) \ {r}
  BY DEF Sending, Trying, Using

\* Fewer requests on their way, and no more done.
LEMMA LimitsStay ==
  ASSUME CodesInv, Sending' \subseteq Sending, Counted' \subseteq Counted,
         \A c \in Code :
           /\ Trying(c)' \subseteq Trying(c) /\ Using(c)' \subseteq Using(c)
           /\ code'[c].tries = code[c].tries /\ uses'[c] = uses[c]
  PROVE  Limits'
  <1>1. Sending' \in SUBSET Request /\ Sending \in SUBSET Request
    BY DEF Sending
  <1>2. Counted' \in SUBSET Code /\ Counted \in SUBSET Code
    BY DEF Counted
  <1>3. Cardinality(Sending') <= Cardinality(Sending) /\ Cardinality(Sending') \in Nat
    BY <1>1, Ceilings, Sizes
  <1>4. Cardinality(Counted') <= Cardinality(Counted) /\ Cardinality(Counted') \in Nat
    BY <1>2, Ceilings, Sizes
  <1>5. Cardinality(Counted') + Cardinality(Sending') <= Most(RateMax)
    BY <1>3, <1>4, Counts, Ceilings DEF CodesInv, Limits
  <1>6. ASSUME NEW c \in Code
        PROVE  /\ code'[c].tries + Cardinality(Trying(c)') <= Most(MaxTries)
               /\ uses'[c] + Cardinality(Using(c)') <= Cardinality(Request)
    <2>1. /\ Trying(c)' \in SUBSET Request /\ Trying(c) \in SUBSET Request
          /\ Using(c)' \in SUBSET Request /\ Using(c) \in SUBSET Request
      BY DEF Trying, Using
    <2>2. /\ Cardinality(Trying(c)') <= Cardinality(Trying(c)) /\ Cardinality(Trying(c)') \in Nat
          /\ Cardinality(Using(c)') <= Cardinality(Using(c)) /\ Cardinality(Using(c)') \in Nat
      BY <2>1, Ceilings, Sizes
    <2>3. code[c].tries \in Nat /\ uses[c] \in Nat
      BY DEF CodesInv, CodesTypeOK, CodeRow
    <2> QED BY <2>2, <2>3, Counts, Ceilings DEF CodesInv, Limits
  <1> QED BY <1>5, <1>6 DEF Limits

\* A step that only moves a request, past no check of a limit.
LEMMA RequestGoesOn ==
  ASSUME CodesInv, NEW r \in Request, NEW step \in CodeSteps \ {"wrong", "right"},
         NEW who \in Account \cup {Nobody}, NEW c \in Code \cup {0}, Moves(r, step, who, c),
         step \notin {"eligible", "issue"} \/ r \in Sending,
         UNCHANGED <<code, uses>>,
         account' \in [Account -> AccountRow], sessions' \subseteq Account,
         \A a \in Account :
           account[a].status # "none" =>
             account'[a].status # "none" /\ account'[a].role = account[a].role,
         \A a \in sessions' :
           a \in sessions \/ (account'[a].status # "none" /\ account'[a].role = "customer"),
         step = "session" =>
           who \in Account /\ account'[who].status # "none" /\ account'[who].role = "customer"
  PROVE  CodesInv'
  <1>1. /\ req' \in [Request -> CodeRequest]
        /\ req'[r].step = step /\ req'[r].who = who /\ req'[r].code = c
        /\ \A x \in Request : x # r => req'[x] = req[x]
    BY MovesTyped DEF CodesInv
  <1>2. CodesTypeOK'
    BY <1>1 DEF CodesInv, CodesTypeOK
  <1>3. /\ Sending' \subseteq Sending
        /\ \A d \in Code : Trying(d)' \subseteq Trying(d) /\ Using(d)' \subseteq Using(d)
    BY <1>1, NoneAdded DEF CodesInv
  <1>4. Counted' \subseteq Counted
    BY DEF Counted
  <1>5. Limits'
    BY <1>3, <1>4, LimitsStay
  <1>6. Issued'
    BY <1>1 DEF CodesInv, Issued
  <1>7. ASSUME NEW a \in sessions'
        PROVE  account'[a].status # "none" /\ account'[a].role = "customer"
    BY <1>7 DEF CodesInv, CodesTypeOK, Customers
  <1>8. ASSUME NEW x \in Request, req'[x].step = "session"
        PROVE  /\ req'[x].who \in Account
               /\ account'[req'[x].who].status # "none"
               /\ account'[req'[x].who].role = "customer"
    <2>1. CASE x = r
      BY <1>1, <1>8, <2>1
    <2>2. CASE x # r
      BY <1>1, <1>8, <2>2 DEF CodesInv, Customers
    <2> QED BY <2>1, <2>2
  <1>9. Customers'
    BY <1>7, <1>8 DEF Customers
  <1> QED BY <1>2, <1>5, <1>6, <1>9 DEF CodesInv

\* ... and changes no account.
LEMMA OnlyRequestGoesOn ==
  ASSUME CodesInv, NEW r \in Request, NEW step \in CodeSteps \ {"wrong", "right"},
         NEW who \in Account \cup {Nobody}, NEW c \in Code \cup {0}, Moves(r, step, who, c),
         step \notin {"eligible", "issue"} \/ r \in Sending,
         UNCHANGED <<code, account, uses, sessions>>,
         step = "session" =>
           who \in Account /\ account[who].status # "none" /\ account[who].role = "customer"
  PROVE  CodesInv'
  BY RequestGoesOn DEF CodesInv, CodesTypeOK, Customers

LEMMA Carried ==
  ASSUME CodesInv, NEW r \in Request
  PROVE  req[r].who \in Account \cup {Nobody} /\ req[r].code \in Code \cup {0}
  BY DEF CodesInv, CodesTypeOK, CodeRequest

LEMMA AnswersOK ==
  ASSUME CodesInv, NEW r \in Request, Answers(r), UNCHANGED <<code, account, uses, sessions>>
  PROVE  CodesInv'
  BY OnlyRequestGoesOn DEF Answers, CodeSteps

LEMMA AsksOK ==
  ASSUME CodesInv, NEW r \in Request,
         \/ AskToSignIn(r) \/ SubmitToSignIn(r)
         \/ \E a \in Account : AskToVerify(r, a) \/ SubmitToVerify(r, a)
  PROVE  CodesInv'
  BY OnlyRequestGoesOn DEF AskToSignIn, SubmitToSignIn, AskToVerify, SubmitToVerify, CodeSteps

\* Let through below the limit: the codes sent and those about to be are then
\* no more than the limit allows.
LEMMA CountRecentOK ==
  ASSUME CodesInv, NEW r \in Request, CountRecent(r)
  PROVE  CodesInv'
  <1>1. CASE Answers(r)
    BY <1>1, AnswersOK DEF CountRecent
  <1>2. CASE Cardinality(Counted) < RateMax
    <2>1. PICK step : step = IF req[r].who = Nobody THEN "eligible" ELSE "issue"
      OBVIOUS
    <2>2. PICK who \in Account \cup {Nobody} : who = req[r].who
      BY Carried
    <2>3. PICK c \in Code \cup {0} : c = req[r].code
      BY Carried
    <2>4. ~(Cardinality(Counted) >= RateMax)
      BY <1>2, Counts, Ceilings
    <2>5. step \in CodeSteps /\ Moves(r, step, who, c) /\ UNCHANGED <<code, account, uses, sessions>>
      BY <2>1, <2>2, <2>3, <2>4 DEF CountRecent, Proceeds, CodeSteps
    <2>6. /\ req' \in [Request -> CodeRequest] /\ req'[r].step = step
          /\ \A x \in Request : x # r => req'[x] = req[x]
      BY <2>5, MovesTyped DEF CodesInv
    <2>7. step \in {"eligible", "issue"}
      BY <2>1
    <2>8. \A d \in Code : Trying(d)' \subseteq Trying(d) /\ Using(d)' \subseteq Using(d)
      BY <2>6, <2>7, NoneAdded DEF CodesInv
    <2>9. Counted' = Counted /\ Cardinality(Counted') < RateMax
      BY <1>2, <2>5 DEF Counted
    <2>10. Sending' \in SUBSET Request
      BY DEF Sending
    <2>11. Cardinality(Sending') \in Nat /\ Cardinality(Sending') <= Cardinality(Request)
      BY <2>10, Ceilings, Sizes
    <2>12. Cardinality(Counted') + Cardinality(Sending') <= Most(RateMax)
      BY <2>9, <2>11, Counts, Ceilings DEF Most
    <2>13. ASSUME NEW d \in Code
           PROVE  /\ code'[d].tries + Cardinality(Trying(d)') <= Most(MaxTries)
                  /\ uses'[d] + Cardinality(Using(d)') <= Cardinality(Request)
      <3>1. /\ Trying(d)' \in SUBSET Request /\ Trying(d) \in SUBSET Request
            /\ Using(d)' \in SUBSET Request /\ Using(d) \in SUBSET Request
        BY DEF Trying, Using
      <3>2. /\ Cardinality(Trying(d)') <= Cardinality(Trying(d)) /\ Cardinality(Trying(d)') \in Nat
            /\ Cardinality(Using(d)') <= Cardinality(Using(d)) /\ Cardinality(Using(d)') \in Nat
        BY <2>8, <3>1, Ceilings, Sizes
      <3>3. code[d].tries \in Nat /\ uses[d] \in Nat
        BY DEF CodesInv, CodesTypeOK, CodeRow
      <3> QED BY <2>5, <3>2, <3>3, Counts, Ceilings DEF CodesInv, Limits
    <2>14. Limits'
      BY <2>12, <2>13 DEF Limits
    <2>15. CodesTypeOK' /\ Issued' /\ Customers'
      BY <2>5, <2>6, <2>7 DEF CodesInv, CodesTypeOK, Issued, Customers
    <2> QED BY <2>14, <2>15 DEF CodesInv
  <1>3. Answers(r) \/ Cardinality(Counted) < RateMax
    BY Counts, Ceilings DEF CountRecent
  <1> QED BY <1>1, <1>2, <1>3

LEMMA PhoneEligibleOK ==
  ASSUME CodesInv, NEW r \in Request, PhoneEligible(r)
  PROVE  CodesInv'
  <1>1. CASE Answers(r)
    BY <1>1, AnswersOK DEF PhoneEligible
  <1>2. CASE Proceeds(r, "issue")
    <2>1. r \in Sending
      BY DEF PhoneEligible, In, Sending
    <2> QED BY <1>2, <2>1, Carried, OnlyRequestGoesOn DEF PhoneEligible, Proceeds, CodeSteps
  <1> QED BY <1>1, <1>2 DEF PhoneEligible

\* One code more that counts, one request less that is about to send.
LEMMA CreateCodeOK ==
  ASSUME CodesInv, NEW r \in Request, CreateCode(r)
  PROVE  CodesInv'
  <1>1. PICK c \in Code : ~code[c].sent /\ code' = [code EXCEPT ![c] = Fresh]
    BY DEF CreateCode, Next1
  <1>2. UNCHANGED <<account, uses, sessions>> /\ r \in Sending
    BY DEF CreateCode, In, Sending
  <1>3. /\ req' \in [Request -> CodeRequest] /\ req'[r].step = "idle"
        /\ \A x \in Request : x # r => req'[x] = req[x]
    BY MovesTyped DEF CreateCode, Answers, CodesInv, CodeSteps
  <1>4. Fresh \in CodeRow /\ Fresh.sent /\ Fresh.counted /\ Fresh.tries = 0 /\ ~Fresh.used
    BY DEF Fresh, CodeRow
  <1>5. /\ code' \in [Code -> CodeRow] /\ code'[c] = Fresh
        /\ \A d \in Code : d # c => code'[d] = code[d]
    BY <1>1, <1>4 DEF CodesInv, CodesTypeOK
  <1>6. CodesTypeOK'
    BY <1>2, <1>3, <1>5 DEF CodesInv, CodesTypeOK
  <1>7. uses[c] = 0
    BY <1>1 DEF CodesInv, CodesTypeOK, Issued
  <1>8. Issued'
    BY <1>2, <1>3, <1>4, <1>5, <1>7 DEF CodesInv, CodesTypeOK, Issued
  <1>9. Customers'
    BY <1>2, <1>3 DEF CodesInv, Customers
  <1>10. /\ Sending' \subseteq Sending \ {r}
         /\ \A d \in Code : Trying(d)' \subseteq Trying(d) /\ Using(d)' \subseteq Using(d)
    BY <1>3, NoneAdded DEF CodesInv
  <1>11. Cardinality(Sending') + 1 <= Cardinality(Sending) /\ Cardinality(Sending') \in Nat
    <2>1. Sending' \in SUBSET Request /\ Sending \in SUBSET Request
      BY DEF Sending
    <2> QED BY <1>2, <1>10, <2>1, Ceilings, Sizes
  <1>12. Cardinality(Counted') <= Cardinality(Counted) + 1 /\ Cardinality(Counted') \in Nat
    <2>1. Counted' \in SUBSET Code /\ Counted \in SUBSET Code /\ Counted' \subseteq Counted \cup {c}
      BY <1>5 DEF Counted
    <2> QED BY <2>1, Ceilings, Sizes
  <1>13. Cardinality(Counted') + Cardinality(Sending') <= Most(RateMax)
    BY <1>11, <1>12, Counts, Ceilings DEF CodesInv, Limits
  <1>14. ASSUME NEW d \in Code
         PROVE  /\ code'[d].tries + Cardinality(Trying(d)') <= Most(MaxTries)
                /\ uses'[d] + Cardinality(Using(d)') <= Cardinality(Request)
    <2>1. /\ Trying(d)' \in SUBSET Request /\ Trying(d) \in SUBSET Request
          /\ Using(d)' \in SUBSET Request /\ Using(d) \in SUBSET Request
      BY DEF Trying, Using
    <2>2. /\ Cardinality(Trying(d)') <= Cardinality(Trying(d)) /\ Cardinality(Trying(d)') \in Nat
          /\ Cardinality(Using(d)') <= Cardinality(Using(d)) /\ Cardinality(Using(d)') \in Nat
      BY <1>10, <2>1, Ceilings, Sizes
    <2>3. code[d].tries \in Nat /\ uses[d] \in Nat /\ code'[d].tries <= code[d].tries
          /\ code'[d].tries \in Nat /\ uses'[d] = uses[d]
      BY <1>2, <1>4, <1>5 DEF CodesInv, CodesTypeOK, CodeRow
    <2> QED BY <2>2, <2>3, Counts, Ceilings DEF CodesInv, Limits
  <1>15. Limits'
    BY <1>13, <1>14 DEF Limits
  <1> QED BY <1>6, <1>8, <1>9, <1>15 DEF CodesInv

\* Judged by a row that says unused, and tried less than the limit: with what
\* is on its way, that is within the requests there are.
LEMMA JudgeLatestOK ==
  ASSUME CodesInv, NEW r \in Request, JudgeLatest(r)
  PROVE  CodesInv'
  <1>1. CASE Answers(r)
    BY <1>1, AnswersOK DEF JudgeLatest
  <1>2. ASSUME NEW c \in Code, NEW step \in {"wrong", "right"}, code[c].sent, ~code[c].used,
               code[c].tries < MaxTries, Moves(r, step, req[r].who, c)
        PROVE  CodesInv'
    <2>1. UNCHANGED <<code, account, uses, sessions>>
      BY DEF JudgeLatest
    <2>2. PICK who \in Account \cup {Nobody} : who = req[r].who
      BY Carried
    <2>3. /\ req' \in [Request -> CodeRequest] /\ req'[r].step = step /\ req'[r].code = c
          /\ \A x \in Request : x # r => req'[x] = req[x]
      BY <1>2, <2>2, MovesTyped DEF CodesInv, CodeSteps
    <2>4. CodesTypeOK' /\ Issued' /\ Customers'
      BY <1>2, <2>1, <2>3 DEF CodesInv, CodesTypeOK, Issued, Customers
    <2>5. Sending' \subseteq Sending /\ Counted' = Counted
      BY <2>1, <2>3 DEF Sending, Counted
    <2>6. Cardinality(Counted') + Cardinality(Sending') <= Most(RateMax)
      <3>1. Sending' \in SUBSET Request /\ Sending \in SUBSET Request
        BY DEF Sending
      <3>2. Cardinality(Sending') <= Cardinality(Sending) /\ Cardinality(Sending') \in Nat
        BY <2>5, <3>1, Ceilings, Sizes
      <3> QED BY <2>5, <3>2, Counts, Ceilings DEF CodesInv, Limits
    <2>7. ASSUME NEW d \in Code
          PROVE  /\ code'[d].tries + Cardinality(Trying(d)') <= Most(MaxTries)
                 /\ uses'[d] + Cardinality(Using(d)') <= Cardinality(Request)
      <3>1. /\ Trying(d)' \in SUBSET Request /\ Trying(d) \in SUBSET Request
            /\ Using(d)' \in SUBSET Request /\ Using(d) \in SUBSET Request
        BY DEF Trying, Using
      <3>2. /\ Cardinality(Trying(d)') <= Cardinality(Request) /\ Cardinality(Trying(d)') \in Nat
            /\ Cardinality(Using(d)') <= Cardinality(Request) /\ Cardinality(Using(d)') \in Nat
        BY <3>1, Ceilings, Sizes
      <3>3. code[d].tries \in Nat /\ uses[d] \in Nat
        BY DEF CodesInv, CodesTypeOK, CodeRow
      <3>4. CASE d = c
        <4>1. uses[c] = 0
          BY <1>2 DEF CodesInv, CodesTypeOK, Issued
        <4> QED BY <1>2, <2>1, <3>2, <3>3, <3>4, <4>1, Ceilings DEF Most
      <3>5. CASE d # c
        <4>1. Trying(d)' \subseteq Trying(d) /\ Using(d)' \subseteq Using(d)
          BY <2>3, <3>5 DEF Trying, Using
        <4>2. /\ Cardinality(Trying(d)') <= Cardinality(Trying(d))
              /\ Cardinality(Using(d)') <= Cardinality(Using(d))
          BY <3>1, <4>1, Ceilings, Sizes
        <4> QED BY <2>1, <3>2, <3>3, <4>2, Counts, Ceilings DEF CodesInv, Limits
      <3> QED BY <3>4, <3>5
    <2>8. Limits'
      BY <2>6, <2>7 DEF Limits
    <2> QED BY <2>4, <2>8 DEF CodesInv
  <1>3. ASSUME NEW c \in Code, NEW matches \in BOOLEAN, Latest(c), Check(c, matches) # "idle",
               Moves(r, Check(c, matches), req[r].who, c)
        PROVE  CodesInv'
    <2>1. PICK step : step = Check(c, matches)
      OBVIOUS
    <2>2. code[c].tries \in Nat
      BY DEF CodesInv, CodesTypeOK, CodeRow
    <2>3. /\ step \in {"wrong", "right"} /\ ~code[c].used /\ code[c].tries < MaxTries
      BY <1>3, <2>1, <2>2, Ceilings DEF Check
    <2> QED BY <1>2, <1>3, <2>1, <2>3 DEF Latest
  <1> QED BY <1>1, <1>3 DEF JudgeLatest

\* From about to be counted to counted.
LEMMA IncrementAttemptsOK ==
  ASSUME CodesInv, NEW r \in Request, IncrementAttempts(r)
  PROVE  CodesInv'
  <1>1. PICK c \in Code : c = req[r].code /\ r \in Trying(c) /\ code[c].sent
    BY DEF IncrementAttempts, In, CodesInv, Issued, Trying
  <1>2. PICK row : row = [code[c] EXCEPT !.tries = @ + 1]
    OBVIOUS
  <1>3. PICK old : old = code[c]
    OBVIOUS
  <1>4. old \in CodeRow /\ old.tries \in Nat
    BY <1>3 DEF CodesInv, CodesTypeOK, CodeRow
  <1>5. row = [sent |-> old.sent, counted |-> old.counted, live |-> old.live, used |-> old.used,
               tries |-> old.tries + 1]
    BY <1>2, <1>3, <1>4 DEF CodeRow
  <1>6. row \in CodeRow /\ row.tries = old.tries + 1
    BY <1>4, <1>5 DEF CodeRow
  <1>7. code' = [code EXCEPT ![c] = row] /\ UNCHANGED <<account, uses, sessions>>
    BY <1>1, <1>2 DEF IncrementAttempts, Tried, CodesInv, CodesTypeOK
  <1>8. /\ code' \in [Code -> CodeRow] /\ code'[c] = row
        /\ \A d \in Code : d # c => code'[d] = code[d]
    BY <1>6, <1>7 DEF CodesInv, CodesTypeOK
  <1>9. /\ req' \in [Request -> CodeRequest] /\ req'[r].step = "idle"
        /\ \A x \in Request : x # r => req'[x] = req[x]
    BY MovesTyped DEF IncrementAttempts, Answers, CodesInv, CodeSteps
  <1>10. \A d \in Code : /\ code'[d].sent = code[d].sent /\ code'[d].counted = code[d].counted
                         /\ code'[d].used = code[d].used
    BY <1>3, <1>5, <1>8
  <1>11. CodesTypeOK' /\ Issued' /\ Customers'
    BY <1>7, <1>8, <1>9, <1>10 DEF CodesInv, CodesTypeOK, Issued, Customers
  <1>12. /\ Sending' \subseteq Sending /\ Counted' = Counted
         /\ \A d \in Code : Trying(d)' \subseteq Trying(d) \ {r} /\ Using(d)' \subseteq Using(d)
    BY <1>9, <1>10, NoneAdded DEF CodesInv, Counted
  <1>13. Cardinality(Counted') + Cardinality(Sending') <= Most(RateMax)
    <2>1. Sending' \in SUBSET Request /\ Sending \in SUBSET Request
      BY DEF Sending
    <2>2. Cardinality(Sending') <= Cardinality(Sending) /\ Cardinality(Sending') \in Nat
      BY <1>12, <2>1, Ceilings, Sizes
    <2> QED BY <1>12, <2>2, Counts, Ceilings DEF CodesInv, Limits
  <1>14. ASSUME NEW d \in Code
         PROVE  /\ code'[d].tries + Cardinality(Trying(d)') <= Most(MaxTries)
                /\ uses'[d] + Cardinality(Using(d)') <= Cardinality(Request)
    <2>1. /\ Trying(d)' \in SUBSET Request /\ Trying(d) \in SUBSET Request
          /\ Using(d)' \in SUBSET Request /\ Using(d) \in SUBSET Request
      BY DEF Trying, Using
    <2>2. /\ Cardinality(Trying(d)') <= Cardinality(Trying(d)) /\ Cardinality(Trying(d)') \in Nat
          /\ d = c => Cardinality(Trying(d)') + 1 <= Cardinality(Trying(d))
          /\ Cardinality(Using(d)') <= Cardinality(Using(d)) /\ Cardinality(Using(d)') \in Nat
      BY <1>1, <1>12, <2>1, Ceilings, Sizes
    <2>3. /\ code[d].tries \in Nat /\ uses[d] \in Nat /\ uses'[d] = uses[d]
          /\ d = c => code'[d].tries = code[d].tries + 1
          /\ d # c => code'[d].tries = code[d].tries
      BY <1>3, <1>6, <1>7, <1>8 DEF CodesInv, CodesTypeOK, CodeRow
    <2> QED BY <2>2, <2>3, Counts, Ceilings DEF CodesInv, Limits
  <1>15. Limits'
    BY <1>13, <1>14 DEF Limits
  <1> QED BY <1>11, <1>15 DEF CodesInv

\* From about to be used to used.
LEMMA MarkCodeUsedOK ==
  ASSUME CodesInv, NEW r \in Request, MarkCodeUsed(r)
  PROVE  CodesInv'
  <1>1. PICK c \in Code : c = req[r].code /\ r \in Using(c) /\ code[c].sent
    BY DEF MarkCodeUsed, In, CodesInv, Issued, Using
  <1>2. PICK old : old = code[c]
    OBVIOUS
  <1>3. PICK row : row = [old EXCEPT !.used = TRUE]
    OBVIOUS
  <1>4. old \in CodeRow /\ old.tries \in Nat
    BY <1>2 DEF CodesInv, CodesTypeOK, CodeRow
  <1>5. row = [sent |-> old.sent, counted |-> old.counted, live |-> old.live, used |-> TRUE,
               tries |-> old.tries]
    BY <1>3, <1>4 DEF CodeRow
  <1>6. row \in CodeRow
    BY <1>4, <1>5 DEF CodeRow
  <1>7. code' = [code EXCEPT ![c] = row] /\ UNCHANGED <<account, sessions>>
    BY <1>1, <1>2, <1>3 DEF MarkCodeUsed, Spent, CodesInv, CodesTypeOK
  <1>8. /\ code' \in [Code -> CodeRow] /\ code'[c] = row
        /\ \A d \in Code : d # c => code'[d] = code[d]
    BY <1>6, <1>7 DEF CodesInv, CodesTypeOK
  <1>9. /\ uses' \in [Code -> Nat] /\ uses'[c] = uses[c] + 1
        /\ \A d \in Code : d # c => uses'[d] = uses[d]
    BY <1>1 DEF MarkCodeUsed, CodesInv, CodesTypeOK
  <1>10. PICK step : step = IF req[r].who = Nobody THEN "resolve" ELSE "stamp"
    OBVIOUS
  <1>11. PICK who \in Account \cup {Nobody} : who = req[r].who
    BY Carried
  <1>12. /\ req' \in [Request -> CodeRequest] /\ req'[r].step = step
         /\ \A x \in Request : x # r => req'[x] = req[x]
    BY <1>1, <1>10, <1>11, MovesTyped DEF MarkCodeUsed, Proceeds, CodesInv, CodeSteps
  <1>13. step \in {"resolve", "stamp"}
    BY <1>10
  <1>14. \A d \in Code : /\ code'[d].sent = code[d].sent /\ code'[d].counted = code[d].counted
                         /\ code'[d].tries = code[d].tries
                         /\ d = c => code'[d].used
    BY <1>2, <1>5, <1>8
  <1>15. CodesTypeOK' /\ Customers'
    BY <1>7, <1>8, <1>9, <1>12, <1>13 DEF CodesInv, CodesTypeOK, Customers
  <1>16. Issued'
    <2>1. ASSUME NEW d \in Code
          PROVE  /\ code'[d].counted \/ code'[d].used => code'[d].sent
                 /\ uses'[d] > 0 => code'[d].used
      BY <1>1, <1>8, <1>9, <1>14 DEF CodesInv, Issued
    <2>2. ASSUME NEW x \in Request, req'[x].step \in {"wrong", "right"}
          PROVE  req'[x].code \in Code /\ code'[req'[x].code].sent
      <3>1. x # r /\ req'[x] = req[x]
        BY <1>12, <1>13, <2>2
      <3> QED BY <1>14, <2>2, <3>1 DEF CodesInv, Issued
    <2> QED BY <2>1, <2>2 DEF Issued
  <1>17. /\ Sending' \subseteq Sending /\ Counted' = Counted
         /\ \A d \in Code : Trying(d)' \subseteq Trying(d) /\ Using(d)' \subseteq Using(d) \ {r}
    BY <1>12, <1>13, <1>14, NoneAdded DEF CodesInv, Counted
  <1>18. Cardinality(Counted') + Cardinality(Sending') <= Most(RateMax)
    <2>1. Sending' \in SUBSET Request /\ Sending \in SUBSET Request
      BY DEF Sending
    <2>2. Cardinality(Sending') <= Cardinality(Sending) /\ Cardinality(Sending') \in Nat
      BY <1>17, <2>1, Ceilings, Sizes
    <2> QED BY <1>17, <2>2, Counts, Ceilings DEF CodesInv, Limits
  <1>19. ASSUME NEW d \in Code
         PROVE  /\ code'[d].tries + Cardinality(Trying(d)') <= Most(MaxTries)
                /\ uses'[d] + Cardinality(Using(d)') <= Cardinality(Request)
    <2>1. /\ Trying(d)' \in SUBSET Request /\ Trying(d) \in SUBSET Request
          /\ Using(d)' \in SUBSET Request /\ Using(d) \in SUBSET Request
      BY DEF Trying, Using
    <2>2. /\ Cardinality(Trying(d)') <= Cardinality(Trying(d)) /\ Cardinality(Trying(d)') \in Nat
          /\ d = c => Cardinality(Using(d)') + 1 <= Cardinality(Using(d))
          /\ Cardinality(Using(d)') <= Cardinality(Using(d)) /\ Cardinality(Using(d)') \in Nat
      BY <1>1, <1>17, <2>1, Ceilings, Sizes
    <2>3. code[d].tries \in Nat /\ uses[d] \in Nat
      BY DEF CodesInv, CodesTypeOK, CodeRow
    <2> QED BY <1>9, <1>14, <2>2, <2>3, Counts, Ceilings DEF CodesInv, Limits
  <1>20. Limits'
    BY <1>18, <1>19 DEF Limits
  <1> QED BY <1>15, <1>16, <1>20 DEF CodesInv

LEMMA MarkPhoneVerifiedOK ==
  ASSUME CodesInv, NEW r \in Request, MarkPhoneVerified(r)
  PROVE  CodesInv'
  <1>1. PICK a : a = req[r].who
    OBVIOUS
  <1>2. PICK row : row = [account[a] EXCEPT !.verified = @ \/ Holds(a)]
    OBVIOUS
  <1>3. account' = [account EXCEPT ![a] = row]
    BY <1>1, <1>2 DEF MarkPhoneVerified, CodesInv, CodesTypeOK
  <1>4. ASSUME a \in Account
        PROVE  row \in AccountRow /\ row.status = account[a].status /\ row.role = account[a].role
    <2>1. account[a] \in AccountRow /\ (account[a].verified \/ Holds(a)) \in BOOLEAN
      BY <1>4 DEF CodesInv, CodesTypeOK, AccountRow, Holds
    <2>2. row = [status |-> account[a].status, role |-> account[a].role,
                 verified |-> (account[a].verified \/ Holds(a))]
      BY <1>2, <2>1 DEF AccountRow
    <2> QED BY <2>1, <2>2 DEF AccountRow
  <1>5. /\ account' \in [Account -> AccountRow]
        /\ \A x \in Account : /\ account'[x].status = account[x].status
                              /\ account'[x].role = account[x].role
    BY <1>3, <1>4 DEF CodesInv, CodesTypeOK
  <1> QED BY <1>5, RequestGoesOn
          DEF MarkPhoneVerified, Answers, CodeSteps, CodesInv, CodesTypeOK

LEMMA ResolvesOK ==
  ASSUME CodesInv, NEW r \in Request, ResolveCustomer(r) \/ ResolveWinner(r)
  PROVE  CodesInv'
  <1>1. UNCHANGED <<code, account, uses, sessions>>
    BY DEF ResolveCustomer, ResolveWinner
  <1>2. ASSUME NEW a \in Account, CustomerHolder(a), Moves(r, "session", a, req[r].code)
        PROVE  CodesInv'
    <2>1. PICK c \in Code \cup {0} : c = req[r].code
      BY Carried
    <2>2. account[a].status # "none" /\ account[a].role = "customer"
      BY <1>2 DEF CustomerHolder, Holds
    <2> QED BY <1>1, <1>2, <2>1, <2>2, OnlyRequestGoesOn DEF CodeSteps
  <1>3. CASE Proceeds(r, "insert")
    BY <1>1, <1>3, Carried, OnlyRequestGoesOn DEF Proceeds, CodeSteps
  <1>4. CASE Answers(r)
    BY <1>1, <1>4, AnswersOK
  <1> QED BY <1>2, <1>3, <1>4 DEF ResolveCustomer, ResolveWinner

LEMMA RegistersOK ==
  ASSUME CodesInv, NEW a \in Account, NEW role \in {"customer", "artist"}, Registers(a, role)
  PROVE  /\ account' \in [Account -> AccountRow]
         /\ account[a].status = "none" /\ account'[a].status = "live" /\ account'[a].role = role
         /\ \A x \in Account : x # a => account'[x] = account[x]
  <1>1. /\ NewRow(role) \in AccountRow
        /\ NewRow(role).status = "live" /\ NewRow(role).role = role
    BY DEF NewRow, AccountRow
  <1> QED BY <1>1 DEF Registers, CodesInv, CodesTypeOK

LEMMA InsertCustomerOK ==
  ASSUME CodesInv, NEW r \in Request, InsertCustomer(r)
  PROVE  CodesInv'
  <1>1. UNCHANGED <<code, uses, sessions>>
    BY DEF InsertCustomer
  <1>2. PICK c \in Code \cup {0} : c = req[r].code
    BY Carried
  <1>3. ASSUME NEW a \in Account, Registers(a, "customer"), Moves(r, "session", a, c)
        PROVE  CodesInv'
    <2>1. /\ account' \in [Account -> AccountRow]
          /\ account[a].status = "none"
          /\ account'[a].status = "live" /\ account'[a].role = "customer"
          /\ \A x \in Account : x # a => account'[x] = account[x]
      BY <1>3, RegistersOK
    <2> QED BY <1>1, <1>3, <2>1, RequestGoesOn DEF CodeSteps, CodesInv, CodesTypeOK
  <1>4. CASE Proceeds(r, "again") /\ UNCHANGED account
    BY <1>1, <1>4, Carried, OnlyRequestGoesOn DEF Proceeds, CodeSteps
  <1> QED BY <1>2, <1>3, <1>4 DEF InsertCustomer

LEMMA StoreSessionOK ==
  ASSUME CodesInv, NEW r \in Request, StoreSession(r)
  PROVE  CodesInv'
  <1>1. PICK a \in Account : /\ a = req[r].who
                             /\ account[a].status # "none" /\ account[a].role = "customer"
    BY DEF StoreSession, In, CodesInv, Customers
  <1>2. sessions' = sessions \cup {a} /\ UNCHANGED <<code, account, uses>>
    BY <1>1 DEF StoreSession, StoreRefreshToken
  <1>3. sessions' \subseteq Account
    BY <1>2 DEF CodesInv, CodesTypeOK
  <1> QED BY <1>1, <1>2, <1>3, RequestGoesOn
          DEF StoreSession, Answers, CodeSteps, CodesInv, CodesTypeOK

\* The requests stay where they are.
LEMMA AccountsGoOn ==
  ASSUME CodesInv, UNCHANGED <<code, req, uses, sessions>>,
         account' \in [Account -> AccountRow],
         \A a \in Account :
           account[a].status # "none" =>
             account'[a].status # "none" /\ account'[a].role = account[a].role
  PROVE  CodesInv'
  <1>1. Limits'
    BY DEF CodesInv, Limits, Counted, Sending, Trying, Using
  <1>2. CodesTypeOK' /\ Issued'
    BY DEF CodesInv, CodesTypeOK, Issued
  <1>3. \A a \in sessions' : account'[a].status # "none" /\ account'[a].role = "customer"
    BY DEF CodesInv, CodesTypeOK, Customers
  <1>4. Customers'
    BY <1>3 DEF CodesInv, Customers
  <1> QED BY <1>1, <1>2, <1>4 DEF CodesInv

LEMMA OpenAccountOK ==
  ASSUME CodesInv, NEW a \in Account, NEW role \in {"customer", "artist"}, OpenAccount(a, role)
  PROVE  CodesInv'
  <1>1. /\ account' \in [Account -> AccountRow] /\ account[a].status = "none"
        /\ \A x \in Account : x # a => account'[x] = account[x]
    BY RegistersOK DEF OpenAccount
  <1> QED BY <1>1, AccountsGoOn DEF OpenAccount

LEMMA DeleteHolderOK ==
  ASSUME CodesInv, NEW a \in Account, DeleteHolder(a)
  PROVE  CodesInv'
  <1>1. PICK row : row = [account[a] EXCEPT !.status = "deleted"]
    OBVIOUS
  <1>2. account[a] \in AccountRow
    BY DEF CodesInv, CodesTypeOK
  <1>3. row = [status |-> "deleted", role |-> account[a].role, verified |-> account[a].verified]
    BY <1>1, <1>2 DEF AccountRow
  <1>4. row \in AccountRow
    BY <1>2, <1>3 DEF AccountRow
  <1>5. account' = [account EXCEPT ![a] = row]
    BY <1>1 DEF DeleteHolder, CodesInv, CodesTypeOK
  <1>6. /\ account' \in [Account -> AccountRow] /\ account'[a] = row
        /\ \A x \in Account : x # a => account'[x] = account[x]
    BY <1>4, <1>5 DEF CodesInv, CodesTypeOK
  <1> QED BY <1>3, <1>6, AccountsGoOn DEF DeleteHolder

\* Time passes for a code.
LEMMA CodesAge ==
  ASSUME CodesInv, NEW c \in Code, LeaveWindow(c) \/ ExpireCode(c)
  PROVE  CodesInv'
  <1>1. PICK old : old = code[c]
    OBVIOUS
  <1>2. PICK row : row \in {[old EXCEPT !.counted = FALSE], [old EXCEPT !.live = FALSE]}
                   /\ code' = [code EXCEPT ![c] = row]
    BY <1>1 DEF LeaveWindow, ExpireCode, CodesInv, CodesTypeOK
  <1>3. old \in CodeRow
    BY <1>1 DEF CodesInv, CodesTypeOK
  <1>4. /\ row \in CodeRow /\ row.sent = old.sent /\ row.used = old.used /\ row.tries = old.tries
        /\ row.counted => old.counted
    <2>1. CASE row = [old EXCEPT !.counted = FALSE]
      <3>1. row = [sent |-> old.sent, counted |-> FALSE, live |-> old.live, used |-> old.used,
                   tries |-> old.tries]
        BY <1>3, <2>1 DEF CodeRow
      <3> QED BY <1>3, <3>1 DEF CodeRow
    <2>2. CASE row = [old EXCEPT !.live = FALSE]
      <3>1. row = [sent |-> old.sent, counted |-> old.counted, live |-> FALSE, used |-> old.used,
                   tries |-> old.tries]
        BY <1>3, <2>2 DEF CodeRow
      <3> QED BY <1>3, <3>1 DEF CodeRow
    <2> QED BY <1>2, <2>1, <2>2
  <1>5. /\ code' \in [Code -> CodeRow] /\ code'[c] = row
        /\ \A d \in Code : d # c => code'[d] = code[d]
    BY <1>2, <1>4 DEF CodesInv, CodesTypeOK
  <1>6. UNCHANGED <<account, req, uses, sessions>>
    BY DEF LeaveWindow, ExpireCode
  <1>7. \A d \in Code : /\ code'[d].sent = code[d].sent /\ code'[d].used = code[d].used
                        /\ code'[d].tries = code[d].tries
                        /\ code'[d].counted => code[d].counted
    BY <1>1, <1>4, <1>5
  <1>8. Limits'
    <2>1. Sending' = Sending /\ Counted' \subseteq Counted
      BY <1>6, <1>7 DEF Sending, Counted
    <2>2. \A d \in Code : Trying(d)' = Trying(d) /\ Using(d)' = Using(d)
      BY <1>6 DEF Trying, Using
    <2> QED BY <1>6, <1>7, <2>1, <2>2, LimitsStay
  <1>9. CodesTypeOK' /\ Issued' /\ Customers'
    BY <1>5, <1>6, <1>7 DEF CodesInv, CodesTypeOK, Issued, Customers
  <1> QED BY <1>8, <1>9 DEF CodesInv

LEMMA CodesStep == CodesInv /\ [CodesNext]_codeVars => CodesInv'
  <1> SUFFICES ASSUME CodesInv, [CodesNext]_codeVars PROVE CodesInv'
    OBVIOUS
  <1>1. CASE UNCHANGED codeVars
    BY <1>1, AccountsGoOn DEF codeVars, CodesInv, CodesTypeOK
  <1>2. ASSUME NEW r \in Request, RequestStep(r) PROVE CodesInv'
    <2>1. CASE Fails(r)
      BY <2>1, AnswersOK DEF Fails
    <2> QED BY <1>2, <2>1, AsksOK, CountRecentOK, PhoneEligibleOK, CreateCodeOK, JudgeLatestOK,
               IncrementAttemptsOK, MarkCodeUsedOK, MarkPhoneVerifiedOK, ResolvesOK,
               InsertCustomerOK, StoreSessionOK DEF RequestStep
  <1> QED BY <1>1, <1>2, DeleteHolderOK, OpenAccountOK, CodesAge DEF CodesNext

LEMMA CodesStart == CodesInit => CodesInv
  <1> SUFFICES ASSUME CodesInit PROVE CodesInv
    OBVIOUS
  <1>1. CodesTypeOK /\ Issued /\ Customers
    BY DEF CodesInit, CodesTypeOK, Issued, Customers, CodeRow, AccountRow, CodeRequest, CodeSteps
  <1>2. /\ Counted = {} /\ Sending = {}
        /\ \A c \in Code : Trying(c) = {} /\ Using(c) = {}
    BY DEF CodesInit, Counted, Sending, Trying, Using
  <1>3. Cardinality({}) = 0
    BY FS_EmptySet
  <1>4. \A c \in Code : code[c].tries = 0 /\ uses[c] = 0
    BY DEF CodesInit
  <1>5. 0 <= Most(RateMax) /\ 0 <= Most(MaxTries) /\ 0 <= Cardinality(Request)
    BY Ceilings DEF Most
  <1>6. Cardinality(Counted) = 0 /\ Cardinality(Sending) = 0
    BY <1>2, <1>3
  <1>7. ASSUME NEW c \in Code
        PROVE  /\ code[c].tries + Cardinality(Trying(c)) <= Most(MaxTries)
               /\ uses[c] + Cardinality(Using(c)) <= Cardinality(Request)
    <2>1. Cardinality(Trying(c)) = 0 /\ Cardinality(Using(c)) = 0
      BY <1>2, <1>3
    <2> QED BY <1>4, <1>5, <2>1
  <1>8. Limits
    BY <1>5, <1>6, <1>7 DEF Limits
  <1> QED BY <1>1, <1>8 DEF CodesInv

LEMMA CodesHold == CodesSpec => []CodesInv
  BY CodesStart, CodesStep, PTL DEF CodesSpec

\* The codes, the accounts and the requests keep their shape.
THEOREM CodesTyped == CodesSpec => []CodesTypeOK
  <1>1. CodesInv => CodesTypeOK
    BY DEF CodesInv
  <1> QED BY <1>1, CodesHold, PTL

\* The limits of a code - how many are sent, how often one is tried, how often
\* it opens a door - give way only to the requests between check and write.
THEOREM RacesAlwaysGiveLittle == CodesSpec => []RacesGiveLittle
  <1>1. ASSUME CodesInv PROVE RacesGiveLittle
    <2>1. Cardinality(Counted) <= Most(RateMax)
      BY <1>1, Counts, Ceilings DEF CodesInv, Limits
    <2>2. ASSUME NEW c \in Code
          PROVE  code[c].tries <= Most(MaxTries) /\ uses[c] <= Cardinality(Request)
      <3>1. code[c].tries \in Nat /\ uses[c] \in Nat
        BY <1>1 DEF CodesInv, CodesTypeOK, CodeRow
      <3> QED BY <1>1, <3>1, Counts, Ceilings DEF CodesInv, Limits
    <2> QED BY <2>1, <2>2 DEF RacesGiveLittle, CeilingsGiveLittle, CodeSpentOnce
  <1> QED BY <1>1, CodesHold, PTL

\* A sign-in by code never ends in an artist's account.
THEOREM SignInsAreCustomers == CodesSpec => []SignedInAsCustomer
  <1>1. CodesInv => SignedInAsCustomer
    BY DEF CodesInv, Customers, SignedInAsCustomer
  <1> QED BY <1>1, CodesHold, PTL


-----------------------------------------------------------------------------
(* Sessions.                                                               *)

\* Past its check, and about to act for the user, whatever became of her.
ForUser == {"store", "password", "freeze", "unfreeze", "delete"}

\* About to exchange t, to set a password by k, to act for u.
Exchanging(t) == {p \in Server : job[p].step = "revoke" /\ job[p].of = t}
Resetting(k) == {p \in Server : job[p].step = "reset" /\ job[p].of = k}
Acting(u) == {p \in Server : job[p].step \in ForUser /\ job[p].user = u}

\* What was done, and what is about to be, came past its check at once.
Within ==
  /\ \A t \in Token : spent[t] + Cardinality(Exchanging(t)) <= AtOnce
  /\ \A k \in Link : resets[k] + Cardinality(Resetting(k)) <= AtOnce
  /\ \A u \in User :
       /\ acts[u] <= AtOnce
       /\ Barred(u) => acts[u] + Cardinality(Acting(u)) <= AtOnce

\* A token that was exchanged is not good again.
Exchanged ==
  \A t \in Token :
    /\ spent[t] > 0 => token[t].state = "revoked"
    /\ token[t].state # "none" => token[t].user \in User

\* A link that set a password when it was not open is not open again.
Closed == \A k \in Link : resets[k] > 0 => link[k].state \notin {"none", "open"}

\* Every request is about something that is there.
About ==
  \A p \in Server :
    /\ job[p].step \in ForUser => job[p].user \in User
    /\ job[p].step \in {"revoke", "load"} =>
         job[p].of \in Token /\ token[job[p].of].state # "none"
    /\ job[p].step \in {"reset", "spend"} =>
         job[p].of \in Link /\ link[job[p].of].state # "none"

SessionsInv == SessionsTypeOK /\ Within /\ Exchanged /\ Closed /\ About

LEMMA Serving ==
  /\ IsFiniteSet(Server) /\ AtOnce \in Nat /\ None \notin User
  /\ 0 \notin Token /\ 0 \notin Link
  BY SessionParameters, FS_CardinalityType DEF AtOnce

\* Done, about to be done, and at most AtOnce of both: nothing was done, or
\* no more are about to, or one of them did it.
LEMMA Kept ==
  ASSUME NEW P \in SUBSET Server, NEW Q \in SUBSET Server, NEW n \in Nat, NEW m \in Nat,
         n + Cardinality(P) <= AtOnce,
         \/ m = 0
         \/ m = n /\ Q \subseteq P
         \/ m = n + 1 /\ \E p \in P : Q \subseteq P \ {p}
  PROVE  m + Cardinality(Q) <= AtOnce
  <1>1. /\ Cardinality(P) \in Nat /\ Cardinality(Q) \in Nat /\ Cardinality(Q) <= AtOnce
        /\ Q \subseteq P => Cardinality(Q) <= Cardinality(P)
        /\ \A p \in P : Q \subseteq P \ {p} => Cardinality(Q) + 1 <= Cardinality(P)
    BY Serving, Sizes DEF AtOnce
  <1> QED BY <1>1, Serving

\* The invariant of the sums, from what a step does to each of them.
LEMMA Summed ==
  ASSUME SessionsInv, SessionsTypeOK', Exchanged', Closed', About',
         \A t \in Token :
           \/ spent'[t] = 0
           \/ spent'[t] = spent[t] /\ Exchanging(t)' \subseteq Exchanging(t)
           \/ spent'[t] = spent[t] + 1 /\ \E p \in Exchanging(t) : Exchanging(t)' \subseteq Exchanging(t) \ {p},
         \A k \in Link :
           \/ resets'[k] = 0
           \/ resets'[k] = resets[k] /\ Resetting(k)' \subseteq Resetting(k)
           \/ resets'[k] = resets[k] + 1 /\ \E p \in Resetting(k) : Resetting(k)' \subseteq Resetting(k) \ {p},
         \A u \in User :
           \/ acts'[u] = 0
           \/ acts'[u] = acts[u] /\ ~Barred(u)'
           \/ acts'[u] = acts[u] /\ Barred(u) /\ Acting(u)' \subseteq Acting(u)
           \/ acts'[u] = acts[u] + 1 /\ Barred(u) /\ \E p \in Acting(u) : Acting(u)' \subseteq Acting(u) \ {p}
  PROVE  SessionsInv'
  <1>1. ASSUME NEW t \in Token PROVE spent'[t] + Cardinality(Exchanging(t)') <= AtOnce
    <2>1. Exchanging(t) \in SUBSET Server /\ Exchanging(t)' \in SUBSET Server
      BY DEF Exchanging
    <2>2. spent[t] \in Nat /\ spent'[t] \in Nat
      BY DEF SessionsInv, SessionsTypeOK
    <2>3. spent[t] + Cardinality(Exchanging(t)) <= AtOnce
      BY DEF SessionsInv, Within
    <2> QED BY <2>1, <2>2, <2>3, Kept
  <1>2. ASSUME NEW k \in Link PROVE resets'[k] + Cardinality(Resetting(k)') <= AtOnce
    <2>1. Resetting(k) \in SUBSET Server /\ Resetting(k)' \in SUBSET Server
      BY DEF Resetting
    <2>2. resets[k] \in Nat /\ resets'[k] \in Nat
      BY DEF SessionsInv, SessionsTypeOK
    <2>3. resets[k] + Cardinality(Resetting(k)) <= AtOnce
      BY DEF SessionsInv, Within
    <2> QED BY <2>1, <2>2, <2>3, Kept
  <1>3. ASSUME NEW u \in User
        PROVE  acts'[u] <= AtOnce /\ (Barred(u)' => acts'[u] + Cardinality(Acting(u)') <= AtOnce)
    <2>1. Acting(u) \in SUBSET Server /\ Acting(u)' \in SUBSET Server
      BY DEF Acting
    <2>2. acts[u] \in Nat /\ acts'[u] \in Nat /\ Cardinality(Acting(u)') \in Nat
      BY <2>1, Serving, Sizes DEF SessionsInv, SessionsTypeOK
    <2>3. acts[u] <= AtOnce /\ (Barred(u) => acts[u] + Cardinality(Acting(u)) <= AtOnce)
      BY DEF SessionsInv, Within
    <2>4. CASE acts'[u] = acts[u] /\ ~Barred(u)'
      BY <2>3, <2>4
    <2>5. CASE acts'[u] = 0
      <3>1. Cardinality(Acting(u)') <= AtOnce
        BY <2>1, Serving, Sizes DEF AtOnce
      <3> QED BY <2>2, <2>5, <3>1, Serving
    <2>6. CASE /\ Barred(u)
               /\ \/ acts'[u] = acts[u] /\ Acting(u)' \subseteq Acting(u)
                  \/ acts'[u] = acts[u] + 1 /\ \E p \in Acting(u) : Acting(u)' \subseteq Acting(u) \ {p}
      <3>1. acts'[u] + Cardinality(Acting(u)') <= AtOnce
        BY <2>1, <2>2, <2>3, <2>6, Kept
      <3> QED BY <2>2, <3>1, Serving
    <2> QED BY <2>4, <2>5, <2>6
  <1>4. Within'
    BY <1>1, <1>2, <1>3 DEF Within
  <1> QED BY <1>4 DEF SessionsInv

\* Where a request goes: the others stay.
LEMMA SetsTyped ==
  ASSUME SessionsTypeOK, NEW p \in Server, NEW step \in JobSteps, NEW u \in User \cup {None},
         NEW x \in Token \cup Link \cup {0}, Sets(p, step, u, x)
  PROVE  /\ job' \in [Server -> Job]
         /\ job'[p].step = step /\ job'[p].user = u /\ job'[p].of = x
         /\ \A q \in Server : q # p => job'[q] = job[q]
  BY DEF SessionsTypeOK, Job, Sets

\* A request leaves the sums it takes no new part in.
LEMMA NoneJoins ==
  ASSUME NEW p \in Server, \A q \in Server : q # p => job'[q] = job[q]
  PROVE  /\ job'[p].step # "revoke" => \A t \in Token : Exchanging(t)' \subseteq Exchanging(t) \ {p}
         /\ job'[p].step # "reset" => \A k \in Link : Resetting(k)' \subseteq Resetting(k) \ {p}
         /\ job'[p].step \notin ForUser => \A u \in User : Acting(u)' \subseteq Acting(u) \ {p}
         /\ \A t \in Token : job'[p].of # t => Exchanging(t)' \subseteq Exchanging(t)
         /\ \A k \in Link : job'[p].of # k => Resetting(k)' \subseteq Resetting(k)
         /\ \A u \in User : job'[p].user # u => Acting(u)' \subseteq Acting(u)
  BY DEF Exchanging, Resetting, Acting

\* The other requests are still about something that is there.
LEMMA AboutStays ==
  ASSUME SessionsInv, NEW p \in Server, \A q \in Server : q # p => job'[q] = job[q],
         \A t \in Token : token[t].state # "none" => token'[t].state # "none",
         \A k \in Link : link[k].state # "none" => link'[k].state # "none",
         job'[p].step \in ForUser => job'[p].user \in User,
         job'[p].step \in {"revoke", "load"} =>
           job'[p].of \in Token /\ token'[job'[p].of].state # "none",
         job'[p].step \in {"reset", "spend"} =>
           job'[p].of \in Link /\ link'[job'[p].of].state # "none"
  PROVE  About'
  <1>1. ASSUME NEW q \in Server
        PROVE  /\ job'[q].step \in ForUser => job'[q].user \in User
               /\ job'[q].step \in {"revoke", "load"} =>
                    job'[q].of \in Token /\ token'[job'[q].of].state # "none"
               /\ job'[q].step \in {"reset", "spend"} =>
                    job'[q].of \in Link /\ link'[job'[q].of].state # "none"
    <2>1. CASE q = p
      BY <2>1
    <2>2. CASE q # p
      BY <2>2 DEF SessionsInv, About
    <2> QED BY <2>1, <2>2
  <1> QED BY <1>1 DEF About

\* A step that only moves a request, past no check but that of its user.
LEMMA JobGoesOn ==
  ASSUME SessionsInv, NEW p \in Server, NEW step \in JobSteps \ {"revoke", "reset", "load", "spend"},
         NEW u \in User \cup {None}, NEW x \in Token \cup Link \cup {0}, Sets(p, step, u, x),
         step \in ForUser => u \in User /\ ~Barred(u),
         UNCHANGED <<status, token, link, spent, resets, acts>>
  PROVE  SessionsInv'
  <1>1. /\ job' \in [Server -> Job]
        /\ job'[p].step = step /\ job'[p].user = u /\ job'[p].of = x
        /\ \A q \in Server : q # p => job'[q] = job[q]
    BY SetsTyped DEF SessionsInv
  <1>2. SessionsTypeOK'
    BY <1>1 DEF SessionsInv, SessionsTypeOK
  <1>3. Exchanged' /\ Closed'
    BY DEF SessionsInv, Exchanged, Closed
  <1>4. About'
    BY <1>1, AboutStays
  <1>5. \A t \in Token : spent'[t] = spent[t] /\ Exchanging(t)' \subseteq Exchanging(t)
    BY <1>1, NoneJoins
  <1>6. \A k \in Link : resets'[k] = resets[k] /\ Resetting(k)' \subseteq Resetting(k)
    BY <1>1, NoneJoins
  <1>7. ASSUME NEW v \in User
        PROVE  \/ acts'[v] = acts[v] /\ ~Barred(v)'
               \/ acts'[v] = acts[v] /\ Barred(v) /\ Acting(v)' \subseteq Acting(v)
    <2>1. acts'[v] = acts[v] /\ Barred(v)' = Barred(v)
      BY DEF Barred, Stopped
    <2>2. ~Barred(v) \/ Acting(v)' \subseteq Acting(v)
      BY <1>1, NoneJoins
    <2> QED BY <2>1, <2>2
  <1> QED BY <1>2, <1>3, <1>4, <1>5, <1>6, <1>7, Summed

LEMMA EndsOK ==
  ASSUME SessionsInv, NEW p \in Server, Ends(p),
         UNCHANGED <<status, token, link, spent, resets, acts>>
  PROVE  SessionsInv'
  BY JobGoesOn DEF Ends, JobSteps, ForUser

\* Whoever begins to act for a user found her not stopped.
LEMMA AdmitsOK ==
  ASSUME SessionsInv, NEW p \in Server, NEW u \in User,
         \/ Login(p, u)
         \/ \E step \in {"password", "freeze", "unfreeze", "delete"} : SignedIn(p, u, step)
         \/ ForgotPassword(p, u)
  PROVE  SessionsInv'
  <1>1. CASE Login(p, u)
    <2>1. ~Barred(u)
      BY <1>1 DEF Login, Barred, Stopped
    <2> QED BY <1>1, <2>1, JobGoesOn DEF Login, JobSteps
  <1>2. ASSUME NEW step \in {"password", "freeze", "unfreeze", "delete"}, SignedIn(p, u, step)
        PROVE  SessionsInv'
    <2>1. ~Barred(u)
      BY <1>2 DEF SignedIn, Admitted, Barred, Stopped
    <2> QED BY <1>2, <2>1, JobGoesOn DEF SignedIn, JobSteps
  <1>3. CASE ForgotPassword(p, u)
    BY <1>3, JobGoesOn DEF ForgotPassword, JobSteps, ForUser
  <1> QED BY <1>1, <1>2, <1>3

LEMMA LoadUserOK ==
  ASSUME SessionsInv, NEW p \in Server, LoadUser(p)
  PROVE  SessionsInv'
  <1>1. PICK u : u = token[job[p].of].user
    OBVIOUS
  <1>2. u \in User
    BY <1>1 DEF LoadUser, Does, SessionsInv, About, Exchanged
  <1>3. UNCHANGED <<status, token, link, spent, resets, acts>>
    BY DEF LoadUser
  <1>4. CASE Renews(u) /\ Sets(p, "store", u, 0)
    BY <1>2, <1>3, <1>4, JobGoesOn DEF Renews, JobSteps
  <1>5. CASE Ends(p)
    BY <1>3, <1>5, EndsOK
  <1> QED BY <1>1, <1>4, <1>5 DEF LoadUser

\* A token that is read as good was not exchanged.
LEMMA RefreshOK ==
  ASSUME SessionsInv, NEW p \in Server, NEW t \in Token, Refresh(p, t)
  PROVE  SessionsInv'
  <1>1. UNCHANGED <<status, token, link, spent, resets, acts>> /\ token[t].state = "good"
    BY DEF Refresh, Good
  <1>2. /\ job' \in [Server -> Job]
        /\ job'[p].step = "revoke" /\ job'[p].user = None /\ job'[p].of = t
        /\ \A q \in Server : q # p => job'[q] = job[q]
    BY SetsTyped DEF Refresh, SessionsInv, JobSteps
  <1>3. SessionsTypeOK'
    BY <1>1, <1>2 DEF SessionsInv, SessionsTypeOK
  <1>4. Exchanged' /\ Closed'
    BY <1>1 DEF SessionsInv, Exchanged, Closed
  <1>5. About'
    BY <1>1, <1>2, AboutStays DEF ForUser
  <1>6. spent'[t] = 0
    BY <1>1 DEF SessionsInv, SessionsTypeOK, Exchanged
  <1>7. \A x \in Token : x # t => spent'[x] = spent[x] /\ Exchanging(x)' \subseteq Exchanging(x)
    BY <1>1, <1>2, NoneJoins
  <1>8. \A k \in Link : resets'[k] = resets[k] /\ Resetting(k)' \subseteq Resetting(k)
    BY <1>1, <1>2, NoneJoins
  <1>9. ASSUME NEW v \in User
        PROVE  \/ acts'[v] = acts[v] /\ ~Barred(v)'
               \/ acts'[v] = acts[v] /\ Barred(v) /\ Acting(v)' \subseteq Acting(v)
    <2>1. acts'[v] = acts[v] /\ Barred(v)' = Barred(v)
      BY <1>1 DEF Barred, Stopped
    <2>2. Acting(v)' \subseteq Acting(v)
      BY <1>2, NoneJoins DEF ForUser
    <2> QED BY <2>1, <2>2
  <1> QED BY <1>3, <1>4, <1>5, <1>6, <1>7, <1>8, <1>9, Summed

\* From about to be exchanged to exchanged.
LEMMA RevokeUsedOK ==
  ASSUME SessionsInv, NEW p \in Server, RevokeUsed(p)
  PROVE  SessionsInv'
  <1>1. PICK t \in Token : t = job[p].of /\ p \in Exchanging(t) /\ token[t].state # "none"
    BY DEF RevokeUsed, Does, SessionsInv, About, Exchanging
  <1>2. UNCHANGED <<status, link, resets, acts>>
    BY DEF RevokeUsed
  <1>3. /\ job' \in [Server -> Job]
        /\ job'[p].step = "load" /\ job'[p].user = None /\ job'[p].of = t
        /\ \A q \in Server : q # p => job'[q] = job[q]
    BY <1>1, SetsTyped DEF RevokeUsed, SessionsInv, JobSteps
  <1>4. PICK old \in TokenRow : old = token[t]
    BY DEF SessionsInv, SessionsTypeOK
  <1>5. PICK row : row = [old EXCEPT !.state = "revoked"]
    OBVIOUS
  <1>6. row = [state |-> "revoked", user |-> old.user]
    BY <1>5 DEF TokenRow
  <1>7. row \in TokenRow
    BY <1>6 DEF TokenRow
  <1>8. token' = [token EXCEPT ![t] = row]
    BY <1>1, <1>4, <1>5 DEF RevokeUsed, SessionsInv, SessionsTypeOK
  <1>9. /\ token' \in [Token -> TokenRow] /\ token'[t] = row
        /\ \A x \in Token : x # t => token'[x] = token[x]
    BY <1>7, <1>8 DEF SessionsInv, SessionsTypeOK
  <1>10. /\ spent' \in [Token -> Nat] /\ spent'[t] = spent[t] + 1
         /\ \A x \in Token : x # t => spent'[x] = spent[x]
    BY <1>1 DEF RevokeUsed, SessionsInv, SessionsTypeOK
  <1>11. SessionsTypeOK'
    BY <1>2, <1>3, <1>9, <1>10 DEF SessionsInv, SessionsTypeOK
  <1>12. Exchanged' /\ Closed'
    BY <1>1, <1>2, <1>4, <1>6, <1>9, <1>10 DEF SessionsInv, Exchanged, Closed
  <1>13. About'
    BY <1>1, <1>2, <1>3, <1>6, <1>9, AboutStays DEF ForUser
  <1>14. ASSUME NEW x \in Token
         PROVE  \/ spent'[x] = spent[x] /\ Exchanging(x)' \subseteq Exchanging(x)
                \/ /\ spent'[x] = spent[x] + 1
                   /\ \E q \in Exchanging(x) : Exchanging(x)' \subseteq Exchanging(x) \ {q}
    <2>1. Exchanging(x)' \subseteq Exchanging(x) \ {p}
      BY <1>3, NoneJoins
    <2> QED BY <1>1, <1>10, <2>1
  <1>15. \A k \in Link : resets'[k] = resets[k] /\ Resetting(k)' \subseteq Resetting(k)
    BY <1>2, <1>3, NoneJoins
  <1>16. ASSUME NEW v \in User
         PROVE  \/ acts'[v] = acts[v] /\ ~Barred(v)'
                \/ acts'[v] = acts[v] /\ Barred(v) /\ Acting(v)' \subseteq Acting(v)
    <2>1. acts'[v] = acts[v] /\ Barred(v)' = Barred(v)
      BY <1>2 DEF Barred, Stopped
    <2>2. Acting(v)' \subseteq Acting(v)
      BY <1>3, NoneJoins DEF ForUser
    <2> QED BY <2>1, <2>2
  <1> QED BY <1>11, <1>12, <1>13, <1>14, <1>15, <1>16, Summed

\* What is done for a user who is barred was about to be.
LEMMA ActsOK ==
  ASSUME SessionsInv, NEW p \in Server, NEW u \in User, p \in Acting(u), Ends(p),
         UNCHANGED <<link, resets>>,
         status' \in [User -> Statuses], \A v \in User : v # u => status'[v] = status[v],
         acts' \in [User -> Nat], \A v \in User : v # u => acts'[v] = acts[v],
         \/ acts'[u] = 0
         \/ acts'[u] = acts[u] + 1 /\ Barred(u)
         \/ acts'[u] = acts[u] /\ ~Barred(u)',
         token' \in [Token -> TokenRow], UNCHANGED spent, Exchanged',
         \A t \in Token : token[t].state # "none" => token'[t].state # "none"
  PROVE  SessionsInv'
  <1>1. /\ job' \in [Server -> Job]
        /\ job'[p].step = "idle" /\ \A q \in Server : q # p => job'[q] = job[q]
    BY SetsTyped DEF Ends, SessionsInv, JobSteps
  <1>2. SessionsTypeOK'
    BY <1>1 DEF SessionsInv, SessionsTypeOK
  <1>3. Closed'
    BY DEF SessionsInv, Closed
  <1>4. About'
    BY <1>1, AboutStays DEF ForUser
  <1>5. \A t \in Token : spent'[t] = spent[t] /\ Exchanging(t)' \subseteq Exchanging(t)
    BY <1>1, NoneJoins
  <1>6. \A k \in Link : resets'[k] = resets[k] /\ Resetting(k)' \subseteq Resetting(k)
    BY <1>1, NoneJoins
  <1>7. \A v \in User : Acting(v)' \subseteq Acting(v) \ {p}
    BY <1>1, NoneJoins DEF ForUser
  <1>8. ASSUME NEW v \in User
        PROVE  \/ acts'[v] = 0
               \/ acts'[v] = acts[v] /\ ~Barred(v)'
               \/ acts'[v] = acts[v] /\ Barred(v) /\ Acting(v)' \subseteq Acting(v)
               \/ /\ acts'[v] = acts[v] + 1 /\ Barred(v)
                  /\ \E q \in Acting(v) : Acting(v)' \subseteq Acting(v) \ {q}
    <2>1. CASE v = u
      BY <1>7, <2>1
    <2>2. CASE v # u
      <3>1. acts'[v] = acts[v] /\ Barred(v)' = Barred(v)
        BY <2>2 DEF Barred, Stopped
      <3> QED BY <1>7, <3>1
    <2> QED BY <2>1, <2>2
  <1> QED BY <1>2, <1>3, <1>4, <1>5, <1>6, <1>8, Summed

\* Who acts, and that the user is one.
LEMMA Actor ==
  ASSUME SessionsInv, NEW p \in Server, job[p].step \in ForUser
  PROVE  \E u \in User : u = job[p].user /\ p \in Acting(u)
  BY DEF SessionsInv, About, Acting

LEMMA ActsCounts ==
  ASSUME SessionsInv, NEW u \in User, Acts(u)
  PROVE  /\ acts' \in [User -> Nat] /\ \A v \in User : v # u => acts'[v] = acts[v]
         /\ Barred(u) => acts'[u] = acts[u] + 1
         /\ ~Barred(u) => acts'[u] = acts[u]
  BY DEF SessionsInv, SessionsTypeOK, Acts

LEMMA StoreTokenOK ==
  ASSUME SessionsInv, NEW p \in Server, StoreToken(p)
  PROVE  SessionsInv'
  <1>1. PICK u \in User : u = job[p].user /\ p \in Acting(u)
    BY Actor DEF StoreToken, Does, ForUser
  <1>2. PICK t \in Token : NewToken(u, t)
    BY <1>1 DEF StoreToken
  <1>3. PICK row : row = [state |-> "good", user |-> u]
    OBVIOUS
  <1>4. row \in TokenRow
    BY <1>3 DEF TokenRow
  <1>5. /\ token[t].state = "none" /\ token' \in [Token -> TokenRow] /\ token'[t] = row
        /\ \A x \in Token : x # t => token'[x] = token[x]
    BY <1>2, <1>3, <1>4 DEF NewToken, SessionsInv, SessionsTypeOK
  <1>6. spent[t] = 0 /\ UNCHANGED <<status, link, spent, resets>> /\ Ends(p) /\ Acts(u)
    BY <1>1, <1>5 DEF StoreToken, SessionsInv, SessionsTypeOK, Exchanged
  <1>7. Exchanged'
    BY <1>3, <1>5, <1>6 DEF SessionsInv, Exchanged
  <1>8. Barred(u)' = Barred(u)
    BY <1>6 DEF Barred, Stopped
  <1>9. status' \in [User -> Statuses]
    BY <1>6 DEF SessionsInv, SessionsTypeOK
  <1>10. \A x \in Token : token[x].state # "none" => token'[x].state # "none"
    BY <1>5
  <1> QED BY <1>1, <1>5, <1>6, <1>7, <1>8, <1>9, <1>10, ActsCounts, ActsOK

LEMMA ChangePasswordOK ==
  ASSUME SessionsInv, NEW p \in Server, ChangePassword(p)
  PROVE  SessionsInv'
  <1>1. PICK u \in User : u = job[p].user /\ p \in Acting(u)
    BY Actor DEF ChangePassword, Does, ForUser
  <1>2. UNCHANGED <<status, token, link, spent, resets>> /\ Ends(p) /\ Acts(u)
    BY <1>1 DEF ChangePassword
  <1>3. Barred(u)' = Barred(u)
    BY <1>2 DEF Barred, Stopped
  <1>4. status' \in [User -> Statuses] /\ token' \in [Token -> TokenRow] /\ Exchanged'
    BY <1>2 DEF SessionsInv, SessionsTypeOK, Exchanged
  <1> QED BY <1>1, <1>2, <1>3, <1>4, ActsCounts, ActsOK

\* Frozen or active: a suspension is overwritten, never a deletion.
LEMMA StatusBecomesOK ==
  ASSUME SessionsInv, NEW p \in Server, FreezeAccount(p) \/ UnfreezeAccount(p)
  PROVE  SessionsInv'
  <1>1. PICK s \in {"frozen", "active"} : job[p].step \in ForUser /\ StatusBecomes(p, s)
    BY DEF FreezeAccount, UnfreezeAccount, Does, ForUser
  <1>2. PICK u \in User : u = job[p].user /\ p \in Acting(u)
    BY <1>1, Actor
  <1>3. UNCHANGED <<token, link, spent, resets>> /\ Ends(p) /\ Acts(u)
    BY <1>1, <1>2 DEF StatusBecomes
  <1>4. /\ status' \in [User -> Statuses]
        /\ status'[u] \in {"frozen", "active"} \/ (status'[u] = "deleted" /\ status[u] = "deleted")
        /\ \A v \in User : v # u => status'[v] = status[v]
    BY <1>1, <1>2 DEF StatusBecomes, SessionsInv, SessionsTypeOK, Statuses
  <1>5. token' \in [Token -> TokenRow] /\ Exchanged'
    BY <1>3 DEF SessionsInv, SessionsTypeOK, Exchanged
  <1>6. Barred(u)' => Barred(u)
    BY <1>4 DEF Barred, Stopped
  <1>7. \/ acts'[u] = acts[u] + 1 /\ Barred(u)
        \/ acts'[u] = acts[u] /\ ~Barred(u)'
    BY <1>3, <1>6, ActsCounts
  <1> QED BY <1>2, <1>3, <1>4, <1>5, <1>7, ActsCounts, ActsOK

LEMMA DeleteAccountOK ==
  ASSUME SessionsInv, NEW p \in Server, DeleteAccount(p)
  PROVE  SessionsInv'
  <1>1. PICK u \in User : u = job[p].user /\ p \in Acting(u)
    BY Actor DEF DeleteAccount, Does, ForUser
  <1>2. UNCHANGED <<token, link, spent, resets>> /\ Ends(p)
    BY DEF DeleteAccount
  <1>3. /\ status' \in [User -> Statuses]
        /\ \A v \in User : v # u => status'[v] = status[v]
    BY <1>1 DEF DeleteAccount, SessionsInv, SessionsTypeOK, Statuses
  <1>4. /\ acts' \in [User -> Nat] /\ \A v \in User : v # u => acts'[v] = acts[v]
        /\ acts'[u] = 0 \/ (acts'[u] = acts[u] + 1 /\ Barred(u))
    BY <1>1 DEF DeleteAccount, SessionsInv, SessionsTypeOK
  <1>5. token' \in [Token -> TokenRow] /\ Exchanged'
    BY <1>2 DEF SessionsInv, SessionsTypeOK, Exchanged
  <1> QED BY <1>1, <1>2, <1>3, <1>4, <1>5, ActsOK

\* A step about a link, in which no password is set.
LEMMA LinksOK ==
  ASSUME SessionsInv, NEW p \in Server, NEW step \in {"idle", "link"}, NEW u \in User \cup {None},
         Sets(p, step, u, 0),
         UNCHANGED <<status, token, spent, resets, acts>>,
         link' \in [Link -> LinkRow], Closed',
         \A k \in Link : link[k].state # "none" => link'[k].state # "none"
  PROVE  SessionsInv'
  <1>1. /\ job' \in [Server -> Job] /\ job'[p].step = step
        /\ \A q \in Server : q # p => job'[q] = job[q]
    BY SetsTyped DEF SessionsInv, JobSteps
  <1>2. SessionsTypeOK' /\ Exchanged'
    BY <1>1 DEF SessionsInv, SessionsTypeOK, Exchanged
  <1>3. About'
    BY <1>1, AboutStays DEF ForUser
  <1>4. /\ \A t \in Token : spent'[t] = spent[t] /\ Exchanging(t)' \subseteq Exchanging(t)
        /\ \A k \in Link : resets'[k] = resets[k] /\ Resetting(k)' \subseteq Resetting(k)
        /\ \A v \in User : Acting(v)' \subseteq Acting(v)
    BY <1>1, NoneJoins DEF ForUser
  <1>5. \A v \in User : acts'[v] = acts[v] /\ Barred(v)' = Barred(v)
    BY DEF Barred, Stopped
  <1> QED BY <1>2, <1>3, <1>4, <1>5, Summed

LEMMA DeleteUnusedResetsOK ==
  ASSUME SessionsInv, NEW p \in Server, DeleteUnusedResets(p)
  PROVE  SessionsInv'
  <1>1. PICK u \in User \cup {None} : u = job[p].user
    BY DEF SessionsInv, SessionsTypeOK, Job
  <1>2. Sets(p, "link", u, 0) /\ UNCHANGED <<status, token, spent, resets, acts>>
    BY <1>1 DEF DeleteUnusedResets
  <1>3. ASSUME NEW k \in Link
        PROVE  /\ link'[k] \in LinkRow
               /\ link'[k].state = link[k].state \/ link'[k].state = "removed"
    <2>1. PICK old \in LinkRow : old = link[k]
      BY DEF SessionsInv, SessionsTypeOK
    <2>2. PICK row : row = [old EXCEPT !.state = "removed"]
      OBVIOUS
    <2>3. row = [state |-> "removed", user |-> old.user]
      BY <2>2 DEF LinkRow
    <2>4. row \in LinkRow
      BY <2>3 DEF LinkRow
    <2>5. link'[k] \in {row, old}
      BY <2>1, <2>2 DEF DeleteUnusedResets
    <2> QED BY <2>1, <2>3, <2>4, <2>5
  <1>4. link' \in [Link -> LinkRow]
    BY <1>3 DEF DeleteUnusedResets
  <1>5. Closed' /\ \A k \in Link : link[k].state # "none" => link'[k].state # "none"
    BY <1>2, <1>3 DEF SessionsInv, Closed
  <1> QED BY <1>2, <1>4, <1>5, LinksOK

LEMMA CreateResetOK ==
  ASSUME SessionsInv, NEW p \in Server, CreateReset(p)
  PROVE  SessionsInv'
  <1>1. PICK u \in User \cup {None} : u = job[p].user
    BY DEF SessionsInv, SessionsTypeOK, Job
  <1>2. PICK row : row = [state |-> "open", user |-> u]
    OBVIOUS
  <1>3. PICK k \in Link : link[k].state = "none" /\ link' = [link EXCEPT ![k] = row]
    BY <1>1, <1>2 DEF CreateReset
  <1>4. row \in LinkRow
    BY <1>2 DEF LinkRow
  <1>5. /\ link' \in [Link -> LinkRow] /\ link'[k].state = "open"
        /\ \A x \in Link : x # k => link'[x] = link[x]
    BY <1>2, <1>3, <1>4 DEF SessionsInv, SessionsTypeOK
  <1>6. UNCHANGED <<status, token, spent, resets, acts>> /\ Ends(p)
    BY DEF CreateReset
  <1>7. resets[k] = 0
    BY <1>3 DEF SessionsInv, SessionsTypeOK, Closed
  <1>8. Closed'
    BY <1>5, <1>6, <1>7 DEF SessionsInv, Closed
  <1> QED BY <1>5, <1>6, <1>8, LinksOK DEF Ends

\* One link gets another state, and is not open again.
LEMMA LinkBecomes ==
  ASSUME SessionsInv, NEW k \in Link, NEW s \in {"expired", "used", "removed"},
         link' = [link EXCEPT ![k].state = s], UNCHANGED resets
  PROVE  /\ link' \in [Link -> LinkRow] /\ Closed'
         /\ \A x \in Link : link[x].state # "none" => link'[x].state # "none"
  <1>1. PICK old \in LinkRow : old = link[k]
    BY DEF SessionsInv, SessionsTypeOK
  <1>2. PICK row : row = [old EXCEPT !.state = s]
    OBVIOUS
  <1>3. row = [state |-> s, user |-> old.user]
    BY <1>2 DEF LinkRow
  <1>4. row \in LinkRow
    BY <1>3 DEF LinkRow
  <1>5. link' = [link EXCEPT ![k] = row]
    BY <1>1, <1>2 DEF SessionsInv, SessionsTypeOK
  <1>6. /\ link' \in [Link -> LinkRow] /\ link'[k].state = s
        /\ \A x \in Link : x # k => link'[x] = link[x]
    BY <1>3, <1>4, <1>5 DEF SessionsInv, SessionsTypeOK
  <1> QED BY <1>6 DEF SessionsInv, Closed

LEMMA MarkResetUsedOK ==
  ASSUME SessionsInv, NEW p \in Server, MarkResetUsed(p)
  PROVE  SessionsInv'
  <1>1. PICK k \in Link : k = job[p].of
    BY DEF MarkResetUsed, Does, SessionsInv, About
  <1>2. PICK s \in {"used", "removed"} : s = IF link[k].state = "removed" THEN "removed" ELSE "used"
    OBVIOUS
  <1>3. link' = [link EXCEPT ![k].state = s]
    BY <1>1, <1>2 DEF MarkResetUsed, SessionsInv, SessionsTypeOK, LinkRow
  <1>4. UNCHANGED <<status, token, spent, resets, acts>> /\ Ends(p)
    BY DEF MarkResetUsed
  <1> QED BY <1>3, <1>4, LinkBecomes, LinksOK DEF Ends

\* A link that is read as open has set no password since it was not.
LEMMA ResetPasswordOK ==
  ASSUME SessionsInv, NEW p \in Server, NEW k \in Link, ResetPassword(p, k)
  PROVE  SessionsInv'
  <1>1. UNCHANGED <<status, token, link, spent, resets, acts>> /\ link[k].state = "open"
    BY DEF ResetPassword
  <1>2. PICK u \in User \cup {None} : u = link[k].user
    BY DEF SessionsInv, SessionsTypeOK, LinkRow
  <1>3. /\ job' \in [Server -> Job] /\ job'[p].step = "reset" /\ job'[p].of = k
        /\ \A q \in Server : q # p => job'[q] = job[q]
    BY <1>2, SetsTyped DEF ResetPassword, SessionsInv, JobSteps
  <1>4. SessionsTypeOK' /\ Exchanged' /\ Closed'
    BY <1>1, <1>3 DEF SessionsInv, SessionsTypeOK, Exchanged, Closed
  <1>5. About'
    BY <1>1, <1>3, AboutStays DEF ForUser
  <1>6. resets'[k] = 0
    BY <1>1 DEF SessionsInv, SessionsTypeOK, Closed
  <1>7. /\ \A t \in Token : spent'[t] = spent[t] /\ Exchanging(t)' \subseteq Exchanging(t)
        /\ \A x \in Link : x # k => resets'[x] = resets[x] /\ Resetting(x)' \subseteq Resetting(x)
        /\ \A v \in User : Acting(v)' \subseteq Acting(v)
    BY <1>1, <1>3, NoneJoins DEF ForUser
  <1>8. \A v \in User : acts'[v] = acts[v] /\ Barred(v)' = Barred(v)
    BY <1>1 DEF Barred, Stopped
  <1> QED BY <1>4, <1>5, <1>6, <1>7, <1>8, Summed

\* From about to set a password to having set it, by a link that may have
\* been closed meanwhile.
LEMMA UpdatePasswordOK ==
  ASSUME SessionsInv, NEW p \in Server, UpdatePassword(p)
  PROVE  SessionsInv'
  <1>1. PICK k \in Link : k = job[p].of /\ p \in Resetting(k) /\ link[k].state # "none"
    BY DEF UpdatePassword, Does, SessionsInv, About, Resetting
  <1>2. UNCHANGED <<status, token, link, spent, acts>>
    BY DEF UpdatePassword
  <1>3. PICK u \in User \cup {None} : u = job[p].user
    BY DEF SessionsInv, SessionsTypeOK, Job
  <1>4. /\ job' \in [Server -> Job] /\ job'[p].step = "spend" /\ job'[p].of = k
        /\ \A q \in Server : q # p => job'[q] = job[q]
    BY <1>1, <1>3, SetsTyped DEF UpdatePassword, SessionsInv, JobSteps
  <1>5. /\ resets' \in [Link -> Nat]
        /\ resets'[k] = IF link[k].state = "open" THEN resets[k] ELSE resets[k] + 1
        /\ \A x \in Link : x # k => resets'[x] = resets[x]
    BY <1>1 DEF UpdatePassword, SessionsInv, SessionsTypeOK
  <1>6. SessionsTypeOK' /\ Exchanged'
    BY <1>2, <1>4, <1>5 DEF SessionsInv, SessionsTypeOK, Exchanged
  <1>7. Closed'
    BY <1>1, <1>2, <1>5 DEF SessionsInv, Closed
  <1>8. About'
    BY <1>1, <1>2, <1>4, AboutStays DEF ForUser
  <1>9. ASSUME NEW x \in Link
        PROVE  \/ resets'[x] = resets[x] /\ Resetting(x)' \subseteq Resetting(x)
               \/ /\ resets'[x] = resets[x] + 1
                  /\ \E q \in Resetting(x) : Resetting(x)' \subseteq Resetting(x) \ {q}
    <2>1. Resetting(x)' \subseteq Resetting(x) \ {p}
      BY <1>4, NoneJoins
    <2> QED BY <1>1, <1>5, <2>1
  <1>10. /\ \A t \in Token : spent'[t] = spent[t] /\ Exchanging(t)' \subseteq Exchanging(t)
         /\ \A v \in User : Acting(v)' \subseteq Acting(v)
    BY <1>2, <1>4, NoneJoins DEF ForUser
  <1>11. \A v \in User : acts'[v] = acts[v] /\ Barred(v)' = Barred(v)
    BY <1>2 DEF Barred, Stopped
  <1> QED BY <1>6, <1>7, <1>8, <1>9, <1>10, <1>11, Summed

\* The requests stay where they are.
LEMMA AroundOK ==
  ASSUME SessionsInv, UNCHANGED <<job, spent, resets>>, SessionsTypeOK', Exchanged', Closed',
         \A t \in Token : token[t].state # "none" => token'[t].state # "none",
         \A k \in Link : link[k].state # "none" => link'[k].state # "none",
         \A u \in User :
           \/ acts'[u] = 0
           \/ acts'[u] = acts[u] /\ (Barred(u)' => Barred(u))
  PROVE  SessionsInv'
  <1>1. About'
    BY DEF SessionsInv, About
  <1>2. /\ \A t \in Token : spent'[t] = spent[t] /\ Exchanging(t)' \subseteq Exchanging(t)
        /\ \A k \in Link : resets'[k] = resets[k] /\ Resetting(k)' \subseteq Resetting(k)
        /\ \A u \in User : Acting(u)' \subseteq Acting(u)
    BY DEF Exchanging, Resetting, Acting
  <1> QED BY <1>1, <1>2, Summed

LEMMA LogoutOK ==
  ASSUME SessionsInv, NEW t \in Token, Logout(t)
  PROVE  SessionsInv'
  <1>1. PICK old \in TokenRow : old = token[t]
    BY DEF SessionsInv, SessionsTypeOK
  <1>2. PICK row : row = [old EXCEPT !.state = "revoked"]
    OBVIOUS
  <1>3. row = [state |-> "revoked", user |-> old.user]
    BY <1>2 DEF TokenRow
  <1>4. row \in TokenRow
    BY <1>3 DEF TokenRow
  <1>5. token' = [token EXCEPT ![t] = row] /\ UNCHANGED <<status, link, job, spent, resets, acts>>
    BY <1>1, <1>2 DEF Logout, SessionsInv, SessionsTypeOK
  <1>6. /\ token' \in [Token -> TokenRow] /\ token'[t] = row
        /\ \A x \in Token : x # t => token'[x] = token[x]
    BY <1>4, <1>5 DEF SessionsInv, SessionsTypeOK
  <1>7. SessionsTypeOK' /\ Closed'
    BY <1>5, <1>6 DEF SessionsInv, SessionsTypeOK, Closed
  <1>8. token[t].state # "none"
    BY DEF Logout, Good
  <1>9. Exchanged'
    BY <1>1, <1>3, <1>5, <1>6, <1>8 DEF SessionsInv, Exchanged
  <1>10. \A x \in Token : token[x].state # "none" => token'[x].state # "none"
    BY <1>3, <1>6
  <1>11. \A u \in User : acts'[u] = acts[u] /\ Barred(u)' = Barred(u)
    BY <1>5 DEF Barred, Stopped
  <1> QED BY <1>5, <1>7, <1>9, <1>10, <1>11, AroundOK

LEMMA ExpireLinkOK ==
  ASSUME SessionsInv, NEW k \in Link, ExpireLink(k)
  PROVE  SessionsInv'
  <1>1. UNCHANGED <<status, token, job, spent, resets, acts>>
    BY DEF ExpireLink
  <1>2. /\ link' \in [Link -> LinkRow] /\ Closed'
        /\ \A x \in Link : link[x].state # "none" => link'[x].state # "none"
    BY <1>1, LinkBecomes DEF ExpireLink
  <1>3. SessionsTypeOK' /\ Exchanged'
    BY <1>1, <1>2 DEF SessionsInv, SessionsTypeOK, Exchanged
  <1>4. \A u \in User : acts'[u] = acts[u] /\ Barred(u)' = Barred(u)
    BY <1>1 DEF Barred, Stopped
  <1> QED BY <1>1, <1>2, <1>3, <1>4, AroundOK

\* The count begins when the user is suspended.
LEMMA OperatorOK ==
  ASSUME SessionsInv, NEW u \in User, Suspend(u) \/ Reinstate(u)
  PROVE  SessionsInv'
  <1>1. UNCHANGED <<token, link, job, spent, resets>>
    BY DEF Suspend, Reinstate
  <1>2. /\ status' \in [User -> Statuses] /\ acts' \in [User -> Nat]
        /\ \A v \in User : v # u => status'[v] = status[v] /\ acts'[v] = acts[v]
        /\ \/ acts'[u] = 0
           \/ acts'[u] = acts[u] /\ status'[u] = "active"
    BY DEF Suspend, Reinstate, SessionsInv, SessionsTypeOK, Statuses
  <1>3. SessionsTypeOK' /\ Exchanged' /\ Closed'
    BY <1>1, <1>2 DEF SessionsInv, SessionsTypeOK, Exchanged, Closed
  <1>4. ASSUME NEW v \in User
        PROVE  acts'[v] = 0 \/ (acts'[v] = acts[v] /\ (Barred(v)' => Barred(v)))
    BY <1>2 DEF Barred, Stopped
  <1> QED BY <1>1, <1>3, <1>4, AroundOK

LEMMA ServerStepOK ==
  ASSUME SessionsInv, NEW p \in Server, ServerStep(p)
  PROVE  SessionsInv'
  <1>1. CASE Breaks(p)
    BY <1>1, EndsOK DEF Breaks
  <1>2. ASSUME NEW u \in Member, ForgotPassword(p, u) PROVE SessionsInv'
    BY <1>2, AdmitsOK DEF User
  <1> QED BY <1>1, <1>2, StoreTokenOK, RevokeUsedOK, LoadUserOK, StatusBecomesOK, DeleteAccountOK,
             ChangePasswordOK, DeleteUnusedResetsOK, CreateResetOK, UpdatePasswordOK,
             MarkResetUsedOK, AdmitsOK, RefreshOK, ResetPasswordOK DEF ServerStep

LEMMA SessionsStep == SessionsInv /\ [SessionsNext]_sessionVars => SessionsInv'
  <1> SUFFICES ASSUME SessionsInv, [SessionsNext]_sessionVars PROVE SessionsInv'
    OBVIOUS
  <1>1. CASE UNCHANGED sessionVars
    <2>1. UNCHANGED <<status, token, link, job, spent, resets, acts>>
      BY <1>1 DEF sessionVars
    <2>2. SessionsTypeOK' /\ Exchanged' /\ Closed'
      BY <2>1 DEF SessionsInv, SessionsTypeOK, Exchanged, Closed
    <2>3. \A u \in User : acts'[u] = acts[u] /\ Barred(u)' = Barred(u)
      BY <2>1 DEF Barred, Stopped
    <2> QED BY <2>1, <2>2, <2>3, AroundOK
  <1> QED BY <1>1, ServerStepOK, LogoutOK, ExpireLinkOK, OperatorOK DEF SessionsNext

LEMMA SessionsStart == SessionsInit => SessionsInv
  <1> SUFFICES ASSUME SessionsInit PROVE SessionsInv
    OBVIOUS
  <1>1. SessionsTypeOK
    BY DEF SessionsInit, SessionsTypeOK, Statuses, TokenRow, LinkRow, Job, JobSteps
  <1>2. Exchanged /\ Closed /\ About
    BY DEF SessionsInit, Exchanged, Closed, About, ForUser
  <1>3. /\ \A t \in Token : spent[t] = 0 /\ Exchanging(t) = {}
        /\ \A k \in Link : resets[k] = 0 /\ Resetting(k) = {}
        /\ \A u \in User : acts[u] = 0 /\ ~Barred(u)
    BY DEF SessionsInit, Exchanging, Resetting, Barred, Stopped
  <1>4. Cardinality({}) = 0
    BY FS_EmptySet
  <1>5. ASSUME NEW t \in Token PROVE spent[t] + Cardinality(Exchanging(t)) <= AtOnce
    <2>1. spent[t] = 0 /\ Cardinality(Exchanging(t)) = 0
      BY <1>3, <1>4
    <2> QED BY <2>1, Serving
  <1>6. ASSUME NEW k \in Link PROVE resets[k] + Cardinality(Resetting(k)) <= AtOnce
    <2>1. resets[k] = 0 /\ Cardinality(Resetting(k)) = 0
      BY <1>3, <1>4
    <2> QED BY <2>1, Serving
  <1>7. \A u \in User : acts[u] <= AtOnce /\ ~Barred(u)
    BY <1>3, Serving
  <1>8. Within
    BY <1>5, <1>6, <1>7 DEF Within
  <1> QED BY <1>1, <1>2, <1>8 DEF SessionsInv

LEMMA SessionsHold == SessionsSpec => []SessionsInv
  BY SessionsStart, SessionsStep, PTL DEF SessionsSpec

\* The users, tokens, links and requests keep their shape.
THEOREM SessionsTyped == SessionsSpec => []SessionsTypeOK
  <1>1. SessionsInv => SessionsTypeOK
    BY DEF SessionsInv
  <1> QED BY <1>1, SessionsHold, PTL

\* A refresh token exchanged, a reset link spent, removed or expired, an
\* account suspended or deleted: each is over for all but the requests that
\* were past their check.
THEOREM OverStaysOver == SessionsSpec => []OverMeansOver
  <1>1. ASSUME SessionsInv PROVE OverMeansOver
    <2>1. ASSUME NEW t \in Token PROVE spent[t] <= AtOnce
      <3>1. Exchanging(t) \in SUBSET Server
        BY DEF Exchanging
      <3>2. Cardinality(Exchanging(t)) \in Nat
        BY <3>1, Serving, Sizes
      <3> QED BY <1>1, <3>2, Serving DEF SessionsInv, SessionsTypeOK, Within
    <2>2. ASSUME NEW k \in Link PROVE resets[k] <= AtOnce
      <3>1. Resetting(k) \in SUBSET Server
        BY DEF Resetting
      <3>2. Cardinality(Resetting(k)) \in Nat
        BY <3>1, Serving, Sizes
      <3> QED BY <1>1, <3>2, Serving DEF SessionsInv, SessionsTypeOK, Within
    <2> QED BY <1>1, <2>1, <2>2 DEF SessionsInv, Within, OverMeansOver, SpentOnce, WindsDown
  <1> QED BY <1>1, SessionsHold, PTL

-----------------------------------------------------------------------------
(* Both: they share no variable.                                           *)

\* Neither disturbs the other: the rows of both keep their shape.
THEOREM AccountsTyped == AccountsSpec => []AccountsTypeOK
  <1>1. AccountsInit => CodesInv /\ SessionsInv
    BY CodesStart, SessionsStart DEF AccountsInit
  <1>2. ASSUME CodesInv, SessionsInv, [AccountsNext]_<<codeVars, sessionVars>>
        PROVE  CodesInv' /\ SessionsInv'
    <2>1. [CodesNext]_codeVars /\ [SessionsNext]_sessionVars
      BY <1>2 DEF AccountsNext
    <2> QED BY <1>2, <2>1, CodesStep, SessionsStep
  <1>3. CodesInv /\ SessionsInv => AccountsTypeOK
    BY DEF CodesInv, SessionsInv, AccountsTypeOK
  <1> QED BY <1>1, <1>2, <1>3, PTL DEF AccountsSpec

=============================================================================
