----------------------------- MODULE MCAccounts -----------------------------
(***************************************************************************)
(* Codes and sessions on small instances, side by side: they share no      *)
(* variable, so a behaviour of one while the other rests stands for all of *)
(* them.  Of the sessions, refresh tokens and reset links are taken in     *)
(* turn: no operation reads both.  Requests are interchangeable.           *)
(***************************************************************************)
EXTENDS OneTimeCodes, Sessions, TLC

AccountsInit == CodesInit /\ SessionsInit

\* Three codes and one account, or two codes and two accounts.
CodesBound ==
  \/ \E a \in Account : \A b \in Account \ {a} : account[b].status = "none"
  \/ Cardinality({c \in Code : code[c].sent}) <= 2

NoLink == \A k \in Link : link[k].state = "none"
NoToken == \A t \in Token : token[t].state = "none"

AccountsNext ==
  \/ SessionsInit /\ UNCHANGED sessionVars /\ CodesNext /\ CodesBound'
  \/ CodesInit /\ UNCHANGED codeVars /\ SessionsNext /\ NoLink'
  \/ CodesInit /\ UNCHANGED codeVars /\ SessionsNext /\ NoToken'

AccountsSpec == AccountsInit /\ [][AccountsNext]_<<codeVars, sessionVars>>

\* Types: both tables of rows keep their shape.
AccountsTypeOK == CodesTypeOK /\ SessionsTypeOK

Symmetry ==
  UNION {Permutations(S) : S \in {Request, Server}}

=============================================================================
